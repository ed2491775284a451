--------------------------- MODULE DeliveryProofs ---------------------------
(* What holds of Deliveries for any number of publications, subscriptions     *)
(* and servers, any bound on the mishaps, and any consumer that unwinds.      *)
EXTENDS Deliveries, LeastElement, SequenceTheorems

-----------------------------------------------------------------------------
(* Operators.                                                              *)

\* The pump comes to some delivery it listed.
LEMMA FirstIsListed ==
  ASSUME NEW todo \in SUBSET Offers, todo # {}
  PROVE  First(todo) \in todo
<1> DEFINE lines == {o[1] : o \in todo}
           line  == Min(lines)
           here  == {o \in todo : o[1] = line}
           subs  == {o[2] : o \in here}
           sub   == Min(subs)
<1>1. lines \in SUBSET Nat /\ lines # {}
  BY DEF Offers
<1>2. line \in lines /\ \A k \in lines : line <= k
  BY <1>1, MinIsLeast
<1> HIDE DEF line
<1>3. subs \in SUBSET Nat /\ subs # {}
  BY <1>2, DeliveryAssumption DEF Offers, Subs
<1>4. sub \in subs /\ \A c \in subs : sub <= c
  BY <1>3, MinIsLeast
<1> HIDE DEF sub
<1>5. PICK o \in here : o[2] = sub
  BY <1>4
<1>6. ASSUME NEW q \in todo
      PROVE  o[1] < q[1] \/ (o[1] = q[1] /\ o[2] <= q[2])
  <2>1. q[1] \in Nat /\ line \in Nat /\ line <= q[1]
    BY <1>1, <1>2
  <2>2. q[1] = line => q[2] \in subs
    OBVIOUS
  <2> QED
    BY <1>4, <1>5, <2>1, <2>2
<1> QED
  BY <1>5, <1>6 DEF First

\* How many of K lie at or below each: a numbering of K from 1 on.
LEMMA Numbering ==
  ASSUME NEW K \in SUBSET Nat, IsFiniteSet(K)
  PROVE  LET rank(i) == Cardinality({j \in K : j <= i})
         IN /\ Cardinality(K) \in Nat
            /\ \A k \in 1..Cardinality(K) : \E i \in K : rank(i) = k
<1> DEFINE n        == Cardinality(K)
           upTo(i)  == {j \in K : j <= i}
           rank     == [i \in K |-> Cardinality(upTo(i))]
<1>1. n \in Nat
  BY FS_CardinalityType
<1>2. \A i \in K : upTo(i) \in SUBSET K /\ upTo(i) # {}
  OBVIOUS
<1>3. ASSUME NEW i \in K PROVE IsFiniteSet(upTo(i)) /\ rank[i] \in 1..n
  <2>1. IsFiniteSet(upTo(i)) /\ Cardinality(upTo(i)) <= n
    BY <1>2, FS_Subset
  <2>2. Cardinality(upTo(i)) \in Nat /\ Cardinality(upTo(i)) # 0
    BY <1>2, <2>1, FS_CardinalityType, FS_EmptySet
  <2> QED
    BY <1>1, <2>1, <2>2
<1>4. ASSUME NEW i \in K, NEW j \in K, i < j PROVE rank[i] # rank[j]
  <2>1. upTo(i) \in SUBSET upTo(j) /\ upTo(i) # upTo(j)
    <3>1. upTo(i) \in SUBSET upTo(j)
      <4>1. \A k \in K : k <= i => k <= j
        <5>1. i \in Nat /\ j \in Nat /\ \A k \in K : k \in Nat
          OBVIOUS
        <5> QED
          BY <1>4, <5>1
      <4> QED
        BY <4>1
    <3>2. j \in upTo(j) /\ j \notin upTo(i)
      BY <1>4
    <3> QED
      BY <3>1, <3>2
  <2>2. Cardinality(upTo(i)) # Cardinality(upTo(j))
    BY <1>3, <2>1, FS_Subset
  <2> QED
    BY <2>2
<1>5. rank \in Injection(K, 1..n)
  <2>1. \A i, j \in K : i < j \/ j < i \/ i = j
    OBVIOUS
  <2>2. \A i, j \in K : rank[i] = rank[j] => i = j
    BY <1>4, <2>1
  <2>3. rank \in [K -> 1..n]
    BY <1>3
  <2> HIDE DEF rank
  <2> QED
    BY <2>2, <2>3 DEF Injection, IsInjective
<1>6. IsFiniteSet(1..n) /\ Cardinality(1..n) = n
  BY <1>1, FS_Interval
<1>7. rank \in Surjection(K, 1..n)
  BY <1>5, <1>6, FS_Injection
<1>8. \A k \in 1..n : \E i \in K : rank[i] = k
  BY <1>7 DEF Surjection
<1> QED
  BY <1>1, <1>8

\* The lines of one publication.
LinesOf(seq, p) == {i \in DOMAIN seq : seq[i] = p}

\* What retention leaves of a log is a log, of the lines it kept and no others.
LEMMA KeptLines ==
  ASSUME NEW S, NEW seq \in Seq(S), NEW K \in SUBSET DOMAIN seq
  PROVE  LET out == AtLines(seq, K)
         IN /\ out \in Seq(S)
            /\ {out[k] : k \in DOMAIN out} = {seq[i] : i \in K}
            /\ \A p : /\ IsFiniteSet(LinesOf(seq, p))
                      /\ Cardinality(LinesOf(out, p)) <= Cardinality(LinesOf(seq, p))
<1> DEFINE out  == AtLines(seq, K)
           n    == Cardinality(K)
           rank == [i \in K |-> Cardinality({j \in K : j <= i})]
           at   == [k \in 1..n |-> CHOOSE i \in K : Cardinality({j \in K : j <= i}) = k]
<1>1. DOMAIN seq = 1..Len(seq) /\ Len(seq) \in Nat /\ \A i \in DOMAIN seq : seq[i] \in S
  BY LenProperties, ElementOfSeq
<1>2. IsFiniteSet(DOMAIN seq)
  BY <1>1, FS_Interval
<1>3. IsFiniteSet(K) /\ K \in SUBSET Nat
  BY <1>1, <1>2, FS_Subset
<1>4. n \in Nat /\ \A k \in 1..n : \E i \in K : Cardinality({j \in K : j <= i}) = k
  BY <1>3, Numbering
<1>5. ASSUME NEW k \in 1..n PROVE at[k] \in K /\ rank[at[k]] = k
  BY <1>4
<1>6. out = [k \in 1..n |-> seq[at[k]]]
  BY DEF AtLines
<1> HIDE DEF at, rank, out, n
<1>7. at \in Surjection(1..n, K)
  <2>1. at \in [1..n -> K]
    BY <1>5 DEF at
  <2>2. at \in Injection(1..n, K)
    BY <1>5, <2>1 DEF Injection, IsInjective
  <2>3. Cardinality(1..n) = Cardinality(K)
    BY <1>4, FS_Interval DEF n
  <2> QED
    BY <1>3, <2>2, <2>3, FS_Injection
<1>8. DOMAIN out = 1..n /\ \A k \in 1..n : out[k] = seq[at[k]]
  BY <1>6
<1>9. out \in Seq(S)
  <2>1. out \in [1..n -> S]
    BY <1>1, <1>5, <1>6
  <2> QED
    BY <1>4, <2>1, SeqDef
<1>10. {out[k] : k \in DOMAIN out} = {seq[i] : i \in K}
  <2>1. \A i \in K : \E k \in 1..n : at[k] = i
    BY <1>7 DEF Surjection
  <2> QED
    BY <1>5, <1>8, <2>1
<1>11. ASSUME NEW p
       PROVE  /\ IsFiniteSet(LinesOf(seq, p))
              /\ Cardinality(LinesOf(out, p)) <= Cardinality(LinesOf(seq, p))
  <2> DEFINE fewer == {k \in DOMAIN out : out[k] = p}
             all  == {i \in DOMAIN seq : seq[i] = p}
             f    == [k \in fewer |-> at[k]]
  <2>1. IsFiniteSet(all)
    BY <1>2, FS_Subset
  <2>2. \A k \in fewer : k \in 1..n /\ at[k] \in all
    BY <1>5, <1>8
  <2>3. f \in Injection(fewer, all)
    <3> HIDE DEF fewer, all
    <3>1. f \in [fewer -> all] /\ \A k \in fewer : f[k] = at[k]
      BY <2>2
    <3> HIDE DEF f
    <3> QED
      BY <1>5, <2>2, <3>1 DEF Injection, IsInjective
  <2> HIDE DEF f
  <2>4. Cardinality(fewer) <= Cardinality(all)
    BY <2>1, <2>3, FS_Injection
  <2>5. fewer = LinesOf(out, p) /\ all = LinesOf(seq, p)
    BY DEF LinesOf
  <2> QED
    BY <2>1, <2>4, <2>5
<1> QED
  BY <1>9, <1>10, <1>11 DEF out

-----------------------------------------------------------------------------
(* Types.                                                                  *)

\* What the types leave out: a pump that has not listed has nothing to come to, one
\* that ran a consumer has its outcome; what is appended has been published.
PumpSane(w) ==
  /\ w.at \in {"idle", "flush", "list"} => w.todo = {}
  /\ w.at = "ran" => w.todo # {} /\ w.outcome \in {"delivered", "failed"}
Published(S) == \A p \in S : commit[p] # Never
Sane ==
  /\ Published(appending)
  /\ \A s \in Servers : PumpSane(pump[s]) /\ Published(boot[s].todo)
  /\ \A s \in Servers : boot[s].at # "append" => boot[s].todo = {}
TypeInv == TypeOK /\ Sane

LEMMA Spending ==
  ASSUME TypeInv, NEW what \in Mishaps, Spend(what)
  PROVE  left' \in [Kinds -> Nat]
<1>1. left \in [Kinds -> Nat] /\ what \in Kinds /\ "any" \in Kinds /\ what # "any"
  BY DEF TypeInv, TypeOK, Kinds, Mishaps
<1> QED
  BY <1>1 DEF Spend

LEMMA LogTypes ==
  ASSUME TypeInv
  PROVE  /\ DOMAIN log = 1..Len(log) /\ Len(log) \in Nat
         /\ \A i \in DOMAIN log : log[i] \in Pubs
         /\ OnLog \subseteq Pubs
         /\ Pending \in SUBSET Offers
<1>1. log \in Seq(Pubs)
  BY DEF TypeInv, TypeOK
<1>2. DOMAIN log = 1..Len(log) /\ Len(log) \in Nat /\ \A i \in DOMAIN log : log[i] \in Pubs
  BY <1>1, LenProperties, ElementOfSeq
<1>3. OnLog \subseteq Pubs
  BY <1>2 DEF OnLog
<1>4. Pending \in SUBSET Offers
  BY <1>2 DEF Pending, Offers
<1> QED
  BY <1>2, <1>3, <1>4

LEMMA OfferTypes ==
  ASSUME TypeInv, NEW s \in Servers, NEW o \in pump[s].todo
  PROVE  /\ o[1] \in Nat /\ o[2] \in Subs /\ o[3] \in Pubs
         /\ Delivery(o) \in Deliveries /\ Sub(Delivery(o)) = o[2] /\ Pub(Delivery(o)) = o[3]
<1>1. o \in Offers
  BY DEF TypeInv, TypeOK, Pump
<1> QED
  BY <1>1 DEF Offers, Delivery, Deliveries, Sub, Pub

\* What a pump has in hand is one of what it listed.
LEMMA TurnIsListed ==
  ASSUME TypeInv, NEW s \in Servers, pump[s].todo # {}
  PROVE  /\ First(pump[s].todo) \in pump[s].todo
         /\ Turn(s) = Delivery(First(pump[s].todo))
         /\ Turn(s) \in Deliveries /\ Sub(Turn(s)) \in Subs
<1>1. pump[s].todo \in SUBSET Offers
  BY DEF TypeInv, TypeOK, Pump
<1>2. First(pump[s].todo) \in pump[s].todo
  BY <1>1, FirstIsListed
<1> QED
  BY <1>2, OfferTypes DEF Turn

\* What is left of a pump when it goes on.
LEMMA OnwardIs ==
  ASSUME TypeInv, NEW s \in Servers, pump[s].todo # {}
  PROVE  /\ Onward(s) \in Pump /\ PumpSane(Onward(s))
         /\ Onward(s).at = "each"
         /\ Onward(s).todo = pump[s].todo \ {First(pump[s].todo)}
<1> DEFINE o == First(pump[s].todo)
<1>1. pump[s] \in Pump
  BY DEF TypeInv, TypeOK
<1> HIDE DEF o
<1>2. Onward(s) = [pump[s] EXCEPT !.at = "each", !.todo = pump[s].todo \ {o}, !.outcome = "none"]
  BY DEF Onward, o
<1>3. /\ Onward(s).at = "each"
      /\ Onward(s).todo = pump[s].todo \ {o}
  BY <1>1, <1>2 DEF Pump
<1>4. Onward(s) \in Pump
  BY <1>1, <1>2 DEF Pump, Outcomes
<1> QED
  BY <1>3, <1>4 DEF PumpSane, o

LEMMA NullTypes ==
  /\ Owed \in Record /\ Owed.state = "none"
  /\ PumpIdle \in Pump /\ PumpSane(PumpIdle) /\ PumpIdle.at = "idle" /\ PumpIdle.todo = {}
  /\ BootDone \in Boot /\ BootDone.at = "done" /\ BootDone.todo = {}
  /\ PruneIdle \in Prune /\ PruneIdle.at = "idle"
<1>1. Owed \in Record /\ Owed.state = "none"
  BY DEF Record, Owed
<1>2. 0 \in 0..MaxDay
  BY DeliveryAssumption
<1>3. PumpIdle \in Pump /\ PumpSane(PumpIdle) /\ PumpIdle.at = "idle" /\ PumpIdle.todo = {}
  BY <1>2 DEF PumpIdle, Pump, PumpSane, Outcomes
<1>4. BootDone \in Boot /\ BootDone.at = "done" /\ BootDone.todo = {}
  BY <1>2 DEF BootDone, Boot
<1>5. PruneIdle \in Prune /\ PruneIdle.at = "idle"
  BY <1>1 DEF PruneIdle, Prune
<1> QED
  BY <1>1, <1>3, <1>4, <1>5

\* What one server's pump becomes, and the duty with it.
LEMMA SettingPump ==
  ASSUME TypeInv, NEW s \in Servers, NEW w \in Pump, PumpSane(w),
         pump' = [pump EXCEPT ![s] = w], duty' \in Servers \cup {Nobody}, up' = up,
         w.at # "idle" => duty' = s /\ s \in up,
         duty' = duty \/ duty = Nobody \/ duty = s
  PROVE  /\ pump' \in [Servers -> Pump]
         /\ \A r \in Servers : PumpSane(pump'[r])
         /\ \A r \in Servers : pump'[r].at # "idle" => duty' = r /\ r \in up'
<1> USE DEF TypeInv, TypeOK, Sane
<1>1. pump' \in [Servers -> Pump]
  OBVIOUS
<1>2. \A r \in Servers : pump'[r] = IF r = s THEN w ELSE pump[r]
  OBVIOUS
<1>3. \A r \in Servers : PumpSane(pump'[r])
  BY <1>2
<1>4. ASSUME NEW r \in Servers, pump'[r].at # "idle"
      PROVE  duty' = r /\ r \in up'
  <2>1. CASE r = s
    BY <1>2, <1>4, <2>1
  <2>2. CASE r # s
    <3>1. duty = r /\ r \in up /\ r # Nobody
      BY <1>2, <1>4, <2>2, DeliveryAssumption
    <3> QED
      BY <2>2, <3>1
  <2> QED
    BY <2>1, <2>2
<1> QED
  BY <1>1, <1>3, <1>4

\* A line more.
LEMMA AppendedTypes ==
  ASSUME TypeInv, NEW p \in Pubs, Appended(p)
  PROVE  /\ log' \in Seq(Pubs) /\ OnLog' = OnLog \cup {p}
         /\ twins' \in [Pubs -> Nat] /\ swept' = swept
         /\ DOMAIN log' = DOMAIN log \cup {Len(log) + 1}
         /\ Len(log) + 1 \notin DOMAIN log /\ log'[Len(log) + 1] = p
         /\ \A i \in DOMAIN log : log'[i] = log[i]
<1> USE DEF TypeInv, TypeOK, Appended
<1>1. /\ log' \in Seq(Pubs) /\ Len(log') = Len(log) + 1
      /\ \A i \in 1..Len(log) : log'[i] = log[i]
      /\ log'[Len(log) + 1] = p
  BY AppendProperties
<1>2. DOMAIN log' = 1..(Len(log) + 1) /\ DOMAIN log = 1..Len(log) /\ Len(log) \in Nat
  BY <1>1, LenProperties
<1>3. DOMAIN log' = DOMAIN log \cup {Len(log) + 1} /\ Len(log) + 1 \notin DOMAIN log
  BY <1>2
<1>4. OnLog' = OnLog \cup {p}
  BY <1>1, <1>2, <1>3 DEF OnLog
<1>5. twins' \in [Pubs -> Nat]
  <2>1. twins[p] + (IF p \in OnLog THEN 1 ELSE 0) \in Nat
    OBVIOUS
  <2> QED
    BY <2>1
<1> QED
  BY <1>1, <1>2, <1>3, <1>4, <1>5

\* A publication, its event, and the loss of it.
LEMMA ProducerTyped ==
  ASSUME TypeInv, NEW p \in Pubs, Publish(p) \/ AppendEvent(p) \/ AppendLost(p)
  PROVE  TypeInv'
<1> USE DEF TypeInv, TypeOK, Sane, Published
<1>1. CASE Publish(p)
  <2>1. commit' = [commit EXCEPT ![p] = day] /\ appending' = appending \cup {p} /\ commit[p] = Never
    BY <1>1 DEF Publish
  <2>2. day \in 0..Never /\ day # Never
    BY DeliveryAssumption DEF Never
  <2>3. commit' \in [Pubs -> 0..Never] /\ \A q \in Pubs : commit[q] # Never => commit'[q] # Never
    BY <2>1, <2>2
  <2>4. Published(appending)'
    BY <2>1, <2>2, <2>3
  <2>5. (\A q \in OnLog : commit[q] # Never)'
    BY <1>1, <2>3, LogTypes DEF Publish, events, OnLog
  <2>6. \A s \in Servers : Published(boot[s].todo)'
    BY <1>1, <2>3 DEF Publish, servers, Boot
  <2> QED
    BY <1>1, <2>1, <2>3, <2>4, <2>5, <2>6 DEF Publish, events, told, servers
<1>2. CASE AppendEvent(p)
  <2>1. p \in appending /\ appending' = appending \ {p} /\ Appended(p)
    BY <1>2 DEF AppendEvent
  <2>2. log' \in Seq(Pubs) /\ OnLog' = OnLog \cup {p} /\ twins' \in [Pubs -> Nat] /\ swept' = swept
    BY <2>1, AppendedTypes
  <2>3. (\A q \in OnLog : commit[q] # Never)'
    BY <1>2, <2>1, <2>2 DEF AppendEvent
  <2> QED
    BY <1>2, <2>1, <2>2, <2>3 DEF AppendEvent, told, servers
<1>3. CASE AppendLost(p)
  <2>1. left' \in [Kinds -> Nat]
    BY <1>3, Spending DEF AppendLost, Mishaps
  <2>2. OnLog' = OnLog
    BY <1>3 DEF AppendLost, events, OnLog
  <2> QED
    BY <1>3, <2>1, <2>2 DEF AppendLost, events, told, servers
<1> QED
  BY <1>1, <1>2, <1>3

\* An outcome in the ledger or held.
LEMMA RecordTypes ==
  ASSUME TypeInv, NEW s \in Servers, NEW d \in Deliveries,
         NEW state \in {"delivered", "failed"}, RecordOrHold(s, d, state)
  PROVE  ledger' \in [Deliveries -> Record] /\ held' \in [Servers -> [Deliveries -> Record]]
<1> DEFINE r == [state |-> state, at |-> pump[s].now]
<1>1. r \in Record
  BY DEF TypeInv, TypeOK, Pump, Record
<1>2. IF writable THEN ledger' = [ledger EXCEPT ![d] = r] /\ held' = held
                  ELSE held' = [held EXCEPT ![s][d] = r] /\ ledger' = ledger
  BY DEF RecordOrHold
<1> HIDE DEF r
<1>3. [ledger EXCEPT ![d] = r] \in [Deliveries -> Record]
  BY <1>1 DEF TypeInv, TypeOK
<1>4. [held EXCEPT ![s][d] = r] \in [Servers -> [Deliveries -> Record]]
  <2>1. [held[s] EXCEPT ![d] = r] \in [Deliveries -> Record]
    BY <1>1 DEF TypeInv, TypeOK
  <2>2. [held EXCEPT ![s] = [held[s] EXCEPT ![d] = r]] \in [Servers -> [Deliveries -> Record]]
    BY <2>1 DEF TypeInv, TypeOK
  <2> QED
    BY <2>2
<1> QED
  BY <1>2, <1>3, <1>4 DEF TypeInv, TypeOK

\* The steps of a pump up to its list.
LEMMA PumpBegins ==
  ASSUME TypeInv, NEW s \in Servers, TakeDuty(s) \/ Flush(s) \/ List(s)
  PROVE  TypeInv'
<1> DEFINE w == pump[s]
<1>1. w \in Pump
  BY DEF TypeInv, TypeOK
<1>2. CASE TakeDuty(s)
  <2> DEFINE new == [w EXCEPT !.at = "flush"]
  <2>1. w.at = "idle"
    <3>1. duty = Nobody
      BY <1>2 DEF TakeDuty
    <3> QED
      BY <3>1, DeliveryAssumption DEF TypeInv, TypeOK
  <2>2. new \in Pump /\ new.at = "flush" /\ new.todo = w.todo /\ w.todo = {}
    BY <1>1, <2>1 DEF Pump, TypeInv, Sane, PumpSane
  <2>3. pump' = [pump EXCEPT ![s] = new] /\ duty = Nobody /\ duty' = s /\ s \in up /\ up' = up
    BY <1>2 DEF TakeDuty
  <2>4. PumpSane(new)
    BY <2>2 DEF PumpSane
  <2> HIDE DEF new, w
  <2>5. /\ pump' \in [Servers -> Pump]
        /\ \A r \in Servers : PumpSane(pump'[r])
        /\ \A r \in Servers : pump'[r].at # "idle" => duty' = r /\ r \in up'
    BY <2>2, <2>3, <2>4, SettingPump
  <2> QED
    BY <1>2, <2>3, <2>5 DEF TakeDuty, producer, events, told, TypeInv, TypeOK, Sane, Published, PumpSane, OnLog
<1>3. CASE Flush(s)
  <2> DEFINE new == [w EXCEPT !.at = "list"]
  <2>1. w.at = "flush" /\ duty = s /\ s \in up
    BY <1>3 DEF Flush, TypeInv, TypeOK
  <2>2. new \in Pump /\ new.at = "list" /\ new.todo = w.todo /\ w.todo = {}
    BY <1>1, <2>1 DEF Pump, TypeInv, Sane, PumpSane
  <2>3. pump' = [pump EXCEPT ![s] = new] /\ duty' = duty /\ up' = up
    BY <1>3 DEF Flush
  <2>4. PumpSane(new)
    BY <2>2 DEF PumpSane
  <2> HIDE DEF new, w
  <2>5. /\ pump' \in [Servers -> Pump]
        /\ \A r \in Servers : PumpSane(pump'[r])
        /\ \A r \in Servers : pump'[r].at # "idle" => duty' = r /\ r \in up'
    BY <2>1, <2>2, <2>3, <2>4, SettingPump
  <2>6. ledger' \in [Deliveries -> Record] /\ held' \in [Servers -> [Deliveries -> Record]]
    <3>1. [d \in Deliveries |-> Owed] \in [Deliveries -> Record]
      BY NullTypes
    <3>2. [d \in Deliveries |-> IF held[s][d] # Owed THEN held[s][d] ELSE ledger[d]]
            \in [Deliveries -> Record]
      BY DEF TypeInv, TypeOK
    <3> QED
      BY <1>3, <3>1, <3>2 DEF Flush, told, TypeInv, TypeOK
  <2> QED
    BY <1>3, <2>3, <2>5, <2>6 DEF Flush, producer, events, TypeInv, TypeOK, Sane, Published, PumpSane, OnLog
<1>4. CASE List(s)
  <2> DEFINE new == [at |-> "each", now |-> day, todo |-> Pending, outcome |-> "none"]
  <2>1. w.at = "list" /\ duty = s /\ s \in up
    BY <1>4 DEF List, TypeInv, TypeOK
  <2>2. new \in Pump /\ PumpSane(new)
    BY LogTypes DEF Pump, Outcomes, PumpSane, TypeInv, TypeOK
  <2>3. pump' = [pump EXCEPT ![s] = new] /\ duty' = duty /\ up' = up
    BY <1>4 DEF List
  <2> HIDE DEF new, w
  <2>5. /\ pump' \in [Servers -> Pump]
        /\ \A r \in Servers : PumpSane(pump'[r])
        /\ \A r \in Servers : pump'[r].at # "idle" => duty' = r /\ r \in up'
    BY <2>1, <2>2, <2>3, SettingPump
  <2> QED
    BY <1>4, <2>3, <2>5 DEF List, producer, events, told, TypeInv, TypeOK, Sane, Published, PumpSane, OnLog
<1> QED
  BY <1>2, <1>3, <1>4

\* The steps of a pump on what it listed.
LEMMA PumpGoesOn ==
  ASSUME TypeInv, NEW s \in Servers,
         Skip(s) \/ CannotRun(s) \/ RunConsumer(s) \/ RecordOutcome(s) \/ Panic(s) \/ EndPump(s)
  PROVE  TypeInv'
<1> DEFINE w == pump[s]
           d == Turn(s)
           Sound == /\ pump' \in [Servers -> Pump]
                    /\ \A r \in Servers : PumpSane(pump'[r])
                    /\ \A r \in Servers : pump'[r].at # "idle" => duty' = r /\ r \in up'
<1>1. w \in Pump /\ w.at # "idle" /\ duty = s /\ s \in up
  BY DEF TypeInv, TypeOK, Skip, CannotRun, RunConsumer, RecordOutcome, Panic, EndPump, Considers
<1>2. ASSUME w.todo # {}, pump' = [pump EXCEPT ![s] = Onward(s)], duty' = duty, up' = up
      PROVE  Sound
  BY <1>1, <1>2, OnwardIs, SettingPump
<1>3. ASSUME pump' = [pump EXCEPT ![s] = PumpIdle], duty' = Nobody, up' = up
      PROVE  Sound
  BY <1>1, <1>3, NullTypes, SettingPump
<1>4. ~EndPump(s) => w.todo # {} /\ d \in Deliveries /\ Sub(d) \in Subs
  BY TurnIsListed DEF TypeInv, Sane, PumpSane, Skip, CannotRun, RunConsumer, RecordOutcome, Panic, Considers
<1> USE DEF producer, events, told, TypeInv, TypeOK, Sane, Published, OnLog
<1>5. CASE Skip(s)
  <2>1. Sound
    BY <1>2, <1>5 DEF Skip, Considers
  <2> QED
    BY <1>5, <2>1 DEF Skip
<1>6. CASE CannotRun(s)
  <2>1. Sound
    BY <1>2, <1>6 DEF CannotRun, Considers
  <2>2. w.todo # {} /\ d \in Deliveries
    BY <1>6, TurnIsListed DEF CannotRun, Considers
  <2>3. ledger' \in [Deliveries -> Record] /\ held' \in [Servers -> [Deliveries -> Record]]
    BY <1>6, <2>2, RecordTypes DEF CannotRun
  <2> QED
    BY <1>6, <2>1, <2>3 DEF CannotRun
<1>7. CASE RunConsumer(s)
  <2>1. w.todo # {} /\ d \in Deliveries /\ Sub(d) \in Subs
    BY <1>7, TurnIsListed DEF RunConsumer, Considers
  <2> HIDE DEF d
  <2>2. PICK outcome \in {"delivered", "failed"} :
           pump' = [pump EXCEPT ![s].at = "ran", ![s].outcome = outcome]
    BY <1>7 DEF RunConsumer
  <2> DEFINE new == [w EXCEPT !.at = "ran", !.outcome = outcome]
  <2>3. pump' = [pump EXCEPT ![s] = new]
    BY <2>2
  <2>4. new \in Pump /\ PumpSane(new)
    BY <1>1, <2>1 DEF Pump, Outcomes, PumpSane
  <2>5. duty' = duty /\ up' = up
    BY <1>7 DEF RunConsumer
  <2> HIDE DEF new
  <2>6. Sound
    BY <1>1, <2>3, <2>4, <2>5, SettingPump
  <2>7. lock' \in [Subs -> Servers \cup {Nobody, Other}]
    BY <1>7, <2>1 DEF RunConsumer, d
  <2>8. starts' \in [Deliveries -> 0..MaxStarts]
    <3>1. starts' = starts \/ starts' = [starts EXCEPT ![d] = IF @ < MaxStarts THEN @ + 1 ELSE @]
      BY <1>7 DEF RunConsumer, d
    <3>2. (IF starts[d] < MaxStarts THEN starts[d] + 1 ELSE starts[d]) \in 0..MaxStarts
      BY <2>1, DeliveryAssumption
    <3> QED
      BY <2>1, <3>1, <3>2
  <2> QED
    BY <1>7, <2>6, <2>7, <2>8 DEF RunConsumer
<1>8. CASE RecordOutcome(s)
  <2>1. w.todo # {} /\ d \in Deliveries /\ Sub(d) \in Subs /\ w.outcome \in {"delivered", "failed"}
    BY <1>8, TurnIsListed DEF RecordOutcome, PumpSane
  <2>2. Sound
    BY <1>2, <1>8, <2>1 DEF RecordOutcome
  <2>3. ledger' \in [Deliveries -> Record] /\ held' \in [Servers -> [Deliveries -> Record]]
    BY <1>8, <2>1, RecordTypes DEF RecordOutcome
  <2>4. lock' \in [Subs -> Servers \cup {Nobody, Other}]
    BY <1>8, <2>1 DEF RecordOutcome
  <2> QED
    BY <1>8, <2>2, <2>3, <2>4 DEF RecordOutcome
<1>9. CASE Panic(s)
  <2>1. Sound
    BY <1>3, <1>9 DEF Panic
  <2>2. left' \in [Kinds -> Nat]
    BY <1>9, Spending DEF Panic, Mishaps
  <2>3. lock' \in [Subs -> Servers \cup {Nobody, Other}]
    BY <1>9 DEF Panic
  <2> QED
    BY <1>9, <2>1, <2>2, <2>3 DEF Panic
<1>10. CASE EndPump(s)
  <2>1. Sound
    BY <1>3, <1>10 DEF EndPump
  <2> QED
    BY <1>10, <2>1 DEF EndPump
<1> QED
  BY <1>5, <1>6, <1>7, <1>8, <1>9, <1>10

\* A server dies, and starts.
LEMMA ServerTyped ==
  ASSUME TypeInv, NEW s \in Servers, Crash(s) \/ BootReads(s) \/ BootStep(s)
  PROVE  TypeInv'
<1> USE DEF producer, told, TypeInv, TypeOK, Sane, Published
<1>1. CASE Crash(s)
  <2>1. pump' = [pump EXCEPT ![s] = PumpIdle] /\ boot' = [boot EXCEPT ![s] = BootDone]
    BY <1>1 DEF Crash
  <2>2. pump' \in [Servers -> Pump] /\ boot' \in [Servers -> Boot]
    BY <2>1, NullTypes
  <2>3. \A r \in Servers : PumpSane(pump'[r]) /\ Published(boot'[r].todo)
    BY <2>1, NullTypes
  <2>4. \A r \in Servers : pump'[r].at # "idle" => duty' = r /\ r \in up'
    BY <1>1, <2>1, NullTypes, DeliveryAssumption DEF Crash
  <2>5. [d \in Deliveries |-> Owed] \in [Deliveries -> Record]
    BY NullTypes
  <2>6. held' \in [Servers -> [Deliveries -> Record]]
    BY <1>1, <2>5 DEF Crash
  <2>7. lock' \in [Subs -> Servers \cup {Nobody, Other}]
    BY <1>1 DEF Crash
  <2>8. left' \in [Kinds -> Nat]
    BY <1>1, Spending DEF Crash, Mishaps
  <2>9. OnLog' = OnLog
    BY <1>1 DEF Crash, events, OnLog
  <2>10. \A r \in Servers : boot'[r].at # "append" => boot'[r].todo = {}
    BY <2>1, NullTypes
  <2> QED
    BY <1>1, <2>2, <2>3, <2>4, <2>6, <2>7, <2>8, <2>9, <2>10 DEF Crash, events
<1>2. CASE BootReads(s)
  <2> DEFINE new == [at |-> "read", known |-> OnLog, todo |-> {}, swept |-> swept]
  <2>1. new \in Boot /\ new.todo = {}
    BY LogTypes DEF Boot
  <2>2. boot' = [boot EXCEPT ![s] = new]
    BY <1>2 DEF BootReads
  <2> HIDE DEF new
  <2>3. /\ boot' \in [Servers -> Boot]
        /\ \A r \in Servers : Published(boot'[r].todo)
        /\ \A r \in Servers : boot'[r].at # "append" => boot'[r].todo = {}
    BY <2>1, <2>2
  <2>4. OnLog' = OnLog
    BY <1>2 DEF BootReads, events, OnLog
  <2> QED
    BY <1>2, <2>3, <2>4 DEF BootReads, events
<1>3. CASE BootLists(s)
  <2> DEFINE new == [boot[s] EXCEPT !.at = "append", !.todo = Missing(s)]
  <2>1. Missing(s) \subseteq Pubs /\ Published(Missing(s))
    BY DEF Missing
  <2>2. new \in Boot /\ new.todo = Missing(s) /\ new.at = "append"
    BY <2>1 DEF Boot
  <2>3. boot' = [boot EXCEPT ![s] = new]
    BY <1>3 DEF BootLists
  <2> HIDE DEF new
  <2>4. /\ boot' \in [Servers -> Boot]
        /\ \A r \in Servers : Published(boot'[r].todo)
        /\ \A r \in Servers : boot'[r].at # "append" => boot'[r].todo = {}
    BY <2>1, <2>2, <2>3
  <2>5. OnLog' = OnLog /\ commit' = commit
    BY <1>3 DEF BootLists, events, OnLog
  <2> QED
    BY <1>3, <2>4, <2>5 DEF BootLists, events
<1>4. CASE BootAppends(s) /\ boot[s].todo = {}
  <2>1. boot' = [boot EXCEPT ![s] = BootDone]
    BY <1>4 DEF BootAppends
  <2>2. /\ boot' \in [Servers -> Boot]
        /\ \A r \in Servers : Published(boot'[r].todo)
        /\ \A r \in Servers : boot'[r].at # "append" => boot'[r].todo = {}
    BY <2>1, NullTypes
  <2>3. OnLog' = OnLog
    BY <1>4 DEF BootAppends, events, OnLog
  <2> QED
    BY <1>4, <2>2, <2>3 DEF BootAppends, events
<1>5. CASE BootAppends(s) /\ boot[s].todo # {}
  <2>1. PICK p \in boot[s].todo :
          boot' = [boot EXCEPT ![s].todo = @ \ {p}] /\ Appended(p)
    BY <1>5 DEF BootAppends
  <2> DEFINE new == [boot[s] EXCEPT !.todo = @ \ {p}]
  <2>2. p \in Pubs /\ commit[p] # Never /\ boot[s].at = "append"
    BY <1>5 DEF Boot, BootAppends
  <2>3. new \in Boot /\ new.todo = boot[s].todo \ {p} /\ new.at = "append"
    BY <2>2 DEF Boot
  <2>4. boot' = [boot EXCEPT ![s] = new]
    BY <2>1
  <2> HIDE DEF new
  <2>5. /\ boot' \in [Servers -> Boot]
        /\ \A r \in Servers : Published(boot'[r].todo)
        /\ \A r \in Servers : boot'[r].at # "append" => boot'[r].todo = {}
    BY <2>3, <2>4
  <2>6. log' \in Seq(Pubs) /\ OnLog' = OnLog \cup {p} /\ twins' \in [Pubs -> Nat] /\ swept' = swept
    BY <2>1, <2>2, AppendedTypes
  <2> QED
    BY <1>5, <2>2, <2>5, <2>6 DEF BootAppends
<1> QED
  BY <1>2, <1>1, <1>3, <1>4, <1>5 DEF BootStep

\* What a decision is made of.
LEMMA DecideTypes ==
  ASSUME TypeInv, NEW days \in SUBSET {"deliveries", "materializations"}, NEW fresh \in BOOLEAN
  PROVE  Decide(days, fresh) \in Prune
<1> DEFINE c == Decide(days, fresh)
<1>1. c.events \in SUBSET Pubs
  BY LogTypes DEF Decide
<1>2. c.ledger \in [Deliveries -> Record]
  BY NullTypes DEF Decide, TypeInv, TypeOK
<1>3. c.at = "deliveries" /\ c.rows = days
      /\ c = [at |-> c.at, ledger |-> c.ledger, events |-> c.events, rows |-> c.rows]
  BY DEF Decide
<1> HIDE DEF c
<1>4. c \in Prune
  BY <1>1, <1>2, <1>3 DEF Prune
<1> QED
  BY <1>4 DEF c

LEMMA PruneTyped ==
  ASSUME TypeInv,
         \/ \E days \in SUBSET {"deliveries", "materializations"}, fresh \in BOOLEAN :
              PruneDecides(days, fresh)
         \/ PruneStep \/ PruneStops
  PROVE  TypeInv'
<1> USE DEF producer, events, told, servers, TypeInv, TypeOK, Sane, Published, OnLog
<1>1. ASSUME NEW days \in SUBSET {"deliveries", "materializations"}, NEW fresh \in BOOLEAN,
             PruneDecides(days, fresh)
      PROVE  TypeInv'
  <2>1. prune' \in Prune
    BY <1>1, DecideTypes DEF PruneDecides
  <2>2. left' \in [Kinds -> Nat]
    BY <1>1, Spending DEF PruneDecides, Mishaps
  <2> QED
    BY <1>1, <2>1, <2>2 DEF PruneDecides
<1>2. CASE PruneDeliveries
  <2>1. prune' \in Prune
    BY <1>2 DEF PruneDeliveries, Prune
  <2>2. ledger' \in [Deliveries -> Record]
    BY <1>2 DEF PruneDeliveries, Prune
  <2> QED
    BY <1>2, <2>1, <2>2 DEF PruneDeliveries
<1>3. CASE PruneEvents
  <2> DEFINE K == {i \in DOMAIN log : log[i] \in prune.events}
  <2>1. log' = log \/ log' = AtLines(log, K)
    BY <1>3 DEF PruneEvents
  <2>2. /\ AtLines(log, K) \in Seq(Pubs)
        /\ {AtLines(log, K)[k] : k \in DOMAIN AtLines(log, K)} = {log[i] : i \in K}
    <3>1. log \in Seq(Pubs) /\ K \in SUBSET DOMAIN log
      OBVIOUS
    <3> HIDE DEF K, TypeInv, TypeOK, Sane
    <3> QED
      BY <3>1, KeptLines
  <2> DEFINE out == AtLines(log, K)
  <2>3. \A k \in DOMAIN out : out[k] \in OnLog
    <3>1. \A k \in DOMAIN out : out[k] \in {log[i] : i \in K}
      <4> HIDE DEF out, K
      <4>1. \A k \in DOMAIN out : out[k] \in {out[l] : l \in DOMAIN out}
        OBVIOUS
      <4>2. {out[k] : k \in DOMAIN out} = {log[i] : i \in K}
        BY <2>2 DEF out
      <4> QED
        BY <4>1, <4>2
    <3> HIDE DEF out
    <3> QED
      BY <3>1
  <2>4. out \in Seq(Pubs) /\ (log' = log \/ log' = out)
    BY <2>1, <2>2
  <2> HIDE DEF out
  <2>5. log' \in Seq(Pubs) /\ OnLog' \subseteq OnLog
    BY <2>3, <2>4
  <2>6. prune' \in Prune
    BY <1>3, NullTypes DEF PruneEvents, Prune
  <2> QED
    BY <1>3, <2>5, <2>6 DEF PruneEvents
<1>4. CASE PruneHorizon
  BY <1>4, NullTypes DEF PruneHorizon
<1>5. CASE PruneStops
  <2>1. left' \in [Kinds -> Nat]
    BY <1>5, Spending DEF PruneStops, Mishaps
  <2> QED
    BY <1>5, <2>1, NullTypes DEF PruneStops
<1> QED
  BY <1>1, <1>2, <1>3, <1>4, <1>5 DEF PruneStep

\* What happens around them.
LEMMA WorldTyped ==
  ASSUME TypeInv,
         \/ RetryFailed \/ Breaks \/ Heals \/ NewDay
         \/ \E c \in Subs : Edit(c) \/ OtherStarts(c) \/ OtherEnds(c)
  PROVE  TypeInv'
<1> USE DEF producer, events, told, servers, TypeInv, TypeOK, Sane, Published, OnLog
<1>1. CASE RetryFailed
  <2>1. left' \in [Kinds -> Nat]
    BY <1>1, Spending DEF RetryFailed, Mishaps
  <2>2. ledger' \in [Deliveries -> Record]
    BY <1>1, NullTypes DEF RetryFailed
  <2> QED
    BY <1>1, <2>1, <2>2 DEF RetryFailed
<1>2. CASE Breaks
  <2>1. left' \in [Kinds -> Nat]
    BY <1>2, Spending DEF Breaks, Mishaps
  <2> QED
    BY <1>2, <2>1 DEF Breaks
<1>3. CASE Heals
  BY <1>3 DEF Heals
<1>4. CASE NewDay
  BY <1>4, DeliveryAssumption DEF NewDay
<1>5. ASSUME NEW c \in Subs, Edit(c) PROVE TypeInv'
  <2>1. left' \in [Kinds -> Nat]
    BY <1>5, Spending DEF Edit, Mishaps
  <2> QED
    BY <1>5, <2>1 DEF Edit
<1>6. ASSUME NEW c \in Subs, OtherStarts(c) PROVE TypeInv'
  <2>1. left' \in [Kinds -> Nat]
    BY <1>6, Spending DEF OtherStarts, Mishaps
  <2> QED
    BY <1>6, <2>1 DEF OtherStarts
<1>7. ASSUME NEW c \in Subs, OtherEnds(c) PROVE TypeInv'
  BY <1>7 DEF OtherEnds
<1> QED
  BY <1>1, <1>2, <1>3, <1>4, <1>5, <1>6, <1>7

LEMMA TypeStep ==
  ASSUME TypeInv, [Next]_vars
  PROVE  TypeInv'
<1>1. CASE UNCHANGED vars
  BY <1>1 DEF vars, TypeInv, TypeOK, Sane, PumpSane, Published, OnLog
<1> QED
  BY <1>1, ProducerTyped, PumpBegins, PumpGoesOn, ServerTyped, PruneTyped, WorldTyped
  DEF Next, PumpStep

LEMMA TypeInit ==
  ASSUME Init
  PROVE  TypeInv
<1>1. <<>> \in Seq(Pubs) /\ OnLog = {}
  BY DEF Init, OnLog
<1>2. 0 \in 0..MaxDay /\ 0 \in 0..MaxStarts /\ Never \in 0..Never /\ Budget \in [Kinds -> Nat]
  BY DeliveryAssumption DEF Never
<1>3. [d \in Deliveries |-> Owed] \in [Deliveries -> Record]
  BY NullTypes
<1> QED
  BY <1>1, <1>2, <1>3, NullTypes DEF Init, TypeInv, TypeOK, Sane, Published

LEMMA TypeInvariant == Spec => []TypeInv
BY TypeInit, TypeStep, PTL DEF Spec

\* Types: what the log, the ledger, the pumps and the passes hold is of the kind the
\* code gives it, a pump is in progress only under the duty lock of a server that is
\* running, and no event is on the log but of what was published.
THEOREM TypeCorrect == Spec => []TypeOK
BY TypeInvariant, PTL DEF TypeInv

-----------------------------------------------------------------------------
(* Retention apart from the rest.  A pass that has decided is alone with the  *)
(* ledgers until it ends, but for a retry: what it decided still holds of     *)
(* them when it comes to write.                                              *)
Apart == prune.at # "idle" =>
  duty = Nobody /\ appending = {} /\ \A s \in Servers : boot[s].at = "done"

\* A pass that has yet to shorten the log.
Cutting == prune.at \in {"deliveries", "materializations"}
CutsLog == "materializations" \in prune.rows

\* It takes only events from before the horizon, and none that a failure names.
Spared == Cutting =>
  /\ IF CutsLog THEN \A p \in OnLog \ prune.events : commit[p] < day
                ELSE OnLog \subseteq prune.events
  /\ \A d \in Deliveries : ledger[d].state = "failed" /\ Pub(d) \in OnLog => Pub(d) \in prune.events

\* The ledger it will write is the one there is, without deliveries whose event is not
\* kept; or with a failure that a retry has taken away meanwhile.
Planned(d) ==
  \/ prune.ledger[d] = ledger[d]
  \/ /\ ledger[d] = Owed /\ prune.ledger[d].state = "failed"
     /\ Pub(d) \in OnLog => Pub(d) \in prune.events
  \/ ledger[d].state = "delivered" /\ prune.ledger[d] = Owed /\ Pub(d) \notin prune.events
Plans == prune.at = "deliveries" => \A d \in Deliveries : Planned(d)

CutInv == Apart /\ Spared /\ Plans

\* With no pass in progress there is nothing to keep.
LEMMA NoPass ==
  ASSUME prune'.at = "idle"
  PROVE  CutInv'
BY DEF CutInv, Apart, Spared, Plans, Cutting

\* Whoever else is at work, no pass is in progress.
LEMMA AtWorkAlone ==
  ASSUME PruneApart, TypeInv, CutInv,
         \/ \E p \in Pubs : Publish(p) \/ AppendEvent(p) \/ AppendLost(p)
         \/ \E s \in Servers : TakeDuty(s) \/ PumpStep(s) \/ BootReads(s) \/ BootStep(s)
         \/ NewDay
  PROVE  prune.at = "idle" /\ prune' = prune
<1>1. ASSUME NEW p \in Pubs, Publish(p) \/ AppendEvent(p) \/ AppendLost(p)
      PROVE  prune.at = "idle" /\ prune' = prune
  BY <1>1 DEF Publish, AppendEvent, AppendLost, Undisturbed, CutInv, Apart
<1>2. ASSUME NEW s \in Servers, TakeDuty(s) \/ BootReads(s)
      PROVE  prune.at = "idle" /\ prune' = prune
  BY <1>2 DEF TakeDuty, BootReads, Undisturbed
<1>3. ASSUME NEW s \in Servers, PumpStep(s)
      PROVE  prune.at = "idle" /\ prune' = prune
  <2>1. pump[s].at # "idle" /\ prune' = prune
    BY <1>3 DEF PumpStep, Flush, List, Skip, CannotRun, RunConsumer, RecordOutcome, EndPump, Panic, Considers
  <2>2. duty # Nobody
    BY <2>1, DeliveryAssumption DEF TypeInv, TypeOK
  <2> QED
    BY <2>1, <2>2 DEF CutInv, Apart
<1>4. ASSUME NEW s \in Servers, BootStep(s)
      PROVE  prune.at = "idle" /\ prune' = prune
  BY <1>4 DEF BootStep, BootLists, BootAppends, CutInv, Apart
<1>5. CASE NewDay
  BY <1>5 DEF NewDay
<1> QED
  BY <1>1, <1>2, <1>3, <1>4, <1>5

LEMMA DecidedWell ==
  ASSUME PruneApart, TypeInv, NEW days \in SUBSET {"deliveries", "materializations"},
         NEW fresh \in BOOLEAN, PruneDecides(days, fresh)
  PROVE  CutInv'
<1> DEFINE old(d) == "deliveries" \in days /\ ledger[d].state = "delivered" /\ ledger[d].at < day
           named  == {Pub(d) : d \in {x \in Deliveries : ledger[x] # Owed /\ ~old(x)}}
           last   == {p \in OnLog : fresh /\ \A q \in OnLog : commit[q] <= commit[p]}
           kept   == IF "materializations" \in days
                     THEN {p \in OnLog : commit[p] >= day} \cup (OnLog \cap (named \cup last))
                     ELSE OnLog
<1>1. /\ prune' = Decide(days, fresh)
      /\ UNCHANGED <<ledger, log, commit, appending, day, duty, boot>> /\ ~AtWork
  BY DEF PruneDecides, producer, events, told, servers
<1>2. /\ prune'.at = "deliveries" /\ prune'.events = kept /\ prune'.rows = days
      /\ \A d \in Deliveries :
           prune'.ledger[d] = IF old(d) /\ Pub(d) \notin kept THEN Owed ELSE ledger[d]
  BY <1>1 DEF Decide
<1>3. OnLog' = OnLog
  BY <1>1 DEF OnLog
<1>4. Apart'
  BY <1>1 DEF AtWork, Apart
<1>5. ASSUME NEW p \in OnLog \ kept PROVE "materializations" \in days /\ commit[p] < day
  <2>1. p \in Pubs
    BY LogTypes
  <2>2. commit[p] \in Int /\ day \in Int
    BY <2>1, DeliveryAssumption DEF TypeInv, TypeOK, Never
  <2> QED
    BY <1>5, <2>2
<1>6. ASSUME NEW d \in Deliveries, ledger[d].state = "failed", Pub(d) \in OnLog
      PROVE  Pub(d) \in kept
  BY <1>6, NullTypes
<1> HIDE DEF kept
<1>7. Spared'
  BY <1>1, <1>2, <1>3, <1>5, <1>6 DEF Spared, CutsLog, Cutting
<1>8. Plans'
  BY <1>1, <1>2 DEF Plans, Planned
<1> QED
  BY <1>4, <1>7, <1>8 DEF CutInv

LEMMA CutStep ==
  ASSUME PruneApart, TypeInv, CutInv, [Next]_vars
  PROVE  CutInv'
<1>1. CASE \/ \E p \in Pubs : Publish(p) \/ AppendEvent(p) \/ AppendLost(p)
           \/ \E s \in Servers : TakeDuty(s) \/ PumpStep(s) \/ BootReads(s) \/ BootStep(s)
           \/ NewDay
  BY <1>1, AtWorkAlone, NoPass
<1>2. CASE \E days \in SUBSET {"deliveries", "materializations"}, fresh \in BOOLEAN :
             PruneDecides(days, fresh)
  BY <1>2, DecidedWell
<1>3. CASE PruneStops \/ PruneHorizon \/ (PruneEvents /\ ~CutsLog)
  BY <1>3, NoPass, NullTypes DEF PruneStops, PruneHorizon, PruneEvents, CutsLog
<1>4. CASE PruneEvents /\ CutsLog
  <2>1. prune'.at = "horizon"
    BY <1>4 DEF PruneEvents, CutsLog, TypeInv, TypeOK, Prune
  <2>2. Apart'
    BY <1>4 DEF PruneEvents, CutInv, Apart, producer, servers
  <2> QED
    BY <2>1, <2>2 DEF CutInv, Spared, Plans, Cutting
<1>5. CASE PruneDeliveries
  <2>1. /\ prune.at = "deliveries" /\ prune'.at = "materializations"
        /\ prune'.events = prune.events /\ prune'.rows = prune.rows
        /\ UNCHANGED <<log, commit, appending, day, duty, boot>>
        /\ ledger' = ledger \/ ledger' = prune.ledger
    BY <1>5 DEF PruneDeliveries, TypeInv, TypeOK, Prune, producer, events, servers
  <2>2. OnLog' = OnLog
    BY <2>1 DEF OnLog
  <2>3. Apart'
    BY <2>1 DEF CutInv, Apart
  <2>4. ASSUME NEW d \in Deliveries, ledger'[d].state = "failed", Pub(d) \in OnLog
        PROVE  Pub(d) \in prune.events
    <3>1. ledger[d].state = "failed" => Pub(d) \in prune.events
      BY <2>1, <2>4 DEF CutInv, Spared, Cutting
    <3>2. Planned(d)
      BY <2>1 DEF CutInv, Plans
    <3> QED
      BY <2>1, <2>4, <3>1, <3>2, NullTypes DEF Planned
  <2>5. Spared'
    BY <2>1, <2>2, <2>4 DEF CutInv, Spared, Cutting, CutsLog
  <2> QED
    BY <2>1, <2>3, <2>5 DEF CutInv, Plans
<1>6. CASE RetryFailed
  <2>1. /\ UNCHANGED <<prune, log, commit, appending, day, duty, boot>>
        /\ \A d \in Deliveries :
             ledger'[d] = IF ledger[d].state = "failed" THEN Owed ELSE ledger[d]
    BY <1>6 DEF RetryFailed, producer, events, servers
  <2>2. OnLog' = OnLog
    BY <2>1 DEF OnLog
  <2>3. Apart'
    BY <2>1 DEF CutInv, Apart
  <2>4. Spared'
    BY <2>1, <2>2, NullTypes DEF CutInv, Spared, Cutting, CutsLog
  <2>5. ASSUME prune.at = "deliveries", NEW d \in Deliveries PROVE Planned(d)'
    <3>1. Planned(d) /\ (ledger[d].state = "failed" /\ Pub(d) \in OnLog => Pub(d) \in prune.events)
      BY <2>5 DEF CutInv, Plans, Spared, Cutting
    <3>2. CASE ledger[d].state = "failed"
      BY <2>1, <2>2, <3>1, <3>2, NullTypes DEF Planned
    <3>3. CASE ledger[d].state # "failed"
      BY <2>1, <2>2, <3>1, <3>3 DEF Planned
    <3> QED
      BY <3>2, <3>3
  <2>6. Plans'
    BY <2>1, <2>5 DEF Plans
  <2> QED
    BY <2>3, <2>4, <2>6 DEF CutInv
<1>7. CASE \/ \E s \in Servers : Crash(s)
           \/ Breaks \/ Heals \/ UNCHANGED vars
           \/ \E c \in Subs : Edit(c) \/ OtherStarts(c) \/ OtherEnds(c)
  <2>1. /\ UNCHANGED <<prune, ledger, log, commit, appending, day>>
        /\ duty' = duty \/ duty' = Nobody
        /\ \A s \in Servers : boot'[s] = boot[s] \/ boot'[s] = BootDone
    BY <1>7 DEF Crash, Breaks, Heals, Edit, OtherStarts, OtherEnds, vars, producer, events, told,
       servers, TypeInv, TypeOK
  <2>2. OnLog' = OnLog
    BY <2>1 DEF OnLog
  <2>3. Apart'
    BY <2>1, NullTypes DEF CutInv, Apart
  <2>4. Spared'
    BY <2>1, <2>2 DEF CutInv, Spared, Cutting, CutsLog
  <2>5. Plans'
    BY <2>1, <2>2 DEF CutInv, Plans, Planned
  <2> QED
    BY <2>3, <2>4, <2>5 DEF CutInv
<1> QED
  BY <1>1, <1>2, <1>3, <1>4, <1>5, <1>6, <1>7 DEF Next, PruneStep

LEMMA CutInvariant ==
  ASSUME PruneApart
  PROVE  Spec => []CutInv
<1>1. Init => CutInv
  BY NullTypes DEF Init, CutInv, Apart, Spared, Plans, Cutting
<1>2. TypeInv /\ CutInv /\ [Next]_vars => CutInv'
  BY CutStep
<1> QED
  BY <1>1, <1>2, TypeInvariant, PTL DEF Spec

\* Only a pass of retention takes an event off the log, and only one it did not keep.
LEMMA WhoShortens ==
  ASSUME TypeInv, [Next]_vars, NEW p \in OnLog
  PROVE  \/ p \in OnLog'
         \/ PruneEvents /\ CutsLog /\ p \notin prune.events
<1>1. CASE PruneEvents /\ CutsLog
  <2> DEFINE K   == {i \in DOMAIN log : log[i] \in prune.events}
             out == AtLines(log, K)
  <2>1. log' = out
    BY <1>1 DEF PruneEvents, CutsLog
  <2>2. log \in Seq(Pubs) /\ K \in SUBSET DOMAIN log
    BY DEF TypeInv, TypeOK
  <2>3. p \in prune.events => p \in {log[i] : i \in K}
    BY DEF OnLog
  <2> HIDE DEF K
  <2>4. {out[k] : k \in DOMAIN out} = {log[i] : i \in K}
    BY <2>2, KeptLines
  <2> QED
    BY <1>1, <2>1, <2>3, <2>4 DEF OnLog
<1>2. ASSUME NEW q \in Pubs, Appended(q) PROVE p \in OnLog'
  BY <1>2, AppendedTypes
<1>3. CASE log' = log
  BY <1>3 DEF OnLog
<1>4. \/ PruneEvents /\ CutsLog
      \/ \E q \in Pubs : Appended(q)
      \/ log' = log
  <2>1. \A q \in Pubs : AppendEvent(q) => Appended(q)
    BY DEF AppendEvent
  <2>2. \A s \in Servers : BootAppends(s) => log' = log \/ \E q \in Pubs : Appended(q)
    BY DEF BootAppends, events, TypeInv, TypeOK, Boot
  <2>3. \A s \in Servers : PumpStep(s) => log' = log
    BY DEF PumpStep, Flush, List, Skip, CannotRun, RunConsumer, RecordOutcome, EndPump, Panic, events
  <2>4. PruneEvents /\ ~CutsLog => log' = log
    BY DEF PruneEvents, CutsLog
  <2> QED
    BY <2>1, <2>2, <2>3, <2>4 DEF Next, vars, Publish, AppendLost, TakeDuty, Crash, BootReads, BootStep,
       BootLists, PruneDecides, PruneStep, PruneDeliveries, PruneHorizon, PruneStops, RetryFailed,
       Breaks, Heals, NewDay, Edit, OtherStarts, OtherEnds, events
<1> QED
  BY <1>1, <1>2, <1>3, <1>4

\* A failed delivery can be retried: where retention runs apart from the servers, no pass
\* of it, whatever it is asked to prune and wherever it is cut off, takes the event that
\* a failed delivery would be owed for again.
THEOREM FailuresStayRetryable ==
  ASSUME PruneApart
  PROVE  Spec => FailuresKeepTheirEvent
<1>1. ASSUME TypeInv, CutInv, [Next]_vars, NEW d \in Deliveries,
             ledger[d].state = "failed", Pub(d) \in OnLog
      PROVE  \E i \in DOMAIN log' : log'[i] = Pub(d)
  <2>1. ~(PruneEvents /\ CutsLog /\ Pub(d) \notin prune.events)
    BY <1>1 DEF PruneEvents, CutInv, Spared, Cutting
  <2>2. Pub(d) \in OnLog'
    BY <1>1, <2>1, WhoShortens
  <2> QED
    BY <2>2 DEF OnLog
<1>2. TypeInv /\ CutInv /\ [Next]_vars =>
      [\A d \in Deliveries :
         ledger[d].state = "failed" /\ Pub(d) \in OnLog => \E i \in DOMAIN log' : log'[i] = Pub(d)]_vars
  BY <1>1
<1> QED
  BY <1>2, TypeInvariant, CutInvariant, PTL DEF Spec, FailuresKeepTheirEvent

-----------------------------------------------------------------------------
(* Accounting for the runs of a consumer.  Each delivery has a balance: the   *)
(* runs there were, those that may still come without a further excuse, and   *)
(* the outcomes that are held or would have to be.  A step that raises the    *)
(* balance is an excuse, or makes a further event of the publication.         *)

\* Of what a pump listed, what it has yet to come to; and the run it has under way.
Waiting(w) == IF w.at = "ran" THEN w.todo \ {First(w.todo)} ELSE w.todo
Runs(w, d) == w.at = "ran" /\ w.outcome = "delivered" /\ Delivery(First(w.todo)) = d

ToCome(d)  == {o \in UNION {Waiting(pump[s]) : s \in Servers} : Delivery(o) = d}
Running(d) == \E s \in Servers : Runs(pump[s], d)

\* The events of a publication that are taken off the log for good, or have been.
Doomed(p) == \/ Cutting /\ CutsLog /\ p \notin prune.events /\ commit[p] < day
             \/ prune.at = "horizon" /\ p \notin OnLog /\ commit[p] < day
Gone(p)   == p \notin OnLog /\ commit[p] < swept

\* A pump may list the delivery for each of its events.  (One that failed is listed
\* again when it is retried: of a single event that is no further run.)
Owing(d) ==
  /\ ~Doomed(Pub(d)) /\ ~Gone(Pub(d))
  /\ \/ ledger[d].state = "none"
     \/ ledger[d].state = "failed" /\ twins[Pub(d)] = 0
     \/ Pub(d) \notin OnLog
Due(d) == IF Owing(d) THEN 1 + twins[Pub(d)] - (IF Running(d) /\ writable THEN 1 ELSE 0)
                      ELSE Cardinality(ToCome(d))

\* Servers that hold a failure, or could come to hold an outcome.
Credits(d) == {s \in Servers : \/ held[s][d].state = "failed"
                               \/ ~writable /\ held[s][d].state = "none" /\ ~Runs(pump[s], d)}

Bound(d) == LET more == twins[Pub(d)]
            IN (1 + more) * (1 + Excuses + (IF more = 0 THEN 0 ELSE Spent("retry")))
Balanced(d) == starts[d] + Due(d) + Cardinality(Credits(d)) <= Bound(d)

Lines(p) == LinesOf(log, p)

Dated   == swept <= day /\ \A p \in appending : commit[p] = day
Listed  == \A s \in Servers : \A o \in pump[s].todo : o[1] \in DOMAIN log /\ log[o[1]] = o[3]
Rebuilt == \A s \in Servers : /\ boot[s].at = "read" => boot[s].swept = swept
                              /\ \A p \in boot[s].todo : swept <= commit[p]
Told    == \A p \in Pubs : Cardinality(Lines(p)) <= 1 + twins[p]
Singles == \A s \in Servers : \A o \in pump[s].todo :
             twins[o[3]] = 0 => ledger[Delivery(o)] = Owed
Unheld  == \A s \in Servers :
             pump[s].at = "ran" => held[s][Delivery(First(pump[s].todo))] = Owed
InBudget == \A m \in Kinds : left[m] <= Budget[m]
Balance  == \A d \in Deliveries : Sub(d) \notin Faulty => Balanced(d)

Books      == Dated /\ Listed /\ Rebuilt /\ Told /\ Singles /\ Unheld /\ InBudget
AccountInv == Books /\ Balance

LEMMA Finiteness ==
  ASSUME TypeInv, NEW p \in Pubs
  PROVE  IsFiniteSet(Lines(p)) /\ Cardinality(Lines(p)) \in Nat
<1>1. IsFiniteSet(1..Len(log)) /\ Lines(p) \in SUBSET (1..Len(log))
  BY LogTypes, FS_Interval DEF Lines, LinesOf
<1>2. IsFiniteSet(Lines(p))
  BY <1>1, FS_Subset
<1> QED
  BY <1>2, FS_CardinalityType

\* Of two lines that a pump listed for one delivery the publications are the same, so
\* there are no more of them than events of that publication.
LEMMA ListedFew ==
  ASSUME TypeInv, Listed, Told, NEW s \in Servers, NEW d \in Deliveries
  PROVE  LET all == {o \in pump[s].todo : Delivery(o) = d}
         IN /\ IsFiniteSet(all) /\ Cardinality(all) \in Nat
            /\ Cardinality(all) <= 1 + twins[Pub(d)]
<1> DEFINE all == {o \in pump[s].todo : Delivery(o) = d}
           p   == Pub(d)
           f   == [o \in all |-> o[1]]
<1>1. p \in Pubs
  BY DEF Deliveries, Pub
<1>2. ASSUME NEW o \in all
      PROVE  o = <<o[1], o[2], o[3]>> /\ <<o[2], o[3]>> = d /\ o[3] = p /\ o[1] \in Lines(p)
  <2>1. o \in Offers
    BY DEF TypeInv, TypeOK, Pump
  <2>2. o = <<o[1], o[2], o[3]>>
    BY <2>1 DEF Offers
  <2>3. o[3] = p
    BY <1>2 DEF Delivery, Pub
  <2> QED
    BY <1>2, <2>2, <2>3 DEF Delivery, Listed, Lines, LinesOf
<1>3. f \in Injection(all, Lines(p))
  <2>1. f \in [all -> Lines(p)]
    BY <1>2
  <2>2. ASSUME NEW a \in all, NEW b \in all, a[1] = b[1] PROVE a = b
    <3>1. a[2] = b[2] /\ a[3] = b[3]
      BY <1>2
    <3> QED
      BY <1>2, <2>2, <3>1
  <2>3. \A a \in all : f[a] = a[1]
    OBVIOUS
  <2> HIDE DEF f, all
  <2> QED
    BY <2>1, <2>2, <2>3 DEF Injection, IsInjective
<1> HIDE DEF all, f
<1>4. IsFiniteSet(all) /\ Cardinality(all) <= Cardinality(Lines(p))
  BY <1>1, <1>3, Finiteness, FS_Injection
<1>5. Cardinality(all) \in Nat
  BY <1>4, FS_CardinalityType
<1>6. Cardinality(Lines(p)) <= 1 + twins[p]
  BY <1>1 DEF Told
<1>7. twins[p] \in Nat
  BY <1>1 DEF TypeInv, TypeOK
<1>8. Cardinality(all) <= 1 + twins[p]
  BY <1>1, <1>4, <1>5, <1>6, <1>7, Finiteness
<1> QED
  BY <1>4, <1>5, <1>8 DEF all

\* At most one pump is at work.
LEMMA OnePump ==
  ASSUME TypeInv, NEW s \in Servers, pump[s].at # "idle"
  PROVE  /\ duty = s /\ \A r \in Servers \ {s} : pump[r].at = "idle" /\ pump[r].todo = {}
         /\ \A d : ToCome(d) = {o \in Waiting(pump[s]) : Delivery(o) = d}
         /\ \A d : Running(d) <=> Runs(pump[s], d)
<1>1. duty = s /\ \A r \in Servers \ {s} : pump[r].at = "idle" /\ pump[r].todo = {}
  BY DEF TypeInv, TypeOK, Sane, PumpSane
<1>2. \A r \in Servers \ {s} : Waiting(pump[r]) = {} /\ \A d : ~Runs(pump[r], d)
  BY <1>1 DEF Waiting, Runs
<1> QED
  BY <1>1, <1>2 DEF ToCome, Running
LEMMA NoPump ==
  ASSUME TypeInv, \A s \in Servers : pump[s].at = "idle"
  PROVE  \A d : ToCome(d) = {} /\ ~Running(d)
<1>1. \A r \in Servers : Waiting(pump[r]) = {} /\ \A d : ~Runs(pump[r], d)
  BY DEF Waiting, Runs, TypeInv, Sane, PumpSane
<1> QED
  BY <1>1 DEF ToCome, Running
LEMMA NoDuty ==
  ASSUME TypeInv, duty = Nobody
  PROVE  \A s \in Servers : pump[s].at = "idle"
BY DeliveryAssumption DEF TypeInv, TypeOK

\* What is to come and what runs are different lines of one publication.
LEMMA Sizes ==
  ASSUME TypeInv, Listed, Told, NEW d \in Deliveries
  PROVE  /\ twins[Pub(d)] \in Nat
         /\ IsFiniteSet(ToCome(d)) /\ Cardinality(ToCome(d)) \in Nat
         /\ Cardinality(ToCome(d)) <= 1 + twins[Pub(d)]
         /\ Running(d) => Cardinality(ToCome(d)) <= twins[Pub(d)]
         /\ Due(d) \in Nat /\ Due(d) <= 1 + twins[Pub(d)]
         /\ Cardinality(ToCome(d)) <= Due(d)
<1> DEFINE t == twins[Pub(d)]
<1>1. t \in Nat
  BY DEF TypeInv, TypeOK, Deliveries, Pub
<1>2. /\ IsFiniteSet(ToCome(d)) /\ Cardinality(ToCome(d)) \in Nat
      /\ Cardinality(ToCome(d)) <= 1 + t
      /\ Running(d) => Cardinality(ToCome(d)) <= t
  <2>1. CASE \A s \in Servers : pump[s].at = "idle"
    <3>1. ToCome(d) = {} /\ ~Running(d)
      BY <2>1, NoPump
    <3> QED
      BY <1>1, <3>1, FS_EmptySet
  <2>2. ASSUME NEW s \in Servers, pump[s].at # "idle"
        PROVE  /\ IsFiniteSet(ToCome(d)) /\ Cardinality(ToCome(d)) \in Nat
               /\ Cardinality(ToCome(d)) <= 1 + t
               /\ Running(d) => Cardinality(ToCome(d)) <= t
    <3> DEFINE all == {o \in pump[s].todo : Delivery(o) = d}
               run == First(pump[s].todo)
    <3>1. IsFiniteSet(all) /\ Cardinality(all) \in Nat /\ Cardinality(all) <= 1 + t
      BY ListedFew
    <3>2. ToCome(d) \in SUBSET all
      BY <2>2, OnePump DEF Waiting
    <3>3. Running(d) => ToCome(d) \in SUBSET (all \ {run}) /\ run \in all
      <4>1. ASSUME Running(d) PROVE pump[s].at = "ran" /\ Delivery(run) = d
        BY <2>2, <4>1, OnePump DEF Runs
      <4>2. pump[s].at = "ran" => run \in pump[s].todo
        BY TurnIsListed DEF TypeInv, Sane, PumpSane
      <4> QED
        BY <2>2, <4>1, <4>2, OnePump DEF Waiting
    <3> HIDE DEF all, run
    <3>4. IsFiniteSet(ToCome(d)) /\ Cardinality(ToCome(d)) <= Cardinality(all)
      BY <3>1, <3>2, FS_Subset
    <3>5. run \in all => IsFiniteSet(all \ {run}) /\ Cardinality(all \ {run}) = Cardinality(all) - 1
      BY <3>1, FS_RemoveElement
    <3>6. Running(d) => Cardinality(ToCome(d)) <= Cardinality(all) - 1
      BY <3>3, <3>5, FS_Subset
    <3>7. Cardinality(ToCome(d)) \in Nat
      BY <3>4, FS_CardinalityType
    <3> QED
      BY <1>1, <3>1, <3>4, <3>6, <3>7
  <2> QED
    BY <2>1, <2>2
<1>3. Due(d) = IF Owing(d) THEN 1 + t - (IF Running(d) /\ writable THEN 1 ELSE 0)
                           ELSE Cardinality(ToCome(d))
  BY DEF Due
<1> QED
  BY <1>1, <1>2, <1>3

\* Products.
LEMMA Times ==
  ASSUME NEW a \in Nat, NEW x \in Int, NEW n \in Nat
  PROVE  (1 + a) * x + n <= (1 + a) * (x + n)
<1>1. (1 + a) * (x + n) = (1 + a) * x + n + a * n
  OBVIOUS
<1>2. a * n \in Nat /\ (1 + a) * x \in Int
  OBVIOUS
<1> QED
  BY <1>1, <1>2

\* What a further excuse, and what a further event of a publication, allows.
LEMMA BoundTypes ==
  ASSUME TypeInv, InBudget, NEW d \in Deliveries
  PROVE  /\ \A m \in Kinds : Spent(m) \in Nat
         /\ Cardinality(Servers) \in Nat /\ Excuses \in Nat /\ Bound(d) \in Int
<1>1. \A m \in Kinds : Spent(m) \in Nat
  BY DeliveryAssumption DEF InBudget, TypeInv, TypeOK, Spent
<1>2. Cardinality(Servers) \in Nat
  BY DeliveryAssumption, FS_CardinalityType
<1>3. Spent("crash") \in Nat /\ Spent("panic") \in Nat /\ Spent("torn") \in Nat
      /\ Spent("break") \in Nat /\ Spent("retry") \in Nat
  BY <1>1 DEF Kinds, Mishaps
<1>4. Excuses \in Nat
  BY <1>2, <1>3 DEF Excuses
<1>5. twins[Pub(d)] \in Nat
  BY DEF TypeInv, TypeOK, Deliveries, Pub
<1>6. Bound(d) \in Int
  <2> DEFINE x == 1 + Excuses + (IF twins[Pub(d)] = 0 THEN 0 ELSE Spent("retry"))
  <2>1. x \in Int
    BY <1>3, <1>4
  <2>2. Bound(d) = (1 + twins[Pub(d)]) * x
    BY DEF Bound
  <2> HIDE DEF x
  <2> QED
    BY <1>5, <2>1, <2>2
<1> QED
  BY <1>1, <1>2, <1>4, <1>6

\* The rounds of runs that have been paid for.
Rounds(d) == 1 + Excuses + (IF twins[Pub(d)] = 0 THEN 0 ELSE Spent("retry"))

LEMMA BoundGrows ==
  ASSUME TypeInv, InBudget, InBudget', NEW d \in Deliveries, left' \in [Kinds -> Nat],
         \A m \in Kinds : left'[m] <= left[m], twins'[Pub(d)] = twins[Pub(d)]
  PROVE  /\ Bound(d)' \in Int /\ Bound(d) <= Bound(d)'
         /\ \A n \in Nat : Rounds(d) + n <= Rounds(d)' => Bound(d) + n <= Bound(d)'
         /\ Rounds(d) + 1 <= Rounds(d)' => Bound(d) + 1 + twins[Pub(d)] <= Bound(d)'
<1> DEFINE t == twins[Pub(d)]
           x == Rounds(d)
           y == Rounds(d)'
<1>1. t \in Nat
  BY DEF TypeInv, TypeOK, Deliveries, Pub
<1>2. \A m \in Kinds : Spent(m) \in Nat /\ Spent(m)' \in Nat /\ Spent(m) <= Spent(m)'
  BY DeliveryAssumption DEF InBudget, TypeInv, TypeOK, Spent
<1>3. Cardinality(Servers) \in Nat
  BY DeliveryAssumption, FS_CardinalityType
<1>4. x \in Int /\ y \in Int /\ x <= y
  <2>1. \A m \in {"crash", "panic", "torn", "break", "retry"} :
          Spent(m) \in Nat /\ Spent(m)' \in Nat /\ Spent(m) <= Spent(m)'
    BY <1>2 DEF Kinds, Mishaps
  <2> DEFINE c == Cardinality(Servers)
             b == Spent("break")
             e == Spent("break")'
  <2>2. c * b \in Nat /\ c * e \in Nat /\ c * b <= c * e
    <3>1. b \in Nat /\ e \in Nat /\ b <= e /\ c \in Nat
      BY <1>3, <2>1
    <3> HIDE DEF b, c, e
    <3>2. c * e = c * b + c * (e - b) /\ e - b \in Nat
      BY <3>1
    <3>3. c * (e - b) \in Nat /\ c * b \in Nat
      BY <3>1, <3>2
    <3> QED
      BY <3>1, <3>2, <3>3
  <2>3. x = 1 + (Spent("crash") + Spent("panic") + Spent("torn") + c * b)
            + (IF t = 0 THEN 0 ELSE Spent("retry"))
    BY DEF Rounds, Excuses
  <2>4. y = 1 + (Spent("crash")' + Spent("panic")' + Spent("torn")' + c * e)
            + (IF t = 0 THEN 0 ELSE Spent("retry")')
    BY DEF Rounds, Excuses
  <2> HIDE DEF x, y, c, b, e
  <2> QED
    BY <1>1, <2>1, <2>2, <2>3, <2>4
<1>5. Bound(d) = (1 + t) * x /\ Bound(d)' = (1 + t) * y
  BY DEF Bound, Rounds
<1> HIDE DEF t, x, y
<1>6. ASSUME NEW n \in Nat, x + n <= y PROVE Bound(d) + n <= Bound(d)' /\ (1 + t) * (x + n) <= (1 + t) * y
  <2>1. (1 + t) * x + n <= (1 + t) * (x + n)
    BY <1>1, <1>4, Times
  <2> DEFINE k == y - (x + n)
  <2>2. k \in Nat /\ y = (x + n) + k
    BY <1>4, <1>6
  <2> HIDE DEF k
  <2>3. (1 + t) * (x + n) + k <= (1 + t) * ((x + n) + k)
    BY <1>1, <1>4, <2>2, Times
  <2>4. (1 + t) * (x + n) \in Int /\ (1 + t) * y \in Int /\ (1 + t) * x \in Int
    BY <1>1, <1>4
  <2>5. (1 + t) * (x + n) <= (1 + t) * y
    BY <2>2, <2>3, <2>4
  <2> QED
    BY <1>5, <2>1, <2>4, <2>5
<1>7. x + 1 <= y => Bound(d) + 1 + t <= Bound(d)'
  <2>1. (1 + t) * (x + 1) = (1 + t) * x + (1 + t)
    BY <1>1, <1>4
  <2>2. (1 + t) * x \in Int /\ (1 + t) * y \in Int
    BY <1>1, <1>4
  <2>3. x + 1 <= y => (1 + t) * (x + 1) <= (1 + t) * y
    BY <1>6
  <2> QED
    BY <1>1, <1>5, <2>1, <2>2, <2>3
<1>8. Bound(d)' \in Int /\ Bound(d) <= Bound(d)'
  <2>1. x + 0 <= y /\ Bound(d) \in Int
    BY <1>4, BoundTypes
  <2>2. Bound(d)' \in Int
    BY <1>1, <1>4, <1>5
  <2> QED
    BY <1>6, <2>1, <2>2
<1> QED
  BY <1>6, <1>7, <1>8 DEF t, x, y

LEMMA BoundOfTwin ==
  ASSUME TypeInv, InBudget, NEW d \in Deliveries, UNCHANGED left,
         twins'[Pub(d)] = twins[Pub(d)] + 1
  PROVE  Bound(d)' \in Int /\ Bound(d) + 1 <= Bound(d)'
<1> DEFINE t == twins[Pub(d)]
           u == IF t = 0 THEN 0 ELSE Spent("retry")
           r == Spent("retry")
           e == Excuses
<1>1. t \in Nat
  BY DEF TypeInv, TypeOK, Deliveries, Pub
<1>2. e \in Nat /\ r \in Nat /\ u \in Nat /\ u <= r
  BY BoundTypes DEF Kinds, Mishaps
<1>3. Bound(d) = (1 + t) * (1 + e + u)
  BY DEF Bound
<1>4. Bound(d)' = (2 + t) * (1 + e + r)
  <2>1. Excuses' = Excuses /\ Spent("retry")' = Spent("retry")
    BY DEF Excuses, Spent
  <2>2. 1 + (t + 1) = 2 + t /\ t + 1 # 0
    BY <1>1
  <2> QED
    BY <2>1, <2>2 DEF Bound
<1> HIDE DEF t, u, r, e
<1>5. (2 + t) * (1 + e + r) = (1 + t) * (1 + e + r) + 1 + e + r
  BY <1>1, <1>2
<1>6. (1 + t) * (1 + e + u) + (r - u) <= (1 + t) * ((1 + e + u) + (r - u))
  BY <1>1, <1>2, Times
<1>7. (1 + e + u) + (r - u) = 1 + e + r
  BY <1>2
<1>8. (1 + t) * (1 + e + r) \in Int /\ (1 + t) * (1 + e + u) \in Int
  BY <1>1, <1>2
<1> QED
  BY <1>1, <1>2, <1>3, <1>4, <1>5, <1>6, <1>7, <1>8

\* How far a step moves what is due and what is held.
LEMMA DueMoves ==
  ASSUME TypeInv, Listed, Told, NEW d \in Deliveries, twins'[Pub(d)] = twins[Pub(d)],
         Owing(d)' \/ ToCome(d)' \subseteq ToCome(d)
  PROVE  /\ Due(d)' \in Nat /\ Due(d)' <= 1 + twins[Pub(d)]
         /\ (Owing(d)' => Owing(d)) => Due(d)' <= Due(d) + 1
         /\ (Owing(d)' => Owing(d) /\ (Running(d) /\ writable => Running(d)' /\ writable'))
            => Due(d)' <= Due(d)
<1> DEFINE t == twins[Pub(d)]
           n == Cardinality(ToCome(d))
           k == Cardinality(ToCome(d)')
<1>1. /\ t \in Nat /\ n \in Nat /\ n <= 1 + t /\ Due(d) \in Nat /\ Due(d) <= 1 + t /\ n <= Due(d)
      /\ IsFiniteSet(ToCome(d))
  BY Sizes
<1>2. ~Owing(d)' => k \in Nat /\ k <= n
  BY <1>1, FS_Subset, FS_CardinalityType
<1>3. /\ Owing(d) => Due(d) = 1 + t \/ Due(d) = 1 + t - 1
      /\ Owing(d) /\ (Running(d) /\ writable) => Due(d) = 1 + t - 1
      /\ Owing(d) /\ ~(Running(d) /\ writable) => Due(d) = 1 + t
  <2>1. Owing(d) => Due(d) = 1 + t - (IF Running(d) /\ writable THEN 1 ELSE 0)
    BY DEF Due
  <2> HIDE DEF t
  <2>2. 1 + t - 0 = 1 + t
    BY <1>1
  <2> QED
    BY <2>1, <2>2
<1>4. /\ Owing(d)' => Due(d)' = 1 + t \/ Due(d)' = 1 + t - 1
      /\ Owing(d)' /\ Running(d)' /\ writable' => Due(d)' = 1 + t - 1
      /\ ~Owing(d)' => Due(d)' = k
  <2>1. /\ Owing(d)' => Due(d)' = 1 + t - (IF Running(d)' /\ writable' THEN 1 ELSE 0)
        /\ ~Owing(d)' => Due(d)' = k
    BY DEF Due
  <2> HIDE DEF t, k
  <2>2. 1 + t - 0 = 1 + t
    BY <1>1
  <2> QED
    BY <2>1, <2>2
<1> HIDE DEF t, n, k
<1>5. Due(d)' \in Nat /\ Due(d)' <= 1 + t
  <2>1. CASE Owing(d)'
    <3>1. Due(d)' = 1 + t \/ Due(d)' = 1 + t - 1
      BY <1>4, <2>1
    <3> QED
      BY <1>1, <3>1
  <2>2. CASE ~Owing(d)'
    <3>1. Due(d)' = k /\ k \in Nat /\ k <= n
      BY <1>2, <1>4, <2>2
    <3> QED
      BY <1>1, <3>1
  <2> QED
    BY <2>1, <2>2
<1>6. ASSUME ~Owing(d)' PROVE Due(d)' <= Due(d)
  <2>1. Due(d)' = k /\ k \in Nat /\ k <= n
    BY <1>2, <1>4, <1>6
  <2> QED
    BY <1>1, <2>1
<1>7. ASSUME Owing(d)', Owing(d) PROVE Due(d)' <= Due(d) + 1
  <2>1. Due(d)' = 1 + t \/ Due(d)' = 1 + t - 1
    BY <1>4, <1>7
  <2>2. Due(d) = 1 + t \/ Due(d) = 1 + t - 1
    BY <1>3, <1>7
  <2> QED
    BY <1>1, <2>1, <2>2
<1>8. ASSUME Owing(d)', Owing(d), Running(d) /\ writable => Running(d)' /\ writable'
      PROVE  Due(d)' <= Due(d)
  <2>1. CASE Running(d) /\ writable
    <3>1. Due(d)' = 1 + t - 1 /\ Due(d) = 1 + t - 1
      BY <1>3, <1>4, <1>8, <2>1
    <3> QED
      BY <1>1, <3>1
  <2>2. CASE ~(Running(d) /\ writable)
    <3>1. Due(d) = 1 + t
      BY <1>3, <1>8, <2>2
    <3> QED
      BY <1>5, <3>1
  <2> QED
    BY <2>1, <2>2
<1>9. Due(d)' <= Due(d) => Due(d)' <= Due(d) + 1
  BY <1>1, <1>5
<1>10. (Owing(d)' => Owing(d)) => Due(d)' <= Due(d) + 1
  BY <1>6, <1>7, <1>9
<1>11. (Owing(d)' => Owing(d) /\ (Running(d) /\ writable => Running(d)' /\ writable'))
       => Due(d)' <= Due(d)
  BY <1>6, <1>8
<1>12. Due(d)' <= 1 + twins[Pub(d)]
  BY <1>5 DEF t
<1> QED
  BY <1>5, <1>10, <1>11, <1>12

LEMMA CreditTypes ==
  ASSUME NEW d \in Deliveries
  PROVE  /\ IsFiniteSet(Credits(d)) /\ Cardinality(Credits(d)) \in Nat
         /\ IsFiniteSet(Credits(d)') /\ Cardinality(Credits(d)') \in Nat
         /\ Cardinality(Credits(d)') <= Cardinality(Servers)
         /\ Credits(d)' \subseteq Credits(d) => Cardinality(Credits(d)') <= Cardinality(Credits(d))
         /\ \A s : /\ Credits(d)' \subseteq Credits(d) \cup {s}
                       => Cardinality(Credits(d)') <= Cardinality(Credits(d)) + 1
                   /\ Credits(d)' \subseteq Credits(d) \ {s} /\ s \in Credits(d)
                       => Cardinality(Credits(d)') <= Cardinality(Credits(d)) - 1
<1>1. Credits(d) \in SUBSET Servers /\ Credits(d)' \in SUBSET Servers
  BY DEF Credits
<1>2. IsFiniteSet(Servers)
  BY DeliveryAssumption
<1> DEFINE c == Credits(d)
           k == Credits(d)'
<1> HIDE DEF c, k
<1>3. IsFiniteSet(c) /\ IsFiniteSet(k) /\ Cardinality(k) <= Cardinality(Servers)
  BY <1>1, <1>2, FS_Subset DEF c, k
<1>4. Cardinality(c) \in Nat /\ Cardinality(k) \in Nat
  BY <1>3, FS_CardinalityType
<1>5. k \subseteq c => Cardinality(k) <= Cardinality(c)
  BY <1>3, FS_Subset
<1>6. ASSUME NEW s, k \subseteq c \cup {s} PROVE Cardinality(k) <= Cardinality(c) + 1
  <2>1. IsFiniteSet(c \cup {s}) /\ Cardinality(c \cup {s}) <= Cardinality(c) + 1
    <3>1. /\ IsFiniteSet(c \cup {s})
          /\ \/ Cardinality(c \cup {s}) = Cardinality(c)
             \/ Cardinality(c \cup {s}) = Cardinality(c) + 1
      BY <1>3, FS_AddElement
    <3> QED
      BY <1>4, <3>1
  <2>2. Cardinality(k) <= Cardinality(c \cup {s}) /\ Cardinality(c \cup {s}) \in Nat
    BY <1>6, <2>1, FS_Subset, FS_CardinalityType
  <2> QED
    BY <1>4, <2>1, <2>2
<1>7. ASSUME NEW s, k \subseteq c \ {s}, s \in c PROVE Cardinality(k) <= Cardinality(c) - 1
  <2>1. IsFiniteSet(c \ {s}) /\ Cardinality(c \ {s}) = Cardinality(c) - 1
    BY <1>3, <1>7, FS_RemoveElement
  <2> QED
    BY <1>7, <2>1, FS_Subset
<1> QED
  BY <1>3, <1>4, <1>5, <1>6, <1>7 DEF c, k

\* What is left of the budget never grows.
LEMMA BudgetFalls ==
  ASSUME TypeInv, InBudget, [Next]_vars
  PROVE  /\ InBudget' /\ left' \in [Kinds -> Nat]
         /\ \A m \in Kinds : left'[m] <= left[m]
<1>1. left' = left \/ \E what \in Mishaps : Spend(what)
  BY DEF Next, vars, PumpStep, BootStep, PruneStep, Publish, AppendEvent, AppendLost, TakeDuty, Flush,
     List, Skip, CannotRun, RunConsumer, RecordOutcome, EndPump, Panic, Crash, BootReads, BootLists,
     BootAppends, PruneDecides, PruneDeliveries, PruneEvents, PruneHorizon, PruneStops, RetryFailed,
     Edit, Breaks, Heals, OtherStarts, OtherEnds, NewDay, Mishaps
<1>2. ASSUME NEW what \in Mishaps, Spend(what)
      PROVE  left' \in [Kinds -> Nat] /\ \A m \in Kinds : left'[m] <= left[m]
  <2>1. left' \in [Kinds -> Nat]
    BY <1>2, Spending
  <2>2. what # "any" /\ left \in [Kinds -> Nat]
    BY DEF Mishaps, TypeInv, TypeOK
  <2>3. \A m \in Kinds : left'[m] = left[m] \/ left'[m] = left[m] - 1
    BY <1>2, <2>2 DEF Spend
  <2>4. \A m \in Kinds : left[m] \in Nat
    BY <2>2
  <2> QED
    BY <2>1, <2>3, <2>4
<1>3. left' \in [Kinds -> Nat] /\ \A m \in Kinds : left'[m] <= left[m]
  BY <1>1, <1>2 DEF TypeInv, TypeOK
<1>4. InBudget'
  <2>1. \A m \in Kinds : left'[m] <= left[m] /\ left[m] <= Budget[m] /\ left[m] \in Nat
                         /\ left'[m] \in Nat /\ Budget[m] \in Nat
    BY <1>3, DeliveryAssumption DEF InBudget, TypeInv, TypeOK
  <2> QED
    BY <2>1 DEF InBudget
<1> QED
  BY <1>3, <1>4

\* With the pumps and what they work on as they were, what they listed is as it was.
LEMMA PumpsRest ==
  ASSUME Listed, Singles, Unheld, Told, UNCHANGED <<pump, log, twins, ledger, held>>
  PROVE  Listed' /\ Singles' /\ Unheld' /\ Told'
BY DEF Listed, Singles, Unheld, Told, Lines, LinesOf

\* With no pump at work nothing is listed.
LEMMA PumpsIdle ==
  ASSUME TypeInv', duty' = Nobody
  PROVE  Listed' /\ Singles' /\ Unheld'
<1>1. \A s \in Servers : pump'[s].at = "idle" /\ pump'[s].todo = {}
  BY DeliveryAssumption DEF TypeInv, TypeOK, Sane, PumpSane
<1> QED
  BY <1>1 DEF Listed, Singles, Unheld

\* A further event.
LEMMA EventBooks ==
  ASSUME TypeInv, Books, NEW p \in Pubs, Appended(p), UNCHANGED <<pump, ledger, held>>
  PROVE  Listed' /\ Singles' /\ Unheld' /\ Told'
<1>1. /\ DOMAIN log' = DOMAIN log \cup {Len(log) + 1} /\ Len(log) + 1 \notin DOMAIN log
      /\ log'[Len(log) + 1] = p /\ \A i \in DOMAIN log : log'[i] = log[i]
  BY AppendedTypes
<1>2. \A q \in Pubs : twins'[q] = IF q = p /\ p \in OnLog THEN twins[q] + 1 ELSE twins[q]
  BY DEF Appended, TypeInv, TypeOK
<1>3. \A q \in Pubs : twins[q] \in Nat
  BY DEF TypeInv, TypeOK
<1>4. Listed'
  BY <1>1 DEF Books, Listed
<1>5. Singles'
  <2>1. \A s \in Servers : \A o \in pump[s].todo : o[3] \in Pubs
    BY OfferTypes
  <2> QED
    BY <1>2, <1>3, <2>1 DEF Books, Singles
<1>6. Unheld'
  BY DEF Books, Unheld
<1>7. ASSUME NEW q \in Pubs PROVE Cardinality(Lines(q)') <= 1 + twins'[q]
  <2>1. CASE q # p
    <3>1. Lines(q)' = Lines(q)
      BY <1>1, <2>1 DEF Lines, LinesOf
    <3> QED
      BY <1>2, <2>1, <3>1 DEF Books, Told
  <2>2. CASE q = p
    <3>1. Lines(p)' = Lines(p) \cup {Len(log) + 1} /\ Len(log) + 1 \notin Lines(p)
      BY <1>1 DEF Lines, LinesOf
    <3>2. IsFiniteSet(Lines(p)) /\ Cardinality(Lines(p)) \in Nat
      BY Finiteness
    <3>3. Cardinality(Lines(p)') = Cardinality(Lines(p)) + 1
      BY <3>1, <3>2, FS_AddElement
    <3>4. CASE p \in OnLog
      <4>1. Cardinality(Lines(p)) <= 1 + twins[p] /\ twins'[p] = twins[p] + 1
        BY <1>2, <3>4 DEF Books, Told
      <4> QED
        BY <1>3, <2>2, <3>2, <3>3, <4>1
    <3>5. CASE p \notin OnLog
      <4>1. Lines(p) = {} /\ twins'[p] = twins[p]
        BY <1>2, <3>5 DEF Lines, LinesOf, OnLog
      <4>2. Cardinality(Lines(p)) = 0
        BY <4>1, FS_EmptySet
      <4> QED
        BY <1>3, <2>2, <3>3, <4>1, <4>2
    <3> QED
      BY <3>4, <3>5
  <2> QED
    BY <2>1, <2>2
<1>8. Told'
  BY <1>7 DEF Told
<1> QED
  BY <1>4, <1>5, <1>6, <1>8

LEMMA ProducerBooks ==
  ASSUME TypeInv, Books, InBudget', NEW p \in Pubs, Publish(p) \/ AppendEvent(p) \/ AppendLost(p)
  PROVE  Books'
<1>1. CASE Publish(p)
  <2>1. /\ commit' = [commit EXCEPT ![p] = day] /\ appending' = appending \cup {p} /\ commit[p] = Never
        /\ UNCHANGED <<pump, log, twins, ledger, held, swept, day, boot>>
    BY <1>1 DEF Publish, events, told, servers
  <2>2. \A q \in Pubs : commit'[q] = IF q = p THEN day ELSE commit[q]
    BY <2>1 DEF TypeInv, TypeOK
  <2>3. Listed' /\ Singles' /\ Unheld' /\ Told'
    BY <2>1, PumpsRest DEF Books
  <2>4. Dated'
    BY <2>1, <2>2 DEF Books, Dated, TypeInv, TypeOK
  <2>5. \A s \in Servers : \A q \in boot[s].todo : q # p /\ q \in Pubs
    BY <2>1 DEF TypeInv, TypeOK, Sane, Published, Boot
  <2>6. Rebuilt'
    BY <2>1, <2>2, <2>5 DEF Books, Rebuilt
  <2> QED
    BY <2>3, <2>4, <2>6 DEF Books
<1>2. CASE AppendEvent(p)
  <2>1. /\ appending' = appending \ {p} /\ Appended(p) /\ swept' = swept
        /\ UNCHANGED <<pump, ledger, held, day, boot, commit>>
    BY <1>2 DEF AppendEvent, Appended, told, servers
  <2>2. Listed' /\ Singles' /\ Unheld' /\ Told'
    BY <2>1, EventBooks
  <2>3. Dated' /\ Rebuilt'
    BY <2>1 DEF Books, Dated, Rebuilt
  <2> QED
    BY <2>2, <2>3 DEF Books
<1>3. CASE AppendLost(p)
  <2>1. /\ appending' = appending \ {p}
        /\ UNCHANGED <<pump, log, twins, ledger, held, swept, day, boot, commit>>
    BY <1>3 DEF AppendLost, events, told, servers
  <2>2. Listed' /\ Singles' /\ Unheld' /\ Told'
    BY <2>1, PumpsRest DEF Books
  <2>3. Dated' /\ Rebuilt'
    BY <2>1 DEF Books, Dated, Rebuilt
  <2> QED
    BY <2>2, <2>3 DEF Books
<1> QED
  BY <1>1, <1>2, <1>3

\* The other pumps are idle while one is at work, and stay so.
LEMMA OthersIdle ==
  ASSUME TypeInv, NEW s \in Servers, NEW w, pump' = [pump EXCEPT ![s] = w],
         pump[s].at # "idle" \/ duty = Nobody
  PROVE  /\ pump'[s] = w
         /\ \A r \in Servers \ {s} : /\ pump'[r] = pump[r]
                                     /\ pump[r].at = "idle" /\ pump[r].todo = {}
<1>1. \A r \in Servers \ {s} : pump[r].at = "idle"
  BY OnePump, NoDuty
<1> QED
  BY <1>1 DEF TypeInv, TypeOK, Sane, PumpSane

\* What an outcome changes, wherever it goes.
LEMMA RecordMoves ==
  ASSUME TypeInv, NEW s \in Servers, NEW d \in Deliveries, NEW state, RecordOrHold(s, d, state)
  PROVE  LET r == [state |-> state, at |-> pump[s].now]
         IN /\ \A e \in Deliveries \ {d} : ledger'[e] = ledger[e]
            /\ \A q \in Servers, e \in Deliveries : q # s \/ e # d => held'[q][e] = held[q][e]
            /\ writable  => ledger'[d] = r /\ held' = held
            /\ ~writable => held'[s][d] = r /\ ledger' = ledger
<1>1. ledger \in [Deliveries -> Record] /\ held \in [Servers -> [Deliveries -> Record]]
  BY DEF TypeInv, TypeOK
<1> DEFINE r == [state |-> state, at |-> pump[s].now]
<1>2. IF writable THEN ledger' = [ledger EXCEPT ![d] = r] /\ held' = held
                  ELSE held' = [held EXCEPT ![s][d] = r] /\ ledger' = ledger
  BY DEF RecordOrHold
<1> HIDE DEF r
<1>3. CASE writable
  BY <1>1, <1>2, <1>3 DEF r
<1>4. CASE ~writable
  BY <1>1, <1>2, <1>4 DEF r
<1> QED
  BY <1>3, <1>4

\* Of a publication with one event a pump lists each delivery once.
LEMMA ListedOnce ==
  ASSUME TypeInv, Listed, Told, NEW s \in Servers, NEW a \in pump[s].todo, NEW b \in pump[s].todo,
         Delivery(a) = Delivery(b), twins[a[3]] = 0
  PROVE  a = b
<1> DEFINE d   == Delivery(a)
           all == {o \in pump[s].todo : Delivery(o) = d}
<1>1. d \in Deliveries /\ Pub(d) = a[3]
  BY OfferTypes
<1>2. IsFiniteSet(all) /\ Cardinality(all) \in Nat /\ Cardinality(all) <= 1 + twins[Pub(d)]
  BY <1>1, ListedFew
<1>3. a \in all /\ b \in all
  OBVIOUS
<1> HIDE DEF d, all
<1>4. Cardinality(all) # 0
  BY <1>2, <1>3, FS_EmptySet
<1>5. Cardinality(all) = 1
  BY <1>1, <1>2, <1>4
<1> QED
  BY <1>2, <1>3, <1>5, FS_Singleton

LEMMA PumpFrame ==
  ASSUME NEW s \in Servers, TakeDuty(s) \/ PumpStep(s)
  PROVE  UNCHANGED <<day, commit, appending, log, swept, twins, writable, boot, prune>>
BY DEF PumpStep, TakeDuty, Flush, List, Skip, CannotRun, RunConsumer, RecordOutcome, EndPump, Panic,
   producer, events

LEMMA PumpBooks ==
  ASSUME TypeInv, Books, TypeInv', InBudget', NEW s \in Servers, TakeDuty(s) \/ PumpStep(s)
  PROVE  Books'
<1> DEFINE w == pump[s]
           f == First(w.todo)
<1>1. Dated' /\ Rebuilt' /\ Told'
  BY PumpFrame DEF Books, Dated, Rebuilt, Told, Lines, LinesOf
<1>2. CASE TakeDuty(s) \/ Flush(s)
  <2>1. /\ \E new \in {"flush", "list"} : pump' = [pump EXCEPT ![s].at = new]
        /\ pump[s].at # "idle" \/ duty = Nobody
    BY <1>2 DEF TakeDuty, Flush
  <2>2. \A r \in Servers : pump'[r].todo = {} /\ pump'[r].at # "ran"
    <3>1. PICK new \in {"flush", "list"} : pump' = [pump EXCEPT ![s] = [w EXCEPT !.at = new]]
      BY <2>1
    <3>2. pump'[s].at = new
      BY <3>1 DEF TypeInv, TypeOK, Pump
    <3>3. \A r \in Servers \ {s} : pump'[r].todo = {} /\ pump'[r].at = "idle"
      BY <2>1, <3>1, OthersIdle
    <3> QED
      BY <3>2, <3>3 DEF TypeInv, Sane, PumpSane
  <2>3. Listed' /\ Singles' /\ Unheld'
    BY <2>2 DEF Listed, Singles, Unheld
  <2> QED
    BY <1>1, <2>3 DEF Books
<1>3. CASE EndPump(s) \/ Panic(s)
  <2>1. Listed' /\ Singles' /\ Unheld'
    BY <1>3, PumpsIdle DEF EndPump, Panic
  <2> QED
    BY <1>1, <2>1 DEF Books
<1>4. CASE List(s)
  <2> DEFINE new == [at |-> "each", now |-> day, todo |-> Pending, outcome |-> "none"]
  <2>1. pump' = [pump EXCEPT ![s] = new] /\ w.at # "idle" /\ UNCHANGED <<log, twins, ledger, held>>
    BY <1>4 DEF List, events, told
  <2>2. /\ pump'[s].todo = Pending /\ pump'[s].at = "each"
        /\ \A r \in Servers \ {s} : pump'[r].todo = {} /\ pump'[r].at = "idle"
    <3>1. new.todo = Pending /\ new.at = "each"
      OBVIOUS
    <3> HIDE DEF new
    <3>2. /\ pump'[s] = new
          /\ \A r \in Servers \ {s} : /\ pump'[r] = pump[r]
                                      /\ pump[r].at = "idle" /\ pump[r].todo = {}
      BY <2>1, OthersIdle
    <3> QED
      BY <3>1, <3>2
  <2>3. \A o \in Pending : /\ o[1] \in DOMAIN log /\ log[o[1]] = o[3]
                           /\ ledger[Delivery(o)] = Owed
    <3>1. ASSUME NEW o \in Pending PROVE Delivery(o) \in Deliveries
      BY LogTypes DEF Offers, Delivery, Deliveries
    <3>2. \A d \in Deliveries : ledger[d].state = "none" => ledger[d] = Owed
      BY DEF TypeInv, TypeOK, Record
    <3> QED
      BY <3>1, <3>2 DEF Pending
  <2>4. Listed' /\ Singles' /\ Unheld'
    BY <2>1, <2>2, <2>3 DEF Listed, Singles, Unheld
  <2> QED
    BY <1>1, <2>4 DEF Books
<1>5. CASE Skip(s) \/ CannotRun(s) \/ RecordOutcome(s)
  <2>1. /\ pump' = [pump EXCEPT ![s] = Onward(s)] /\ w.at # "idle" /\ w.todo # {}
        /\ UNCHANGED <<log, twins>>
    BY <1>5 DEF Skip, CannotRun, RecordOutcome, Considers, events, TypeInv, Sane, PumpSane
  <2>2. /\ pump'[s].todo = w.todo \ {f} /\ pump'[s].at = "each"
        /\ \A r \in Servers \ {s} : pump'[r].todo = {} /\ pump'[r].at = "idle"
    <3>1. /\ pump'[s] = Onward(s)
          /\ \A r \in Servers \ {s} : /\ pump'[r] = pump[r]
                                      /\ pump[r].at = "idle" /\ pump[r].todo = {}
      BY <2>1, OthersIdle
    <3>2. Onward(s).at = "each" /\ Onward(s).todo = w.todo \ {f}
      BY <2>1, OnwardIs
    <3> QED
      BY <3>1, <3>2
  <2>3. f \in w.todo /\ Turn(s) = Delivery(f) /\ Turn(s) \in Deliveries
    BY <2>1, TurnIsListed
  <2>4. \A e \in Deliveries \ {Turn(s)} : ledger'[e] = ledger[e]
    BY <1>5, <2>3, RecordMoves DEF Skip, CannotRun, RecordOutcome, told
  <2>5. ledger' = ledger \/ \A e \in Deliveries \ {Turn(s)} : ledger'[e] = ledger[e]
    BY <2>4
  <2>6. ASSUME NEW o \in w.todo \ {f}, twins[o[3]] = 0 PROVE ledger'[Delivery(o)] = Owed
    <3>1. Delivery(o) \in Deliveries /\ ledger[Delivery(o)] = Owed
      BY <2>6, OfferTypes DEF Books, Singles
    <3>2. Delivery(o) # Turn(s)
      BY <2>3, <2>6, ListedOnce DEF Books
    <3> QED
      BY <2>4, <3>1, <3>2
  <2>7. Listed' /\ Singles' /\ Unheld'
    BY <2>1, <2>2, <2>6 DEF Books, Listed, Singles, Unheld
  <2> QED
    BY <1>1, <2>7 DEF Books
<1>6. CASE RunConsumer(s)
  <2>1. /\ \E new \in {"delivered", "failed"} :
             pump' = [pump EXCEPT ![s] = [w EXCEPT !.at = "ran", !.outcome = new]]
        /\ w.at # "idle" /\ held[s][Delivery(f)] = Owed
        /\ UNCHANGED <<log, twins, ledger, held>>
    BY <1>6 DEF RunConsumer, Considers, Turn, events, told
  <2>2. /\ pump'[s].todo = w.todo
        /\ \A r \in Servers \ {s} : pump'[r].todo = {} /\ pump'[r].at = "idle"
    <3>1. PICK new \in {"delivered", "failed"} :
               pump' = [pump EXCEPT ![s] = [w EXCEPT !.at = "ran", !.outcome = new]]
      BY <2>1
    <3> DEFINE v == [w EXCEPT !.at = "ran", !.outcome = new]
    <3>2. v.todo = w.todo
      BY DEF TypeInv, TypeOK, Pump
    <3>3. pump' = [pump EXCEPT ![s] = v]
      BY <3>1
    <3> HIDE DEF v
    <3>4. /\ pump'[s] = v
          /\ \A r \in Servers \ {s} : /\ pump'[r] = pump[r]
                                      /\ pump[r].at = "idle" /\ pump[r].todo = {}
      BY <2>1, <3>3, OthersIdle
    <3> QED
      BY <3>2, <3>4
  <2>3. Listed' /\ Singles' /\ Unheld'
    BY <2>1, <2>2 DEF Books, Listed, Singles, Unheld
  <2> QED
    BY <1>1, <2>3 DEF Books
<1> QED
  BY <1>2, <1>3, <1>4, <1>5, <1>6 DEF PumpStep

LEMMA ServerBooks ==
  ASSUME TypeInv, Books, TypeInv', InBudget', NEW s \in Servers,
         Crash(s) \/ BootReads(s) \/ BootStep(s)
  PROVE  Books'
<1>1. CASE Crash(s)
  <2>1. /\ pump' = [pump EXCEPT ![s] = PumpIdle] /\ boot' = [boot EXCEPT ![s] = BootDone]
        /\ held' = [held EXCEPT ![s] = [d \in Deliveries |-> Owed]]
        /\ UNCHANGED <<log, twins, ledger, day, swept, commit, appending>>
    BY <1>1 DEF Crash, producer, events
  <2>2. /\ pump'[s].todo = {} /\ pump'[s].at = "idle" /\ boot'[s].todo = {} /\ boot'[s].at = "done"
        /\ \A r \in Servers \ {s} : pump'[r] = pump[r] /\ boot'[r] = boot[r] /\ held'[r] = held[r]
    BY <2>1, NullTypes DEF TypeInv, TypeOK
  <2>3. Listed' /\ Singles' /\ Unheld' /\ Told'
    BY <2>1, <2>2 DEF Books, Listed, Singles, Unheld, Told, Lines, LinesOf
  <2>4. Dated' /\ Rebuilt'
    BY <2>1, <2>2 DEF Books, Dated, Rebuilt
  <2> QED
    BY <2>3, <2>4 DEF Books
<1>2. CASE BootReads(s) \/ BootLists(s)
  <2>1. UNCHANGED <<pump, log, twins, ledger, held, day, swept, commit, appending>>
    BY <1>2 DEF BootReads, BootLists, producer, events, told
  <2>2. Listed' /\ Singles' /\ Unheld' /\ Told'
    BY <2>1, PumpsRest DEF Books
  <2>3. Dated'
    BY <2>1 DEF Books, Dated
  <2>4. CASE BootReads(s)
    <3>1. /\ boot'[s].at = "read" /\ boot'[s].todo = {} /\ boot'[s].swept = swept
          /\ \A r \in Servers \ {s} : boot'[r] = boot[r]
      BY <2>4 DEF BootReads, TypeInv, TypeOK
    <3> QED
      BY <2>1, <2>2, <2>3, <3>1 DEF Books, Rebuilt
  <2>5. CASE BootLists(s)
    <3>1. /\ boot'[s].at = "append" /\ boot'[s].todo = Missing(s) /\ boot[s].at = "read"
          /\ \A r \in Servers \ {s} : boot'[r] = boot[r]
      BY <2>5 DEF BootLists, TypeInv, TypeOK, Boot
    <3>2. \A p \in Missing(s) : swept <= commit[p]
      BY <3>1 DEF Missing, Books, Rebuilt
    <3> QED
      BY <2>1, <2>2, <2>3, <3>1, <3>2 DEF Books, Rebuilt
  <2> QED
    BY <1>2, <2>4, <2>5
<1>3. CASE BootAppends(s)
  <2>1. UNCHANGED <<pump, ledger, held, day, swept, commit, appending>>
    BY <1>3 DEF BootAppends, Appended, producer, events, told
  <2>2. Listed' /\ Singles' /\ Unheld' /\ Told'
    <3>1. CASE UNCHANGED events
      BY <2>1, <3>1, PumpsRest DEF Books, events
    <3>2. ASSUME NEW p \in Pubs, Appended(p) PROVE Listed' /\ Singles' /\ Unheld' /\ Told'
      BY <2>1, <3>2, EventBooks
    <3> QED
      BY <1>3, <3>1, <3>2 DEF BootAppends, TypeInv, TypeOK, Boot
  <2>3. /\ boot'[s].todo \subseteq boot[s].todo /\ boot'[s].at # "read"
        /\ \A r \in Servers \ {s} : boot'[r] = boot[r]
    <3>1. CASE boot' = [boot EXCEPT ![s] = BootDone]
      BY <3>1, NullTypes DEF TypeInv, TypeOK
    <3>2. ASSUME NEW p, boot' = [boot EXCEPT ![s].todo = @ \ {p}] 
          PROVE  /\ boot'[s].todo \subseteq boot[s].todo /\ boot'[s].at # "read"
                 /\ \A r \in Servers \ {s} : boot'[r] = boot[r]
      BY <1>3, <3>2 DEF BootAppends, TypeInv, TypeOK, Boot
    <3> QED
      BY <1>3, <3>1, <3>2 DEF BootAppends
  <2>4. Dated' /\ Rebuilt'
    BY <2>1, <2>3 DEF Books, Dated, Rebuilt
  <2> QED
    BY <2>2, <2>4 DEF Books
<1> QED
  BY <1>1, <1>2, <1>3 DEF BootStep

LEMMA PruneBooks ==
  ASSUME PruneApart, TypeInv, CutInv, Books, TypeInv', InBudget',
         \/ \E days \in SUBSET {"deliveries", "materializations"}, fresh \in BOOLEAN :
              PruneDecides(days, fresh)
         \/ PruneStep \/ PruneStops
  PROVE  Books'
<1>1. CASE \/ \E days \in SUBSET {"deliveries", "materializations"}, fresh \in BOOLEAN :
                PruneDecides(days, fresh)
           \/ PruneStops
  <2>1. UNCHANGED <<pump, log, twins, ledger, held, day, swept, commit, appending, boot>>
    BY <1>1 DEF PruneDecides, PruneStops, producer, events, told, servers
  <2> QED
    BY <2>1, PumpsRest DEF Books, Dated, Rebuilt
<1>2. CASE PruneStep
  <2>1. duty' = Nobody /\ \A s \in Servers : boot[s].at = "done"
    BY <1>2 DEF CutInv, Apart, PruneStep, PruneDeliveries, PruneEvents, PruneHorizon, servers
  <2>2. Listed' /\ Singles' /\ Unheld'
    BY <2>1, PumpsIdle
  <2>3. UNCHANGED <<day, commit, appending, boot, twins>>
    BY <1>2 DEF PruneStep, PruneDeliveries, PruneEvents, PruneHorizon, producer, events, servers
  <2>4. swept' = swept \/ swept' = day
    BY <1>2 DEF PruneStep, PruneDeliveries, PruneEvents, PruneHorizon, events
  <2>5. Dated'
    BY <2>3, <2>4, DeliveryAssumption DEF Books, Dated, TypeInv, TypeOK
  <2>6. Rebuilt'
    BY <2>1, <2>3 DEF Rebuilt, TypeInv, Sane
  <2>7. Told'
    <3>1. CASE log' = log
      BY <2>3, <3>1 DEF Books, Told, Lines, LinesOf
    <3>2. CASE PruneEvents /\ CutsLog
      <4> DEFINE K   == {i \in DOMAIN log : log[i] \in prune.events}
                 out == AtLines(log, K)
      <4>1. log' = out
        BY <3>2 DEF PruneEvents, CutsLog
      <4>2. log \in Seq(Pubs) /\ K \in SUBSET DOMAIN log
        BY DEF TypeInv, TypeOK
      <4> HIDE DEF K
      <4>3. \A p : Cardinality(LinesOf(out, p)) <= Cardinality(Lines(p))
        BY <4>2, KeptLines DEF Lines
      <4>4. out \in Seq(Pubs)
        BY <4>2, KeptLines
      <4> HIDE DEF out
      <4>5. ASSUME NEW p \in Pubs PROVE Cardinality(Lines(p)') <= 1 + twins[p]
        <5>1. Lines(p)' = LinesOf(out, p)
          BY <4>1 DEF Lines
        <5>2. Cardinality(Lines(p)') <= Cardinality(Lines(p))
          BY <4>3, <5>1
        <5>3. IsFiniteSet(1..Len(out)) /\ DOMAIN out = 1..Len(out) /\ Len(out) \in Nat
          BY <4>4, FS_Interval
        <5>4. IsFiniteSet(Lines(p)')
          BY <5>1, <5>3, FS_Subset DEF LinesOf
        <5>5. Cardinality(Lines(p)') \in Nat
          BY <5>4, FS_CardinalityType
        <5>6. Cardinality(Lines(p)) \in Nat /\ Cardinality(Lines(p)) <= 1 + twins[p] /\ twins[p] \in Nat
          BY Finiteness DEF Books, Told, TypeInv, TypeOK
        <5> QED
          BY <5>2, <5>5, <5>6
      <4> QED
        BY <2>3, <4>5 DEF Told
    <3> QED
      BY <1>2, <3>1, <3>2 DEF PruneStep, PruneDeliveries, PruneEvents, PruneHorizon, CutsLog, events
  <2> QED
    BY <2>2, <2>5, <2>6, <2>7 DEF Books
<1> QED
  BY <1>1, <1>2

LEMMA WorldBooks ==
  ASSUME TypeInv, Books, TypeInv', InBudget',
         \/ RetryFailed \/ Breaks \/ Heals \/ NewDay \/ UNCHANGED vars
         \/ \E c \in Subs : Edit(c) \/ OtherStarts(c) \/ OtherEnds(c)
  PROVE  Books'
<1>1. UNCHANGED <<log, twins, pump, held, swept, commit, appending, boot>>
  BY DEF RetryFailed, Breaks, Heals, NewDay, Edit, OtherStarts, OtherEnds, vars, producer, events, told,
     servers
<1>2. day' = day \/ (day' = day + 1 /\ appending = {})
  BY DEF RetryFailed, Breaks, Heals, NewDay, Edit, OtherStarts, OtherEnds, vars
<1>3. Dated'
  BY <1>1, <1>2, DeliveryAssumption DEF Books, Dated, TypeInv, TypeOK
<1>4. \A d \in Deliveries : ledger[d] = Owed => ledger'[d] = Owed
  BY DEF RetryFailed, Breaks, Heals, NewDay, Edit, OtherStarts, OtherEnds, vars, told
<1>5. \A s \in Servers : \A o \in pump[s].todo : Delivery(o) \in Deliveries
  BY OfferTypes
<1>6. Singles'
  BY <1>1, <1>4, <1>5 DEF Books, Singles
<1>7. Rebuilt' /\ Listed' /\ Unheld' /\ Told'
  BY <1>1 DEF Books, Rebuilt, Listed, Unheld, Told, Lines, LinesOf
<1> QED
  BY <1>3, <1>6, <1>7 DEF Books

LEMMA BooksStep ==
  ASSUME PruneApart, TypeInv, CutInv, Books, [Next]_vars
  PROVE  Books'
<1>1. TypeInv' /\ InBudget'
  BY TypeStep, BudgetFalls DEF Books
<1> QED
  BY <1>1, ProducerBooks, PumpBooks, ServerBooks, PruneBooks, WorldBooks DEF Next

\* A step from where all that keeps the books holds.
Going == PruneApart /\ TypeInv /\ CutInv /\ Books /\ [Next]_vars

LEMMA GoesOn ==
  ASSUME Going
  PROVE  /\ TypeInv /\ Books /\ TypeInv' /\ Books' /\ CutInv /\ PruneApart /\ [Next]_vars
         /\ left' \in [Kinds -> Nat] /\ \A m \in Kinds : left'[m] <= left[m]
BY TypeStep, BooksStep, BudgetFalls DEF Going, Books

\* What a mishap adds to the rounds of runs that are paid for.
LEMMA Pays ==
  ASSUME Going, NEW d \in Deliveries, NEW what \in Mishaps, Spend(what),
         twins'[Pub(d)] = twins[Pub(d)]
  PROVE  /\ what \in {"crash", "panic", "torn"} => Rounds(d) + 1 <= Rounds(d)'
         /\ what = "break" => Rounds(d) + Cardinality(Servers) <= Rounds(d)'
         /\ what = "retry" /\ twins[Pub(d)] # 0 => Rounds(d) + 1 <= Rounds(d)'
<1> DEFINE five == {"crash", "panic", "torn", "break", "retry"}
           t == twins[Pub(d)]
           c == Cardinality(Servers)
           b == Spent("break")
           e == Spent("break")'
<1>1. TypeInv /\ Books /\ left' \in [Kinds -> Nat]
  BY GoesOn
<1>2. /\ Spent(what)' = Spent(what) + 1
      /\ \A m \in five \ {what} : Spent(m)' = Spent(m)
      /\ \A m \in five : Spent(m) \in Nat
  <2>1. /\ left \in [Kinds -> Nat] /\ what # "any" /\ what \in Kinds /\ five \subseteq Kinds
        /\ "any" \notin five
    BY <1>1 DEF TypeInv, TypeOK, Mishaps, Kinds
  <2>2. left'[what] = left[what] - 1 /\ \A m \in five \ {what} : left'[m] = left[m]
    BY <2>1 DEF Spend
  <2>3. \A m \in Kinds : Spent(m) \in Nat
    BY <1>1, BoundTypes DEF Books
  <2>4. left[what] \in Nat /\ Budget[what] \in Nat
    BY <2>1, DeliveryAssumption
  <2> QED
    BY <2>1, <2>2, <2>3, <2>4 DEF Spent
<1>3. c \in Nat
  BY DeliveryAssumption, FS_CardinalityType
<1>4. Rounds(d) = 1 + (Spent("crash") + Spent("panic") + Spent("torn") + c * b)
                    + (IF t = 0 THEN 0 ELSE Spent("retry"))
  BY DEF Rounds, Excuses
<1>5. Rounds(d)' = 1 + (Spent("crash")' + Spent("panic")' + Spent("torn")' + c * e)
                     + (IF t = 0 THEN 0 ELSE Spent("retry")')
  BY DEF Rounds, Excuses
<1>6. b \in Nat /\ c * b \in Nat /\ (e = b \/ e = b + 1) /\ (what = "break" => e = b + 1)
  <2>1. b \in Nat /\ (e = b \/ e = b + 1) /\ (what = "break" => e = b + 1)
    BY <1>2
  <2> HIDE DEF b, c, e
  <2> QED
    BY <1>3, <2>1
<1>7. c * (b + 1) = c * b + c
  BY <1>3, <1>6
<1>8. c * e = c * b \/ c * e = c * b + c
  BY <1>6, <1>7
<1> DEFINE x == c * b
           y == c * e
<1>9. x \in Nat /\ (y = x \/ y = x + c) /\ (what = "break" => y = x + c)
  BY <1>6, <1>7, <1>8
<1>10. /\ Rounds(d) = 1 + (Spent("crash") + Spent("panic") + Spent("torn") + x)
                        + (IF t = 0 THEN 0 ELSE Spent("retry"))
       /\ Rounds(d)' = 1 + (Spent("crash")' + Spent("panic")' + Spent("torn")' + y)
                         + (IF t = 0 THEN 0 ELSE Spent("retry")')
  BY <1>4, <1>5
<1> HIDE DEF t, c, b, e, x, y
<1>11. CASE what = "crash"
  BY <1>2, <1>3, <1>9, <1>10, <1>11
<1>12. CASE what = "panic"
  BY <1>2, <1>3, <1>9, <1>10, <1>12
<1>13. CASE what = "torn"
  BY <1>2, <1>3, <1>9, <1>10, <1>13
<1>14. CASE what = "break"
  BY <1>2, <1>3, <1>9, <1>10, <1>14 DEF c
<1>15. CASE what = "retry"
  BY <1>2, <1>3, <1>9, <1>10, <1>15 DEF t
<1> QED
  BY <1>11, <1>12, <1>13, <1>14, <1>15

\* A balance that rises by no more than its bound is kept.
LEMMA Balances ==
  ASSUME Going, NEW d \in Deliveries, Balanced(d), NEW n \in Nat, Bound(d)' \in Int,
         Bound(d) + n <= Bound(d)', Due(d)' \in Nat,
         starts'[d] + Due(d)' + Cardinality(Credits(d)')
           <= starts[d] + Due(d) + Cardinality(Credits(d)) + n
  PROVE  Balanced(d)'
<1>1. TypeInv /\ TypeInv' /\ Books
  BY GoesOn
<1>2. starts[d] \in Nat /\ starts'[d] \in Nat
  BY <1>1, DeliveryAssumption DEF TypeInv, TypeOK
<1>3. Due(d) \in Nat /\ Bound(d) \in Int
  BY <1>1, Sizes, BoundTypes DEF Books
<1>4. Cardinality(Credits(d)) \in Nat /\ Cardinality(Credits(d)') \in Nat
  BY CreditTypes
<1> DEFINE a == Cardinality(Credits(d))
           c == Cardinality(Credits(d)')
<1>5. starts[d] + Due(d) + a <= Bound(d)
  BY DEF Balanced
<1>6. a \in Nat /\ c \in Nat /\ starts'[d] + Due(d)' + c <= starts[d] + Due(d) + a + n
  BY <1>4
<1> HIDE DEF a, c
<1>7. starts'[d] + Due(d)' + c <= Bound(d)'
  BY <1>2, <1>3, <1>5, <1>6
<1> QED
  BY <1>7 DEF Balanced, c

\* The steps that leave a balance as it is or lower it...
LEMMA Kept ==
  ASSUME Going, NEW d \in Deliveries, Balanced(d),
         twins'[Pub(d)] = twins[Pub(d)], starts'[d] = starts[d],
         Owing(d)' => Owing(d) /\ (Running(d) /\ writable => Running(d)' /\ writable'),
         Owing(d)' \/ ToCome(d)' \subseteq ToCome(d),
         Credits(d)' \subseteq Credits(d)
  PROVE  Balanced(d)'
<1>1. TypeInv /\ Books /\ Books' /\ TypeInv' /\ left' \in [Kinds -> Nat] /\ \A m \in Kinds : left'[m] <= left[m]
  BY GoesOn
<1>2. Bound(d)' \in Int /\ Bound(d) + 0 <= Bound(d)'
  BY <1>1, BoundGrows, BoundTypes DEF Books
<1>3. Due(d)' \in Nat /\ Due(d)' <= Due(d)
  BY <1>1, DueMoves DEF Books
<1>4. Cardinality(Credits(d)') <= Cardinality(Credits(d))
      /\ Cardinality(Credits(d)') \in Nat /\ Cardinality(Credits(d)) \in Nat
  BY CreditTypes
<1>5. starts[d] \in Nat /\ Due(d) \in Nat
  BY <1>1, Sizes, DeliveryAssumption DEF TypeInv, TypeOK, Books
<1>6. starts'[d] + Due(d)' + Cardinality(Credits(d)')
        <= starts[d] + Due(d) + Cardinality(Credits(d)) + 0
  BY <1>3, <1>4, <1>5
<1> QED
  BY <1>2, <1>3, <1>6, Balances

\* ...and those that a further round of runs excuses.
LEMMA Excused ==
  ASSUME Going, NEW d \in Deliveries, Balanced(d), Rounds(d) + 1 <= Rounds(d)',
         twins'[Pub(d)] = twins[Pub(d)], starts'[d] = starts[d],
         Owing(d)' \/ ToCome(d)' \subseteq ToCome(d),
         \/ Credits(d)' \subseteq Credits(d)
         \/ /\ \E s \in Servers : Credits(d)' \subseteq Credits(d) \cup {s}
            /\ ~writable /\ (Owing(d)' => Owing(d))
  PROVE  Balanced(d)'
<1> DEFINE t == twins[Pub(d)]
           a == Cardinality(Credits(d))
           c == Cardinality(Credits(d)')
<1>1. TypeInv /\ Books /\ Books' /\ TypeInv' /\ left' \in [Kinds -> Nat] /\ \A m \in Kinds : left'[m] <= left[m]
  BY GoesOn
<1>2. Bound(d)' \in Int /\ Bound(d) + (1 + t) <= Bound(d)'
  <2>1. Bound(d)' \in Int /\ Bound(d) + 1 + t <= Bound(d)'
    BY <1>1, BoundGrows DEF Books
  <2>2. Bound(d) \in Int /\ t \in Nat
    BY <1>1, BoundTypes, Sizes DEF Books
  <2> QED
    BY <2>1, <2>2
<1>3. /\ Due(d)' \in Nat /\ Due(d)' <= 1 + t
      /\ ~writable /\ (Owing(d)' => Owing(d)) => Due(d)' <= Due(d)
  BY <1>1, DueMoves DEF Books
<1>4. starts[d] \in Nat /\ Due(d) \in Nat /\ t \in Nat
  BY <1>1, Sizes, DeliveryAssumption DEF TypeInv, TypeOK, Books
<1>5. a \in Nat /\ c \in Nat
  BY CreditTypes
<1>6. \/ c <= a
      \/ c <= a + 1 /\ Due(d)' <= Due(d)
  BY <1>3, CreditTypes
<1> HIDE DEF t, a, c
<1>7. starts'[d] + Due(d)' + c <= starts[d] + Due(d) + a + (1 + t)
  BY <1>3, <1>4, <1>5, <1>6
<1> QED
  BY <1>2, <1>3, <1>4, <1>7, Balances DEF a, c

\* What a delivery is owed depends on, and what an idle step leaves alone.
LEMMA SameOwing ==
  ASSUME NEW d, ledger'[d] = ledger[d], twins'[Pub(d)] = twins[Pub(d)],
         UNCHANGED <<log, swept, commit, day, prune>>
  PROVE  Owing(d)' = Owing(d)
BY DEF Owing, Doomed, Gone, Cutting, CutsLog, OnLog

LEMMA SameViews ==
  ASSUME UNCHANGED pump, NEW d
  PROVE  /\ ToCome(d)' = ToCome(d) /\ Running(d)' = Running(d)
         /\ UNCHANGED <<held, writable>> => Credits(d)' = Credits(d)
BY DEF ToCome, Running, Credits

LEMMA Quiet ==
  ASSUME Going, NEW d \in Deliveries, Balanced(d), UNCHANGED <<pump, held, writable, starts>>,
         twins'[Pub(d)] = twins[Pub(d)], Owing(d)' => Owing(d)
  PROVE  Balanced(d)'
BY SameViews, Kept

\* What the step of one pump shows of the deliveries: it goes from what it was to w.
Views(s, w) ==
  /\ pump'[s] = w
  /\ \A r \in Servers \ {s} : pump'[r] = pump[r]
  /\ \A d : /\ ToCome(d)  = {o \in Waiting(pump[s]) : Delivery(o) = d}
            /\ ToCome(d)' = {o \in Waiting(w) : Delivery(o) = d}
            /\ Running(d)  <=> Runs(pump[s], d)
            /\ Running(d)' <=> Runs(w, d)
            /\ \A r \in Servers \ {s} : ~Runs(pump[r], d)

LEMMA PumpViews ==
  ASSUME TypeInv, NEW s \in Servers, NEW w, pump' = [pump EXCEPT ![s] = w],
         pump[s].at # "idle" \/ duty = Nobody
  PROVE  Views(s, w)
<1>1. /\ pump'[s] = w
      /\ \A r \in Servers \ {s} : pump'[r] = pump[r] /\ pump[r].at = "idle" /\ pump[r].todo = {}
  BY OthersIdle
<1>2. \A r \in Servers \ {s} : Waiting(pump[r]) = {} /\ \A d : ~Runs(pump[r], d)
  BY <1>1 DEF Waiting, Runs
<1> QED
  BY <1>1, <1>2 DEF Views, ToCome, Running

\* What a step of a pump that records nothing and runs nothing leaves as it was.
LEMMA PumpKeeps ==
  ASSUME Going, NEW s \in Servers, NEW w, pump' = [pump EXCEPT ![s] = w],
         pump[s].at # "idle" \/ duty = Nobody,
         UNCHANGED <<held, writable, twins, ledger, log, swept, commit, day, prune>>,
         NEW d \in Deliveries, Balanced(d), starts'[d] = starts[d],
         Waiting(w) \subseteq Waiting(pump[s]), Runs(pump[s], d) <=> Runs(w, d)
  PROVE  Balanced(d)'
<1>1. TypeInv
  BY GoesOn
<1>2. /\ pump'[s] = w
      /\ ToCome(d)' \subseteq ToCome(d) /\ (Running(d) <=> Running(d)')
      /\ \A r \in Servers \ {s} : pump'[r] = pump[r]
  <2>1. Views(s, w)
    BY <1>1, PumpViews
  <2> QED
    BY <2>1 DEF Views
<1>3. Credits(d)' \subseteq Credits(d)
  BY <1>2 DEF Credits
<1>4. Owing(d)' = Owing(d)
  BY SameOwing
<1> QED
  BY <1>2, <1>3, <1>4, Kept

LEMMA IdlePumpBalance ==
  ASSUME Going, NEW s \in Servers, NEW d \in Deliveries, Balanced(d),
         TakeDuty(s) \/ Skip(s) \/ EndPump(s)
  PROVE  Balanced(d)'
<1> DEFINE v == pump[s]
<1>1. TypeInv /\ v \in Pump /\ PumpSane(v)
  BY GoesOn DEF TypeInv, TypeOK, Sane
<1>2. UNCHANGED <<held, writable, starts, twins, ledger, log, swept, commit, day, prune>>
  BY DEF TakeDuty, Skip, EndPump, producer, events, told
<1>3. \A w \in Pump : w.at # "ran" => ~Runs(w, d) /\ Waiting(w) = w.todo
  BY DEF Runs, Waiting
<1>4. CASE TakeDuty(s)
  <2> DEFINE w == [v EXCEPT !.at = "flush"]
  <2>1. duty = Nobody /\ pump' = [pump EXCEPT ![s] = w]
    BY <1>4 DEF TakeDuty
  <2>2. v.at = "idle" /\ v.todo = {}
    BY <1>1, <2>1, NoDuty DEF PumpSane
  <2>3. w \in Pump /\ w.at = "flush" /\ w.todo = {}
    BY <1>1, <2>2 DEF Pump
  <2> HIDE DEF w
  <2>4. ~Runs(w, d) /\ Waiting(w) = {} /\ ~Runs(v, d)
    BY <1>1, <1>3, <2>2, <2>3
  <2> QED
    BY <1>2, <2>1, <2>4, PumpKeeps
<1>5. CASE Skip(s)
  <2> DEFINE w == Onward(s)
  <2>1. v.at = "each" /\ v.todo # {} /\ pump' = [pump EXCEPT ![s] = w]
    BY <1>5 DEF Skip, Considers
  <2>2. w \in Pump /\ w.at = "each" /\ w.todo \subseteq v.todo
    BY <1>1, <2>1, OnwardIs
  <2> HIDE DEF w
  <2>3. ~Runs(w, d) /\ Waiting(w) \subseteq Waiting(v) /\ ~Runs(v, d)
    BY <1>1, <1>3, <2>1, <2>2
  <2>4. v.at # "idle"
    BY <2>1
  <2> QED
    BY <1>2, <2>1, <2>3, <2>4, PumpKeeps
<1>6. CASE EndPump(s)
  <2>1. v.at = "each" /\ pump' = [pump EXCEPT ![s] = PumpIdle]
    BY <1>6 DEF EndPump
  <2>2. ~Runs(PumpIdle, d) /\ Waiting(PumpIdle) = {} /\ ~Runs(v, d)
    BY <1>1, <1>3, <2>1, NullTypes
  <2>3. v.at # "idle"
    BY <2>1
  <2> QED
    BY <1>2, <2>1, <2>2, <2>3, PumpKeeps
<1> QED
  BY <1>4, <1>5, <1>6

\* A tick begins: what was held is written, and what is owed is listed.
LEMMA FlushBalance ==
  ASSUME Going, NEW s \in Servers, NEW d \in Deliveries, Balanced(d), Flush(s)
  PROVE  Balanced(d)'
<1> DEFINE v == pump[s]
           w == [v EXCEPT !.at = "list"]
           h == held[s][d]
<1>1. TypeInv /\ Books /\ v \in Pump /\ PumpSane(v) /\ v.at = "flush"
  BY GoesOn DEF TypeInv, TypeOK, Sane, Flush
<1>2. /\ UNCHANGED <<writable, starts, twins, log, swept, commit, day, prune>>
      /\ pump' = [pump EXCEPT ![s] = w]
  BY DEF Flush, producer, events
<1>3. v.todo = {} /\ w.todo = {} /\ w.at = "list"
  BY <1>1 DEF PumpSane, Pump
<1> HIDE DEF w
<1>4. ~Runs(w, d) /\ Waiting(w) = {} /\ ~Runs(v, d) /\ Waiting(v) = {} /\ v.at # "idle"
  BY <1>1, <1>3 DEF Runs, Waiting
<1>5. /\ pump'[s] = w /\ ToCome(d) = {} /\ ToCome(d)' = {} /\ ~Running(d) /\ ~Running(d)'
      /\ \A r \in Servers \ {s} : pump'[r] = pump[r]
  <2>1. Views(s, w)
    BY <1>1, <1>2, <1>4, PumpViews
  <2> QED
    BY <1>4, <2>1 DEF Views
<1>6. CASE ~writable
  <2>1. UNCHANGED <<ledger, held>>
    BY <1>6 DEF Flush, told
  <2> QED
    BY <1>2, <1>4, <2>1, PumpKeeps
<1>7. CASE writable
  <2>1. /\ ledger'[d] = IF h # Owed THEN h ELSE ledger[d]
        /\ held'[s][d] = Owed /\ \A r \in Servers \ {s} : held'[r] = held[r]
    BY <1>1, <1>7 DEF Flush, TypeInv, TypeOK
  <2>2. /\ Doomed(Pub(d))' = Doomed(Pub(d)) /\ Gone(Pub(d))' = Gone(Pub(d))
        /\ (Pub(d) \in OnLog)' = (Pub(d) \in OnLog)
    BY <1>2 DEF Doomed, Gone, Cutting, CutsLog, OnLog
  <2>3. h \in Record /\ (h = Owed \/ h.state = "delivered" \/ h.state = "failed")
    BY <1>1 DEF TypeInv, TypeOK, Record
  <2>4. Credits(d)' \subseteq Credits(d) \ {s}
    BY <1>2, <1>7, <2>1, NullTypes DEF Credits
  <2>5. CASE h.state # "failed"
    <3>1. Owing(d)' => Owing(d)
      BY <1>2, <2>1, <2>2, <2>3, <2>5 DEF Owing
    <3> QED
      BY <1>2, <1>5, <2>4, <3>1, Kept
  <2>6. CASE h.state = "failed"
    <3> DEFINE a == Cardinality(Credits(d))
               c == Cardinality(Credits(d)')
    <3>1. s \in Credits(d)
      BY <2>6 DEF Credits
    <3>2. c <= a - 1 /\ a \in Nat /\ c \in Nat
      BY <2>4, <3>1, CreditTypes
    <3>3. twins[Pub(d)] \in Nat /\ Due(d) \in Nat /\ starts[d] \in Nat
      BY <1>1, Sizes, DeliveryAssumption DEF Books, TypeInv, TypeOK
    <3>4. Due(d)' \in Nat /\ Due(d)' <= Due(d) + 1
      <4>1. Due(d)' \in Nat /\ Due(d)' <= 1 + twins[Pub(d)]
            /\ ((Owing(d)' => Owing(d)) => Due(d)' <= Due(d) + 1)
        BY <1>1, <1>2, <1>5, DueMoves DEF Books
      <4>2. CASE Owing(d)' => Owing(d)
        BY <4>1, <4>2
      <4>3. CASE Owing(d)' /\ ~Owing(d)
        <5>1. ledger'[d].state # "none"
          BY <2>1, <2>6, NullTypes
        <5>2. twins[Pub(d)] = 0
          BY <1>2, <2>2, <4>3, <5>1 DEF Owing
        <5> QED
          BY <3>3, <4>1, <5>2
      <4> QED
        BY <4>2, <4>3
    <3>5. Bound(d)' \in Int /\ Bound(d) <= Bound(d)' /\ Bound(d) \in Int
      BY <1>2, GoesOn, BoundGrows, BoundTypes DEF Books
    <3> HIDE DEF a, c
    <3>6. starts'[d] + Due(d)' + c <= starts[d] + Due(d) + a + 0 /\ Bound(d) + 0 <= Bound(d)'
      BY <1>2, <3>2, <3>3, <3>4, <3>5
    <3> QED
      BY <3>4, <3>5, <3>6, Balances DEF a, c
  <2> QED
    BY <2>5, <2>6
<1> QED
  BY <1>6, <1>7

LEMMA ListBalance ==
  ASSUME Going, NEW s \in Servers, NEW d \in Deliveries, Balanced(d), List(s)
  PROVE  Balanced(d)'
<1> DEFINE v == pump[s]
           w == [at |-> "each", now |-> day, todo |-> Pending, outcome |-> "none"]
<1>1. TypeInv /\ CutInv /\ PruneApart /\ v.at = "list" /\ v.todo = {}
  BY GoesOn DEF TypeInv, Sane, PumpSane, List
<1>2. /\ UNCHANGED <<held, writable, starts, twins, ledger, log, swept, commit, day, prune>>
      /\ pump' = [pump EXCEPT ![s] = w]
  BY DEF List, producer, events, told
<1>3. ~Runs(w, d) /\ Waiting(w) = Pending /\ ~Runs(v, d) /\ v.at # "idle"
  BY <1>1 DEF Runs, Waiting
<1> HIDE DEF w
<1>4. /\ pump'[s] = w /\ ToCome(d)' = {o \in Pending : Delivery(o) = d}
      /\ ~Running(d) /\ ~Running(d)'
      /\ \A r \in Servers \ {s} : pump'[r] = pump[r]
  <2>1. Views(s, w)
    BY <1>1, <1>2, <1>3, PumpViews
  <2> QED
    BY <1>3, <2>1 DEF Views
<1>5. Owing(d)' = Owing(d)
  BY <1>2, SameOwing
<1>6. Owing(d) \/ ToCome(d)' = {}
  <2>1. prune.at = "idle"
    BY <1>1, AtWorkAlone DEF PumpStep
  <2>2. ASSUME NEW o \in Pending, Delivery(o) = d
        PROVE  Pub(d) \in OnLog /\ ledger[d].state = "none"
    BY <2>2 DEF Pending, Delivery, Pub, OnLog
  <2>3. Pub(d) \in OnLog => ~Gone(Pub(d)) /\ ~Doomed(Pub(d))
    BY <2>1 DEF Gone, Doomed, Cutting
  <2> QED
    BY <1>4, <2>2, <2>3 DEF Owing
<1>7. Credits(d)' \subseteq Credits(d)
  BY <1>2, <1>3, <1>4 DEF Credits
<1> QED
  BY <1>2, <1>4, <1>5, <1>6, <1>7, Kept

\* An outcome is recorded, or held, and the pump goes on.
LEMMA RecordBalance ==
  ASSUME Going, NEW s \in Servers, pump[s].todo # {}, pump[s].at # "idle",
         NEW state \in {"delivered", "failed"}, RecordOrHold(s, Turn(s), state),
         pump' = [pump EXCEPT ![s] = Onward(s)], held[s][Turn(s)] = Owed,
         Runs(pump[s], Turn(s)) <=> state = "delivered",
         UNCHANGED <<writable, starts, twins, log, swept, commit, day, prune>>,
         NEW d \in Deliveries, Balanced(d)
  PROVE  Balanced(d)'
<1> DEFINE v == pump[s]
           w == Onward(s)
           f == First(v.todo)
           e == Turn(s)
           r == [state |-> state, at |-> pump[s].now]
<1>1. TypeInv /\ Books
  BY GoesOn
<1>2. /\ f \in v.todo /\ e = Delivery(f) /\ e \in Deliveries
      /\ w.at = "each" /\ w.todo = v.todo \ {f}
  BY <1>1, TurnIsListed, OnwardIs
<1>3. /\ \A x \in Deliveries \ {e} : ledger'[x] = ledger[x]
      /\ \A q \in Servers, x \in Deliveries : q # s \/ x # e => held'[q][x] = held[q][x]
      /\ writable  => ledger'[e] = r /\ held' = held
      /\ ~writable => held'[s][e] = r /\ ledger' = ledger
  BY <1>1, <1>2, RecordMoves
<1>4. Waiting(w) \subseteq Waiting(v) /\ ~Runs(w, d) /\ (Runs(v, d) => d = e)
  BY <1>2 DEF Waiting, Runs
<1>5. /\ pump'[s] = w
      /\ ToCome(d)  = {o \in Waiting(v) : Delivery(o) = d}
      /\ ToCome(d)' = {o \in Waiting(w) : Delivery(o) = d}
      /\ Running(d)  <=> Runs(v, d)
      /\ \A q \in Servers \ {s} : pump'[q] = pump[q] /\ ~Runs(pump[q], d)
  <2>1. pump' = [pump EXCEPT ![s] = w]
    OBVIOUS
  <2> HIDE DEF w
  <2>2. Views(s, w)
    BY <1>1, <2>1, PumpViews
  <2> QED
    BY <2>2 DEF Views
<1>6. ToCome(d)' \subseteq ToCome(d)
  BY <1>4, <1>5
<1>7. r.state = state
  OBVIOUS
<1> HIDE DEF w, f, r
<1>8. CASE d # e
  <2>1. Owing(d)' = Owing(d)
    BY <1>3, <1>8, SameOwing
  <2>2. Credits(d)' \subseteq Credits(d)
    BY <1>3, <1>4, <1>5, <1>8 DEF Credits
  <2>3. ~Running(d)
    BY <1>4, <1>5, <1>8
  <2> QED
    BY <1>6, <2>1, <2>2, <2>3, Kept
<1>9. CASE d = e /\ writable
  <2>1. Credits(d)' \subseteq Credits(d)
    BY <1>3, <1>9 DEF Credits
  <2>2. /\ Doomed(Pub(d))' = Doomed(Pub(d)) /\ Gone(Pub(d))' = Gone(Pub(d))
        /\ (Pub(d) \in OnLog)' = (Pub(d) \in OnLog)
    BY DEF Doomed, Gone, Cutting, CutsLog, OnLog
  <2>3. ledger'[d].state = state
    BY <1>3, <1>7, <1>9
  <2>4. CASE state = "delivered"
    <3>1. Pub(d) \in OnLog
      <4>1. f[1] \in DOMAIN log /\ log[f[1]] = f[3] /\ f[3] = Pub(d)
        BY <1>1, <1>2, <1>9, OfferTypes DEF Books, Listed
      <4> QED
        BY <4>1 DEF OnLog
    <3>2. ~Owing(d)'
      BY <2>2, <2>3, <2>4, <3>1 DEF Owing
    <3> QED
      BY <1>6, <2>1, <3>2, Kept
  <2>5. CASE state = "failed"
    <3>1. ~Running(d)
      BY <1>5, <1>9, <2>5
    <3>2. twins[Pub(d)] = 0 => ledger[d] = Owed
      BY <1>1, <1>2, <1>9, OfferTypes DEF Books, Singles
    <3>3. Owing(d)' => Owing(d)
      BY <2>2, <2>3, <2>5, <3>2, NullTypes DEF Owing
    <3> QED
      BY <1>6, <2>1, <3>1, <3>3, Kept
  <2> QED
    BY <2>4, <2>5
<1>10. CASE d = e /\ ~writable
  <2>1. Owing(d)' = Owing(d)
    BY <1>3, <1>10, SameOwing
  <2>2. held'[s][d].state = state
    BY <1>3, <1>7, <1>10
  <2>3. s \in Credits(d)' => s \in Credits(d)
    <3>1. s \in Credits(d)' => state = "failed"
      BY <1>10, <2>2 DEF Credits
    <3>2. state = "failed" => ~Runs(v, d)
      BY <1>10
    <3> QED
      BY <1>10, <3>1, <3>2, NullTypes DEF Credits
  <2>4. Credits(d)' \subseteq Credits(d)
    BY <1>3, <1>5, <2>3 DEF Credits
  <2> QED
    BY <1>6, <1>10, <2>1, <2>4, Kept
<1> QED
  BY <1>8, <1>9, <1>10

LEMMA OutcomeBalance ==
  ASSUME Going, NEW s \in Servers, NEW d \in Deliveries, Balanced(d),
         CannotRun(s) \/ RecordOutcome(s)
  PROVE  Balanced(d)'
<1> DEFINE v == pump[s]
<1>1. TypeInv /\ Books /\ PumpSane(v)
  BY GoesOn DEF TypeInv, Sane
<1>2. /\ UNCHANGED <<writable, starts, twins, log, swept, commit, day, prune>>
      /\ pump' = [pump EXCEPT ![s] = Onward(s)]
  BY DEF CannotRun, RecordOutcome, producer, events
<1>3. CASE CannotRun(s)
  <2>1. /\ v.at = "each" /\ v.todo # {} /\ held[s][Turn(s)] = Owed
        /\ RecordOrHold(s, Turn(s), "failed")
    BY <1>3 DEF CannotRun, Considers
  <2>2. ~Runs(v, Turn(s)) /\ v.at # "idle"
    BY <2>1 DEF Runs
  <2> QED
    BY <1>2, <2>1, <2>2, RecordBalance
<1>4. CASE RecordOutcome(s)
  <2>1. /\ v.at = "ran" /\ v.todo # {} /\ v.outcome \in {"delivered", "failed"}
        /\ RecordOrHold(s, Turn(s), v.outcome) /\ held[s][Turn(s)] = Owed
    BY <1>1, <1>4 DEF RecordOutcome, PumpSane, Books, Unheld, Turn
  <2>2. (Runs(v, Turn(s)) <=> v.outcome = "delivered") /\ v.at # "idle"
    BY <2>1 DEF Runs, Turn
  <2> QED
    BY <1>2, <2>1, <2>2, RecordBalance
<1> QED
  BY <1>3, <1>4

\* A consumer is run, or could not be started.
LEMMA RunBalance ==
  ASSUME Going, NEW s \in Servers, NEW d \in Deliveries, Balanced(d), RunConsumer(s)
  PROVE  Balanced(d)'
<1> DEFINE v == pump[s]
           f == First(v.todo)
           e == Turn(s)
<1>1. TypeInv /\ Books /\ v \in Pump /\ v.at = "each" /\ v.todo # {} /\ held[s][e] = Owed
  BY GoesOn DEF TypeInv, TypeOK, RunConsumer, Considers
<1>2. UNCHANGED <<held, writable, twins, ledger, log, swept, commit, day, prune>>
  BY DEF RunConsumer, producer, events, told
<1>3. f \in v.todo /\ e = Delivery(f) /\ e \in Deliveries
  BY <1>1, TurnIsListed
<1>4. PICK outcome \in {"delivered", "failed"} :
        /\ pump' = [pump EXCEPT ![s] = [v EXCEPT !.at = "ran", !.outcome = outcome]]
        /\ IF outcome = "delivered" THEN starts' = [starts EXCEPT ![e] = IF @ < MaxStarts THEN @ + 1 ELSE @]
                                    ELSE starts' = starts
  BY DEF RunConsumer
<1> DEFINE w == [v EXCEPT !.at = "ran", !.outcome = outcome]
<1>5. w.at = "ran" /\ w.outcome = outcome /\ w.todo = v.todo
  BY <1>1 DEF Pump
<1>6. pump' = [pump EXCEPT ![s] = w] /\ v.at # "idle"
  BY <1>1, <1>4
<1> HIDE DEF w
<1>7. /\ Waiting(v) = v.todo /\ Waiting(w) = v.todo \ {f} /\ ~Runs(v, d)
      /\ Runs(w, d) <=> outcome = "delivered" /\ d = e
  BY <1>1, <1>3, <1>5 DEF Waiting, Runs
<1>8. CASE outcome = "failed" \/ d # e
  <2>1. starts'[d] = starts[d]
    BY <1>1, <1>3, <1>4, <1>8 DEF TypeInv, TypeOK
  <2>2. Waiting(w) \subseteq Waiting(v) /\ (Runs(v, d) <=> Runs(w, d))
    BY <1>7, <1>8
  <2> QED
    BY <1>2, <1>6, <2>1, <2>2, PumpKeeps
<1>9. CASE outcome = "delivered" /\ d = e
  <2> DEFINE t == twins[Pub(d)]
             n == Cardinality(ToCome(d))
             a == Cardinality(Credits(d))
             c == Cardinality(Credits(d)')
  <2>1. /\ pump'[s] = w
        /\ ToCome(d)  = {o \in Waiting(v) : Delivery(o) = d}
        /\ ToCome(d)' = {o \in Waiting(w) : Delivery(o) = d}
        /\ Running(d)  <=> Runs(v, d)
        /\ Running(d)' <=> Runs(w, d)
        /\ \A q \in Servers \ {s} : pump'[q] = pump[q]
    <3>1. Views(s, w)
      BY <1>1, <1>6, PumpViews
    <3> QED
      BY <3>1 DEF Views
  <2>2. ~Running(d) /\ Running(d)' /\ f \in ToCome(d) /\ ToCome(d)' = ToCome(d) \ {f}
    BY <1>3, <1>7, <1>9, <2>1
  <2>3. Owing(d)' = Owing(d)
    BY <1>2, SameOwing
  <2>4. /\ starts[d] \in Nat /\ t \in Nat /\ Due(d) \in Nat
        /\ IsFiniteSet(ToCome(d)) /\ n \in Nat
    BY <1>1, Sizes, DeliveryAssumption DEF Books, TypeInv, TypeOK
  <2>5. starts'[d] \in Nat /\ starts'[d] <= starts[d] + 1
    <3>1. starts'[d] = starts[d] \/ starts'[d] = starts[d] + 1
      BY <1>1, <1>4, <1>9 DEF TypeInv, TypeOK
    <3> QED
      BY <2>4, <3>1
  <2>6. Due(d)' \in Nat /\ Due(d)' <= Due(d)
    BY <1>1, <1>2, <2>2, <2>3, DueMoves DEF Books
  <2>7. a \in Nat /\ c \in Nat
    BY CreditTypes
  <2>10. Bound(d)' \in Int /\ Bound(d) + 0 <= Bound(d)'
    BY <1>1, <1>2, GoesOn, BoundGrows, BoundTypes DEF Books
  <2>8. CASE writable
    <3>1. c <= a
      <4>1. Credits(d)' \subseteq Credits(d)
        BY <1>2, <2>8 DEF Credits
      <4> QED
        BY <4>1, CreditTypes
    <3>2. Due(d)' = Due(d) - 1
      <4>1. CASE Owing(d)
        <5>1. Due(d) = 1 + t - 0 /\ Due(d)' = 1 + t - 1
          BY <1>2, <2>2, <2>3, <2>8, <4>1 DEF Due
        <5> HIDE DEF t
        <5> QED
          BY <2>4, <5>1
      <4>2. CASE ~Owing(d)
        <5>1. Due(d) = n /\ Due(d)' = Cardinality(ToCome(d)')
          BY <2>3, <4>2 DEF Due
        <5>2. Cardinality(ToCome(d) \ {f}) = n - 1
          <6> HIDE DEF f
          <6> QED
            BY <2>2, <2>4, FS_RemoveElement
        <5> QED
          BY <2>2, <5>1, <5>2
      <4> QED
        BY <4>1, <4>2
    <3> HIDE DEF a, c, n, t
    <3>9. starts'[d] + Due(d)' + c <= starts[d] + Due(d) + a + 0
      BY <2>4, <2>5, <2>6, <2>7, <3>1, <3>2
    <3> QED
      BY <2>6, <2>10, <3>9, Balances DEF a, c
  <2>9. CASE ~writable
    <3>1. s \in Credits(d)
      BY <1>1, <1>7, <1>9, <2>9, NullTypes DEF Credits
    <3>2. Credits(d)' \subseteq Credits(d) \ {s}
      BY <1>1, <1>2, <1>7, <1>9, <2>1, NullTypes DEF Credits
    <3>3. c <= a - 1
      BY <3>1, <3>2, CreditTypes
    <3> HIDE DEF a, c, n, t
    <3>9. starts'[d] + Due(d)' + c <= starts[d] + Due(d) + a + 0
      BY <2>4, <2>5, <2>6, <2>7, <3>3
    <3> QED
      BY <2>6, <2>10, <3>9, Balances DEF a, c
  <2> QED
    BY <2>8, <2>9
<1> QED
  BY <1>8, <1>9

\* A run that unwinds, and a server that is killed.
LEMMA PanicBalance ==
  ASSUME Going, NEW s \in Servers, NEW d \in Deliveries, Sub(d) \notin Faulty, Balanced(d), Panic(s)
  PROVE  Balanced(d)'
<1> DEFINE v == pump[s]
<1>1. TypeInv /\ v.at = "ran" /\ v.outcome = "delivered" /\ v.at # "idle"
  BY GoesOn DEF Panic
<1>2. /\ UNCHANGED <<held, writable, starts, twins, ledger, log, swept, commit, day, prune>>
      /\ pump' = [pump EXCEPT ![s] = PumpIdle]
  BY DEF Panic, producer, events, told
<1>3. ~Runs(PumpIdle, d) /\ Waiting(PumpIdle) = {} /\ (Runs(v, d) <=> Turn(s) = d)
  BY <1>1, NullTypes DEF Runs, Waiting, Turn
<1>4. CASE Turn(s) # d
  BY <1>1, <1>2, <1>3, <1>4, PumpKeeps
<1>5. CASE Turn(s) = d
  <2>1. Rounds(d) + 1 <= Rounds(d)'
    <3>1. Spend("panic") /\ "panic" \in Mishaps
      BY <1>5 DEF Panic, Mishaps
    <3> QED
      BY <1>2, <3>1, Pays
  <2>2. /\ ToCome(d)' = {} /\ \A q \in Servers \ {s} : pump'[q] = pump[q]
        /\ pump'[s] = PumpIdle
    <3>1. Views(s, PumpIdle)
      BY <1>1, <1>2, PumpViews
    <3> QED
      BY <1>3, <3>1 DEF Views
  <2>3. Owing(d)' = Owing(d)
    BY <1>2, SameOwing
  <2>4. Credits(d)' \subseteq Credits(d) \cup {s}
    BY <1>2, <2>2 DEF Credits
  <2>5. writable => Credits(d)' \subseteq Credits(d)
    BY <1>2 DEF Credits
  <2> QED
    BY <1>2, <2>1, <2>2, <2>3, <2>4, <2>5, Excused
<1> QED
  BY <1>4, <1>5

LEMMA CrashBalance ==
  ASSUME Going, NEW s \in Servers, NEW d \in Deliveries, Balanced(d), Crash(s)
  PROVE  Balanced(d)'
<1>1. /\ UNCHANGED <<writable, starts, twins, ledger, log, swept, commit, day, prune>>
      /\ pump' = [pump EXCEPT ![s] = PumpIdle]
      /\ held' = [held EXCEPT ![s] = [x \in Deliveries |-> Owed]]
  BY DEF Crash, producer, events
<1>2. TypeInv
  BY GoesOn
<1>3. /\ pump'[s] = PumpIdle /\ held'[s][d] = Owed
      /\ \A q \in Servers \ {s} : pump'[q] = pump[q] /\ held'[q] = held[q]
  BY <1>1, <1>2 DEF TypeInv, TypeOK
<1>4. Waiting(PumpIdle) = {}
  BY NullTypes DEF Waiting
<1>5. ToCome(d)' \subseteq ToCome(d)
  BY <1>3, <1>4 DEF ToCome
<1>6. Credits(d)' \subseteq Credits(d) \cup {s}
  BY <1>1, <1>3 DEF Credits
<1>7. writable => Credits(d)' \subseteq Credits(d)
  BY <1>1, <1>3, NullTypes DEF Credits
<1>8. Owing(d)' = Owing(d)
  BY <1>1, SameOwing
<1>9. Rounds(d) + 1 <= Rounds(d)'
  <2>1. Spend("crash") /\ "crash" \in Mishaps
    BY DEF Crash, Mishaps
  <2> QED
    BY <1>1, <2>1, Pays
<1> QED
  BY <1>1, <1>5, <1>6, <1>7, <1>8, <1>9, Excused

\* An event joins the log: the publication was owed to everyone if it had none there,
\* and if it had one each delivery of it may be run once more.
LEMMA EventBalance ==
  ASSUME Going, NEW p \in Pubs, Appended(p), prune.at = "idle", swept <= commit[p], commit[p] # Never,
         UNCHANGED <<day, commit, ledger, held, writable, pump, starts, prune, left>>,
         NEW d \in Deliveries, Balanced(d)
  PROVE  Balanced(d)'
<1>1. TypeInv /\ Books /\ Pub(d) \in Pubs
  BY GoesOn DEF Deliveries, Pub
<1>2. /\ OnLog' = OnLog \cup {p} /\ swept' = swept
      /\ \A q \in Pubs : twins'[q] = IF q = p /\ p \in OnLog THEN twins[q] + 1 ELSE twins[q]
  <2>1. OnLog' = OnLog \cup {p} /\ swept' = swept
    BY <1>1, AppendedTypes
  <2>2. \A q \in Pubs : twins'[q] = IF q = p /\ p \in OnLog THEN twins[q] + 1 ELSE twins[q]
    BY <1>1 DEF Appended, TypeInv, TypeOK
  <2> QED
    BY <2>1, <2>2
<1>3. \A q : ~Doomed(q) /\ ~Doomed(q)'
  BY DEF Doomed, Cutting
<1>4. ~Gone(p) /\ ~Gone(p)'
  <2>1. commit[p] \in Int /\ swept \in Int
    BY <1>1, DeliveryAssumption DEF TypeInv, TypeOK, Never
  <2> QED
    BY <1>2, <2>1 DEF Gone
<1>5. CASE Pub(d) # p
  <2>1. (Pub(d) \in OnLog') = (Pub(d) \in OnLog) /\ twins'[Pub(d)] = twins[Pub(d)]
    BY <1>1, <1>2, <1>5
  <2>2. Owing(d)' => Owing(d)
    BY <1>2, <1>3, <2>1 DEF Owing, Gone
  <2> QED
    BY <2>1, <2>2, Quiet
<1>6. CASE Pub(d) = p /\ p \notin OnLog
  <2>1. Owing(d) /\ twins'[Pub(d)] = twins[Pub(d)]
    BY <1>1, <1>2, <1>3, <1>4, <1>6 DEF Owing
  <2> QED
    BY <2>1, Quiet
<1>7. CASE Pub(d) = p /\ p \in OnLog
  <2> DEFINE t == twins[p]
             n == Cardinality(ToCome(d))
             a == Cardinality(Credits(d))
  <2>1. t \in Nat /\ twins'[p] = t + 1
    BY <1>1, <1>2, <1>7 DEF TypeInv, TypeOK
  <2>2. Owing(d)' => Owing(d)
    <3>1. twins'[p] # 0
      BY <2>1
    <3> QED
      BY <1>2, <1>3, <1>4, <1>7, <3>1 DEF Owing
  <2>3. /\ ToCome(d)' = ToCome(d) /\ Running(d)' = Running(d) /\ Credits(d)' = Credits(d)
    BY SameViews
  <2>4. Due(d) \in Nat /\ n \in Nat /\ n <= Due(d) /\ a \in Nat /\ starts[d] \in Nat
    BY <1>1, Sizes, CreditTypes, DeliveryAssumption DEF Books, TypeInv, TypeOK
  <2>5. Due(d)' \in Nat /\ Due(d)' <= Due(d) + 1
    <3>1. CASE Owing(d)' /\ Running(d) /\ writable
      <4>1. Due(d) = 1 + t - 1 /\ Due(d)' = 1 + (t + 1) - 1
        BY <1>7, <2>1, <2>2, <2>3, <3>1 DEF Due
      <4> HIDE DEF t
      <4> QED
        BY <2>1, <4>1
    <3>2. CASE Owing(d)' /\ ~(Running(d) /\ writable)
      <4>1. Due(d) = 1 + t - 0 /\ Due(d)' = 1 + (t + 1) - 0
        BY <1>7, <2>1, <2>2, <2>3, <3>2 DEF Due
      <4> HIDE DEF t
      <4> QED
        BY <2>1, <4>1
    <3>3. CASE ~Owing(d)'
      <4>1. Due(d)' = n
        BY <2>3, <3>3 DEF Due
      <4> QED
        BY <2>4, <4>1
    <3> QED
      BY <3>1, <3>2, <3>3
  <2>6. Bound(d)' \in Int /\ Bound(d) + 1 <= Bound(d)'
    BY <1>1, <1>7, <2>1, BoundOfTwin DEF Books
  <2>7. starts'[d] + Due(d)' + Cardinality(Credits(d)')
          <= starts[d] + Due(d) + Cardinality(Credits(d)) + 1
    BY <2>3, <2>4, <2>5
  <2> QED
    BY <2>5, <2>6, <2>7, Balances
<1> QED
  BY <1>5, <1>6, <1>7

LEMMA ProducerBalance ==
  ASSUME Going, NEW p \in Pubs, Publish(p) \/ AppendEvent(p) \/ AppendLost(p),
         NEW d \in Deliveries, Balanced(d)
  PROVE  Balanced(d)'
<1>1. /\ TypeInv /\ Books /\ Pub(d) \in Pubs
      /\ prune.at = "idle" /\ prune' = prune
  BY GoesOn, AtWorkAlone DEF Deliveries, Pub
<1>2. CASE Publish(p)
  <2>1. /\ commit' = [commit EXCEPT ![p] = day] /\ commit[p] = Never
        /\ UNCHANGED <<pump, log, twins, ledger, held, writable, starts, swept>>
    BY <1>2 DEF Publish, events, told, servers
  <2>2. \A q \in Pubs : commit'[q] = IF q = p THEN day ELSE commit[q]
    BY <1>1, <2>1 DEF TypeInv, TypeOK
  <2>3. Never \in Int /\ swept \in Int /\ ~(Never < swept)
    BY <1>1, DeliveryAssumption DEF TypeInv, TypeOK, Never
  <2>4. ~Doomed(Pub(d)) /\ (Gone(Pub(d)) => Gone(Pub(d))')
    BY <1>1, <2>1, <2>2, <2>3 DEF Doomed, Gone, Cutting, OnLog
  <2>5. Owing(d)' => Owing(d)
    BY <2>1, <2>4 DEF Owing, OnLog
  <2> QED
    BY <2>1, <2>5, Quiet
<1>3. CASE AppendEvent(p)
  <2>1. /\ Appended(p) /\ p \in appending
        /\ UNCHANGED <<day, commit, ledger, held, writable, pump, starts, prune, left>>
    BY <1>3 DEF AppendEvent, told, servers
  <2>2. commit[p] = day /\ swept <= commit[p] /\ commit[p] # Never
    BY <1>1, <2>1 DEF Books, Dated, TypeInv, Sane, Published
  <2> QED
    BY <1>1, <2>1, <2>2, EventBalance
<1>4. CASE AppendLost(p)
  <2>1. UNCHANGED <<pump, held, writable, starts, twins, ledger, log, swept, commit, day, prune>>
    BY <1>1, <1>4 DEF AppendLost, events, told, servers
  <2> QED
    BY <2>1, SameOwing, Quiet
<1> QED
  BY <1>2, <1>3, <1>4

LEMMA BootBalance ==
  ASSUME Going, NEW s \in Servers, BootReads(s) \/ BootStep(s), NEW d \in Deliveries, Balanced(d)
  PROVE  Balanced(d)'
<1>1. TypeInv /\ Books /\ prune.at = "idle" /\ prune' = prune
  BY GoesOn, AtWorkAlone
<1>2. UNCHANGED <<pump, held, writable, starts, ledger, commit, day, left>>
  BY DEF BootReads, BootStep, BootLists, BootAppends, producer, told
<1>3. CASE UNCHANGED events
  BY <1>1, <1>2, <1>3, SameOwing, Quiet DEF events
<1>4. ASSUME NEW p \in boot[s].todo, Appended(p) PROVE Balanced(d)'
  <2>1. p \in Pubs /\ swept <= commit[p] /\ commit[p] # Never
    BY <1>1 DEF Books, Rebuilt, TypeInv, TypeOK, Sane, Published, Boot
  <2> QED
    BY <1>1, <1>2, <1>4, <2>1, EventBalance
<1> QED
  BY <1>3, <1>4 DEF BootReads, BootStep, BootLists, BootAppends

\* Retention: what a pass takes from the ledger it also takes from the log, so that it
\* is not listed again; unless the pass is cut off in between.
LEMMA PruneBalance ==
  ASSUME Going, NEW d \in Deliveries, Balanced(d),
         \/ \E days \in SUBSET {"deliveries", "materializations"}, fresh \in BOOLEAN :
              PruneDecides(days, fresh)
         \/ PruneStep \/ PruneStops
  PROVE  Balanced(d)'
<1> DEFINE p == Pub(d)
<1>1. TypeInv /\ CutInv /\ Books /\ p \in Pubs
  BY GoesOn DEF Deliveries, Pub
<1>2. UNCHANGED <<day, commit, twins, pump, held, writable, starts>>
  BY DEF PruneDecides, PruneStep, PruneStops, PruneDeliveries, PruneEvents, PruneHorizon, producer, events,
     told, servers
<1>3. day \in Int /\ swept \in Int /\ commit[p] \in Int
  BY <1>1, DeliveryAssumption DEF TypeInv, TypeOK, Never
<1>4. ASSUME NEW days \in SUBSET {"deliveries", "materializations"}, NEW fresh \in BOOLEAN,
             PruneDecides(days, fresh)
      PROVE  Balanced(d)'
  <2>1. prune.at = "idle" /\ UNCHANGED <<log, swept, ledger>>
    BY <1>4 DEF PruneDecides, events, told
  <2>2. ~Doomed(p) /\ Gone(p)' = Gone(p) /\ OnLog' = OnLog
    BY <1>2, <2>1 DEF Doomed, Gone, Cutting, OnLog
  <2>3. Owing(d)' => Owing(d)
    BY <1>2, <2>1, <2>2 DEF Owing
  <2> QED
    BY <1>2, <2>3, Quiet
<1>5. CASE PruneDeliveries
  <2>1. /\ prune.at = "deliveries" /\ prune'.at = "materializations"
        /\ prune'.events = prune.events /\ prune'.rows = prune.rows
        /\ UNCHANGED <<log, swept>> /\ (ledger' = ledger \/ ledger' = prune.ledger)
    BY <1>1, <1>5 DEF PruneDeliveries, TypeInv, TypeOK, Prune, events
  <2>2. Doomed(p)' = Doomed(p) /\ Gone(p)' = Gone(p) /\ OnLog' = OnLog
    BY <1>2, <2>1 DEF Doomed, Gone, Cutting, CutsLog, OnLog
  <2>3. p \in OnLog /\ p \notin prune.events => Doomed(p)
    BY <1>1, <2>1 DEF Doomed, CutInv, Spared, Cutting
  <2>4. Planned(d)
    BY <1>1, <2>1 DEF CutInv, Plans
  <2>5. Owing(d)' => Owing(d)
    BY <1>2, <2>1, <2>2, <2>3, <2>4, NullTypes DEF Owing, Planned
  <2> QED
    BY <1>2, <2>5, Quiet
<1>6. CASE PruneEvents
  <2>1. UNCHANGED <<ledger, swept>> /\ prune.at = "materializations"
    BY <1>6 DEF PruneEvents, told
  <2>2. CASE CutsLog
    <3> DEFINE K   == {i \in DOMAIN log : log[i] \in prune.events}
               out == AtLines(log, K)
    <3>1. log' = out /\ prune'.at = "horizon"
      BY <1>1, <1>6, <2>2 DEF PruneEvents, CutsLog, TypeInv, TypeOK, Prune
    <3>2. log \in Seq(Pubs) /\ K \in SUBSET DOMAIN log
      BY <1>1 DEF TypeInv, TypeOK
    <3>3. {log[i] : i \in K} = {q \in OnLog : q \in prune.events}
      BY DEF OnLog
    <3> HIDE DEF K
    <3>4. {out[k] : k \in DOMAIN out} = {log[i] : i \in K}
      BY <3>2, KeptLines
    <3> HIDE DEF out
    <3>5. p \in OnLog' <=> p \in OnLog /\ p \in prune.events
      <4>1. OnLog' = {out[k] : k \in DOMAIN out}
        BY <3>1 DEF OnLog
      <4> QED
        BY <3>3, <3>4, <4>1
    <3>6. p \in OnLog /\ p \notin prune.events => commit[p] < day
      BY <1>1, <2>1, <2>2 DEF CutInv, Spared, Cutting
    <3>7. ~Doomed(p)' => p \in OnLog' \/ ~(commit[p] < day)
      BY <1>2, <3>1 DEF Doomed
    <3>8. ~Doomed(p)' => ~Doomed(p)
      BY <2>1, <3>5, <3>7 DEF Doomed
    <3>9. Gone(p) => Gone(p)'
      BY <1>2, <2>1, <3>5 DEF Gone
    <3>10. ~Doomed(p)' /\ p \notin OnLog' => p \notin OnLog
      BY <3>5, <3>6, <3>7
    <3>11. Owing(d)' => Owing(d)
      BY <1>2, <2>1, <3>8, <3>9, <3>10 DEF Owing
    <3> QED
      BY <1>2, <3>11, Quiet
  <2>3. CASE ~CutsLog
    <3>1. UNCHANGED log
      BY <1>6, <2>3 DEF PruneEvents, CutsLog
    <3>2. ~Doomed(p) /\ Gone(p)' = Gone(p) /\ OnLog' = OnLog
      BY <1>2, <2>1, <2>3, <3>1 DEF Doomed, Gone, OnLog
    <3>3. Owing(d)' => Owing(d)
      BY <1>2, <2>1, <3>2 DEF Owing
    <3> QED
      BY <1>2, <3>3, Quiet
  <2> QED
    BY <2>2, <2>3
<1>7. CASE PruneHorizon
  <2>1. /\ UNCHANGED <<ledger, log>> /\ prune.at = "horizon"
        /\ swept' = IF day > swept THEN day ELSE swept
    BY <1>7 DEF PruneHorizon, told
  <2>2. OnLog' = OnLog
    BY <2>1 DEF OnLog
  <2>3. Doomed(p) \/ Gone(p) => Gone(p)'
    BY <1>2, <1>3, <2>1, <2>2 DEF Doomed, Gone, Cutting
  <2>4. Owing(d)' => Owing(d)
    BY <1>2, <2>1, <2>2, <2>3 DEF Owing
  <2> QED
    BY <1>2, <2>4, Quiet
<1>8. CASE PruneStops
  <2>1. Spend("torn") /\ "torn" \in Mishaps
    BY <1>8 DEF PruneStops, Mishaps
  <2>2. Rounds(d) + 1 <= Rounds(d)'
    BY <1>2, <2>1, Pays
  <2> QED
    BY <1>2, <2>2, SameViews, Excused
<1> QED
  BY <1>4, <1>5, <1>6, <1>7, <1>8 DEF PruneStep

\* The ledger cannot be written any more: every server may come to hold an outcome.
LEMMA BreaksBalance ==
  ASSUME Going, NEW d \in Deliveries, Balanced(d), Breaks
  PROVE  Balanced(d)'
<1> DEFINE a == Cardinality(Credits(d))
           c == Cardinality(Credits(d)')
           n == Cardinality(Servers)
<1>1. TypeInv /\ Books /\ Books' /\ left' \in [Kinds -> Nat] /\ \A m \in Kinds : left'[m] <= left[m]
  BY GoesOn
<1>2. /\ UNCHANGED <<pump, held, starts, twins, ledger, log, swept, commit, day, prune>>
      /\ writable' = FALSE /\ Spend("break") /\ "break" \in Mishaps
  BY DEF Breaks, producer, events, told, servers, Mishaps
<1>3. n \in Nat
  BY DeliveryAssumption, FS_CardinalityType
<1>4. Rounds(d) + n <= Rounds(d)'
  BY <1>2, Pays
<1>5. Bound(d)' \in Int /\ Bound(d) + n <= Bound(d)'
  BY <1>1, <1>2, <1>3, <1>4, BoundGrows DEF Books
<1>6. /\ ToCome(d)' = ToCome(d) /\ Running(d)' = Running(d) /\ Owing(d)' = Owing(d)
  BY <1>2, SameViews, SameOwing
<1>7. /\ Due(d)' \in Nat /\ Due(d)' <= Due(d) + 1
      /\ ~Running(d) => Due(d)' <= Due(d)
  BY <1>1, <1>2, <1>6, DueMoves DEF Books
<1>8. /\ starts[d] \in Nat /\ Due(d) \in Nat /\ a \in Nat /\ c \in Nat /\ c <= n
  BY <1>1, Sizes, CreditTypes, DeliveryAssumption DEF Books, TypeInv, TypeOK
<1>9. Running(d) => c <= n - 1
  <2>1. ASSUME NEW s \in Servers, Runs(pump[s], d) PROVE c <= n - 1
    <3>1. held'[s][d] = Owed
      BY <1>1, <1>2, <2>1 DEF Books, Unheld, Runs
    <3>2. Credits(d)' \in SUBSET (Servers \ {s})
      BY <1>2, <2>1, <3>1, NullTypes DEF Credits
    <3>3. IsFiniteSet(Servers \ {s}) /\ Cardinality(Servers \ {s}) = n - 1
      BY DeliveryAssumption, FS_RemoveElement
    <3> QED
      BY <3>2, <3>3, FS_Subset
  <2> QED
    BY <2>1 DEF Running
<1> HIDE DEF a, c, n
<1>10. starts'[d] + Due(d)' + c <= starts[d] + Due(d) + a + n
  <2>1. starts'[d] = starts[d]
    BY <1>2
  <2>2. CASE Running(d)
    BY <1>3, <1>7, <1>8, <1>9, <2>1, <2>2
  <2>3. CASE ~Running(d)
    BY <1>3, <1>7, <1>8, <2>1, <2>3
  <2> QED
    BY <2>2, <2>3
<1> QED
  BY <1>3, <1>5, <1>7, <1>10, Balances DEF a, c

LEMMA WorldBalance ==
  ASSUME Going, NEW d \in Deliveries, Balanced(d),
         \/ RetryFailed \/ Breaks \/ Heals \/ NewDay \/ UNCHANGED vars
         \/ \E c \in Subs : Edit(c) \/ OtherStarts(c) \/ OtherEnds(c)
  PROVE  Balanced(d)'
<1>1. CASE RetryFailed
  <2>1. /\ UNCHANGED <<pump, held, writable, starts, twins, log, swept, commit, day, prune>>
        /\ ledger'[d] = IF ledger[d].state = "failed" THEN Owed ELSE ledger[d]
        /\ Spend("retry") /\ "retry" \in Mishaps
    BY <1>1 DEF RetryFailed, producer, events, servers, Mishaps
  <2>2. CASE twins[Pub(d)] # 0
    <3>1. Rounds(d) + 1 <= Rounds(d)'
      BY <2>1, <2>2, Pays
    <3> QED
      BY <2>1, <3>1, SameViews, Excused
  <2>3. CASE twins[Pub(d)] = 0
    <3>1. Doomed(Pub(d))' = Doomed(Pub(d)) /\ Gone(Pub(d))' = Gone(Pub(d)) /\ OnLog' = OnLog
      BY <2>1 DEF Doomed, Gone, Cutting, CutsLog, OnLog
    <3>2. Owing(d)' => Owing(d)
      BY <2>1, <2>3, <3>1 DEF Owing
    <3> QED
      BY <2>1, <3>2, Quiet
  <2> QED
    BY <2>2, <2>3
<1>2. CASE Breaks
  BY <1>2, BreaksBalance
<1>3. CASE Heals
  <2>1. /\ UNCHANGED <<pump, held, starts, twins, ledger, log, swept, commit, day, prune>>
        /\ writable' = TRUE /\ ~writable
    BY <1>3 DEF Heals, producer, events, told, servers
  <2>2. Credits(d)' \subseteq Credits(d)
    BY <2>1 DEF Credits
  <2>3. ToCome(d)' = ToCome(d) /\ Owing(d)' = Owing(d)
    BY <2>1, SameViews, SameOwing
  <2> QED
    BY <2>1, <2>2, <2>3, Kept
<1>4. CASE NewDay
  <2>1. /\ UNCHANGED <<pump, held, writable, starts, twins, ledger, log, swept, commit, prune>>
        /\ prune.at = "idle"
    BY <1>4 DEF NewDay, producer, events, told, servers
  <2>2. ~Doomed(Pub(d)) /\ Gone(Pub(d))' = Gone(Pub(d)) /\ OnLog' = OnLog
    BY <2>1 DEF Doomed, Gone, Cutting, OnLog
  <2>3. Owing(d)' => Owing(d)
    BY <2>1, <2>2 DEF Owing
  <2> QED
    BY <2>1, <2>3, Quiet
<1>5. CASE UNCHANGED vars \/ \E c \in Subs : Edit(c) \/ OtherStarts(c) \/ OtherEnds(c)
  <2>1. UNCHANGED <<pump, held, writable, starts, twins, ledger, log, swept, commit, day, prune>>
    BY <1>5 DEF Edit, OtherStarts, OtherEnds, vars, producer, events, told, servers
  <2> QED
    BY <2>1, SameOwing, Quiet
<1> QED
  BY <1>1, <1>2, <1>3, <1>4, <1>5

LEMMA BalanceStep ==
  ASSUME Going, Balance
  PROVE  Balance'
<1>1. [Next]_vars
  BY GoesOn
<1>2. SUFFICES ASSUME NEW d \in Deliveries, Sub(d) \notin Faulty, Balanced(d) PROVE Balanced(d)'
  BY DEF Balance
<1>3. ASSUME NEW s \in Servers, TakeDuty(s) \/ PumpStep(s) PROVE Balanced(d)'
  BY <1>2, <1>3, IdlePumpBalance, FlushBalance, ListBalance, OutcomeBalance, RunBalance, PanicBalance
  DEF PumpStep
<1>4. ASSUME NEW s \in Servers, Crash(s) \/ BootReads(s) \/ BootStep(s) PROVE Balanced(d)'
  BY <1>2, <1>4, CrashBalance, BootBalance
<1>5. ASSUME NEW p \in Pubs, Publish(p) \/ AppendEvent(p) \/ AppendLost(p) PROVE Balanced(d)'
  BY <1>2, <1>5, ProducerBalance
<1> QED
  BY <1>1, <1>2, <1>3, <1>4, <1>5, PruneBalance, WorldBalance DEF Next

LEMMA AccountInit ==
  ASSUME Init
  PROVE  AccountInv
<1>1. TypeInv
  BY TypeInit
<1>2. /\ log = <<>> /\ OnLog = {} /\ \A p \in Pubs : twins[p] = 0 /\ commit[p] = Never
      /\ \A s \in Servers : pump[s] = PumpIdle /\ boot[s] = BootDone
      /\ \A s \in Servers, d \in Deliveries : held[s][d] = Owed
      /\ \A d \in Deliveries : starts[d] = 0
      /\ writable = TRUE /\ left = Budget /\ swept = 0 /\ day = 0 /\ appending = {}
  BY DEF Init, OnLog
<1>3. \A p \in Pubs : Cardinality(Lines(p)) <= 1 + twins[p]
  <2>1. ASSUME NEW p \in Pubs PROVE Cardinality(Lines(p)) = 0 /\ twins[p] = 0
    <3>1. Lines(p) = {}
      BY <1>2 DEF Lines, LinesOf
    <3> QED
      BY <1>2, <3>1, FS_EmptySet
  <2> QED
    BY <2>1
<1>4. Books
  <2>1. Dated /\ Told
    BY <1>2, <1>3 DEF Dated, Told
  <2>2. Listed /\ Singles /\ Unheld /\ Rebuilt
    BY <1>2, NullTypes DEF Listed, Singles, Unheld, Rebuilt
  <2>3. InBudget
    BY <1>2, DeliveryAssumption DEF InBudget
  <2> QED
    BY <2>1, <2>2, <2>3 DEF Books
<1>5. ASSUME NEW d \in Deliveries PROVE Balanced(d)
  <2>1. Credits(d) = {}
    BY <1>2, NullTypes DEF Credits
  <2>2. Cardinality(Credits(d)) = 0
    BY <2>1, FS_EmptySet
  <2>3. Pub(d) \in Pubs /\ twins[Pub(d)] = 0
    BY <1>2 DEF Deliveries, Pub
  <2>4. Due(d) \in Nat /\ Due(d) <= 1
    BY <1>1, <1>4, <2>3, Sizes DEF Books
  <2>5. Excuses \in Nat
    BY <1>1, <1>4, BoundTypes DEF Books
  <2>6. Bound(d) = (1 + 0) * (1 + Excuses + 0)
    BY <2>3 DEF Bound
  <2>7. Bound(d) = 1 + Excuses
    BY <2>5, <2>6
  <2> QED
    BY <1>2, <2>2, <2>4, <2>5, <2>7 DEF Balanced
<1> QED
  BY <1>4, <1>5 DEF AccountInv, Balance

\* Runs are accounted for: where retention runs apart from the servers, a consumer is
\* run once for each event of a publication, and once more for each of them for every
\* kill, panic and pass that was cut off, for every server of a ledger that could not
\* be written, and, of several events, for every retry; however many publications,
\* subscriptions and servers there are and whatever happens when.
THEOREM RunsAreAccounted ==
  ASSUME PruneApart
  PROVE  Spec => []RepeatsAreAccounted
<1>1. Init => AccountInv
  BY AccountInit
<1>2. TypeInv /\ CutInv /\ AccountInv /\ [Next]_vars => AccountInv'
  BY BooksStep, BalanceStep DEF AccountInv, Going
<1>3. TypeInv /\ AccountInv => RepeatsAreAccounted
  <2> SUFFICES ASSUME TypeInv, AccountInv, NEW d \in Deliveries, Sub(d) \notin Faulty
               PROVE  starts[d] <= Bound(d)
    BY DEF RepeatsAreAccounted, Bound
  <2>1. Balanced(d)
    BY DEF AccountInv, Balance
  <2>2. starts[d] \in Nat /\ Due(d) \in Nat /\ Cardinality(Credits(d)) \in Nat /\ Bound(d) \in Int
    BY Sizes, CreditTypes, BoundTypes, DeliveryAssumption DEF AccountInv, Books, TypeInv, TypeOK
  <2> QED
    BY <2>1, <2>2 DEF Balanced
<1> QED
  BY <1>1, <1>2, <1>3, TypeInvariant, CutInvariant, PTL DEF Spec

=============================================================================
