---------------------------- MODULE ScrapeProofs ----------------------------
(***************************************************************************)
(* Proofs about Scrape, for any torrents, trackers, intervals and faults.  *)
(* Spaced needs to know what the cycle still holds: whatever may yet be    *)
(* written has no statistics, or statistics that are older than the        *)
(* cycle's now by more than the interval (Aged).                           *)
(***************************************************************************)
EXTENDS Scrape, FiniteSetTheorems, TLAPS

\* What the cycle may still write.
Pending == todo \cup (IF pc = "out" THEN batch ELSE answered)

LongPast(e) == age[e] = None \/ age[e] = AgeCap \/ age[e] > Interval + stampAge

Aged ==
    /\ pc = "due" => \A e \in todo : age[e] = None \/ age[e] > Interval
    /\ pc \in {"next", "out", "write"} => \A e \in Pending : LongPast(e)

IInv == TypeOK /\ Aged

\* An age that grows stays an age, and grows by one below the cap.
LEMMA OlderType ==
    ASSUME NEW n \in 0..AgeCap
    PROVE  /\ Older(n) \in 0..AgeCap
           /\ Older(n) \in {n, n + 1}
           /\ n < AgeCap => Older(n) = n + 1
           /\ n = AgeCap => Older(n) = AgeCap
  BY ScrapeAssumption DEF Older

LEMMA InitIInv == Init => IInv
<1> SUFFICES ASSUME Init PROVE IInv
  OBVIOUS
<1>1. tick \in BOOLEAN
  BY DEF Init
<1>2. phase \in 0..(Interval - 1) /\ stampAge \in 0..AgeCap /\ waited \in Nat
  BY ScrapeAssumption DEF Init
<1>3. age \in [Torrents -> 0..AgeCap \cup {None}] /\ \A e \in Torrents : age[e] = None
  BY DEF Init
<1> QED BY <1>1, <1>2, <1>3, ScrapeAssumption DEF Init, IInv, TypeOK, Aged

-----------------------------------------------------------------------------
(* Every step keeps the type *)

LEMMA TypeStep == TypeOK /\ [Next]_vars => TypeOK'
<1> SUFFICES ASSUME TypeOK, [Next]_vars PROVE TypeOK'
  OBVIOUS
<1> USE ScrapeAssumption
<1>1. CASE UNCHANGED vars
  BY <1>1 DEF TypeOK, vars, cycle, ticker
<1>2. CASE Tick
  <2>1. age' \in [Torrents -> 0..AgeCap \cup {None}]
    BY <1>2, OlderType DEF Tick, TypeOK
  <2>2. \A e \in Torrents : age'[e] # None => age[e] # None
    BY <1>2 DEF Tick, TypeOK
  <2>3. phase' \in 0..(Interval - 1)
    BY <1>2 DEF Tick, TypeOK
  <2>4. tick' \in BOOLEAN
    BY <1>2 DEF Tick, TypeOK
  <2>5. waited' \in Nat
    BY <1>2 DEF Tick, TypeOK
  <2>6. stampAge' \in 0..AgeCap
    BY <1>2, OlderType DEF Tick, TypeOK
  <2> QED BY <1>2, <2>1, <2>2, <2>3, <2>4, <2>5, <2>6 DEF Tick, TypeOK
<1>3. CASE Start
  <2>1. tick' \in BOOLEAN
    BY <1>3 DEF Start
  <2>2. phase' \in 0..(Interval - 1)
    BY <1>3 DEF Start
  <2> QED BY <1>3, <2>1, <2>2 DEF Start, At, TypeOK, cycle
<1>4. CASE Dies
  <2>1. tick' \in BOOLEAN
    BY <1>4 DEF Dies
  <2>2. phase' \in 0..(Interval - 1)
    BY <1>4 DEF Dies
  <2> QED BY <1>4, <2>1, <2>2 DEF Dies, Fault, TypeOK
<1>5. CASE Wake
  BY <1>5 DEF Wake, At, TypeOK, cycle
<1>6. CASE Query
  BY <1>6 DEF Query, At, Due, TypeOK, ticker
<1>7. CASE QueryFails
  BY <1>7 DEF QueryFails, At, Fault, TypeOK, ticker, cycle
<1>8. CASE Stamp
  BY <1>8 DEF Stamp, At, TypeOK, ticker
<1>9. CASE Send
  BY <1>9 DEF Send, At, OfTracker, TypeOK, ticker
<1>10. CASE Answer
  BY <1>10 DEF Answer, At, Fault, TrackerAnswers, TypeOK, ticker
<1>11. CASE CallFails
  BY <1>11 DEF CallFails, At, Fault, TypeOK, ticker, cycle
<1>12. ASSUME NEW e \in Torrents, Write(e) PROVE TypeOK'
  BY <1>12 DEF Write, TypeOK, ticker
<1>13. ASSUME NEW e \in Torrents, WriteFails(e) PROVE TypeOK'
  BY <1>13 DEF WriteFails, Fault, TypeOK, ticker
<1>14. CASE BatchDone
  BY <1>14 DEF BatchDone, At, TypeOK, ticker, cycle
<1>15. CASE CycleDone
  BY <1>15 DEF CycleDone, At, TypeOK, ticker
<1>16. ASSUME NEW e \in Torrents, Appears(e) PROVE TypeOK'
  BY <1>16 DEF Appears, TypeOK, ticker, cycle
<1>17. ASSUME NEW e \in Torrents, Removed(e) PROVE TypeOK'
  BY <1>17 DEF Removed, TypeOK, ticker, cycle
<1> QED
  BY <1>1, <1>2, <1>3, <1>4, <1>5, <1>6, <1>7, <1>8, <1>9, <1>10, <1>11,
     <1>12, <1>13, <1>14, <1>15, <1>16, <1>17 DEF Next, Loop

-----------------------------------------------------------------------------
(* Every step keeps what is pending old enough *)

\* A step that leaves the statistics and the stamp alone, and holds no more.
LEMMA AgedStays ==
    ASSUME Aged, pc \in {"next", "out", "write"}, UNCHANGED <<age, stampAge>>,
           Pending' \subseteq Pending, pc' # "due"
    PROVE  Aged'
  BY DEF Aged, LongPast

LEMMA AgedStep == IInv /\ [Next]_vars => Aged'
<1> SUFFICES ASSUME TypeOK, Aged, [Next]_vars PROVE Aged'
  BY DEF IInv
<1> USE ScrapeAssumption
<1>1. CASE UNCHANGED vars
  BY <1>1 DEF Aged, Pending, LongPast, vars, cycle, ticker
<1>2. CASE Tick
  <2>1. pc' = pc /\ Pending' = Pending /\ todo' = todo
    BY <1>2 DEF Tick, Pending
  <2>2. ASSUME pc = "due", NEW e \in todo PROVE age'[e] = None \/ age'[e] > Interval
    <3>1. e \in Torrents /\ (age[e] = None \/ age[e] > Interval)
      BY <2>2 DEF TypeOK, Aged
    <3>2. CASE age[e] = None
      BY <1>2, <3>1, <3>2 DEF Tick
    <3>3. CASE age[e] # None
      BY <1>2, <3>1, <3>3, OlderType DEF Tick, TypeOK
    <3> QED BY <3>2, <3>3
  <2>3. ASSUME pc \in {"next", "out", "write"}, NEW e \in Pending PROVE LongPast(e)'
    <3>1. e \in Torrents /\ LongPast(e)
      BY <2>3 DEF TypeOK, Aged, Pending
    <3>2. CASE age[e] = None
      BY <1>2, <3>1, <3>2 DEF Tick, LongPast
    <3>3. CASE age[e] # None
      <4>1. age[e] \in 0..AgeCap /\ stampAge \in 0..AgeCap
        BY <3>1, <3>3 DEF TypeOK
      <4>2. age'[e] = Older(age[e]) /\ stampAge' = Older(stampAge)
        BY <1>2, <2>3, <3>1, <3>3 DEF Tick
      <4>3. age'[e] = AgeCap \/ age'[e] > Interval + stampAge'
        BY <3>1, <3>3, <4>1, <4>2, OlderType DEF LongPast
      <4> QED BY <4>3 DEF LongPast
    <3> QED BY <3>2, <3>3
  <2> QED BY <2>1, <2>2, <2>3 DEF Aged
<1>3. CASE Start
  BY <1>3 DEF Start, At, Aged
<1>4. CASE Dies
  BY <1>4 DEF Dies, Aged
<1>5. CASE Wake
  BY <1>5 DEF Wake, At, Aged
<1>6. CASE Query
  BY <1>6 DEF Query, At, Due, Aged
<1>7. CASE QueryFails
  BY <1>7 DEF QueryFails, At, Aged
<1>8. CASE Stamp
  <2>1. pc = "due" /\ pc' = "next" /\ stampAge' = 0 /\ age' = age
    BY <1>8 DEF Stamp, At
  <2>2. Pending' = todo
    BY <1>8 DEF Stamp, At, Pending, TypeOK
  <2>3. \A e \in todo : e \in Torrents /\ (age[e] = None \/ age[e] > Interval)
    BY <2>1 DEF Aged, TypeOK
  <2> QED BY <2>1, <2>2, <2>3 DEF Aged, LongPast, TypeOK
<1>9. CASE Send
  <2>1. Pending' \subseteq Pending
    BY <1>9 DEF Send, At, Pending, OfTracker
  <2> QED BY <1>9, <2>1, AgedStays DEF Send, At
<1>10. CASE Answer
  <2>1. Pending' \subseteq Pending
    BY <1>10 DEF Answer, At, Pending
  <2> QED BY <1>10, <2>1, AgedStays DEF Answer, At
<1>11. CASE CallFails
  <2>1. Pending' \subseteq Pending
    BY <1>11 DEF CallFails, At, Pending, cycle, TypeOK
  <2> QED BY <1>11, <2>1, AgedStays DEF CallFails, At, cycle
<1>12. ASSUME NEW e \in Torrents, Write(e) PROVE Aged'
  <2>1. pc = "write" /\ pc' = "write" /\ stampAge' = stampAge
    BY <1>12 DEF Write
  <2>2. Pending' \subseteq Pending /\ e \notin Pending'
    BY <1>12 DEF Write, Pending, TypeOK
  <2>3. \A f \in Pending' : f \in Torrents /\ age'[f] = age[f] /\ LongPast(f)
    BY <1>12, <2>1, <2>2 DEF Write, TypeOK, Aged, Pending
  <2> QED BY <2>1, <2>3 DEF Aged, LongPast
<1>13. ASSUME NEW e \in Torrents, WriteFails(e) PROVE Aged'
  <2>1. Pending' \subseteq Pending
    BY <1>13 DEF WriteFails, Pending
  <2> QED BY <1>13, <2>1, AgedStays DEF WriteFails
<1>14. CASE BatchDone
  <2>1. Pending' \subseteq Pending
    BY <1>14 DEF BatchDone, At, Pending, cycle
  <2> QED BY <1>14, <2>1, AgedStays DEF BatchDone, At, cycle
<1>15. CASE CycleDone
  BY <1>15 DEF CycleDone, At, Aged
<1>16. ASSUME NEW e \in Torrents, Appears(e) PROVE Aged'
  BY <1>16 DEF Appears, Aged, Pending, LongPast, cycle
<1>17. ASSUME NEW e \in Torrents, Removed(e) PROVE Aged'
  <2>1. pc' = pc /\ todo' = todo /\ Pending' = Pending /\ stampAge' = stampAge
    BY <1>17 DEF Removed, Pending, cycle
  <2>2. \A f \in Torrents : age'[f] = age[f] \/ age'[f] = None
    BY <1>17 DEF Removed, TypeOK
  <2>3. todo \subseteq Torrents /\ Pending \subseteq Torrents
    BY DEF TypeOK, Pending
  <2> QED BY <2>1, <2>2, <2>3 DEF Aged, LongPast
<1> QED
  BY <1>1, <1>2, <1>3, <1>4, <1>5, <1>6, <1>7, <1>8, <1>9, <1>10, <1>11,
     <1>12, <1>13, <1>14, <1>15, <1>16, <1>17 DEF Next, Loop

LEMMA Inductive == Spec => []IInv
<1>1. IInv /\ [Next]_vars => IInv'
  BY TypeStep, AgedStep DEF IInv
<1> QED BY <1>1, InitIInv, PTL DEF Spec

-----------------------------------------------------------------------------
(* The calls of a cycle *)

\* Fewer torrents make fewer batches.
LEMMA FewerBatches ==
    ASSUME NEW T \in SUBSET Torrents, NEW S \in SUBSET T
    PROVE  /\ IsFiniteSet(Batches(T)) /\ Cardinality(Batches(T)) \in Nat
           /\ Batches(S) \subseteq Batches(T)
           /\ Cardinality(Batches(S)) \in Nat
           /\ Cardinality(Batches(S)) <= Cardinality(Batches(T))
<1> USE BatchAssumption
<1>1. Cardinality(Torrents) \in Nat
  BY FS_CardinalityType
<1>2. IsFiniteSet({TrackerOf[e] : e \in Torrents})
  <2> DEFINE g == [e \in Torrents |-> TrackerOf[e]]
             K == {TrackerOf[e] : e \in Torrents}
  <2>1. g \in Surjection(Torrents, K)
    BY DEF Surjection
  <2> HIDE DEF g, K
  <2>2. IsFiniteSet(K)
    BY <2>1, FS_Surjection
  <2> QED BY <2>2 DEF K
<1>3. IsFiniteSet({TrackerOf[e] : e \in Torrents} \X (0..Cardinality(Torrents)))
  <2>1. IsFiniteSet(0..Cardinality(Torrents))
    <3>1. 0 \in Int /\ Cardinality(Torrents) \in Int
      BY <1>1
    <3> QED BY ONLY <3>1, FS_Interval
  <2> QED BY ONLY <1>2, <2>1, FS_Product
<1>4. IsFiniteSet(Batches(T)) /\ Cardinality(Batches(T)) \in Nat
  BY <1>3, FS_Subset, FS_CardinalityType DEF Batches
<1>5. ASSUME NEW call \in Batches(S) PROVE call \in Batches(T)
  <2> DEFINE k == call[1]
             j == call[2]
  <2>1. call \in {TrackerOf[e] : e \in Torrents} \X (0..Cardinality(Torrents))
    BY DEF Batches
  <2>2. OfTracker(S, k) \subseteq OfTracker(T, k) /\ IsFiniteSet(OfTracker(T, k))
    BY FS_Subset DEF OfTracker
  <2>3. /\ Cardinality(OfTracker(S, k)) \in Nat /\ Cardinality(OfTracker(T, k)) \in Nat
        /\ Cardinality(OfTracker(S, k)) <= Cardinality(OfTracker(T, k))
    BY <2>2, FS_Subset, FS_CardinalityType
  <2>4. j * MaxBatch < Cardinality(OfTracker(S, k)) /\ j * MaxBatch \in Int
    BY <1>1, <2>1 DEF Batches
  <2>5. j * MaxBatch < Cardinality(OfTracker(T, k))
    BY <2>3, <2>4
  <2> QED BY <2>1, <2>5 DEF Batches
<1>6. Batches(S) \subseteq Batches(T)
  BY <1>5
<1> QED BY <1>4, <1>6, FS_Subset, FS_CardinalityType

\* The number of the last batch of n torrents.
LEMMA LastBatch ==
    ASSUME NEW n \in Nat \ {0}
    PROVE  \E j \in 0..(n - 1) : j * MaxBatch < n /\ n <= j * MaxBatch + MaxBatch
<1> DEFINE j == (n - 1) \div MaxBatch
<1>1. MaxBatch \in Nat \ {0} /\ n - 1 \in Nat
  BY BatchAssumption
<1>2. j \in Nat /\ MaxBatch * j <= n - 1 /\ n - 1 < MaxBatch * j + MaxBatch
  BY <1>1
<1> HIDE DEF j
<1>3. j <= MaxBatch * j /\ MaxBatch * j = j * MaxBatch /\ j * MaxBatch \in Nat
  BY <1>1, <1>2
<1>4. j \in 0..(n - 1) /\ j * MaxBatch < n /\ n <= j * MaxBatch + MaxBatch
  BY <1>1, <1>2, <1>3
<1> QED BY <1>4

\* Each call is for one batch less: the others are as they were.
LEMMA SendTakesOne ==
    ASSUME TypeOK, Send
    PROVE  /\ Cardinality(Batches(todo)) \in Nat /\ Cardinality(Batches(todo')) \in Nat
           /\ Cardinality(Batches(todo')) + 1 <= Cardinality(Batches(todo))
<1> USE BatchAssumption
<1>1. PICK S \in SUBSET Torrents, k \in {TrackerOf[e] : e \in todo} :
          /\ S # {} /\ S \subseteq OfTracker(todo, k)
          /\ Cardinality(S) <= MaxBatch
          /\ Cardinality(S) < MaxBatch => S = OfTracker(todo, k)
          /\ todo' = todo \ S
  BY DEF Send
<1> DEFINE group == OfTracker(todo, k)
           n == Cardinality(group)
           left == OfTracker(todo', k)
<1>2. todo \in SUBSET Torrents /\ todo' \in SUBSET todo /\ group \in SUBSET Torrents
  BY <1>1 DEF TypeOK, OfTracker
<1>3. left = group \ S /\ S \in SUBSET group
  BY <1>1 DEF OfTracker
<1>4. /\ IsFiniteSet(group) /\ n \in Nat /\ n <= Cardinality(Torrents)
      /\ IsFiniteSet(S) /\ Cardinality(S) \in Nat /\ Cardinality(S) <= n
      /\ Cardinality(Torrents) \in Nat
  BY <1>2, <1>3, FS_Subset, FS_CardinalityType
<1>5. Cardinality(left) = n - Cardinality(S)
  <2>1. group \cap S = S
    BY <1>3
  <2> QED BY <1>3, <1>4, <2>1, FS_Difference
<1>6. Cardinality(S) >= 1
  BY <1>1, <1>4, FS_EmptySet
<1>7. PICK j \in 0..(n - 1) : j * MaxBatch < n /\ n <= j * MaxBatch + MaxBatch
  <2>1. n \in Nat \ {0}
    BY <1>4, <1>6
  <2> HIDE DEF n
  <2> QED BY ONLY <2>1, LastBatch
<1>8. k \in {TrackerOf[e] : e \in Torrents}
  BY <1>2
<1>9. <<k, j>> \in Batches(todo)
  <2>1. j \in 0..Cardinality(Torrents)
    BY <1>4, <1>7
  <2> QED BY <1>7, <1>8, <2>1 DEF Batches
<1>10. <<k, j>> \notin Batches(todo')
  <2>1. j * MaxBatch \in Nat /\ n - Cardinality(S) <= j * MaxBatch
    <3>1. j * MaxBatch \in Nat
      BY <1>4, <1>7
    <3>2. CASE Cardinality(S) < MaxBatch
      BY <1>1, <1>4, <3>1, <3>2
    <3>3. CASE Cardinality(S) = MaxBatch
      BY <1>4, <1>7, <3>1, <3>3
    <3> QED BY <1>1, <1>4, <3>1, <3>2, <3>3
  <2>2. ~(j * MaxBatch < Cardinality(left))
    BY <1>4, <1>5, <2>1
  <2> QED BY <2>2 DEF Batches
<1>11. /\ IsFiniteSet(Batches(todo)) /\ Cardinality(Batches(todo)) \in Nat
       /\ Cardinality(Batches(todo')) \in Nat /\ Batches(todo') \subseteq Batches(todo)
       /\ Cardinality(Batches(todo')) <= Cardinality(Batches(todo))
  BY <1>2, FewerBatches
<1>12. Cardinality(Batches(todo')) # Cardinality(Batches(todo))
  BY <1>9, <1>10, <1>11, FS_Subset
<1> QED BY <1>11, <1>12

-----------------------------------------------------------------------------
(* The time of a cycle *)

Patient == waited <= Patience

\* The cycle has its targets.
Asking == pc \in {"next", "out", "write"}

\* The same bound for each of fewer things.
LEMMA Scaled ==
    ASSUME NEW t \in Nat, NEW m \in Nat, NEW n \in Nat, m <= n
    PROVE  /\ t * m \in Nat /\ t * n \in Nat
           /\ t * m <= t * n
           /\ t * (n - m) = t * n - t * m
           /\ m + 1 <= n => t * m + t <= t * n
  OBVIOUS

LEMMA FewerWrites ==
    ASSUME NEW T \in SUBSET Torrents, NEW S \in SUBSET T
    PROVE  /\ IsFiniteSet(S) /\ Cardinality(S) \in Nat
           /\ Cardinality(Writable(S)) \in Nat /\ Cardinality(Writable(T)) \in Nat
           /\ Cardinality(Writable(S)) <= Cardinality(Writable(T))
           /\ Writable(T \ S) = Writable(T) \ Writable(S)
           /\ Cardinality(Writable(T \ S)) = Cardinality(Writable(T)) - Cardinality(Writable(S))
<1>1. Writable(S) \in SUBSET Writable(T) /\ Writable(T) \in SUBSET Torrents
  BY DEF Writable
<1>2. /\ IsFiniteSet(S) /\ Cardinality(S) \in Nat
      /\ IsFiniteSet(Writable(T)) /\ Cardinality(Writable(T)) \in Nat
      /\ Cardinality(Writable(S)) \in Nat
      /\ Cardinality(Writable(S)) <= Cardinality(Writable(T))
  BY <1>1, BatchAssumption, FS_Subset, FS_CardinalityType
<1>3. Writable(T \ S) = Writable(T) \ Writable(S)
  BY DEF Writable
<1>4. Cardinality(Writable(T) \ Writable(S)) = Cardinality(Writable(T)) - Cardinality(Writable(S))
  <2>1. Writable(T) \cap Writable(S) = Writable(S)
    BY <1>1
  <2>2. Cardinality(Writable(T) \ Writable(S))
          = Cardinality(Writable(T)) - Cardinality(Writable(T) \cap Writable(S))
    BY <1>2, FS_Difference
  <2> QED BY <2>1, <2>2
<1> QED BY <1>2, <1>3, <1>4

LEMMA TimeForFewer ==
    ASSUME NEW T \in SUBSET Torrents, NEW S \in SUBSET T
    PROVE  /\ TimeFor(S) \in Nat /\ TimeFor(T) \in Nat
           /\ TimeFor(S) <= TimeFor(T)
<1> DEFINE b == Cardinality(Batches(S))
           c == Cardinality(Batches(T))
           v == Cardinality(Writable(S))
           w == Cardinality(Writable(T))
<1>1. b \in Nat /\ c \in Nat /\ b <= c
  BY FewerBatches
<1>2. v \in Nat /\ w \in Nat /\ v <= w
  BY FewerWrites
<1>3. CallBound \in Nat /\ WriteTime \in Nat
  BY ScrapeAssumption DEF CallBound
<1>4. /\ TimeFor(S) = CallBound * b + WriteTime * v
      /\ TimeFor(T) = CallBound * c + WriteTime * w
  BY DEF TimeFor
<1> HIDE DEF b, c, v, w
<1>5. CallBound * b \in Nat /\ CallBound * c \in Nat /\ CallBound * b <= CallBound * c
  BY <1>1, <1>3, Scaled
<1>6. WriteTime * v \in Nat /\ WriteTime * w \in Nat /\ WriteTime * v <= WriteTime * w
  BY <1>2, <1>3, Scaled
<1> QED BY <1>4, <1>5, <1>6

\* The targets of a cycle have trackers.
LEMMA NoLongerCycle ==
    ASSUME TypeOK
    PROVE  TimeFor(todo) \in Nat /\ LongestCycle \in Nat /\ TimeFor(todo) <= LongestCycle
<1> DEFINE All == {e \in Torrents : TrackerOf[e] # NoTracker}
<1>1. All \in SUBSET Torrents /\ todo \in SUBSET All
  BY DEF TypeOK
<1> HIDE DEF All
<1>2. LongestCycle = TimeFor(All)
  BY DEF LongestCycle, All
<1> QED BY <1>1, <1>2, TimeForFewer

\* What a batch may take is no longer left to the others.
LEMMA SendTime ==
    ASSUME TypeOK, Send
    PROVE  TimeFor(todo') + CallBound + WriteTime * Cardinality(Writable(batch'))
               <= TimeFor(todo)
<1> DEFINE b == Cardinality(Batches(todo))
           c == Cardinality(Batches(todo'))
           v == Cardinality(Writable(batch'))
           w == Cardinality(Writable(todo))
<1>1. todo \in SUBSET Torrents /\ batch' \in SUBSET todo /\ todo' = todo \ batch'
  BY DEF Send, OfTracker, TypeOK
<1>2. b \in Nat /\ c \in Nat /\ c + 1 <= b
  BY SendTakesOne
<1>3. v \in Nat /\ w \in Nat /\ v <= w /\ Cardinality(Writable(todo')) = w - v
  BY <1>1, FewerWrites
<1>4. CallBound \in Nat /\ WriteTime \in Nat
  BY ScrapeAssumption DEF CallBound
<1>5. /\ TimeFor(todo) = CallBound * b + WriteTime * w
      /\ TimeFor(todo') = CallBound * c + WriteTime * (w - v)
  BY <1>3 DEF TimeFor
<1> HIDE DEF b, c, v, w
<1>6. /\ CallBound * b \in Nat /\ CallBound * c \in Nat
      /\ CallBound * c + CallBound <= CallBound * b
  BY <1>2, <1>4, Scaled
<1>7. /\ WriteTime * v \in Nat /\ WriteTime * w \in Nat
      /\ WriteTime * (w - v) = WriteTime * w - WriteTime * v
  BY <1>3, <1>4, Scaled
<1>8. TimeFor(todo') + CallBound + WriteTime * v <= TimeFor(todo)
  BY <1>4, <1>5, <1>6, <1>7
<1> QED BY <1>8 DEF v

\* While the goroutine is patient there is never less than no time left.
LEMMA LeftType ==
    ASSUME TypeOK, Patient, Asking
    PROVE  /\ TimeLeft \in Nat /\ TimeFor(todo) \in Nat /\ LeftOfBatch \in Nat
           /\ WriteTime * Cardinality(Writable(batch)) \in Nat
           /\ WriteTime * Cardinality(answered) \in Nat
<1>1. TimeFor(todo) \in Nat
  BY NoLongerCycle
<1>2. CallBound \in Nat /\ WriteTime \in Nat /\ waited \in Nat
  BY ScrapeAssumption DEF CallBound, TypeOK
<1>3. batch \in SUBSET Torrents /\ answered \in SUBSET Torrents
  BY DEF TypeOK
<1>4. /\ Cardinality(Writable(batch)) \in Nat
      /\ IsFiniteSet(answered) /\ Cardinality(answered) \in Nat
  BY <1>3, FewerWrites
<1>5. /\ WriteTime * Cardinality(Writable(batch)) \in Nat
      /\ WriteTime * Cardinality(answered) \in Nat
      /\ Cardinality(answered) >= 1 => WriteTime <= WriteTime * Cardinality(answered)
  BY <1>2, <1>4
<1>6. LeftOfBatch \in Nat
  <2>1. CASE pc = "next"
    BY <2>1 DEF LeftOfBatch
  <2>2. CASE pc = "out"
    BY <1>2, <1>5, <2>2 DEF LeftOfBatch, Patient, Patience
  <2>3. CASE pc = "write" /\ answered = {}
    BY <1>2, <1>5, <2>3 DEF LeftOfBatch, Patient, Patience
  <2>4. CASE pc = "write" /\ answered # {}
    <3>1. Cardinality(answered) >= 1
      BY <1>4, <2>4, FS_EmptySet
    <3> QED BY <1>2, <1>5, <2>4, <3>1 DEF LeftOfBatch, Patient, Patience
  <2> QED BY <2>1, <2>2, <2>3, <2>4 DEF Asking
<1> QED BY <1>1, <1>5, <1>6 DEF TimeLeft

\* A tick finds the goroutine waiting, and takes one from the time left.
LEMMA LeftTick ==
    ASSUME TypeOK, Patient, Asking, Tick
    PROVE  TimeLeft >= 1 /\ TimeLeft' = TimeLeft - 1
<1>1. waited \in Nat /\ waited' = waited + 1 /\ waited < Patience /\ CallBound \in Nat
  BY ScrapeAssumption DEF Tick, Asking, TypeOK, CallBound
<1>2. /\ pc' = pc /\ todo' = todo /\ batch' = batch /\ answered' = answered
      /\ TimeFor(todo)' = TimeFor(todo) /\ Writable(batch)' = Writable(batch)
  BY DEF Tick, TimeFor, Writable, Scrapable, Batches, OfTracker, CallBound
<1>3. pc \in {"out", "write"}
  BY <1>1 DEF Patience, Asking
<1>4. /\ TimeLeft \in Nat /\ TimeFor(todo) \in Nat
      /\ WriteTime * Cardinality(Writable(batch)) \in Nat
      /\ WriteTime * Cardinality(answered) \in Nat
  BY LeftType
<1>5. LeftOfBatch' = LeftOfBatch - 1
  BY <1>1, <1>2, <1>3, <1>4 DEF LeftOfBatch, CallBound
<1>6. LeftOfBatch \in Nat /\ LeftOfBatch >= 1
  <2>1. CASE pc = "out"
    BY <1>1, <1>4, <2>1 DEF LeftOfBatch, Patience
  <2>2. CASE pc = "write"
    <3>1. answered # {} /\ waited < WriteTime /\ WriteTime \in Nat
      BY <1>1, <2>2, ScrapeAssumption DEF Patience
    <3>2. Cardinality(answered) \in Nat /\ Cardinality(answered) # 0
      <4>1. IsFiniteSet(answered)
        BY BatchAssumption, FS_Subset DEF TypeOK
      <4> QED BY <3>1, <4>1, FS_CardinalityType, FS_EmptySet
    <3>3. WriteTime <= WriteTime * Cardinality(answered)
      BY <3>1, <3>2
    <3> QED BY <1>1, <1>4, <2>2, <3>1, <3>3 DEF LeftOfBatch
  <2> QED BY <1>3, <2>1, <2>2
<1> QED BY <1>2, <1>4, <1>5, <1>6 DEF TimeLeft

\* No step of the goroutine inside a cycle adds to the time left.
LEMMA LeftStep ==
    ASSUME TypeOK, Patient, Asking,
           Send \/ Answer \/ CallFails \/ BatchDone
               \/ \E e \in Torrents : Write(e) \/ WriteFails(e)
    PROVE  TimeLeft' \in Int /\ TimeLeft' <= TimeLeft
<1>1. /\ TimeLeft \in Nat /\ TimeFor(todo) \in Nat /\ LeftOfBatch \in Nat
      /\ WriteTime * Cardinality(Writable(batch)) \in Nat
      /\ WriteTime * Cardinality(answered) \in Nat
  BY LeftType
<1>2. CallBound \in Nat /\ WriteTime \in Nat /\ waited \in Nat
  BY ScrapeAssumption DEF CallBound, TypeOK
<1>3. todo' = todo => TimeFor(todo)' = TimeFor(todo)
  BY DEF TimeFor, Writable, Scrapable, Batches, OfTracker, CallBound
<1>4. CASE Send
  <2>1. pc = "next" /\ pc' = "out" /\ waited' = 0
    BY <1>4 DEF Send, At
  <2> DEFINE w == WriteTime * Cardinality(Writable(batch'))
  <2>2. TimeFor(todo') \in Nat /\ w \in Nat /\ TimeFor(todo') + CallBound + w <= TimeFor(todo)
    <3>1. todo \in SUBSET Torrents /\ todo' \in SUBSET todo /\ batch' \in SUBSET Torrents
      BY <1>4 DEF Send, TypeOK
    <3>2. TimeFor(todo') \in Nat /\ Cardinality(Writable(batch')) \in Nat
      BY <3>1, TimeForFewer, FewerWrites
    <3> QED BY <1>2, <1>4, <3>2, SendTime
  <2>3. /\ TimeFor(todo)' = TimeFor(todo') /\ Writable(batch)' = Writable(batch')
        /\ CallBound' = CallBound
    BY DEF TimeFor, Writable, Scrapable, Batches, OfTracker, CallBound
  <2> HIDE DEF w
  <2>4. LeftOfBatch' = CallBound + w /\ LeftOfBatch = 0
    BY <1>2, <2>1, <2>2, <2>3 DEF LeftOfBatch, w
  <2> QED BY <1>1, <1>2, <2>2, <2>3, <2>4 DEF TimeLeft
<1>5. CASE Answer
  <2>1. pc = "out" /\ pc' = "write" /\ waited' = 0 /\ todo' = todo
    BY <1>5 DEF Answer, At
  <2>2. answered' \in SUBSET Writable(batch) /\ Writable(batch) \in SUBSET Torrents
    BY <1>5 DEF Answer, TrackerAnswers, Writable, TypeOK
  <2> DEFINE w == Cardinality(Writable(batch))
             v == Cardinality(answered')
  <2>3. w \in Nat /\ v \in Nat /\ v <= w
    BY <2>2, BatchAssumption, FS_Subset, FS_CardinalityType
  <2>4. waited <= CallBound /\ LeftOfBatch = CallBound - waited + WriteTime * w
    BY <2>1 DEF Patient, Patience, LeftOfBatch
  <2>5. LeftOfBatch' = WriteTime * v - 0
    BY <2>1 DEF LeftOfBatch
  <2> HIDE DEF v, w
  <2>6. WriteTime * v \in Nat /\ WriteTime * w \in Nat /\ WriteTime * v <= WriteTime * w
    BY <1>2, <2>3, Scaled
  <2> QED BY <1>1, <1>2, <1>3, <2>1, <2>4, <2>5, <2>6 DEF TimeLeft
<1>6. CASE CallFails \/ BatchDone
  <2>1. pc' = "next" /\ todo' = todo
    BY <1>6 DEF CallFails, BatchDone, At, cycle
  <2>2. LeftOfBatch' = 0
    BY <2>1 DEF LeftOfBatch
  <2> QED BY <1>1, <1>3, <2>1, <2>2 DEF TimeLeft
<1>7. ASSUME NEW e \in Torrents, Write(e) \/ WriteFails(e)
      PROVE  TimeLeft' \in Int /\ TimeLeft' <= TimeLeft
  <2>1. /\ pc = "write" /\ pc' = "write" /\ waited' = 0 /\ todo' = todo
        /\ e \in answered /\ answered' = answered \ {e} /\ answered \in SUBSET Torrents
    BY <1>7 DEF Write, WriteFails, TypeOK
  <2> DEFINE n == Cardinality(answered)
  <2>2. n \in Nat /\ n >= 1 /\ Cardinality(answered') = n - 1
    <3>1. IsFiniteSet(answered)
      BY <2>1, BatchAssumption, FS_Subset
    <3>2. n \in Nat /\ n # 0
      BY <2>1, <3>1, FS_CardinalityType, FS_EmptySet
    <3>3. Cardinality(answered \ {e}) = n - 1
      BY <2>1, <3>1, FS_RemoveElement
    <3> QED BY <2>1, <3>2, <3>3
  <2>3. waited <= WriteTime /\ LeftOfBatch = WriteTime * n - waited
    BY <2>1 DEF Patient, Patience, LeftOfBatch
  <2>4. LeftOfBatch' = WriteTime * (n - 1) - 0
    BY <2>1, <2>2 DEF LeftOfBatch
  <2> HIDE DEF n
  <2>5. WriteTime * (n - 1) = WriteTime * n - WriteTime /\ WriteTime * n \in Nat
    BY <1>2, <2>2
  <2> QED BY <1>1, <1>2, <1>3, <2>1, <2>3, <2>4, <2>5 DEF TimeLeft
<1> QED BY <1>4, <1>5, <1>6, <1>7

\* At its now a cycle has no more to do than the longest.
LEMMA LeftStamp ==
    ASSUME TypeOK, Stamp
    PROVE  TimeLeft' \in Nat /\ TimeLeft' <= LongestCycle
<1>1. pc' = "next" /\ todo' = todo
  BY DEF Stamp, At
<1>2. LeftOfBatch' = 0 /\ TimeFor(todo)' = TimeFor(todo)
  BY <1>1 DEF LeftOfBatch, TimeFor, Writable, Scrapable, Batches, OfTracker, CallBound
<1> QED BY <1>2, NoLongerCycle DEF TimeLeft

\* The other steps leave the cycle alone, or are outside of it.
LEMMA LeftAlone ==
    ASSUME UNCHANGED <<pc, waited, todo, batch, answered>>
    PROVE  TimeLeft' = TimeLeft /\ Patience' = Patience
  BY DEF TimeLeft, LeftOfBatch, TimeFor, Writable, Scrapable, Batches, OfTracker, CallBound,
         Patience

LEMMA PatientStep ==
    ASSUME TypeOK, Patient, [Next]_vars
    PROVE  Patient'
<1>1. waited \in Nat /\ Patience \in Nat /\ Patience' \in Nat
  BY ScrapeAssumption DEF TypeOK, Patience, CallBound
<1>2. CASE UNCHANGED <<pc, waited, todo, batch, answered>>
  BY <1>2, LeftAlone DEF Patient
<1>3. CASE Tick
  <2>1. Patience' = Patience /\ waited' = IF waited < Patience THEN waited + 1 ELSE waited
    BY <1>3 DEF Tick, Patience, CallBound
  <2> QED BY <1>1, <2>1 DEF Patient
<1>4. CASE waited' = 0
  BY <1>1, <1>4 DEF Patient
<1>5. CASE Start \/ Dies \/ Wake \/ Query \/ QueryFails \/ Stamp \/ Send \/ Answer
             \/ CallFails \/ BatchDone \/ CycleDone
  BY <1>4, <1>5 DEF Start, Dies, Wake, Query, QueryFails, Stamp, Send, Answer, CallFails,
         BatchDone, CycleDone, At
<1>6. ASSUME NEW e \in Torrents, Write(e) \/ WriteFails(e) PROVE Patient'
  BY <1>4, <1>6 DEF Write, WriteFails
<1>7. ASSUME NEW e \in Torrents, Appears(e) \/ Removed(e) PROVE Patient'
  BY <1>2, <1>7 DEF Appears, Removed, cycle
<1>8. CASE UNCHANGED vars
  BY <1>2, <1>8 DEF vars, cycle
<1> QED BY <1>3, <1>5, <1>6, <1>7, <1>8 DEF Next, Loop

TimeInv == Patient /\ CyclesEnd

LEMMA TimeStep == TypeOK /\ TimeInv /\ [Next]_vars => TimeInv'
<1> SUFFICES ASSUME TypeOK, Patient, CyclesEnd, [Next]_vars PROVE CyclesEnd'
  BY PatientStep DEF TimeInv
<1>1. stampAge \in 0..AgeCap /\ AgeCap \in Nat /\ LongestCycle \in Nat
  BY NoLongerCycle, ScrapeAssumption DEF TypeOK
<1>2. LongestCycle' = LongestCycle
  BY DEF LongestCycle, TimeFor, Writable, Scrapable, Batches, OfTracker, CallBound
<1>3. Asking => TimeLeft \in Nat /\ stampAge + TimeLeft <= LongestCycle
  BY LeftType DEF CyclesEnd, Asking
<1>4. CASE UNCHANGED <<pc, waited, stampAge, todo, batch, answered>>
  BY <1>2, <1>4, LeftAlone DEF CyclesEnd
<1>5. CASE Tick
  <2>1. pc' = pc
    BY <1>5 DEF Tick
  <2>2. ASSUME Asking PROVE stampAge' + TimeLeft' <= LongestCycle
    <3>1. stampAge' = Older(stampAge)
      BY <1>5, <2>2 DEF Tick, Asking
    <3>2. stampAge' \in Nat /\ stampAge' <= stampAge + 1
      BY <1>1, <3>1, OlderType
    <3>3. TimeLeft' = TimeLeft - 1
      BY <1>5, <2>2, LeftTick
    <3> QED BY <1>1, <1>3, <2>2, <3>2, <3>3
  <2> QED BY <1>2, <2>1, <2>2 DEF CyclesEnd, Asking
<1>6. CASE Send \/ Answer \/ CallFails \/ BatchDone
             \/ \E e \in Torrents : Write(e) \/ WriteFails(e)
  <2>1. Asking /\ stampAge' = stampAge
    BY <1>6 DEF Asking, Send, Answer, CallFails, BatchDone, Write, WriteFails, At, cycle
  <2>2. PICK left \in Int : left = TimeLeft' /\ left <= TimeLeft
    BY <1>6, <2>1, LeftStep
  <2>3. stampAge + left <= LongestCycle
    <3>1. left <= TimeLeft
      BY <2>2
    <3> QED BY <1>1, <1>3, <2>1, <3>1
  <2> QED BY <1>1, <1>2, <2>1, <2>2, <2>3 DEF CyclesEnd
<1>7. CASE Stamp
  <2>1. stampAge' = 0
    BY <1>7 DEF Stamp
  <2> QED BY <1>1, <1>2, <1>7, <2>1, LeftStamp DEF CyclesEnd
<1>8. CASE Start \/ Dies \/ Wake \/ QueryFails \/ Query \/ CycleDone
  <2>1. pc' \in {"begin", "down", "idle", "due"}
    BY <1>8 DEF Start, Dies, Wake, QueryFails, Query, CycleDone, At
  <2> QED BY <2>1 DEF CyclesEnd
<1>9. ASSUME NEW e \in Torrents, Appears(e) \/ Removed(e) PROVE CyclesEnd'
  BY <1>4, <1>9 DEF Appears, Removed, cycle
<1>10. CASE UNCHANGED vars
  BY <1>4, <1>10 DEF vars, cycle
<1> QED BY <1>5, <1>6, <1>7, <1>8, <1>9, <1>10 DEF Next, Loop

-----------------------------------------------------------------------------
(* Cycles and ticks *)

\* One interval is enough for the query, the stamp, every call and every write.
EnoughTime == 2 * LocalTime + LongestCycle < Interval

\* Then the time since the last tick is the time since the cycle began, and a
\* tick finds the goroutine idle.
Timely ==
    /\ tick => pc = "idle" /\ phase = 0
    /\ pc = "begin" => phase <= waited
    /\ pc = "due" => phase <= LocalTime + waited
    /\ Asking => phase + TimeLeft <= 2 * LocalTime + LongestCycle

LEMMA TimelyStep ==
    ASSUME EnoughTime, TypeOK, Patient, Timely, [Next]_vars
    PROVE  Timely'
<1> USE ScrapeAssumption
<1>0. /\ LongestCycle \in Nat /\ 2 * LocalTime + LongestCycle < Interval
      /\ waited \in Nat /\ phase \in 0..(Interval - 1) /\ tick \in BOOLEAN
      /\ LocalTime \in Nat /\ Interval \in Nat /\ phase \in Nat
  BY NoLongerCycle DEF TypeOK, EnoughTime
<1>1. LongestCycle' = LongestCycle
  BY DEF LongestCycle, TimeFor, Writable, Scrapable, Batches, OfTracker, CallBound
<1>2. Asking => TimeLeft \in Nat
  BY LeftType
<1>3. CASE UNCHANGED <<pc, waited, ticker, todo, batch, answered>>
  BY <1>1, <1>3, LeftAlone DEF Timely, Asking, ticker
<1>4. CASE Tick
  <2>1. /\ pc' = pc /\ waited' = IF waited < Patience THEN waited + 1 ELSE waited
        /\ phase' = (IF pc = "down" THEN 0 ELSE (phase + 1) % Interval)
        /\ tick' = (tick \/ (pc # "down" /\ phase + 1 = Interval))
        /\ pc = "down" \/ (pc = "idle" /\ ~tick) \/ waited < Patience
    BY <1>4 DEF Tick
  <2>2. CASE pc = "down"
    BY <2>1, <2>2 DEF Timely, Asking
  <2>3. CASE pc = "idle"
    <3>1. ~tick
      BY <1>0, <2>1, <2>3 DEF Patience
    <3>2. tick' => phase' = 0
      BY <1>0, <2>1, <2>3, <3>1
    <3> QED BY <2>1, <2>3, <3>2 DEF Timely, Asking
  <2>4. ASSUME pc \notin {"down", "idle"}, phase + 1 < Interval
        PROVE  waited' = waited + 1 /\ phase' = phase + 1 /\ tick' = FALSE
    <3>1. waited < Patience /\ ~tick
      BY <2>1, <2>4 DEF Timely
    <3> QED BY <1>0, <2>1, <2>4, <3>1
  <2>5. ASSUME pc \in {"begin", "due"} PROVE phase + 1 < Interval
    <3>1. waited < LocalTime
      BY <2>1, <2>5 DEF Patience
    <3>2. phase <= LocalTime + waited
      BY <1>0, <2>5 DEF Timely
    <3> QED BY <1>0, <3>1, <3>2
  <2>6. CASE pc \in {"begin", "due"}
    BY <1>0, <2>1, <2>4, <2>5, <2>6 DEF Timely, Asking
  <2>7. CASE Asking
    <3>1. TimeLeft >= 1 /\ TimeLeft' = TimeLeft - 1
      BY <1>4, <2>7, LeftTick
    <3>2. phase + TimeLeft <= 2 * LocalTime + LongestCycle
      BY <2>7 DEF Timely
    <3>3. phase + 1 < Interval
      BY <1>0, <1>2, <2>7, <3>1, <3>2
    <3>4. phase' = phase + 1 /\ tick' = FALSE
      BY <2>4, <2>7, <3>3 DEF Asking
    <3>5. phase' + TimeLeft' <= 2 * LocalTime + LongestCycle
      BY <1>0, <1>2, <2>7, <3>1, <3>2, <3>4
    <3> QED BY <1>1, <2>1, <2>7, <3>4, <3>5 DEF Timely, Asking
  <2> QED BY <2>2, <2>3, <2>6, <2>7 DEF TypeOK, Asking
<1>5. CASE Start \/ Dies \/ Wake \/ CycleDone
  BY <1>0, <1>5 DEF Start, Dies, Wake, CycleDone, At, Timely, Asking, ticker
<1>6. CASE Query \/ QueryFails
  <2>1. /\ pc = "begin" /\ pc' \in {"idle", "due"} /\ waited' = 0
        /\ phase' = phase /\ tick' = tick
    BY <1>6 DEF Query, QueryFails, At, ticker
  <2>2. phase <= LocalTime
    BY <1>0, <2>1 DEF Timely, Patient, Patience
  <2> QED BY <1>0, <2>1, <2>2 DEF Timely, Asking
<1>7. CASE Stamp
  <2>1. pc = "due" /\ pc' = "next" /\ phase' = phase /\ tick' = tick
    BY <1>7 DEF Stamp, At, ticker
  <2>2. phase <= 2 * LocalTime
    BY <1>0, <2>1 DEF Timely, Patient, Patience
  <2>3. PICK left \in Int : left = TimeLeft' /\ left <= LongestCycle
    BY <1>7, LeftStamp
  <2>4. phase + left <= 2 * LocalTime + LongestCycle
    <3>1. left <= LongestCycle
      BY <2>3
    <3> QED BY <1>0, <2>2, <3>1
  <2> QED BY <1>0, <1>1, <2>1, <2>3, <2>4 DEF Timely
<1>8. CASE Send \/ Answer \/ CallFails \/ BatchDone
             \/ \E e \in Torrents : Write(e) \/ WriteFails(e)
  <2>1. /\ Asking /\ pc' \in {"next", "out", "write"}
        /\ phase' = phase /\ tick' = tick
    BY <1>8 DEF Asking, Send, Answer, CallFails, BatchDone, Write, WriteFails, At, ticker
  <2>2. PICK left \in Int : left = TimeLeft' /\ left <= TimeLeft
    BY <1>8, <2>1, LeftStep
  <2>3. phase + TimeLeft <= 2 * LocalTime + LongestCycle /\ ~tick
    BY <2>1 DEF Timely, Asking
  <2>4. phase + left <= 2 * LocalTime + LongestCycle
    <3>1. left <= TimeLeft
      BY <2>2
    <3> QED BY <1>0, <1>2, <2>1, <2>3, <3>1
  <2> QED BY <1>0, <1>1, <2>1, <2>2, <2>3, <2>4 DEF Timely
<1>9. ASSUME NEW e \in Torrents, Appears(e) \/ Removed(e) PROVE Timely'
  BY <1>3, <1>9 DEF Appears, Removed, cycle
<1>10. CASE UNCHANGED vars
  BY <1>3, <1>10 DEF vars, cycle, ticker
<1> QED BY <1>4, <1>5, <1>6, <1>7, <1>8, <1>9, <1>10 DEF Next, Loop

-----------------------------------------------------------------------------
(* The theorems *)

\* Statistics are of catalogued torrents only, and what a cycle has still to
\* send is disjoint from what it sent, whatever rows come and go under it.
THEOREM ScrapeTypeCorrect == Spec => []TypeOK
<1>1. IInv => TypeOK
  BY DEF IInv
<1> QED BY <1>1, Inductive, PTL

\* The statistics of a torrent are replaced only after more than the interval,
\* for any duration of the cycles, any deaths, deletions and refused writes.
THEOREM StatisticsAreSpaced == Spec => Spaced
<1> DEFINE Step(e) == age[e] # None /\ age'[e] # None =>
                        \/ age'[e] \in {age[e], age[e] + 1}
                        \/ age[e] = AgeCap
                        \/ age[e] - age'[e] > Interval
<1>1. ASSUME IInv, Next, NEW e \in Torrents PROVE Step(e)
  <2> USE ScrapeAssumption
  <2> SUFFICES ASSUME age[e] # None, age'[e] # None
               PROVE  \/ age'[e] \in {age[e], age[e] + 1}
                      \/ age[e] = AgeCap
                      \/ age[e] - age'[e] > Interval
    OBVIOUS
  <2>1. age[e] \in 0..AgeCap /\ stampAge \in 0..AgeCap
    BY <1>1 DEF IInv, TypeOK
  <2>2. CASE Tick
    BY <2>1, <2>2, OlderType DEF Tick
  <2>3. ASSUME NEW f \in Torrents, Write(f)
        PROVE  age'[e] = age[e] \/ age[e] = AgeCap \/ age[e] - age'[e] > Interval
    <3>1. CASE f = e /\ e \in rows
      <4>1. age'[e] = stampAge
        BY <1>1, <2>3, <3>1 DEF Write, IInv, TypeOK
      <4>2. LongPast(e)
        BY <1>1, <2>3, <3>1 DEF Write, IInv, Aged, Pending
      <4> QED BY <2>1, <4>1, <4>2 DEF LongPast
    <3>2. CASE ~(f = e /\ e \in rows)
      BY <1>1, <2>3, <3>2 DEF Write, IInv, TypeOK
    <3> QED BY <3>1, <3>2
  <2>4. ASSUME NEW f \in Torrents, Removed(f) PROVE age'[e] = age[e]
    BY <1>1, <2>4 DEF Removed, IInv, TypeOK
  <2>5. CASE Start \/ Dies \/ Wake \/ Query \/ QueryFails \/ Stamp
    BY <2>5 DEF Start, Dies, Wake, Query, QueryFails, Stamp
  <2>6. CASE Send \/ Answer \/ CallFails \/ BatchDone \/ CycleDone
    BY <2>6 DEF Send, Answer, CallFails, BatchDone, CycleDone
  <2>7. ASSUME NEW f \in Torrents, WriteFails(f) \/ Appears(f) PROVE age' = age
    BY <2>7 DEF WriteFails, Appears
  <2> QED BY <1>1, <2>2, <2>3, <2>4, <2>5, <2>6, <2>7 DEF Next, Loop
<1>2. IInv /\ [Next]_vars => [\A e \in Torrents : Step(e)]_vars
  BY <1>1
<1>3. QED
  BY <1>2, Inductive, PTL DEF Spec, Spaced

LEMMA TimeInductive == Spec => [](TypeOK /\ TimeInv)
<1>1. Init => TypeOK /\ TimeInv
  BY InitIInv, ScrapeAssumption DEF Init, IInv, TimeInv, Patient, Patience, CyclesEnd
<1>2. TypeOK /\ TimeInv /\ [Next]_vars => (TypeOK /\ TimeInv)'
  BY TypeStep, TimeStep
<1> QED BY <1>1, <1>2, PTL DEF Spec

\* For any trackers, sizes of batches, deadline and time of a write: from its now on
\* a cycle takes at most one call's time for each batch that the catalogue can fill
\* and one write's for each torrent whose tracker answers.
THEOREM CyclesAreBounded == Spec => []CyclesEnd
<1>1. TypeOK /\ TimeInv => CyclesEnd
  BY DEF TimeInv
<1> QED BY <1>1, TimeInductive, PTL

\* So where an interval is enough for the query, the stamp, those calls and those
\* writes, every tick finds the cycle of the last one over: none is dropped or waits.
THEOREM NoTickIsMissed == ASSUME EnoughTime PROVE Spec => [](tick => pc = "idle")
<1>1. Init => Timely
  BY ScrapeAssumption DEF Init, Timely, Asking
<1>2. TypeOK /\ TimeInv /\ Timely /\ [Next]_vars => Timely'
  BY EnoughTime, TimelyStep DEF TimeInv
<1>3. Timely => (tick => pc = "idle")
  BY DEF Timely
<1> QED BY <1>1, <1>2, <1>3, TimeInductive, PTL DEF Spec

\* The premise of KeepsFresh is then not a premise: all cycles are punctual.
THEOREM EnoughTimeIsPunctual == ASSUME EnoughTime PROVE Spec => Punctual
<1>1. (tick => pc = "idle") => (tick => pc \in {"idle", "down"})
  OBVIOUS
<1> QED BY <1>1, EnoughTime, NoTickIsMissed, PTL DEF Punctual
=============================================================================
