-------------------------- MODULE RateLimitProofs --------------------------
(***************************************************************************)
(* The limiter for any rate, period, age of collection and set of clients. *)
(*                                                                         *)
(* A bucket is a period: it begins at lastSeen with an accepted request,   *)
(* and the Rate - tokens last entries of the client's log belong to it.    *)
(* PeriodInv adds the pace of the entries before them.                     *)
(***************************************************************************)
EXTENDS RateLimit, TLAPS

USE DEF Bucket

Sorted(s) == \A i, j \in 1..Len(s) : i <= j => s[i] <= s[j]

\* Counted from entry `next', the entry k rates before is k periods before t.
Paced(s, next, t) ==
    \A i \in 1..Len(s), k \in Nat : i + k * Rate <= next => s[i] + k * Every <= t

\* The entry of the log that opened the period of bucket b.
First(s, b) == Len(s) - (Rate - b.tokens) + 1

\* That entry is lastSeen, and those before it keep the pace.
InPeriod(s, b) ==
    /\ b.tokens < Rate /\ First(s, b) >= 1
    /\ s[First(s, b)] = b.lastSeen
    /\ Paced(s, First(s, b), b.lastSeen)

\* What is known of one client between two steps.
Kept(c) ==
    /\ Sorted(log[c])
    /\ \A i \in 1..Len(log[c]) : log[c][i] <= now
    /\ IF bucket[c] = None
       THEN Paced(log[c], Len(log[c]) + 1, now)
       ELSE bucket[c].lastSeen <= now /\ InPeriod(log[c], bucket[c])

PeriodInv == \A c \in Clients : Kept(c)

IInv == TypeOK /\ PeriodInv /\ BurstBound

-----------------------------------------------------------------------------

\* A refill of at least one period fills the bucket, a shorter wait changes
\* nothing.
LEMMA RefillFills ==
    ASSUME NEW b \in Bucket, TypeOK, b.lastSeen <= now
    PROVE  Refilled(b) = IF now - b.lastSeen >= Every
                         THEN [tokens |-> Rate, lastSeen |-> now]
                         ELSE b
<1> DEFINE age == now - b.lastSeen
           refill == age \div Every
<1>1. age \in Nat /\ Every \in Nat \ {0} /\ Rate \in Nat \ {0}
  BY RateLimitAssumption DEF TypeOK
<1>2. refill \in Nat /\ (refill > 0 <=> age >= Every)
  BY <1>1
<1> HIDE DEF age, refill
<1>3. ASSUME refill > 0 PROVE b.tokens + refill * Rate >= Rate
  <2>1. refill * Rate \in Int /\ refill * Rate >= Rate
    BY <1>1, <1>2, <1>3
  <2> DEFINE gained == refill * Rate
  <2> HIDE DEF gained
  <2>2. gained \in Int /\ gained >= Rate
    BY <2>1 DEF gained
  <2>3. b.tokens \in Nat
    BY <1>1
  <2>4. b.tokens + gained >= Rate
    BY <1>1, <2>2, <2>3
  <2> QED BY <2>4 DEF gained
<1>4. CASE refill > 0
  <2> DEFINE credit == b.tokens + refill * Rate
  <2>1. credit >= Rate
    BY <1>3, <1>4
  <2>2. Refilled(b) = [tokens |-> IF credit > Rate THEN Rate ELSE credit, lastSeen |-> now]
    BY <1>4 DEF Refilled, refill, age
  <2>3. credit \in Int
    BY <1>1, <1>2
  <2> HIDE DEF credit
  <2>4. (IF credit > Rate THEN Rate ELSE credit) = Rate
    BY <2>1, <2>3, <1>1
  <2>5. now - b.lastSeen >= Every
    BY <1>2, <1>4 DEF age
  <2> QED BY <2>2, <2>4, <2>5
<1>5. CASE ~(refill > 0)
  BY <1>2, <1>5 DEF Refilled, refill, age
<1> QED BY <1>4, <1>5

\* allow finds either a whole period, when it meets no bucket or one whose
\* period is over, or the bucket as it was.
LEMMA FoundIsBucket ==
    ASSUME NEW c \in Clients, TypeOK, PeriodInv
    PROVE  /\ Found(c) \in Bucket
           /\ \/ /\ Found(c) = [tokens |-> Rate, lastSeen |-> now]
                 /\ bucket[c] = None \/ now - bucket[c].lastSeen >= Every
              \/ /\ bucket[c] # None /\ Found(c) = bucket[c]
                 /\ now - bucket[c].lastSeen < Every
<1> USE RateLimitAssumption DEF TypeOK
<1>1. CASE bucket[c] = None
  BY <1>1 DEF Found
<1>2. CASE bucket[c] # None
  <2>1. bucket[c] \in Bucket /\ bucket[c].lastSeen <= now
    BY <1>2 DEF PeriodInv, Kept
  <2>2. Refilled(bucket[c]) = IF now - bucket[c].lastSeen >= Every
                              THEN [tokens |-> Rate, lastSeen |-> now]
                              ELSE bucket[c]
    BY <2>1, RefillFills
  <2> QED BY <1>2, <2>1, <2>2 DEF Found
<1> QED BY <1>1, <1>2

\* Multiples, one at a time.
LEMMA Multiples ==
    ASSUME NEW k \in Nat, NEW m \in Nat
    PROVE  /\ k * m \in Nat /\ (k + 1) * m = k * m + m
           /\ k >= 1 => k - 1 \in Nat /\ (k - 1) * m = k * m - m
OBVIOUS

LEMMA AtLeastAsLarge ==
    ASSUME NEW k \in Nat, NEW m \in Nat \ {0}
    PROVE  k <= k * m
OBVIOUS

\* Where the period of a bucket lies in the log.
LEMMA PeriodIndices ==
    ASSUME NEW s \in Seq(Nat), NEW b \in Bucket, InPeriod(s, b)
    PROVE  /\ First(s, b) \in 1..Len(s)
           /\ Len(s) + 1 <= First(s, b) + Rate
<1> DEFINE n == Len(s)
           k == b.tokens
<1>1. n \in Nat /\ Rate \in Nat \ {0} /\ k \in 0..Rate
  BY RateLimitAssumption
<1>2. k < Rate /\ First(s, b) >= 1 /\ First(s, b) = n - (Rate - k) + 1
  BY DEF InPeriod, First
<1> HIDE DEF n, k
<1>3. First(s, b) \in 1..n
  BY <1>1, <1>2
<1>4. n + 1 <= First(s, b) + Rate
  BY <1>1, <1>2
<1> QED BY <1>3, <1>4 DEF n

\* Once the period of a bucket is over, the next one would keep the pace.
LEMMA PeriodOver ==
    ASSUME NEW s \in Seq(Nat), NEW b \in Bucket, NEW t \in Nat,
           Sorted(s), \A i \in 1..Len(s) : s[i] <= t,
           InPeriod(s, b), t - b.lastSeen >= Every
    PROVE  Paced(s, Len(s) + 1, t)
<1> DEFINE first == First(s, b)
<1>1. first \in 1..Len(s) /\ Len(s) + 1 <= first + Rate
  BY PeriodIndices
<1>2. Every \in Nat /\ Rate \in Nat \ {0} /\ b.lastSeen \in Nat
  BY RateLimitAssumption
<1>3. \A i \in 1..Len(s), k \in Nat : i + k * Rate <= first => s[i] + k * Every <= b.lastSeen
  BY DEF InPeriod, Paced
<1> HIDE DEF first
<1>4. ASSUME NEW i \in 1..Len(s), NEW k \in Nat, i + k * Rate <= Len(s) + 1
      PROVE  s[i] + k * Every <= t
  <2>1. CASE k = 0
    <3>1. k * Every = 0 /\ s[i] \in Nat
      BY <1>2, <2>1
    <3> QED BY <3>1
  <2>2. CASE k # 0
    <3>1. /\ k - 1 \in Nat /\ k * Rate \in Nat /\ k * Every \in Nat
          /\ (k - 1) * Rate = k * Rate - Rate /\ (k - 1) * Every = k * Every - Every
      BY <1>2, <2>2, Multiples
    <3>2. i + (k - 1) * Rate <= first
      <4>1. k * Rate <= Len(s) + 1 - i /\ Len(s) \in Nat
        BY <1>2, <1>4, <3>1
      <4> QED BY <1>1, <1>2, <3>1, <4>1
    <3>3. s[i] + (k - 1) * Every <= b.lastSeen
      BY <1>3, <3>1, <3>2
    <3>4. s[i] \in Nat
      OBVIOUS
    <3> QED BY <1>2, <3>1, <3>3, <3>4
  <2> QED BY <2>1, <2>2
<1> QED BY <1>4 DEF Paced

\* An entry after the last keeps a log sorted if the clock is not behind it.
LEMMA SortedAppend ==
    ASSUME NEW s \in Seq(Nat), NEW t \in Nat, Sorted(s),
           \A i \in 1..Len(s) : s[i] <= t
    PROVE  /\ Sorted(Append(s, t))
           /\ \A i \in 1..Len(Append(s, t)) : Append(s, t)[i] <= t
BY DEF Sorted

\* The pace of the periods bounds the bursts: the last entry is in the period
\* that First opened, and that one holds Rate entries.
LEMMA PeriodsBoundBursts ==
    ASSUME NEW s \in Seq(Nat), NEW b \in Bucket, NEW t \in Nat,
           InPeriod(s, b), b.lastSeen <= t,
           NEW i \in 1..Len(s), NEW k \in Nat, i + (k + 1) * Rate - 1 <= Len(s)
    PROVE  s[i] + k * Every <= t
<1>1. First(s, b) \in 1..Len(s) /\ Len(s) + 1 <= First(s, b) + Rate
  BY PeriodIndices
<1>2. /\ Every \in Nat /\ Rate \in Nat \ {0} /\ b.lastSeen \in Nat /\ s[i] \in Nat
      /\ Len(s) \in Nat
  BY RateLimitAssumption
<1>3. /\ k * Rate \in Nat /\ k * Every \in Nat /\ (k + 1) * Rate = k * Rate + Rate
  BY <1>2, Multiples
<1>4. i + k * Rate <= First(s, b)
  BY <1>1, <1>2, <1>3
<1>5. s[i] + k * Every <= b.lastSeen
  BY <1>4 DEF InPeriod, Paced
<1> QED BY <1>2, <1>3, <1>5

\* A request that opens a period.
LEMMA PeriodOpens ==
    ASSUME NEW s \in Seq(Nat), NEW t \in Nat, Paced(s, Len(s) + 1, t)
    PROVE  InPeriod(Append(s, t), [tokens |-> Rate - 1, lastSeen |-> t])
<1> DEFINE q == Append(s, t)
           b == [tokens |-> Rate - 1, lastSeen |-> t]
<1>1. /\ Rate \in Nat \ {0} /\ Every \in Nat /\ Len(q) = Len(s) + 1 /\ Len(s) \in Nat
      /\ q[Len(s) + 1] = t /\ \A i \in 1..Len(s) : q[i] = s[i]
  BY RateLimitAssumption
<1>2. First(q, b) = Len(s) + 1
  BY <1>1 DEF First
<1>3. ASSUME NEW i \in 1..Len(q), NEW k \in Nat, i + k * Rate <= Len(s) + 1
      PROVE  q[i] + k * Every <= t
  <2>1. CASE i \in 1..Len(s)
    BY <1>1, <1>3, <2>1 DEF Paced
  <2>2. CASE i = Len(s) + 1
    <3>1. k * Rate <= 0
      <4>1. k * Rate \in Int
        BY <1>1
      <4> QED BY <1>1, <1>3, <2>2, <4>1
    <3>2. k = 0
      <4>1. k # 0 => k - 1 \in Nat /\ (k - 1) * Rate \in Nat /\ (k - 1) * Rate = k * Rate - Rate
        BY <1>1, Multiples
      <4>2. k * Rate \in Int
        BY <1>1
      <4> QED BY <1>1, <3>1, <4>1, <4>2
    <3> QED BY <1>1, <2>2, <3>2
  <2> QED BY <1>1, <2>1, <2>2
<1>4. b.tokens < Rate /\ b.lastSeen = t
  BY <1>1
<1>5. Paced(q, Len(s) + 1, t)
  BY <1>3 DEF Paced
<1> HIDE DEF q, b
<1> QED BY <1>1, <1>2, <1>4, <1>5 DEF InPeriod, q, b

\* A request that goes on with the period there is.
LEMMA PeriodGoesOn ==
    ASSUME NEW s \in Seq(Nat), NEW t \in Nat, NEW b \in Bucket,
           InPeriod(s, b), b.tokens > 0
    PROVE  InPeriod(Append(s, t), [b EXCEPT !.tokens = @ - 1])
<1> DEFINE q == Append(s, t)
           d == [b EXCEPT !.tokens = @ - 1]
<1>1. /\ Rate \in Nat \ {0} /\ Every \in Nat /\ b.tokens \in 0..Rate
      /\ Len(q) = Len(s) + 1 /\ \A i \in 1..Len(s) : q[i] = s[i]
  BY RateLimitAssumption
<1>2. d.tokens = b.tokens - 1 /\ d.lastSeen = b.lastSeen
  OBVIOUS
<1>3. First(q, d) = First(s, b)
  <2>1. First(q, d) = Len(q) - (Rate - d.tokens) + 1
    BY DEF First
  <2>2. First(s, b) = Len(s) - (Rate - b.tokens) + 1
    BY DEF First
  <2>3. Len(s) \in Nat
    OBVIOUS
  <2> HIDE DEF q, d
  <2> QED BY <1>1, <1>2, <2>1, <2>2, <2>3
<1>4. First(s, b) \in 1..Len(s)
  BY PeriodIndices
<1>5. q[First(s, b)] = d.lastSeen
  BY <1>1, <1>2, <1>4 DEF InPeriod
<1>7. ASSUME NEW i \in 1..Len(q), NEW k \in Nat, i + k * Rate <= First(s, b)
      PROVE  q[i] + k * Every <= d.lastSeen
  <2>1. k * Rate \in Nat
    BY <1>1
  <2>2. i \in 1..Len(s)
    BY <1>4, <1>7, <2>1
  <2> QED BY <1>1, <1>2, <1>7, <2>2 DEF InPeriod, Paced
<1>8. Paced(q, First(s, b), d.lastSeen)
  BY <1>7 DEF Paced
<1>6. d.tokens < Rate
  BY <1>1, <1>2 DEF InPeriod
<1> HIDE DEF q, d
<1> QED BY <1>1, <1>3, <1>4, <1>5, <1>6, <1>8 DEF InPeriod, q, d

-----------------------------------------------------------------------------

LEMMA InitInv == Init => IInv
BY RateLimitAssumption
   DEF Init, IInv, TypeOK, PeriodInv, Kept, BurstBound, Sorted, Paced

\* A request that is admitted keeps the log and the bucket of its client.
LEMMA AdmitKeeps ==
    ASSUME NEW c \in Clients, IInv, Admits(c)
    PROVE  LET f == Found(c)
               b == [f EXCEPT !.tokens = @ - 1]
           IN  b \in Bucket /\ b.lastSeen <= now /\ InPeriod(Append(log[c], now), b)
<1> DEFINE f == Found(c)
<1>1. /\ log[c] \in Seq(Nat) /\ now \in Nat /\ f \in Bucket /\ f.tokens > 0
      /\ Rate \in Nat \ {0} /\ Every \in Nat
  BY FoundIsBucket, RateLimitAssumption DEF IInv, TypeOK, Admits
<1>2. [f EXCEPT !.tokens = @ - 1] \in Bucket
  BY <1>1
<1>3. CASE bucket[c] = None
  <2>1. f = [tokens |-> Rate, lastSeen |-> now]
    BY <1>3 DEF Found
  <2>2. Paced(log[c], Len(log[c]) + 1, now)
    BY <1>3 DEF IInv, PeriodInv, Kept
  <2>3. InPeriod(Append(log[c], now), [tokens |-> Rate - 1, lastSeen |-> now])
    BY <1>1, <2>2, PeriodOpens
  <2> QED BY <1>1, <1>2, <2>1, <2>3
<1>4. CASE bucket[c] # None
  <2>1. /\ bucket[c] \in Bucket /\ bucket[c].lastSeen <= now
        /\ Sorted(log[c]) /\ InPeriod(log[c], bucket[c])
        /\ \A i \in 1..Len(log[c]) : log[c][i] <= now
    BY <1>4 DEF IInv, TypeOK, PeriodInv, Kept
  <2>2. CASE now - bucket[c].lastSeen >= Every
    <3>1. f = [tokens |-> Rate, lastSeen |-> now]
      BY <1>4, <2>1, <2>2, FoundIsBucket, <1>1 DEF IInv
    <3>2. InPeriod(Append(log[c], now), [tokens |-> Rate - 1, lastSeen |-> now])
      BY <1>1, <2>1, <2>2, PeriodOver, PeriodOpens
    <3> QED BY <1>1, <1>2, <3>1, <3>2
  <2>3. CASE ~(now - bucket[c].lastSeen >= Every)
    <3>1. f = bucket[c]
      BY <1>4, <2>1, <2>3, FoundIsBucket DEF IInv
    <3>2. InPeriod(Append(log[c], now), [bucket[c] EXCEPT !.tokens = @ - 1])
      BY <1>1, <2>1, <3>1, PeriodGoesOn
    <3> QED BY <1>1, <1>2, <2>1, <3>1, <3>2
  <2> QED BY <2>2, <2>3
<1> QED BY <1>3, <1>4

LEMMA AllowKeeps == ASSUME IInv, NEW c \in Clients, Allow(c) PROVE IInv'
<1> USE RateLimitAssumption
<1>1. \A d \in Clients : Kept(d)
  BY DEF IInv, PeriodInv, Kept
<1>2. now' = now /\ now \in Nat
  BY DEF Allow, IInv, TypeOK
<1>3. CASE Admits(c)
  <2> DEFINE s == log[c]
             b == [Found(c) EXCEPT !.tokens = @ - 1]
  <2>1. /\ bucket' = [bucket EXCEPT ![c] = b]
        /\ log' = [log EXCEPT ![c] = Append(s, now)]
    BY <1>3 DEF Allow
  <2>2. b \in Bucket /\ b.lastSeen <= now /\ InPeriod(Append(s, now), b)
    BY <1>3, AdmitKeeps
  <2>3. s \in Seq(Nat) /\ Append(s, now) \in Seq(Nat)
    BY <1>2 DEF IInv, TypeOK
  <2> HIDE DEF b
  <2>4. TypeOK'
    BY <1>2, <2>1, <2>2, <2>3 DEF IInv, TypeOK
  <2>5. /\ Sorted(Append(s, now))
        /\ \A i \in 1..Len(Append(s, now)) : Append(s, now)[i] <= now
    BY <1>1, <1>2, <2>3, SortedAppend DEF Kept
  <2>6. /\ bucket'[c] = b /\ log'[c] = Append(s, now)
        /\ \A d \in Clients \ {c} : bucket'[d] = bucket[d] /\ log'[d] = log[d]
    BY <2>1 DEF IInv, TypeOK
  <2>7. PeriodInv'
    <3>1. Kept(c)'
      BY <1>2, <2>2, <2>5, <2>6, NoneAssumption DEF Kept, Paced, InPeriod, Sorted, First
    <3>2. ASSUME NEW d \in Clients \ {c} PROVE Kept(d)'
      BY <1>1, <1>2, <2>6 DEF Kept, Paced, InPeriod, Sorted, First
    <3> QED BY <3>1, <3>2 DEF PeriodInv, Kept
  <2>8. BurstBound'
    <3> DEFINE q == Append(s, now)
    <3>1. ASSUME NEW i \in 1..Len(q), NEW k \in 1..Len(q), i + (k + 1) * Rate - 1 <= Len(q)
          PROVE  q[i + (k + 1) * Rate - 1] - q[i] >= k * Every
      <4> DEFINE j == i + (k + 1) * Rate - 1
      <4>1. /\ Rate \in Nat \ {0} /\ Every \in Nat /\ k \in Nat /\ Len(q) = Len(s) + 1
            /\ k * Rate \in Nat /\ k * Every \in Nat /\ (k + 1) * Rate = k * Rate + Rate
            /\ k * Rate = (k - 1) * Rate + Rate /\ (k - 1) * Rate \in Nat
        BY <2>3, Multiples
      <4>2. j = i + k * Rate + Rate - 1 /\ j \in 1..Len(q) /\ i < j
        BY <3>1, <4>1
      <4>3. CASE j = Len(q)
        <5>1. q[i] + k * Every <= now
          BY <1>2, <2>2, <2>3, <3>1, <4>1, PeriodsBoundBursts
        <5>2. q[j] = now /\ q[i] \in Nat
          BY <1>2, <2>3, <4>3
        <5> HIDE DEF j, q
        <5> QED BY <1>2, <4>1, <5>1, <5>2 DEF j
      <4>4. CASE j <= Len(s)
        <5>1. i \in 1..Len(s) /\ j \in 1..Len(s)
          BY <2>3, <4>2, <4>4
        <5>2. k <= j
          <6>1. k <= k * Rate
            BY <4>1, AtLeastAsLarge
          <6> HIDE DEF j
          <6> QED BY <4>1, <4>2, <6>1
        <5>3. s[j] - s[i] >= k * Every
          BY <4>1, <4>4, <5>1, <5>2 DEF IInv, BurstBound
        <5>4. q[j] = s[j] /\ q[i] = s[i]
          BY <2>3, <5>1
        <5> HIDE DEF j, q
        <5> QED BY <5>3, <5>4 DEF j
      <4>5. j = Len(q) \/ j <= Len(s)
        <5> HIDE DEF j, q
        <5> QED BY <2>3, <4>1, <4>2
      <4>6. q[j] - q[i] >= k * Every
        BY <4>3, <4>4, <4>5
      <4> QED BY <4>6
    <3>2. ASSUME NEW d \in Clients, NEW i \in 1..Len(log'[d]), NEW k \in 1..Len(log'[d]),
                 i + (k + 1) * Rate - 1 <= Len(log'[d])
          PROVE  log'[d][i + (k + 1) * Rate - 1] - log'[d][i] >= k * Every
      BY <2>6, <3>1, <3>2 DEF IInv, BurstBound
    <3> QED BY <3>2 DEF BurstBound
  <2> QED BY <2>4, <2>7, <2>8 DEF IInv
<1>4. CASE ~Admits(c)
  <2>1. Found(c) = bucket[c]
    BY <1>4, FoundIsBucket DEF Admits, IInv
  <2>2. UNCHANGED vars
    BY <1>4, <2>1 DEF Allow, IInv, TypeOK, vars
  <2> QED BY <2>2 DEF vars, IInv, TypeOK, PeriodInv, Kept, BurstBound, Sorted, Paced,
             InPeriod, First
<1> QED BY <1>3, <1>4

LEMMA TickKeeps == ASSUME IInv, Tick PROVE IInv'
<1> USE RateLimitAssumption
<1>1. /\ now \in Nat /\ now' = now + 1 /\ bucket' = bucket /\ log' = log
      /\ \A c \in Clients : log[c] \in Seq(Nat) /\ bucket[c] \in Bucket \cup {None}
  BY DEF Tick, IInv, TypeOK
<1>2. TypeOK' /\ BurstBound'
  BY <1>1 DEF IInv, TypeOK, BurstBound
<1>3. ASSUME NEW c \in Clients PROVE Kept(c)'
  <2>1. Kept(c)
    BY DEF IInv, PeriodInv, Kept
  <2>2. \A i \in 1..Len(log[c]) : log[c][i] <= now + 1
    BY <1>1, <2>1 DEF Kept
  <2>3. bucket[c] # None => bucket[c].lastSeen <= now + 1
    BY <1>1, <2>1 DEF Kept
  <2>4. ASSUME bucket[c] = None PROVE Paced(log[c], Len(log[c]) + 1, now + 1)
    <3>1. ASSUME NEW i \in 1..Len(log[c]), NEW k \in Nat, i + k * Rate <= Len(log[c]) + 1
          PROVE  log[c][i] + k * Every <= now + 1
      <4>1. log[c][i] + k * Every <= now
        BY <2>1, <2>4, <3>1 DEF Kept, Paced
      <4>2. log[c][i] \in Nat /\ k * Every \in Nat
        BY <1>1
      <4> QED BY <1>1, <4>1, <4>2
    <3> QED BY <3>1 DEF Paced
  <2>5. Sorted(log[c]) /\ (bucket[c] # None => InPeriod(log[c], bucket[c]))
    BY <2>1 DEF Kept
  <2> DEFINE s == log[c]
             b == bucket[c]
  <2>6. /\ Sorted(s) /\ \A i \in 1..Len(s) : s[i] <= now'
        /\ IF b = None THEN Paced(s, Len(s) + 1, now') ELSE b.lastSeen <= now' /\ InPeriod(s, b)
    BY <1>1, <2>2, <2>3, <2>4, <2>5
  <2>7. s = log'[c] /\ b = bucket'[c]
    BY <1>1
  <2> HIDE DEF s, b
  <2> QED BY <2>6, <2>7 DEF Kept, Sorted, InPeriod, Paced, First
<1> QED BY <1>2, <1>3 DEF IInv, PeriodInv, Kept

LEMMA GcKeeps == ASSUME IInv, Gc PROVE IInv'
<1> USE RateLimitAssumption
<1>1. /\ now \in Nat /\ now' = now /\ log' = log
      /\ bucket' = [c \in Clients |-> IF Idle(c) THEN None ELSE bucket[c]]
      /\ \A c \in Clients : log[c] \in Seq(Nat) /\ bucket[c] \in Bucket \cup {None}
  BY DEF Gc, IInv, TypeOK
<1>2. TypeOK' /\ BurstBound'
  BY <1>1 DEF IInv, TypeOK, BurstBound
<1>3. ASSUME NEW c \in Clients PROVE Kept(c)'
  <2>1. Kept(c)
    BY DEF IInv, PeriodInv, Kept
  <2>2. CASE Idle(c)
    <3>1. bucket[c] \in Bucket /\ now - bucket[c].lastSeen >= Every
      BY <1>1, <2>2 DEF Idle
    <3>2. Paced(log[c], Len(log[c]) + 1, now)
      BY <1>1, <2>1, <2>2, <3>1, PeriodOver DEF Kept, Idle
    <3> QED BY <1>1, <2>1, <2>2, <3>2 DEF Kept, Sorted, Paced
  <2>3. CASE ~Idle(c)
    BY <1>1, <2>1, <2>3 DEF Kept, Sorted, InPeriod, Paced, First
  <2> QED BY <2>2, <2>3
<1> QED BY <1>2, <1>3 DEF IInv, PeriodInv, Kept

LEMMA Invariant == Spec => []IInv
<1>1. IInv /\ [Next]_vars => IInv'
  <2> SUFFICES ASSUME IInv, [Next]_vars PROVE IInv'
    OBVIOUS
  <2>1. CASE UNCHANGED vars
    BY <2>1 DEF vars, IInv, TypeOK, PeriodInv, Kept, BurstBound, Sorted, Paced,
       InPeriod, First
  <2> QED BY <2>1, AllowKeeps, TickKeeps, GcKeeps DEF Next
<1> QED BY <1>1, InitInv, PTL DEF Spec

-----------------------------------------------------------------------------
(* The theorems *)

\* tokens stays within 0..rate, whatever the wait between two requests.
THEOREM LimiterTypeCorrect == Spec => []TypeOK
<1>1. IInv => TypeOK
  BY DEF IInv
<1> QED BY <1>1, Invariant, PTL

\* No client gets (k + 1) * rate requests before k periods have passed.
THEOREM BurstIsBounded == Spec => []BurstBound
<1>1. IInv => BurstBound
  BY DEF IInv
<1> QED BY <1>1, Invariant, PTL

\* A client that is refused has had rate requests accepted within one period.
THEOREM RefusalHasACause == Spec => []RefusedForCause
<1>1. IInv => RefusedForCause
  <2> SUFFICES ASSUME IInv, NEW c \in Clients, ~Admits(c)
               PROVE  /\ Len(log[c]) >= Rate
                      /\ now - log[c][Len(log[c]) - Rate + 1] < Every
    BY DEF RefusedForCause
  <2> USE RateLimitAssumption
  <2>1. /\ bucket[c] # None /\ bucket[c] \in Bucket /\ bucket[c].tokens = 0
        /\ now - bucket[c].lastSeen < Every /\ log[c] \in Seq(Nat)
    BY FoundIsBucket DEF Admits, IInv, TypeOK
  <2>2. InPeriod(log[c], bucket[c])
    BY <2>1 DEF IInv, PeriodInv, Kept
  <2>3. First(log[c], bucket[c]) = Len(log[c]) - Rate + 1
    BY <2>1 DEF First
  <2>4. First(log[c], bucket[c]) \in 1..Len(log[c])
    BY <2>1, <2>2, PeriodIndices
  <2> QED BY <2>1, <2>2, <2>3, <2>4 DEF InPeriod
<1> QED BY <1>1, Invariant, PTL
=============================================================================
