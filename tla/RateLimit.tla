----------------------------- MODULE RateLimit -----------------------------
(***************************************************************************)
(* The limiter of internal/web: one bucket per client address, filled      *)
(* again when Every has passed since its last refill, and a garbage        *)
(* collector that forgets the buckets idle for longer than MaxIdle.  Its   *)
(* mutex makes allow and one pass of gc atomic, and both read the clock    *)
(* while they hold it.                                                     *)
(*                                                                         *)
(* log is history: the times of the accepted requests of each client.      *)
(***************************************************************************)
EXTENDS Integers, Sequences

CONSTANTS Clients,  \* what clientIP returns
          Rate,     \* l.rate
          Every,    \* l.every, in clock units
          MaxIdle,  \* gc's ten minutes, in the same units
          Horizon,  \* bound of the clock
          None

\* New passes 20 and a positive rssRate; Every is a second or a minute, so gc
\* never forgets a bucket younger than one period.
ASSUME RateLimitAssumption ==
    /\ Rate \in Nat \ {0} /\ Every \in Nat \ {0}
    /\ MaxIdle \in Nat /\ MaxIdle >= Every
    /\ Horizon \in Nat

VARIABLES now, bucket, log

vars == <<now, bucket, log>>

Bucket == [tokens : 0..Rate, lastSeen : Nat]

ASSUME NoneAssumption == None \notin Bucket

Init ==
    /\ now = 0
    /\ bucket = [c \in Clients |-> None]
    /\ log = [c \in Clients |-> <<>>]

\* Mutant: the credit of the periods that passed is not capped.
RefilledUncapped(b) ==
    LET refill == (now - b.lastSeen) \div Every IN
    IF refill > 0
    THEN [tokens |-> b.tokens + refill * Rate, lastSeen |-> now]
    ELSE b

\* The bucket as the request finds it once the refill is made.
Refilled(b) ==
    LET refill == (now - b.lastSeen) \div Every
        credit == b.tokens + refill * Rate
    IN  IF refill > 0
        THEN [tokens |-> IF credit > Rate THEN Rate ELSE credit, lastSeen |-> now]
        ELSE b

\* A client never seen, or forgotten, gets a full bucket.
Found(c) ==
    IF bucket[c] = None THEN [tokens |-> Rate, lastSeen |-> now]
                        ELSE Refilled(bucket[c])

\* What allow answers.
Admits(c) == Found(c).tokens > 0

\* Mutant: every refused request starts the period again.
AllowRestarts(c) ==
    /\ bucket' = [bucket EXCEPT ![c] =
                    IF Admits(c) THEN [Found(c) EXCEPT !.tokens = @ - 1]
                                 ELSE [Found(c) EXCEPT !.lastSeen = now]]
    /\ log' = IF Admits(c) THEN [log EXCEPT ![c] = Append(@, now)] ELSE log
    /\ UNCHANGED now

Allow(c) ==
    /\ bucket' = [bucket EXCEPT ![c] =
                    IF Admits(c) THEN [Found(c) EXCEPT !.tokens = @ - 1]
                                 ELSE Found(c)]
    /\ log' = IF Admits(c) THEN [log EXCEPT ![c] = Append(@, now)] ELSE log
    /\ UNCHANGED now

\* Mutant: the ages are compared with the wrong sign.
IdleReversed(c) == bucket[c] # None /\ now - bucket[c].lastSeen < MaxIdle

Idle(c) == bucket[c] # None /\ now - bucket[c].lastSeen > MaxIdle

\* One pass of gc forgets every idle bucket.
Gc ==
    /\ \E c \in Clients : Idle(c)
    /\ bucket' = [c \in Clients |-> IF Idle(c) THEN None ELSE bucket[c]]
    /\ UNCHANGED <<now, log>>

Tick ==
    /\ now < Horizon
    /\ now' = now + 1
    /\ UNCHANGED <<bucket, log>>

Next == Tick \/ Gc \/ \E c \in Clients : Allow(c)

Spec == Init /\ [][Next]_vars

-----------------------------------------------------------------------------
(* Properties *)

\* tokens stays within 0..rate: allow caps the refill and never spends a token
\* it does not have.
TypeOK ==
    /\ now \in Nat
    /\ bucket \in [Clients -> Bucket \cup {None}]
    /\ log \in [Clients -> Seq(Nat)]

\* Over any k periods a client gets at most (k + 1) * rate - 1 requests before the
\* k-th is over: what was left of one bucket, then k whole ones.  Neither a refill
\* of several periods nor a bucket that gc forgot and allow made anew gives more,
\* at once or little by little.
BurstBound ==
    \A c \in Clients : \A i, k \in 1..Len(log[c]) :
        LET j == i + (k + 1) * Rate - 1 IN
        j <= Len(log[c]) => log[c][j] - log[c][i] >= k * Every

\* A client is refused only if its last rate requests were all accepted less
\* than one period ago: requests that are refused do not put off its return,
\* and neither the other clients nor gc take anything from it.
RefusedForCause ==
    \A c \in Clients : ~Admits(c) =>
        LET n == Len(log[c]) IN
        n >= Rate /\ now - log[c][n - Rate + 1] < Every
=============================================================================
