----------------------------- MODULE GateProofs -----------------------------
(***************************************************************************)
(* Gate is two independent RateLimits: each of its steps is a step of one  *)
(* limiter, or of the clock of both, and a stutter of the other.  What is  *)
(* proved of RateLimit then holds of the site's limiter inside Gate.       *)
(***************************************************************************)
EXTENDS Gate, RateLimitProofs

\* A step of Gate is a step of the site's limiter, or leaves it alone.
LEMMA GeneralStep == [GateNext]_gateVars => [Next]_vars
  BY DEF GateNext, gateVars, Next, vars, general, GateTick, GeneralGc, FeedGc, Feed!Gc,
         SetMaintenance, FeedRequest, FeedAnswer, Feed!Allow, PageRequest

\* And likewise for the limiter of the feed.
LEMMA FeedStep == [GateNext]_gateVars => [Feed!Next]_(Feed!vars)
  <1> SUFFICES ASSUME [GateNext]_gateVars PROVE [Feed!Next]_(Feed!vars)
    OBVIOUS
  <1> USE DEF Feed!Next, Feed!vars, feed
  <1>1. CASE UNCHANGED gateVars  BY <1>1 DEF gateVars, vars
  <1>2. CASE GateTick  BY <1>2 DEF GateTick, Tick, Feed!Tick
  <1>3. CASE GeneralGc  BY <1>3 DEF GeneralGc, Gc
  <1>4. CASE FeedGc  BY <1>4 DEF FeedGc
  <1>5. CASE SetMaintenance  BY <1>5 DEF SetMaintenance, vars
  <1>6. ASSUME NEW c \in Clients, FeedRequest(c) PROVE [Feed!Next]_(Feed!vars)
    BY <1>6 DEF FeedRequest, Allow
  <1>7. ASSUME NEW c \in Clients, FeedAnswer(c) PROVE [Feed!Next]_(Feed!vars)
    BY <1>7 DEF FeedAnswer
  <1>8. ASSUME NEW c \in Clients, NEW kind \in {"page", "static"}, PageRequest(c, kind)
        PROVE  [Feed!Next]_(Feed!vars)
    BY <1>8 DEF PageRequest, Allow
  <1> QED BY <1>1, <1>2, <1>3, <1>4, <1>5, <1>6, <1>7, <1>8 DEF GateNext

\* Gate implements both limiters, for any rates, periods and clients.
THEOREM GateIsTwoLimiters == GateSpec => TwoLimiters
  <1>1. GateInit => Init /\ Feed!Init
    BY DEF GateInit
  <1> QED BY <1>1, GeneralStep, FeedStep, PTL DEF GateSpec, Spec, Feed!Spec, TwoLimiters

\* So the site's limiter is bounded whatever mixture of pages, files and feeds a
\* client asks for, and whenever the maintenance begins and ends.
THEOREM GateBoundsBursts == GateSpec => []BurstBound
  <1>1. GateSpec => Spec
    BY GateIsTwoLimiters DEF TwoLimiters
  <1> QED BY <1>1, BurstIsBounded

\* And nobody is refused by it without cause, counting every kind of request.
THEOREM GateRefusesForCause == GateSpec => []RefusedForCause
  <1>1. GateSpec => Spec
    BY GateIsTwoLimiters DEF TwoLimiters
  <1> QED BY <1>1, RefusalHasACause

-----------------------------------------------------------------------------
(* The same of the feed's limiter *)

F == INSTANCE RateLimitProofs
     WITH Rate <- FeedRate, Every <- FeedEvery, bucket <- feedBucket, log <- feedLog

\* What Gate says of the feed, said with the instance the theorems are in.
LEMMA FeedBehaves == GateSpec => F!Spec
  <1>1. Feed!Init => F!Init
    BY DEF Feed!Init, F!Init
  <1>2. [Feed!Next]_(Feed!vars) => [F!Next]_(F!vars)
    BY DEF Feed!Next, Feed!vars, F!Next, F!vars, Feed!Tick, F!Tick, Feed!Gc, F!Gc, Feed!Idle, F!Idle,
           Feed!Allow, F!Allow, Feed!Admits, F!Admits, Feed!Found, F!Found, Feed!Refilled, F!Refilled
  <1>3. GateSpec => Feed!Spec
    BY GateIsTwoLimiters DEF TwoLimiters
  <1> QED BY <1>1, <1>2, <1>3, PTL DEF Feed!Spec, F!Spec

\* What RateLimit assumes of its constants holds of the feed's.
LEMMA FeedAssumptions ==
    /\ FeedRate \in Nat \ {0} /\ FeedEvery \in Nat \ {0}
    /\ MaxIdle \in Nat /\ MaxIdle >= FeedEvery
    /\ Horizon \in Nat
    /\ None \notin F!Bucket
BY GateAssumption, RateLimitAssumption DEF F!Bucket

\* The feeds of a client are bounded over any span, however its requests for
\* pages come between the two limiters.
THEOREM FeedBoundsBursts == GateSpec => []Feed!BurstBound
  <1>1. F!Spec => []F!BurstBound
    BY F!BurstIsBounded, FeedAssumptions
  <1>2. F!BurstBound => Feed!BurstBound
    BY DEF F!BurstBound, Feed!BurstBound
  <1> QED BY <1>1, <1>2, FeedBehaves, PTL

\* And the feed's limiter refuses nobody who has not had his feeds: what the site
\* refuses is not held against him here.
THEOREM FeedRefusesForCause == GateSpec => []Feed!RefusedForCause
  <1>1. F!Spec => []F!RefusedForCause
    BY F!RefusalHasACause, FeedAssumptions
  <1>2. F!RefusedForCause => Feed!RefusedForCause
    BY DEF F!RefusedForCause, Feed!RefusedForCause, F!Admits, Feed!Admits, F!Found, Feed!Found,
           F!Refilled, Feed!Refilled
  <1> QED BY <1>1, <1>2, FeedBehaves, PTL
=============================================================================
