-------------------------------- MODULE Gate --------------------------------
(***************************************************************************)
(* What a request meets before a page is read: the maintenance flag, then  *)
(* the limiter of the site (RateLimit, extended here: bucket and log), and *)
(* for the feed a second limiter (RateLimit again, instantiated).  The two *)
(* mutexes are taken one after the other: other requests of the client and *)
(* the clock may come between them.                                        *)
(***************************************************************************)
EXTENDS RateLimit, FiniteSets

CONSTANTS FeedRate,   \* rss_rate_limit_per_minute
          FeedEvery   \* its minute, in clock units

ASSUME GateAssumption ==
    /\ FeedRate \in Nat \ {0} /\ FeedEvery \in Nat \ {0} /\ MaxIdle >= FeedEvery
    /\ None \notin [tokens : 0..FeedRate, lastSeen : Nat]

VARIABLES feedBucket, feedLog,   \* s.rssLim
          inside,                \* clients with a feed request between the limiters
          maintenance            \* table settings

general == <<bucket, log>>
feed == <<feedBucket, feedLog>>
gateVars == <<vars, feed, inside, maintenance>>

Feed == INSTANCE RateLimit
        WITH Rate <- FeedRate, Every <- FeedEvery, bucket <- feedBucket, log <- feedLog

GateInit == Init /\ Feed!Init /\ inside = {} /\ maintenance = FALSE

\* IsMaintenance: everything but the static files answers 503 before any limiter.
Open(kind) == maintenance => kind = "static"

\* A page or a static file, and the feed too where rss_enabled is off.
PageRequest(c, kind) ==
    /\ Open(kind) /\ Allow(c)
    /\ UNCHANGED <<feed, inside, maintenance>>

\* withMiddleware charges the site's limiter for the feed as for any page.
FeedRequest(c) ==
    /\ Open("page") /\ c \notin inside
    /\ Allow(c) /\ inside' = IF Admits(c) THEN inside \cup {c} ELSE inside
    /\ UNCHANGED <<feed, maintenance>>

\* Mutant: handleRSS goes on after the error 429.
FeedServesAll(c) ==
    /\ c \in inside /\ inside' = inside \ {c}
    /\ Feed!Allow(c) \/ (~Feed!Admits(c) /\ feedLog' = [feedLog EXCEPT ![c] = Append(@, now)]
                                         /\ UNCHANGED <<now, feedBucket>>)
    /\ UNCHANGED <<general, maintenance>>

\* handleRSS: the feed's own limiter.
FeedAnswer(c) ==
    /\ c \in inside /\ inside' = inside \ {c}
    /\ Feed!Allow(c)
    /\ UNCHANGED <<general, maintenance>>

\* Each limiter has its own collector.
GeneralGc == Gc /\ UNCHANGED <<feed, inside, maintenance>>
FeedGc == Feed!Gc /\ UNCHANGED <<general, inside, maintenance>>

GateTick == Tick /\ UNCHANGED <<feed, inside, maintenance>>

\* revolution maintenance on and off, from another process.
SetMaintenance ==
    /\ maintenance' = ~maintenance
    /\ UNCHANGED <<vars, feed, inside>>

GateNext ==
    \/ GateTick \/ GeneralGc \/ FeedGc \/ SetMaintenance
    \/ \E c \in Clients :
          FeedRequest(c) \/ FeedAnswer(c) \/ \E kind \in {"page", "static"} : PageRequest(c, kind)

GateSpec == GateInit /\ [][GateNext]_gateVars

-----------------------------------------------------------------------------
(* Properties *)

\* Seen alone, each of the two limiters behaves as RateLimit says, for the pages,
\* the files and the feeds of all clients together: nothing that happens at one of
\* them, nor the maintenance, takes or gives a token at the other.
TwoLimiters == Spec /\ Feed!Spec

Recent(s) == Cardinality({i \in 1..Len(s) : now - s[i] < Every})

\* config.go, config.example.yaml and rss.go: the limit of the feed is independent
\* of the site's, so that a client whose page is refused asked for Rate of them.
PagesIndependent ==
    \A c \in Clients : ~Admits(c) => Recent(log[c]) - Recent(feedLog[c]) >= Rate
=============================================================================
