------------------------------- MODULE Scrape -------------------------------
(***************************************************************************)
(* The scrape loop of the server: at each tick ScrapeOnce asks the trackers *)
(* of the torrents that are due for their seeders, one batch after the     *)
(* other, and writes table torrent_stats.  Rows come and go meanwhile, and *)
(* the server may die between any two steps.                               *)
(*                                                                         *)
(* Time is relative: age[e] is the clock minus scraped_at, stampAge is the *)
(* clock minus the `now' of the cycle.  Ages stop growing at AgeCap, and   *)
(* the ticker is a phase modulo the interval, so no horizon is needed.     *)
(***************************************************************************)
EXTENDS Integers, FiniteSets

CONSTANTS Torrents,
          HashOf,      \* infohash of a torrent: two events may share one
          TrackerOf,   \* its tracker; NoTracker where the event names none
          NoTracker,
          Answering,   \* the trackers that are udp:// and reachable
          MaxBatch,    \* MaxInfoHashesPerRequest
          Interval,    \* scrapeInterval, which is also maxAge
          LocalTime,   \* bound of the time spent before the query and after it
          ResolveTime, \* bound of the resolver's time, before the deadline is set
          CallTime,    \* scrapeTimeout
          WriteTime,   \* bound of one write: a connection of the pool, then busy_timeout
          AgeCap,      \* bound of the ages
          MaxFaults,   \* bound of the faults of one behaviour
          None

ASSUME ScrapeAssumption ==
    /\ Interval \in Nat \ {0}
    /\ LocalTime \in Nat /\ ResolveTime \in Nat /\ CallTime \in Nat
    /\ WriteTime \in Nat
    /\ AgeCap \in Nat /\ AgeCap > Interval
    /\ MaxFaults \in Nat
    /\ None \notin 0..AgeCap

ASSUME BatchAssumption == MaxBatch \in Nat \ {0} /\ IsFiniteSet(Torrents)

VARIABLES
    rows,      \* table torrents
    age,       \* table torrent_stats: age of the row, None where there is none
    pc,        \* where the scrape goroutine is
    phase,     \* time since the ticker last fired
    tick,      \* the ticker's channel holds a tick
    waited,    \* time spent at pc
    stampAge,  \* time since the cycle's now
    todo,      \* targets of the cycle not yet sent
    batch,     \* the last batch sent
    answered,  \* torrents of the batch whose counters are to be written
    faults     \* faults so far

vars == <<rows, age, pc, phase, tick, waited, stampAge, todo, batch, answered, faults>>
cycle == <<stampAge, todo, batch, answered>>
ticker == <<phase, tick>>

Init ==
    /\ rows = {} /\ age = [e \in Torrents |-> None]
    /\ pc = "down" /\ phase = 0 /\ tick = FALSE /\ waited = 0
    /\ stampAge = 0 /\ todo = {} /\ batch = {} /\ answered = {}
    /\ faults = 0

At(p, q) == pc = p /\ pc' = q /\ waited' = 0
Fault == faults < MaxFaults /\ faults' = faults + 1

-----------------------------------------------------------------------------
(* The rows and the clock *)

\* UpsertTorrent, by a batch or the live consumer: a replay changes nothing here.
Appears(e) ==
    /\ e \notin rows /\ rows' = rows \cup {e}
    /\ UNCHANGED <<age, pc, ticker, waited, cycle, faults>>

\* Mutant: the row of torrent_stats stays behind.
RemovedAlone(e) ==
    /\ e \in rows /\ rows' = rows \ {e}
    /\ UNCHANGED <<age, pc, ticker, waited, cycle, faults>>

\* torrent rm or purge, with ON DELETE CASCADE.
Removed(e) ==
    /\ e \in rows /\ rows' = rows \ {e}
    /\ age' = [age EXCEPT ![e] = None]
    /\ UNCHANGED <<pc, ticker, waited, cycle, faults>>

Older(n) == IF n < AgeCap THEN n + 1 ELSE n

\* The deadline is set once, after the name is resolved and before connect, and
\* covers both round trips.
CallBound == ResolveTime + CallTime

\* Mutant: a deadline for each round trip.
PatiencePerRound == CASE pc \in {"begin", "due"} -> LocalTime
                      [] pc = "out" -> CallBound + CallTime
                      [] pc = "write" /\ answered # {} -> WriteTime
                      [] OTHER -> 0

\* How long the goroutine may stay where it is.  Each write waits by itself, and
\* one that is refused in the end waits as long as another.
Patience == CASE pc \in {"begin", "due"} -> LocalTime
              [] pc = "out" -> CallBound
              [] pc = "write" /\ answered # {} -> WriteTime
              [] OTHER -> 0

\* The channel of a ticker holds one tick: the next is dropped.
Tick ==
    /\ \/ pc = "down" \/ (pc = "idle" /\ ~tick) \/ waited < Patience
    /\ age' = [e \in Torrents |-> IF age[e] = None THEN None ELSE Older(age[e])]
    /\ waited' = IF waited < Patience THEN waited + 1 ELSE waited
    /\ stampAge' = IF pc \in {"next", "out", "write"} THEN Older(stampAge) ELSE stampAge
    /\ phase' = IF pc = "down" THEN 0 ELSE (phase + 1) % Interval
    /\ tick' = (tick \/ (pc # "down" /\ phase + 1 = Interval))
    /\ UNCHANGED <<rows, pc, todo, batch, answered, faults>>

-----------------------------------------------------------------------------
(* The goroutine *)

\* The first ScrapeOnce does not wait for a tick.
Start ==
    /\ At("down", "begin")
    /\ phase' = 0 /\ tick' = FALSE
    /\ UNCHANGED <<rows, age, cycle, faults>>

Dies ==
    /\ pc # "down" /\ pc' = "down" /\ Fault
    /\ phase' = 0 /\ tick' = FALSE /\ waited' = 0
    /\ stampAge' = 0 /\ todo' = {} /\ batch' = {} /\ answered' = {}
    /\ UNCHANGED <<rows, age>>

Wake ==
    /\ tick /\ tick' = FALSE
    /\ At("idle", "begin")
    /\ UNCHANGED <<rows, age, phase, cycle, faults>>

\* Mutant: scraped_at <= olderThan.
DueFromInterval(e) ==
    TrackerOf[e] # NoTracker /\ (age[e] = None \/ age[e] >= Interval)

\* A tracker, and never scraped or scraped_at < olderThan.
Due(e) == TrackerOf[e] # NoTracker /\ (age[e] = None \/ age[e] > Interval)

Query ==
    /\ todo' = {e \in rows : Due(e)}
    /\ At("begin", IF todo' = {} THEN "idle" ELSE "due")
    /\ UNCHANGED <<rows, age, ticker, stampAge, batch, answered, faults>>

QueryFails ==
    /\ At("begin", "idle") /\ Fault
    /\ UNCHANGED <<rows, age, ticker, cycle>>

\* now := time.Now().Unix(), after the query.
Stamp ==
    /\ At("due", "next")
    /\ stampAge' = 0
    /\ UNCHANGED <<rows, age, ticker, todo, batch, answered, faults>>

OfTracker(S, k) == {e \in S : TrackerOf[e] = k}

\* The groups come in any order, each to its end before the next: its batches
\* are as large as they may be.  The SELECT fixes no order within a group.
Send ==
    /\ At("next", "out")
    /\ \E S \in SUBSET Torrents, k \in {TrackerOf[e] : e \in todo} :
          /\ \A e \in batch : OfTracker(todo, TrackerOf[e]) # {} => TrackerOf[e] = k
          /\ S # {} /\ S \subseteq OfTracker(todo, k)
          /\ Cardinality(S) <= MaxBatch
          /\ Cardinality(S) < MaxBatch => S = OfTracker(todo, k)
          /\ batch' = S /\ todo' = todo \ S
    /\ UNCHANGED <<rows, age, ticker, stampAge, answered, faults>>

Scrapable(e) == TrackerOf[e] \in Answering

TrackerAnswers == \A e \in batch : Scrapable(e)
Covers(W) == \A e \in batch : \E f \in W : HashOf[f] = HashOf[e]

\* The map from infohash to torrent keeps one torrent for an infohash, the last
\* of the batch; a tracker may send fewer entries than it was asked for.
Answer ==
    /\ At("out", "write") /\ TrackerAnswers
    /\ \E W \in SUBSET Torrents :
          /\ W \subseteq batch
          /\ \A e, f \in W : HashOf[e] = HashOf[f] => e = f
          /\ IF Covers(W) THEN UNCHANGED faults ELSE Fault
          /\ answered' = W
    /\ UNCHANGED <<rows, age, ticker, stampAge, todo, batch>>

\* Mutant: return where the code has continue.
CallFailsForAll ==
    /\ At("out", "next")
    /\ todo' = {}
    /\ IF TrackerAnswers THEN Fault ELSE UNCHANGED faults
    /\ UNCHANGED <<rows, age, ticker, stampAge, batch, answered>>

\* Not udp://, unreachable, past the deadline, or an answer that is refused.
CallFails ==
    /\ At("out", "next")
    /\ IF TrackerAnswers THEN Fault ELSE UNCHANGED faults
    /\ UNCHANGED <<rows, age, ticker, cycle>>

\* UpsertTorrentStats, after its wait; the foreign key refuses it where the row
\* is gone.
Write(e) ==
    /\ pc = "write" /\ e \in answered
    /\ answered' = answered \ {e} /\ waited' = 0
    /\ age' = IF e \in rows THEN [age EXCEPT ![e] = stampAge] ELSE age
    /\ UNCHANGED <<rows, pc, ticker, stampAge, todo, batch, faults>>

\* The database refuses it: SQLITE_BUSY once busy_timeout is over, or another error.
WriteFails(e) ==
    /\ pc = "write" /\ e \in answered /\ Fault
    /\ answered' = answered \ {e} /\ waited' = 0
    /\ UNCHANGED <<rows, age, pc, ticker, stampAge, todo, batch>>

BatchDone ==
    /\ answered = {} /\ At("write", "next")
    /\ UNCHANGED <<rows, age, ticker, cycle, faults>>

CycleDone ==
    /\ todo = {} /\ At("next", "idle")
    /\ stampAge' = 0 /\ batch' = {}
    /\ UNCHANGED <<rows, age, ticker, todo, answered, faults>>

Loop ==
    \/ Wake \/ Query \/ QueryFails \/ Stamp \/ Send \/ Answer \/ CallFails
    \/ (\E e \in Torrents : Write(e) \/ WriteFails(e)) \/ BatchDone \/ CycleDone

Next ==
    \/ Tick \/ Start \/ Dies \/ Loop
    \/ \E e \in Torrents : Appears(e) \/ Removed(e)

Spec == Init /\ [][Next]_vars

\* The clock goes on, a server that died is started again, and the goroutine
\* runs: nothing in the loop waits longer than its bound.
FairSpec == Spec /\ WF_vars(Tick) /\ WF_vars(Start) /\ WF_vars(Loop)

-----------------------------------------------------------------------------
(* Properties *)

\* The foreign key: statistics are of a catalogued torrent.  What the cycle
\* holds is disjoint, so that no torrent is written twice in one cycle.
TypeOK ==
    /\ rows \subseteq Torrents
    /\ age \in [Torrents -> 0..AgeCap \cup {None}]
    /\ \A e \in Torrents : age[e] # None => e \in rows /\ TrackerOf[e] # NoTracker
    /\ pc \in {"down", "idle", "begin", "due", "next", "out", "write"}
    /\ phase \in 0..(Interval - 1) /\ tick \in BOOLEAN
    /\ waited \in Nat /\ stampAge \in 0..AgeCap /\ faults \in 0..MaxFaults
    /\ todo \subseteq Torrents /\ batch \subseteq Torrents
    /\ answered \subseteq batch /\ batch \cap todo = {}
    /\ \A e \in answered : Scrapable(e)
    /\ pc \notin {"due", "next", "out", "write"} => todo = {} /\ batch = {}
    /\ pc = "due" => batch = {}
    /\ pc # "write" => answered = {}
    /\ \A e \in todo \cup batch : TrackerOf[e] # NoTracker

\* Statistics are replaced only by statistics more than one interval younger:
\* neither a slow cycle, nor a restart, nor a duplicate infohash makes the
\* server write the same torrent more often than the interval allows, and an answer
\* never replaces a later one.  (At AgeCap the age only says that the interval
\* passed long ago.)
Spaced ==
    [][\A e \in Torrents : age[e] # None /\ age'[e] # None =>
          \/ age'[e] \in {age[e], age[e] + 1}
          \/ age[e] = AgeCap
          \/ age[e] - age'[e] > Interval]_vars

\* The calls it takes to ask for S, numbered for each tracker.
Batches(S) ==
    {call \in {TrackerOf[e] : e \in Torrents} \X (0..Cardinality(Torrents)) :
        call[2] * MaxBatch < Cardinality(OfTracker(S, call[1]))}

Writable(S) == {e \in S : Scrapable(e)}

\* The most that the calls for S and the writes of their answers may take.
TimeFor(S) ==
    CallBound * Cardinality(Batches(S)) + WriteTime * Cardinality(Writable(S))

\* The most that a cycle ever takes.
LongestCycle == TimeFor({e \in Torrents : TrackerOf[e] # NoTracker})

\* The time that the current batch may still take.
LeftOfBatch ==
    CASE pc = "out" ->
            CallBound - waited + WriteTime * Cardinality(Writable(batch))
      [] pc = "write" -> WriteTime * Cardinality(answered) - waited
      [] OTHER -> 0

TimeLeft == TimeFor(todo) + LeftOfBatch

\* A cycle is never late: since its now, and with what it has still to ask and to
\* write, it takes no more than one call's time for each of the batches that the
\* catalogue can fill and one write's for each torrent whose tracker answers.  A
\* silent tracker costs no second deadline, no batch goes out smaller than it could
\* be, no torrent is written twice, and what enters the catalogue meanwhile waits
\* for the next cycle.
CyclesEnd ==
    pc \in {"next", "out", "write"} => stampAge + TimeLeft <= LongestCycle

\* From some point on no torrent enters or leaves the catalogue: a twin that is
\* removed in each of its turns, and comes back, does take the other's turn.
Settles == <>[][rows' = rows]_rows

\* From some point on every cycle is over before the next tick.
Punctual == <>[](tick => pc \in {"idle", "down"})

\* Once the catalogue settles and the cycles are punctual, a torrent whose tracker
\* answers has recent statistics again and again, beside dead trackers too, and
\* also when it shares its infohash and its batch with another: the one of them
\* that was written is not due at the next cycle, which is the turn of the other.
KeepsFresh ==
    Settles /\ Punctual => \A e \in Torrents : Scrapable(e) =>
        []<>(e \notin rows \/ (age[e] # None /\ age[e] <= Interval))

\* GetTorrentStats: a torrent without statistics has no udp:// tracker or has
\* not reached its turn yet, so that its turn comes.
TurnComes ==
    Settles => \A e \in Torrents : Scrapable(e) =>
        (e \in rows ~> e \notin rows \/ age[e] # None)
=============================================================================
