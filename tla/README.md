# TLA+ verification of Revolution

Revolution is a public index of torrents published on Nostr (NIP-35). A server
follows a list of accounts, collects their kind 2003 events from relays into a
SQLite catalogue, and serves it on the web; a command line moderates it. This
directory models what is hard to test in that program: several goroutines and
processes that write the same rows, relays that answer late, partially or twice,
and the pieces of state (watermark, filter key, token bucket) that are read at
one moment and used at another.

Comments in the modules name the code they translate; `PROJECT.json` gives, for
every definition, the file and lines.

## The system

| Component | State it keeps | Operations | Who it interacts with |
|---|---|---|---|
| store (`internal/store`) | tables `torrents`, `followed` (with `last_synced_at`, the watermark), `profiles`, `relays`, `torrent_stats`, `settings` | one SQL statement or transaction per method | called by every goroutine of the server and every command, each with its own connection |
| batch synchronisation (`ingest.SyncAll`, `SyncUser`) | locals: relays, accounts and watermarks as read at the start, `maxTs` | fetch since the watermark, upsert each torrent, move the watermark, fetch and upsert the profile | relays through the Nostr client; runs in the reconcile loop and in `sync` and `fetch` |
| live subscription (`ingest.LiveSync`, `consumeLive`) | `lastKey`, the cancel function of the running consumer | reload the filter at every tick, upsert and mark each pushed event | relays push; the tables change under it |
| Nostr client (`internal/nostr`) | a pool of connections | `FetchTorrents`, `FetchProfiles`, `Live`, `ParseTorrent` | go-nostr, relays |
| moderation commands (`internal/cli`) | none | `follow`, `relay`, `torrent`, `purge`, `sync`, `fetch`, `maintenance`, `backup` | write the tables from processes of their own |
| server process (`runServer`) | the goroutines above, the port | start, serve, stop on SIGTERM | `start`, `stop`, systemd |
| process lifecycle (`start`, `stop`) | `revolution.pid` | spawn and record, signal and remove | the operating system |
| tracker scrape (`ingest.ScrapeOnce`, `internal/scrape`) | `torrent_stats.scraped_at` | batch the due torrents per UDP tracker, write counters | trackers |
| web (`internal/web`) | two rate limiters | search, torrent page, RSS | reads the tables |

What is hard in it: a batch holds a snapshot across network round trips while
the live consumer moves the same watermark; an old consumer is told to stop but
not waited for; a relay's answer may be partial with no sign of it; any write may
be refused, any process may die between two writes; the moderator's commands run
in other processes at any moment; the limiter's refill depends on when it was last
asked. `PROJECT.json` lists these hazards line by line with the properties that
guard against each.

What makes each part correct:

- batch and live: the watermark never runs ahead of what was written, never goes
  back, and what a relay holds is in the end catalogued;
- live: one subscription at a time, and its filter ends up being the tables';
- profiles: never replaced by an older one, and in the end the newest;
- catalogue: only grows, except by `torrent rm` and `purge`; only genuine events of
  accounts that were followed enter it;
- moderation: an edit is only overwritten by what may overwrite it;
- limiter: over any number of periods the requests are bounded, nobody is refused without cause;
- scrape: statistics belong to a catalogued torrent, are not asked for more often than the
  interval allows, a cycle takes no more than one call for each batch and one write for each
  answered torrent, and every torrent whose tracker answers gets its turn;
- lifecycle: one server at a time, the pidfile names it, `stop` ends it, and of several
  servers the port leaves one;
- middleware: the limiter of the site and that of the feed do not disturb each other;
- pages: the search index is that of the rows, a torrent's page is of one event, a walk
  through a list misses nothing but what offsets and ties explain, and sizes are readable.

## Modules

| Module | What it is |
|---|---|
| `Store` | the tables, and one operator per Store method that changes them |
| `Ingest` | extends `Store`: network, batches, live consumers, server and commands; the properties of the ingestion |
| `Catalogue` | the abstract additive catalogue that `Ingest` implements |
| `MCIngest`, `MC*.cfg` | small instances for TLC |
| `IngestProofs` | theorems about `Ingest` |
| `RateLimit` | the limiter of `internal/web` with its garbage collector |
| `RateLimitProofs` | theorems about `RateLimit` |
| `Gate` | composes two limiters: extends `RateLimit` (the site's), instantiates it again (the feed's), with the maintenance flag and the feed requests that are between the two |
| `GateProofs` | theorems about `Gate`, from those of `RateLimit` |
| `Scrape` | the scrape loop: ticker, due torrents, batches per tracker, statistics |
| `MCScrape` | its small instances |
| `ScrapeProofs` | theorems about `Scrape` |
| `Lifecycle` | `start`, `stop`, the servers, the pidfile, the process numbers and the port |
| `LifecycleProofs` | theorems about `Lifecycle` |
| `Nip35` | `ParseTorrent` as operators: refusals, fields, files, the wrapping sum of their sizes |
| `Pages` | extends `Nip35`: the fields of the rows, their files and the search index under upserts, removals and two-step edits, and a visitor who reads them; `humanSize` |
| `Recursion` | what a recursive function of the models is, for proofs about them: induction and existence, with sets and functions only |
| `SizeProofs` | the loops of `Pages` as functions: the units of `humanSize`, the sum of the sizes |
| `PagesProofs` | theorems about `Pages` |
| `MCGate`, `MCLifecycle`, `MCPages` | their small instances |

### How the state and the actions correspond to the code

`Store`. `followed` and `lastSynced` are the table followed, `row[e]` the row of
torrent `e`, which is `"event"` when its fields are those of the event and
`"edited"` when `torrent edit` replaced them; `profile[a]` is the kind 0 event
cached for `a`. An event is its author and its `created_at`: nothing else of it
decides what the ingestion does. Each method is one statement or transaction, so
one step. `stored` and `everFollowed` are history, read by no action. The column
`enabled` is always 1 (no command clears it) and is left out.

`Ingest`, batches. Worker `w` is the reconcile loop (`Server`) or a command.
`StartSync` and `StartFetch` read relays, accounts and watermarks (the two SELECTs
at the start are one step); `NextAccount` enters `SyncUser`; `Answer` and
`PartialAnswer` give what one relay has for the filter, `since` inclusive;
`StoreNext` is one upsert and one comparison with `maxTs`; `StoreFails` is the
error return, `MarkSynced` the conditional `UpdateLastSynced`, with the value
computed from the snapshot `seen`; `FetchMeta` and `PutMeta` are the loop over
`FetchProfiles`. `NextAccount` takes the accounts in any order (`ORDER BY
created_at` has ties and depends on when they were added). Relays answer one at a
time and independently; the code processes events after all of them, which
`Storing` says.

`Ingest`, live. `Reload` is `reload` as a whole, including the early return with no
relay or no account; `Slots` are the consumers that may coexist, since the old one
is cancelled but not awaited. `Push` hands one event to a consumer, `LiveUpsert`
and `LiveMark` are its two writes, `LiveFails` a refused one (a refused upsert skips
the mark, a refused mark is only logged), `ConsumerEnds` its end. A consumer that was told to
stop may still be handed events that the subscription had buffered, since `select` takes any
case that is ready; the model does not count the buffer. A reload waits for
a free slot, which bounds the number of cancelled consumers that still run. The
filter's `since` (two minutes before the subscription) is not compared with
`created_at`: that date is the author's claim, so any event may satisfy it.
go-nostr's own deduplication is not modelled either: any event held may be pushed
again. Both only add behaviours.

`Ingest`, the rest. `ServerDies` and `CommandDies` lose everything but the tables.
`PurgeAsk` counts and asks, `PurgeConfirm` deletes what is there when the answer
comes. A command line that the code refuses changes nothing and has no step.
The relays and the authors are the environment: `Publish`, `Forget`. `Env` names
what the environment may do (pushes, partial answers, disorder, refused writes,
crashes, forgetting); `MaxMishaps` bounds the faults and `MaxCmds` the commands.
Forged events stand for those whose signature or content `FetchTorrents`, `Live`
and `ParseTorrent` reject, garbled ones for profiles that are not JSON.

`RateLimit`. `Allow` is `allow` (lookup, refill, answer), `Gc` one pass of the
collector; both hold the mutex and read the clock under it, so each is one step.
`log` is history: the times of the requests accepted. Time is counted in units of
which `Every` (a second, or a minute for RSS) and `MaxIdle` (ten minutes) are
multiples.

`Scrape`. The goroutine is at `pc`: `idle` in its `select`, `begin` before the query,
`due` between the query and `now`, `next` at the head of the two loops, `out` in a call
to `scrape.Scrape`, `write` in the loop over the answer. `Query` takes what is due,
`Stamp` reads the clock again, `Send` cuts the next batch (groups in any order, as Go's
map gives them; torrents of a group in any order, as the SELECT has no ORDER BY), `Answer`
keeps one torrent of each infohash, as `torrentIDByHash` does, `Write` is one
`UpsertTorrentStats`. Time is relative: `age[e]` is the clock minus `scraped_at`,
`stampAge` the clock minus the cycle's `now`. `Due` is then `age > Interval`, the strict
comparison of the SELECT. Ages stop at `AgeCap`, which loses nothing while it is larger
than the interval plus the longest cycle, and the ticker is a phase with a channel of one
place, so there is no horizon and liveness can be checked. Time passes only where the code may
wait, as `Patience` says: `LocalTime` before and after the query; in a call `ResolveTime` (the name
of the tracker is resolved before any deadline is set: a bound of the resolver, not of the code) and
then `CallTime`, the one deadline of both round trips; and in each write, refused or not,
`WriteTime`, for `UpsertTorrentStats` waits for one of the four connections of the pool and then up
to `busy_timeout`, five seconds, for the lock of the database, once for every torrent of the
answer. The wait for a connection has no bound in the code; `WriteTime` bounds both. A tracker outside `Answering` is one that is not `udp://` or never answers. `purge`
removes its rows one after the other here, which only adds behaviours: each property is
about one torrent.

`Gate`. `PageRequest` is `withMiddleware` for a page or a static file: the flag, then
`allow`. A feed takes two steps, `FeedRequest` in the middleware and `FeedAnswer` in
`handleRSS`, since the mutex is released between them; `inside` holds the clients whose
feed is there (one each, a bound). The two collectors are independent. `SetMaintenance` is
the command, from another process.

`Lifecycle`. A command is at `pc`: `checked` after `readPid` of `start`, `spawned` after
`child.Start`, `writing` between the truncation and the bytes of `os.WriteFile`; `found`
after `readPid` of `stop`, `waiting` in `waitForExit`, `removing` before `os.Remove`. A
server is `booting` until `NotifyContext` (SIGTERM kills it), `starting` until
`ListenAndServe` has the port, `serving`, and `closing` in `Shutdown`; `told` says that its
context is done. Its goroutines have no state here: `Ingest` and `Scrape` have them. A
number may pass to a `stranger`, whom `kill(pid, 0)` does not tell from a server. A process
is `free` as soon as it died: the parent of a spawned server is gone or does not wait, and
init reaps it. `clean` is history and says that no start overlapped another command,
failed or died after its spawn, or ran in the foreground.

`Nip35`. A text is a model value, `Blank` when nothing is left of it after `TrimSpace`; a
category stands for the joined `t` tags. `Wrap` is the int64 sum.

`Pages`. `row`, `files` and `index` are the tables `torrents`, `torrent_files` and
`torrents_fts`; an entry of the index is the text that was put there, so that a trigger which
deletes another text would leave it. `Write` is one transaction with its triggers; `Upsert`,
`RemoveTorrent` and `EditWrite` use it, `EditRead` is the `GetTorrent` of `torrent edit`.
`ReadRow` and `ReadFiles` are the two statements of a torrent's page. `Search` and `NextPage`
are `handleSearch` with the link of the page before; a page is `walk` when it has the link,
`end` when it has none, and `cut` when a size without unit stopped the template, which sends
what it had written so far. `last` and `stale` are history, and so are the fields `there`,
`split`, `moved`, `gone` and `raced` of the visitor and of the edits. `Search` orders by
`published_at` alone, so a page is one of several when torrents share a second: `Heads` are the
sets that `LIMIT` may take, `PagesOf` and `Renderings` what a statement and its template may make of
them, and each statement chooses anew (SQLite may well repeat itself, but the query does not ask
for it). `purge` removes its rows one after the other here, which only adds behaviours. Bounds: a
word of the search is in a text or not (`Matching`), and the edits are of the torrents in
`Moderated`.

## Runs

Deadlock is checked in the runs of `Scrape`, whose clock never stops, and of `Lifecycle` and
`Pages`, where commands and visitors always come again. The other configurations switch
deadlock checking off: the system stops when the budgets are spent (the limiters' clock at
`Horizon`), and that is not a fault.

| Run | Instance | Question and result |
|---|---|---|
| `reconcile` | one account, three torrents (two of the same second), the loop and a command, refused writes and crashes, fairness | `NoGap`, `CatchesUp`: batches alone never skip an event and catch up with everything; `WatermarkWitnessed`, `WatermarkMonotone` with two snapshots of different age. Hold |
| `catalogue` | two accounts, one of them with a forged event, a consumer against the loop, every fault, forgetting relays, four commands | `TypeOK`, `WatermarkWitnessed`, `WatermarkMonotone`, `OldEditsLeftAlone`, `CatalogueSpec` (refinement of `Catalogue`). Hold |
| `profiles` | three kind 0 events (the newest garbled), two consumers, two batches, faults, fairness | `OneSubscription`, `ProfileMonotone`, `ProfileSettles`, `LiveSettles`. Hold |
| `first_follow` | as `reconcile` with pushes and no fault at all | `CatchesUp`. Violated, see below |
| `purge_after_rm` | one account, one torrent | `PurgeServes`. Violated, see below |
| `scrape` | three torrents of one tracker, two of them of one infohash, in batches of two, and one of a dead tracker; interval 2, calls of up to 1, writes of up to 1 each, one fault; fairness | `TypeOK`, `Spaced`, `CyclesEnd`, `KeepsFresh`. Hold |
| `scrape_overrun` | the two of one infohash, one of a dead tracker and one without tracker, interval 3, calls of 2, writes that do not wait, no fault, fairness | `TurnComes`. Violated, see below |
| `rate_limit` | two clients; the site at 2 requests for 2 ticks, the feed at 1 for 3, collection after 3, four ticks | `TypeOK`, `BurstBound`, `RefusedForCause`, `TwoLimiters` (refinement, twice, of `RateLimit`). Hold |
| `rss_independent` | one client of the same | `PagesIndependent`. Violated, see below |
| `lifecycle` | two shells, two process numbers, every mishap, fairness | `TypeOK`, `OneServer`, `Named`, `OneRemains`, `StopServes`. Hold |
| `pages` | five events in pages of two, one without title and one whose sizes wrap to a negative sum, two of one second across the border of the first page; units of 2, of which there are two; two edits of one torrent | `TypeOK`, `IndexMatches`, `LastWord`, `PageWhole`, `WalkComplete`, `SizesInUnits`. Hold |
| `unprintable_size` | the same | `SizesReadable`. Violated, see below |

Why the bounds are enough. The watermark's hazards need one account, an event below
the mark and one above it, and for the inclusive `since` two of the same second;
the races need two writers: two workers (`reconcile`), a worker and a consumer (`catalogue`), or
two consumers of which one is cancelled (`profiles`). One fault in the right place is what each
property is about; a second one only repeats it. One relay is enough where answers are
partial, since the part that is missing is what matters, not which relay it was on;
the disagreement of two relays is a case of "disorder" and "partial". The limiters
need a refill and a collection inside the horizon, which four ticks hold, and a client whose
requests come between the two steps of its feed. The scrape needs
twins in one batch, a batch that is cut, a tracker that fails beside one that answers, and cycles
both shorter and longer than the interval; the ages are capped at 9, above the interval plus the
longest cycle of the run (2 and 6 in `scrape`: three batches and three writes, of which the write
alone can outlast the interval). Local and resolver time are 0 in `scrape`, where one more
unit of waiting in a call would show nothing else; `scrape_overrun` has local time, and the theorems
hold for any. A pidfile needs two commands at once, a number that names a server and one
that does not. A walk needs a full page, then one that is full, partial or empty, with rows that
come and go before and after the place it has reached (`WalkIsComplete` proves it for any number
of pages); a size on each side of each unit, and one beyond; two torrents of one second on
each side of a border, without which `split` would never matter (and with which the property
without its exception is violated).

### What the violated runs show

- `first_follow`. `consumeLive` moves the watermark to the date of each live event
  (`internal/ingest/live.go:97`) and `SyncUser` asks from the watermark on. After
  `follow add`, one live event is enough for the account's history to be out of the
  reach of the reconcile loop and of `fetch --user`; the same happens after a cut,
  whose events are older than the first one received after it. The comment of
  `LiveSync`, the README and `docs/relais-nostr.md` present the reconcile loop as what
  catches up with exactly that.
- `purge_after_rm`. `purge` looks its account up among the followed ones, so it
  refuses the account just removed, which is when the documentation tells the
  moderator to use it.
- `scrape_overrun`. `ScrapeOnce` writes the statistics of one torrent of each infohash
  (`internal/ingest/scrape.go:45`). That is repaired by the strict due test: the one just
  written is not due at the next cycle and the other is asked for alone (run `scrape`). When
  dead trackers make each cycle outlast the interval both are due each time, and one of them can
  win for ever. A batch of a dead tracker takes 5 seconds with the defaults, so without other
  waits 30 minutes are some 360 of them, and an interval of one minute twelve. Writes that wait
  shorten that: an answered batch of 74 torrents may take 5 seconds for the call and 370 for its
  writes. `GetTorrentStats` and the schema give only two
  reasons for missing statistics, no `udp://` tracker or a turn that has not come yet.
- `rss_independent`. `withMiddleware` asks the limiter of the site for every path
  (`internal/web/server.go:88`), so a feed costs a token of both limiters, and one that the
  feed's limiter refuses costs a token of the site all the same. A feed reader that retries
  then has its pages refused, while the configuration, its example and the comment of
  `handleRSS` call the two limits independent. They are in the other direction
  (`TwoLimiters`).

- `unprintable_size`. `humanSize` has five units, and from 2^60 bytes on it indexes the sixth
  (`internal/web/helpers.go:22`), while its comment promises a readable figure for a number of
  bytes and `ParseTorrent` accepts any non negative int64. One event with such a size cuts every
  page that lists it at its row, without the link to the next page, its own page too, and leaves
  no feed at all while it is among the newest, since `handleRSS` calls `humanSize` itself.

Met while modelling and left to prose: `%.1f` may print 1024.0 of a unit, where the quotient is
less than 1024 by less than 0.05 (`SizesInUnits` is about the quotient); `Search` replaces a limit above 100 by 40, so
`rss_max_items: 101` gives a shorter feed than 100; `docs/publier-nip35.md` lets the `tracker`
tag be repeated, of which `ParseTorrent` takes the first; a server that finds its port taken
exits with code 0.

### Fairness

`FairSpec` assumes weak fairness of the steps of the reconcile loop, of its restart
(the server is kept running), of `Reload` and of each consumer's steps: these are
goroutines driven by tickers, and a consumer that has an event is never blocked by anything
else. The end of a cancelled consumer is strongly fair: a buffered event may come first, each
time, but the subscription is closed and its buffer finite, which the model does not count. Nothing is assumed of the relays' pushes, of the
other worker, of the moderator or of the faults. In `Scrape`, the clock, the restart of the
server and the goroutine are weakly fair (every wait in it, calls and writes, is bounded); `Settles`, that
the catalogue stops changing, is a premise of `KeepsFresh` and `TurnComes` because a twin that
is removed at each of its turns and comes back does take the turn of the other. `CatchesUp` and `ProfileSettles` are
stated as "not missed again and again", since relays, accounts and events may change
at any time. `KeepsFresh` has a second premise, `Punctual`: from some time on no tick finds a
cycle under way. Without it `TurnComes` shows what happens;
`EnoughTimeIsPunctual` says for which constants it is no premise at all.

In `Lifecycle` the steps of a server are weakly fair (`Boot`, `Listen`, `Leave`, `Exit`): the
scheduler runs it, `select` takes what is ready, and `Shutdown` ends at its deadline. No command
has to be run, or to end. `OneRemains` supposes that servers stop being spawned. `Gate` and
`Pages` state safety only and assume nothing.

## Proofs

`tlapm` checks every leaf of `Recursion`, `SizeProofs` and the six other `*Proofs` modules
(SMT, Zenon, and LS4 for the temporal steps). The theorems hold for every value of the constants that
satisfies the assumptions named in the modules: any accounts,
events, relays, workers, consumers, clients, shells, process numbers, torrents, edits, dates,
page sizes, faults and budgets.

- `TypeCorrect`. `TypeOK` carries the facts other proofs rest on: what a batch holds
  belongs to its account, a consumer's event is genuine and of an account that was
  followed, an account that is not followed has no watermark.
- `WatermarkIsWitnessed`. "The watermark is the date of a stored torrent" is not
  inductive: it depends on the value a batch is about to write and on a consumer's
  event between its two writes. `WitnessInv` adds both: `newest` and `seen` are
  witnessed in `stored`, and an event marked `upserted` is in `stored`.
- `GapsHaveCauses`, for one account `a` in any environment: `NoGapOf(a)` holds as long as
  every step satisfies `LeftAlone(a)`, that is, as long as none of four things happens to
  `a` itself: `consumeLive` marks an event over an older torrent not yet written; an answer
  about `a` is incomplete; a torrent of `a` appears after a later one, or not on every
  relay; a relay drops one not yet written. What happens to other accounts, refused writes,
  crashes and commands cannot make a gap. `NetworkInv` (every genuine event the program
  has was published) holds in any environment. `GapInv(a)` says that everything below the
  watermark, and below each batch's snapshot of it, is written; that everything below what
  a batch at work on `a` has fetched is written or still in `got`; and that what is not
  written is on every relay. That a new torrent cannot fall below a watermark needs
  `WitnessInv`: the watermark is the date of a torrent already published.
- `NothingSkipped`, under `Calm` (only refused writes and crashes): nothing comes live then,
  and `CalmStep` shows that every step leaves every account alone, so it follows from
  `GapNext` for each.
- `WatermarkNeverDecreases`, `ProfileNeverOlder`: from the types and the `MAX` and
  `WHERE` of the two statements, over every action.
- `OldEditsAreLeftAlone`: `SinceInv` says that what a batch has got is not older than its
  snapshot of the watermark.
- `OneLiveSubscription`: inductive as it stands.
- `CatalogueIsAdditive`: `Init` maps to `Init` and every step of `Ingest` maps to a step of
  `Catalogue` or to a stutter, under the mapping `rows <- Rows`, `known <- everFollowed`,
  `purging <- purge`.
- `LimiterTypeCorrect`, `BurstIsBounded`, `RefusalHasACause`. The bound on bursts speaks of a
  log the limiter does not have. `PeriodInv` ties the two: the last `Rate - tokens` entries
  are those of the bucket's period, and its first entry is `lastSeen`. The entries before keep
  the pace (`Paced`): counted back from the entry that opened the period, `k * Rate` entries are
  at least `k` periods, for every `k`. A request that opens the next period does so at most
  `Rate` entries and at least one period later, which is one more multiple of both; a forgotten
  bucket leaves the same fact about `now`.
- `ScrapeTypeCorrect`, `StatisticsAreSpaced`. `Spaced` compares two statistics of a torrent; the
  first may be cycles old. `Aged` says of all that a cycle may still write that it has no
  statistics or that they are older than the cycle's `now` by more than the interval. It is kept by a
  write only because batch and rest of the cycle are disjoint, which `TypeOK` says, and by time
  because both ages grow together.
- `CyclesAreBounded`. `TimeFor(S)` is the time of the calls for `S` and of the writes of all its
  torrents whose tracker answers, `LongestCycle` that of the whole catalogue. Each `Send` leaves one
  pair less in `Batches(todo)` (`SendTakesOne`: the number of the last batch of the group is the pair
  that goes) and takes its torrents out of `todo`; an answer leaves at most one write for each of
  them, each write or refusal one less; and time passes only in a call or a write that has some
  left. So elapsed time and `TimeLeft` never exceed `LongestCycle`.
- `NoTickIsMissed`, `EnoughTimeIsPunctual`, where `2 * LocalTime + LongestCycle` is less
  than the interval. `Timely` says that the phase of the ticker is then the time since the
  cycle began, so it cannot wrap before the goroutine is idle, and `Punctual`, a premise of
  `KeepsFresh`, holds. The condition is a strong one: with the example's 30 minutes and 5 seconds, and
  writes that all wait their 5 seconds, a full batch of 74 torrents takes 375 seconds, and four of
  them fit in the interval. Some 350 batches do only if no write waits and names resolve at
  once; a resolver that takes its own 10 seconds for every dead name leaves a third of that.
- `GateIsTwoLimiters`, `GateBoundsBursts`, `GateRefusesForCause`. Every step of `Gate` is a
  step of `RateLimit` or a stutter, under each of the two mappings; what `RateLimitProofs` proves
  of every behaviour of `RateLimit` then holds of the middleware.
- `FeedBoundsBursts`, `FeedRefusesForCause`. `RateLimitProofs` is instantiated with the feed's
  rate, period, buckets and log; its assumptions follow from `GateAssumption`, and the second
  half of `TwoLimiters` gives its specification.
- `LifecycleTypeCorrect`, `OnlyOneServer`, `ServerIsNamed`. "The pidfile names the server" fails
  in the middle of a start or a stop, so the invariant says where each command is: while `clean`,
  a start that has checked is alone and no server lives; from the spawn to the write the only
  server is its own; and a stop that waits or removes holds the number of the only server, or
  of one that has died.
- `PagesTypeCorrect`, `IndexFollowsRows`, `OnlyRacesLoseWords`, `PageIsWhole`. Added to the
  properties: an edit that was not overtaken holds what the row holds (`EditsFresh`), and the
  row of a half-read page is there or was removed (`RowRead`).
- `WalkIsComplete`, for lists and pages of any size and any dates, torrents of one second included.
  `Position` counts the rows that must come before a torrent and `Until` those that can come before
  the last of its second. `Walked` says that what was there all the while has been shown if `Until`
  lies within the pages read, unless a border went through its second (`split`). Four facts carry
  it: `LIMIT k` takes no row whose `Position` is `k` or more (`TakenIsNear`) and every row whose `Until`
  is at most `k` (`NearIsTaken`); a page that is not full ends the list (`LastPage`); and when no row
  that must be among the first `k` leaves, no `Until` falls to `k` (`NoneMovesUp`). The last takes
  a newest row beyond `k`, which exists because inclusion is well-founded on finite sets: no
  induction is needed.
- `SizesHaveUnits`, for any unit above 1, number of units and size. `Divisions`, `Product` and
  `Worth` are recursive functions, of which only the equation they were chosen by is known, and
  only if some function satisfies it. `Recursion` proves that one does (`Existence`, along a rank
  that decreases: `n \div Unit < n`) and an induction that speaks of sets (`Least`, `Induction`),
  because the library's, with operators as parameters, cannot be used here. Then the quotient and the power
  that the loop ends with are those of the definition (`ProductIsWorth`), the size lies between
  two multiples of that power (`ProductBounds`), and a unit is missing from exactly `Worth[Units]`
  on (`PrintableSizes`, which is also why `SizesReadable` is violated by any larger size). That a row's size is an int64 at all, and the sum of its files while that fits, is `TotalType`:
  the fold over the files is again a recursive function, by `Existence` over finite lists.

Model-checked only: the liveness properties (`CatchesUp`, `ProfileSettles`, `LiveSettles`,
`KeepsFresh`, `OneRemains`, `StopServes`), which need fairness and `ENABLED`, and the five
violated ones. Every invariant and every action property of the passing runs is a theorem.

## Not modelled

- Configuration: a YAML file read once at the start of each command. Its values are constants
  of the modules.
- `backup`: one `VACUUM INTO`, which SQLite makes atomic, into another file.
- The texts of a torrent nothing decides on (description, image, references, magnet link), the
  profile and the statistics shown on its page, the XML of the feed, dates and ages, npub
  encoding: formatting of what one statement or one event holds.
- Markdown and HTML sanitising, go-nostr's connections and deduplication, SQLite below a
  statement: third-party code.
- Templates, static files, shell scripts of the build: layout and installation.
