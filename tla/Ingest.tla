------------------------------- MODULE Ingest -------------------------------
(***************************************************************************)
(* The ingestion of one instance: the relays it listens to, the batch      *)
(* synchronisations (SyncAll in the server's reconcile loop, `revolution   *)
(* sync` and `revolution fetch` in processes of their own), the live       *)
(* subscription with its reloads, and the moderator's commands, all over   *)
(* the tables of Store.                                                    *)
(*                                                                         *)
(* Env names what the environment may do to the program:                   *)
(*   "push"      relays push events on the live subscription (without it   *)
(*               the live connection stays cut)                            *)
(*   "partial"   a relay answers a query incompletely: it is down, cuts    *)
(*               its answer, or the request's deadline passes              *)
(*   "disorder"  events reach the relays in another order than their       *)
(*               created_at, or reach only some of them                    *)
(*   "busy"      SQLite refuses a write (SQLITE_BUSY after busy_timeout)   *)
(*   "crash"     the server or a command's process dies                    *)
(*   "forget"    a relay drops an event                                    *)
(* MaxMishaps bounds the partial answers, refused writes and crashes,      *)
(* MaxCmds the moderator's commands.                                       *)
(***************************************************************************)
EXTENDS Store

CONSTANTS Workers,   \* processes that run a batch synchronisation
          Server,    \* the one that is the server's reconcile loop
          Slots,     \* live consumers that may exist at the same time
          Forged,    \* events CheckSignature or ParseTorrent rejects
          Garbled,   \* kind 0 events whose content is not JSON
          Env, MaxMishaps, MaxCmds

ASSUME IngestAssumption ==
    /\ Server \in Workers
    /\ Forged \subseteq Events /\ Garbled \subseteq Metas
    /\ Env \subseteq {"push", "partial", "disorder", "busy", "crash", "forget"}
    /\ MaxMishaps \in Nat /\ MaxCmds \in Nat

VARIABLES
    held,      \* the events each relay holds
    published, \* history: every event that was ever on a relay
    \* a batch synchronisation (functions on Workers)
    pc,        \* "idle", "next" account, "fetch", "meta", "putmeta"
    asked,     \* the relays it read when it started
    todo,      \* the accounts it read and has not come to yet
    seen,      \* their last_synced_at as it read them
    cur,       \* the account at hand
    pending,   \* the relays that have not answered yet
    got,       \* torrents fetched and not written yet
    newest,    \* maxTs
    meta,      \* the profile fetched and not written yet
    \* the server process and its live consumers (functions on Slots)
    up,        \* whether the server runs
    lastKey,   \* LiveSync's lastKey: the filter of the last reload
    state,     \* "free", "open" or "cancelled" (it may still run)
    filter,    \* the relays and authors it listens to
    event,     \* the event it is processing
    upserted,  \* whether that torrent is written already
    purge,     \* the account whose `purge` waits for its confirmation
    cmds, mishaps \* what is left of the two budgets

network == <<held, published>>
batch   == <<pc, asked, todo, seen, cur, pending, got, newest, meta>>
subs    == <<state, filter, event, upserted>>
live    == <<up, lastKey, subs>>
budgets == <<cmds, mishaps>>
vars    == <<tables, network, batch, live, purge, budgets>>

NoKey == [relays |-> {}, authors |-> {}]   \* the empty string of lastKey
NoMark == [a \in Authors |-> 0]

Init ==
    /\ StoreInit
    /\ held = [r \in RelayURLs |-> {}] /\ published = {}
    /\ pc = [w \in Workers |-> "idle"]
    /\ asked = [w \in Workers |-> {}] /\ todo = [w \in Workers |-> {}]
    /\ seen = [w \in Workers |-> NoMark] /\ cur = [w \in Workers |-> None]
    /\ pending = [w \in Workers |-> {}] /\ got = [w \in Workers |-> {}]
    /\ newest = [w \in Workers |-> 0] /\ meta = [w \in Workers |-> None]
    /\ up = FALSE /\ lastKey = NoKey
    /\ state = [g \in Slots |-> "free"] /\ filter = [g \in Slots |-> NoKey]
    /\ event = [g \in Slots |-> None] /\ upserted = [g \in Slots |-> FALSE]
    /\ purge = None /\ cmds = MaxCmds /\ mishaps = MaxMishaps

-----------------------------------------------------------------------------
(* The authors and the relays *)

InOrder(e) == \A d \in published : PubkeyOf[d] = PubkeyOf[e]
                                     => CreatedAt[d] <= CreatedAt[e]

Publish(e, S) ==
    /\ e \notin published /\ S # {}
    /\ "disorder" \in Env \/ (InOrder(e) /\ S = RelayURLs)
    /\ published' = published \cup {e}
    /\ held' = [r \in RelayURLs |-> IF r \in S THEN held[r] \cup {e} ELSE held[r]]
    /\ UNCHANGED <<tables, batch, live, purge, budgets>>

Forget(r, e) ==
    /\ "forget" \in Env /\ e \in held[r]
    /\ held' = [held EXCEPT ![r] = @ \ {e}]
    /\ UNCHANGED <<tables, published, batch, live, purge, budgets>>

Mishap(kind) ==
    /\ kind \in Env /\ mishaps > 0
    /\ mishaps' = mishaps - 1
    /\ UNCHANGED cmds

-----------------------------------------------------------------------------
(* SyncAll and SyncUser *)

\* The rows read at the start are a snapshot: nothing reads them again.
Begin(w, A) ==
    /\ pc[w] = "idle" /\ relays # {}
    /\ pc' = [pc EXCEPT ![w] = "next"]
    /\ asked' = [asked EXCEPT ![w] = relays]
    /\ todo' = [todo EXCEPT ![w] = A]
    /\ seen' = [seen EXCEPT ![w] = lastSynced]
    /\ UNCHANGED <<tables, network, cur, pending, got, newest, meta, live,
                   purge, budgets>>

StartSync(w)     == (w = Server => up) /\ Begin(w, followed)
StartFetch(w, a) == w # Server /\ a \in followed /\ Begin(w, {a})

NextAccount(w, a) ==
    /\ pc[w] = "next" /\ a \in todo[w]
    /\ pc' = [pc EXCEPT ![w] = "fetch"]
    /\ todo' = [todo EXCEPT ![w] = @ \ {a}]
    /\ cur' = [cur EXCEPT ![w] = a]
    /\ pending' = [pending EXCEPT ![w] = asked[w]]
    /\ newest' = [newest EXCEPT ![w] = seen[w][a]]
    /\ UNCHANGED <<tables, network, asked, seen, got, meta, live, purge, budgets>>

\* What a batch holds for one account goes with the call of SyncUser, the rest
\* with the call of SyncAll or the death of its process.
Leave(w) ==
    /\ cur' = [cur EXCEPT ![w] = None]
    /\ pending' = [pending EXCEPT ![w] = {}]
    /\ got' = [got EXCEPT ![w] = {}]
    /\ newest' = [newest EXCEPT ![w] = 0]
    /\ meta' = [meta EXCEPT ![w] = None]

Done(w) ==
    /\ pc' = [pc EXCEPT ![w] = "next"]
    /\ Leave(w)
    /\ UNCHANGED <<asked, todo, seen>>

Stop(w) ==
    /\ pc' = [pc EXCEPT ![w] = "idle"]
    /\ asked' = [asked EXCEPT ![w] = {}]
    /\ todo' = [todo EXCEPT ![w] = {}]
    /\ seen' = [seen EXCEPT ![w] = NoMark]
    /\ Leave(w)

Finish(w) ==
    /\ pc[w] = "next" /\ todo[w] = {}
    /\ Stop(w)
    /\ UNCHANGED <<tables, network, live, purge, budgets>>

\* Mutant: the bound since is strict.
WantedAfter(r, a, since) ==
    {e \in (held[r] \cap Torrents) \ Forged :
        PubkeyOf[e] = a /\ CreatedAt[e] > since}

\* Mutant: no bound at all, every fetch asks for the whole history.
WantedAlways(r, a, since) ==
    {e \in (held[r] \cap Torrents) \ Forged : PubkeyOf[e] = a}

\* What relay r has for the filter {kind 2003, author, since}, less the events
\* FetchTorrents drops.  The bound since is inclusive.
Wanted(r, a, since) ==
    {e \in (held[r] \cap Torrents) \ Forged :
        PubkeyOf[e] = a /\ CreatedAt[e] >= since}

Receive(w, r, S) ==
    /\ pc[w] = "fetch" /\ r \in pending[w]
    /\ got' = [got EXCEPT ![w] = @ \cup S]
    /\ pending' = [pending EXCEPT ![w] = @ \ {r}]
    /\ UNCHANGED <<tables, network, pc, asked, todo, seen, cur, newest, meta,
                   live, purge>>

Asked(w, r) == Wanted(r, cur[w], seen[w][cur[w]])

Answer(w, r) == Receive(w, r, Asked(w, r)) /\ UNCHANGED budgets

PartialAnswer(w, r) ==
    \E S \in SUBSET Asked(w, r) :
        S # Asked(w, r) /\ Receive(w, r, S) /\ Mishap("partial")

Storing(w) == pc[w] = "fetch" /\ pending[w] = {}

Consume(w, e) ==
    /\ e \in got[w]
    /\ got' = [got EXCEPT ![w] = @ \ {e}]
    /\ newest' = [newest EXCEPT ![w] = Later(@, CreatedAt[e])]
    /\ UNCHANGED <<pc, asked, todo, seen, cur, pending, meta>>

StoreNext(w, e) ==
    /\ Storing(w)
    /\ Consume(w, e)
    /\ UpsertTorrent(e)
    /\ UNCHANGED <<network, live, purge, budgets>>

\* Mutant: the error is logged, the loop goes on and the mark is moved.
StoreFailsGoesOn(w) ==
    /\ Storing(w)
    /\ \E e \in got[w] : Consume(w, e)
    /\ Mishap("busy")
    /\ UNCHANGED <<tables, network, live, purge>>

\* SyncUser returns on the first error: the rest of the answer is dropped and
\* the watermark is not moved.  SyncAll goes on with the next account.
StoreFails(w) ==
    /\ Storing(w)
    /\ got[w] # {} \/ newest[w] > seen[w][cur[w]]
    /\ Done(w)
    /\ Mishap("busy")
    /\ UNCHANGED <<tables, network, live, purge>>

MarkSynced(w) ==
    /\ Storing(w) /\ got[w] = {}
    /\ IF newest[w] > seen[w][cur[w]] THEN UpdateLastSynced(cur[w], newest[w])
                                      ELSE UNCHANGED tables
    /\ pc' = [pc EXCEPT ![w] = "meta"]
    /\ newest' = [newest EXCEPT ![w] = 0]
    /\ UNCHANGED <<network, asked, todo, seen, cur, pending, got, meta, live,
                   purge, budgets>>

WantedMetas(w) ==
    {p \in Metas \ Forged : PubkeyOf[p] = cur[w] /\ \E r \in asked[w] : p \in held[r]}

\* Mutant: the comparison of created_at is the wrong way round.
LatestReversed(S) == {p \in S : \A q \in S : CreatedAt[q] >= CreatedAt[p]}

Latest(S) == {p \in S : \A q \in S : CreatedAt[q] <= CreatedAt[p]}

\* FetchProfiles keeps the newest event, then drops it if it is not JSON.
ReceiveMeta(w, S) ==
    /\ pc[w] = "meta"
    /\ \/ /\ S = {} \/ Latest(S) \cap Garbled # {}
          /\ Done(w)
       \/ \E p \in Latest(S) \ Garbled :
            /\ pc' = [pc EXCEPT ![w] = "putmeta"]
            /\ meta' = [meta EXCEPT ![w] = p]
            /\ UNCHANGED <<asked, todo, seen, cur, pending, got, newest>>
    /\ UNCHANGED <<tables, network, live, purge>>

FetchMeta(w) == ReceiveMeta(w, WantedMetas(w)) /\ UNCHANGED budgets

PartialMeta(w) ==
    \E S \in SUBSET Metas :
        /\ S \subseteq WantedMetas(w) /\ S # WantedMetas(w)
        /\ ReceiveMeta(w, S) /\ Mishap("partial")

PutMeta(w) ==
    /\ pc[w] = "putmeta"
    /\ \/ UpsertProfile(meta[w]) /\ UNCHANGED budgets
       \/ UNCHANGED tables /\ Mishap("busy")   \* logged, and the loop goes on
    /\ Done(w)
    /\ UNCHANGED <<network, live, purge>>

-----------------------------------------------------------------------------
(* LiveSync, Live and consumeLive *)

\* Mutant: the key only lists the accounts.
AuthorsKey == [relays |-> lastKey.relays, authors |-> followed]

Key == [relays |-> relays, authors |-> followed]

\* Mutant: the old subscription is left open.
NotCancelled(s) == s

Cancelled(s) == IF s = "open" THEN "cancelled" ELSE s

\* The key is remembered before the new subscription is opened, and the old
\* consumer is told to stop but not waited for.
Reload ==
    /\ up /\ lastKey # Key
    /\ lastKey' = Key
    /\ LET stopped == [g \in Slots |-> Cancelled(state[g])] IN
       \/ /\ relays = {} \/ followed = {}
          /\ state' = stopped /\ UNCHANGED filter
       \/ /\ relays # {} /\ followed # {}
          /\ \E g \in Slots :
               /\ state[g] = "free"
               /\ state' = [stopped EXCEPT ![g] = "open"]
               /\ filter' = [filter EXCEPT ![g] = [relays |-> relays,
                                                  authors |-> followed]]
    /\ UNCHANGED <<tables, network, batch, up, event, upserted, purge, budgets>>

\* An event that a relay pushed is handed over, also to a consumer that was told to
\* stop: a select may still pick the send.  The filter's since (now - 2 min) is not
\* compared: created_at is the author's word, so any event may fall after it.
Push(g, e) ==
    /\ "push" \in Env
    /\ state[g] # "free" /\ event[g] = None
    /\ \E r \in filter[g].relays : e \in held[r]
    /\ PubkeyOf[e] \in filter[g].authors /\ e \notin Forged \cup Garbled
    /\ event' = [event EXCEPT ![g] = e]
    /\ UNCHANGED <<tables, network, batch, up, lastKey, state, filter, upserted,
                   purge, budgets>>

EventDone(g) ==
    /\ event' = [event EXCEPT ![g] = None]
    /\ upserted' = [upserted EXCEPT ![g] = FALSE]
    /\ UNCHANGED <<network, batch, up, lastKey, state, filter, purge>>

LiveUpsert(g) ==
    /\ event[g] \in Torrents /\ ~upserted[g]
    /\ UpsertTorrent(event[g])
    /\ upserted' = [upserted EXCEPT ![g] = TRUE]
    /\ UNCHANGED <<network, batch, up, lastKey, state, filter, event, purge,
                   budgets>>

LiveMark(g) ==
    /\ event[g] \in Torrents /\ upserted[g]
    /\ UpdateLastSynced(PubkeyOf[event[g]], CreatedAt[event[g]])
    /\ EventDone(g) /\ UNCHANGED budgets

LiveProfile(g) ==
    /\ event[g] \in Metas
    /\ UpsertProfile(event[g])
    /\ EventDone(g) /\ UNCHANGED budgets

\* Mutant: the mark is moved although the upsert was refused.
LiveFailsMarks(g) ==
    /\ event[g] \in Torrents
    /\ UpdateLastSynced(PubkeyOf[event[g]], CreatedAt[event[g]])
    /\ EventDone(g) /\ Mishap("busy")

\* A refused upsert skips the mark (continue); a refused mark is only logged.
LiveFails(g) ==
    /\ event[g] # None
    /\ EventDone(g) /\ Mishap("busy")
    /\ UNCHANGED tables

\* ctx.Done() may win over the event that was about to be handed over.
ConsumerEnds(g) ==
    /\ state[g] = "cancelled" /\ ~upserted[g]
    /\ state' = [state EXCEPT ![g] = "free"]
    /\ filter' = [filter EXCEPT ![g] = NoKey]
    /\ event' = [event EXCEPT ![g] = None]
    /\ UNCHANGED <<tables, network, batch, up, lastKey, upserted, purge, budgets>>

-----------------------------------------------------------------------------
(* Processes that start and die: only the tables survive *)

ServerStart ==
    /\ ~up
    /\ up' = TRUE
    /\ UNCHANGED <<tables, network, batch, lastKey, subs, purge, budgets>>

ServerDies ==
    /\ up
    /\ up' = FALSE /\ lastKey' = NoKey
    /\ state' = [g \in Slots |-> "free"] /\ filter' = [g \in Slots |-> NoKey]
    /\ event' = [g \in Slots |-> None] /\ upserted' = [g \in Slots |-> FALSE]
    /\ Stop(Server)
    /\ Mishap("crash")
    /\ UNCHANGED <<tables, network, purge>>

CommandDies(w) ==
    /\ w # Server /\ pc[w] # "idle"
    /\ Stop(w)
    /\ Mishap("crash")
    /\ UNCHANGED <<tables, network, live, purge>>

-----------------------------------------------------------------------------
(* The moderator's commands, each in a process of its own *)

Command ==
    /\ cmds > 0
    /\ cmds' = cmds - 1
    /\ UNCHANGED <<mishaps, network, batch, live>>

FollowAdd(a) == AddFollowed(a) /\ Command /\ UNCHANGED purge
FollowRm(a)  == a \in followed /\ RemoveFollowed(a) /\ Command /\ UNCHANGED purge
RelayAdd(r)  == AddRelay(r) /\ Command /\ UNCHANGED purge
RelayRm(r)   == r \in relays /\ RemoveRelay(r) /\ Command /\ UNCHANGED purge

TorrentRm(e)   == e \in Rows /\ DeleteTorrent(e) /\ Command /\ UNCHANGED purge
TorrentEdit(e) == e \in Rows /\ UpdateTorrentFields(e) /\ Command /\ UNCHANGED purge

\* purge resolves the account in the table followed, and counts its torrents,
\* before it asks; it deletes what is there when the answer comes.
Resolves(a) == a \in followed

PurgeAsk(a) ==
    /\ purge = None /\ Resolves(a) /\ Rows \cap OfAuthor(a) # {}
    /\ purge' = a
    /\ Command /\ UNCHANGED tables

PurgeConfirm ==
    /\ purge # None
    /\ DeleteByPubkey(purge)
    /\ purge' = None
    /\ UNCHANGED <<network, batch, live, budgets>>

PurgeCancel ==
    /\ purge # None
    /\ purge' = None
    /\ UNCHANGED <<tables, network, batch, live, budgets>>

-----------------------------------------------------------------------------

\* What a batch synchronisation does by itself once it runs.
BatchStep(w) ==
    \/ StartSync(w) \/ Finish(w) \/ MarkSynced(w) \/ FetchMeta(w) \/ PutMeta(w)
    \/ \E a \in Authors : NextAccount(w, a)
    \/ \E r \in RelayURLs : Answer(w, r)
    \/ \E e \in Torrents : StoreNext(w, e)

BatchMishap(w) ==
    \/ StoreFails(w) \/ PartialMeta(w) \/ CommandDies(w)
    \/ \E r \in RelayURLs : PartialAnswer(w, r)

ConsumerStep(g) == LiveUpsert(g) \/ LiveMark(g) \/ LiveProfile(g) \/ ConsumerEnds(g)

Moderate ==
    \/ \E a \in Authors : FollowAdd(a) \/ FollowRm(a) \/ PurgeAsk(a)
    \/ \E r \in RelayURLs : RelayAdd(r) \/ RelayRm(r)
    \/ \E e \in Torrents : TorrentRm(e) \/ TorrentEdit(e)
    \/ PurgeConfirm \/ PurgeCancel

Network ==
    \/ \E e \in Events, S \in SUBSET RelayURLs : Publish(e, S)
    \/ \E r \in RelayURLs, e \in Events : Forget(r, e)

Next ==
    \/ \E w \in Workers : BatchStep(w) \/ BatchMishap(w)
    \/ \E w \in Workers, a \in Authors : StartFetch(w, a)
    \/ Reload \/ ServerStart \/ ServerDies
    \/ \E g \in Slots : ConsumerStep(g) \/ LiveFails(g)
    \/ \E g \in Slots, e \in Events : Push(g, e)
    \/ Moderate
    \/ Network

Spec == Init /\ [][Next]_vars

\* The server is kept running and its goroutines are scheduled: the reconcile
\* loop ticks for ever, the reload ticker too, and a consumer that has an event
\* goes on.  One that was told to stop ends, since only what the subscription had
\* buffered can still reach it.  Nothing is assumed of the relays' pushes, of the
\* commands or of the faults.
FairSpec ==
    /\ Spec
    /\ WF_vars(BatchStep(Server))
    /\ WF_vars(ServerStart) /\ WF_vars(Reload)
    /\ \A g \in Slots : WF_vars(ConsumerStep(g)) /\ SF_vars(ConsumerEnds(g))

-----------------------------------------------------------------------------
(* Properties *)

BatchTypeOK ==
    /\ pc \in [Workers -> {"idle", "next", "fetch", "meta", "putmeta"}]
    /\ asked \in [Workers -> SUBSET RelayURLs]
    /\ pending \in [Workers -> SUBSET RelayURLs]
    /\ todo \in [Workers -> SUBSET everFollowed]
    /\ seen \in [Workers -> [Authors -> Nat]]
    /\ cur \in [Workers -> everFollowed \cup {None}]
    /\ newest \in [Workers -> Nat]
    /\ got \in [Workers -> SUBSET Torrents]
    /\ meta \in [Workers -> Metas \cup {None}]
    /\ \A w \in Workers :
         /\ pc[w] \in {"idle", "next"} <=> cur[w] = None
         /\ pc[w] = "putmeta" <=> meta[w] # None
         /\ \A e \in got[w] : PubkeyOf[e] = cur[w] /\ e \notin Forged
         /\ meta[w] # None => PubkeyOf[meta[w]] = cur[w]

LiveTypeOK ==
    /\ up \in BOOLEAN
    /\ lastKey \in [relays : SUBSET RelayURLs, authors : SUBSET everFollowed]
    /\ state \in [Slots -> {"free", "open", "cancelled"}]
    /\ filter \in [Slots -> [relays : SUBSET RelayURLs,
                             authors : SUBSET everFollowed]]
    /\ event \in [Slots -> (Events \ Forged) \cup {None}]
    /\ upserted \in [Slots -> BOOLEAN]
    /\ \A g \in Slots :
         /\ upserted[g] => event[g] \in Torrents
         /\ event[g] # None => /\ state[g] # "free"
                              /\ PubkeyOf[event[g]] \in everFollowed

\* The tables, the batches and the consumers have the values the code gives
\* them (structs Followed, Torrent, Profile; the locals of SyncUser).
TypeOK ==
    /\ StoreTypeOK
    /\ published \subseteq Events /\ held \in [RelayURLs -> SUBSET published]
    /\ BatchTypeOK /\ LiveTypeOK
    /\ purge \in everFollowed \cup {None}
    /\ cmds \in Nat /\ mishaps \in Nat

Witnessed(S, a, t) ==
    t > 0 => \E e \in S \ Forged : PubkeyOf[e] = a /\ CreatedAt[e] = t

\* The watermark of an account is never ahead of what was written: it is 0 or
\* the created_at of one of its genuine torrents already upserted, whichever of the
\* batches and the live consumers moved it and whatever failed meanwhile
\* (SyncUser returns before the mark on an error, consumeLive skips it).
WatermarkWitnessed ==
    \A a \in Authors : Witnessed(stored, a, lastSynced[a])

\* Nothing below the watermark was skipped: every genuine torrent of a followed
\* account that a relay holds and that is older than the account's watermark
\* has been written.  The code keeps this only when the relays answer fully,
\* events appear in order everywhere and the live subscription brings nothing
\* (Env within {"busy", "crash"}): batches alone, with their retries.
NoGap ==
    \A r \in RelayURLs : \A e \in (held[r] \cap Torrents) \ Forged :
        CreatedAt[e] < lastSynced[PubkeyOf[e]] => e \in stored

\* UpdateLastSynced "n'avance jamais en arriere": while an account stays
\* followed its watermark never decreases, although batches write a value
\* computed from an old snapshot while the live consumer writes newer ones.
WatermarkMonotone ==
    [][\A a \in followed \cap followed' : lastSynced'[a] >= lastSynced[a]]_vars

\* The cached profile of an account never goes back to an older kind 0 event,
\* however a batch's answer and the live consumer's events interleave.
ProfileMonotone ==
    [][\A a \in Authors : profile[a] # None =>
           profile'[a] # None /\ CreatedAt[profile'[a]] >= CreatedAt[profile[a]]]_vars

\* A batch asks from its watermark on, so only the live subscription or an
\* event not older than that watermark ever overwrites a moderator's edit.
OldEditsLeftAlone ==
    [][\A e \in Torrents : row[e] = "edited" /\ row'[e] = "event" =>
           \/ \E g \in Slots : event[g] = e
           \/ \E w \in Workers : /\ cur[w] = PubkeyOf[e]
                                 /\ seen[w][cur[w]] <= CreatedAt[e]]_vars

\* At most one live consumer is not cancelled, and its filter is the one
\* LiveSync believes to be subscribed (lastKey); none is left when that filter
\* has no relay or no author.
OneSubscription ==
    \A g \in Slots : state[g] = "open" =>
        /\ filter[g] = lastKey
        /\ lastKey.relays # {} /\ lastKey.authors # {}
        /\ \A h \in Slots : state[h] = "open" => g = h

\* The catalogue is additive: the ingestion implements the abstract catalogue,
\* whose torrents enter only if genuine and of an account that was followed,
\* and leave only by `torrent rm` or a confirmed `purge`.
Additive == INSTANCE Catalogue WITH Torrents <- Torrents \ Forged,
              rows <- Rows, known <- everFollowed, purging <- purge
CatalogueSpec == Additive!Spec

\* A genuine torrent held by a configured relay, of a followed account, is in
\* the end written: the reconcile loop catches up with what live missed.
Missed(e) ==
    /\ PubkeyOf[e] \in followed /\ e \notin stored
    /\ \E r \in relays : e \in held[r]
CatchesUp == \A e \in Torrents \ Forged : []<>~Missed(e)

\* Once the commands and the crashes are over, the live subscription follows
\* the tables: one consumer, with the configured relays and the followed
\* accounts as its filter, and the cancelled ones are gone (so an account
\* removed from the list is in the end no longer listened to).
LiveMatches ==
    LET running == {g \in Slots : state[g] # "free"} IN
    IF relays = {} \/ followed = {}
    THEN running = {}
    ELSE \E g \in running : running = {g} /\ filter[g] = Key
LiveSettles == <>[]LiveMatches

\* The cached profile of a followed account ends up as recent as the newest
\* kind 0 event a configured relay holds, if that one is well formed: there is
\* no watermark on profiles, so no order of arrival can hide it.
Newest(a) ==
    LET there == {p \in Metas \ Forged : PubkeyOf[p] = a
                                          /\ \E r \in relays : p \in held[r]}
    IN  {p \in there : \A q \in there : CreatedAt[q] <= CreatedAt[p]}
ProfileStale(a) ==
    /\ a \in followed /\ Newest(a) # {} /\ Newest(a) \cap Garbled = {}
    /\ \A p \in Newest(a) : ~(/\ profile[a] # None
                              /\ CreatedAt[profile[a]] >= CreatedAt[p])
ProfileSettles == \A a \in Authors : []<>~ProfileStale(a)

\* docs/relais-nostr.md tells the moderator who removed an account to use
\* `purge` to erase its torrents: purge finds every account with torrents.
PurgeServes == \A a \in Authors : Rows \cap OfAuthor(a) # {} => Resolves(a)
=============================================================================
