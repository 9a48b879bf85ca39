--------------------------- MODULE IngestProofs ---------------------------
(***************************************************************************)
(* Theorems about Ingest, for every set of accounts, events, relays,       *)
(* workers and consumers and every environment.                            *)
(***************************************************************************)
EXTENDS Ingest, TLAPS

-----------------------------------------------------------------------------
(* Type correctness: the tables, then the batches, then the consumers *)

LEMMA StoreStep ==
    ASSUME StoreTypeOK, EventsAssumption,
           \/ \E e \in Torrents : UpsertTorrent(e)
           \/ \E a \in Authors, t \in Nat : UpdateLastSynced(a, t)
           \/ \E p \in Metas : UpsertProfile(p)
           \/ \E a \in Authors : AddFollowed(a) \/ RemoveFollowed(a) \/ DeleteByPubkey(a)
           \/ \E R \in SUBSET RelayURLs : SetRelays(R)
           \/ \E e \in Rows : DeleteTorrent(e) \/ UpdateTorrentFields(e)
           \/ UNCHANGED tables
    PROVE  StoreTypeOK' /\ stored \subseteq stored' /\ everFollowed \subseteq everFollowed'
<1> USE EventsAssumption DEF StoreTypeOK, Rows, Events
<1>1. CASE \E e \in Torrents : UpsertTorrent(e)
  BY <1>1 DEF UpsertTorrent
<1>2. CASE \E a \in Authors, t \in Nat : UpdateLastSynced(a, t)
  BY <1>2 DEF UpdateLastSynced, Later
<1>3. CASE \E p \in Metas : UpsertProfile(p)
  BY <1>3 DEF UpsertProfile
<1>4. CASE \E a \in Authors : AddFollowed(a)
  BY <1>4 DEF AddFollowed
<1>5. CASE \E a \in Authors : RemoveFollowed(a)
  BY <1>5 DEF RemoveFollowed
<1>6. CASE \E a \in Authors : DeleteByPubkey(a)
  BY <1>6 DEF DeleteByPubkey, SetRows, OfAuthor
<1>7. CASE \E R \in SUBSET RelayURLs : SetRelays(R)
  BY <1>7 DEF SetRelays
<1>8. CASE \E e \in Rows : DeleteTorrent(e) \/ UpdateTorrentFields(e)
  BY <1>8 DEF DeleteTorrent, UpdateTorrentFields, SetRows
<1>9. CASE UNCHANGED tables
  BY <1>9 DEF tables
<1> QED BY <1>1, <1>2, <1>3, <1>4, <1>5, <1>6, <1>7, <1>8, <1>9

LEMMA InitType == ASSUME EventsAssumption, IngestAssumption, Init PROVE TypeOK
<1> USE EventsAssumption, IngestAssumption DEF Init
<1>1. StoreTypeOK
  BY DEF StoreInit, StoreTypeOK, Rows
<1>2. BatchTypeOK
  BY DEF BatchTypeOK, NoMark
<1>3. LiveTypeOK
  BY DEF LiveTypeOK, NoKey
<1> QED BY <1>1, <1>2, <1>3 DEF TypeOK

LEMMA ReceiveMetaType ==
    ASSUME TypeOK, EventsAssumption, IngestAssumption, NEW w \in Workers,
           NEW S \in SUBSET WantedMetas(w), ReceiveMeta(w, S)
    PROVE  StoreTypeOK' /\ BatchTypeOK'
<1> USE EventsAssumption, IngestAssumption DEF TypeOK, BatchTypeOK, Events
<1>1. StoreTypeOK' /\ everFollowed' = everFollowed
  BY StoreStep DEF ReceiveMeta, tables
<1>2. CASE Done(w)
  BY <1>1, <1>2 DEF ReceiveMeta, Done, Leave
<1>3. ASSUME NEW p \in Latest(S),
             pc' = [pc EXCEPT ![w] = "putmeta"], meta' = [meta EXCEPT ![w] = p],
             UNCHANGED <<asked, todo, seen, cur, pending, got, newest>>
      PROVE  BatchTypeOK'
  <2>1. p \in Metas /\ PubkeyOf[p] = cur[w] /\ pc[w] = "meta"
    BY <1>3 DEF Latest, WantedMetas, ReceiveMeta
  <2> QED BY <1>1, <1>3, <2>1
<1> QED BY <1>1, <1>2, <1>3 DEF ReceiveMeta

LEMMA BatchStepType ==
    ASSUME TypeOK, EventsAssumption, IngestAssumption, NEW w \in Workers, BatchStep(w)
    PROVE  TypeOK'
<1> USE EventsAssumption, IngestAssumption
        DEF TypeOK, BatchTypeOK, LiveTypeOK, Events, network, live, subs, budgets
<1>0. StoreTypeOK /\ followed \subseteq everFollowed /\ everFollowed \subseteq Authors
      /\ lastSynced \in [Authors -> Nat] /\ relays \subseteq RelayURLs
  BY DEF StoreTypeOK
<1>1. CASE StartSync(w)
  <2>1. StoreTypeOK'
    BY <1>0, <1>1, StoreStep DEF StartSync, Begin
  <2> QED BY <1>0, <1>1, <2>1 DEF StartSync, Begin, tables
<1>2. CASE Finish(w)
  <2>1. StoreTypeOK'
    BY <1>0, <1>2, StoreStep DEF Finish
  <2> QED BY <1>0, <1>2, <2>1 DEF Finish, Stop, Leave, NoMark, tables
<1>3. CASE MarkSynced(w)
  <2>1. cur[w] \in Authors
    BY <1>0, <1>3 DEF MarkSynced, Storing
  <2>2. StoreTypeOK'
    BY <1>0, <1>3, <2>1, StoreStep DEF MarkSynced
  <2> QED BY <1>0, <1>3, <2>1, <2>2 DEF MarkSynced, Storing, UpdateLastSynced, tables
<1>4. CASE FetchMeta(w)
  <2>1. StoreTypeOK' /\ BatchTypeOK'
    BY <1>4, ReceiveMetaType DEF FetchMeta
  <2> QED BY <1>4, <2>1 DEF FetchMeta, ReceiveMeta, tables
<1>5. CASE PutMeta(w)
  <2>1. StoreTypeOK'
    BY <1>0, <1>5, StoreStep DEF PutMeta
  <2> QED BY <1>0, <1>5, <2>1 DEF PutMeta, Done, Leave, UpsertProfile, Mishap, tables
<1>6. ASSUME NEW a \in Authors, NextAccount(w, a) PROVE TypeOK'
  <2>1. StoreTypeOK'
    BY <1>0, <1>6, StoreStep DEF NextAccount
  <2> QED BY <1>0, <1>6, <2>1 DEF NextAccount, tables
<1>7. ASSUME NEW r \in RelayURLs, Answer(w, r) PROVE TypeOK'
  <2>1. StoreTypeOK'
    BY <1>0, <1>7, StoreStep DEF Answer, Receive
  <2> QED BY <1>0, <1>7, <2>1 DEF Answer, Receive, Asked, Wanted, tables
<1>8. ASSUME NEW e \in Torrents, StoreNext(w, e) PROVE TypeOK'
  <2>1. StoreTypeOK'
    BY <1>0, <1>8, StoreStep DEF StoreNext
  <2> QED BY <1>0, <1>8, <2>1 DEF StoreNext, Storing, Consume, Later, UpsertTorrent
<1> QED BY <1>1, <1>2, <1>3, <1>4, <1>5, <1>6, <1>7, <1>8 DEF BatchStep

LEMMA BatchMishapType ==
    ASSUME TypeOK, EventsAssumption, IngestAssumption, NEW w \in Workers,
           BatchMishap(w) \/ \E a \in Authors : StartFetch(w, a)
    PROVE  TypeOK'
<1> USE EventsAssumption, IngestAssumption
        DEF TypeOK, BatchTypeOK, LiveTypeOK, Events, network, live, subs, budgets, Mishap
<1>0. StoreTypeOK /\ followed \subseteq everFollowed /\ everFollowed \subseteq Authors
      /\ lastSynced \in [Authors -> Nat] /\ relays \subseteq RelayURLs
  BY DEF StoreTypeOK
<1>1. CASE StoreFails(w)
  <2>1. StoreTypeOK'
    BY <1>0, <1>1, StoreStep DEF StoreFails
  <2> QED BY <1>0, <1>1, <2>1 DEF StoreFails, Done, Leave, tables
<1>2. CASE PartialMeta(w)
  <2>1. PICK S \in SUBSET WantedMetas(w) : ReceiveMeta(w, S) /\ Mishap("partial")
    BY <1>2 DEF PartialMeta
  <2>2. StoreTypeOK' /\ BatchTypeOK'
    BY <2>1, ReceiveMetaType
  <2> QED BY <2>1, <2>2 DEF ReceiveMeta, tables
<1>3. CASE CommandDies(w)
  <2>1. StoreTypeOK'
    BY <1>0, <1>3, StoreStep DEF CommandDies
  <2> QED BY <1>0, <1>3, <2>1 DEF CommandDies, Stop, Leave, NoMark, tables
<1>4. ASSUME NEW r \in RelayURLs, PartialAnswer(w, r) PROVE TypeOK'
  <2>1. PICK S \in SUBSET Asked(w, r) : Receive(w, r, S) /\ Mishap("partial")
    BY <1>4 DEF PartialAnswer
  <2>2. StoreTypeOK'
    BY <1>0, <2>1, StoreStep DEF Receive
  <2> QED BY <1>0, <2>1, <2>2 DEF Receive, Asked, Wanted, tables
<1>5. ASSUME NEW a \in Authors, StartFetch(w, a) PROVE TypeOK'
  <2>1. StoreTypeOK'
    BY <1>0, <1>5, StoreStep DEF StartFetch, Begin
  <2> QED BY <1>0, <1>5, <2>1 DEF StartFetch, Begin, tables
<1> QED BY <1>1, <1>2, <1>3, <1>4, <1>5 DEF BatchMishap

LEMMA LiveStepType ==
    ASSUME TypeOK, EventsAssumption, IngestAssumption,
           \/ Reload \/ ServerStart \/ ServerDies
           \/ \E g \in Slots : ConsumerStep(g) \/ LiveFails(g)
           \/ \E g \in Slots, e \in Events : Push(g, e)
    PROVE  TypeOK'
<1> USE EventsAssumption, IngestAssumption
        DEF TypeOK, BatchTypeOK, LiveTypeOK, Events, network, batch, live, subs, budgets,
            Mishap
<1>0. StoreTypeOK /\ followed \subseteq everFollowed /\ everFollowed \subseteq Authors
      /\ lastSynced \in [Authors -> Nat] /\ relays \subseteq RelayURLs
  BY DEF StoreTypeOK
<1>1. CASE Reload
  <2>1. StoreTypeOK'
    BY <1>0, <1>1, StoreStep DEF Reload
  <2>2. lastKey' \in [relays : SUBSET RelayURLs, authors : SUBSET everFollowed]
    BY <1>0, <1>1 DEF Reload, Key
  <2> DEFINE stopped == [g \in Slots |-> Cancelled(state[g])]
  <2>s. /\ stopped \in [Slots -> {"free", "open", "cancelled"}]
        /\ \A g \in Slots : stopped[g] = "free" => state[g] = "free"
    BY DEF Cancelled
  <2>o. \/ state' = stopped /\ filter' = filter
        \/ \E g \in Slots :
             /\ state' = [stopped EXCEPT ![g] = "open"]
             /\ filter' = [filter EXCEPT ![g] = [relays |-> relays, authors |-> followed]]
    BY <1>1 DEF Reload
  <2> HIDE DEF stopped
  <2>3. /\ state' \in [Slots -> {"free", "open", "cancelled"}]
        /\ \A g \in Slots : state'[g] = "free" => state[g] = "free"
    BY <2>s, <2>o
  <2>4. filter' \in [Slots -> [relays : SUBSET RelayURLs,
                               authors : SUBSET everFollowed]]
    <3> DEFINE Filters == [relays : SUBSET RelayURLs, authors : SUBSET everFollowed]
               f == [relays |-> relays, authors |-> followed]
    <3>1. f \in Filters /\ filter \in [Slots -> Filters]
      BY <1>0
    <3>2. filter' = filter \/ \E g \in Slots : filter' = [filter EXCEPT ![g] = f]
      BY <2>o
    <3> HIDE DEF Filters, f
    <3>3. filter' \in [Slots -> Filters]
      BY <3>1, <3>2
    <3> QED BY <3>3 DEF Filters
  <2>5. LiveTypeOK'
    BY <1>1, <2>2, <2>3, <2>4 DEF Reload, tables
  <2> QED BY <1>1, <2>1, <2>5 DEF Reload, tables
<1>2. CASE ServerStart
  <2>1. StoreTypeOK'
    BY <1>0, <1>2, StoreStep DEF ServerStart
  <2> QED BY <1>0, <1>2, <2>1 DEF ServerStart, tables
<1>3. CASE ServerDies
  <2>1. StoreTypeOK'
    BY <1>0, <1>3, StoreStep DEF ServerDies
  <2>2. BatchTypeOK'
    BY <1>0, <1>3 DEF ServerDies, Stop, Leave, NoMark, tables
  <2>3. LiveTypeOK'
    BY <1>0, <1>3 DEF ServerDies, NoKey, tables
  <2> QED BY <1>0, <1>3, <2>1, <2>2, <2>3 DEF ServerDies, tables
<1>4. ASSUME NEW g \in Slots, LiveUpsert(g) PROVE TypeOK'
  <2>1. StoreTypeOK'
    BY <1>0, <1>4, StoreStep DEF LiveUpsert
  <2> QED BY <1>0, <1>4, <2>1 DEF LiveUpsert, UpsertTorrent
<1>5. ASSUME NEW g \in Slots, LiveMark(g) PROVE TypeOK'
  <2>1. PubkeyOf[event[g]] \in Authors /\ CreatedAt[event[g]] \in Nat
    BY <1>0, <1>5 DEF LiveMark
  <2>2. StoreTypeOK'
    BY <1>0, <1>5, <2>1, StoreStep DEF LiveMark
  <2> QED BY <1>0, <1>5, <2>2 DEF LiveMark, EventDone, UpdateLastSynced
<1>6. ASSUME NEW g \in Slots, LiveProfile(g) PROVE TypeOK'
  <2>1. StoreTypeOK'
    BY <1>0, <1>6, StoreStep DEF LiveProfile
  <2> QED BY <1>0, <1>6, <2>1 DEF LiveProfile, EventDone, UpsertProfile
<1>7. ASSUME NEW g \in Slots, ConsumerEnds(g) PROVE TypeOK'
  <2>1. StoreTypeOK'
    BY <1>0, <1>7, StoreStep DEF ConsumerEnds
  <2> QED BY <1>0, <1>7, <2>1 DEF ConsumerEnds, NoKey, tables
<1>8. ASSUME NEW g \in Slots, LiveFails(g) PROVE TypeOK'
  <2>1. StoreTypeOK'
    BY <1>0, <1>8, StoreStep DEF LiveFails
  <2> QED BY <1>0, <1>8, <2>1 DEF LiveFails, EventDone, tables
<1>9. ASSUME NEW g \in Slots, NEW e \in Events, Push(g, e) PROVE TypeOK'
  <2>1. StoreTypeOK'
    BY <1>0, <1>9, StoreStep DEF Push
  <2> QED BY <1>0, <1>9, <2>1 DEF Push, tables
<1> QED BY <1>1, <1>2, <1>3, <1>4, <1>5, <1>6, <1>7, <1>8, <1>9 DEF ConsumerStep

LEMMA ModerateType ==
    ASSUME TypeOK, EventsAssumption, IngestAssumption, Moderate PROVE TypeOK'
<1> USE EventsAssumption, IngestAssumption
        DEF TypeOK, BatchTypeOK, LiveTypeOK, Events, network, batch, live, subs, budgets
<1>0. StoreTypeOK /\ followed \subseteq everFollowed /\ everFollowed \subseteq Authors
      /\ relays \subseteq RelayURLs
  BY DEF StoreTypeOK
<1>1. ASSUME NEW a \in Authors, FollowAdd(a) \/ FollowRm(a) PROVE TypeOK'
  <2>1. StoreTypeOK' /\ everFollowed \subseteq everFollowed'
    BY <1>0, <1>1, StoreStep DEF FollowAdd, FollowRm
  <2> QED BY <1>0, <1>1, <2>1 DEF FollowAdd, FollowRm, Command
<1>2. ASSUME NEW a \in Authors, PurgeAsk(a) PROVE TypeOK'
  <2>1. StoreTypeOK'
    BY <1>0, <1>2, StoreStep DEF PurgeAsk
  <2> QED BY <1>0, <1>2, <2>1 DEF PurgeAsk, Resolves, Command, tables
<1>3. ASSUME NEW r \in RelayURLs, RelayAdd(r) \/ RelayRm(r) PROVE TypeOK'
  <2>1. relays \cup {r} \in SUBSET RelayURLs /\ relays \ {r} \in SUBSET RelayURLs
    BY <1>0
  <2>2. StoreTypeOK'
    BY <1>0, <1>3, <2>1, StoreStep DEF RelayAdd, RelayRm, AddRelay, RemoveRelay
  <2> QED BY <1>0, <1>3, <2>2
          DEF RelayAdd, RelayRm, AddRelay, RemoveRelay, SetRelays, Command
<1>4. ASSUME NEW e \in Torrents, TorrentRm(e) \/ TorrentEdit(e) PROVE TypeOK'
  <2>1. StoreTypeOK'
    BY <1>0, <1>4, StoreStep DEF TorrentRm, TorrentEdit
  <2> QED BY <1>0, <1>4, <2>1 DEF TorrentRm, TorrentEdit, DeleteTorrent,
             UpdateTorrentFields, SetRows, Command
<1>5. CASE PurgeConfirm
  <2>1. purge \in Authors
    BY <1>0, <1>5 DEF PurgeConfirm
  <2>2. StoreTypeOK'
    BY <1>0, <1>5, <2>1, StoreStep DEF PurgeConfirm
  <2> QED BY <1>0, <1>5, <2>2 DEF PurgeConfirm, DeleteByPubkey, SetRows
<1>6. CASE PurgeCancel
  <2>1. StoreTypeOK'
    BY <1>0, <1>6, StoreStep DEF PurgeCancel
  <2> QED BY <1>0, <1>6, <2>1 DEF PurgeCancel, tables
<1> QED BY <1>1, <1>2, <1>3, <1>4, <1>5, <1>6 DEF Moderate

LEMMA NetworkType ==
    ASSUME TypeOK, EventsAssumption, IngestAssumption, Network PROVE TypeOK'
<1> USE DEF TypeOK, BatchTypeOK, LiveTypeOK, Events, batch, live, subs, budgets
<1>1. StoreTypeOK'
  BY StoreStep DEF Network, Publish, Forget
<1>2. ASSUME NEW e \in Events, NEW S \in SUBSET RelayURLs, Publish(e, S) PROVE TypeOK'
  BY <1>1, <1>2 DEF Publish, tables
<1>3. ASSUME NEW r \in RelayURLs, NEW e \in Events, Forget(r, e) PROVE TypeOK'
  BY <1>1, <1>3 DEF Forget, tables
<1> QED BY <1>2, <1>3 DEF Network

LEMMA NextType ==
    ASSUME TypeOK, EventsAssumption, IngestAssumption, [Next]_vars PROVE TypeOK'
<1>1. CASE UNCHANGED vars
  <2>1. StoreTypeOK'
    BY <1>1, StoreStep DEF TypeOK, vars
  <2> QED BY <1>1, <2>1 DEF TypeOK, BatchTypeOK, LiveTypeOK, vars, tables, network,
                           batch, live, subs, budgets
<1> QED BY <1>1, BatchStepType, BatchMishapType, LiveStepType, ModerateType, NetworkType
        DEF Next

\* The tables and the local state of the batches and the consumers keep their
\* types: in particular a batch only ever holds genuine torrents of the account
\* at hand, and a consumer only events of accounts that were once followed.
THEOREM TypeCorrect == Spec => []TypeOK
  BY EventsAssumption, IngestAssumption, InitType, NextType, PTL DEF Spec

-----------------------------------------------------------------------------
(***************************************************************************)
(* The watermark is witnessed.  The invariant says the same of the copies  *)
(* of the watermark a batch works with (the snapshot seen, the running     *)
(* maximum newest) and that a consumer marks what it has written.          *)
(***************************************************************************)

WitnessInv ==
    /\ \A a \in Authors : Witnessed(stored, a, lastSynced[a])
    /\ \A w \in Workers, a \in Authors : Witnessed(stored, a, seen[w][a])
    /\ \A w \in Workers : cur[w] # None => Witnessed(stored, cur[w], newest[w])
    /\ \A g \in Slots : upserted[g] => event[g] \in stored

\* What a step may do to those values, in the next state.
MarksFrom(S) ==
    /\ stored \subseteq S
    /\ \A a \in Authors : \/ lastSynced'[a] \in {0, lastSynced[a]}
                          \/ Witnessed(S, a, lastSynced'[a])
    /\ \A w \in Workers, a \in Authors :
          seen'[w][a] \in {0, seen[w][a], lastSynced[a]}
    /\ \A w \in Workers : \/ cur'[w] = None
                          \/ cur'[w] = cur[w] /\ newest'[w] \in {0, newest[w]}
                          \/ Witnessed(S, cur'[w], newest'[w])
    /\ \A g \in Slots : upserted'[g] => \/ upserted[g] /\ event'[g] = event[g]
                                       \/ event'[g] \in S

LEMMA WitnessFrame == ASSUME WitnessInv, MarksFrom(stored') PROVE WitnessInv'
  BY DEF WitnessInv, MarksFrom, Witnessed

LEMMA WitnessBatch ==
    ASSUME TypeOK, EventsAssumption, IngestAssumption, WitnessInv, NEW w \in Workers,
           BatchStep(w) \/ BatchMishap(w) \/ \E a \in Authors : StartFetch(w, a)
    PROVE  MarksFrom(stored')
<1> USE EventsAssumption, IngestAssumption
        DEF TypeOK, StoreTypeOK, BatchTypeOK, MarksFrom, tables, live, subs, Done, Leave, Stop, NoMark
<1>1. ASSUME NEW A, Begin(w, A) PROVE MarksFrom(stored')
  BY <1>1 DEF Begin
<1>2. CASE Finish(w)
  BY <1>2 DEF Finish
<1>3. CASE MarkSynced(w)
  <2>1. cur[w] \in Authors /\ Witnessed(stored, cur[w], newest[w])
    BY <1>3 DEF MarkSynced, Storing, WitnessInv
  <2> QED BY <1>3, <2>1 DEF MarkSynced, UpdateLastSynced, Later
<1>4. ASSUME NEW S, ReceiveMeta(w, S) PROVE MarksFrom(stored')
  BY <1>4 DEF ReceiveMeta
<1>5. CASE PutMeta(w)
  BY <1>5 DEF PutMeta, UpsertProfile
<1>6. ASSUME NEW a \in Authors, NextAccount(w, a) PROVE MarksFrom(stored')
  BY <1>6 DEF NextAccount, WitnessInv
<1>7. ASSUME NEW r, NEW S, Receive(w, r, S) PROVE MarksFrom(stored')
  BY <1>7 DEF Receive
<1>8. ASSUME NEW e \in Torrents, StoreNext(w, e) PROVE MarksFrom(stored')
  <2>1. e \in stored' \ Forged /\ PubkeyOf[e] = cur[w] /\ cur[w] # None
    BY <1>8 DEF StoreNext, Consume, UpsertTorrent, Storing
  <2>2. newest'[w] \in {newest[w], CreatedAt[e]}
    BY <1>8 DEF StoreNext, Consume, Later
  <2>3. Witnessed(stored', cur[w], newest'[w]) \/ newest'[w] = newest[w]
    BY <2>1, <2>2 DEF Witnessed
  <2> QED BY <1>8, <2>3 DEF StoreNext, Consume, UpsertTorrent
<1>9. CASE StoreFails(w)
  BY <1>9 DEF StoreFails
<1>10. CASE CommandDies(w)
  BY <1>10 DEF CommandDies
<1> QED BY <1>1, <1>2, <1>3, <1>4, <1>5, <1>6, <1>7, <1>8, <1>9, <1>10
        DEF BatchStep, BatchMishap, StartSync, StartFetch, FetchMeta, PartialMeta,
            Answer, PartialAnswer

LEMMA WitnessLive ==
    ASSUME TypeOK, EventsAssumption, IngestAssumption, WitnessInv,
           \/ Reload \/ ServerStart \/ ServerDies
           \/ \E g \in Slots : ConsumerStep(g) \/ LiveFails(g)
           \/ \E g \in Slots, e \in Events : Push(g, e)
    PROVE  MarksFrom(stored')
<1> USE EventsAssumption, IngestAssumption
        DEF TypeOK, StoreTypeOK, BatchTypeOK, LiveTypeOK, MarksFrom, tables, batch, subs
<1>1. CASE Reload \/ ServerStart
  BY <1>1 DEF Reload, ServerStart
<1>2. CASE ServerDies
  BY <1>2 DEF ServerDies, Stop, Leave, NoMark
<1>3. ASSUME NEW g \in Slots, LiveUpsert(g) PROVE MarksFrom(stored')
  BY <1>3 DEF LiveUpsert, UpsertTorrent
<1>4. ASSUME NEW g \in Slots, LiveMark(g) PROVE MarksFrom(stored')
  <2>1. event[g] \in stored \ Forged
    BY <1>4 DEF LiveMark, WitnessInv, Events
  <2>2. Witnessed(stored, PubkeyOf[event[g]], CreatedAt[event[g]])
    BY <2>1 DEF Witnessed
  <2> QED BY <1>4, <2>2 DEF LiveMark, UpdateLastSynced, Later, EventDone
<1>5. ASSUME NEW g \in Slots, LiveProfile(g) \/ LiveFails(g) PROVE MarksFrom(stored')
  BY <1>5 DEF LiveProfile, LiveFails, UpsertProfile, EventDone
<1>6. ASSUME NEW g \in Slots, ConsumerEnds(g) PROVE MarksFrom(stored')
  BY <1>6 DEF ConsumerEnds
<1>7. ASSUME NEW g \in Slots, NEW e \in Events, Push(g, e) PROVE MarksFrom(stored')
  BY <1>7 DEF Push, Events
<1> QED BY <1>1, <1>2, <1>3, <1>4, <1>5, <1>6, <1>7 DEF ConsumerStep

LEMMA WitnessOther ==
    ASSUME TypeOK, Moderate \/ Network \/ UNCHANGED vars PROVE MarksFrom(stored')
<1> USE DEF TypeOK, StoreTypeOK, MarksFrom, tables, batch, live, subs
<1>1. CASE Moderate
  BY <1>1 DEF Moderate, FollowAdd, FollowRm, AddFollowed, RemoveFollowed, RelayAdd,
     RelayRm, AddRelay, RemoveRelay, SetRelays, TorrentRm, TorrentEdit, DeleteTorrent,
     UpdateTorrentFields, DeleteByPubkey, SetRows, PurgeAsk, PurgeConfirm, PurgeCancel,
     Command
<1>2. CASE Network
  BY <1>2 DEF Network, Publish, Forget
<1>3. CASE UNCHANGED vars
  BY <1>3 DEF vars
<1> QED BY <1>1, <1>2, <1>3

LEMMA WitnessInvariant == Spec => []WitnessInv
<1>1. Init => WitnessInv
  BY DEF Init, StoreInit, WitnessInv, Witnessed, NoMark
<1>2. TypeOK /\ WitnessInv /\ [Next]_vars => WitnessInv'
  BY EventsAssumption, IngestAssumption, WitnessFrame, WitnessBatch, WitnessLive,
     WitnessOther DEF Next
<1> QED BY <1>1, <1>2, TypeCorrect, PTL DEF Spec

\* Whatever fails, dies or is pushed in whatever order, an account's watermark
\* is 0 or the created_at of a genuine torrent of that account already written.
THEOREM WatermarkIsWitnessed == Spec => []WatermarkWitnessed
<1>1. WitnessInv => WatermarkWitnessed
  BY DEF WitnessInv, WatermarkWitnessed
<1> QED BY <1>1, WitnessInvariant, PTL

-----------------------------------------------------------------------------
(***************************************************************************)
(* No torrent of an account is skipped, whatever happens to the others.    *)
(* First what holds in any environment: the program works on what was      *)
(* published.  Then, for an account that is left alone, everything genuine *)
(* below its watermark, or a copy of it, is written; below what a batch    *)
(* has fetched it is written or still in the batch; and what is not        *)
(* written is on every relay.  That a later publication is not below a     *)
(* watermark already there needs WitnessInv: the watermark is the date of  *)
(* a published torrent.                                                    *)
(***************************************************************************)

Genuine == (published \cap Torrents) \ Forged

NetworkInv ==
    /\ \A r \in RelayURLs : held[r] \subseteq published
    /\ stored \subseteq Genuine
    /\ \A w \in Workers : got[w] \subseteq Genuine
    /\ \A g \in Slots : event[g] \in Torrents => event[g] \in Genuine

\* A step that publishes nothing, in the next state.
FromNetwork ==
    /\ published' = published
    /\ \A r \in RelayURLs : held'[r] \subseteq held[r]
    /\ stored' \subseteq Genuine
    /\ \A w \in Workers : got'[w] \subseteq Genuine
    /\ \A g \in Slots : event'[g] \in Torrents => event'[g] \in Genuine

LEMMA NetworkFrame == ASSUME NetworkInv, FromNetwork PROVE NetworkInv'
  BY DEF NetworkInv, FromNetwork, Genuine

LEMMA NetworkBatch ==
    ASSUME EventsAssumption, IngestAssumption, TypeOK, NetworkInv, NEW w \in Workers,
           BatchStep(w) \/ BatchMishap(w) \/ \E a \in Authors : StartFetch(w, a)
    PROVE  FromNetwork
<1> USE EventsAssumption, IngestAssumption
        DEF TypeOK, StoreTypeOK, BatchTypeOK, FromNetwork, NetworkInv, tables, network, live, subs,
            Done, Leave, Stop
<1>1. ASSUME NEW A, Begin(w, A) PROVE FromNetwork
  BY <1>1 DEF Begin
<1>2. CASE Finish(w) \/ StoreFails(w) \/ CommandDies(w)
  <2>1. Finish(w) => FromNetwork
    BY DEF Finish
  <2>2. StoreFails(w) => FromNetwork
    BY DEF StoreFails
  <2>3. CommandDies(w) => FromNetwork
    BY DEF CommandDies
  <2> QED BY <1>2, <2>1, <2>2, <2>3
<1>3. CASE MarkSynced(w)
  BY <1>3 DEF MarkSynced, UpdateLastSynced
<1>4. ASSUME NEW S, ReceiveMeta(w, S) PROVE FromNetwork
  BY <1>4 DEF ReceiveMeta
<1>5. CASE PutMeta(w)
  BY <1>5 DEF PutMeta, UpsertProfile
<1>6. ASSUME NEW a \in Authors, NextAccount(w, a) PROVE FromNetwork
  BY <1>6 DEF NextAccount
<1>7. ASSUME NEW r \in RelayURLs, NEW S \in SUBSET Asked(w, r), Receive(w, r, S) PROVE FromNetwork
  <2>1. S \subseteq Genuine
    BY DEF Asked, Wanted, Genuine
  <2> QED BY <1>7, <2>1 DEF Receive
<1>8. ASSUME NEW e \in Torrents, StoreNext(w, e) PROVE FromNetwork
  BY <1>8 DEF StoreNext, Consume, UpsertTorrent
<1> QED BY <1>1, <1>2, <1>3, <1>4, <1>5, <1>6, <1>7, <1>8
        DEF BatchStep, BatchMishap, StartSync, StartFetch, FetchMeta, PartialMeta, Answer, PartialAnswer

LEMMA NetworkOther ==
    ASSUME EventsAssumption, IngestAssumption, TypeOK, NetworkInv,
           \/ Reload \/ ServerStart \/ ServerDies \/ Moderate \/ UNCHANGED vars
           \/ \E g \in Slots : ConsumerStep(g) \/ LiveFails(g)
           \/ \E g \in Slots, e \in Events : Push(g, e)
           \/ \E r \in RelayURLs, e \in Events : Forget(r, e)
    PROVE  FromNetwork
<1> USE EventsAssumption, IngestAssumption
        DEF TypeOK, StoreTypeOK, BatchTypeOK, LiveTypeOK, FromNetwork, NetworkInv, tables, network, batch,
            live, subs, Events
<1>1. CASE Reload \/ ServerStart \/ UNCHANGED vars
  BY <1>1 DEF Reload, ServerStart, vars
<1>2. CASE ServerDies
  BY <1>2 DEF ServerDies, Stop, Leave
<1>3. CASE Moderate
  BY <1>3 DEF Moderate, FollowAdd, FollowRm, AddFollowed, RemoveFollowed, RelayAdd,
     RelayRm, AddRelay, RemoveRelay, SetRelays, TorrentRm, TorrentEdit, DeleteTorrent,
     UpdateTorrentFields, DeleteByPubkey, SetRows, PurgeAsk, PurgeConfirm, PurgeCancel,
     Command
<1>4. ASSUME NEW g \in Slots, LiveUpsert(g) PROVE FromNetwork
  BY <1>4 DEF LiveUpsert, UpsertTorrent
<1>5. ASSUME NEW g \in Slots, LiveMark(g) \/ LiveProfile(g) \/ LiveFails(g) PROVE FromNetwork
  <2>1. EventDone(g) /\ stored' = stored
    BY <1>5 DEF LiveMark, LiveProfile, LiveFails, UpdateLastSynced, UpsertProfile
  <2> QED BY <2>1 DEF EventDone, Events
<1>6. ASSUME NEW g \in Slots, ConsumerEnds(g) PROVE FromNetwork
  BY <1>6 DEF ConsumerEnds
<1>7. ASSUME NEW g \in Slots, NEW e \in Events, Push(g, e) PROVE FromNetwork
  <2>1. PICK r \in RelayURLs : e \in held[r]
    BY <1>7 DEF Push
  <2>2. e \in Torrents => e \in Genuine
    BY <1>7, <2>1 DEF Push, Genuine
  <2> QED BY <1>7, <2>2 DEF Push
<1>8. ASSUME NEW r \in RelayURLs, NEW e \in Events, Forget(r, e) PROVE FromNetwork
  BY <1>8 DEF Forget
<1> QED BY <1>1, <1>2, <1>3, <1>4, <1>5, <1>6, <1>7, <1>8 DEF ConsumerStep

LEMMA NetworkPublish ==
    ASSUME TypeOK, NetworkInv, NEW n \in Events, NEW S \in SUBSET RelayURLs, Publish(n, S)
    PROVE  NetworkInv'
  BY DEF Publish, NetworkInv, Genuine, tables, batch, live, subs

LEMMA NetworkInvariant == Spec => []NetworkInv
<1>1. Init => NetworkInv
  BY EventsAssumption DEF Init, StoreInit, NetworkInv, Genuine, Events
<1>2. TypeOK /\ NetworkInv /\ [Next]_vars => NetworkInv'
  BY EventsAssumption, IngestAssumption, NetworkFrame, NetworkBatch, NetworkOther, NetworkPublish
     DEF Next, Network
<1> QED BY <1>1, <1>2, TypeCorrect, PTL DEF Spec

-----------------------------------------------------------------------------
(* One account *)

GenuineOf(a) == {e \in Genuine : PubkeyOf[e] = a}

\* Every torrent of the account that is older than t is in S.
Covers(a, S, t) == \A e \in GenuineOf(a) : CreatedAt[e] < t => e \in S

\* What makes a gap, for any environment: a live event that is marked while an older
\* torrent is not written; an incomplete answer; a torrent that appears after a
\* later one, or not everywhere; one that is dropped before it was written.
LeftAlone(a) ==
    /\ \A g \in Slots : LiveMark(g) /\ PubkeyOf[event[g]] = a
                           => Covers(a, stored, CreatedAt[event[g]])
    /\ \A w \in Workers, r \in RelayURLs : PartialAnswer(w, r) => cur[w] # a
    /\ \A n \in Torrents \ Forged, S \in SUBSET RelayURLs :
          Publish(n, S) /\ PubkeyOf[n] = a
              => S = RelayURLs /\ \A d \in GenuineOf(a) : CreatedAt[d] <= CreatedAt[n]
    /\ \A r \in RelayURLs, e \in Torrents \ Forged :
          Forget(r, e) /\ PubkeyOf[e] = a => e \in stored

Fetched(w) ==
    \A e \in GenuineOf(cur[w]) :
        \/ CreatedAt[e] < newest[w]
        \/ \E d \in got[w] : CreatedAt[e] < CreatedAt[d]
        => e \in stored \cup got[w]

GapInv(a) ==
    /\ \A r \in RelayURLs : GenuineOf(a) \ stored \subseteq held[r]
    /\ Covers(a, stored, lastSynced[a])
    /\ \A w \in Workers : Covers(a, stored, seen[w][a])
    /\ \A w \in Workers : pc[w] = "fetch" /\ cur[w] = a => Fetched(w)

\* A step that publishes nothing, in the next state: each watermark or fetch is an
\* old one or is covered by what is now written.
GapStep(a) ==
    /\ published' = published /\ stored \subseteq stored'
    /\ \A r \in RelayURLs : (GenuineOf(a) \ stored) \cap held[r] \subseteq held'[r]
    /\ \/ lastSynced'[a] \in {0, lastSynced[a]}
       \/ Covers(a, stored', lastSynced'[a])
    /\ \A w \in Workers : seen'[w][a] \in {0, seen[w][a], lastSynced[a]}
    /\ \A w \in Workers : pc'[w] = "fetch" /\ cur'[w] = a =>
          \/ Fetched(w)'
          \/ /\ pc[w] = "fetch" /\ cur'[w] = cur[w]
             /\ newest'[w] = newest[w] /\ got'[w] = got[w]

LEMMA GapFrame ==
    ASSUME EventsAssumption, TypeOK, NEW a \in Authors, GapInv(a), GapStep(a)
    PROVE  GapInv(a)'
<1> USE DEF GapStep
<1>1. Genuine' = Genuine /\ GenuineOf(a)' = GenuineOf(a)
  BY DEF Genuine, GenuineOf
<1>2. Covers(a, stored', 0)
  BY EventsAssumption DEF Covers, Genuine, GenuineOf, Events
<1>3. \A t \in Nat : Covers(a, stored, t) => Covers(a, stored', t)
  BY DEF Covers
<1>4. Covers(a, stored', lastSynced'[a])
  <2>1. lastSynced[a] \in Nat /\ Covers(a, stored, lastSynced[a])
    BY DEF GapInv, TypeOK, StoreTypeOK
  <2> QED BY <1>2, <1>3, <2>1
<1>5. ASSUME NEW w \in Workers PROVE Covers(a, stored', seen'[w][a])
  <2>1. /\ lastSynced[a] \in Nat /\ Covers(a, stored, lastSynced[a])
        /\ seen[w][a] \in Nat /\ Covers(a, stored, seen[w][a])
    BY DEF GapInv, TypeOK, StoreTypeOK, BatchTypeOK
  <2> QED BY <1>2, <1>3, <2>1
<1>6. ASSUME NEW w \in Workers, pc'[w] = "fetch", cur'[w] = a PROVE Fetched(w)'
  <2>1. CASE pc[w] = "fetch" /\ cur'[w] = cur[w] /\ newest'[w] = newest[w] /\ got'[w] = got[w]
    BY <1>1, <1>6, <2>1 DEF GapInv, Fetched
  <2> QED BY <1>6, <2>1
<1>7. \A r \in RelayURLs : GenuineOf(a) \ stored' \subseteq held'[r]
  BY DEF GapInv
<1> QED BY <1>1, <1>4, <1>5, <1>6, <1>7 DEF GapInv, Covers

LEMMA AtWork ==
    ASSUME TypeOK, NEW w \in Workers, pc[w] = "fetch" PROVE cur[w] \in Authors
  BY DEF TypeOK, StoreTypeOK, BatchTypeOK

LEMMA GapBatch ==
    ASSUME EventsAssumption, IngestAssumption, TypeOK, NetworkInv, NEW a \in Authors, GapInv(a),
           LeftAlone(a), NEW w \in Workers,
           BatchStep(w) \/ BatchMishap(w) \/ \E b \in Authors : StartFetch(w, b)
    PROVE  GapStep(a)
<1> USE EventsAssumption, IngestAssumption
        DEF TypeOK, StoreTypeOK, BatchTypeOK, GapStep, tables, network, live, subs,
            Done, Leave, Stop, NoMark
<1>1. ASSUME NEW A, Begin(w, A) PROVE GapStep(a)
  BY <1>1 DEF Begin
<1>2. CASE Finish(w)
  BY <1>2 DEF Finish
<1>3. CASE MarkSynced(w)
  <2>1. cur[w] = a => Covers(a, stored, newest[w])
    BY <1>3 DEF MarkSynced, Storing, Fetched, Covers, GapInv
  <2> QED BY <1>3, <2>1 DEF MarkSynced, Storing, UpdateLastSynced, Later
<1>4. ASSUME NEW S, ReceiveMeta(w, S) PROVE GapStep(a)
  BY <1>4 DEF ReceiveMeta
<1>5. CASE PutMeta(w)
  BY <1>5 DEF PutMeta, UpsertProfile
<1>6. ASSUME NEW b \in Authors, NextAccount(w, b) PROVE GapStep(a)
  <2>1. cur[w] = None /\ got[w] = {}
    BY <1>6 DEF NextAccount, Events
  <2>2. b = a => Fetched(w)'
    BY <1>6, <2>1 DEF NextAccount, Fetched, Covers, Genuine, GenuineOf, GapInv
  <2> QED BY <1>6, <2>2 DEF NextAccount
<1>7. ASSUME NEW r \in RelayURLs, Answer(w, r) PROVE GapStep(a)
  <2>1. CASE cur[w] = a
    <3>1. \A e \in GenuineOf(a) : e \in stored \cup Asked(w, r)
      BY <2>1 DEF GapInv, Covers, Asked, Wanted, Genuine, GenuineOf, Events
    <3>2. Fetched(w)'
      BY <1>7, <2>1, <3>1 DEF Answer, Receive, Fetched, GenuineOf, Genuine
    <3> QED BY <1>7, <3>2 DEF Answer, Receive
  <2>2. CASE cur[w] # a
    BY <1>7, <2>2 DEF Answer, Receive
  <2> QED BY <2>1, <2>2
<1>8. ASSUME NEW r \in RelayURLs, PartialAnswer(w, r) PROVE GapStep(a)
  <2>1. cur[w] # a
    BY <1>8 DEF LeftAlone
  <2> QED BY <1>8, <2>1 DEF PartialAnswer, Receive
<1>9. ASSUME NEW e \in Torrents, StoreNext(w, e) PROVE GapStep(a)
  <2>1. CASE cur[w] = a
    <3>1. Fetched(w) /\ e \in got[w]
      BY <1>9, <2>1 DEF StoreNext, Storing, Consume, GapInv
    <3>2. newest'[w] \in {newest[w], CreatedAt[e]}
      BY <1>9 DEF StoreNext, Consume, Later
    <3>3. Fetched(w)'
      BY <1>9, <3>1, <3>2 DEF StoreNext, Consume, UpsertTorrent, Fetched, Genuine, GenuineOf
    <3> QED BY <1>9, <3>3 DEF StoreNext, Consume, UpsertTorrent
  <2>2. CASE cur[w] # a
    BY <1>9, <2>2 DEF StoreNext, Consume, UpsertTorrent
  <2> QED BY <2>1, <2>2
<1>10. CASE StoreFails(w)
  BY <1>10 DEF StoreFails
<1>11. CASE CommandDies(w)
  BY <1>11 DEF CommandDies
<1> QED BY <1>1, <1>2, <1>3, <1>4, <1>5, <1>6, <1>7, <1>8, <1>9, <1>10, <1>11
        DEF BatchStep, BatchMishap, StartSync, StartFetch, FetchMeta, PartialMeta

LEMMA GapOther ==
    ASSUME EventsAssumption, IngestAssumption, TypeOK, NEW a \in Authors, GapInv(a),
           \/ UNCHANGED vars
           \/ LeftAlone(a) /\ \/ Reload \/ ServerStart \/ ServerDies \/ Moderate
                              \/ \E g \in Slots : ConsumerStep(g) \/ LiveFails(g)
                              \/ \E g \in Slots, e \in Events : Push(g, e)
                              \/ \E r \in RelayURLs, e \in Events : Forget(r, e)
    PROVE  GapStep(a)
<1> USE EventsAssumption, IngestAssumption
        DEF TypeOK, StoreTypeOK, BatchTypeOK, GapStep, tables, network, batch, live, subs
<1>1. CASE Reload \/ ServerStart \/ UNCHANGED vars
  BY <1>1 DEF Reload, ServerStart, vars
<1>2. CASE ServerDies
  BY <1>2 DEF ServerDies, Stop, Leave, NoMark
<1>3. CASE Moderate
  BY <1>3 DEF Moderate, FollowAdd, FollowRm, AddFollowed, RemoveFollowed, RelayAdd,
     RelayRm, AddRelay, RemoveRelay, SetRelays, TorrentRm, TorrentEdit, DeleteTorrent,
     UpdateTorrentFields, DeleteByPubkey, SetRows, PurgeAsk, PurgeConfirm, PurgeCancel,
     Command
<1>4. ASSUME NEW g \in Slots, LiveUpsert(g) PROVE GapStep(a)
  BY <1>4 DEF LiveUpsert, UpsertTorrent
<1>5. ASSUME NEW g \in Slots, LeftAlone(a), LiveMark(g) PROVE GapStep(a)
  <2>1. PubkeyOf[event[g]] = a => Covers(a, stored, CreatedAt[event[g]])
    BY <1>5 DEF LeftAlone
  <2> QED BY <1>5, <2>1 DEF LiveMark, EventDone, UpdateLastSynced, Later
<1>6. ASSUME NEW g \in Slots, LiveProfile(g) \/ LiveFails(g) \/ ConsumerEnds(g) PROVE GapStep(a)
  BY <1>6 DEF LiveProfile, LiveFails, ConsumerEnds, EventDone, UpsertProfile
<1>7. ASSUME NEW g \in Slots, NEW e \in Events, Push(g, e) PROVE GapStep(a)
  BY <1>7 DEF Push
<1>8. ASSUME NEW r \in RelayURLs, NEW e \in Events, LeftAlone(a), Forget(r, e) PROVE GapStep(a)
  <2>1. e \notin GenuineOf(a) \ stored
    BY <1>8 DEF LeftAlone, GenuineOf, Genuine
  <2> QED BY <1>8, <2>1 DEF Forget
<1> QED BY <1>1, <1>2, <1>3, <1>4, <1>5, <1>6, <1>7, <1>8 DEF ConsumerStep

\* A new torrent is not older than what was published, so not below any mark.
LEMMA GapPublish ==
    ASSUME EventsAssumption, IngestAssumption, TypeOK, WitnessInv, NetworkInv,
           NEW a \in Authors, GapInv(a), LeftAlone(a),
           NEW n \in Events, NEW S \in SUBSET RelayURLs, Publish(n, S)
    PROVE  GapInv(a)'
<1> USE EventsAssumption, IngestAssumption DEF TypeOK, StoreTypeOK, BatchTypeOK
<1> DEFINE new == n \in Torrents \ Forged /\ PubkeyOf[n] = a
<1>1. /\ published' = published \cup {n} /\ UNCHANGED <<tables, batch, live>>
      /\ \A r \in RelayURLs : held'[r] = IF r \in S THEN held[r] \cup {n} ELSE held[r]
  BY DEF Publish
<1>2. GenuineOf(a)' = IF new THEN GenuineOf(a) \cup {n} ELSE GenuineOf(a)
  BY <1>1 DEF GenuineOf, Genuine
<1>3. new => S = RelayURLs /\ \A d \in GenuineOf(a) : CreatedAt[d] <= CreatedAt[n]
  BY DEF LeftAlone
<1> HIDE DEF new
<1>4. ASSUME NEW r \in RelayURLs PROVE GenuineOf(a)' \ stored' \subseteq held'[r]
  <2>1. GenuineOf(a) \ stored \subseteq held[r] /\ stored' = stored
    BY <1>1 DEF GapInv, tables
  <2>2. held'[r] = IF r \in S THEN held[r] \cup {n} ELSE held[r]
    BY <1>1
  <2>3. new => r \in S
    BY <1>3
  <2> QED BY <1>2, <2>1, <2>2, <2>3
<1>5. ASSUME NEW t \in Nat, Witnessed(stored, a, t), Covers(a, stored, t)
      PROVE  \A e \in GenuineOf(a)' : CreatedAt[e] < t => e \in stored
  <2>1. t > 0 => \E d \in GenuineOf(a) : CreatedAt[d] = t
    BY <1>5 DEF Witnessed, NetworkInv, GenuineOf, Genuine
  <2>2. CreatedAt[n] \in Nat \ {0}
    OBVIOUS
  <2>3. new => ~(CreatedAt[n] < t)
    BY <1>3, <2>1, <2>2
  <2> QED BY <1>2, <1>5, <2>3 DEF Covers
<1>6. Covers(a, stored, lastSynced[a])'
  BY <1>1, <1>5 DEF GapInv, WitnessInv, tables, Covers
<1>7. ASSUME NEW w \in Workers PROVE Covers(a, stored, seen[w][a])'
  BY <1>1, <1>5 DEF GapInv, WitnessInv, tables, batch, Covers
<1>8. ASSUME NEW w \in Workers, pc'[w] = "fetch", cur'[w] = a PROVE Fetched(w)'
  <2>1. pc[w] = "fetch" /\ cur[w] = a /\ Fetched(w) /\ newest[w] \in Nat
    BY <1>1, <1>8 DEF GapInv, batch
  <2>2. newest[w] > 0 => \E d \in GenuineOf(a) : CreatedAt[d] = newest[w]
    BY <2>1 DEF WitnessInv, Witnessed, NetworkInv, GenuineOf, Genuine
  <2>3. \A d \in got[w] : d \in GenuineOf(a) /\ CreatedAt[d] \in Nat
    BY <2>1 DEF NetworkInv, GenuineOf, Genuine, Events
  <2>4. new => /\ ~(CreatedAt[n] < newest[w])
               /\ \A d \in got[w] : ~(CreatedAt[n] < CreatedAt[d])
    BY <1>3, <2>1, <2>2, <2>3
  <2>5. ASSUME NEW e \in GenuineOf(a)',
               CreatedAt[e] < newest[w] \/ \E d \in got[w] : CreatedAt[e] < CreatedAt[d]
        PROVE  e \in stored \cup got[w]
    <3>1. e \in GenuineOf(a)
      BY <1>2, <2>4, <2>5
    <3> QED BY <2>1, <2>5, <3>1 DEF Fetched
  <2>6. cur'[w] = a /\ newest'[w] = newest[w] /\ got'[w] = got[w] /\ stored' = stored
    BY <1>1, <1>8 DEF batch, tables
  <2> QED BY <2>5, <2>6 DEF Fetched
<1> QED BY <1>4, <1>6, <1>7, <1>8 DEF GapInv

LEMMA GapInit == ASSUME Init, NEW a \in Authors PROVE GapInv(a)
  BY EventsAssumption DEF Init, StoreInit, GapInv, GenuineOf, Genuine, Covers, NoMark

LEMMA GapNext ==
    ASSUME TypeOK, WitnessInv, NetworkInv, NEW a \in Authors, GapInv(a),
           UNCHANGED vars \/ (Next /\ LeftAlone(a))
    PROVE  GapInv(a)'
<1> USE EventsAssumption, IngestAssumption
<1>1. ASSUME GapStep(a) PROVE GapInv(a)'
  BY <1>1, GapFrame
<1>2. CASE UNCHANGED vars
  BY <1>1, <1>2, GapOther
<1>3. ASSUME LeftAlone(a), NEW w \in Workers,
             BatchStep(w) \/ BatchMishap(w) \/ \E b \in Authors : StartFetch(w, b)
      PROVE  GapInv(a)'
  BY <1>1, <1>3, GapBatch
<1>4. ASSUME LeftAlone(a),
             \/ Reload \/ ServerStart \/ ServerDies \/ Moderate
             \/ \E g \in Slots : ConsumerStep(g) \/ LiveFails(g)
             \/ \E g \in Slots, e \in Events : Push(g, e)
             \/ \E r \in RelayURLs, e \in Events : Forget(r, e)
      PROVE  GapInv(a)'
  BY <1>1, <1>4, GapOther
<1>5. ASSUME LeftAlone(a), NEW n \in Events, NEW S \in SUBSET RelayURLs, Publish(n, S)
      PROVE  GapInv(a)'
  BY <1>5, GapPublish
<1> QED BY <1>2, <1>3, <1>4, <1>5 DEF Next, Network

\* NoGap, for the torrents of one account.
NoGapOf(a) ==
    \A r \in RelayURLs : \A e \in (held[r] \cap Torrents) \ Forged :
        PubkeyOf[e] = a /\ CreatedAt[e] < lastSynced[a] => e \in stored

LEMMA NoGapIn == ASSUME NetworkInv, NEW a \in Authors, GapInv(a) PROVE NoGapOf(a)
  BY DEF NetworkInv, GapInv, NoGapOf, Covers, Genuine, GenuineOf

\* Every gap has one of four causes, and all four are about the account itself: in
\* any environment, whatever other accounts suffer, whatever writes are refused and
\* processes die, whatever is pushed live and whatever commands run, the watermark
\* of an account that is left alone never passes a torrent that was not written.
THEOREM GapsHaveCauses ==
    ASSUME NEW a \in Authors
    PROVE  Spec /\ [][LeftAlone(a)]_vars => []NoGapOf(a)
<1>1. Init => GapInv(a)
  BY GapInit
<1>2. TypeOK /\ WitnessInv /\ NetworkInv /\ GapInv(a) /\ [Next]_vars /\ [LeftAlone(a)]_vars
        => GapInv(a)'
  BY GapNext
<1>3. NetworkInv /\ GapInv(a) => NoGapOf(a)
  BY NoGapIn
<1> QED BY <1>1, <1>2, <1>3, TypeCorrect, WitnessInvariant, NetworkInvariant, PTL DEF Spec

-----------------------------------------------------------------------------
(* All accounts, when nothing but refused writes and crashes goes wrong *)

Calm == Env \subseteq {"busy", "crash"}

CalmInv == (\A g \in Slots : event[g] = None) /\ \A a \in Authors : GapInv(a)

\* Then nothing comes live, and every account is left alone.
LEMMA CalmStep ==
    ASSUME Calm, TypeOK, \A g \in Slots : event[g] = None, Next
    PROVE  (\A g \in Slots : event'[g] = None) /\ \A a \in Authors : LeftAlone(a)
<1> USE EventsAssumption, IngestAssumption
<1>1. \A w \in Workers, r \in RelayURLs : ~PartialAnswer(w, r)
  BY DEF Calm, PartialAnswer, Mishap
<1>2. \A r \in RelayURLs, e \in Events : ~Forget(r, e)
  BY DEF Calm, Forget
<1>3. \A g \in Slots : ~LiveUpsert(g) /\ ~LiveMark(g) /\ ~LiveProfile(g) /\ ~LiveFails(g)
  BY DEF LiveUpsert, LiveMark, LiveProfile, LiveFails, Events
<1>4. \A g \in Slots, e \in Events : ~Push(g, e)
  BY DEF Calm, Push
<1>5. \A n \in Events, S \in SUBSET RelayURLs : Publish(n, S) => S = RelayURLs /\ InOrder(n)
  BY DEF Calm, Publish
<1>6. ASSUME NEW a \in Authors PROVE LeftAlone(a)
  BY <1>1, <1>2, <1>3, <1>5 DEF LeftAlone, InOrder, GenuineOf, Genuine, Events
<1>7. ASSUME NEW g \in Slots PROVE event'[g] = None
  <2>1. CASE event' = event
    BY <2>1
  <2>2. CASE ServerDies
    BY <2>2 DEF ServerDies
  <2>3. ASSUME NEW h \in Slots, ConsumerEnds(h) PROVE event'[g] = None
    BY <2>3 DEF ConsumerEnds, TypeOK, LiveTypeOK
  <2>4. ASSUME NEW w \in Workers,
               BatchStep(w) \/ BatchMishap(w) \/ \E a \in Authors : StartFetch(w, a)
        PROVE  event' = event
    BY <2>4 DEF BatchStep, BatchMishap, StartSync, StartFetch, Begin, Finish, MarkSynced, FetchMeta,
       PutMeta, NextAccount, Answer, PartialAnswer, Receive, StoreNext, StoreFails, PartialMeta,
       ReceiveMeta, CommandDies, live, subs
  <2>5. Reload \/ ServerStart \/ Moderate \/ Network => event' = event
    BY DEF Reload, ServerStart, Moderate, FollowAdd, FollowRm, RelayAdd, RelayRm, TorrentRm,
       TorrentEdit, PurgeAsk, PurgeConfirm, PurgeCancel, Command, Network, Publish, Forget, live, subs
  <2> QED BY <1>3, <1>4, <2>1, <2>2, <2>3, <2>4, <2>5 DEF Next, ConsumerStep
<1> QED BY <1>6, <1>7

\* With reconcile, `sync` and `fetch` alone (no live event), relays that answer
\* in full and torrents that appear everywhere in the order of their dates, the
\* watermark never passes a torrent that was not written, whatever writes are
\* refused, processes die or commands run, with any number of batches at work.
THEOREM NothingSkipped == ASSUME Calm PROVE Spec => []NoGap
<1>1. Init => CalmInv
  BY GapInit DEF CalmInv, Init
<1>2. TypeOK /\ WitnessInv /\ NetworkInv /\ CalmInv /\ [Next]_vars => CalmInv'
  <2> SUFFICES ASSUME TypeOK, WitnessInv, NetworkInv, CalmInv, [Next]_vars PROVE CalmInv'
    OBVIOUS
  <2>1. \A a \in Authors : GapInv(a)'
    BY Calm, CalmStep, GapNext DEF CalmInv
  <2>2. \A g \in Slots : event'[g] = None
    BY Calm, CalmStep DEF CalmInv, vars, live, subs
  <2> QED BY <2>1, <2>2 DEF CalmInv
<1>3. NetworkInv /\ CalmInv => NoGap
  <2> SUFFICES ASSUME NetworkInv, CalmInv, NEW r \in RelayURLs,
                      NEW e \in (held[r] \cap Torrents) \ Forged,
                      CreatedAt[e] < lastSynced[PubkeyOf[e]]
               PROVE  e \in stored
    BY DEF NoGap
  <2>1. PubkeyOf[e] \in Authors
    BY EventsAssumption DEF Events
  <2>2. NoGapOf(PubkeyOf[e])
    BY <2>1, NoGapIn DEF CalmInv
  <2> QED BY <2>2 DEF NoGapOf
<1> QED BY <1>1, <1>2, <1>3, TypeCorrect, WitnessInvariant, NetworkInvariant, PTL DEF Spec

-----------------------------------------------------------------------------
(* Action properties *)

\* A batch writes a watermark computed from an old snapshot while a consumer
\* writes newer ones: the watermark of an account that stays followed still
\* never decreases.
THEOREM WatermarkNeverDecreases == Spec => WatermarkMonotone
<1> DEFINE Grows == \A a \in followed \cap followed' : lastSynced'[a] >= lastSynced[a]
<1>1. ASSUME TypeOK, [Next]_vars PROVE Grows
  <2> USE <1>1 DEF TypeOK, StoreTypeOK
  <2>1. CASE UNCHANGED lastSynced
    BY <2>1
  <2>2. CASE \E a \in Authors, t \in Nat : UpdateLastSynced(a, t)
    BY <2>2 DEF UpdateLastSynced, Later
  <2>3. CASE \E a \in Authors : RemoveFollowed(a)
    BY <2>3 DEF RemoveFollowed
  <2>4. ASSUME NEW w \in Workers, MarkSynced(w) PROVE Grows
    <3>1. cur[w] \in Authors /\ newest[w] \in Nat
      BY <2>4 DEF MarkSynced, Storing, BatchTypeOK
    <3> QED BY <2>1, <2>2, <2>4, <3>1 DEF MarkSynced, tables
  <2>5. ASSUME NEW g \in Slots, LiveMark(g) PROVE Grows
    <3>1. PubkeyOf[event[g]] \in Authors /\ CreatedAt[event[g]] \in Nat
      BY <2>5, EventsAssumption DEF LiveMark, Events
    <3> QED BY <2>2, <2>5, <3>1 DEF LiveMark
  <2>6. CASE Moderate
    BY <2>1, <2>3, <2>6 DEF Moderate, FollowAdd, FollowRm, AddFollowed, RelayAdd,
       RelayRm, AddRelay, RemoveRelay, SetRelays, TorrentRm, TorrentEdit, DeleteTorrent,
       UpdateTorrentFields, DeleteByPubkey, SetRows, PurgeAsk, PurgeConfirm,
       PurgeCancel, tables
  <2>7. ASSUME NEW w \in Workers,
               BatchStep(w) \/ BatchMishap(w) \/ \E a \in Authors : StartFetch(w, a)
        PROVE  Grows
    BY <2>1, <2>4, <2>7 DEF BatchStep, BatchMishap, StartSync, StartFetch, Begin,
       NextAccount, Finish, FetchMeta, PartialMeta, ReceiveMeta, PutMeta, UpsertProfile,
       Answer, PartialAnswer, Receive, StoreNext, UpsertTorrent, StoreFails,
       CommandDies, tables
  <2>8. CASE \/ Reload \/ ServerStart \/ ServerDies \/ Network
             \/ \E g \in Slots, e \in Events : Push(g, e)
    BY <2>1, <2>8 DEF Reload, ServerStart, ServerDies, Network, Publish, Forget, Push,
       tables
  <2>9. ASSUME NEW g \in Slots, ConsumerStep(g) \/ LiveFails(g) PROVE Grows
    BY <2>1, <2>5, <2>9 DEF ConsumerStep, LiveUpsert, UpsertTorrent, LiveProfile,
       UpsertProfile, ConsumerEnds, LiveFails, tables
  <2> QED BY <2>1, <2>6, <2>7, <2>8, <2>9 DEF Next, vars, tables
<1>2. TypeOK /\ [Next]_vars => [Grows]_vars
  BY <1>1
<1> QED BY <1>2, TypeCorrect, PTL DEF Spec, WatermarkMonotone

\* A cached profile never goes back to an older kind 0 event, whichever of the
\* batches and the consumers writes it last.
THEOREM ProfileNeverOlder == Spec => ProfileMonotone
<1> DEFINE Kept == \A a \in Authors : profile[a] # None =>
                     profile'[a] # None /\ CreatedAt[profile'[a]] >= CreatedAt[profile[a]]
<1>1. ASSUME TypeOK, [Next]_vars PROVE Kept
  <2> USE <1>1, EventsAssumption DEF TypeOK, StoreTypeOK, Events
  <2>1. CASE UNCHANGED profile
    BY <2>1
  <2>2. CASE \E p \in Metas : UpsertProfile(p)
    BY <2>2 DEF UpsertProfile, NotOlder
  <2>3. ASSUME NEW w \in Workers, PutMeta(w) PROVE Kept
    <3>1. meta[w] \in Metas
      BY <2>3 DEF PutMeta, BatchTypeOK
    <3> QED BY <2>1, <2>2, <2>3, <3>1 DEF PutMeta, tables
  <2>4. CASE Moderate
    BY <2>1, <2>4 DEF Moderate, FollowAdd, FollowRm, AddFollowed, RemoveFollowed,
       RelayAdd, RelayRm, AddRelay, RemoveRelay, SetRelays, TorrentRm, TorrentEdit,
       DeleteTorrent, UpdateTorrentFields, DeleteByPubkey, SetRows, PurgeAsk,
       PurgeConfirm, PurgeCancel, tables
  <2>5. ASSUME NEW w \in Workers,
               BatchStep(w) \/ BatchMishap(w) \/ \E a \in Authors : StartFetch(w, a)
        PROVE  Kept
    BY <2>1, <2>3, <2>5 DEF BatchStep, BatchMishap, StartSync, StartFetch, Begin,
       NextAccount, Finish, MarkSynced, UpdateLastSynced, FetchMeta, PartialMeta,
       ReceiveMeta, Answer, PartialAnswer, Receive, StoreNext, UpsertTorrent,
       StoreFails, CommandDies, tables
  <2>6. CASE \/ Reload \/ ServerStart \/ ServerDies \/ Network
             \/ \E g \in Slots, e \in Events : Push(g, e)
    BY <2>1, <2>6 DEF Reload, ServerStart, ServerDies, Network, Publish, Forget, Push,
       tables
  <2>7. ASSUME NEW g \in Slots, ConsumerStep(g) \/ LiveFails(g) PROVE Kept
    BY <2>1, <2>2, <2>7 DEF ConsumerStep, LiveUpsert, UpsertTorrent, LiveMark,
       UpdateLastSynced, LiveProfile, ConsumerEnds, LiveFails, tables
  <2> QED BY <2>1, <2>4, <2>5, <2>6, <2>7 DEF Next, vars, tables
<1>2. TypeOK /\ [Next]_vars => [Kept]_vars
  BY <1>1
<1> QED BY <1>2, TypeCorrect, PTL DEF Spec, ProfileMonotone

\* What a batch holds for an account is not older than the watermark it read.
SinceInv == \A w \in Workers : \A e \in got[w] : seen[w][cur[w]] <= CreatedAt[e]

LEMMA SinceInvariant == Spec => []SinceInv
<1>1. Init => SinceInv
  BY DEF Init, SinceInv
<1>2. TypeOK /\ SinceInv /\ [Next]_vars => SinceInv'
  <2> SUFFICES ASSUME TypeOK, SinceInv, [Next]_vars PROVE SinceInv'
    OBVIOUS
  <2> USE DEF SinceInv, TypeOK, StoreTypeOK, BatchTypeOK
  <2>1. CASE UNCHANGED batch
    BY <2>1 DEF batch
  <2>2. ASSUME NEW w \in Workers, NEW A, Begin(w, A) PROVE SinceInv'
    <3>1. got[w] = {}
      BY <2>2, EventsAssumption DEF Begin, Events
    <3> QED BY <2>2, <3>1 DEF Begin
  <2>3. ASSUME NEW w \in Workers, NEW a \in Authors, NextAccount(w, a) PROVE SinceInv'
    <3>1. got[w] = {}
      BY <2>3, EventsAssumption DEF NextAccount, Events
    <3> QED BY <2>3, <3>1 DEF NextAccount
  <2>4. ASSUME NEW w \in Workers, NEW r, NEW S \in SUBSET Asked(w, r), Receive(w, r, S)
        PROVE  SinceInv'
    BY <2>4 DEF Receive, Asked, Wanted
  <2>5. ASSUME NEW w \in Workers, NEW e, StoreNext(w, e) PROVE SinceInv'
    BY <2>5 DEF StoreNext, Consume
  <2>6. ASSUME NEW w \in Workers, Done(w) \/ Stop(w) PROVE SinceInv'
    BY <2>6 DEF Done, Stop, Leave
  <2>7. ASSUME NEW w \in Workers, NEW S, ReceiveMeta(w, S) PROVE SinceInv'
    BY <2>6, <2>7 DEF ReceiveMeta
  <2>8. ASSUME NEW w \in Workers, MarkSynced(w) PROVE SinceInv'
    BY <2>8 DEF MarkSynced
  <2>9. ASSUME NEW w \in Workers, BatchStep(w) PROVE SinceInv'
    BY <2>2, <2>3, <2>4, <2>5, <2>6, <2>7, <2>8, <2>9 DEF BatchStep, StartSync, Finish,
       FetchMeta, PutMeta, Answer
  <2>10. ASSUME NEW w \in Workers,
                BatchMishap(w) \/ \E a \in Authors : StartFetch(w, a)
         PROVE  SinceInv'
    BY <2>2, <2>4, <2>6, <2>7, <2>10 DEF BatchMishap, StartFetch, StoreFails,
       PartialMeta, CommandDies, PartialAnswer
  <2>11. CASE ServerDies
    BY <2>6, <2>11, IngestAssumption DEF ServerDies
  <2>12. CASE Reload \/ ServerStart \/ Network \/ Moderate
    BY <2>1, <2>12 DEF Reload, ServerStart, Network, Publish, Forget, Moderate, Command,
       FollowAdd, FollowRm, RelayAdd, RelayRm, TorrentRm, TorrentEdit, PurgeAsk,
       PurgeConfirm, PurgeCancel, batch
  <2>13. ASSUME NEW g \in Slots,
                ConsumerStep(g) \/ LiveFails(g) \/ \E e \in Events : Push(g, e)
         PROVE  SinceInv'
    BY <2>1, <2>13 DEF ConsumerStep, LiveUpsert, LiveMark, LiveProfile, ConsumerEnds,
       LiveFails, EventDone, Push, batch
  <2> QED BY <2>1, <2>9, <2>10, <2>11, <2>12, <2>13 DEF Next, vars
<1> QED BY <1>1, <1>2, TypeCorrect, PTL DEF Spec

\* A moderator's edit is only overwritten by the live subscription or by a batch
\* whose watermark is not past the torrent.
THEOREM OldEditsAreLeftAlone == Spec => OldEditsLeftAlone
<1> DEFINE Justified(e) == \/ \E g \in Slots : event[g] = e
                          \/ \E w \in Workers : /\ cur[w] = PubkeyOf[e]
                                                /\ seen[w][cur[w]] <= CreatedAt[e]
           Kept == \A e \in Torrents : row[e] = "edited" /\ row'[e] = "event" => Justified(e)
<1>1. ASSUME TypeOK, SinceInv, [Next]_vars PROVE Kept
  <2> USE <1>1 DEF TypeOK, StoreTypeOK
  <2>1. CASE UNCHANGED row
    BY <2>1
  <2>2. ASSUME NEW w \in Workers, NEW e \in Torrents, StoreNext(w, e) PROVE Kept
    <3>1. Justified(e)
      BY <2>2 DEF StoreNext, Consume, SinceInv, BatchTypeOK
    <3>2. \A d \in Torrents \ {e} : row'[d] = row[d]
      BY <2>2 DEF StoreNext, UpsertTorrent
    <3> HIDE DEF Justified
    <3> QED BY <3>1, <3>2
  <2>3. ASSUME NEW g \in Slots, LiveUpsert(g) PROVE Kept
    BY <2>3 DEF LiveUpsert, UpsertTorrent
  <2>4. CASE Moderate
    BY <2>1, <2>4 DEF Moderate, FollowAdd, FollowRm, AddFollowed, RemoveFollowed,
       RelayAdd, RelayRm, AddRelay, RemoveRelay, SetRelays, TorrentRm, TorrentEdit,
       DeleteTorrent, UpdateTorrentFields, DeleteByPubkey, SetRows, PurgeAsk,
       PurgeConfirm, PurgeCancel, tables
  <2>5. ASSUME NEW w \in Workers,
               BatchStep(w) \/ BatchMishap(w) \/ \E a \in Authors : StartFetch(w, a)
        PROVE  Kept
    BY <2>1, <2>2, <2>5 DEF BatchStep, BatchMishap, StartSync, StartFetch, Begin,
       NextAccount, Finish, MarkSynced, UpdateLastSynced, FetchMeta, PartialMeta,
       ReceiveMeta, PutMeta, UpsertProfile, Answer, PartialAnswer, Receive, StoreFails,
       CommandDies, tables
  <2>6. CASE \/ Reload \/ ServerStart \/ ServerDies \/ Network
             \/ \E g \in Slots, e \in Events : Push(g, e)
    BY <2>1, <2>6 DEF Reload, ServerStart, ServerDies, Network, Publish, Forget, Push,
       tables
  <2>7. ASSUME NEW g \in Slots, ConsumerStep(g) \/ LiveFails(g) PROVE Kept
    BY <2>1, <2>3, <2>7 DEF ConsumerStep, LiveMark, UpdateLastSynced, LiveProfile,
       UpsertProfile, ConsumerEnds, LiveFails, tables
  <2> QED BY <2>1, <2>4, <2>5, <2>6, <2>7 DEF Next, vars, tables
<1>2. TypeOK /\ SinceInv /\ [Next]_vars
        => [\A e \in Torrents : row[e] = "edited" /\ row'[e] = "event" =>
              \/ \E g \in Slots : event[g] = e
              \/ \E w \in Workers : /\ cur[w] = PubkeyOf[e]
                                    /\ seen[w][cur[w]] <= CreatedAt[e]]_vars
  BY <1>1
<1> HIDE DEF Justified, Kept
<1> QED BY <1>2, TypeCorrect, SinceInvariant, PTL DEF Spec, OldEditsLeftAlone

-----------------------------------------------------------------------------
(* The live subscription *)

\* One consumer at most is subscribed, with the filter of the last reload.
THEOREM OneLiveSubscription == Spec => []OneSubscription
<1>1. Init => OneSubscription
  BY DEF Init, OneSubscription
<1>2. TypeOK /\ OneSubscription /\ [Next]_vars => OneSubscription'
  <2> SUFFICES ASSUME TypeOK, OneSubscription, [Next]_vars PROVE OneSubscription'
    OBVIOUS
  <2> USE DEF OneSubscription
  <2>1. CASE UNCHANGED <<lastKey, state, filter>>
    BY <2>1
  <2>2. CASE Reload
    <3>1. lastKey' = [relays |-> relays, authors |-> followed]
      BY <2>2 DEF Reload, Key
    <3>2. CASE relays = {} \/ followed = {}
      <4>1. \A g \in Slots : state'[g] # "open"
        BY <2>2, <3>2 DEF Reload, Cancelled
      <4> QED BY <4>1
    <3>3. CASE relays # {} /\ followed # {}
      <4> DEFINE stopped == [g \in Slots |-> Cancelled(state[g])]
      <4>0. PICK n \in Slots :
              /\ state' = [stopped EXCEPT ![n] = "open"]
              /\ filter' = [filter EXCEPT ![n] = [relays |-> relays, authors |-> followed]]
        BY <2>2, <3>3 DEF Reload
      <4>1. \A g \in Slots \ {n} : state'[g] # "open"
        BY <4>0 DEF Cancelled
      <4>2. filter'[n] = lastKey'
        BY <3>1, <4>0 DEF TypeOK, LiveTypeOK
      <4>3. lastKey'.relays # {} /\ lastKey'.authors # {}
        BY <3>1, <3>3
      <4> QED BY <4>1, <4>2, <4>3
    <3> QED BY <3>2, <3>3
  <2>3. CASE ServerDies
    BY <2>3 DEF ServerDies
  <2>4. ASSUME NEW g \in Slots, ConsumerEnds(g) PROVE OneSubscription'
    BY <2>4 DEF ConsumerEnds, TypeOK, LiveTypeOK
  <2>5. ASSUME NEW g \in Slots, ConsumerStep(g) \/ LiveFails(g)
        PROVE  OneSubscription'
    BY <2>1, <2>4, <2>5 DEF ConsumerStep, LiveUpsert, LiveMark, LiveProfile, LiveFails,
       EventDone
  <2>6. ASSUME NEW w \in Workers,
               BatchStep(w) \/ BatchMishap(w) \/ \E a \in Authors : StartFetch(w, a)
        PROVE  OneSubscription'
    BY <2>1, <2>6 DEF BatchStep, BatchMishap, StartSync, StartFetch, Begin, NextAccount,
       Finish, MarkSynced, FetchMeta, PartialMeta, ReceiveMeta, PutMeta, Answer,
       PartialAnswer, Receive, StoreNext, StoreFails, CommandDies, live, subs
  <2>7. CASE ServerStart \/ Network \/ Moderate
             \/ \E g \in Slots, e \in Events : Push(g, e)
    BY <2>1, <2>7 DEF ServerStart, Network, Publish, Forget, Push, Moderate, Command,
       FollowAdd, FollowRm, RelayAdd, RelayRm, TorrentRm, TorrentEdit, PurgeAsk,
       PurgeConfirm, PurgeCancel, live, subs
  <2> QED BY <2>1, <2>2, <2>3, <2>5, <2>6, <2>7 DEF Next, vars, live, subs
<1> QED BY <1>1, <1>2, TypeCorrect, PTL DEF Spec

-----------------------------------------------------------------------------
(***************************************************************************)
(* Refinement: the catalogue is additive.  Each step of the ingestion is a *)
(* step of Catalogue or leaves its three variables alone.                  *)
(***************************************************************************)

LEMMA GenuineStored == Spec => [](stored \cap Forged = {})
<1>1. Init => stored \cap Forged = {}
  BY DEF Init, StoreInit
<1>2. TypeOK /\ stored \cap Forged = {} /\ [Next]_vars => (stored \cap Forged = {})'
  <2> SUFFICES ASSUME TypeOK, stored \cap Forged = {}, [Next]_vars
               PROVE  stored' \cap Forged = {}
    OBVIOUS
  <2>1. CASE UNCHANGED stored
    BY <2>1
  <2>2. ASSUME NEW w \in Workers, NEW e \in Torrents, StoreNext(w, e)
        PROVE  stored' \cap Forged = {}
    BY <2>2 DEF StoreNext, Consume, UpsertTorrent, TypeOK, BatchTypeOK
  <2>3. ASSUME NEW g \in Slots, LiveUpsert(g) PROVE stored' \cap Forged = {}
    BY <2>3, EventsAssumption DEF LiveUpsert, UpsertTorrent, TypeOK, LiveTypeOK, Events
  <2>4. CASE Moderate
    BY <2>1, <2>4 DEF Moderate, FollowAdd, FollowRm, AddFollowed, RemoveFollowed,
       RelayAdd, RelayRm, AddRelay, RemoveRelay, SetRelays, TorrentRm, TorrentEdit,
       DeleteTorrent, UpdateTorrentFields, DeleteByPubkey, SetRows, PurgeAsk,
       PurgeConfirm, PurgeCancel, tables
  <2>5. ASSUME NEW w \in Workers,
               BatchStep(w) \/ BatchMishap(w) \/ \E a \in Authors : StartFetch(w, a)
        PROVE  stored' \cap Forged = {}
    BY <2>1, <2>2, <2>5 DEF BatchStep, BatchMishap, StartSync, StartFetch, Begin,
       NextAccount, Finish, MarkSynced, UpdateLastSynced, FetchMeta, PartialMeta,
       ReceiveMeta, PutMeta, UpsertProfile, Answer, PartialAnswer, Receive, StoreFails,
       CommandDies, tables
  <2>6. CASE \/ Reload \/ ServerStart \/ ServerDies \/ Network
             \/ \E g \in Slots, e \in Events : Push(g, e)
    BY <2>1, <2>6 DEF Reload, ServerStart, ServerDies, Network, Publish, Forget, Push,
       tables
  <2>7. ASSUME NEW g \in Slots, ConsumerStep(g) \/ LiveFails(g)
        PROVE  stored' \cap Forged = {}
    BY <2>1, <2>3, <2>7 DEF ConsumerStep, LiveMark, UpdateLastSynced, LiveProfile,
       UpsertProfile, ConsumerEnds, LiveFails, tables
  <2> QED BY <2>1, <2>4, <2>5, <2>6, <2>7 DEF Next, vars, tables
<1> QED BY <1>1, <1>2, TypeCorrect, PTL DEF Spec

\* An upsert of a genuine torrent of a known account collects it.
LEMMA UpsertCollects ==
    ASSUME StoreTypeOK, NEW e \in Torrents \ Forged, PubkeyOf[e] \in everFollowed,
           UpsertTorrent(e), UNCHANGED purge
    PROVE  Additive!Collect(e)
  BY DEF StoreTypeOK, UpsertTorrent, Rows, Additive!Collect

LEMMA BatchRefines ==
    ASSUME EventsAssumption, TypeOK, NEW w \in Workers,
           BatchStep(w) \/ BatchMishap(w) \/ \E a \in Authors : StartFetch(w, a)
    PROVE  [Additive!Next]_Additive!vars
<1>1. CASE UNCHANGED <<row, everFollowed, purge>>
  BY <1>1 DEF Additive!vars, Rows
<1>2. ASSUME NEW e \in Torrents, StoreNext(w, e) PROVE Additive!Next
  <2>1. e \in Torrents \ Forged /\ PubkeyOf[e] \in everFollowed
    BY <1>2, AtWork DEF StoreNext, Storing, Consume, TypeOK, StoreTypeOK, BatchTypeOK
  <2>2. Additive!Collect(e)
    BY <1>2, <2>1, UpsertCollects DEF StoreNext, TypeOK
  <2> QED BY <2>1, <2>2 DEF Additive!Next
<1> QED BY <1>1, <1>2 DEF BatchStep, BatchMishap, StartSync, StartFetch, Begin,
       NextAccount, Finish, MarkSynced, UpdateLastSynced, FetchMeta, PartialMeta,
       ReceiveMeta, PutMeta, UpsertProfile, Answer, PartialAnswer, Receive, StoreFails,
       CommandDies, tables

LEMMA LiveRefines ==
    ASSUME EventsAssumption, TypeOK,
           \/ Reload \/ ServerStart \/ ServerDies \/ Network \/ UNCHANGED vars
           \/ \E g \in Slots : ConsumerStep(g) \/ LiveFails(g)
           \/ \E g \in Slots, e \in Events : Push(g, e)
    PROVE  [Additive!Next]_Additive!vars
<1>1. CASE UNCHANGED <<row, everFollowed, purge>>
  BY <1>1 DEF Additive!vars, Rows
<1>2. ASSUME NEW g \in Slots, LiveUpsert(g) PROVE Additive!Next
  <2>1. event[g] \in Torrents \ Forged /\ PubkeyOf[event[g]] \in everFollowed
    BY <1>2, EventsAssumption DEF LiveUpsert, TypeOK, LiveTypeOK, Events
  <2>2. Additive!Collect(event[g])
    BY <1>2, <2>1, UpsertCollects DEF LiveUpsert, TypeOK
  <2> QED BY <2>1, <2>2 DEF Additive!Next
<1> QED BY <1>1, <1>2 DEF Reload, ServerStart, ServerDies, Network, Publish, Forget,
       Push, ConsumerStep, LiveMark, UpdateLastSynced, LiveProfile, UpsertProfile,
       ConsumerEnds, LiveFails, EventDone, vars, tables

LEMMA ModerateRefines ==
    ASSUME EventsAssumption, TypeOK, stored \cap Forged = {}, Moderate
    PROVE  [Additive!Next]_Additive!vars
<1> USE DEF TypeOK, StoreTypeOK
<1>1. ASSUME NEW a \in Authors, FollowAdd(a) PROVE Additive!Next
  <2>1. Additive!Follow(a)
    BY <1>1 DEF FollowAdd, AddFollowed, Additive!Follow, Rows
  <2> QED BY <2>1 DEF Additive!Next
<1>2. ASSUME NEW a \in Authors, PurgeAsk(a) PROVE Additive!Next
  <2>1. Additive!AskPurge(a)
    BY <1>2 DEF PurgeAsk, Resolves, Additive!AskPurge, Rows, tables
  <2> QED BY <2>1 DEF Additive!Next
<1>3. ASSUME NEW e \in Torrents, TorrentRm(e) PROVE Additive!Next
  <2>1. e \in Torrents \ Forged
    BY <1>3 DEF TorrentRm
  <2>2. Additive!Remove(e)
    BY <1>3 DEF TorrentRm, DeleteTorrent, SetRows, Rows, Additive!Remove
  <2> QED BY <2>1, <2>2 DEF Additive!Next
<1>4. CASE PurgeConfirm
  <2>1. Additive!ConfirmPurge
    BY <1>4 DEF PurgeConfirm, DeleteByPubkey, OfAuthor, SetRows, Rows,
       Additive!ConfirmPurge
  <2> QED BY <2>1 DEF Additive!Next
<1>5. CASE PurgeCancel
  <2>1. Additive!CancelPurge
    BY <1>5 DEF PurgeCancel, Additive!CancelPurge, Rows, tables
  <2> QED BY <2>1 DEF Additive!Next
<1>6. ASSUME NEW e \in Torrents, TorrentEdit(e) PROVE UNCHANGED Additive!vars
  BY <1>6 DEF TorrentEdit, UpdateTorrentFields, SetRows, Rows, Additive!vars
<1>7. ASSUME NEW a \in Authors, FollowRm(a) PROVE UNCHANGED Additive!vars
  BY <1>7 DEF FollowRm, RemoveFollowed, Additive!vars, Rows
<1>8. ASSUME NEW r \in RelayURLs, RelayAdd(r) \/ RelayRm(r) PROVE UNCHANGED Additive!vars
  BY <1>8 DEF RelayAdd, RelayRm, AddRelay, RemoveRelay, SetRelays, Additive!vars, Rows
<1> QED BY <1>1, <1>2, <1>3, <1>4, <1>5, <1>6, <1>7, <1>8 DEF Moderate

\* The ingestion implements the additive catalogue: no batch, consumer, reload,
\* crash or relay takes a torrent out, and none enters that is forged or whose
\* author was never followed.
THEOREM CatalogueIsAdditive == Spec => CatalogueSpec
<1>1. Init => Additive!Init
  BY DEF Init, StoreInit, Additive!Init, Rows
<1>2. TypeOK /\ stored \cap Forged = {} /\ [Next]_vars => [Additive!Next]_Additive!vars
  BY EventsAssumption, BatchRefines, LiveRefines, ModerateRefines DEF Next
<1> QED BY <1>1, <1>2, TypeCorrect, GenuineStored, PTL
        DEF Spec, CatalogueSpec, Additive!Spec
=============================================================================
