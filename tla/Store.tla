------------------------------- MODULE Store -------------------------------
(***************************************************************************)
(* The SQLite tables of internal/store that the ingestion reads and        *)
(* writes, and one operator per Store method that changes them.  Each      *)
(* method is a single statement or a single transaction, so each is atomic *)
(* here; what is not atomic is the code that calls several of them.        *)
(*                                                                         *)
(* A Nostr event is a member of Torrents (kind 2003) or of Metas (kind 0): *)
(* only its author and its created_at are told apart.  A row of the table  *)
(* torrents is "event" when it holds what the event says and "edited" when *)
(* the moderator's title or category replaced it.                          *)
(***************************************************************************)
EXTENDS Integers

CONSTANTS Authors,      \* public keys
          Torrents,     \* ids of kind 2003 events
          Metas,        \* ids of kind 0 events
          RelayURLs,
          PubkeyOf,     \* the author of an event
          CreatedAt,    \* its created_at, as its author's client wrote it
          None

Events == Torrents \cup Metas

ASSUME EventsAssumption ==
    /\ Torrents \cap Metas = {}
    /\ PubkeyOf \in [Events -> Authors]
    /\ CreatedAt \in [Events -> Nat \ {0}]
    /\ None \notin Authors \cup Events

VARIABLES
    relays,      \* table relays
    followed,    \* table followed: its keys
    lastSynced,  \* followed.last_synced_at, 0 where there is no row
    row,         \* table torrents: "absent", "event" or "edited"
    profile,     \* table profiles: the kind 0 event cached for an author
    stored,      \* history: every event ever written to torrents
    everFollowed \* history: every account that ever was followed

tables == <<relays, followed, lastSynced, row, profile, stored, everFollowed>>

Rows == {e \in Torrents : row[e] # "absent"}
OfAuthor(a) == {e \in Torrents : PubkeyOf[e] = a}
Later(t, u) == IF t >= u THEN t ELSE u

StoreInit ==
    /\ relays = {} /\ followed = {} /\ everFollowed = {} /\ stored = {}
    /\ lastSynced = [a \in Authors |-> 0]
    /\ row = [e \in Torrents |-> "absent"]
    /\ profile = [a \in Authors |-> None]

StoreTypeOK ==
    /\ relays \subseteq RelayURLs
    /\ followed \subseteq everFollowed /\ everFollowed \subseteq Authors
    /\ lastSynced \in [Authors -> Nat]
    /\ \A a \in Authors \ followed : lastSynced[a] = 0
    /\ row \in [Torrents -> {"absent", "event", "edited"}]
    /\ stored \subseteq Torrents /\ Rows \subseteq stored
    /\ profile \in [Authors -> Metas \cup {None}]
    /\ \A a \in Authors : profile[a] # None => PubkeyOf[profile[a]] = a

-----------------------------------------------------------------------------
(* Methods the ingestion calls *)

\* INSERT ... ON CONFLICT(id) DO UPDATE: the event's fields replace the row's.
UpsertTorrent(e) ==
    /\ row' = [row EXCEPT ![e] = "event"]
    /\ stored' = stored \cup {e}
    /\ UNCHANGED <<relays, followed, lastSynced, profile, everFollowed>>

\* Mutant: a plain SET last_synced_at = ts.
UpdateLastSyncedPlain(a, ts) ==
    /\ lastSynced' = IF a \in followed THEN [lastSynced EXCEPT ![a] = ts]
                                       ELSE lastSynced
    /\ UNCHANGED <<relays, followed, row, profile, stored, everFollowed>>

\* MAX(last_synced_at, ts) on the row of the account, if there is one.
UpdateLastSynced(a, ts) ==
    /\ lastSynced' = IF a \in followed
                     THEN [lastSynced EXCEPT ![a] = Later(@, ts)]
                     ELSE lastSynced
    /\ UNCHANGED <<relays, followed, row, profile, stored, everFollowed>>

\* Mutant: the WHERE clause is missing.
NotOlderMissing(p, cached) == TRUE

\* The WHERE clause of the upsert: an older kind 0 never replaces a newer one.
NotOlder(p, cached) == cached = None \/ CreatedAt[p] >= CreatedAt[cached]

UpsertProfile(p) ==
    LET a == PubkeyOf[p] IN
    /\ profile' = IF NotOlder(p, profile[a])
                  THEN [profile EXCEPT ![a] = p]
                  ELSE profile
    /\ UNCHANGED <<relays, followed, lastSynced, row, stored, everFollowed>>

-----------------------------------------------------------------------------
(* Methods the moderator's commands call *)

\* A new row starts at 0; a row already there keeps its last_synced_at.
AddFollowed(a) ==
    /\ followed' = followed \cup {a}
    /\ everFollowed' = everFollowed \cup {a}
    /\ UNCHANGED <<relays, lastSynced, row, profile, stored>>

\* Mutant: the account is only hidden, its watermark survives it.
RemoveFollowedKeepsMark(a) ==
    /\ followed' = followed \ {a}
    /\ UNCHANGED <<relays, lastSynced, row, profile, stored, everFollowed>>

\* Mutant: the torrents of the account go with it, as by ON DELETE CASCADE.
RemoveFollowedCascades(a) ==
    /\ followed' = followed \ {a}
    /\ lastSynced' = [lastSynced EXCEPT ![a] = 0]
    /\ row' = [e \in Torrents |-> IF e \in OfAuthor(a) THEN "absent" ELSE row[e]]
    /\ UNCHANGED <<relays, profile, stored, everFollowed>>

\* The row goes, and its last_synced_at with it; the torrents stay.
RemoveFollowed(a) ==
    /\ followed' = followed \ {a}
    /\ lastSynced' = [lastSynced EXCEPT ![a] = 0]
    /\ UNCHANGED <<relays, row, profile, stored, everFollowed>>

SetRelays(R) ==
    /\ relays' = R
    /\ UNCHANGED <<followed, lastSynced, row, profile, stored, everFollowed>>

AddRelay(r)    == SetRelays(relays \cup {r})
RemoveRelay(r) == SetRelays(relays \ {r})

SetRows(S, value) ==
    /\ row' = [e \in Torrents |-> IF e \in S THEN value ELSE row[e]]
    /\ UNCHANGED <<relays, followed, lastSynced, profile, stored, everFollowed>>

DeleteTorrent(e)       == SetRows({e}, "absent")
DeleteByPubkey(a)      == SetRows(OfAuthor(a), "absent")
UpdateTorrentFields(e) == SetRows({e}, "edited")
=============================================================================
