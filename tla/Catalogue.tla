----------------------------- MODULE Catalogue -----------------------------
(***************************************************************************)
(* What the catalogue promises, with no relay, no worker and no watermark: *)
(* a torrent enters it one at a time and only if its author was followed,  *)
(* and leaves it only because the moderator removed that torrent or        *)
(* confirmed the purge of its whole author (README "additif par            *)
(* construction", internal/store/persistence_test.go).                     *)
(***************************************************************************)
CONSTANTS Authors, Torrents, PubkeyOf, None

VARIABLES rows,     \* the catalogued torrents
          known,    \* the accounts that have been followed
          purging   \* the account whose purge waits for "y", or None

vars == <<rows, known, purging>>

Init == rows = {} /\ known = {} /\ purging = None

Follow(a) ==
    /\ known' = known \cup {a}
    /\ UNCHANGED <<rows, purging>>

Collect(e) ==
    /\ PubkeyOf[e] \in known
    /\ rows' = rows \cup {e}
    /\ UNCHANGED <<known, purging>>

Remove(e) ==
    /\ e \in rows
    /\ rows' = rows \ {e}
    /\ UNCHANGED <<known, purging>>

AskPurge(a) ==
    /\ purging = None /\ a \in known
    /\ purging' = a
    /\ UNCHANGED <<rows, known>>

ConfirmPurge ==
    /\ purging # None
    /\ rows' = {e \in rows : PubkeyOf[e] # purging}
    /\ purging' = None
    /\ UNCHANGED known

CancelPurge ==
    /\ purging # None
    /\ purging' = None
    /\ UNCHANGED <<rows, known>>

Next ==
    \/ \E a \in Authors : Follow(a) \/ AskPurge(a)
    \/ \E e \in Torrents : Collect(e) \/ Remove(e)
    \/ ConfirmPurge
    \/ CancelPurge

Spec == Init /\ [][Next]_vars
=============================================================================
