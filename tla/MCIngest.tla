----------------------------- MODULE MCIngest -----------------------------
(* Small instances of Ingest for TLC. *)
EXTENDS Ingest

CONSTANTS alice, bob,          \* accounts
          a1, a2, a3, b1,      \* their torrents
          p1, p2, p3,          \* kind 0 events of alice
          srv, cli             \* the reconcile loop, a sync or fetch command

MCPubkeyOf == [e \in Events |-> IF e = b1 THEN bob ELSE alice]

\* a1 and a2 bear the same second: the bound `since` must be inclusive.
MCCreatedAt == [e \in Events |-> CASE e \in {a1, a2, b1, p1} -> 1
                                   [] e \in {a3, p2} -> 2
                                   [] OTHER -> 3]
=============================================================================
