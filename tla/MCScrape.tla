------------------------------ MODULE MCScrape ------------------------------
(* Small instances of Scrape for TLC: a and b are two events for the same   *)
(* infohash on a tracker that answers, c has one that never does, and d      *)
(* shares theirs, or names none.                                            *)
EXTENDS Scrape, TLC

CONSTANTS a, b, c, d, h1, h2, live, dead

Hashes == (a :> h1) @@ (b :> h1) @@ (c :> h2) @@ (d :> h2)
OneDead == (a :> live) @@ (b :> live) @@ (c :> dead) @@ (d :> NoTracker)
ThreeAndDead == (a :> live) @@ (b :> live) @@ (d :> live) @@ (c :> dead)
=============================================================================
