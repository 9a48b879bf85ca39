------------------------------ MODULE MCPages ------------------------------
(* A small instance of Pages for TLC: five events in the order of the list, *)
(* t2 and t3 of one second, of 4, 7, -8 (the sum of 12 and 12 in five bits)  *)
(* and 8 units, and one that has no title.  The two edits take t2 out of the *)
(* search or leave it there.                                                 *)
EXTENDS Pages, TLC

CONSTANTS t1, t2, t3, t4, t5, c1, c2, blank, film, song, gone, tag, hash

Event(title, sizes) ==
    [title |-> title, x |-> <<hash>>, t |-> blank, file |-> sizes]

Evts == (t1 :> Event(<<film>>, <<4, blank>>)) @@ (t2 :> Event(<<film>>, <<3, 4>>))
     @@ (t3 :> Event(<<song>>, <<12, 12>>))   @@ (t4 :> Event(<<film, song>>, <<8>>))
     @@ (t5 :> Event(<<>>, <<1>>))
Dates == (t1 :> 5) @@ (t2 :> 4) @@ (t3 :> 4) @@ (t4 :> 2) @@ (t5 :> 1)
Opts == (c1 :> [title |-> gone]) @@ (c2 :> [category |-> tag])
=============================================================================
