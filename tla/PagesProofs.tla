---------------------------- MODULE PagesProofs ----------------------------
(***************************************************************************)
(* The tables and the pages for any set of torrents, of edits and of       *)
(* dates, ties included.  The first part counts the rows of a list: where  *)
(* LIMIT may take a row and where it must, and that what leaves the list   *)
(* from the pages to come moves no row to those already read.              *)
(***************************************************************************)
EXTENDS SizeProofs

-----------------------------------------------------------------------------
(* Ranks *)

Before(L, e) == {f \in L : Newer(f, e)}
NotAfter(L, e) == {f \in L : ~Newer(e, f)}

LEMMA NewerIsOrder ==
    ASSUME NEW e \in Torrents, NEW f \in Torrents, NEW g \in Torrents
    PROVE  /\ ~Newer(e, e) /\ ~(Newer(e, f) /\ Newer(f, e))
           /\ Newer(e, f) /\ Newer(f, g) => Newer(e, g)
           /\ Newer(e, g) => Newer(e, f) \/ Newer(f, g)
BY PagesAssumption DEF Newer

LEMMA SublistFinite == ASSUME NEW L \in SUBSET Torrents PROVE IsFiniteSet(L)
BY PagesAssumption, FS_Subset

\* A family of sets of torrents has a member that strictly includes no other.
LEMMA Smallest ==
    ASSUME NEW F \in SUBSET SUBSET Torrents, F # {}
    PROVE  \E A \in F : \A B \in F : B \subseteq A => B = A
<1>1. F \subseteq FiniteSubsetsOf(Torrents)
  BY SublistFinite DEF FiniteSubsetsOf
<1>2. \E A \in F : \A B \in F : <<B, A>> \notin StrictSubsetOrdering(Torrents)
  BY <1>1, FS_StrictSubsetOrderingWellFounded, WFMin
<1>3. PICK A \in F : \A B \in F : <<B, A>> \notin StrictSubsetOrdering(Torrents)
  BY <1>2
<1>4. ASSUME NEW B \in F, B \subseteq A PROVE B = A
  BY <1>3, <1>4 DEF StrictSubsetOrdering
<1> QED BY <1>4

LEMMA Newest ==
    ASSUME NEW G \in SUBSET Torrents, G # {}
    PROVE  \E g \in G : \A f \in G : ~Newer(f, g)
<1> DEFINE F == {Before(Torrents, g) : g \in G}
<1>1. F \in SUBSET SUBSET Torrents /\ F # {}
  BY DEF Before
<1>2. PICK A \in F : \A B \in F : B \subseteq A => B = A
  BY <1>1, Smallest
<1>3. PICK g \in G : A = Before(Torrents, g)
  BY <1>2
<1>4. ASSUME NEW f \in G, Newer(f, g) PROVE FALSE
  <2>1. Before(Torrents, f) \subseteq A
    BY <1>3, <1>4, NewerIsOrder DEF Before
  <2>2. f \in A /\ f \notin Before(Torrents, f)
    BY <1>3, <1>4, NewerIsOrder DEF Before
  <2> QED BY <1>2, <2>1, <2>2
<1> QED BY <1>4

LEMMA PositionType ==
    ASSUME NEW L \in SUBSET Torrents, NEW e
    PROVE  Position(L, e) \in Nat /\ Position(L, e) = Cardinality(Before(L, e))
<1>1. Before(L, e) \in SUBSET Torrents
  BY DEF Before
<1> QED BY <1>1, SublistFinite, FS_CardinalityType DEF Position, Before

LEMMA UntilType ==
    ASSUME NEW L \in SUBSET Torrents, NEW e
    PROVE  Until(L, e) \in Nat /\ Until(L, e) = Cardinality(NotAfter(L, e))
<1>1. NotAfter(L, e) \in SUBSET Torrents
  BY DEF NotAfter
<1> QED BY <1>1, SublistFinite, FS_CardinalityType DEF Until, NotAfter

\* A set of rows is smaller than one that has a row more.
LEMMA OneMore ==
    ASSUME NEW A \in SUBSET Torrents, NEW B \in SUBSET Torrents, A \subseteq B,
           NEW e \in B, e \notin A
    PROVE  Cardinality(A) + 1 <= Cardinality(B)
<1>1. IsFiniteSet(A) /\ IsFiniteSet(B)
  BY SublistFinite
<1>2. Cardinality(A \cup {e}) = Cardinality(A) + 1
  BY <1>1, FS_AddElement
<1>3. A \cup {e} \in SUBSET B
  OBVIOUS
<1>4. Cardinality(A \cup {e}) <= Cardinality(B)
  BY <1>1, <1>3, FS_Subset
<1> QED BY <1>2, <1>4

LEMMA HeadType ==
    ASSUME NEW L \in SUBSET Torrents, NEW k \in Nat, NEW T \in Heads(L, k)
    PROVE  /\ T \in SUBSET Torrents /\ IsFiniteSet(T) /\ Ahead(T, L)
           /\ Cardinality(T) \in Nat /\ Cardinality(T) <= k
           /\ T # L => Cardinality(T) = k
<1>1. T \in SUBSET L /\ Ahead(T, L) /\ IF T = L THEN Cardinality(T) <= k ELSE Cardinality(T) = k
  BY DEF Heads
<1>2. IsFiniteSet(T) /\ Cardinality(T) \in Nat
  BY <1>1, SublistFinite, FS_CardinalityType
<1> QED BY <1>1, <1>2

\* LIMIT k takes no row that k others must come before.
LEMMA TakenIsNear ==
    ASSUME NEW L \in SUBSET Torrents, NEW k \in Nat, NEW T \in Heads(L, k), NEW e \in T
    PROVE  Position(L, e) < k
<1>1. T \in SUBSET L /\ Ahead(T, L)
  BY HeadType DEF Heads
<1>2. Before(L, e) \subseteq T
  BY <1>1 DEF Ahead, Before
<1>3. e \notin Before(L, e) /\ Before(L, e) \in SUBSET Torrents /\ T \in SUBSET Torrents
  BY <1>1, <1>2, NewerIsOrder DEF Before
<1>4. Cardinality(Before(L, e)) + 1 <= Cardinality(T)
  BY <1>2, <1>3, OneMore
<1> QED BY <1>4, HeadType, PositionType

\* It takes every row that is within the first k whatever the order of its second.
LEMMA NearIsTaken ==
    ASSUME NEW L \in SUBSET Torrents, NEW k \in Nat, NEW T \in Heads(L, k),
           NEW e \in L, Until(L, e) <= k
    PROVE  e \in T
<1> SUFFICES ASSUME e \notin T PROVE FALSE
  OBVIOUS
<1>1. T \in SUBSET L /\ Ahead(T, L) /\ Cardinality(T) = k
  BY HeadType DEF Heads
<1>2. T \subseteq NotAfter(L, e)
  BY <1>1 DEF Ahead, NotAfter
<1>3. e \in NotAfter(L, e) /\ NotAfter(L, e) \in SUBSET Torrents
  BY NewerIsOrder DEF NotAfter
<1>4. Cardinality(T) + 1 <= Cardinality(NotAfter(L, e))
  BY <1>1, <1>2, <1>3, OneMore
<1> QED BY <1>1, <1>4, UntilType

\* A page that is not full ends the list.
LEMMA LastPage ==
    ASSUME NEW L \in SUBSET Torrents, NEW a \in Nat, NEW b \in Nat, b = a + PageSize,
           NEW T \in Heads(L, a), NEW S \in SUBSET L, S \cap T = {},
           T \cup S \in Heads(L, b), ~HasMore(S)
    PROVE  T \cup S = L
<1> SUFFICES ASSUME T \cup S # L PROVE FALSE
  OBVIOUS
<1>1. T \in SUBSET L /\ T # L
  BY DEF Heads
<1>2. Cardinality(T) = a /\ Cardinality(T \cup S) = b /\ IsFiniteSet(T \cup S)
  BY <1>1, HeadType
<1>3. (T \cup S) \ T = S /\ (T \cup S) \cap T = T
  OBVIOUS
<1>4. Cardinality((T \cup S) \ T) = Cardinality(T \cup S) - Cardinality((T \cup S) \cap T)
  BY <1>2, FS_Difference
<1>5. Cardinality(S) = b - a
  BY <1>2, <1>3, <1>4
<1> QED BY <1>5, PagesAssumption DEF HasMore

\* A list becomes another, and none of its rows that k others need not come before
\* leaves: no other row gets within the first k.
LEMMA NoneMovesUp ==
    ASSUME NEW L \in SUBSET Torrents, NEW M \in SUBSET Torrents, NEW k \in Nat,
           \A f \in L \ M : Position(L, f) >= k,
           NEW e \in L \cap M, Until(M, e) <= k
    PROVE  Until(L, e) <= k
<1>1. \A f \in Torrents : Position(L, f) \in Nat /\ IsFiniteSet(Before(L, f))
                          /\ IsFiniteSet(NotAfter(M, f)) /\ Before(L, f) \in SUBSET Torrents
                          /\ NotAfter(M, f) \in SUBSET Torrents
  <2> TAKE f \in Torrents
  <2>1. Before(L, f) \in SUBSET Torrents /\ NotAfter(M, f) \in SUBSET Torrents
    BY DEF Before, NotAfter
  <2> QED BY <2>1, PositionType, SublistFinite
<1>2. CASE Position(L, e) < k
  <2>1. ASSUME NEW f \in NotAfter(L, e), f \notin M PROVE FALSE
    <3>1. f \in L /\ ~Newer(e, f) /\ Position(L, f) >= k
      BY <2>1 DEF NotAfter
    <3>2. Before(L, f) \in SUBSET Before(L, e)
      BY <3>1, NewerIsOrder DEF Before
    <3>3. Cardinality(Before(L, f)) <= Cardinality(Before(L, e))
      BY <1>1, <3>2, FS_Subset
    <3> QED BY <1>1, <1>2, <3>1, <3>3, PositionType
  <2>2. NotAfter(L, e) \in SUBSET NotAfter(M, e)
    BY <2>1 DEF NotAfter
  <2>3. Cardinality(NotAfter(L, e)) <= Cardinality(NotAfter(M, e))
    BY <1>1, <2>2, FS_Subset
  <2> QED BY <2>3, UntilType
<1>3. CASE Position(L, e) >= k
  <2> DEFINE G == {f \in L : Position(L, f) >= k}
  <2>1. G \in SUBSET Torrents /\ e \in G
    BY <1>3
  <2>2. PICK g \in G : \A f \in G : ~Newer(f, g)
    BY <2>1, Newest
  <2>3. g \in L /\ Position(L, g) >= k /\ ~Newer(e, g)
    BY <2>1, <2>2
  <2>4. ASSUME NEW f \in Before(L, g) PROVE f \in NotAfter(M, e)
    <3>1. f \in L /\ Newer(f, g) /\ ~Newer(e, f)
      BY <2>3, <2>4, NewerIsOrder DEF Before
    <3>2. ~(Position(L, f) >= k)
      BY <2>2, <3>1
    <3> QED BY <3>1, <3>2 DEF NotAfter
  <2>5. e \in NotAfter(M, e) /\ e \notin Before(L, g)
    BY <2>3, NewerIsOrder DEF NotAfter, Before
  <2>6. Cardinality(Before(L, g)) + 1 <= Cardinality(NotAfter(M, e))
    BY <1>1, <2>3, <2>4, <2>5, OneMore
  <2> QED BY <1>1, <2>3, <2>6, UntilType, PositionType
<1>4. Position(L, e) \in Nat
  BY <1>1
<1> QED BY <1>2, <1>3, <1>4
-----------------------------------------------------------------------------
(* The inductive invariant *)

\* What an edit that was not overtaken has read is still in the row.
EditsFresh ==
    \A c \in Cmds : cmd[c] # None /\ ~cmd[c].raced =>
        LET e == cmd[c].id
        IN  row[e] # None /\ cmd[c].title = row[e].title /\ cmd[c].category = row[e].category

\* Between the two statements of GetTorrent.
RowRead ==
    view.at = "row" => /\ view.size = OfEvent(view.id).size
                       /\ view.gone \/ row[view.id] # None

\* What was there all the while is in the list, and was shown if the pages read
\* reach to the end of its second, unless a border went through that second.
Walked ==
    view.at = "walk" =>
        LET L == Listing(view.q, Rows, index)
        IN  /\ view.there \subseteq L
            /\ ~view.moved => \A e \in view.there \ view.split :
                                 Until(L, e) <= view.page * PageSize => e \in view.shown

Reader == RowRead /\ PageWhole /\ Walked /\ WalkComplete

\* The part of TypeOK about the visitor.
ViewOK ==
    /\ view.at \in {"idle", "row", "page", "walk", "end", "cut"}
    /\ view.at = "idle" => view = Idle
    /\ view.at = "row" => view \in Shown
    /\ view.at \in {"walk", "end", "cut"} => view \in Walk

IInv == TypeOK /\ IndexMatches /\ EditsFresh /\ LastWord /\ Reader

LEMMA OfEventTyped ==
    ASSUME NEW e \in Torrents
    PROVE  OfEvent(e) \in Row
BY TextsAssumption DEF OfEvent, ParseTorrent, Row

LEMMA ListingType ==
    ASSUME NEW q, NEW R \in SUBSET Torrents, NEW I
    PROVE  Listing(q, R, I) \in SUBSET Torrents
BY DEF Listing

\* A page, and what it makes of the walk.
LEMMA PageKeepsWalk ==
    ASSUME NEW q \in {"all", "word"}, NEW p \in Nat, NEW shown \in SUBSET Torrents,
           NEW there \in SUBSET Torrents, NEW split \in SUBSET Torrents,
           NEW moved \in BOOLEAN,
           there \subseteq Listing(q, Rows, index),
           ~moved => \A e \in there \ split :
                       Until(Listing(q, Rows, index), e) <= p * PageSize => e \in shown,
           Page(q, p, shown, there, split, moved)
    PROVE  ViewOK' /\ Reader'
<1> DEFINE L == Listing(q, Rows, index)
           a == p * PageSize
           b == (p + 1) * PageSize
           over == split \cup Straddling(L, a)
           v(S, R) == [at |-> IF R # S THEN "cut" ELSE IF HasMore(S) THEN "walk" ELSE "end",
                       q |-> q, page |-> p + 1, shown |-> shown \cup R, there |-> there,
                       split |-> over, moved |-> moved]
<1>0. PICK S \in PagesOf(L, p) : \E R \in Renderings(S) : Visit(v(S, R))
  BY DEF Page
<1>1. PICK R \in Renderings(S) : Visit(v(S, R))
  BY <1>0
<1>2. view' = v(S, R) /\ UNCHANGED <<row, files, index>>
  BY <1>1 DEF Visit
<1>3. Rows' = Rows /\ index' = index
  BY <1>2 DEF Rows
<1>4. L \in SUBSET Torrents /\ over \in SUBSET Torrents /\ R \in SUBSET S
  BY ListingType DEF Rows, Straddling, Renderings
<1>5. a \in Nat /\ b \in Nat /\ b = a + PageSize
  BY PagesAssumption
<1>6. PICK T \in Heads(L, a) : S \cap T = {} /\ T \cup S \in Heads(L, b)
  BY <1>1 DEF PagesOf
<1>7. S \in SUBSET L
  BY <1>1 DEF PagesOf
<1>8. /\ v(S, R).at \in {"walk", "end", "cut"} /\ v(S, R).q = q /\ v(S, R).page = p + 1
      /\ v(S, R).shown = shown \cup R /\ v(S, R).there = there /\ v(S, R).split = over
      /\ v(S, R).moved = moved
      /\ v(S, R).at # "cut" => R = S
      /\ v(S, R).at = "end" => ~HasMore(S)
  OBVIOUS
<1>9. v(S, R) \in Walk
  <2>1. shown \cup R \in SUBSET Torrents
    BY <1>4, <1>7
  <2> HIDE DEF over
  <2> QED BY <1>4, <2>1 DEF Walk
<1> HIDE DEF v
<1>10. ASSUME R = S, ~moved, NEW e \in there \ over, e \in T \cup S PROVE e \in shown \cup R
  <2>1. CASE e \in S
    BY <1>10, <2>1
  <2>2. CASE e \in T
    <3>1. Position(L, e) < a
      <4> HIDE DEF L, a
      <4> QED BY <1>4, <1>5, <1>6, <2>2, TakenIsNear
    <3>2. e \in L /\ ~(a < Until(L, e))
      BY <1>10, <3>1 DEF Straddling
    <3>3. Until(L, e) \in Nat
      BY <1>4, UntilType
    <3>4. Until(L, e) <= a
      <4> HIDE DEF L, a
      <4> QED BY <1>5, <3>2, <3>3
    <3> QED BY <1>10, <3>4
  <2> QED BY <1>10, <2>1, <2>2
<1>11. ASSUME R = S, ~moved, NEW e \in there \ over, Until(L, e) <= b
       PROVE  e \in shown \cup R
  <2>1. e \in L
    BY <1>11
  <2>2. e \in T \cup S
    <3> HIDE DEF L, a, b, over
    <3> QED BY <1>4, <1>5, <1>6, <1>11, <2>1, NearIsTaken
  <2> QED BY <1>10, <1>11, <2>2
<1>12. ASSUME R = S, ~HasMore(S), ~moved, NEW e \in there \ over PROVE e \in shown \cup R
  <2>1. e \in L
    BY <1>12
  <2>2. T \cup S = L
    <3> HIDE DEF L, a, b
    <3> QED BY <1>4, <1>5, <1>6, <1>7, <1>12, LastPage
  <2> QED BY <1>10, <1>12, <2>1, <2>2
<1>13. ViewOK'
  BY <1>2, <1>8, <1>9 DEF ViewOK
<1>14. RowRead' /\ PageWhole'
  BY <1>2, <1>8 DEF RowRead, PageWhole
<1>15. Walked'
  <2>1. (view.there)' = there /\ (view.shown)' = shown \cup R /\ (view.split)' = over
        /\ (view.moved)' = moved /\ (view.page)' = p + 1 /\ (view.q)' = q
        /\ (view.at)' = v(S, R).at
    BY <1>2, <1>8
  <2>2. Listing(view.q, Rows, index)' = L
    BY <1>3, <2>1
  <2>3. ASSUME v(S, R).at = "walk", ~moved, NEW e \in there \ over
        PROVE  Until(L, e) <= (p + 1) * PageSize => e \in shown \cup R
    BY <1>8, <1>11, <2>3
  <2>4. there \subseteq L
    OBVIOUS
  <2> HIDE DEF L, over
  <2> QED BY <2>1, <2>2, <2>3, <2>4 DEF Walked
<1>16. WalkComplete'
  BY <1>2, <1>8, <1>12 DEF WalkComplete
<1> QED BY <1>13, <1>14, <1>15, <1>16 DEF Reader

\* One transaction of a writer, whatever it writes of the row, keeps the page being
\* read and the walk.
LEMMA WriteKeepsReader ==
    ASSUME TypeOK, Reader, NEW e \in Torrents, NEW r, NEW fs,
           Write(e, r, fs)
    PROVE  ViewOK' /\ Reader'
<1> DEFINE R == {f \in Torrents : row'[f] # None}
           L == Listing(view.q, Rows, index)
           M == Listing(view.q, R, index')
<1>1. view' = Watched(e, R, index') /\ R = Rows'
  BY DEF Write, Rows
<1>2. ViewOK
  BY DEF TypeOK, ViewOK
<1>3. \A f \in Torrents : f # e => row'[f] = row[f]
  BY DEF Write, TypeOK
<1>4. CASE view.at = "row"
  <2>1. view \in Shown
    BY <1>2, <1>4 DEF ViewOK
  <2>2. view' = IF view.id = e THEN [view EXCEPT !.gone = view.gone \/ e \notin R] ELSE view
    BY <1>1, <1>4 DEF Watched
  <2>3. /\ view' \in Shown /\ view'.at = "row" /\ view'.id = view.id /\ view'.size = view.size
        /\ view.gone => view'.gone
        /\ view.id = e /\ e \notin R => view'.gone
    BY <2>1, <2>2 DEF Shown
  <2>4. ViewOK' /\ PageWhole' /\ Walked' /\ WalkComplete'
    BY <2>3 DEF ViewOK, PageWhole, Walked, WalkComplete
  <2>5. view.id \in Torrents
    BY <2>1 DEF Shown
  <2>6. view'.gone \/ row'[view.id] # None
    BY <1>3, <1>4, <2>3, <2>5 DEF Reader, RowRead
  <2>7. RowRead'
    BY <1>4, <2>3, <2>6 DEF Reader, RowRead, OfEvent
  <2> QED BY <2>4, <2>7 DEF Reader
<1>5. CASE view.at = "walk"
  <2>1. view \in Walk /\ view.q \in {"all", "word"} /\ view.page \in Nat
        /\ view.there \in SUBSET Torrents /\ view.moved \in BOOLEAN
    BY <1>2, <1>5 DEF ViewOK, Walk
  <2> DEFINE leaves == \E f \in L \ M : Position(L, f) < view.page * PageSize
  <2>2. view' = [view EXCEPT !.there = view.there \cap M, !.moved = view.moved \/ leaves]
    BY <1>1, <1>5 DEF Watched
  <2> HIDE DEF leaves
  <2>3. /\ view' \in Walk /\ view'.at = "walk" /\ view'.q = view.q /\ view'.page = view.page
        /\ view'.shown = view.shown /\ view'.split = view.split
        /\ view'.there = view.there \cap M
        /\ view'.moved = (view.moved \/ leaves)
    <3>1. (view.moved \/ leaves) \in BOOLEAN
      BY <2>1
    <3> QED BY <1>5, <2>1, <2>2, <3>1 DEF Walk
  <2>4. ViewOK' /\ PageWhole' /\ RowRead' /\ WalkComplete'
    BY <2>3 DEF ViewOK, PageWhole, RowRead, WalkComplete
  <2>5. L \in SUBSET Torrents /\ M \in SUBSET Torrents
    BY ListingType DEF Rows
  <2>6. view.page * PageSize \in Nat
    BY <2>1, PagesAssumption
  <2>7. ASSUME ~view.moved, ~leaves, NEW f \in (view.there \cap M) \ view.split,
               Until(M, f) <= view.page * PageSize
        PROVE  f \in view.shown
    <3>1. f \in L
      BY <1>5, <2>7 DEF Reader, Walked
    <3>2. \A g \in L \ M : Position(L, g) >= view.page * PageSize
      <4> TAKE g \in L \ M
      <4>1. ~(Position(L, g) < view.page * PageSize)
        BY <2>7 DEF leaves
      <4> HIDE DEF L, M
      <4>2. Position(L, g) \in Nat
        BY <2>5, PositionType
      <4> QED BY <2>6, <4>1, <4>2
    <3>3. Until(L, f) <= view.page * PageSize
      <4> HIDE DEF L, M
      <4> DEFINE k == view.page * PageSize
      <4> HIDE DEF k
      <4>1. k \in Nat /\ (\A g \in L \ M : Position(L, g) >= k) /\ Until(M, f) <= k
        BY <2>6, <2>7, <3>2 DEF k
      <4>2. Until(L, f) <= k
        BY <2>5, <2>7, <3>1, <4>1, NoneMovesUp
      <4> QED BY <4>2 DEF k
    <3> QED BY <1>5, <2>7, <3>3 DEF Reader, Walked
  <2>8. Listing(view.q, Rows, index)' = M
    BY <1>1, <2>3
  <2>9. Walked'
    <3> HIDE DEF L, M
    <3>1. ~view'.moved => ~view.moved /\ ~leaves
      BY <2>3
    <3> QED BY <2>3, <2>7, <2>8, <3>1 DEF Walked
  <2> QED BY <2>4, <2>9 DEF Reader
<1>6. CASE view.at \notin {"row", "walk"}
  <2>1. view' = view
    BY <1>1, <1>6 DEF Watched
  <2>2. ViewOK'
    BY <1>2, <2>1 DEF ViewOK
  <2>3. RowRead' /\ Walked'
    BY <1>6, <2>1 DEF RowRead, Walked
  <2>4. PageWhole' /\ WalkComplete'
    BY <2>1 DEF Reader, PageWhole, WalkComplete
  <2> QED BY <2>2, <2>3, <2>4 DEF Reader
<1> QED BY <1>4, <1>5, <1>6

\* Steps that touch neither the tables nor the visitor.
LEMMA ReaderUnchanged ==
    ASSUME Reader, ViewOK, UNCHANGED <<row, files, index, view>>
    PROVE  ViewOK' /\ Reader'
<1>1. Rows' = Rows /\ Listing(view.q, Rows, index)' = Listing(view.q, Rows, index)
  BY DEF Rows
<1>2. ViewOK'
  BY DEF ViewOK
<1>3. RowRead' /\ PageWhole' /\ WalkComplete'
  BY DEF Reader, RowRead, PageWhole, WalkComplete
<1>4. Walked'
  BY <1>1 DEF Reader, Walked
<1> QED BY <1>2, <1>3, <1>4 DEF Reader

-----------------------------------------------------------------------------
(* The steps *)

\* What a write of row e puts there: the row with its files, and what history says.
Meant(e, r, l, st) ==
    r # None => /\ r \in Row /\ Accepted(EventOf[e]) /\ r.size = OfEvent(e).size
                /\ l \in Row /\ \A f \in Fields : r[f] = l[f] \/ f \in st

LEMMA WriteKeepsTables ==
    ASSUME TypeOK, IndexMatches, LastWord, EditsFresh,
           NEW e \in Torrents, NEW r \in Row \cup {None},
           NEW l \in Row \cup {None}, NEW st \in SUBSET Fields,
           NEW fs, fs = (IF r = None THEN <<>> ELSE Files(EventOf[e])),
           r = None => l = None, Meant(e, r, l, st),
           Write(e, r, fs),
           last' = [last EXCEPT ![e] = l], stale' = [stale EXCEPT ![e] = st],
           NEW held \in SUBSET Cmds,
           cmd' = [c \in Cmds |-> IF c \in held THEN None ELSE Overtaken(e)[c]],
           ViewOK'
    PROVE  TypeOK' /\ IndexMatches' /\ LastWord' /\ EditsFresh'
<1>1. /\ row' = [row EXCEPT ![e] = r] /\ files' = [files EXCEPT ![e] = fs]
      /\ index' = Reindexed(e, r)
  BY DEF Write
<1>2. /\ row' \in [Torrents -> Row \cup {None}] /\ last' \in [Torrents -> Row \cup {None}]
      /\ stale' \in [Torrents -> SUBSET Fields]
      /\ row'[e] = r /\ last'[e] = l /\ stale'[e] = st
      /\ \A f \in Torrents : f # e => row'[f] = row[f] /\ last'[f] = last[f] /\ stale'[f] = stale[f]
  BY <1>1 DEF TypeOK
<1>3. ASSUME NEW f \in Torrents
      PROVE  /\ files'[f] = IF row'[f] = None THEN <<>> ELSE Files(EventOf[f])
             /\ IF row'[f] = None THEN last'[f] = None
                ELSE Accepted(EventOf[f]) /\ last'[f] # None /\ row'[f].size = OfEvent(f).size
  <2>1. CASE f = e
    <3>1. files'[e] = fs
      BY <1>1 DEF TypeOK
    <3>2. l \in Row => l # None
      BY NoneAssumption
    <3> QED BY <1>2, <2>1, <3>1, <3>2 DEF Meant
  <2>2. CASE f # e
    <3>1. files'[f] = files[f]
      BY <1>1, <2>2 DEF TypeOK
    <3> QED BY <1>2, <2>2, <3>1 DEF TypeOK
  <2> QED BY <2>1, <2>2
<1>4. Overtaken(e) \in [Cmds -> Edit \cup {None}]
      /\ \A c \in Cmds : LET k == Overtaken(e)[c] IN
            k # None => /\ cmd[c] # None /\ k.id = cmd[c].id /\ k.title = cmd[c].title
                        /\ k.category = cmd[c].category
                        /\ ~k.raced => k.id # e /\ ~cmd[c].raced
  <2> SUFFICES ASSUME NEW c \in Cmds, cmd[c] # None
               PROVE  LET k == Overtaken(e)[c] IN
                          /\ k \in Edit /\ k.id = cmd[c].id /\ k.title = cmd[c].title
                          /\ k.category = cmd[c].category
                          /\ ~k.raced => k.id # e /\ ~cmd[c].raced
    BY DEF Overtaken
  <2>1. cmd[c] \in Edit
    BY DEF TypeOK
  <2>2. CASE cmd[c].id = e
    <3>1. Overtaken(e)[c] = [cmd[c] EXCEPT !.raced = TRUE]
      BY <2>2 DEF Overtaken
    <3> QED BY <2>1, <2>2, <3>1 DEF Edit
  <2>3. CASE cmd[c].id # e
    <3>1. Overtaken(e)[c] = cmd[c]
      BY <2>3 DEF Overtaken
    <3> QED BY <2>1, <2>3, <3>1
  <2> QED BY <2>2, <2>3
<1>5. cmd' \in [Cmds -> Edit \cup {None}]
  BY <1>4
<1>6. TypeOK'
  <2>1. ViewOK' => /\ view'.at \in {"idle", "row", "page", "walk", "end", "cut"}
                   /\ view'.at = "idle" => view' = Idle
                   /\ view'.at = "row" => view' \in Shown
                   /\ view'.at \in {"walk", "end", "cut"} => view' \in Walk
    BY DEF ViewOK, Idle, Shown, Walk
  <2>2. files' = [f \in Torrents |-> IF row'[f] = None THEN <<>> ELSE Files(EventOf[f])]
    <3>1. files' = [f \in Torrents |-> files'[f]]
      BY <1>1 DEF TypeOK
    <3> QED BY <1>3, <3>1
  <2> QED BY <1>2, <1>3, <1>5, <2>1, <2>2 DEF TypeOK, OfEvent, Files, Accepted, Row, Edit, Idle, Shown, Walk
<1>7. IndexMatches'
  <2>1. \A f \in Torrents : f \in Rows' <=> (IF f = e THEN r # None ELSE f \in Rows)
    BY <1>2 DEF Rows
  <2>2. Rows' \in SUBSET Torrents /\ Rows \in SUBSET Torrents /\ (e \in Rows <=> row[e] # None)
    BY DEF Rows
  <2>3. \A f \in Torrents : f # e => Doc(f, row'[f]) = Doc(f, row[f])
    BY <1>2
  <2>4. \A d1, d2, f, g : Doc(f, d1) = Doc(g, d2) => f = g
    BY DEF Doc
  <2>5. index' = {Doc(f, row'[f]) : f \in Rows'}
    <3>1. ASSUME NEW d \in index' PROVE d \in {Doc(f, row'[f]) : f \in Rows'}
      BY <1>1, <1>2, <2>1, <2>2, <2>3, <2>4, <3>1 DEF Reindexed, IndexMatches
    <3>2. ASSUME NEW f \in Rows' PROVE Doc(f, row'[f]) \in index'
      BY <1>1, <1>2, <2>1, <2>2, <2>3, <2>4, <3>2 DEF Reindexed, IndexMatches
    <3> QED BY <3>1, <3>2
  <2> QED BY <2>5 DEF IndexMatches, Doc
<1>8. LastWord'
  <2> SUFFICES ASSUME NEW f \in Torrents, row'[f] # None, NEW x \in Fields
               PROVE  row'[f][x] = last'[f][x] \/ x \in stale'[f]
    BY DEF LastWord, Rows
  <2>1. CASE f = e
    BY <1>2, <2>1 DEF Meant
  <2>2. CASE f # e
    BY <1>2, <2>2 DEF LastWord, Rows
  <2> QED BY <2>1, <2>2
<1>9. EditsFresh'
  <2> SUFFICES ASSUME NEW c \in Cmds, cmd'[c] # None, ~cmd'[c].raced
               PROVE  LET f == cmd'[c].id IN
                         row'[f] # None /\ cmd'[c].title = row'[f].title
                             /\ cmd'[c].category = row'[f].category
    BY DEF EditsFresh
  <2>1. cmd'[c] = Overtaken(e)[c]
    OBVIOUS
  <2>2. /\ cmd[c] # None /\ ~cmd[c].raced /\ cmd'[c].id = cmd[c].id /\ cmd[c].id # e
        /\ cmd'[c].title = cmd[c].title /\ cmd'[c].category = cmd[c].category
    BY <1>4, <2>1
  <2>3. cmd[c].id \in Torrents
    BY <2>2, PagesAssumption DEF TypeOK, Edit
  <2> QED BY <1>2, <2>2, <2>3 DEF EditsFresh
<1> QED BY <1>6, <1>7, <1>8, <1>9

LEMMA UpsertKeeps ==
    ASSUME IInv, NEW e \in Torrents, Upsert(e)
    PROVE  IInv'
<1>1. ViewOK' /\ Reader'
  BY WriteKeepsReader DEF IInv, Upsert
<1>2. OfEvent(e) \in Row /\ OfEvent(e) # None
  BY OfEventTyped, NoneAssumption
<1>3. cmd' = [c \in Cmds |-> IF c \in {} THEN None ELSE Overtaken(e)[c]]
  BY DEF Upsert, Overtaken
<1>4. Meant(e, OfEvent(e), OfEvent(e), {})
  BY <1>2 DEF Meant, Upsert
<1>5. TypeOK' /\ IndexMatches' /\ LastWord' /\ EditsFresh'
  <2> DEFINE r == OfEvent(e)
             st == {}
             held == {}
  <2>1. /\ r \in Row \cup {None} /\ r # None /\ Meant(e, r, r, st)
        /\ Write(e, r, Files(EventOf[e]))
        /\ last' = [last EXCEPT ![e] = r] /\ stale' = [stale EXCEPT ![e] = st]
        /\ st \in SUBSET Fields /\ held \in SUBSET Cmds
        /\ cmd' = [c \in Cmds |-> IF c \in held THEN None ELSE Overtaken(e)[c]]
    BY <1>2, <1>3, <1>4 DEF Upsert
  <2> HIDE DEF r, st, held
  <2> QED BY <1>1, <2>1, WriteKeepsTables DEF IInv
<1> QED BY <1>1, <1>5 DEF IInv

LEMMA RemoveKeeps ==
    ASSUME IInv, NEW e \in Torrents, RemoveTorrent(e)
    PROVE  IInv'
<1>1. ViewOK' /\ Reader'
  BY WriteKeepsReader DEF IInv, RemoveTorrent
<1>2. cmd' = [c \in Cmds |-> IF c \in {} THEN None ELSE Overtaken(e)[c]]
  BY DEF RemoveTorrent, Overtaken
<1>3. Meant(e, None, None, {})
  BY DEF Meant
<1>4. /\ Write(e, None, <<>>)
      /\ last' = [last EXCEPT ![e] = None] /\ stale' = [stale EXCEPT ![e] = {}]
  BY DEF RemoveTorrent
<1>5. TypeOK' /\ IndexMatches' /\ LastWord' /\ EditsFresh'
  <2> DEFINE st == {}
             held == {}
  <2>1. /\ Meant(e, None, None, st) /\ Write(e, None, <<>>)
        /\ last' = [last EXCEPT ![e] = None] /\ stale' = [stale EXCEPT ![e] = st]
        /\ st \in SUBSET Fields /\ held \in SUBSET Cmds
        /\ cmd' = [c \in Cmds |-> IF c \in held THEN None ELSE Overtaken(e)[c]]
    BY <1>2, <1>3, <1>4
  <2> HIDE DEF st, held
  <2> QED BY <1>1, <2>1, WriteKeepsTables DEF IInv
<1> QED BY <1>1, <1>5 DEF IInv

LEMMA EditWriteKeeps ==
    ASSUME IInv, NEW c \in Cmds, EditWrite(c)
    PROVE  IInv'
<1> DEFINE e == cmd[c].id
           r == [row[e] EXCEPT !.title = Kept(c, "title"), !.category = Kept(c, "category")]
           l == [f \in DOMAIN last[e] |-> IF Names(c, f) THEN Options[c][f] ELSE last[e][f]]
           st == {f \in Fields : ~Names(c, f) /\ (cmd[c].raced \/ f \in stale[e])}
<1>1. /\ cmd[c] # None /\ row[e] # None /\ Write(e, r, files[e])
      /\ cmd' = [Overtaken(e) EXCEPT ![c] = None]
      /\ last' = [last EXCEPT ![e] = l] /\ stale' = [stale EXCEPT ![e] = st]
  BY DEF EditWrite
<1>2. cmd[c] \in Edit /\ e \in Torrents
  BY <1>1, PagesAssumption DEF IInv, TypeOK, Edit
<1>3. row[e] \in Row /\ last[e] \in Row /\ files[e] = Files(EventOf[e])
      /\ Accepted(EventOf[e]) /\ row[e].size = OfEvent(e).size
  BY <1>1, <1>2 DEF IInv, TypeOK
<1>4. \A f \in Fields : (Names(c, f) => Options[c][f] \in Texts) /\ Kept(c, f) \in Texts
  BY <1>2, TextsAssumption DEF Names, Kept, Fields, Edit
<1>5. r \in Row /\ r.title = Kept(c, "title") /\ r.category = Kept(c, "category")
      /\ r.size = row[e].size
  BY <1>3, <1>4 DEF Row, Fields
<1>6. l \in Row /\ \A f \in Fields : l[f] = IF Names(c, f) THEN Options[c][f] ELSE last[e][f]
  <2>1. DOMAIN last[e] = {"title", "category", "size"}
    BY <1>3 DEF Row
  <2>2. ~Names(c, "size")
    BY TextsAssumption DEF Names
  <2>3. \A f \in Fields : l[f] = IF Names(c, f) THEN Options[c][f] ELSE last[e][f]
    BY <2>1 DEF Fields
  <2>4. l.size = last[e].size /\ l.title \in Texts /\ l.category \in Texts
    BY <1>3, <1>4, <2>1, <2>2, <2>3 DEF Fields, Row
  <2>5. l = [title |-> l.title, category |-> l.category, size |-> l.size]
    BY <2>1
  <2>6. l.size \in {OfEvent(f).size : f \in Torrents}
    BY <1>3, <2>4 DEF Row
  <2> HIDE DEF l
  <2> QED BY <2>3, <2>4, <2>5, <2>6 DEF Row
<1>7. ASSUME NEW f \in Fields PROVE r[f] = l[f] \/ f \in st
  <2>1. r[f] = Kept(c, f)
    BY <1>5 DEF Fields
  <2>2. CASE Names(c, f)
    BY <1>6, <2>1, <2>2 DEF Kept
  <2>3. CASE ~Names(c, f) /\ (cmd[c].raced \/ f \in stale[e])
    BY <2>3
  <2>4. CASE ~Names(c, f) /\ ~cmd[c].raced /\ f \notin stale[e]
    <3>1. row[e].title = cmd[c].title /\ row[e].category = cmd[c].category
      BY <1>1, <2>4 DEF IInv, EditsFresh
    <3>2. row[e][f] = last[e][f]
      BY <1>1, <1>2, <2>4 DEF IInv, LastWord, Rows
    <3>3. r[f] = row[e][f]
      BY <2>1, <2>4, <3>1 DEF Kept, Fields
    <3> QED BY <1>6, <2>4, <3>2, <3>3
  <2> QED BY <2>2, <2>3, <2>4
<1>8. Meant(e, r, l, st)
  <2> HIDE DEF r, l, st
  <2> QED BY <1>3, <1>5, <1>6, <1>7 DEF Meant
<1>9. cmd' = [k \in Cmds |-> IF k \in {c} THEN None ELSE Overtaken(e)[k]]
  BY <1>1 DEF Overtaken
<1>10. st \in SUBSET Fields /\ r # None
  BY <1>5, NoneAssumption
<1> HIDE DEF e, r, l, st
<1>11. ViewOK' /\ Reader'
  BY <1>1, <1>2, WriteKeepsReader DEF IInv
<1>12. TypeOK' /\ IndexMatches' /\ LastWord' /\ EditsFresh'
  BY <1>1, <1>2, <1>3, <1>5, <1>6, <1>8, <1>9, <1>10, <1>11, WriteKeepsTables DEF IInv
<1> QED BY <1>11, <1>12 DEF IInv

\* The steps that leave the tables and the visitor, and those of the visitor.
LEMMA EditKeeps ==
    ASSUME IInv, NEW c \in Cmds, (\E e \in Torrents : EditRead(c, e)) \/ EditEnds(c)
    PROVE  IInv'
<1>1. UNCHANGED <<row, files, index, last, stale, view>>
  BY DEF EditRead, EditEnds
<1>2. ViewOK' /\ Reader'
  BY <1>1, ReaderUnchanged DEF IInv, TypeOK, ViewOK
<1>3. cmd' \in [Cmds -> Edit \cup {None}] /\ EditsFresh'
  <2>1. CASE EditEnds(c)
    <3>1. cmd' = [cmd EXCEPT ![c] = None]
      BY <2>1 DEF EditEnds
    <3> QED BY <1>1, <3>1 DEF IInv, TypeOK, EditsFresh
  <2>2. ASSUME NEW e \in Torrents, EditRead(c, e)
        PROVE  cmd' \in [Cmds -> Edit \cup {None}] /\ EditsFresh'
    <3> DEFINE k == [id |-> e, title |-> row[e].title, category |-> row[e].category,
                     raced |-> FALSE]
    <3>1. row[e] \in Row /\ row[e] # None /\ e \in Moderated /\ cmd' = [cmd EXCEPT ![c] = k]
      BY <2>2 DEF EditRead, IInv, TypeOK
    <3>2. k \in Edit
      BY <3>1 DEF Row, Edit
    <3>3. k.id = e /\ k.title = row[e].title /\ k.category = row[e].category
      OBVIOUS
    <3> HIDE DEF k
    <3>4. cmd' \in [Cmds -> Edit \cup {None}]
      BY <3>1, <3>2 DEF IInv, TypeOK
    <3>5. EditsFresh'
      BY <1>1, <3>1, <3>3 DEF IInv, TypeOK, EditsFresh
    <3> QED BY <3>4, <3>5
  <2> QED BY <2>1, <2>2
<1>4. TypeOK'
  BY <1>1, <1>3 DEF IInv, TypeOK
<1>5. IndexMatches' /\ LastWord'
  BY <1>1 DEF IInv, IndexMatches, LastWord, Rows
<1> QED BY <1>2, <1>3, <1>4, <1>5 DEF IInv

LEMMA TablesUnchanged ==
    ASSUME IInv, UNCHANGED <<row, files, index, cmd, last, stale>>, ViewOK', Reader'
    PROVE  IInv'
<1>1. IndexMatches' /\ LastWord' /\ EditsFresh'
  BY DEF IInv, IndexMatches, LastWord, EditsFresh, Rows
<1>2. /\ view'.at \in {"idle", "row", "page", "walk", "end", "cut"}
      /\ view'.at = "idle" => view' = Idle
      /\ view'.at = "row" => view' \in Shown
      /\ view'.at \in {"walk", "end", "cut"} => view' \in Walk
  BY DEF ViewOK, Idle, Shown, Walk
<1>3. TypeOK'
  BY <1>2 DEF IInv, TypeOK, Idle, Shown, Walk, OfEvent, Row, Edit
<1> QED BY <1>1, <1>3 DEF IInv

LEMMA ReadKeeps ==
    ASSUME IInv, (\E e \in Torrents : ReadRow(e)) \/ ReadFiles \/ Close
    PROVE  IInv'
<1>1. UNCHANGED <<row, files, index, cmd, last, stale>>
  BY DEF ReadRow, ReadFiles, Close, Visit
<1>2. ViewOK' /\ Reader'
  <2>1. CASE Close
    BY <2>1 DEF Close, Visit, Idle, ViewOK, Reader, RowRead, PageWhole, Walked, WalkComplete
  <2>2. CASE ReadFiles
    <3>1. /\ view.at = "row" /\ view'.at = "page" /\ view'.id = view.id
          /\ view'.size = view.size /\ view'.gone = view.gone /\ view'.files = files[view.id]
      BY <2>2 DEF ReadFiles, Visit
    <3>2. view.id \in Torrents
      BY <3>1 DEF IInv, TypeOK, Shown
    <3>3. view.size = Total(Files(EventOf[view.id]))
      BY <3>1 DEF IInv, Reader, RowRead, OfEvent, ParseTorrent
    <3>4. view.gone \/ files[view.id] = Files(EventOf[view.id])
      BY <3>1, <3>2 DEF IInv, Reader, RowRead, TypeOK
    <3>5. PageWhole'
      BY <3>1, <3>3, <3>4 DEF PageWhole
    <3> QED BY <3>1, <3>5 DEF ViewOK, Reader, RowRead, Walked, WalkComplete
  <2>3. ASSUME NEW e \in Torrents, ReadRow(e) PROVE ViewOK' /\ Reader'
    <3>1. row[e] # None /\ view' = [at |-> "row", id |-> e, size |-> row[e].size, gone |-> FALSE]
      BY <2>3 DEF ReadRow, Visit
    <3>2. row[e] \in Row /\ row[e].size = OfEvent(e).size
      BY <3>1 DEF IInv, TypeOK
    <3>3. view' \in Shown
      BY <3>1, <3>2 DEF Row, Shown
    <3>4. RowRead'
      BY <1>1, <3>1, <3>2 DEF RowRead, OfEvent
    <3> QED BY <3>1, <3>3, <3>4 DEF ViewOK, Reader, PageWhole, Walked, WalkComplete
  <2> QED BY <2>1, <2>2, <2>3
<1> QED BY <1>1, <1>2, TablesUnchanged

LEMMA WalkKeeps ==
    ASSUME IInv, NextPage \/ \E q \in {"all", "word"} : Search(q)
    PROVE  IInv'
<1>1. UNCHANGED <<row, files, index, cmd, last, stale>>
  BY DEF NextPage, Search, Page, Visit
<1>2. CASE NextPage
  <2>1. view \in Walk /\ view.at = "walk"
        /\ Page(view.q, view.page, view.shown, view.there, view.split, view.moved)
    BY <1>2 DEF NextPage, IInv, TypeOK
  <2>2. /\ view.q \in {"all", "word"} /\ view.page \in Nat /\ view.shown \in SUBSET Torrents
        /\ view.there \in SUBSET Torrents /\ view.split \in SUBSET Torrents
        /\ view.moved \in BOOLEAN
    BY <2>1 DEF Walk
  <2>3. /\ view.there \subseteq Listing(view.q, Rows, index)
        /\ ~view.moved => \A e \in view.there \ view.split :
              Until(Listing(view.q, Rows, index), e) <= view.page * PageSize => e \in view.shown
    BY <2>1 DEF IInv, Reader, Walked
  <2> QED BY <1>1, <2>1, <2>2, <2>3, PageKeepsWalk, TablesUnchanged
<1>3. ASSUME NEW q \in {"all", "word"}, Search(q) PROVE IInv'
  <2> DEFINE L == Listing(q, Rows, index)
  <2>1. L \in SUBSET Torrents /\ Page(q, 0, {}, L, {}, FALSE)
    BY <1>3, ListingType DEF Search, Rows
  <2>2. ASSUME NEW e \in L PROVE ~(Until(L, e) <= 0 * PageSize)
    <3> HIDE DEF L
    <3>1. e \in NotAfter(L, e) /\ NotAfter(L, e) \in SUBSET Torrents
      BY <2>1, NewerIsOrder DEF NotAfter
    <3>2. Cardinality({}) + 1 <= Cardinality(NotAfter(L, e))
      BY <3>1, OneMore
    <3> QED BY <2>1, <3>2, UntilType, FS_EmptySet, PagesAssumption
  <2>3. ViewOK' /\ Reader'
    BY <2>1, <2>2, PageKeepsWalk
  <2> QED BY <1>1, <2>3, TablesUnchanged
<1> QED BY <1>2, <1>3

LEMMA Inductive == Spec => []IInv
<1>1. Init => IInv
  <2> SUFFICES ASSUME Init PROVE IInv
    OBVIOUS
  <2>1. Rows = {}
    BY DEF Init, Rows
  <2>2. TypeOK
    BY DEF Init, TypeOK, Idle
  <2>3. IndexMatches /\ LastWord /\ EditsFresh
    BY <2>1 DEF Init, IndexMatches, LastWord, EditsFresh
  <2>4. Reader
    BY DEF Init, Idle, Reader, RowRead, PageWhole, Walked, WalkComplete
  <2> QED BY <2>2, <2>3, <2>4 DEF IInv
<1>2. IInv /\ [Next]_vars => IInv'
  <2> SUFFICES ASSUME IInv, [Next]_vars PROVE IInv'
    OBVIOUS
  <2>1. CASE UNCHANGED vars
    <3>1. UNCHANGED <<row, files, index, cmd, last, stale>> /\ UNCHANGED view
      BY <2>1 DEF vars
    <3>2. ViewOK' /\ Reader'
      BY <3>1, ReaderUnchanged DEF IInv, TypeOK, ViewOK
    <3> QED BY <3>1, <3>2, TablesUnchanged
  <2>2. CASE Next
    BY <2>2, UpsertKeeps, RemoveKeeps, EditWriteKeeps, EditKeeps, ReadKeeps, WalkKeeps DEF Next
  <2> QED BY <2>1, <2>2
<1> QED BY <1>1, <1>2, PTL DEF Spec

-----------------------------------------------------------------------------

\* The rows, their files and the commands under way are what the events and the
\* options say they can be, of any set of torrents and edits.
THEOREM PagesTypeCorrect == Spec => []TypeOK
<1>1. IInv => TypeOK BY DEF IInv
<1> QED BY <1>1, Inductive, PTL

\* The triggers keep the search index to the rows, whatever the writers do.
THEOREM IndexFollowsRows == Spec => []IndexMatches
<1>1. IInv => IndexMatches BY DEF IInv
<1> QED BY <1>1, Inductive, PTL

\* A title or a category that is not what was last meant was written back by an
\* edit that another write overtook.
THEOREM OnlyRacesLoseWords == Spec => []LastWord
<1>1. IInv => LastWord BY DEF IInv
<1> QED BY <1>1, Inductive, PTL

\* A torrent's page, read in two statements, has the files its size counts, unless
\* the torrent was removed between them.
THEOREM PageIsWhole == Spec => []PageWhole
<1>1. IInv => PageWhole BY DEF IInv, Reader
<1> QED BY <1>1, Inductive, PTL

\* Whoever follows the links to the end has seen all that stayed in the list, for
\* any length of list and of page and any dates, unless a row left the pages already
\* read, or a border of two pages went through its second.
THEOREM WalkIsComplete == Spec => []WalkComplete
<1>1. IInv => WalkComplete BY DEF IInv, Reader
<1> QED BY <1>1, Inductive, PTL

\* For any units, and any sizes the events declare: a page prints every size the units
\* reach, and any size in the unit that leaves at least 1 and less than Unit of it, div
\* being at most the size.
THEOREM SizesHaveUnits == Spec => []SizesInUnits
<1>1. ASSUME IInv PROVE SizesInUnits
  <2> SUFFICES ASSUME NEW e \in Rows
               PROVE  LET n == row[e].size IN
                        /\ n < Worth[Units] => Printable(n)
                        /\ n >= Unit => Div(n) = Worth[Exp(n)] /\ Div(n) <= n /\ n < Unit * Div(n)
    BY DEF SizesInUnits
  <2> DEFINE n == row[e].size
             k == Len(EventOf[e].file)
  <2>1. n = Total(Files(EventOf[e])) /\ k \in Nat
    BY <1>1, TextsAssumption DEF IInv, TypeOK, Rows, OfEvent, ParseTorrent
  <2>2. Files(EventOf[e]) \in [1..k -> Nat]
    BY IntAssumption DEF Files, Declared
  <2>3. n \in Int
    BY <2>1, <2>2, TotalType, IntAssumption
  <2> HIDE DEF n
  <2>4. ASSUME n >= Unit
        PROVE  Div(n) = Worth[Exp(n)] /\ Div(n) <= n /\ n < Unit * Div(n)
    <3>1. n \in Nat
      BY <2>3, <2>4, SizeAssumption
    <3> QED BY <2>4, <3>1, SizeOf
  <2>5. n < Worth[Units] => Printable(n)
    BY <2>3, PrintableSizes
  <2> QED BY <2>4, <2>5 DEF n
<1> QED BY <1>1, Inductive, PTL
=============================================================================
