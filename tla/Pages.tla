------------------------------- MODULE Pages -------------------------------
(***************************************************************************)
(* The tables a reader of the site sees, and who changes them meanwhile:   *)
(* the ingestion, which writes what ParseTorrent made of an event, and the *)
(* moderator, whose `torrent edit' reads a row and writes it back in two   *)
(* statements.  One visitor reads a torrent's page, statement by           *)
(* statement, or walks through the pages of a list or of a search.         *)
(*                                                                         *)
(* last and stale are history: what the last write that meant a field put  *)
(* there, and the fields that were written back after another write of     *)
(* their row.                                                              *)
(***************************************************************************)
EXTENDS Nip35, FiniteSets

CONSTANTS Torrents,
          Texts,        \* titles and categories
          EventOf,      \* the event of a torrent
          PublishedAt,  \* its created_at
          Moderated,    \* bound: the torrents that are edited
          Cmds,         \* shells that run torrent edit
          Options,      \* the fields each of them names, with their values
          Matching,     \* the texts that hold the word of the search
          PageSize,
          Unit, Units,  \* humanSize: 1024, and how many units it knows
          None

ASSUME PagesAssumption ==
    /\ IsFiniteSet(Torrents) /\ Moderated \subseteq Torrents
    /\ PublishedAt \in [Torrents -> Nat]
    /\ PageSize \in Nat \ {0}

ASSUME TextsAssumption ==
    /\ \A e \in Torrents : /\ First(EventOf[e].title) \in Texts /\ EventOf[e].t \in Texts
                           /\ Len(EventOf[e].file) \in Nat
    /\ \A c \in Cmds : /\ DOMAIN Options[c] \subseteq {"title", "category"}
                       /\ \A f \in DOMAIN Options[c] : Options[c][f] \in Texts

ASSUME SizeAssumption == Unit \in Nat \ {0, 1} /\ Units \in Nat \ {0}

VARIABLES
    row,     \* table torrents, None where there is no row
    files,   \* table torrent_files
    index,   \* torrents_fts
    cmd,     \* what each edit has read, None before
    last, stale,
    view     \* the visitor

vars == <<row, files, index, cmd, last, stale, view>>

Fields == {"title", "category"}
Rows == {e \in Torrents : row[e] # None}
Doc(e, r) == [id |-> e, title |-> r.title, category |-> r.category]
OfEvent(e) == ParseTorrent(EventOf[e])
Idle == [at |-> "idle"]

Init ==
    /\ row = [e \in Torrents |-> None] /\ files = [e \in Torrents |-> <<>>]
    /\ index = {} /\ cmd = [c \in Cmds |-> None]
    /\ last = [e \in Torrents |-> None] /\ stale = [e \in Torrents |-> {}]
    /\ view = Idle

-----------------------------------------------------------------------------
(* The lists *)

\* The row f must come before e: ORDER BY published_at DESC.
Newer(f, e) == PublishedAt[f] > PublishedAt[e]

Matches(d) == d.title \in Matching \/ d.category \in Matching

\* All rows, or those the index joins to the word.
Listing(q, R, I) ==
    IF q = "all" THEN R ELSE {e \in R : \E d \in I : d.id = e /\ Matches(d)}

Position(L, e) == Cardinality({f \in L : Newer(f, e)})

\* The rows T can come first in S: two of one second come in any order, and in
\* another the next time.
Ahead(T, S) == T \subseteq S /\ \A e \in T, f \in S \ T : ~Newer(f, e)

\* The first k rows of L, or all of them.
Heads(L, k) ==
    {T \in SUBSET L : Ahead(T, L) /\ IF T = L THEN Cardinality(T) <= k ELSE Cardinality(T) = k}

\* LIMIT pageSize OFFSET p * pageSize.
PagesOf(L, p) ==
    {S \in SUBSET L : \E T \in Heads(L, p * PageSize) :
        S \cap T = {} /\ T \cup S \in Heads(L, (p + 1) * PageSize)}

\* How many rows can come before the last of the second of e, itself included.
Until(L, e) == Cardinality({f \in L : ~Newer(e, f)})

\* The rows whose second goes over the border between row k and the next.
Straddling(L, k) == {e \in L : Position(L, e) < k /\ k < Until(L, e)}

\* humanSize divides until less than Unit is left, and multiplies div each time.
Divisions[n \in Nat] == IF n < Unit THEN 0 ELSE 1 + Divisions[n \div Unit]
Product[n \in Nat] == IF n < Unit THEN Unit ELSE Unit * Product[n \div Unit]

\* Mutant: the loop starts from the size, not from its quotient.
ExpPast(n) == Divisions[n]

Exp(n) == Divisions[n \div Unit]

Div(n) == Product[n \div Unit]

\* units[exp] is out of range from Unit ^ (Units + 1) on, and the template stops.
Printable(n) == n < Unit \/ Exp(n) < Units

\* The rows of a page that are sent whole: those before the first that stops the template.
Renderings(S) ==
    {R \in SUBSET S :
        /\ Ahead(R, S) /\ \A e \in R : Printable(row[e].size)
        /\ \/ R = S
           \/ \E u \in S \ R : ~Printable(row[u].size) /\ Ahead(R \cup {u}, S)}

-----------------------------------------------------------------------------
(* The writers *)

\* Mutant: the trigger adds the new text and leaves the old one.
ReindexedTwice(e, r) == index \cup (IF r = None THEN {} ELSE {Doc(e, r)})

\* The triggers torrents_ai, torrents_ad and torrents_au.
Reindexed(e, r) ==
    (IF row[e] = None THEN index ELSE index \ {Doc(e, row[e])})
        \cup (IF r = None THEN {} ELSE {Doc(e, r)})

\* What the history of the visitor keeps of a change of row e.
Watched(e, R, I) ==
    CASE view.at = "row" /\ view.id = e -> [view EXCEPT !.gone = @ \/ e \notin R]
      [] view.at = "walk" ->
            LET L == Listing(view.q, Rows, index)
                M == Listing(view.q, R, I)
            IN  [view EXCEPT !.there = @ \cap M,
                             !.moved = @ \/ \E f \in L \ M : Position(L, f) < view.page * PageSize]
      [] OTHER -> view

\* One transaction: the row, the index by its triggers, and the files.
Write(e, r, fs) ==
    /\ row' = [row EXCEPT ![e] = r]
    /\ index' = Reindexed(e, r)
    /\ files' = [files EXCEPT ![e] = fs]
    /\ view' = Watched(e, {f \in Torrents : row'[f] # None}, index')

\* Every edit under way that has read row e now holds an old one.
Overtaken(e) ==
    [c \in Cmds |-> IF cmd[c] # None /\ cmd[c].id = e THEN [cmd[c] EXCEPT !.raced = TRUE] ELSE cmd[c]]

\* Mutant: the files are deleted, and inserted only with a new row.
UpsertOnceFiles(e) ==
    /\ Accepted(EventOf[e])
    /\ Write(e, OfEvent(e), IF row[e] = None THEN Files(EventOf[e]) ELSE <<>>)
    /\ cmd' = Overtaken(e)
    /\ last' = [last EXCEPT ![e] = OfEvent(e)] /\ stale' = [stale EXCEPT ![e] = {}]

\* UpsertTorrent, of an event that ParseTorrent accepted.
Upsert(e) ==
    /\ Accepted(EventOf[e])
    /\ Write(e, OfEvent(e), Files(EventOf[e]))
    /\ cmd' = Overtaken(e)
    /\ last' = [last EXCEPT ![e] = OfEvent(e)] /\ stale' = [stale EXCEPT ![e] = {}]

\* Mutant: no ON DELETE CASCADE.
RemoveRow(e) ==
    /\ row[e] # None /\ Write(e, None, files[e])
    /\ cmd' = Overtaken(e)
    /\ last' = [last EXCEPT ![e] = None] /\ stale' = [stale EXCEPT ![e] = {}]

\* torrent rm, and purge row by row.
RemoveTorrent(e) ==
    /\ row[e] # None /\ Write(e, None, <<>>)
    /\ cmd' = Overtaken(e)
    /\ last' = [last EXCEPT ![e] = None] /\ stale' = [stale EXCEPT ![e] = {}]

\* torrent edit: GetTorrent.
EditRead(c, e) ==
    /\ cmd[c] = None /\ e \in Moderated /\ row[e] # None
    /\ cmd' = [cmd EXCEPT ![c] = [id |-> e, title |-> row[e].title,
                                  category |-> row[e].category, raced |-> FALSE]]
    /\ UNCHANGED <<row, files, index, last, stale, view>>

Names(c, f) == f \in DOMAIN Options[c]

\* Mutant: an option that was not given empties its field.
KeptBlank(c, f) == IF Names(c, f) THEN Options[c][f] ELSE Blank

\* A field that has no option keeps the value that was read.
Kept(c, f) == IF Names(c, f) THEN Options[c][f] ELSE cmd[c][f]

\* UpdateTorrentFields.
EditWrite(c) ==
    /\ cmd[c] # None
    /\ LET e == cmd[c].id
           r == [row[e] EXCEPT !.title = Kept(c, "title"), !.category = Kept(c, "category")]
       IN  /\ row[e] # None
           /\ Write(e, r, files[e])
           /\ cmd' = [Overtaken(e) EXCEPT ![c] = None]
           /\ last' = [last EXCEPT ![e] =
                         [f \in DOMAIN @ |-> IF Names(c, f) THEN Options[c][f] ELSE @[f]]]
           /\ stale' = [stale EXCEPT ![e] =
                          {f \in Fields : ~Names(c, f) /\ (cmd[c].raced \/ f \in @)}]

\* The row is gone by then, or the command is killed.
EditEnds(c) ==
    /\ cmd[c] # None /\ cmd' = [cmd EXCEPT ![c] = None]
    /\ UNCHANGED <<row, files, index, last, stale, view>>

-----------------------------------------------------------------------------
(* The visitor *)

Visit(v) == view' = v /\ UNCHANGED <<row, files, index, cmd, last, stale>>

\* handleTorrent: GetTorrent reads the row, 404 where there is none.
ReadRow(e) ==
    /\ view = Idle /\ row[e] # None
    /\ Visit([at |-> "row", id |-> e, size |-> row[e].size, gone |-> FALSE])

\* Then the files.
ReadFiles ==
    /\ view.at = "row"
    /\ Visit([at |-> "page", id |-> view.id, size |-> view.size, gone |-> view.gone,
              files |-> files[view.id]])

\* Mutant: a full page counts for the last.
HasMoreAbove(S) == Cardinality(S) > PageSize

HasMore(S) == Cardinality(S) = PageSize

\* handleSearch: page p of q, and the link to the next if the template gets there.
\* split is history: the torrents whose second went over the border at which a page
\* starts, when it was read.
Page(q, p, shown, there, split, moved) ==
    LET L == Listing(q, Rows, index)
    IN  \E S \in PagesOf(L, p) : \E R \in Renderings(S) :
            Visit([at |-> IF R # S THEN "cut" ELSE IF HasMore(S) THEN "walk" ELSE "end",
                   q |-> q, page |-> p + 1, shown |-> shown \cup R, there |-> there,
                   split |-> split \cup Straddling(L, p * PageSize), moved |-> moved])

Search(q) == view = Idle /\ Page(q, 0, {}, Listing(q, Rows, index), {}, FALSE)

NextPage ==
    /\ view.at = "walk"
    /\ Page(view.q, view.page, view.shown, view.there, view.split, view.moved)

Close == view # Idle /\ Visit(Idle)

-----------------------------------------------------------------------------
Next ==
    \/ \E e \in Torrents : Upsert(e) \/ RemoveTorrent(e) \/ ReadRow(e)
    \/ \E c \in Cmds : (\E e \in Torrents : EditRead(c, e)) \/ EditWrite(c) \/ EditEnds(c)
    \/ ReadFiles \/ NextPage \/ Close
    \/ \E q \in {"all", "word"} : Search(q)

Spec == Init /\ [][Next]_vars

-----------------------------------------------------------------------------
(* Properties *)

Row == [title : Texts, category : Texts, size : {OfEvent(e).size : e \in Torrents}]
Edit == [id : Moderated, title : Texts, category : Texts, raced : BOOLEAN]
Shown == [at : {"row"}, id : Torrents, size : {OfEvent(e).size : e \in Torrents}, gone : BOOLEAN]
Walk == [at : {"walk", "end", "cut"}, q : {"all", "word"}, page : Nat,
         shown : SUBSET Torrents, there : SUBSET Torrents, split : SUBSET Torrents,
         moved : BOOLEAN]

ASSUME NoneAssumption == None \notin Row /\ None \notin Edit

\* Only accepted events have a row, and only rows have files.
TypeOK ==
    /\ row \in [Torrents -> Row \cup {None}] /\ last \in [Torrents -> Row \cup {None}]
    /\ files = [e \in Torrents |-> IF row[e] = None THEN <<>> ELSE Files(EventOf[e])]
    /\ \A e \in Torrents :
          IF row[e] = None THEN last[e] = None
          ELSE Accepted(EventOf[e]) /\ last[e] # None /\ row[e].size = OfEvent(e).size
    /\ cmd \in [Cmds -> Edit \cup {None}] /\ stale \in [Torrents -> SUBSET Fields]
    /\ view.at \in {"idle", "row", "page", "walk", "end", "cut"}
    /\ view.at = "idle" => view = Idle
    /\ view.at = "row" => view \in Shown
    /\ view.at \in {"walk", "end", "cut"} => view \in Walk

\* The triggers keep the search index to the rows: no word leads to an old title,
\* to a torrent that was removed, or past one that is there.
IndexMatches == index = {Doc(e, row[e]) : e \in Rows}

\* A title or a category is what the last event or the last command that meant it
\* said; only an edit that another write overtook between its two statements can
\* bring an older one back, in the field it did not name.
LastWord ==
    \A e \in Rows : \A f \in Fields : row[e][f] = last[e][f] \/ f \in stale[e]

\* The page of a torrent lists all the files of the event whose size it gives,
\* though it reads them later, unless the row was removed in between.
PageWhole ==
    view.at = "page" => \/ view.files = Files(EventOf[view.id]) /\ view.size = Total(view.files)
                        \/ view.gone

\* A visitor who followed the links to the last page has seen every torrent that
\* was listed all the while, whatever came in or was edited, unless one left the
\* list from the pages already read, which moves the rest up, or the border of two
\* pages went through the torrents of its second, whose order may change between the
\* two statements so that it is on neither.
WalkComplete ==
    view.at = "end" /\ ~view.moved => view.there \ view.split \subseteq view.shown

\* What one of the k-th unit is: units[0] is Unit, each is Unit times the one before.
Worth[k \in Nat] == IF k = 0 THEN Unit ELSE Unit * Worth[k - 1]

\* A size the units reach is printed, and a figure counts the unit written behind it:
\* the two accumulators of the loop go together, what is left is at least 1 and, before
\* %.1f rounds it, less than Unit; div is never more than the size, so it does not
\* overflow.
SizesInUnits ==
    \A e \in Rows : LET n == row[e].size IN
        /\ n < Worth[Units] => Printable(n)
        /\ n >= Unit => Div(n) = Worth[Exp(n)] /\ Div(n) <= n /\ n < Unit * Div(n)

\* humanSize makes a readable figure of the number of bytes it is given (helpers.go:8).
SizesReadable == \A e \in Rows : Printable(row[e].size)
=============================================================================
