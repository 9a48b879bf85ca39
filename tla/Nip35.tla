------------------------------- MODULE Nip35 -------------------------------
(***************************************************************************)
(* ParseTorrent: what the catalogue keeps of an event of kind 2003.  An    *)
(* event is a record of the tags the code looks at.  A text is a model     *)
(* value, Blank when nothing is left after TrimSpace; a size is what the   *)
(* third element of a file tag says: a number, or anything else.           *)
(***************************************************************************)
EXTENDS Integers, Sequences, SequencesExt

CONSTANTS Blank,    \* the text that is empty
          HashRe,   \* the texts of 40 hexadecimal digits
          IntMax    \* the largest int64

ASSUME IntAssumption == IntMax \in Nat

\* Tags.Find: the first tag of the name, Blank where there is none.
First(tags) == IF tags = <<>> THEN Blank ELSE tags[1]

\* An event without a title or a valid infohash is refused.
Accepted(evt) == First(evt.title) # Blank /\ First(evt.x) \in HashRe

\* ParseInt: what is no int64, or negative, counts for 0.
Declared(s) == IF s \in 0..IntMax THEN s ELSE 0

\* The sum of int64 wraps around.
Wrap(n) == ((n + IntMax + 1) % (2 * IntMax + 2)) - IntMax - 1
Total(files) == Wrap(FoldSeq(LAMBDA s, n : n + s, 0, files))

Files(evt) == [i \in 1..Len(evt.file) |-> Declared(evt.file[i])]

\* The joined t tags are one text of the event.
ParseTorrent(evt) ==
    [title |-> First(evt.title), category |-> evt.t, size |-> Total(Files(evt))]
=============================================================================
