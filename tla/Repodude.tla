------------------------------- MODULE Repodude -------------------------------
(***************************************************************************)
(* repodude CSV DATABASE: the conversion of a text file into the metadata  *)
(* database of a repository (repodude.c, database_set_metadata).  It may   *)
(* be run again, with another text, over what an earlier run left.         *)
(*                                                                         *)
(* A text is a sequence of lines.  The text of a line is a sequence of     *)
(* characters; what they are matters only where the line is cut: Comma     *)
(* ends a field, Newline a line, and any other is a character of a field.  *)
(***************************************************************************)
EXTENDS Integers, Sequences, SequencesExt, FiniteSets

CONSTANTS
  Comma, Newline, \* the two characters that mean something
  Other,          \* the others
  Texts,          \* the texts that are converted, sequences of characters
  MaxLength,      \* MAX_LINE_LENGTH, the size of the reading buffer
  MaxRuns,        \* bound: how often repodude is run
  Faults          \* what may go wrong

FaultKinds == {"open", "unlink", "tables", "read", "insert", "kill"}

Char == Other \cup {Comma, Newline}

ASSUME RepodudeAssumption ==
  /\ Comma # Newline /\ Texts \subseteq Seq(Char)
  /\ MaxLength \in Nat \ {0, 1} /\ MaxRuns \in Nat
  /\ Faults \subseteq FaultKinds

VARIABLES
  pc,     \* where repodude is, or how it ended
  text,   \* the text it was given
  rest,   \* what fgets has not read of it
  info,   \* the fields of the line at hand
  dest,   \* the output file: whether it is there, has its table, and the rows
  runs,   \* how often repodude was started
  flaws   \* history: what went wrong in this run

vars == <<pc, text, rest, info, dest, runs, flaws>>

Ended   == {"idle", "ok", "failed", "killed"}
NoFile  == [exists |-> FALSE, table |-> FALSE, rows |-> <<>>]

Init ==
  /\ pc = "idle" /\ text = <<>> /\ rest = <<>> /\ info = <<>>
  /\ dest = NoFile /\ runs = 0 /\ flaws = {}

-----------------------------------------------------------------------------
(* What fgets and strtok_r make of a text *)

FieldsCount == 6  \* METADATA_FIELDS_COUNT - 1

(***************************************************************************)
(* fgets reads up to the end of the line or until the buffer is full: one  *)
(* character less than its size.                                           *)
(***************************************************************************)
LineEnds(s) == {i \in 1 .. Len(s) : s[i] = Newline \/ i = Len(s) \/ i = MaxLength - 1}
ReadSize(s) == CHOOSE i \in LineEnds(s) : \A j \in LineEnds(s) : i <= j

Stripped(line) ==
  IF line # <<>> /\ Last(line) = Newline THEN Front(line) ELSE line

(***************************************************************************)
(* The n-th of a set of positions, in ascending order, and the pieces of s *)
(* that start at each of them and end in front of the delimiter.           *)
(***************************************************************************)
Nth(S, n) == CHOOSE i \in S : Cardinality({j \in S : j <= i}) = n

IsPiece(s, i, j, delimiter) ==
  /\ \A k \in i .. j : s[k] # delimiter
  /\ j = Len(s) \/ s[j + 1] = delimiter

Pieces(s, starts, delimiter) ==
  [n \in 1 .. Cardinality(starts) |->
     LET i == Nth(starts, n) IN
     SubSeq(s, i, CHOOSE j \in i - 1 .. Len(s) : IsPiece(s, i, j, delimiter))]

(***************************************************************************)
(* strtok_r skips the commas in front of a field, so that it never finds   *)
(* an empty one: the fields are the longest runs of other characters.      *)
(***************************************************************************)
FieldStarts(line) ==
  {i \in 1 .. Len(line) : line[i] # Comma /\ (i = 1 \/ line[i - 1] = Comma)}

Fields(line) == Pieces(line, FieldStarts(line), Comma)

-----------------------------------------------------------------------------
(* The steps of main *)

Begin ==
  /\ pc \in Ended /\ runs < MaxRuns
  /\ text' \in Texts /\ rest' = text'
  /\ \/ pc' = "unlink"
     \/ "open" \in Faults /\ pc' = "failed"
  /\ flaws' = IF pc' = "failed" THEN {"open"} ELSE {}
  /\ runs' = runs + 1 /\ info' = <<>>
  /\ UNCHANGED dest

(* Mutant: the old database is not deleted. *)
NoUnlink ==
  /\ pc = "unlink" /\ pc' = "tables"
  /\ UNCHANGED <<text, rest, info, dest, runs, flaws>>

(***************************************************************************)
(* Whether the old database was deleted is not looked at.                  *)
(***************************************************************************)
Unlink ==
  /\ pc = "unlink" /\ pc' = "tables"
  /\ \/ dest' = NoFile /\ UNCHANGED flaws
     \/ "unlink" \in Faults /\ dest.exists /\ UNCHANGED dest /\ flaws' = {"unlink"}
  /\ UNCHANGED <<text, rest, info, runs>>

(***************************************************************************)
(* database_open_write: a new file gets its table in one transaction; one  *)
(* that is still there is used as it is.                                   *)
(***************************************************************************)
OpenDatabase ==
  /\ pc = "tables" /\ pc' = "read"
  /\ dest' = IF dest.exists THEN dest ELSE [exists |-> TRUE, table |-> TRUE, rows |-> <<>>]
  /\ UNCHANGED <<text, rest, info, runs, flaws>>

OpenFails ==
  /\ pc = "tables" /\ "tables" \in Faults /\ pc' = "failed"
  /\ \/ UNCHANGED dest
     \/ ~ dest.exists /\ dest' = [NoFile EXCEPT !.exists = TRUE]
  /\ flaws' = flaws \cup {"tables"}
  /\ UNCHANGED <<text, rest, info, runs>>

(* Mutant: the fields of a short line are those of the line before it. *)
ReadLineStale ==
  /\ pc = "read" /\ rest # <<>>
  /\ LET n      == ReadSize(rest)
         fields == Fields(Stripped(SubSeq(rest, 1, n))) IN
     /\ info' = [i \in 1 .. FieldsCount |-> IF i <= Len(fields) THEN fields[i]
                                            ELSE IF info = <<>> THEN <<>> ELSE info[i]]
     /\ pc' = IF fields = <<>> THEN "failed" ELSE "insert"
     /\ rest' = SubSeq(rest, n + 1, Len(rest))
  /\ UNCHANGED <<text, dest, runs, flaws>>

(***************************************************************************)
(* A line is read and taken apart: an empty one, or one of fewer than six  *)
(* fields, ends the conversion, and what follows the sixth is ignored.     *)
(***************************************************************************)
ReadLine ==
  /\ pc = "read" /\ rest # <<>>
  /\ LET n      == ReadSize(rest)
         fields == Fields(Stripped(SubSeq(rest, 1, n))) IN
     /\ rest' = SubSeq(rest, n + 1, Len(rest))
     /\ IF Len(fields) < FieldsCount
        THEN pc' = "failed" /\ UNCHANGED info
        ELSE pc' = "insert" /\ info' = SubSeq(fields, 1, FieldsCount)
  /\ UNCHANGED <<text, dest, runs, flaws>>

(***************************************************************************)
(* The end of the text.  fgets says the same of an error, which nobody     *)
(* looks for.                                                              *)
(***************************************************************************)
EndOfText ==
  /\ pc = "read" /\ pc' = "ok"
  /\ \/ rest = <<>> /\ UNCHANGED flaws
     \/ "read" \in Faults /\ flaws' = flaws \cup {"read"}
  /\ UNCHANGED <<text, rest, info, dest, runs>>

(***************************************************************************)
(* name and file_name, the first and the fourth column, are UNIQUE.        *)
(***************************************************************************)
Clash(row, other) == row[1] = other[1] \/ row[4] = other[4]

Insert ==
  /\ pc = "insert" /\ pc' = "read"
  /\ dest.table /\ \A i \in DOMAIN dest.rows : ~ Clash(info, dest.rows[i])
  /\ dest' = [dest EXCEPT !.rows = Append(@, info)]
  /\ UNCHANGED <<text, rest, info, runs, flaws>>

InsertFails ==
  /\ pc = "insert" /\ pc' = "failed"
  /\ \/ /\ ~ dest.table \/ \E i \in DOMAIN dest.rows : Clash(info, dest.rows[i])
        /\ UNCHANGED flaws
     \/ "insert" \in Faults /\ flaws' = flaws \cup {"insert"}
  /\ UNCHANGED <<text, rest, info, dest, runs>>

Kill ==
  /\ pc \notin Ended /\ "kill" \in Faults
  /\ pc' = "killed"
  /\ UNCHANGED <<text, rest, info, dest, runs, flaws>>

Next ==
  \/ Begin \/ Unlink \/ OpenDatabase \/ OpenFails \/ ReadLine \/ EndOfText
  \/ Insert \/ InsertFails \/ Kill

Spec == Init /\ [][Next]_vars

-----------------------------------------------------------------------------
(* What the text says: its lines, however long *)

LineStarts(s) == {i \in 1 .. Len(s) : i = 1 \/ s[i - 1] = Newline}

Lines(s) == Pieces(s, LineStarts(s), Newline)

(***************************************************************************)
(* A line that fits in the buffer with its line break and its end.         *)
(***************************************************************************)
Fits(line) == Len(line) <= MaxLength - 2

RowIn(line) == SubSeq(Fields(line), 1, FieldsCount)

WellFormed(s) ==
  LET lines == Lines(s) IN
  \A i \in DOMAIN lines :
    /\ Fits(lines[i]) /\ Len(Fields(lines[i])) >= FieldsCount
    /\ \A j \in 1 .. i - 1 : ~ Clash(RowIn(lines[i]), RowIn(lines[j]))

-----------------------------------------------------------------------------
(***************************************************************************)
(* The database holds the lines of the text in their order, each as one    *)
(* row with its own fields, and nothing else; and all of them when         *)
(* repodude reports success.  Excepted are lines that do not fit in the    *)
(* buffer, an old database that could not be deleted and text that could   *)
(* not be read (main, database_set_metadata).                              *)
(***************************************************************************)
RowsAreLines ==
  LET lines == Lines(text) IN
  /\ pc \in {"read", "insert", "ok"} /\ "unlink" \notin flaws
  /\ \A i \in DOMAIN lines : Fits(lines[i])
  =>
    /\ dest.table /\ Len(dest.rows) <= Len(lines)
    /\ \A i \in DOMAIN dest.rows :
         Len(Fields(lines[i])) >= FieldsCount /\ dest.rows[i] = RowIn(lines[i])
    /\ pc = "ok" /\ "read" \notin flaws => Len(dest.rows) = Len(lines)

(***************************************************************************)
(* A text whose lines all fit, have their fields and do not clash is       *)
(* converted, whatever an earlier run, killed or not, left behind          *)
(* (main, database_open_write).                                            *)
(***************************************************************************)
WellFormedSucceeds == pc = "failed" /\ WellFormed(text) => flaws # {}
=============================================================================
