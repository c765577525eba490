----------------------------- MODULE MCRepodude -----------------------------
(***************************************************************************)
(* Small instance of Repodude: texts of up to MaxLines lines out of Cases. *)
(***************************************************************************)
EXTENDS Repodude

CONSTANTS a, b, v, MaxLines

Row(name, file) == <<name, Comma, v, Comma, v, Comma, file, Comma, v, Comma, v>>

(***************************************************************************)
(* Two packages, their clashes, a line without a break, a blank line, one  *)
(* with an empty field in the middle, a seventh field, dependencies that   *)
(* just fit, that leave the break for the next read and that are cut.      *)
(***************************************************************************)
Good   == {Row(a, a), Row(b, b)}
Clashes == {Row(a, b)}
Odd    == {<<>>,
           <<a, Comma, Comma, v, Comma, a, Comma, v, Comma, v>>,
           <<b, Comma, Comma, v, Comma, v, Comma, b, Comma, v, Comma, v>>,
           Row(b, b) \o <<Comma, v>>}
Long   == {Row(a, a) \o [i \in 1 .. n |-> v] : n \in 1 .. 4}
          \cup {Row(a, a) \o <<v, v>> \o Row(b, b)}
Cases  == Good \cup Clashes \cup Odd \cup Long

Flat(lines) == FlattenSeq([i \in DOMAIN lines |-> Append(lines[i], Newline)])

MCTexts ==
  LET whole == {Flat(lines) : lines \in BoundedSeq(Cases, MaxLines)}
  IN whole \cup {Front(s) : s \in whole \ {<<>>}}
=============================================================================
