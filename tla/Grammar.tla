------------------------------ MODULE Grammar ------------------------------
(***************************************************************************)
(* The tokens of a text and where they are, stated for the whole text at    *)
(* once: the reference for Reader.  It models nothing of the code.  A token *)
(* has the places of its first character and of the one after its last; an  *)
(* error has those of the part of the text that it reports.                 *)
(***************************************************************************)
EXTENDS Integers, Sequences, SequencesExt

CONSTANT CaptureSize    \* how long an element may be, a string with its closing quote

Spaces == {" ", "\t"}
NewLines == {"\r", "\n"}
Parens == {"(", ")"}
DigitChars == {"0", "1"}
Delimiters == Spaces \cup NewLines \cup Parens

LOCAL Least(S) == CHOOSE x \in S : \A y \in S : x <= y

(* The first place from i on whose character is in S, or the end. *)
FirstIn(w, i, S) == Least({j \in i .. Len(w) : w[j] \in S} \cup {Len(w) + 1})
FirstOutside(w, i, S) == Least({j \in i .. Len(w) : w[j] \notin S} \cup {Len(w) + 1})

(* A character is escaped by an odd number of backslashes in front of it,    *)
(* none of them before place i.                                              *)
Escaped(w, i, j) ==
    LET others == {k \in i .. j - 1 : w[k] # "\\"}
        first == IF others = {} THEN i ELSE 1 + CHOOSE k \in others : \A l \in others : l <= k
    IN  (j - first) % 2 = 1

Found(kind, from, to) == [kind |-> kind, from |-> from, to |-> to]

(* What it is, unless more characters belong to it than may. *)
Limited(found, after) ==
    IF after - found.from > CaptureSize
    THEN Found("element-too-long", found.from, found.from + CaptureSize + 1)
    ELSE found

SymbolAt(w, i) ==
    LET end == FirstIn(w, i, Delimiters) IN Limited(Found("symbol", i, end), end)

NumberAt(w, i) ==
    LET end == FirstOutside(w, i + 1, DigitChars \cup {"_", "."})
        dot == FirstIn(w, i, {"."})
        dot2 == FirstIn(w, dot + 1, {"."})
    IN  IF dot2 < end THEN Limited(Found("bad-number", i, dot2 + 1), dot2 + 1)
        ELSE IF end <= Len(w) /\ w[end] \notin Delimiters \cup {";"}
             THEN Limited(Found("bad-number", i, end), end)
        ELSE Limited(Found(IF dot < end THEN "real" ELSE "int", i, end), end)

(* i is the place after the opening quote. *)
StringAt(w, i) ==
    LET line == FirstIn(w, i, NewLines)
        close == {j \in i .. line - 1 : w[j] = "\"" /\ ~ Escaped(w, i, j)}
    IN  IF close = {} THEN Limited(Found("bad-string", i, line), line)
        ELSE Limited(Found("string", i, Least(close)), Least(close) + 1)

StartsNumber(w, i) ==
    \/ w[i] \in DigitChars
    \/ w[i] = "-" /\ i < Len(w) /\ w[i + 1] \in DigitChars

ElementAt(w, i) ==
    CASE w[i] \in Parens -> Found(w[i], i, i)
      [] w[i] = "\"" -> StringAt(w, i + 1)
      [] StartsNumber(w, i) -> NumberAt(w, i)
      [] OTHER -> SymbolAt(w, i)

LexicalErrors == {"element-too-long", "bad-number", "bad-string"}

(* All tokens, up to the first error or to the one that stands for the end. *)
Tokens(w) ==
    LET from[i \in 1 .. Len(w) + 1] ==
          IF i = Len(w) + 1 THEN <<Found("end", i, i)>>
          ELSE IF w[i] \in Spaces \cup NewLines THEN from[i + 1]
          ELSE IF w[i] = ";" THEN from[FirstIn(w, i, NewLines)]
          ELSE LET e == ElementAt(w, i)
                   next == IF e.kind \in Parens \cup {"string"} THEN e.to + 1 ELSE e.to
               IN  IF e.kind \in LexicalErrors THEN <<e>> ELSE <<e>> \o from[next]
    IN  from[1]

(* The position of place i: the line breaks before it, of which CR LF is one. *)
Position(w, i) ==
    LET Breaks(j) == w[j] = "\n" \/ (w[j] = "\r" /\ (j = Len(w) \/ w[j + 1] # "\n"))
        breaks == {j \in 1 .. i - 1 : Breaks(j)}
        last == IF breaks = {} THEN 0 ELSE CHOOSE j \in breaks : \A k \in breaks : k <= j
    IN  [line |-> 1 + Cardinality(breaks), col |-> i - last, byte_offset |-> i - 1]

-----------------------------------------------------------------------------
(* What an element stands for.                                               *)
LOCAL Text(w, places, Char(_)) ==
    LET keep == SetToSortSeq(places, <) IN [k \in 1 .. Len(keep) |-> Char(keep[k])]

LOCAL Meant(c) == CASE c = "n" -> "\n" [] c = "r" -> "\r" [] c = "t" -> "\t" [] OTHER -> c

StringText(w, t) ==
    LET IsEscape(j) == w[j] = "\\" /\ ~ Escaped(w, t.from, j)
        Char(j) == IF Escaped(w, t.from, j) THEN Meant(w[j]) ELSE w[j]
    IN  Text(w, {j \in t.from .. t.to - 1 : ~ IsEscape(j)}, Char)

NumberText(w, t) ==
    LET Char(j) == w[j] IN Text(w, {j \in t.from .. t.to - 1 : w[j] # "_"}, Char)

IntegerOf(text) ==
    LET ones == {k \in 1 .. Len(text) : text[k] = "1"}
        size == FoldLeft(LAMBDA n, k : n + 10 ^ (Len(text) - k), 0, SetToSeq(ones))
    IN  IF text[1] = "-" THEN -size ELSE size
=============================================================================
