------------------------------- MODULE Reader -------------------------------
(***************************************************************************)
(* What mara_parse returns for a text, by the reference of Grammar.         *)
(***************************************************************************)
EXTENDS Parser

(* What mara_parse has returned, as the tokens that it was read from: the    *)
(* debug information of the lists has their places.                          *)
RECURSIVE Written(_)
Written(list) ==
    LET Info(i) == debug_info[<<list, i - 1>>]
        Element(i) ==
          LET v == lists[list][i]
          IN  CASE v.type = "list" ->
                     LET self == debug_info[<<v.is, Self>>]
                     IN  <<[kind |-> "(", range |-> Span(self.start, Info(i).end), is |-> <<>>]>>
                         \o Written(v.is)
                         \o <<[kind |-> ")", range |-> Span(self.end, self.end), is |-> <<>>]>>
                [] v.type = "symbol" ->
                     <<[kind |-> "symbol", range |-> Info(i), is |-> Lookup(symtab, v.is)]>>
                [] OTHER -> <<[kind |-> v.type, range |-> Info(i), is |-> v.is]>>
    IN  FlattenSeq([i \in DOMAIN lists[list] |-> Element(i)])

Place(from, to) == Span(Position(input, from), Position(input, to))

Expected(t) ==
    [kind |-> t.kind, range |-> Place(t.from, t.to),
     is |-> CASE t.kind = "symbol" -> SubSeq(input, t.from, t.to - 1)
              [] t.kind = "string" -> StringText(input, t)
              [] t.kind = "real" -> NumberText(input, t)
              [] t.kind = "int" -> Truncated(IntegerOf(NumberText(input, t)))
              [] OTHER -> <<>>]

(* A real is size divided by scale.                                          *)
IsOutOfRange(text) ==
    LET point == FirstIn(text, 1, {"."})
        value == IntegerOf(RemoveAt(text, point))
        size == IF value < 0 THEN -value ELSE value
        scale == 10 ^ (Len(text) - point)
    IN  size >= scale * 10 ^ RealSize \/ (size # 0 /\ size * 10 ^ (RealZeros + 1) < scale)

IsTooLarge(t) ==
    CASE t.kind = "int" -> IntegerOf(NumberText(input, t)) \notin -LongSize .. LongSize - 1
      [] t.kind = "real" -> IsOutOfRange(NumberText(input, t))
      [] OTHER -> FALSE

(* How many lists are open after the first k tokens, and where they began.   *)
Begun(ts, k) == {j \in 1 .. k : ts[j].kind = "("}
Depth(ts, k) == Cardinality(Begun(ts, k)) - Cardinality({j \in 1 .. k : ts[j].kind = ")"})
Innermost(ts, k) ==
    CHOOSE j \in Begun(ts, k) : /\ Depth(ts, j) = Depth(ts, k)
                                /\ \A i \in j .. k : Depth(ts, i) >= Depth(ts, j)

(* What becomes of the text at the token number k. *)
Verdict(ts, k) ==
    CASE ts[k].kind \in LexicalErrors -> ts[k].kind
      [] ts[k].kind = ")" /\ Depth(ts, k) < 0 -> "unexpected-token"
      [] ts[k].kind = "end" /\ Depth(ts, k) > 0 -> "bad-list"
      [] IsTooLarge(ts[k]) -> "number-too-large"
      [] ts[k].kind = "end" \/ (parse_one /\ Depth(ts, k) = 0) -> "done"
      [] OTHER -> "reading"

(* Whatever the text, mara_parse returns the elements that are in it, nested *)
(* as the parentheses are, each with its line, column and offset, and each   *)
(* symbol with the number of its name; or else the first error in it, and    *)
(* where it is.  What comes after is left to the host where it can be.       *)
ReadsAsGrammar ==
    /\ NothingLost
    /\ status \notin {"reading", "io-error"} =>
        LET ts == Tokens(input)
            k == CHOOSE i \in DOMAIN ts : /\ Verdict(ts, i) # "reading"
                                          /\ \A j \in 1 .. i - 1 : Verdict(ts, j) = "reading"
            elements == IF ts[k].kind = "end" THEN k - 1 ELSE k
        IN  /\ status = Verdict(ts, k)
            /\ CASE status = "done" ->
                      Written(Len(lists)) = [i \in 1 .. elements |-> Expected(ts[i])]
                 [] status = "bad-list" -> range = Place(ts[Innermost(ts, k)].from, ts[k].from)
                 [] OTHER -> range = Place(ts[k].from, ts[k].to)

(* mara_parse returns, whatever the text and wherever it ends. *)
Terminates == <>(status # "reading")
=============================================================================
