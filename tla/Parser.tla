------------------------------- MODULE Parser -------------------------------
(***************************************************************************)
(* mara_parse: the lexer (src/src/lexer.c) calls the reader of the host for *)
(* one character after the other, and the parser (src/src/parser.c) makes   *)
(* lists of its tokens, notes where their elements come from                *)
(* (src/src/debug_info.c) and interns symbols (src/src/symtab.c).           *)
(***************************************************************************)
EXTENDS Grammar, Symtab

CONSTANTS
    Alphabets,  \* from which characters a text is made, a set of sets
    InputSize,  \* the length of a text: a bound
    IntSize,    \* mara_index_t ends before IntSize: 2^31
    LongSize,   \* long ends before LongSize: 2^63, a multiple of IntSize
    RealSize,   \* a real with more digits than that before the point is too large, ...
    RealZeros,  \* ... one with more zeros than that behind it, and no other digit before
                \* them, is too small: double has 309 and 306
    Nothing,    \* no character is buffered
    End,        \* the reader has returned 0, and the lexer sees a NUL
    Failure,    \* the reader has returned something negative
    Garbage     \* a position that nobody has written

(* What the lexer has in its buffer instead of a character is none.          *)
ASSUME ParserAssumption ==
    /\ InputSize \in Nat /\ CaptureSize \in Nat
    /\ Nothing \notin {End, Failure} /\ End # Failure
    /\ {Nothing, End, Failure} \cap
          ((UNION Alphabets) \cup Delimiters \cup DigitChars \cup {";", "-", "\"", "\\", "_", "."}) = {}

VARIABLES
    alphabet,   \* which characters the text has
    parse_one,  \* the option of mara_parse
    input,      \* what the reader has returned so far
    lexer,      \* mara_lexer_t, and in mode which of its functions is at work
    open,       \* the lists being read, mara_linked_list_t, the outermost first
    nodes,      \* the arena of the parser's zone: mara_list_node_t in the order of allocation
    lists,      \* the lists made in the zone of the caller; their place is their address
    debug_info, \* debug_info_map: from a list and an index to a range
    status,     \* "reading", "done", or the type of the error
    range       \* which part of the text an error is about

parseVars == <<alphabet, parse_one, input, lexer, open, nodes, lists, debug_info, symtab, status, range>>
parser == <<open, nodes, lists, debug_info, symtab, status, range>>

Start == [line |-> 1, col |-> 1, byte_offset |-> 0]
Span(start, end) == [start |-> start, end |-> end]

ParseInit ==
    /\ alphabet \in Alphabets
    /\ parse_one \in BOOLEAN
    /\ input = <<>>
    /\ lexer = [pos |-> Start, start |-> Start, capturing |-> FALSE, capture |-> <<>>,
                buf |-> Nothing, mode |-> "next"]
    /\ open = <<[start |-> Start, token |-> Span(Start, Start), snapshot |-> 0, len |-> 0]>>
    /\ nodes = <<>> /\ lists = <<>> /\ debug_info = <<>>
    /\ symtab = EmptySymtab
    /\ status = "reading"
    /\ range = Span(Start, Start)

-----------------------------------------------------------------------------
(* mara_parse returns with an error; its zone is exited, and the nodes go.   *)
Fail(l, type, r) ==
    /\ lexer' = l /\ status' = type /\ range' = r
    /\ nodes' = <<>> /\ open' = <<>>
    /\ UNCHANGED <<lists, debug_info, symtab>>

LexerSpan(l) == Span(IF l.capturing THEN l.start ELSE l.pos, l.pos)
LexerFail(l, type) == Fail(l, type, LexerSpan(l))

GoOn(l) == lexer' = l /\ UNCHANGED parser

(* mara_lexer_consume_char, without what it captures. *)
Stepped(l) == [l EXCEPT !.buf = Nothing, !.pos.col = @ + 1, !.pos.byte_offset = @ + 1]
IsTooLongByTwo(l) == l.capturing /\ Len(l.capture) > CaptureSize

IsTooLong(l) == l.capturing /\ Len(l.capture) >= CaptureSize
Consumed(l) ==
    [Stepped(l) EXCEPT !.capture = IF l.capturing THEN Append(@, l.buf) ELSE @]

Consume(l, mode) ==
    IF IsTooLong(l) THEN LexerFail(Stepped(l), "element-too-long")
    ELSE GoOn([Consumed(l) EXCEPT !.mode = mode])

Captured(l) == [l EXCEPT !.capturing = TRUE, !.capture = <<>>, !.start = l.pos]

(* mara_lexer_next begins anew after each token. *)
Fresh(l) == [l EXCEPT !.capturing = FALSE, !.capture = <<>>, !.mode = "next"]

-----------------------------------------------------------------------------
(* mara_linked_list_flatten: the list number depth becomes a list object;    *)
(* mara_put_debug_info has the range of the whole and of each element.       *)
Elements(ns, depth) ==
    LET upTo[n \in 0 .. Len(ns)] ==
          IF n = 0 THEN <<>>
          ELSE IF ns[n].list = depth THEN Append(upTo[n - 1], ns[n]) ELSE upTo[n - 1]
    IN  upTo[Len(ns)]

Flattened(ns, depth) == [i \in 1 .. Len(Elements(ns, depth)) |-> Elements(ns, depth)[i].value]

Self == -1

WithDebugInfo(ns, depth, r) ==
    LET here == Elements(ns, depth)
        list == Len(lists) + 1
        new == [k \in {list} \X (Self .. Len(here) - 1) |->
                  IF k[2] = Self THEN r ELSE here[k[2] + 1].range]
    IN  [k \in DOMAIN debug_info \cup DOMAIN new |->
           IF k \in DOMAIN debug_info THEN debug_info[k] ELSE new[k]]

(* mara_linked_list_push on the innermost list of ls; with parse_one,        *)
(* mara_do_parse ends after the first element of the outermost one.          *)
Push(l, ls, ns, value, token) ==
    LET depth == Len(ls)
    IN  /\ lexer' = [Fresh(l) EXCEPT !.mode = IF parse_one /\ depth = 1 THEN "finish" ELSE @]
        /\ nodes' = Append(ns, [list |-> depth, value |-> value, range |-> token])
        /\ open' = [ls EXCEPT ![depth].len = @ + 1]
        /\ UNCHANGED <<status, range>>

TakeSymbol(l) ==
    /\ symtab' = Intern(symtab, l.capture)
    /\ Push(l, open, nodes, [type |-> "symbol", is |-> NumberOf(symtab', l.capture)], LexerSpan(l))
    /\ UNCHANGED <<lists, debug_info>>

Without(text, char) == SelectSeq(text, LAMBDA c : c # char)

(* strtol of a text that the lexer takes for an integer. *)
Strtol(text) ==
    LET Next10(n, c) == IF c = "-" THEN n ELSE 10 * n + (IF c = "1" THEN 1 ELSE 0)
        size == FoldLeft(Next10, 0, text)
    IN  IF text[1] = "-" THEN -size ELSE size

(* The conversion of a long to mara_index_t. *)
Truncated(n) == ((n + IntSize) % (2 * IntSize)) - IntSize

TakeInt(l) ==
    LET n == Strtol(Without(l.capture, "_"))
    IN  IF -LongSize <= n /\ n < LongSize
        THEN /\ Push(l, open, nodes, [type |-> "int", is |-> Truncated(n)], LexerSpan(l))
             /\ UNCHANGED <<lists, debug_info, symtab>>
        ELSE Fail(l, "number-too-large", LexerSpan(l))

(* Whether strtod has a value for a text that the lexer takes for a real:    *)
(* else errno is ERANGE, as it is not for a zero.                            *)
InRange(text) ==
    LET digits == {i \in DOMAIN text : text[i] \notin {"-", ".", "0"}}
        point == CHOOSE i \in DOMAIN text : text[i] = "."
    IN  digits # {} => /\ \A i \in digits : point - i <= RealSize
                       /\ \E i \in digits : i - point <= RealZeros + 1

(* strtod; a real stays the text it was read from. *)
TakeReal(l) ==
    LET text == Without(l.capture, "_")
    IN  IF InRange(text)
        THEN /\ Push(l, open, nodes, [type |-> "real", is |-> text], LexerSpan(l))
             /\ UNCHANGED <<lists, debug_info, symtab>>
        ELSE Fail(l, "number-too-large", LexerSpan(l))

Unescaped(capture) ==
    LET Char(c) == CASE c = "n" -> "\n" [] c = "r" -> "\r" [] c = "t" -> "\t" [] OTHER -> c
        Add(s, c) == IF s.escape THEN [text |-> Append(s.text, Char(c)), escape |-> FALSE]
                     ELSE IF c = "\\" THEN [s EXCEPT !.escape = TRUE]
                     ELSE [s EXCEPT !.text = Append(@, c)]
    IN  FoldLeft(Add, [text |-> <<>>, escape |-> FALSE], capture).text

(* The token is made before the closing quote is consumed, which is captured *)
(* too and needs room in the buffer.                                         *)
TakeString(l) ==
    IF IsTooLong(l) THEN LexerFail(Stepped(l), "element-too-long")
    ELSE /\ Push(Stepped(l), open, nodes, [type |-> "string", is |-> Unescaped(l.capture)],
                 LexerSpan(l))
         /\ UNCHANGED <<lists, debug_info, symtab>>

(* mara_parse_token of "(": it notes how much of the arena is used. *)
OpenList(l) ==
    /\ lexer' = Fresh(Consumed(l))
    /\ open' = Append(open, [start |-> l.pos, token |-> LexerSpan(l),
                             snapshot |-> Len(nodes), len |-> 0])
    /\ UNCHANGED <<nodes, lists, debug_info, symtab, status, range>>

(* mara_arena_restore. *)
Released(ns, depth) == SubSeq(ns, 1, open[depth].snapshot)

(* ")" in mara_parse_list: the list is made, what was allocated since "(" is *)
(* released, and the list is an element of the one around it, with the token *)
(* "(" as its range.                                                         *)
CloseList(l) ==
    LET depth == Len(open)
    IN  IF depth = 1 THEN Fail(Consumed(l), "unexpected-token", LexerSpan(l))
        ELSE /\ lists' = Append(lists, Flattened(nodes, depth))
             /\ debug_info' = WithDebugInfo(nodes, depth, Span(open[depth].start, l.pos))
             /\ Push(Consumed(l), Front(open), Released(nodes, depth),
                     [type |-> "list", is |-> Len(lists')], open[depth].token)
             /\ UNCHANGED symtab

EndOfText(l) ==
    IF Len(open) > 1 THEN Fail(l, "bad-list", Span(Last(open).start, l.pos))
    ELSE GoOn([l EXCEPT !.mode = "finish"])

(* mara_do_parse makes the list that mara_parse returns; nobody has written  *)
(* the end of its range.  The parser's zone is exited.                       *)
FinishParse ==
    /\ status = "reading" /\ lexer.mode = "finish"
    /\ lists' = Append(lists, Flattened(nodes, 1))
    /\ debug_info' = WithDebugInfo(nodes, 1, Span(open[1].start, Garbage))
    /\ status' = "done"
    /\ nodes' = <<>> /\ open' = <<>>
    /\ UNCHANGED <<alphabet, parse_one, input, lexer, symtab, range>>

-----------------------------------------------------------------------------
(* mara_lexer_peek calls the reader when nothing is buffered.                *)
Read ==
    /\ status = "reading" /\ lexer.mode # "finish" /\ lexer.buf = Nothing
    /\ \/ \E c \in alphabet :
            /\ Len(input) < InputSize
            /\ input' = Append(input, c)
            /\ GoOn([lexer EXCEPT !.buf = c])
       \/ UNCHANGED input /\ GoOn([lexer EXCEPT !.buf = End])
       \/ UNCHANGED input /\ LexerFail([lexer EXCEPT !.buf = Failure], "io-error")
    /\ UNCHANGED <<alphabet, parse_one>>

(* One function of the lexer sees the character that is buffered. *)
Sees(mode, chars) ==
    /\ status = "reading" /\ lexer.mode = mode /\ lexer.buf \in chars
    /\ UNCHANGED <<alphabet, parse_one, input>>

Others(chars) == (UNION Alphabets) \ chars

(* mara_lexer_next. *)
SkipSpace == Sees("next", Spaces) /\ Consume(lexer, "next")
BeginComment == Sees("next", {";"}) /\ Consume(lexer, "comment")
BeginNewLine == Sees("next", NewLines) /\ Consume(lexer, IF lexer.buf = "\r" THEN "cr" ELSE "lf")
LeftParen == Sees("next", {"("}) /\ OpenList(lexer)
RightParen == Sees("next", {")"}) /\ CloseList(lexer)
AtEnd == Sees("next", {End}) /\ EndOfText(lexer)
BeginMinus == Sees("next", {"-"}) /\ Consume(Captured(lexer), "minus")
BeginNumber == Sees("next", DigitChars) /\ Consume(Captured(lexer), "number")
BeginString ==
    Sees("next", {"\""}) /\ GoOn([Captured(Consumed(lexer)) EXCEPT !.mode = "string"])
BeginSymbol ==
    /\ Sees("next", Others(Delimiters \cup DigitChars \cup {";", "-", "\""}))
    /\ Consume(Captured(lexer), "symbol")

InCommentForEver ==
    \/ Sees("comment", Others(NewLines)) /\ Consume(lexer, "comment")
    \/ Sees("comment", NewLines) /\ GoOn([lexer EXCEPT !.mode = "next"])

(* mara_lexer_handle_comment and mara_lexer_handle_new_line. *)
InComment ==
    \/ Sees("comment", Others(NewLines)) /\ Consume(lexer, "comment")
    \/ Sees("comment", NewLines \cup {End}) /\ GoOn([lexer EXCEPT !.mode = "next"])

NextLineInColumn(l) == [l EXCEPT !.pos.line = @ + 1, !.mode = "next"]

NextLine(l) == [l EXCEPT !.pos.col = 1, !.pos.line = @ + 1, !.mode = "next"]

EndNewLine ==
    \/ Sees("cr", {"\n"}) /\ GoOn(NextLine(Consumed(lexer)))
    \/ Sees("cr", Others({"\n"}) \cup {End}) /\ GoOn(NextLine(lexer))
    \/ Sees("lf", Others({}) \cup {End}) /\ GoOn(NextLine(lexer))

AfterMinus ==
    \/ Sees("minus", DigitChars) /\ Consume(lexer, "number")
    \/ Sees("minus", Others(DigitChars) \cup {End}) /\ GoOn([lexer EXCEPT !.mode = "symbol"])

(* mara_lexer_continue_number; the second point is consumed before it is     *)
(* found to be one.                                                          *)
InNumber ==
    \/ Sees("number", DigitChars \cup {"_"}) /\ Consume(lexer, "number")
    \/ Sees("real", DigitChars \cup {"_"}) /\ Consume(lexer, "real")
    \/ Sees("number", {"."}) /\ Consume(lexer, "real")
    \/ /\ Sees("real", {"."})
       /\ LexerFail(Stepped(lexer), IF IsTooLong(lexer) THEN "element-too-long" ELSE "bad-number")
    \/ Sees("number", Delimiters \cup {";", End}) /\ TakeInt(lexer)
    \/ Sees("real", Delimiters \cup {";", End}) /\ TakeReal(lexer)
    \/ /\ \E mode \in {"number", "real"} :
            Sees(mode, Others(Delimiters \cup DigitChars \cup {"_", ".", ";"}))
       /\ LexerFail(lexer, "bad-number")

(* mara_lexer_handle_string. *)
InString ==
    \/ Sees("string", {"\""}) /\ TakeString(lexer)
    \/ Sees("string", {"\\"}) /\ Consume(lexer, "escape")
    \/ Sees("string", NewLines \cup {End}) /\ LexerFail(lexer, "bad-string")
    \/ Sees("string", Others(NewLines \cup {"\"", "\\"})) /\ Consume(lexer, "string")

AfterEscape ==
    \/ Sees("escape", NewLines \cup {End}) /\ GoOn([lexer EXCEPT !.mode = "string"])
    \/ Sees("escape", Others(NewLines)) /\ Consume(lexer, "string")

(* mara_lexer_continue_symbol. *)
InSymbol ==
    \/ Sees("symbol", Delimiters \cup {End}) /\ TakeSymbol(lexer)
    \/ Sees("symbol", Others(Delimiters)) /\ Consume(lexer, "symbol")

ParseNext ==
    \/ Read
    \/ SkipSpace \/ BeginComment \/ BeginNewLine \/ LeftParen \/ RightParen \/ AtEnd
    \/ BeginMinus \/ BeginNumber \/ BeginString \/ BeginSymbol
    \/ InComment \/ EndNewLine \/ AfterMinus \/ InNumber \/ InString \/ AfterEscape \/ InSymbol
    \/ FinishParse

(* mara_parse is a C function that nothing interrupts: it goes on while it   *)
(* can, and the reader of the host returns.                                  *)
ParseSpec == ParseInit /\ [][ParseNext]_parseVars /\ WF_parseVars(ParseNext)

-----------------------------------------------------------------------------
Positions == [line : 1 .. InputSize + 1, col : 1 .. InputSize + 1, byte_offset : 0 .. InputSize]
Spans == [start : Positions, end : Positions \cup {Garbage}]

(* While lists are nested, the arena of the parser's zone has the elements   *)
(* that each of them has so far, and nothing of the lists that have ended.   *)
NodesKept ==
    /\ \A n \in DOMAIN nodes : nodes[n].list \in DOMAIN open
    /\ \A k \in DOMAIN open : open[k].len = Len(Elements(nodes, k))

(* What is captured is the text from the start of the token on.              *)
CaptureIsInput ==
    status = "reading" /\ lexer.capturing =>
        lexer.capture = SubSeq(input, lexer.start.byte_offset + 1, lexer.pos.byte_offset)

(* A list in a list was made before it, and a symbol is in the table.        *)
Exists(value, n) ==
    /\ value.type = "list" => value.is \in 1 .. n
    /\ value.type = "symbol" => value.is \in 0 .. Len(symtab.nodes) - 1

(* Every variable has its type; the capture buffer, the array of symbols and *)
(* the arena of the parser hold what is in them.                             *)
ParseTypeOK ==
    /\ input \in Seq(alphabet)
    /\ lexer.pos \in Positions /\ lexer.start \in Positions
    /\ lexer.capture \in Seq(alphabet) /\ Len(lexer.capture) <= CaptureSize
    /\ lexer.buf \in alphabet \cup {Nothing, End, Failure}
    /\ \A n \in DOMAIN nodes : Exists(nodes[n].value, Len(lists))
    /\ \A n \in DOMAIN lists : \A i \in DOMAIN lists[n] : Exists(lists[n][i], n - 1)
    /\ \A k \in DOMAIN debug_info : k[1] \in DOMAIN lists /\ debug_info[k] \in Spans
    /\ range \in Spans
    /\ Len(symtab.nodes) <= symtab.capacity
    /\ (status = "reading") = (open # <<>>)
    /\ NodesKept
    /\ CaptureIsInput

(* mara_parse with parse_one takes nothing from the reader of the host that  *)
(* comes after the element, when that ends in a parenthesis or a quote.      *)
NothingLost ==
    parse_one /\ status = "done" /\ lists # << <<>> >> /\ Last(lists)[1].type \in {"list", "string"} =>
        lexer.buf = Nothing /\ Len(input) = lexer.pos.byte_offset
=============================================================================
