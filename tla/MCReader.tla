------------------------------ MODULE MCReader ------------------------------
(* Texts for Reader: each alphabet has the characters of one part of the      *)
(* grammar.  The hashes of the symbols agree in their first digits.           *)
EXTENDS Reader

MCHash(text) == [i \in 1 .. Len(text) |-> IF text[i] = "a" THEN 0 ELSE 1]

MCAlphabets == {
    {"(", ")", "a", ";", "\n"},
    {"(", ")", "\"", "1", " "},
    {"\"", "\\", "n", "\n"},
    {"-", "1", ".", "_", " ", "a"},
    {"-", "0", "1", "."},
    {"\r", "\n", "a", ";"},
    {"a", "b", " "}}
=============================================================================
