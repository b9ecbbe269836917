------------------------------- MODULE Symtab -------------------------------
(***************************************************************************)
(* The symbol table of an environment (src/src/symtab.c): an array of nodes *)
(* that are also a trie over the bits of the hash of their key.  The number *)
(* of a symbol is the place of its node in the array.                       *)
(***************************************************************************)
EXTENDS Integers, Sequences

CONSTANTS
    NumChildren,    \* BHAMT_NUM_CHILDREN
    FirstCapacity,  \* MARA_NUM_BUILTIN_SYMBOLS * 2
    Hash(_)         \* the hash of a text as a sequence of digits, the lowest first

ASSUME SymtabAssumption ==
    /\ NumChildren \in Nat \ {0}
    /\ FirstCapacity \in Nat \ {0}

VARIABLE symtab     \* mara_symtab_t; len is the length of nodes

(* hash_itr & BHAMT_MASK after d shifts: zero once the bits are used up. *)
Digit(text, d) == IF d < Len(Hash(text)) THEN Hash(text)[d + 1] ELSE 0

EmptySymtab == [nodes |-> <<>>, capacity |-> 0]

NoChildren == [i \in 0 .. NumChildren - 1 |-> 0]

(* Where the search for a text is after d steps, 0 once it has ended.  As in *)
(* C, a child is the number of a symbol plus one and 0 is none; that is also *)
(* the place of its node in the sequence.                                    *)
Way(table, text) ==
    LET After(node, d) == IF node.key = text THEN 0 ELSE node.children[Digit(text, d)]
        at[d \in 0 .. Len(table.nodes)] ==
          IF d = 0 THEN IF table.nodes = <<>> THEN 0 ELSE 1
          ELSE IF at[d - 1] = 0 THEN 0
          ELSE After(table.nodes[at[d - 1]], d - 1)
    IN  at

(* last_hash_itr, as the number of the shifts, and last_node_index + 1. *)
LastDepth(table, text) ==
    LET way == Way(table, text)
    IN  CHOOSE d \in DOMAIN way : way[d] # 0 /\ \A e \in DOMAIN way : e > d => way[e] = 0

LastNode(table, text) == Way(table, text)[LastDepth(table, text)]

IsInterned(table, text) ==
    table.nodes # <<>> /\ table.nodes[LastNode(table, text)].key = text

(* mara_realloc keeps the nodes. *)
Grown(table) ==
    IF Len(table.nodes) < table.capacity THEN table.capacity
    ELSE IF table.capacity > 0 THEN table.capacity * 2
    ELSE FirstCapacity

WithNodeAt(table, text, depth) ==
    LET new == Append(table.nodes, [key |-> text, children |-> NoChildren])
    IN  [nodes |-> IF table.nodes = <<>> THEN new
                   ELSE [new EXCEPT ![LastNode(table, text)].children[Digit(text, depth)] = Len(new)],
         capacity |-> Grown(table)]

WithNodeTooDeep(table, text) == WithNodeAt(table, text, LastDepth(table, text) + 1)

(* The new node is a child of the last one. *)
WithNode(table, text) == WithNodeAt(table, text, LastDepth(table, text))

(* mara_symtab_intern: the table after it, and the number that it returns. *)
Intern(table, text) == IF IsInterned(table, text) THEN table ELSE WithNode(table, text)

NumberOf(table, text) == LastNode(table, text) - 1

(* mara_symtab_lookup. *)
Lookup(table, number) == table.nodes[number + 1].key

(* An environment's table, in which any of the texts are interned. *)
SymtabSpec(texts) ==
    /\ symtab = EmptySymtab
    /\ [][\E text \in texts : symtab' = Intern(symtab, text)]_symtab

-----------------------------------------------------------------------------
(* Every name has one number, and is found in the trie under it, also after  *)
(* the table has grown.                                                      *)
InternedOnce ==
    \A n \in DOMAIN symtab.nodes :
        /\ IsInterned(symtab, symtab.nodes[n].key)
        /\ NumberOf(symtab, symtab.nodes[n].key) = n - 1
=============================================================================
