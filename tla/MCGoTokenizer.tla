----------------------------- MODULE MCGoTokenizer -----------------------------
EXTENDS GoTokenizer
Characters ==
  {"LF", "CR", " ", "/", "*", "QUOTE", "BACKSLASH", "TICK", "APOSTROPHE",
   "struct", "x", "0", "{", "}", ".", ":", "="}

OperatorAtoms == {<<":", "=">>, <<".", ".", ".">>, <<"*", "=">>}

(* Every short text; structs with nested braces; escape sequences.           *)
SomeTexts ==
  UNION {[1..n -> Characters \ {"APOSTROPHE", ":", "="}] : n \in 0..3}
    \cup {<<"struct", "{">> \o t : t \in [1..5 -> {"{", "}", "x", "TICK", "LF"}]}
    \cup {<<"QUOTE", "BACKSLASH">> \o t :
            t \in [1..4 -> {"x", "0", "QUOTE", "BACKSLASH"}]}
    \cup {<<"0">> \o t : t \in [1..4 -> {"x", "0", ".", "=", "*"}]}
    \cup {<<"x", "APOSTROPHE">> \o t :
            t \in [1..2 -> {"QUOTE", "TICK", "APOSTROPHE"}]}
=============================================================================
