------------------------------ MODULE MCParser ------------------------------
(* Instances of Parser for TLC. *)
EXTENDS Parser
LOCAL INSTANCE SequencesExt

\* Every string of up to n characters of S
Strings(S, n) == UNION {[1 .. k -> S] : k \in 0 .. n}

\* The characters with a space between each two
Spaced(s) == [i \in 1 .. 2 * Len(s) - 1 |-> IF i % 2 = 1 THEN s[(i + 1) \div 2] ELSE " "]

\* Every way a lexer's rules can meet in four characters
Short == Strings({"a", "S", "1", " ", "<", "=", "#", "*"}, 4)

\* Short lists of tokens, legal or not
Lists == {Spaced(s) : s \in Strings({"a", "+", "*", "=", "(", ")", "S", "F", "U", ","}, 4) \ {<<>>}}

\* Expressions of three to five operands
Atom == {<<"a">>, <<"(", "b", ")">>}
Op == {<<"=">>, <<"+">>, <<"*">>}
Sum == {a \o o \o b : a \in Atom, o \in Op, b \in Atom}
Group == {<<"(">> \o s \o <<")">> : s \in Sum}
Exprs == {a \o o \o b \o p \o c : a \in {<<"a">>} \cup Group, o \in Op, b \in {<<"b">>} \cup Group, p \in Op, c \in Atom}

\* SELECT statements, some of them cut or with a part missing
Selects ==
  {<<"S">> \o c \o f \o t \o w : c \in {<<"a">>, <<"*">>, <<"a", ",", "b">>, <<"a", "b">>, <<"a", ",">>},
                               f \in {<<>>, <<"F">>, <<"#">>, <<"F", "#">>},
                               t \in {<<>>, <<"a">>},
                               w \in {<<>>, <<"W">>, <<"W", "a", "=", "1">>, <<"W", "(", "a", ")", "<", "1", "+", "1">>}}

\* As long as the cursor's range and longer: a word, white space, operators
Wrapping == {[i \in 1 .. n |-> c] : n \in {Width, Width + 1}, c \in {"a", " ", "+", "#"}}
              \cup {[i \in 1 .. Width - 1 |-> c] : c \in {"a", " ", "+", "#"}}

Mixed == Short \cup Lists \cup {Spaced(s) : s \in Exprs \cup Selects} \cup Wrapping
=============================================================================
