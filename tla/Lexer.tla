-------------------------------- MODULE Lexer --------------------------------
(***************************************************************************)
(* The lexer of src/src/sql/lexer.cpp, driven by Parser::populateTokens:   *)
(* one step per character that is read, or per token that is finished.     *)
(*                                                                         *)
(* An input is a sequence of characters; ahead_position counts from 0 and  *)
(* has Width values (65536 in the code), so an input of that length or     *)
(* longer is read again from its start.  A keyword has one letter here: S  *)
(* is SELECT, F is FROM, W is WHERE and U is any of the other five.        *)
(***************************************************************************)
EXTENDS Naturals, Sequences, FiniteSets

CONSTANTS
  Inputs,     \* the inputs to read
  Width,      \* how many values a u16 has
  MaxTokens   \* bound: no token is added to this many

ASSUME WidthAssumption == Width \in Nat \ {0}

Letter == {"S", "F", "W", "U", "a", "b"}
Digit == {"0", "1"}
Space == {" "}
END == "end"    \* '\0'

\* The token type of a character that is a token by itself
Single == [c \in {"=", "+", "-", ",", ";", "*", "/", "(", ")", "{", "}", "<", ">"} |-> c]

SELECT == <<"S">>
FROM == <<"F">>
WHERE == <<"W">>
keywords == {SELECT, FROM, WHERE, <<"U">>}

Char == Letter \cup Digit \cup Space \cup DOMAIN Single \cup {"#"}

ASSUME InputsAssumption == \A s \in Inputs : s \in Seq(Char)

VARIABLES
  input,
  ahead,    \* ahead_position
  curr,     \* curr_ch
  str,      \* the letters or digits of the token being read
  tokens,   \* Parser::tokens
  done      \* populateTokens has returned

lexvars == <<input, ahead, curr, str, tokens, done>>

CharAt(i) == IF i >= Len(input) THEN END ELSE input[i + 1]

peekNext == CharAt(ahead)

\* n characters on; the last of them is the current one
readChar(n) ==
  /\ curr' = CharAt((ahead + n - 1) % Width)
  /\ ahead' = (ahead + n) % Width

LexInit ==
  /\ input \in Inputs
  /\ curr = IF input = <<>> THEN END ELSE input[1]
  /\ ahead = 1 % Width
  /\ str = <<>>
  /\ tokens = <<>>
  /\ done = FALSE

AddToken(type, literal) ==
  /\ Len(tokens) < MaxTokens
  /\ tokens' = Append(tokens, [type |-> type, literal |-> literal])

\* nextToken is at its first character.
AtStart == ~done /\ str = <<>>

eatWhitespace ==
  /\ AtStart
  /\ curr \in Space
  /\ readChar(1)
  /\ UNCHANGED <<input, str, tokens, done>>

\* mutant: "=" is not looked for after "<" and ">"
OperatorToken_single ==
  /\ AtStart
  /\ curr \in DOMAIN Single
  /\ AddToken(Single[curr], <<curr>>)
  /\ readChar(1)
  /\ UNCHANGED <<input, str, done>>

OperatorToken ==
  /\ AtStart
  /\ curr \in DOMAIN Single
  /\ IF curr \in {"<", ">"} /\ peekNext = "="
     THEN AddToken(IF curr = "<" THEN "<=" ELSE ">=", <<curr, "=">>) /\ readChar(2)
     ELSE AddToken(Single[curr], <<curr>>) /\ readChar(1)
  /\ UNCHANGED <<input, str, done>>

\* populateTokens passes the same token every time, and an illegal one keeps
\* the literal of the token before it.
StaleLiteral == IF tokens = <<>> THEN <<>> ELSE tokens[Len(tokens)].literal

\* mutant: the character stays the current one
IllegalToken_unread ==
  /\ AtStart
  /\ curr \notin Space \cup DOMAIN Single \cup Letter \cup Digit \cup {END}
  /\ AddToken("ILLEGAL", StaleLiteral)
  /\ UNCHANGED <<input, str, done, curr, ahead>>

IllegalToken ==
  /\ AtStart
  /\ curr \notin Space \cup DOMAIN Single \cup Letter \cup Digit \cup {END}
  /\ AddToken("ILLEGAL", StaleLiteral)
  /\ readChar(1)
  /\ UNCHANGED <<input, str, done>>

\* The characters the loop that reads str goes on with
Continues(s) == IF s = <<>> THEN Letter \cup Digit ELSE IF Head(s) \in Letter THEN Letter ELSE Digit

\* One round of the loop that reads a word or a number
TakeChar ==
  /\ ~done
  /\ curr \in Continues(str)
  /\ Len(str) < Width
  /\ str' = Append(str, curr)
  /\ readChar(1)
  /\ UNCHANGED <<input, tokens, done>>

getStringType(s) == IF s \in keywords THEN "KEYWORD" ELSE "IDENTIFIER"

RunEnds ==
  /\ str # <<>>
  /\ curr \notin Continues(str)
  /\ AddToken(IF Head(str) \in Letter THEN getStringType(str) ELSE "INT", str)
  /\ str' = <<>>
  /\ UNCHANGED <<input, ahead, curr, done>>

EndToken ==
  /\ AtStart
  /\ curr = END
  /\ readChar(1)
  /\ done' = TRUE
  /\ UNCHANGED <<input, str, tokens>>

LexNext ==
  \/ eatWhitespace
  \/ OperatorToken
  \/ IllegalToken
  \/ TakeChar
  \/ RunEnds
  \/ EndToken

LexSpec == LexInit /\ [][LexNext]_lexvars
-----------------------------------------------------------------------------
\* The characters from i to j are letters only, or digits only, and neither
\* neighbour could be one more of them.
IsRun(i, j) ==
  \E S \in {Letter, Digit} :
    /\ \A k \in i .. j : input[k] \in S
    /\ i > 1 => input[i - 1] \notin S
    /\ j < Len(input) => input[j + 1] \notin S

IsPair(i) == i \in 1 .. Len(input) - 1 /\ input[i] \in {"<", ">"} /\ input[i + 1] = "="

\* Where the tokens of the input are, by what a token is
Spans ==
  {s \in (1 .. Len(input)) \X (1 .. Len(input)) :
     LET i == s[1] j == s[2]
     IN \/ i <= j /\ IsRun(i, j)
        \/ j = i + 1 /\ IsPair(i)
        \/ /\ j = i /\ ~IsPair(i) /\ ~IsPair(i - 1)
           /\ input[i] \notin Letter \cup Digit \cup Space}

\* The tokens that end at or before j
TokensUpTo(j) == Cardinality({s \in Spans : s[2] <= j})

(***************************************************************************)
(* An input shorter than Width is cut into its tokens: there is one for    *)
(* every longest run of letters or of digits, every "<=" and ">=" and every *)
(* other character that is not white space, in the order of the input, and *)
(* it holds those characters unless it is illegal (nextToken).             *)
(***************************************************************************)
TokensAreSpans ==
  done /\ Len(input) < Width =>
    /\ Len(tokens) = Cardinality(Spans)
    /\ \A s \in Spans :
         LET t == tokens[TokensUpTo(s[2])]
             text == SubSeq(input, s[1], s[2])
         IN IF text = <<"#">> THEN t.type = "ILLEGAL"
            ELSE t.literal = text /\ (t.type = "KEYWORD" <=> text \in keywords)

(***************************************************************************)
(* populateTokens ends for an input shorter than Width.  (From that length *)
(* on ahead_position wraps and readChar never sees the end.)               *)
(***************************************************************************)
LexEnds == Len(input) < Width ~> done
=============================================================================
