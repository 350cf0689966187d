-------------------------------- MODULE Parser --------------------------------
(***************************************************************************)
(* The parser of src/src/sql/parser.cpp on the tokens the lexer made.      *)
(*                                                                         *)
(* The parser's functions return [ok, expr, pos]: the expression and the   *)
(* position (from 1, 0 before the first token) they leave the parser at;   *)
(* ok is FALSE when an exception left them, a vector's at() included.  An  *)
(* expression is a record with a field kind.                               *)
(***************************************************************************)
EXTENDS Lexer, Integers
LOCAL INSTANCE SequencesExt
LOCAL INSTANCE FiniteSetsExt

VARIABLE result   \* what parse() returned, <<>> before it did

vars == <<lexvars, result>>

SqlIdentifier(name) == [kind |-> "identifier", name |-> name]
SqlBinaryExpr(l, op, r) == [kind |-> "binary", left |-> l, op |-> op, right |-> r]
SqlSelect(table, projection, selection) ==
  [kind |-> "select", table_name |-> table, projection |-> projection, selection |-> selection]
NoSelection == <<>>

Parsed(expr, pos) == [ok |-> TRUE, expr |-> expr, pos |-> pos]
Thrown == [ok |-> FALSE]

Binary == {"+", "-", "*", "/", "=", "<", ">", ">=", "<="}

\* 0 for a type that is no operator
Precedence(type) ==
  CASE type \in {"=", ">=", "<=", "<", ">"} -> 1
    [] type \in {"+", "-"} -> 2
    [] type \in {"/", "*"} -> 3
    [] type = "(" -> 4
    [] OTHER -> 0

nextTokenPos(ts, pos) == IF pos <= Len(ts) THEN pos + 1 ELSE pos
HasNext(ts, pos) == pos + 1 \in DOMAIN ts
nextPrecedence(ts, pos) == IF HasNext(ts, pos) THEN Precedence(ts[pos + 1].type) ELSE 0

RECURSIVE parse(_, _, _), Infixes(_, _, _)

\* mutant: the operand of an operator takes operators of the same precedence
parseInfix_right(ts, left, precedence) ==
  LET op == ts[left.pos + 1]
      right == parse(ts, left.pos + 1, precedence - 1)
  IN IF op.type \in Binary /\ right.ok
     THEN Parsed(SqlBinaryExpr(left.expr, op.literal, right.expr), right.pos)
     ELSE Thrown

parseInfix(ts, left, precedence) ==
  LET op == ts[left.pos + 1]
      right == parse(ts, left.pos + 1, precedence)
  IN IF op.type \in Binary /\ right.ok
     THEN Parsed(SqlBinaryExpr(left.expr, op.literal, right.expr), right.pos)
     ELSE Thrown

\* What follows the first projection; at() throws when no token follows.
RECURSIVE Projections(_, _, _)
Projections(ts, list, pos) ==
  IF ~HasNext(ts, pos) THEN Thrown
  ELSE IF ts[pos + 1].type # "," THEN Parsed(list, pos)
  ELSE IF ~HasNext(ts, pos + 1) THEN Thrown
  ELSE Projections(ts, Append(list, SqlIdentifier(ts[pos + 2].literal)), pos + 2)

populateProjectionList(ts, pos) ==
  IF HasNext(ts, pos) /\ ts[pos + 1].type \in {"*", "IDENTIFIER"}
  THEN Projections(ts, <<SqlIdentifier(ts[pos + 1].literal)>>, pos + 1)
  ELSE Thrown

\* mutant: the token before the selection is not consumed
parseSelectStatement_where(ts, pos) ==
  LET list == populateProjectionList(ts, pos)
      table == list.pos + 2
      selection == parse(ts, table, 0)
  IN IF ~list.ok THEN Thrown
     ELSE IF ts[list.pos + 1].literal # FROM \/ ~HasNext(ts, list.pos + 1) THEN Thrown
     ELSE IF ~HasNext(ts, table) \/ ts[table + 1].literal # WHERE
     THEN Parsed(SqlSelect(ts[table].literal, list.expr, NoSelection), table)
     ELSE IF ~selection.ok THEN Thrown
     ELSE Parsed(SqlSelect(ts[table].literal, list.expr, selection.expr), selection.pos)

\* pos is at the keyword, whichever it is; FROM and WHERE are told by their
\* literals, and any token can be the table.
parseSelectStatement(ts, pos) ==
  LET list == populateProjectionList(ts, pos)
      table == list.pos + 2
      selection == parse(ts, table + 1, 0)
  IN IF ~list.ok THEN Thrown
     ELSE IF ts[list.pos + 1].literal # FROM \/ ~HasNext(ts, list.pos + 1) THEN Thrown
     ELSE IF ~HasNext(ts, table) \/ ts[table + 1].literal # WHERE
     THEN Parsed(SqlSelect(ts[table].literal, list.expr, NoSelection), table)
     ELSE IF ~selection.ok THEN Thrown
     ELSE Parsed(SqlSelect(ts[table].literal, list.expr, selection.expr), selection.pos)

\* mutant: a token that starts no expression is skipped
parsePrefix_skip(ts, pos) ==
  LET type == ts[pos + 1].type
      inner == parse(ts, pos + 1, 0)
  IN IF ~HasNext(ts, pos) THEN Thrown
     ELSE IF type \in {"IDENTIFIER", "INT"}
     THEN Parsed(SqlIdentifier(ts[pos + 1].literal), pos + 1)
     ELSE IF type = "KEYWORD" THEN parseSelectStatement(ts, pos + 1)
     ELSE IF type # "(" \/ ~inner.ok THEN inner
     ELSE [inner EXCEPT !.pos = nextTokenPos(ts, @)]

\* The token after a parenthesised expression is consumed unseen.
parsePrefix(ts, pos) ==
  LET type == ts[pos + 1].type
      inner == parse(ts, pos + 1, 0)
  IN IF ~HasNext(ts, pos) THEN Thrown
     ELSE IF type \in {"IDENTIFIER", "INT"}
     THEN Parsed(SqlIdentifier(ts[pos + 1].literal), pos + 1)
     ELSE IF type = "KEYWORD" THEN parseSelectStatement(ts, pos + 1)
     ELSE IF type # "(" \/ ~inner.ok THEN Thrown
     ELSE [inner EXCEPT !.pos = nextTokenPos(ts, @)]

\* The loop of parse
Infixes(ts, left, precedence) ==
  LET next == nextPrecedence(ts, left.pos)
  IN IF ~left.ok \/ next <= precedence THEN left
     ELSE Infixes(ts, parseInfix(ts, left, next), precedence)

parse(ts, pos, precedence) == Infixes(ts, parsePrefix(ts, pos), precedence)

Init == LexInit /\ result = <<>>

Lex == LexNext /\ UNCHANGED result

Parse ==
  /\ done /\ result = <<>>
  /\ result' = parse(tokens, 0, 0)
  /\ UNCHANGED lexvars

Next == Lex \/ Parse

\* The loops of nextToken and populateTokens keep running.
Spec == Init /\ [][Next]_vars /\ WF_lexvars(LexNext)

-----------------------------------------------------------------------------
\* How deep in parentheses position i is
Depth(ts, i) ==
  Cardinality({j \in 1 .. i : ts[j].type = "("}) - Cardinality({j \in 1 .. i : ts[j].type = ")"})

\* The operators outside of parentheses
TopOperators(ts) == {i \in DOMAIN ts : ts[i].type \in Binary /\ Depth(ts, i) = 0}
Before(ts, i) == SubSeq(ts, 1, i - 1)
After(ts, i) == SubSeq(ts, i + 1, Len(ts))
Inside(ts) == SubSeq(ts, 2, Len(ts) - 1)

\* expr ::= atom | expr operator atom, atom ::= IDENTIFIER | INT | ( expr )
RECURSIVE IsExpr(_)
IsExpr(ts) ==
  LET ops == TopOperators(ts)
  IN \/ Len(ts) = 1 /\ ts[1].type \in {"IDENTIFIER", "INT"}
     \/ /\ ops = {} /\ Len(ts) > 2
        /\ ts[1].type = "(" /\ Last(ts).type = ")" /\ IsExpr(Inside(ts))
     \/ ops # {} /\ IsExpr(After(ts, Max(ops))) /\ IsExpr(Before(ts, Max(ops)))

\* An expression is split at its last operator of the lowest precedence.
RECURSIVE Tree(_)
Tree(ts) ==
  LET ops == TopOperators(ts)
      low == Min({Precedence(ts[i].type) : i \in ops})
      last == Max({i \in ops : Precedence(ts[i].type) = low})
  IN IF ops # {} THEN SqlBinaryExpr(Tree(Before(ts, last)), ts[last].literal, Tree(After(ts, last)))
     ELSE IF Len(ts) = 1 THEN SqlIdentifier(ts[1].literal)
     ELSE Tree(Inside(ts))

(***************************************************************************)
(* An expression is parsed to its end, and into the tree its operators'    *)
(* precedences say: comparisons bind less than sums, sums less than        *)
(* products, and equal ones to the left (parse, parseInfix).               *)
(***************************************************************************)
ParsesByPrecedence ==
  result # <<>> /\ IsExpr(tokens) => result = Parsed(Tree(tokens), Len(tokens))

\* The position of the first token of literal l, one past the end without one
First(ts, l) == Min({i \in DOMAIN ts : ts[i].literal = l} \cup {Len(ts) + 1})

\* columns: * or identifiers, with a comma between two of them
IsColumns(ts) ==
  /\ Len(ts) % 2 = 1
  /\ \A i \in DOMAIN ts :
       IF i % 2 = 0 THEN ts[i].type = "," ELSE ts[i].type \in {"IDENTIFIER", "*"}

\* SELECT columns FROM table [WHERE expr]
IsSelect(ts) ==
  LET f == First(ts, FROM) w == First(ts, WHERE)
  IN /\ ts # <<>> /\ ts[1].literal = SELECT
     /\ f < Len(ts) /\ IsColumns(SubSeq(ts, 2, f - 1))
     /\ ts[f + 1].type = "IDENTIFIER"
     /\ w = f + 2
     /\ w <= Len(ts) => IsExpr(After(ts, w))

(***************************************************************************)
(* A SELECT statement is parsed to its end, with its columns, its table    *)
(* and the tree of its condition (parseSelectStatement).                   *)
(***************************************************************************)
SelectsAsWritten ==
  result # <<>> /\ IsSelect(tokens) =>
    LET f == First(tokens, FROM) w == First(tokens, WHERE)
    IN result = Parsed(
         SqlSelect(tokens[f + 1].literal,
                   [i \in 1 .. (f - 1) \div 2 |-> SqlIdentifier(tokens[2 * i].literal)],
                   IF w > Len(tokens) THEN NoSelection ELSE Tree(After(tokens, w))),
         Len(tokens))

\* The literals an expression was made from, without parentheses
RECURSIVE Yield(_)
Yield(e) ==
  CASE e.kind = "identifier" -> <<e.name>>
    [] e.kind = "binary" -> Yield(e.left) \o <<e.op>> \o Yield(e.right)
    [] OTHER ->
         <<SELECT, e.projection[1].name>>
           \o FlattenSeq([i \in 1 .. Len(e.projection) - 1 |-> <<<<",">>, e.projection[i + 1].name>>])
           \o <<FROM, e.table_name>>
           \o (IF e.selection = NoSelection THEN <<>> ELSE <<WHERE>> \o Yield(e.selection))

(***************************************************************************)
(* Of the tokens parse consumed none is missing from the expression it     *)
(* returned, whatever the input, when there is no parenthesis among them;  *)
(* every keyword that starts an expression counts as SELECT there          *)
(* (parsePrefix).  What follows the expression is ignored, and the token   *)
(* after a parenthesised one is dropped even if it is no parenthesis.      *)
(***************************************************************************)
NothingDropped ==
  result # <<>> /\ result.ok =>
    LET read == SubSeq(tokens, 1, Min({result.pos, Len(tokens)}))
        written == Yield(result.expr)
    IN (\A i \in DOMAIN read : read[i].type # "(") =>
         /\ Len(written) = Len(read)
         /\ \A i \in DOMAIN read :
              \/ written[i] = read[i].literal
              \/ written[i] = SELECT /\ read[i].type = "KEYWORD"
=============================================================================
