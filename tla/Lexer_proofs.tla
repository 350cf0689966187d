----------------------------- MODULE Lexer_proofs -----------------------------
(***************************************************************************)
(* The lexer cuts every input that is shorter than Width into its tokens,  *)
(* for every set of inputs and every Width.                                *)
(***************************************************************************)
EXTENDS Lexer, Integers, SequenceTheorems, FiniteSetTheorems, TLAPS
-----------------------------------------------------------------------------
(* Where the tokens of an input are. *)

\* No token goes over the end of the first b characters.
Break(b) ==
  /\ b \in 1 .. Len(input) - 1 =>
       \A S \in {Letter, Digit} : input[b] \in S => input[b + 1] \notin S
  /\ ~IsPair(b)

UpTo(j) == {s \in Spans : s[2] <= j}

\* The classes of characters have no member in common.
LEMMA Classes ==
  /\ Letter \cap Digit = {}
  /\ \A c \in Letter \cup Digit : c \notin Space /\ c \notin DOMAIN Single /\ c # "<" /\ c # ">"
  /\ \A c \in DOMAIN Single : c \notin Space
  /\ "=" \in DOMAIN Single /\ "<" \in DOMAIN Single /\ ">" \in DOMAIN Single
  /\ END \notin Char
BY Zenon DEF Letter, Digit, Space, Single, END, Char

\* A span begins no later than it ends, inside the input.
LEMMA SpanBounds ==
  ASSUME NEW s \in Spans, input \in Seq(Char)
  PROVE  /\ s = <<s[1], s[2]>> /\ s[1] \in 1 .. Len(input) /\ s[2] \in 1 .. Len(input)
         /\ s[1] <= s[2]
         /\ \/ IsRun(s[1], s[2])
            \/ s[2] = s[1] + 1 /\ IsPair(s[1])
            \/ /\ s[2] = s[1] /\ ~IsPair(s[1]) /\ ~IsPair(s[1] - 1)
               /\ input[s[1]] \notin Letter \cup Digit \cup Space
BY DEF Spans

\* There are finitely many of them.
LEMMA SpansFinite ==
  ASSUME input \in Seq(Char)
  PROVE  /\ IsFiniteSet(Spans)
         /\ \A j : IsFiniteSet(UpTo(j)) /\ Cardinality(UpTo(j)) \in Nat
<1> DEFINE I == 1 .. Len(input)
<1>1. IsFiniteSet(I)
  BY LenProperties, FS_Interval
<1> HIDE DEF I
<1>2. IsFiniteSet(I \X I)
  BY <1>1, FS_Product
<1>3. Spans \subseteq I \X I
  BY DEF Spans, I
<1>4. IsFiniteSet(Spans)
  BY <1>2, <1>3, FS_Subset, Zenon
<1>5. ASSUME NEW j
      PROVE  IsFiniteSet(UpTo(j)) /\ Cardinality(UpTo(j)) \in Nat
  <2>1. UpTo(j) \subseteq Spans
    BY DEF UpTo
  <2>2. IsFiniteSet(UpTo(j))
    BY <1>4, <2>1, FS_Subset, Zenon
  <2> QED
    BY <2>2, FS_CardinalityType
<1> QED
  BY <1>4, <1>5

\* A span that ends behind a break begins behind it.
LEMMA BehindBreak ==
  ASSUME input \in Seq(Char), NEW b \in 0 .. Len(input), Break(b),
         NEW s \in Spans, s[2] > b
  PROVE  s[1] > b
<1> SUFFICES ASSUME s[1] <= b
             PROVE  FALSE
  BY SpanBounds
<1>1. /\ s[1] \in 1 .. Len(input) /\ s[2] \in 1 .. Len(input) /\ Len(input) \in Nat
      /\ b \in s[1] .. s[2] /\ b + 1 \in s[1] .. s[2] /\ b \in 1 .. Len(input) - 1
  BY SpanBounds, LenProperties
<1>2. CASE IsRun(s[1], s[2])
  <2>1. PICK S \in {Letter, Digit} : \A k \in s[1] .. s[2] : input[k] \in S
    BY <1>2 DEF IsRun
  <2>2. input[b] \in S /\ input[b + 1] \in S
    BY <1>1, <2>1, Zenon
  <2> QED
    BY <1>1, <2>2, Zenon DEF Break
<1>3. CASE s[2] = s[1] + 1 /\ IsPair(s[1])
  <2>1. b = s[1]
    BY <1>1, <1>3
  <2> QED
    BY <1>3, <2>1 DEF Break
<1>4. CASE s[2] = s[1]
  BY <1>1, <1>4
<1> QED
  BY <1>2, <1>3, <1>4, SpanBounds

\* A span inside another one is that one.
LEMMA NoSpanInside ==
  ASSUME input \in Seq(Char), NEW s \in Spans, NEW t \in Spans,
         t[1] <= s[1], s[2] <= t[2]
  PROVE  s = t
<1>1. /\ s = <<s[1], s[2]>> /\ t = <<t[1], t[2]>> /\ Len(input) \in Nat
      /\ s[1] \in 1 .. Len(input) /\ s[2] \in 1 .. Len(input) /\ s[1] <= s[2]
      /\ t[1] \in 1 .. Len(input) /\ t[2] \in 1 .. Len(input) /\ t[1] <= t[2]
  BY SpanBounds, LenProperties
<1> SUFFICES s[1] = t[1] /\ s[2] = t[2]
  BY <1>1, Zenon
<1>2. CASE IsRun(t[1], t[2])
  <2>1. PICK T \in {Letter, Digit} : \A k \in t[1] .. t[2] : input[k] \in T
    BY <1>2 DEF IsRun
  <2>2. \A k \in s[1] .. s[2] : input[k] \in T
    BY <1>1, <2>1, SMTT(30)
  <2>3. s[1] \in s[1] .. s[2] /\ s[2] \in s[1] .. s[2]
    BY <1>1
  <2>4. input[s[1]] \in T /\ input[s[2]] \in T /\ T \subseteq Letter \cup Digit
    BY <2>2, <2>3
  <2>5. IsRun(s[1], s[2])
    <3>1. ~IsPair(s[1])
      BY <2>4, Classes DEF IsPair
    <3> QED
      BY <2>4, <3>1, SpanBounds
  <2>6. PICK S \in {Letter, Digit} : /\ \A k \in s[1] .. s[2] : input[k] \in S
                                     /\ s[1] > 1 => input[s[1] - 1] \notin S
                                     /\ s[2] < Len(input) => input[s[2] + 1] \notin S
    BY <2>5 DEF IsRun
  <2>7. S = T
    BY <2>3, <2>4, <2>6, Classes
  <2>8. s[1] = t[1]
    <3> SUFFICES ASSUME s[1] > t[1]
                 PROVE  FALSE
      BY <1>1
    <3>1. s[1] > 1 /\ s[1] - 1 \in t[1] .. t[2]
      BY <1>1
    <3> QED
      BY <2>1, <2>6, <2>7, <3>1
  <2>9. s[2] = t[2]
    <3> SUFFICES ASSUME s[2] < t[2]
                 PROVE  FALSE
      BY <1>1
    <3>1. s[2] < Len(input) /\ s[2] + 1 \in t[1] .. t[2]
      BY <1>1
    <3> QED
      BY <2>1, <2>6, <2>7, <3>1
  <2> QED
    BY <2>8, <2>9
<1>3. CASE t[2] = t[1] + 1 /\ IsPair(t[1])
  <2>1. s[1] = t[1] \/ s[1] = t[1] + 1
    BY <1>1, <1>3
  <2>2. input[t[1]] \in {"<", ">"} /\ input[t[1] + 1] = "="
    BY <1>3 DEF IsPair
  <2>3. input[s[1]] \notin Letter \cup Digit
    BY <2>1, <2>2, Classes
  <2>4. ~IsRun(s[1], s[2])
    <3>1. s[1] \in s[1] .. s[2]
      BY <1>1
    <3> QED
      BY <2>3, <3>1 DEF IsRun
  <2>5. CASE s[2] = s[1] + 1 /\ IsPair(s[1])
    BY <1>1, <1>3, <2>1, <2>5
  <2>6. CASE ~IsPair(s[1]) /\ ~IsPair(s[1] - 1)
    <3>1. CASE s[1] = t[1]
      BY <1>3, <2>6, <3>1
    <3>2. CASE s[1] = t[1] + 1
      <4>1. s[1] - 1 = t[1]
        BY <1>1, <3>2
      <4> QED
        BY <1>3, <2>6, <4>1
    <3> QED
      BY <2>1, <3>1, <3>2
  <2> QED
    BY <2>4, <2>5, <2>6, SpanBounds
<1>4. CASE t[2] = t[1]
  BY <1>1, <1>4
<1> QED
  BY <1>2, <1>3, <1>4, SpanBounds

\* The tokens up to the end of a token that begins behind a break.
LEMMA NextSpan ==
  ASSUME input \in Seq(Char), NEW b \in 0 .. Len(input), Break(b),
         NEW j, <<b + 1, j>> \in Spans
  PROVE  /\ UpTo(j) = UpTo(b) \cup {<<b + 1, j>>}
         /\ TokensUpTo(j) = TokensUpTo(b) + 1
<1> DEFINE t == <<b + 1, j>>
<1>1. t[1] = b + 1 /\ t[2] = j
  OBVIOUS
<1>2. t \in Spans
  OBVIOUS
<1> HIDE DEF t
<1>3. j \in 1 .. Len(input) /\ b < j /\ Len(input) \in Nat
  BY <1>1, <1>2, SpanBounds, LenProperties
<1>4. ASSUME NEW s \in Spans, s[2] <= j, s[2] > b
      PROVE  s = t
  <2>1. s[1] > b /\ s[1] \in Nat
    BY <1>4, BehindBreak, SpanBounds
  <2>2. t[1] <= s[1] /\ s[2] <= t[2]
    BY <1>1, <1>4, <2>1
  <2> QED
    BY <1>2, <2>2, NoSpanInside
<1>5. ASSUME NEW s \in Spans
      PROVE  s[2] \in Nat
  BY SpanBounds
<1>6. UpTo(j) = UpTo(b) \cup {t}
  BY <1>1, <1>2, <1>3, <1>4, <1>5 DEF UpTo
<1>7. t \notin UpTo(b)
  BY <1>1, <1>3 DEF UpTo
<1>8. Cardinality(UpTo(j)) = Cardinality(UpTo(b)) + 1
  BY <1>6, <1>7, SpansFinite, FS_AddElement, Zenon
<1> QED
  BY <1>6, <1>8, Zenon DEF TokensUpTo, UpTo, t

\* White space behind a break belongs to no token.
LEMMA SkipSpace ==
  ASSUME input \in Seq(Char), NEW b \in 0 .. Len(input) - 1, Break(b),
         input[b + 1] \in Space
  PROVE  /\ UpTo(b + 1) = UpTo(b)
         /\ TokensUpTo(b + 1) = TokensUpTo(b)
         /\ Break(b + 1)
<1>1. b \in 0 .. Len(input) /\ Len(input) \in Nat
  BY LenProperties
<1>2. input[b + 1] \notin Letter \cup Digit /\ input[b + 1] \notin {"<", ">"}
  BY Classes
<1>3. ASSUME NEW s \in Spans, s[2] <= b + 1
      PROVE  s[2] <= b
  <2> SUFFICES ASSUME s[2] > b
               PROVE  FALSE
    BY <1>1, SpanBounds
  <2>1. s[1] = b + 1 /\ s[2] = b + 1
    BY <1>1, <1>3, BehindBreak, SpanBounds
  <2>2. s[1] \in s[1] .. s[2]
    BY <2>1, SpanBounds
  <2>3. ~IsRun(s[1], s[2])
    BY <1>2, <2>1, <2>2 DEF IsRun
  <2>4. s[2] # s[1] + 1
    BY <1>1, <2>1
  <2> QED
    BY <2>1, <2>3, <2>4, SpanBounds
<1>4. ASSUME NEW s \in Spans
      PROVE  s[2] \in Nat
  BY SpanBounds
<1>5. UpTo(b + 1) = UpTo(b)
  BY <1>1, <1>3, <1>4 DEF UpTo
<1>6. Break(b + 1)
  BY <1>1, <1>2 DEF Break, IsPair
<1> QED
  BY <1>5, <1>6, Zenon DEF TokensUpTo, UpTo

\* The number of a token that ends at or before b.
LEMMA TokenNumber ==
  ASSUME input \in Seq(Char), NEW b \in Nat, NEW s \in Spans, s[2] <= b
  PROVE  TokensUpTo(s[2]) \in 1 .. TokensUpTo(b) /\ TokensUpTo(b) \in Nat
<1>1. /\ IsFiniteSet(UpTo(b)) /\ Cardinality(UpTo(b)) \in Nat
      /\ IsFiniteSet(UpTo(s[2])) /\ Cardinality(UpTo(s[2])) \in Nat
  BY SpansFinite
<1>2. s[2] \in Nat /\ \A x \in Spans : x[2] \in Nat
  BY SpanBounds
<1>3. UpTo(s[2]) \subseteq UpTo(b) /\ s \in UpTo(s[2])
  BY <1>2 DEF UpTo
<1>4. Cardinality(UpTo(s[2])) <= Cardinality(UpTo(b))
  BY <1>1, <1>3, FS_Subset
<1>5. Cardinality(UpTo(s[2])) # 0
  BY <1>1, <1>3, FS_EmptySet
<1>6. Cardinality(UpTo(s[2])) \in 1 .. Cardinality(UpTo(b))
  BY <1>1, <1>4, <1>5
<1> QED
  BY <1>1, <1>6, Zenon DEF TokensUpTo, UpTo
-----------------------------------------------------------------------------
(* The tokens that were read. *)

TokenType == DOMAIN Single \cup {"<=", ">=", "ILLEGAL", "KEYWORD", "IDENTIFIER", "INT"}

Tok == [type : TokenType, literal : Seq(Char)]

\* Token t is the one of span s.
IsToken(t, s) ==
  LET text == SubSeq(input, s[1], s[2])
  IN IF text = <<"#">> THEN t.type = "ILLEGAL"
     ELSE t.literal = text /\ (t.type = "KEYWORD" <=> text \in keywords)

\* The tokens in toks are those of the first b characters.
CutInto(toks, b) ==
  /\ Break(b)
  /\ Len(toks) = TokensUpTo(b)
  /\ \A s \in Spans : s[2] <= b => IsToken(toks[TokensUpTo(s[2])], s)

\* What a run of letters or digits that begins with c goes on with
Class(c) == IF c \in Letter THEN Letter ELSE Digit

\* The characters from b + 1 to pos can be the beginning of a run.
RunSoFar(b, pos) ==
  b < pos => /\ input[b + 1] \in Letter \cup Digit
             /\ \A k \in b + 1 .. pos : input[k] \in Class(input[b + 1])

\* pos characters were read: the next one is c, ahead_position is a, the first b
\* are cut into toks and w holds the others.
ReadTo(pos, b, a, c, w, toks) ==
  /\ pos \in 0 .. Len(input) /\ b \in 0 .. pos
  /\ a = (pos + 1) % Width
  /\ c = CharAt(pos)
  /\ w = SubSeq(input, b + 1, pos)
  /\ RunSoFar(b, pos)
  /\ CutInto(toks, b)

IInv ==
  /\ input \in Seq(Char)
  /\ tokens \in Seq(Tok)
  /\ str \in Seq(Char)
  /\ done \in BOOLEAN
  /\ done => str = <<>>
  /\ Len(input) < Width =>
       IF done THEN CutInto(tokens, Len(input))
       ELSE \E pos, b \in Nat : ReadTo(pos, b, ahead, curr, str, tokens)

\* What is said of the input does not change with the rest.
LEMMA SameInput ==
  ASSUME input' = input
  PROVE  /\ Spans' = Spans
         /\ \A b : Break(b)' <=> Break(b)
         /\ \A j : TokensUpTo(j)' = TokensUpTo(j)
         /\ \A t, s : IsToken(t, s)' <=> IsToken(t, s)
         /\ \A i : CharAt(i)' = CharAt(i)
         /\ \A b, pos : RunSoFar(b, pos)' <=> RunSoFar(b, pos)
<1>1. Spans' = Spans
  BY DEF Spans, IsRun, IsPair
<1>2. \A b : Break(b)' <=> Break(b)
  BY DEF Break, IsPair
<1>3. \A j : TokensUpTo(j)' = TokensUpTo(j)
  BY <1>1 DEF TokensUpTo
<1>4. \A t, s : IsToken(t, s)' <=> IsToken(t, s)
  BY DEF IsToken
<1>5. \A i : CharAt(i)' = CharAt(i)
  BY DEF CharAt
<1>6. \A b, pos : RunSoFar(b, pos)' <=> RunSoFar(b, pos)
  BY DEF RunSoFar
<1> QED
  BY <1>1, <1>2, <1>3, <1>4, <1>5, <1>6

\* What makes the invariant hold after a step.
LEMMA ToInv ==
  ASSUME input' = input, input \in Seq(Char), tokens' \in Seq(Tok), str' \in Seq(Char),
         done' \in BOOLEAN, done' => str' = <<>>,
         Len(input) < Width =>
           IF done' THEN CutInto(tokens', Len(input))
           ELSE \E pos, b \in Nat : ReadTo(pos, b, ahead', curr', str', tokens')
  PROVE  IInv'
<1>1. \A b : CutInto(tokens', b) => CutInto(tokens, b)'
  BY SameInput, Zenon DEF CutInto
<1>2. \A pos, b : ReadTo(pos, b, ahead', curr', str', tokens')
                    => ReadTo(pos, b, ahead, curr, str, tokens)'
  BY <1>1, SameInput, Zenon DEF ReadTo
<1>3. (Len(input) < Width)' => Len(input) < Width
  OBVIOUS
<1>4. CutInto(tokens', Len(input)) => CutInto(tokens, Len(input))'
  BY <1>1, Zenon
<1> QED
  BY <1>2, <1>3, <1>4, Zenon DEF IInv

\* One character of the input.
LEMMA OneChar ==
  ASSUME input \in Seq(Char), NEW i \in 1 .. Len(input)
  PROVE  SubSeq(input, i, i) = <<input[i]>> /\ input[i] \in Char
<1>1. input[i] \in Char
  BY ElementOfSeq
<1>2. \A k \in i .. i : input[k] \in Char
  BY <1>1
<1> DEFINE u == SubSeq(input, i, i)
<1>3. u \in Seq(Char) /\ Len(u) = 1 /\ u[1] = input[i]
  BY <1>2, SubSeqProperties
<1> HIDE DEF u
<1>4. u = <<input[i]>>
  BY <1>1, <1>3
<1> QED
  BY <1>1, <1>4 DEF u

\* Two characters of the input.
LEMMA TwoChars ==
  ASSUME input \in Seq(Char), NEW i \in 1 .. Len(input) - 1
  PROVE  SubSeq(input, i, i + 1) = <<input[i], input[i + 1]>>
<1>0. Len(input) \in Nat
  BY LenProperties
<1>1. input[i] \in Char /\ input[i + 1] \in Char
  BY <1>0, ElementOfSeq
<1>2. \A k \in i .. i + 1 : input[k] \in Char
  BY <1>1
<1> DEFINE u == SubSeq(input, i, i + 1)
<1>3. /\ u \in Seq(Char) /\ Len(u) = 2
      /\ u[1] = input[i] /\ u[2] = input[i + 1]
  BY <1>2, SubSeqProperties
<1> HIDE DEF u
<1>4. u = <<input[i], input[i + 1]>>
  BY <1>1, <1>3
<1> QED
  BY <1>4 DEF u

\* A part of the input and the character behind it.
LEMMA OneMore ==
  ASSUME input \in Seq(Char), NEW pos \in 0 .. Len(input) - 1, NEW b \in 0 .. pos
  PROVE  Append(SubSeq(input, b + 1, pos), input[pos + 1]) = SubSeq(input, b + 1, pos + 1)
<1> DEFINE u == SubSeq(input, b + 1, pos)
           v == SubSeq(input, b + 1, pos + 1)
<1>1. Len(input) \in Nat /\ \A k \in 1 .. Len(input) : input[k] \in Char
  BY LenProperties, ElementOfSeq
<1>2. input[pos + 1] \in Char /\ \A k \in b + 1 .. pos + 1 : input[k] \in Char
  BY <1>1
<1>3. /\ u \in Seq(Char) /\ Len(u) = pos - b
      /\ \A k \in 1 .. pos - b : u[k] = input[b + k]
  BY <1>2, SubSeqProperties
<1>4. /\ v \in Seq(Char) /\ Len(v) = pos + 1 - b
      /\ \A k \in 1 .. pos + 1 - b : v[k] = input[b + k]
  BY <1>2, SubSeqProperties
<1> HIDE DEF u, v
<1> DEFINE w == Append(u, input[pos + 1])
<1>5. /\ w \in Seq(Char) /\ Len(w) = Len(u) + 1
      /\ \A k \in 1 .. Len(u) : w[k] = u[k]
      /\ w[Len(u) + 1] = input[pos + 1]
  BY <1>2, <1>3, AppendProperties
<1> HIDE DEF w
<1>6. \A k \in 1 .. Len(w) : w[k] = v[k]
  BY <1>3, <1>4, <1>5
<1>7. w = v
  BY <1>3, <1>4, <1>5, <1>6, SeqEqual
<1> QED
  BY <1>7, Zenon DEF w, u, v

\* What of the input is in str.
LEMMA PartOf ==
  ASSUME input \in Seq(Char), NEW pos \in 0 .. Len(input), NEW b \in 0 .. pos
  PROVE  /\ SubSeq(input, b + 1, pos) \in Seq(Char)
         /\ SubSeq(input, b + 1, pos) = <<>> <=> b = pos
         /\ b < pos => Head(SubSeq(input, b + 1, pos)) = input[b + 1]
<1> DEFINE u == SubSeq(input, b + 1, pos)
<1>1. Len(input) \in Nat /\ \A k \in 1 .. Len(input) : input[k] \in Char
  BY LenProperties, ElementOfSeq
<1>2. \A k \in b + 1 .. pos : input[k] \in Char
  BY <1>1
<1>3. u \in Seq(Char) /\ Len(u) = pos - b
  BY <1>2, SubSeqProperties
<1>4. b < pos => Head(u) = input[b + 1]
  BY <1>1, HeadTailOfSubSeq
<1> HIDE DEF u
<1>5. Len(u) = 0 <=> b = pos
  BY <1>3
<1>6. u = <<>> <=> b = pos
  BY <1>3, <1>5, EmptySeq, Zenon
<1> QED
  BY <1>3, <1>4, <1>6, Zenon DEF u

\* ahead_position does not wrap before the end of an input shorter than Width.
LEMMA NoWrap ==
  ASSUME NEW n \in Nat, n < Width
  PROVE  n % Width = n
BY WidthAssumption

\* A token of the next span is added.
LEMMA TokenAdded ==
  ASSUME input \in Seq(Char), NEW toks \in Seq(Tok), NEW b \in 0 .. Len(input),
         CutInto(toks, b), NEW j \in Nat, <<b + 1, j>> \in Spans, Break(j),
         NEW x \in Tok, IsToken(x, <<b + 1, j>>)
  PROVE  CutInto(Append(toks, x), j)
<1> DEFINE w == Append(toks, x)
<1>1. /\ UpTo(j) = UpTo(b) \cup {<<b + 1, j>>}
      /\ TokensUpTo(j) = TokensUpTo(b) + 1
  BY NextSpan DEF CutInto
<1>2. /\ Len(w) = Len(toks) + 1
      /\ \A k \in 1 .. Len(toks) : w[k] = toks[k]
      /\ w[Len(toks) + 1] = x
  BY AppendProperties
<1>3. Len(toks) = TokensUpTo(b) /\ b \in Nat
  BY DEF CutInto
<1> HIDE DEF w
<1>4. ASSUME NEW s \in Spans, s[2] <= j
      PROVE  IsToken(w[TokensUpTo(s[2])], s)
  <2>1. s \in UpTo(b) \/ s = <<b + 1, j>>
    BY <1>1, <1>4 DEF UpTo
  <2>2. CASE s \in UpTo(b)
    <3>1. s[2] <= b
      BY <2>2 DEF UpTo
    <3>2. TokensUpTo(s[2]) \in 1 .. Len(toks)
      BY <1>3, <3>1, TokenNumber
    <3>3. IsToken(toks[TokensUpTo(s[2])], s)
      BY <3>1 DEF CutInto
    <3> QED
      BY <1>2, <3>2, <3>3
  <2>3. CASE s = <<b + 1, j>>
    <3>1. s[2] = j
      BY <2>3
    <3>2. w[TokensUpTo(s[2])] = x
      BY <1>1, <1>2, <1>3, <3>1
    <3> QED
      BY <2>3, <3>2
  <2> QED
    BY <2>1, <2>2, <2>3
<1>5. Len(w) = TokensUpTo(j)
  BY <1>1, <1>2, <1>3
<1> QED
  BY <1>4, <1>5, Zenon DEF CutInto, w

\* readChar(1) before the end of the input.
LEMMA ReadsOne ==
  ASSUME input \in Seq(Char), Len(input) < Width, NEW pos \in 0 .. Len(input) - 1,
         ahead = (pos + 1) % Width, readChar(1)
  PROVE  curr' = CharAt(pos + 1) /\ ahead' = (pos + 2) % Width
<1>1. Len(input) \in Nat /\ pos + 1 \in Nat /\ pos + 1 < Width /\ Width \in Nat
  BY LenProperties, WidthAssumption
<1>2. ahead = pos + 1
  BY <1>1, NoWrap
<1>3. ahead + 1 - 1 = pos + 1 /\ ahead + 1 = pos + 2
  BY <1>1, <1>2
<1> QED
  BY <1>1, <1>3, NoWrap DEF readChar

\* readChar(2) before the last character of the input.
LEMMA ReadsTwo ==
  ASSUME input \in Seq(Char), Len(input) < Width, NEW pos \in 0 .. Len(input) - 2,
         ahead = (pos + 1) % Width, readChar(2)
  PROVE  curr' = CharAt(pos + 2) /\ ahead' = (pos + 3) % Width
<1>1. /\ Len(input) \in Nat /\ pos + 1 \in Nat /\ pos + 1 < Width
      /\ pos + 2 \in Nat /\ pos + 2 < Width /\ Width \in Nat
  BY LenProperties, WidthAssumption
<1>2. ahead = pos + 1
  BY <1>1, NoWrap
<1>3. ahead + 2 - 1 = pos + 2 /\ ahead + 2 = pos + 3
  BY <1>1, <1>2
<1> QED
  BY <1>1, <1>3, NoWrap DEF readChar

\* What the current character says of the position.
LEMMA Position ==
  ASSUME input \in Seq(Char), NEW pos \in 0 .. Len(input)
  PROVE  /\ CharAt(pos) # END => /\ pos \in 0 .. Len(input) - 1
                                 /\ CharAt(pos) = input[pos + 1]
                                 /\ CharAt(pos) \in Char
         /\ CharAt(pos) = END => pos = Len(input)
<1>1. Len(input) \in Nat
  BY LenProperties
<1>2. pos < Len(input) => input[pos + 1] \in Char
  BY <1>1, ElementOfSeq
<1> QED
  BY <1>1, <1>2, Classes DEF CharAt

\* Between two tokens nothing is in str.
LEMMA AtRest ==
  ASSUME input \in Seq(Char), NEW j \in 0 .. Len(input), NEW toks, CutInto(toks, j)
  PROVE  ReadTo(j, j, (j + 1) % Width, CharAt(j), <<>>, toks)
<1>1. SubSeq(input, j + 1, j) = <<>> /\ Len(input) \in Nat /\ j \in 0 .. j
  BY PartOf, LenProperties
<1>2. RunSoFar(j, j)
  BY <1>1 DEF RunSoFar
<1> QED
  BY <1>1, <1>2 DEF ReadTo

\* The bounds of what was read, and that it is all cut when str is empty.
LEMMA Read ==
  ASSUME input \in Seq(Char), NEW pos, NEW b, NEW a, NEW c, NEW w, NEW toks,
         ReadTo(pos, b, a, c, w, toks)
  PROVE  /\ pos \in 0 .. Len(input) /\ b \in 0 .. pos /\ b \in 0 .. Len(input)
         /\ Len(input) \in Nat
         /\ w = <<>> <=> b = pos
<1>1. /\ pos \in 0 .. Len(input) /\ b \in 0 .. pos
      /\ w = SubSeq(input, b + 1, pos) /\ Len(input) \in Nat
  BY LenProperties DEF ReadTo
<1>2. SubSeq(input, b + 1, pos) = <<>> <=> b = pos
  BY <1>1, PartOf, Zenon
<1>3. b \in 0 .. Len(input)
  BY <1>1
<1> QED
  BY <1>1, <1>2, <1>3, Zenon

\* Where nextToken is at its first character.
LEMMA NothingRead ==
  ASSUME input \in Seq(Char), NEW pos, NEW b,
         ReadTo(pos, b, ahead, curr, str, tokens), AtStart
  PROVE  /\ pos \in 0 .. Len(input) /\ b = pos /\ Len(input) \in Nat
         /\ ahead = (pos + 1) % Width /\ curr = CharAt(pos) /\ CutInto(tokens, pos)
<1>1. str = <<>>
  BY DEF AtStart
<1>2. pos \in 0 .. Len(input) /\ b = pos /\ Len(input) \in Nat
  BY <1>1, Read, Zenon
<1> QED
  BY <1>2, Zenon DEF ReadTo

\* A character that is a token by itself.
LEMMA SingleSpan ==
  ASSUME input \in Seq(Char), NEW b \in 0 .. Len(input) - 1, Break(b),
         input[b + 1] \notin Letter \cup Digit \cup Space, ~IsPair(b + 1)
  PROVE  <<b + 1, b + 1>> \in Spans /\ Break(b + 1)
<1>1. Len(input) \in Nat /\ b + 1 \in 1 .. Len(input) /\ (b + 1) - 1 = b
  BY LenProperties
<1>2. ~IsPair((b + 1) - 1)
  BY <1>1 DEF Break
<1>3. <<b + 1, b + 1>> \in Spans
  BY <1>1, <1>2 DEF Spans
<1>4. Break(b + 1)
  BY DEF Break
<1> QED
  BY <1>3, <1>4

\* "<=" or ">=".
LEMMA PairSpan ==
  ASSUME input \in Seq(Char), NEW b \in 0 .. Len(input) - 2, IsPair(b + 1)
  PROVE  <<b + 1, b + 2>> \in Spans /\ Break(b + 2)
<1>1. /\ Len(input) \in Nat /\ b + 1 \in 1 .. Len(input) /\ b + 2 \in 1 .. Len(input)
      /\ b + 2 = (b + 1) + 1
  BY LenProperties
<1>2. input[b + 2] = "="
  BY <1>1 DEF IsPair
<1>3. input[b + 2] \notin Letter /\ input[b + 2] \notin Digit /\ input[b + 2] \notin {"<", ">"}
  BY <1>2 DEF Letter, Digit
<1>4. <<b + 1, b + 2>> \in Spans
  BY <1>1 DEF Spans
<1>5. Break(b + 2)
  BY <1>3 DEF Break, IsPair
<1> QED
  BY <1>4, <1>5

\* A run of letters or digits that does not go on.
LEMMA RunSpan ==
  ASSUME input \in Seq(Char), NEW pos \in 0 .. Len(input), NEW b \in 0 .. pos, b < pos,
         Break(b), RunSoFar(b, pos),
         pos < Len(input) => input[pos + 1] \notin Class(input[b + 1])
  PROVE  <<b + 1, pos>> \in Spans /\ Break(pos)
<1> DEFINE S == Class(input[b + 1])
<1>1. Len(input) \in Nat /\ b + 1 \in 1 .. Len(input) /\ pos \in 1 .. Len(input) /\ b + 1 <= pos
  BY LenProperties
<1>2. \A k \in b + 1 .. pos : input[k] \in S
  BY DEF RunSoFar
<1>3. S \in {Letter, Digit} /\ input[b + 1] \in S /\ input[pos] \in S
  BY <1>1, <1>2 DEF Class
<1> HIDE DEF S
<1>4. b + 1 > 1 => input[(b + 1) - 1] \notin S
  BY <1>1, <1>3 DEF Break
<1>5. pos < Len(input) => input[pos + 1] \notin S
  BY DEF S
<1>6. IsRun(b + 1, pos)
  BY <1>2, <1>3, <1>4, <1>5 DEF IsRun
<1>7. <<b + 1, pos>> \in Spans
  BY <1>1, <1>6 DEF Spans
<1>8. \A T \in {Letter, Digit} : input[pos] \in T => T = S
  BY <1>3, Classes
<1>9. ~IsPair(pos)
  BY <1>3, Classes DEF IsPair
<1>10. Break(pos)
  BY <1>5, <1>8, <1>9 DEF Break
<1> QED
  BY <1>7, <1>10

\* eatWhitespace moves on by one character that belongs to no token.
LEMMA SpaceStep ==
  ASSUME input \in Seq(Char), Len(input) < Width, NEW pos, NEW b,
         ReadTo(pos, b, ahead, curr, str, tokens), eatWhitespace
  PROVE  ReadTo(pos + 1, pos + 1, ahead', curr', str', tokens')
<1>1. /\ pos \in 0 .. Len(input) /\ b = pos /\ Len(input) \in Nat
      /\ ahead = (pos + 1) % Width /\ curr = CharAt(pos) /\ CutInto(tokens, pos)
  BY NothingRead DEF eatWhitespace
<1>2. curr # END
  BY Classes, Zenon DEF eatWhitespace, Space, END
<1>3. pos \in 0 .. Len(input) - 1 /\ input[pos + 1] \in Space
  BY <1>1, <1>2, Position DEF eatWhitespace
<1>4. curr' = CharAt(pos + 1) /\ ahead' = (pos + 2) % Width
  BY <1>1, <1>3, ReadsOne DEF eatWhitespace
<1>5. /\ UpTo(pos + 1) = UpTo(pos)
      /\ TokensUpTo(pos + 1) = TokensUpTo(pos)
      /\ Break(pos + 1)
  BY <1>1, <1>3, SkipSpace DEF CutInto
<1>6. \A s \in Spans : s[2] <= pos + 1 => s[2] <= pos
  BY <1>5 DEF UpTo
<1>7. CutInto(tokens, pos + 1)
  BY <1>1, <1>5, <1>6 DEF CutInto
<1>8. pos + 1 \in 0 .. Len(input) /\ (pos + 1) + 1 = pos + 2
  BY <1>1, <1>3
<1>9. str' = <<>> /\ tokens' = tokens
  BY DEF eatWhitespace, AtStart
<1> QED
  BY <1>4, <1>7, <1>8, <1>9, AtRest

\* The tokens that are not a run are tokens of their characters.
LEMMA SingleToken ==
  ASSUME input \in Seq(Char), NEW i \in 1 .. Len(input), input[i] \in DOMAIN Single
  PROVE  LET x == [type |-> Single[input[i]], literal |-> <<input[i]>>]
         IN x \in Tok /\ IsToken(x, <<i, i>>)
<1> DEFINE c == input[i]
           x == [type |-> Single[c], literal |-> <<c>>]
<1>1. SubSeq(input, i, i) = <<c>> /\ c \in Char
  BY OneChar
<1>2. c \in DOMAIN Single
  OBVIOUS
<1> HIDE DEF c
<1>3. Single[c] = c /\ c # "#" /\ c # "KEYWORD" /\ c \in TokenType
  BY <1>2, Zenon DEF Single, TokenType
<1>4. <<c>> # <<"#">>
  BY <1>3
<1>5. c # "S" /\ c # "F" /\ c # "W" /\ c # "U"
  BY <1>2, Zenon DEF Single
<1>6. <<c>> \notin keywords
  BY <1>5 DEF keywords, SELECT, FROM, WHERE
<1>7. <<c>> \in Seq(Char)
  BY <1>1
<1>8. x \in Tok
  BY <1>3, <1>7 DEF Tok
<1>9. IsToken(x, <<i, i>>)
  BY <1>1, <1>3, <1>4, <1>6, Zenon DEF IsToken
<1> QED
  BY <1>8, <1>9 DEF c

\* The tokens "<=" and ">=".
LEMMA PairToken ==
  ASSUME input \in Seq(Char), NEW i \in 1 .. Len(input) - 1, IsPair(i)
  PROVE  LET x == [type |-> IF input[i] = "<" THEN "<=" ELSE ">=", literal |-> <<input[i], "=">>]
         IN x \in Tok /\ IsToken(x, <<i, i + 1>>)
<1> DEFINE c == input[i]
           x == [type |-> IF c = "<" THEN "<=" ELSE ">=", literal |-> <<c, "=">>]
<1>1. SubSeq(input, i, i + 1) = <<c, "=">>
  BY TwoChars DEF IsPair
<1>2. c \in {"<", ">"} /\ c \in Char /\ "=" \in Char
  BY Zenon DEF IsPair, Char, Single
<1> HIDE DEF c
<1>3. <<c, "=">> # <<"#">> /\ <<c, "=">> \notin keywords
  BY DEF keywords, SELECT, FROM, WHERE
<1>4. <<c, "=">> \in Seq(Char) /\ x \in Tok
  BY <1>2 DEF Tok, TokenType
<1>5. x.type # "KEYWORD" /\ x.literal = <<c, "=">>
  OBVIOUS
<1>6. IsToken(x, <<i, i + 1>>)
  BY <1>1, <1>3, <1>5, Zenon DEF IsToken
<1> QED
  BY <1>4, <1>6 DEF c

\* The literal an illegal token is left with is one.
LEMMA StaleTyped ==
  ASSUME tokens \in Seq(Tok)
  PROVE  [type |-> "ILLEGAL", literal |-> StaleLiteral] \in Tok
<1>1. tokens # <<>> => tokens[Len(tokens)] \in Tok
  BY EmptySeq, LenProperties, ElementOfSeq
<1>2. <<>> \in Seq(Char)
  BY EmptySeq
<1>3. StaleLiteral \in Seq(Char)
  BY <1>1, <1>2 DEF StaleLiteral, Tok
<1> QED
  BY <1>3 DEF Tok, TokenType

\* OperatorToken adds the token of one character, or of "<=" or ">=".
LEMMA OperatorStep ==
  ASSUME input \in Seq(Char), Len(input) < Width, NEW pos, NEW b, tokens \in Seq(Tok),
         ReadTo(pos, b, ahead, curr, str, tokens), OperatorToken
  PROVE  \E q \in Nat : ReadTo(q, q, ahead', curr', str', tokens')
<1>1. /\ pos \in 0 .. Len(input) /\ b = pos /\ Len(input) \in Nat
      /\ ahead = (pos + 1) % Width /\ curr = CharAt(pos) /\ CutInto(tokens, pos)
  BY NothingRead DEF OperatorToken
<1>2. curr # END
  BY Zenon DEF OperatorToken, Single, END
<1>3. pos \in 0 .. Len(input) - 1 /\ curr = input[pos + 1] /\ input[pos + 1] \in DOMAIN Single
  BY <1>1, <1>2, Position DEF OperatorToken
<1>4. str' = <<>> /\ str = <<>>
  BY DEF OperatorToken, AtStart
<1>5. /\ pos + 1 \in 1 .. Len(input) /\ pos + 1 \in Nat /\ pos + 1 < Width
      /\ ahead = pos + 1 /\ Break(pos)
  <2>1. pos + 1 \in 1 .. Len(input) /\ pos + 1 \in Nat /\ pos + 1 < Width
    BY <1>1, <1>3, WidthAssumption
  <2> QED
    BY <1>1, <2>1, NoWrap DEF CutInto
<1>6. peekNext = CharAt(pos + 1)
  BY <1>5 DEF peekNext
<1>7. IsPair(pos + 1) <=> curr \in {"<", ">"} /\ peekNext = "="
  BY <1>1, <1>3, <1>6, Position DEF IsPair, END, CharAt
<1>8. CASE IsPair(pos + 1)
  <2> DEFINE x == [type |-> IF input[pos + 1] = "<" THEN "<=" ELSE ">=",
                   literal |-> <<input[pos + 1], "=">>]
  <2>1. tokens' = Append(tokens, x) /\ readChar(2)
    BY <1>3, <1>7, <1>8 DEF OperatorToken, AddToken
  <2>2. /\ pos \in 0 .. Len(input) - 2 /\ pos + 1 \in 1 .. Len(input) - 1
        /\ pos + 2 \in 0 .. Len(input) /\ pos + 2 \in Nat
        /\ (pos + 1) + 1 = pos + 2 /\ (pos + 2) + 1 = pos + 3
    BY <1>1, <1>3, <1>8 DEF IsPair
  <2>3. x \in Tok /\ IsToken(x, <<pos + 1, pos + 2>>)
    BY <1>8, <2>2, PairToken
  <2> HIDE DEF x
  <2>4. <<pos + 1, pos + 2>> \in Spans /\ Break(pos + 2)
    BY <1>8, <2>2, PairSpan
  <2>5. CutInto(tokens', pos + 2)
    BY <1>1, <2>1, <2>2, <2>3, <2>4, TokenAdded
  <2>6. curr' = CharAt(pos + 2) /\ ahead' = (pos + 3) % Width
    BY <1>1, <2>1, <2>2, ReadsTwo
  <2>7. ReadTo(pos + 2, pos + 2, ahead', curr', str', tokens')
    BY <1>4, <2>2, <2>5, <2>6, AtRest
  <2> QED
    BY <2>2, <2>7
<1>9. CASE ~IsPair(pos + 1)
  <2> DEFINE x == [type |-> Single[input[pos + 1]], literal |-> <<input[pos + 1]>>]
  <2>1. tokens' = Append(tokens, x) /\ readChar(1)
    BY <1>3, <1>7, <1>9 DEF OperatorToken, AddToken
  <2>2. pos + 1 \in 0 .. Len(input) /\ pos + 1 \in Nat /\ (pos + 1) + 1 = pos + 2
    BY <1>1, <1>3
  <2>3. x \in Tok /\ IsToken(x, <<pos + 1, pos + 1>>)
    BY <1>3, <1>5, SingleToken, Zenon
  <2> HIDE DEF x
  <2>4. input[pos + 1] \notin Letter \cup Digit \cup Space
    BY <1>3, Classes
  <2>5. <<pos + 1, pos + 1>> \in Spans /\ Break(pos + 1)
    BY <1>3, <1>5, <1>9, <2>4, SingleSpan, Zenon
  <2>6. CutInto(tokens', pos + 1)
    BY <1>1, <2>1, <2>2, <2>3, <2>5, TokenAdded
  <2>7. curr' = CharAt(pos + 1) /\ ahead' = (pos + 2) % Width
    BY <1>1, <1>3, <2>1, ReadsOne
  <2>8. ReadTo(pos + 1, pos + 1, ahead', curr', str', tokens')
    BY <1>4, <2>2, <2>6, <2>7, AtRest
  <2> QED
    BY <2>2, <2>8
<1> QED
  BY <1>8, <1>9

\* IllegalToken adds a token for the one character that begins no other.
LEMMA IllegalStep ==
  ASSUME input \in Seq(Char), Len(input) < Width, NEW pos, NEW b, tokens \in Seq(Tok),
         ReadTo(pos, b, ahead, curr, str, tokens), IllegalToken
  PROVE  ReadTo(pos + 1, pos + 1, ahead', curr', str', tokens')
<1> DEFINE x == [type |-> "ILLEGAL", literal |-> StaleLiteral]
<1>1. /\ pos \in 0 .. Len(input) /\ b = pos /\ Len(input) \in Nat
      /\ ahead = (pos + 1) % Width /\ curr = CharAt(pos) /\ CutInto(tokens, pos)
  BY NothingRead DEF IllegalToken
<1>2. curr # END
  BY DEF IllegalToken
<1>3. pos \in 0 .. Len(input) - 1 /\ curr = input[pos + 1] /\ curr \in Char
  BY <1>1, <1>2, Position
<1>4. input[pos + 1] = "#"
  BY <1>3 DEF IllegalToken, Char
<1>5. /\ pos + 1 \in 1 .. Len(input) /\ pos + 1 \in 0 .. Len(input) /\ pos + 1 \in Nat
      /\ (pos + 1) + 1 = pos + 2 /\ Break(pos)
  BY <1>1, <1>3 DEF CutInto
<1>6. SubSeq(input, pos + 1, pos + 1) = <<"#">>
  BY <1>4, <1>5, OneChar
<1>7. IsToken(x, <<pos + 1, pos + 1>>)
  BY <1>6 DEF IsToken
<1>8. x \in Tok
  BY StaleTyped
<1>9. tokens' = Append(tokens, x) /\ readChar(1) /\ str' = <<>>
  BY DEF IllegalToken, AddToken, AtStart
<1> HIDE DEF x
<1>10. input[pos + 1] \notin Letter \cup Digit \cup Space /\ ~IsPair(pos + 1)
  BY <1>4 DEF IsPair, Letter, Digit, Space
<1>11. <<pos + 1, pos + 1>> \in Spans /\ Break(pos + 1)
  BY <1>3, <1>5, <1>10, SingleSpan
<1>12. CutInto(tokens', pos + 1)
  BY <1>1, <1>5, <1>7, <1>8, <1>9, <1>11, TokenAdded
<1>13. curr' = CharAt(pos + 1) /\ ahead' = (pos + 2) % Width
  BY <1>1, <1>3, <1>9, ReadsOne
<1> QED
  BY <1>5, <1>9, <1>12, <1>13, AtRest

\* What the loop that fills str goes on with.
LEMMA GoesOn ==
  ASSUME input \in Seq(Char), NEW pos, NEW b, ReadTo(pos, b, ahead, curr, str, tokens)
  PROVE  /\ b = pos => Continues(str) = Letter \cup Digit
         /\ b < pos => Head(str) = input[b + 1] /\ Continues(str) = Class(input[b + 1])
<1>1. pos \in 0 .. Len(input) /\ b \in 0 .. pos /\ (str = <<>> <=> b = pos)
  BY Read
<1>2. str = SubSeq(input, b + 1, pos)
  BY DEF ReadTo
<1>3. b < pos => Head(str) = input[b + 1] /\ str # <<>>
  BY <1>1, <1>2, PartOf
<1> QED
  BY <1>1, <1>3 DEF Continues, Class

\* A character more of a run.
LEMMA TakeStep ==
  ASSUME input \in Seq(Char), Len(input) < Width, NEW pos, NEW b,
         ReadTo(pos, b, ahead, curr, str, tokens), TakeChar
  PROVE  ReadTo(pos + 1, b, ahead', curr', str', tokens') /\ pos + 1 \in Nat
<1>1. /\ pos \in 0 .. Len(input) /\ b \in 0 .. pos /\ Len(input) \in Nat
  BY Read
<1>2. /\ ahead = (pos + 1) % Width /\ curr = CharAt(pos) /\ CutInto(tokens, b)
      /\ str = SubSeq(input, b + 1, pos) /\ RunSoFar(b, pos)
  BY DEF ReadTo
<1>3. /\ b = pos => Continues(str) = Letter \cup Digit
      /\ b < pos => Continues(str) = Class(input[b + 1])
  BY GoesOn
<1>4. curr \in Continues(str)
  BY DEF TakeChar
<1>5. curr \in Letter \cup Digit
  BY <1>1, <1>3, <1>4 DEF Class
<1>6. curr # END
  BY <1>5 DEF Letter, Digit, END
<1>7. pos \in 0 .. Len(input) - 1 /\ curr = input[pos + 1]
  BY <1>1, <1>2, <1>6, Position
<1>8. /\ pos + 1 \in 0 .. Len(input) /\ pos + 1 \in Nat /\ b \in 0 .. pos + 1
      /\ (pos + 1) + 1 = pos + 2
  BY <1>1, <1>7
<1>9. curr' = CharAt(pos + 1) /\ ahead' = (pos + 2) % Width /\ tokens' = tokens
  BY <1>2, <1>7, ReadsOne DEF TakeChar
<1>10. str' = SubSeq(input, b + 1, pos + 1)
  BY <1>1, <1>2, <1>7, OneMore DEF TakeChar
<1>11. RunSoFar(b, pos + 1)
  <2>1. CASE b = pos
    <3>1. \A k \in b + 1 .. pos + 1 : k = b + 1
      BY <1>1, <2>1
    <3> QED
      BY <1>1, <1>5, <1>7, <2>1, <3>1 DEF RunSoFar, Class
  <2>2. CASE b < pos
    <3>1. /\ input[b + 1] \in Letter \cup Digit
          /\ \A k \in b + 1 .. pos : input[k] \in Class(input[b + 1])
          /\ input[pos + 1] \in Class(input[b + 1])
      BY <1>2, <1>3, <1>4, <1>7, <2>2 DEF RunSoFar
    <3>2. \A k \in b + 1 .. pos + 1 : k \in b + 1 .. pos \/ k = pos + 1
      BY <1>1
    <3> QED
      BY <3>1, <3>2, Zenon DEF RunSoFar
  <2> QED
    BY <1>1, <2>1, <2>2
<1> QED
  BY <1>2, <1>8, <1>9, <1>10, <1>11 DEF ReadTo

\* The text of a run is no illegal character, and a keyword only if it begins with
\* a letter.
LEMMA RunText ==
  ASSUME NEW w \in Seq(Char), Head(w) \in Letter \cup Digit
  PROVE  w # <<"#">> /\ (w \in keywords => Head(w) \in Letter)
<1>1. w = <<"#">> => Head(w) = "#"
  OBVIOUS
<1>2. "#" \notin Letter \cup Digit
  BY DEF Letter, Digit
<1>3. w \in keywords => Head(w) \in {"S", "F", "W", "U"}
  BY DEF keywords, SELECT, FROM, WHERE
<1> QED
  BY <1>1, <1>2, <1>3 DEF Letter

\* The token of a run has one of the three types of such a token.
LEMMA RunTyped ==
  ASSUME str \in Seq(Char)
  PROVE  [type |-> IF Head(str) \in Letter THEN getStringType(str) ELSE "INT",
          literal |-> str] \in Tok
BY DEF Tok, TokenType, getStringType

\* RunEnds adds the token of the characters in str.
LEMMA RunStep ==
  ASSUME input \in Seq(Char), Len(input) < Width, NEW pos, NEW b, tokens \in Seq(Tok),
         str \in Seq(Char), ReadTo(pos, b, ahead, curr, str, tokens), RunEnds
  PROVE  ReadTo(pos, pos, ahead', curr', str', tokens')
<1> DEFINE x == [type |-> IF Head(str) \in Letter THEN getStringType(str) ELSE "INT",
                 literal |-> str]
<1>1. /\ pos \in 0 .. Len(input) /\ b \in 0 .. pos /\ b \in 0 .. Len(input)
      /\ Len(input) \in Nat /\ pos \in Nat
      /\ str = <<>> <=> b = pos
  BY Read
<1>2. b < pos
  BY <1>1 DEF RunEnds
<1>3. /\ ahead = (pos + 1) % Width /\ curr = CharAt(pos) /\ CutInto(tokens, b) /\ Break(b)
      /\ str = SubSeq(input, b + 1, pos) /\ RunSoFar(b, pos)
  BY DEF ReadTo, CutInto
<1>4. Head(str) = input[b + 1] /\ Continues(str) = Class(input[b + 1])
  BY <1>2, GoesOn
<1>5. /\ tokens' = Append(tokens, x) /\ curr \notin Continues(str)
      /\ str' = <<>> /\ curr' = curr /\ ahead' = ahead
  BY DEF RunEnds, AddToken
<1>6. x \in Tok
  BY RunTyped
<1>7. Head(str) \in Letter \cup Digit
  BY <1>2, <1>3, <1>4, Zenon DEF RunSoFar
<1>8. str # <<"#">> /\ (str \in keywords => Head(str) \in Letter)
  BY <1>7, RunText
<1>9. x.literal = str /\ (x.type = "KEYWORD" <=> str \in keywords)
  BY <1>8 DEF getStringType
<1> HIDE DEF x
<1>10. IsToken(x, <<b + 1, pos>>)
  BY <1>3, <1>8, <1>9, SMTT(30) DEF IsToken
<1>11. pos < Len(input) => input[pos + 1] \notin Class(input[b + 1])
  BY <1>1, <1>3, <1>4, <1>5 DEF CharAt
<1>12. <<b + 1, pos>> \in Spans /\ Break(pos)
  BY <1>1, <1>2, <1>3, <1>11, RunSpan
<1>13. CutInto(tokens', pos)
  BY <1>1, <1>3, <1>5, <1>6, <1>10, <1>12, TokenAdded
<1> QED
  BY <1>1, <1>3, <1>5, <1>13, AtRest

\* What every step keeps, however long the input is.
LEMMA StepTypes ==
  ASSUME IInv, LexNext
  PROVE  /\ input' = input /\ tokens' \in Seq(Tok) /\ str' \in Seq(Char)
         /\ done' \in BOOLEAN /\ (done' => str' = <<>>)
<1>1. /\ input \in Seq(Char) /\ tokens \in Seq(Tok) /\ str \in Seq(Char)
      /\ done \in BOOLEAN /\ (done => str = <<>>) /\ <<>> \in Seq(Char)
  BY EmptySeq DEF IInv
<1>2. ASSUME NEW x \in Tok
      PROVE  Append(tokens, x) \in Seq(Tok)
  BY <1>1, AppendProperties
<1>3. CASE eatWhitespace
  BY <1>1, <1>3 DEF eatWhitespace
<1>4. CASE OperatorToken
  <2>1. curr \in DOMAIN Single /\ curr \in Char /\ "=" \in Char
    BY <1>4, Zenon DEF OperatorToken, Char, Single
  <2>2. /\ [type |-> IF curr = "<" THEN "<=" ELSE ">=", literal |-> <<curr, "=">>] \in Tok
        /\ [type |-> Single[curr], literal |-> <<curr>>] \in Tok
    <3>1. Single[curr] = curr
      BY <2>1, Zenon DEF Single
    <3> QED
      BY <2>1, <3>1 DEF Tok, TokenType
  <2> QED
    BY <1>1, <1>2, <1>4, <2>2, Zenon DEF OperatorToken, AddToken
<1>5. CASE IllegalToken
  BY <1>1, <1>2, <1>5, StaleTyped DEF IllegalToken, AddToken
<1>6. CASE TakeChar
  <2>1. curr \in Char
    BY <1>6 DEF TakeChar, Continues, Char
  <2> QED
    BY <1>1, <1>6, <2>1, AppendProperties DEF TakeChar
<1>7. CASE RunEnds
  BY <1>1, <1>2, <1>7, RunTyped DEF RunEnds, AddToken
<1>8. CASE EndToken
  BY <1>1, <1>8 DEF EndToken, AtStart
<1> QED
  BY <1>3, <1>4, <1>5, <1>6, <1>7, <1>8 DEF LexNext

\* The invariant holds before the first character is read.
LEMMA InitInv == LexInit => IInv
<1> SUFFICES ASSUME LexInit
             PROVE  IInv
  OBVIOUS
<1>1. input \in Seq(Char) /\ Len(input) \in Nat /\ 0 \in 0 .. Len(input)
  BY InputsAssumption, LenProperties DEF LexInit
<1>2. input = <<>> <=> Len(input) = 0
  BY <1>1, EmptySeq
<1>3. curr = CharAt(0)
  BY <1>1, <1>2 DEF LexInit, CharAt
<1>4. UpTo(0) = {}
  BY <1>1, SpanBounds DEF UpTo
<1>5. TokensUpTo(0) = 0
  BY <1>4, FS_EmptySet DEF TokensUpTo, UpTo
<1>6. Break(0)
  BY <1>1 DEF Break, IsPair
<1>7. \A s \in Spans : ~(s[2] <= 0)
  BY <1>1, SpanBounds
<1>8. Len(<<>>) = 0
  BY EmptySeq
<1>9. CutInto(<<>>, 0)
  BY <1>5, <1>6, <1>7, <1>8 DEF CutInto
<1>10. ReadTo(0, 0, (0 + 1) % Width, CharAt(0), <<>>, <<>>)
  BY <1>1, <1>9, AtRest
<1>11. ReadTo(0, 0, ahead, curr, str, tokens)
  BY <1>3, <1>10 DEF LexInit
<1> QED
  BY <1>1, <1>11, EmptySeq, Zenon DEF LexInit, IInv

\* Every step keeps the invariant.
LEMMA NextInv == IInv /\ [LexNext]_lexvars => IInv'
<1> SUFFICES ASSUME IInv, [LexNext]_lexvars
             PROVE  IInv'
  OBVIOUS
<1>1. input \in Seq(Char) /\ tokens \in Seq(Tok) /\ str \in Seq(Char)
  BY DEF IInv
<1>2. CASE LexNext
  <2>1. /\ input' = input /\ tokens' \in Seq(Tok) /\ str' \in Seq(Char)
        /\ done' \in BOOLEAN /\ (done' => str' = <<>>)
    BY <1>2, StepTypes
  <2>2. ASSUME Len(input) < Width
        PROVE  IF done' THEN CutInto(tokens', Len(input))
               ELSE \E pos, b \in Nat : ReadTo(pos, b, ahead', curr', str', tokens')
    <3>1. ~done
      BY <1>2 DEF IInv, LexNext, eatWhitespace, OperatorToken, IllegalToken, TakeChar,
                  RunEnds, EndToken, AtStart
    <3>2. PICK pos \in Nat, b \in Nat : ReadTo(pos, b, ahead, curr, str, tokens)
      BY <2>2, <3>1 DEF IInv
    <3>3. pos + 1 \in Nat
      OBVIOUS
    <3>4. CASE eatWhitespace
      <4>1. ReadTo(pos + 1, pos + 1, ahead', curr', str', tokens')
        BY <1>1, <2>2, <3>2, <3>4, SpaceStep
      <4> QED
        BY <3>1, <3>3, <3>4, <4>1 DEF eatWhitespace
    <3>5. CASE OperatorToken
      <4>1. \E q \in Nat : ReadTo(q, q, ahead', curr', str', tokens')
        BY <1>1, <2>2, <3>2, <3>5, OperatorStep
      <4> QED
        BY <3>1, <3>5, <4>1 DEF OperatorToken
    <3>6. CASE IllegalToken
      <4>1. ReadTo(pos + 1, pos + 1, ahead', curr', str', tokens')
        BY <1>1, <2>2, <3>2, <3>6, IllegalStep
      <4> QED
        BY <3>1, <3>3, <3>6, <4>1 DEF IllegalToken
    <3>7. CASE TakeChar
      <4>1. ReadTo(pos + 1, b, ahead', curr', str', tokens')
        BY <1>1, <2>2, <3>2, <3>7, TakeStep
      <4> QED
        BY <3>1, <3>3, <3>7, <4>1 DEF TakeChar
    <3>8. CASE RunEnds
      <4>1. ReadTo(pos, pos, ahead', curr', str', tokens')
        BY <1>1, <2>2, <3>2, <3>8, RunStep
      <4> QED
        BY <3>1, <3>8, <4>1 DEF RunEnds
    <3>9. CASE EndToken
      <4>1. /\ pos \in 0 .. Len(input) /\ b = pos
            /\ curr = CharAt(pos) /\ CutInto(tokens, pos)
        BY <1>1, <3>2, <3>9, NothingRead DEF EndToken
      <4>2. pos = Len(input)
        BY <1>1, <3>9, <4>1, Position DEF EndToken
      <4> QED
        BY <3>9, <4>1, <4>2 DEF EndToken
    <3> QED
      BY <1>2, <3>4, <3>5, <3>6, <3>7, <3>8, <3>9, SMTT(30) DEF LexNext
  <2> QED
    BY <1>1, <2>1, <2>2, ToInv
<1>3. CASE UNCHANGED lexvars
  <2>1. /\ input' = input /\ ahead' = ahead /\ curr' = curr /\ str' = str
        /\ tokens' = tokens /\ done' = done
    BY <1>3 DEF lexvars
  <2>2. /\ tokens' \in Seq(Tok) /\ str' \in Seq(Char)
        /\ done' \in BOOLEAN /\ (done' => str' = <<>>)
    BY <2>1 DEF IInv
  <2>3. Len(input) < Width =>
          IF done' THEN CutInto(tokens', Len(input))
          ELSE \E pos, b \in Nat : ReadTo(pos, b, ahead', curr', str', tokens')
    BY <2>1 DEF IInv
  <2> QED
    BY <1>1, <2>1, <2>2, <2>3, ToInv
<1> QED
  BY <1>2, <1>3

\* Of every behaviour of the lexer.
THEOREM Invariant == LexSpec => []IInv
<1>1. LexInit => IInv
  BY InitInv
<1>2. IInv /\ [LexNext]_lexvars => IInv'
  BY NextInv
<1> QED
  BY <1>1, <1>2, PTL DEF LexSpec

\* When the end is reached all spans are cut.
LEMMA AllCut == IInv => TokensAreSpans
<1> SUFFICES ASSUME IInv, done, Len(input) < Width
             PROVE  /\ Len(tokens) = Cardinality(Spans)
                    /\ \A s \in Spans : IsToken(tokens[TokensUpTo(s[2])], s)
  BY DEF TokensAreSpans, IsToken
<1>1. input \in Seq(Char) /\ CutInto(tokens, Len(input))
  BY DEF IInv
<1>2. \A s \in Spans : s[2] <= Len(input)
  BY <1>1, SpanBounds, LenProperties
<1>3. UpTo(Len(input)) = Spans
  BY <1>2 DEF UpTo
<1>4. TokensUpTo(Len(input)) = Cardinality(Spans)
  BY <1>3, Zenon DEF TokensUpTo, UpTo
<1> QED
  BY <1>1, <1>2, <1>4 DEF CutInto

\* Parser::populateTokens cuts an input shorter than Width into exactly its
\* tokens, in their order: one for every longest run of letters or of digits,
\* every "<=" and ">=" and every other character that is not white space, each
\* with its own characters (Lexer::nextToken).
THEOREM InputsCut == LexSpec => []TokensAreSpans
<1>1. IInv => TokensAreSpans
  BY AllCut
<1> QED
  BY <1>1, Invariant, PTL
=============================================================================
