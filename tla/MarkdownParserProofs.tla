------------------------ MODULE MarkdownParserProofs ------------------------
(***************************************************************************)
(* What Parse makes of any document, however long it is and wherever it is  *)
(* cut. A section is cut into full pieces and a rest. Trimming removes no   *)
(* visible character, and the loop over the lines hands all of them on:     *)
(* while it runs, the sections it has closed and the lines it has collected *)
(* are, together, the document so far.                                      *)
(***************************************************************************)
EXTENDS DocumentRows, FoldLemmas

-----------------------------------------------------------------------------
(* The cut of a long section *)

\* What \div means.
LEMMA Quotient ==
    ASSUME NEW a \in Nat, NEW b \in Nat \ {0}
    PROVE  a \div b \in Nat /\ b * (a \div b) <= a /\ a < b * (a \div b) + b
OBVIOUS

\* As many pieces as are needed, and no empty one.
LEMMA Pieces ==
    ASSUME NEW len \in Nat
    PROVE  LET n == (len + MaxChars - 1) \div MaxChars IN
           /\ n \in Nat /\ len <= MaxChars * n
           /\ \A j \in 1..n : MaxChars * (j - 1) < len
<1> DEFINE n == (len + MaxChars - 1) \div MaxChars
<1>1. MaxChars \in Nat \ {0}
  BY ParserAssumption
<1>2. /\ n \in Nat /\ MaxChars * n <= len + MaxChars - 1
      /\ len + MaxChars - 1 < MaxChars * n + MaxChars
  BY <1>1, Quotient
<1> HIDE DEF n
<1>3. ASSUME NEW j \in 1..n PROVE MaxChars * (j - 1) < len
  <2>1. n - j \in Nat /\ MaxChars * (n - j) \in Nat
    BY <1>1, <1>2
  <2>2. MaxChars * n = MaxChars * (n - j) + MaxChars * (j - 1) + MaxChars
    BY <1>1, <1>2
  <2>3. MaxChars * (j - 1) \in Nat
    BY <1>1, <1>2
  <2> QED BY <1>1, <1>2, <2>1, <2>2, <2>3
<1>4. len <= MaxChars * n
  BY <1>1, <1>2
<1> QED BY <1>2, <1>3, <1>4 DEF n

\* The end of piece j in a text of this length.
LEMMA PieceEnd ==
    ASSUME NEW len \in Nat, NEW j \in Nat
    PROVE  Min({MaxChars * j, len}) = IF MaxChars * j <= len THEN MaxChars * j ELSE len
<1>1. MaxChars * j \in Nat
  BY ParserAssumption
<1> DEFINE full == MaxChars * j
<1> HIDE DEF full
<1>2. full \in Nat
  BY <1>1 DEF full
<1>3. Min({full, len}) \in {full, len} /\ \A y \in {full, len} : Min({full, len}) <= y
  <2>1. \E x \in {full, len} : \A y \in {full, len} : x <= y
    BY <1>2
  <2> QED BY <2>1 DEF Min
<1> QED BY <1>2, <1>3 DEF full

\* splitLongChunk loses, repeats and moves no character of a section, however long it is:
\* piece j holds the places from MaxChars * (j - 1) + 1 on, it is neither empty nor too
\* long, and another piece follows only if it is full.
THEOREM CutExactly ==
    ASSUME NEW S, NEW text \in Seq(S)
    PROVE  LET pieces == SplitLongChunk(text) IN
           /\ \A j \in DOMAIN pieces :
                 /\ Len(pieces[j]) \in 1..MaxChars
                 /\ j + 1 \in DOMAIN pieces => Len(pieces[j]) = MaxChars
                 /\ \A k \in 1..Len(pieces[j]) :
                       /\ MaxChars * (j - 1) + k \in 1..Len(text)
                       /\ pieces[j][k] = text[MaxChars * (j - 1) + k]
           /\ \A i \in 1..Len(text) :
                 \E j \in DOMAIN pieces : \E k \in 1..Len(pieces[j]) :
                    i = MaxChars * (j - 1) + k
<1> DEFINE len == Len(text)
           n == (len + MaxChars - 1) \div MaxChars
           pieces == SplitLongChunk(text)
<1>1. /\ MaxChars \in Nat \ {0} /\ len \in Nat
      /\ n \in Nat /\ len <= MaxChars * n
      /\ \A j \in 1..n : MaxChars * (j - 1) < len
  BY ParserAssumption, Pieces
<1>2. \A i \in 1..len : text[i] \in S
  OBVIOUS
<1>3. DOMAIN pieces = 1..n
  BY DEF SplitLongChunk
<1>4. ASSUME NEW j \in 1..n
      PROVE  /\ pieces[j] = SubSeq(text, MaxChars * (j - 1) + 1, Min({MaxChars * j, len}))
             /\ Min({MaxChars * j, len})
                  = IF MaxChars * j <= len THEN MaxChars * j ELSE len
  <2>1. j \in Nat
    BY <1>1
  <2> QED BY <1>1, <2>1, PieceEnd DEF SplitLongChunk
<1> HIDE DEF len, n, pieces
<1>5. ASSUME NEW j \in 1..n
      PROVE  /\ Len(pieces[j]) = IF MaxChars * j <= len THEN MaxChars
                                 ELSE len - MaxChars * (j - 1)
             /\ Len(pieces[j]) \in 1..MaxChars
             /\ \A k \in 1..Len(pieces[j]) :
                   /\ MaxChars * (j - 1) + k \in 1..len
                   /\ pieces[j][k] = text[MaxChars * (j - 1) + k]
  <2> DEFINE before == MaxChars * (j - 1)
             to == IF MaxChars * j <= len THEN MaxChars * j ELSE len
  <2>1. before \in Nat /\ MaxChars * j = before + MaxChars /\ before < len
    <3>1. j \in Nat /\ j - 1 \in Nat /\ j = (j - 1) + 1 /\ before < len
      BY <1>1
    <3> DEFINE i == j - 1
    <3> HIDE DEF i
    <3>2. MaxChars * i \in Nat /\ MaxChars * (i + 1) = MaxChars * i + MaxChars
      BY <1>1, <3>1 DEF i
    <3> QED BY <3>1, <3>2 DEF i
  <2> HIDE DEF before
  <2>2. to \in Nat /\ before + 1 <= to /\ to <= len /\ to <= before + MaxChars
    BY <1>1, <2>1
  <2>3. pieces[j] = SubSeq(text, before + 1, to)
    BY <1>4 DEF before
  <2> HIDE DEF to
  <2>4. before + 1 \in Int /\ to \in Int /\ \A i \in (before + 1)..to : text[i] \in S
    BY <1>1, <1>2, <2>1, <2>2
  <2>5. /\ Len(pieces[j]) = to - before
        /\ \A k \in 1..(to - before) : pieces[j][k] = text[before + 1 + k - 1]
    <3>1. /\ Len(pieces[j]) = to - (before + 1) + 1
          /\ \A k \in 1..(to - (before + 1) + 1) : pieces[j][k] = text[before + 1 + k - 1]
      BY <2>2, <2>3, <2>4, SubSeqProperties
    <3> QED BY <2>1, <2>2, <3>1
  <2>6. \A k \in 1..(to - before) : before + k \in 1..len /\ before + 1 + k - 1 = before + k
    BY <1>1, <2>1, <2>2
  <2>7. Len(pieces[j]) \in 1..MaxChars
    BY <1>1, <2>1, <2>2, <2>5
  <2>8. Len(pieces[j]) = IF MaxChars * j <= len THEN MaxChars ELSE len - before
    BY <1>1, <2>1, <2>5 DEF to
  <2> QED BY <2>5, <2>6, <2>7, <2>8 DEF before
<1>6. ASSUME NEW j \in 1..n, j + 1 \in 1..n PROVE Len(pieces[j]) = MaxChars
  <2>1. MaxChars * j < len
    <3>1. MaxChars * ((j + 1) - 1) < len
      BY <1>1, <1>6
    <3>2. (j + 1) - 1 = j
      BY <1>1
    <3> QED BY <3>1, <3>2
  <2>2. MaxChars * j \in Nat
    BY <1>1
  <2> QED BY <1>1, <1>5, <2>1, <2>2
<1>7. ASSUME NEW i \in 1..len
      PROVE  \E j \in 1..n : \E k \in 1..Len(pieces[j]) : i = MaxChars * (j - 1) + k
  <2> DEFINE q == (i - 1) \div MaxChars
             j == q + 1
             k == i - MaxChars * q
  <2>1. i - 1 \in Nat
    OBVIOUS
  <2>2. q \in Nat /\ MaxChars * q <= i - 1 /\ i - 1 < MaxChars * q + MaxChars
    BY <1>1, <2>1, Quotient
  <2> HIDE DEF q
  <2>3. q < n
    <3> SUFFICES ASSUME n <= q PROVE FALSE
      BY <1>1, <2>2
    <3>1. MaxChars * (q - n) \in Nat
      BY <1>1, <2>2
    <3>2. MaxChars * q = MaxChars * (q - n) + MaxChars * n
      BY <1>1, <2>2
    <3> QED BY <1>1, <2>2, <3>1, <3>2
  <2>4. j \in 1..n /\ j - 1 = q
    BY <1>1, <2>2, <2>3
  <2>5. MaxChars * j = MaxChars * q + MaxChars /\ MaxChars * q \in Nat
    BY <1>1, <2>2
  <2>6. Len(pieces[j]) = IF MaxChars * j <= len THEN MaxChars ELSE len - MaxChars * q
    BY <1>5, <2>4
  <2> HIDE DEF j
  <2>7. k \in 1..Len(pieces[j])
    BY <1>1, <2>2, <2>5, <2>6
  <2>8. i = MaxChars * (j - 1) + k
    BY <1>1, <2>2, <2>4, <2>5
  <2> QED BY <2>4, <2>7, <2>8
<1>8. \A j \in 1..n :
         /\ Len(pieces[j]) \in 1..MaxChars
         /\ j + 1 \in 1..n => Len(pieces[j]) = MaxChars
         /\ \A k \in 1..Len(pieces[j]) : /\ MaxChars * (j - 1) + k \in 1..len
                                        /\ pieces[j][k] = text[MaxChars * (j - 1) + k]
  BY <1>5, <1>6
<1> QED BY <1>3, <1>7, <1>8 DEF len, pieces

-----------------------------------------------------------------------------
(* Visible characters *)

\* Texts are sequences of characters, which are identified by their places.
Place == [line : Nat, at : Nat]
Texts == Seq(Place)

\* The visible characters of a text, character by character.
LEMMA VisibleFacts ==
    /\ VisibleChars(<<>>) = <<>>
    /\ \A text \in Texts :
          /\ VisibleChars(text) \in Texts
          /\ \A char \in Place :
                VisibleChars(Append(text, char)) =
                    IF IsSpace(content, char) THEN VisibleChars(text)
                    ELSE Append(VisibleChars(text), char)
<1> DEFINE op == [p \in Texts \X Place |->
                     IF IsSpace(content, p[2]) THEN p[1] ELSE Append(p[1], p[2])]
<1>1. Combines(Texts, Place, op) /\ <<>> \in Texts
  <2>1. \A p \in Texts \X Place : Append(p[1], p[2]) \in Texts /\ p[1] \in Texts
    BY DEF Texts
  <2> QED BY <2>1 DEF Combines, Texts
<1>2. \A text \in Texts, char \in Place :
          op[<<text, char>>] = IF IsSpace(content, char) THEN text ELSE Append(text, char)
  OBVIOUS
<1> HIDE DEF op
<1>3. ASSUME NEW text \in Texts PROVE VisibleChars(text) = Fold(Texts, op, <<>>, text)
  <2> DEFINE Fixed(h) == h = [s \in SUBSET (DOMAIN text) |->
                                 IF s = {} THEN <<>>
                                 ELSE IF IsSpace(content, text[Max(s)]) THEN h[s \ {Max(s)}]
                                 ELSE Append(h[s \ {Max(s)}], text[Max(s)])]
             chosen == CHOOSE h : Fixed(h)
  <2>7. text \in Seq(Place)
    BY DEF Texts
  <2>1. PICK g : Unfolding(Texts, op, <<>>, text, g)
    BY <1>1, <2>7, UnfoldsExists
  <2>2. \A k \in DOMAIN text : text[k] \in Place
    BY DEF Texts
  <2>3. Fixed(g)
    BY <1>2, <2>1, <2>2 DEF Unfolding
  <2>4. VisibleChars(text) = chosen[DOMAIN text]
    BY DEF VisibleChars, FoldLeft, MapThenFoldSet
  <2>5. Fixed(chosen)
    BY <2>3
  <2> HIDE DEF chosen
  <2>6. Unfolds(Texts, op, <<>>, text, chosen)
    <3>1. chosen[{}] = <<>>
      BY <2>5
    <3>2. ASSUME NEW s \in SUBSET (DOMAIN text), s # {}, chosen[s \ {Max(s)}] \in Texts
          PROVE  chosen[s] = op[<<chosen[s \ {Max(s)}], text[Max(s)]>>]
      BY <1>2, <2>1, <2>2, <2>5, <3>2 DEF Unfolding
    <3> QED BY <3>1, <3>2 DEF Unfolds
  <2> QED BY <1>1, <2>4, <2>6, <2>7, FoldFacts
<1>4. \A text \in Texts : /\ <<>> \in Texts
                          /\ \A char \in Place : Append(text, char) \in Texts
  BY DEF Texts
<1>5. /\ Fold(Texts, op, <<>>, <<>>) = <<>>
      /\ \A text \in Texts :
            /\ Fold(Texts, op, <<>>, text) \in Texts
            /\ \A char \in Place : Fold(Texts, op, <<>>, Append(text, char))
                                       = op[<<Fold(Texts, op, <<>>, text), char>>]
  <2>1. Texts = Seq(Place)
    BY DEF Texts
  <2>2. /\ Fold(Texts, op, <<>>, <<>>) = <<>>
        /\ \A text \in Seq(Place) :
              /\ Fold(Texts, op, <<>>, text) \in Texts
              /\ \A char \in Place : Fold(Texts, op, <<>>, Append(text, char))
                                       = op[<<Fold(Texts, op, <<>>, text), char>>]
    BY <1>1, FoldFacts
  <2> QED BY <2>1, <2>2
<1> QED BY <1>1, <1>2, <1>3, <1>4, <1>5

\* Visible characters of a concatenation.
LEMMA VisibleConcat ==
    ASSUME NEW s \in Texts, NEW t \in Texts
    PROVE  VisibleChars(s \o t) = VisibleChars(s) \o VisibleChars(t)
<1> DEFINE T == {u \in Texts : VisibleChars(s \o u) = VisibleChars(s) \o VisibleChars(u)}
<1>1. <<>> \in T
  <2>1. s \o <<>> = s /\ VisibleChars(s) \o <<>> = VisibleChars(s) /\ <<>> \in Texts
    BY VisibleFacts, ConcatEmptySeq DEF Texts
  <2> QED BY <2>1, VisibleFacts
<1>2. ASSUME NEW u \in Seq(Place), NEW char \in Place, u \in T PROVE Append(u, char) \in T
  <2>1. /\ u \in Texts /\ Append(u, char) \in Texts /\ s \o u \in Texts
        /\ VisibleChars(s) \in Texts /\ VisibleChars(u) \in Texts
    BY VisibleFacts DEF Texts
  <2>2. s \o Append(u, char) = Append(s \o u, char)
    BY ConcatAppend DEF Texts
  <2>3. VisibleChars(s) \o Append(VisibleChars(u), char)
            = Append(VisibleChars(s) \o VisibleChars(u), char)
    BY <2>1, ConcatAppend DEF Texts
  <2>4. VisibleChars(s \o u) = VisibleChars(s) \o VisibleChars(u)
    BY <1>2
  <2> QED BY <2>1, <2>2, <2>3, <2>4, VisibleFacts
<1> HIDE DEF T
<1>3. \A u \in Seq(Place) : u \in T
  BY <1>1, <1>2, SequenceInduction
<1> QED BY <1>3 DEF T, Texts

\* One character.
LEMMA VisibleOne ==
    ASSUME NEW char \in Place
    PROVE  VisibleChars(<<char>>) = IF IsSpace(content, char) THEN <<>> ELSE <<char>>
<1>1. <<char>> = Append(<<>>, char) /\ <<>> \in Texts
  BY DEF Texts
<1> QED BY <1>1, VisibleFacts

\* Blank texts.
LEMMA VisibleBlank ==
    ASSUME NEW text \in Texts
    PROVE  VisibleChars(text) = <<>> <=> \A k \in 1..Len(text) : IsSpace(content, text[k])
<1> DEFINE Blank(t) == \A k \in 1..Len(t) : IsSpace(content, t[k])
           T == {t \in Texts : VisibleChars(t) = <<>> <=> Blank(t)}
<1>1. <<>> \in T
  BY VisibleFacts DEF Texts
<1>2. ASSUME NEW t \in Seq(Place), NEW char \in Place, t \in T PROVE Append(t, char) \in T
  <2>1. t \in Texts /\ Append(t, char) \in Texts /\ VisibleChars(t) \in Seq(Place)
    BY VisibleFacts DEF Texts
  <2>2. Blank(Append(t, char)) <=> Blank(t) /\ IsSpace(content, char)
    <3> DEFINE n == Len(t)
               longer == Append(t, char)
    <3>1. /\ n \in Nat /\ Len(longer) = n + 1 /\ longer[n + 1] = char
          /\ \A k \in 1..n : longer[k] = t[k]
      OBVIOUS
    <3> HIDE DEF longer, n
    <3>2. 1..(n + 1) = (1..n) \cup {n + 1}
      BY <3>1
    <3>3. Blank(longer) <=> (\A k \in 1..n : IsSpace(content, t[k])) /\ IsSpace(content, char)
      BY <3>1, <3>2
    <3> QED BY <3>3 DEF longer, n
  <2>3. Append(VisibleChars(t), char) # <<>>
    BY <2>1
  <2> HIDE DEF Blank
  <2>4. VisibleChars(t) = <<>> <=> Blank(t)
    BY <1>2
  <2>5. VisibleChars(Append(t, char)) = IF IsSpace(content, char) THEN VisibleChars(t)
                                        ELSE Append(VisibleChars(t), char)
    BY <2>1, VisibleFacts
  <2>6. VisibleChars(Append(t, char)) = <<>> <=> Blank(Append(t, char))
    <3>1. CASE IsSpace(content, char)
      BY <2>2, <2>4, <2>5, <3>1
    <3>2. CASE ~IsSpace(content, char)
      BY <2>2, <2>3, <2>5, <3>2
    <3> QED BY <3>1, <3>2
  <2> QED BY <2>1, <2>6
<1> HIDE DEF T
<1>3. \A t \in Seq(Place) : t \in T
  BY <1>1, <1>2, SequenceInduction
<1> QED BY <1>3 DEF T, Texts

\* A text that starts with a visible character.
LEMMA VisibleFirst ==
    ASSUME NEW text \in Texts, text # <<>>, ~IsSpace(content, text[1])
    PROVE  /\ VisibleChars(text) # <<>> /\ Len(VisibleChars(text)) >= 1
           /\ VisibleChars(text)[1] = text[1]
<1> DEFINE n == Len(text)
           rest == SubSeq(text, 2, n)
<1>1. n \in Nat /\ n >= 1 /\ text[1] \in Place /\ \A k \in 2..n : text[k] \in Place
  BY DEF Texts
<1>2. rest \in Texts
  <2>1. 2 \in Int /\ n \in Int
    BY <1>1
  <2> QED BY <1>1, <2>1, SubSeqProperties DEF Texts
<1>3. text = <<text[1]>> \o rest
  <2>1. text = SubSeq(text, 1, n) /\ SubSeq(text, 1, n) = <<text[1]>> \o SubSeq(text, 2, n)
    <3>1. 1 \in 1..n /\ n \in 1..n
      BY <1>1
    <3>2. SubSeq(text, 1, n) = text
      BY SubSeqFull DEF Texts
    <3>3. SubSeq(text, 1, n) = <<text[1]>> \o SubSeq(text, 1 + 1, n)
      BY <3>1, SubSeqRecursiveFirst DEF Texts
    <3> QED BY <3>2, <3>3
  <2> QED BY <2>1
<1> HIDE DEF rest
<1>4. <<text[1]>> \in Texts /\ VisibleChars(<<text[1]>>) = <<text[1]>>
  BY <1>1, VisibleOne DEF Texts
<1>5. VisibleChars(text) = <<text[1]>> \o VisibleChars(rest)
  BY <1>2, <1>3, <1>4, VisibleConcat
<1>6. VisibleChars(rest) \in Seq(Place)
  BY <1>2, VisibleFacts DEF Texts
<1> QED BY <1>1, <1>5, <1>6

\* Visible characters come from the text.
LEMMA VisibleFrom ==
    ASSUME NEW text \in Texts
    PROVE  \A k \in 1..Len(VisibleChars(text)) :
              \E m \in 1..Len(text) : VisibleChars(text)[k] = text[m]
<1> DEFINE Good(t) == \A k \in 1..Len(VisibleChars(t)) :
                         \E m \in 1..Len(t) : VisibleChars(t)[k] = t[m]
           T == {t \in Texts : Good(t)}
<1>1. <<>> \in T
  <2>1. <<>> \in Texts /\ VisibleChars(<<>>) = <<>> /\ Len(<<>>) = 0
    BY VisibleFacts DEF Texts
  <2> QED BY <2>1
<1>2. ASSUME NEW t \in Texts, NEW char \in Place, t \in T PROVE Append(t, char) \in T
  <2> DEFINE v == VisibleChars(t)
             more == Append(t, char)
  <2>1. v \in Texts /\ VisibleChars(more) = IF IsSpace(content, char) THEN v ELSE Append(v, char)
    BY VisibleFacts
  <2>2. \A k \in 1..Len(v) : \E m \in 1..Len(t) : v[k] = t[m]
    BY <1>2
  <2> HIDE DEF v
  <2>3. /\ more \in Texts /\ Len(t) \in Nat /\ Len(more) = Len(t) + 1
        /\ more[Len(t) + 1] = char /\ \A m \in 1..Len(t) : more[m] = t[m]
    BY DEF Texts
  <2>4. /\ Len(v) \in Nat /\ Len(Append(v, char)) = Len(v) + 1
        /\ Append(v, char)[Len(v) + 1] = char
        /\ \A k \in 1..Len(v) : Append(v, char)[k] = v[k]
    BY <2>1 DEF Texts
  <2> HIDE DEF more
  <2>5. ASSUME NEW k \in 1..Len(v) PROVE \E m \in 1..Len(more) : v[k] = more[m]
    <3>1. PICK m \in 1..Len(t) : v[k] = t[m]
      BY <2>2
    <3>2. m \in 1..Len(more)
      BY <2>3
    <3> QED BY <2>3, <3>1, <3>2
  <2>6. ASSUME IsSpace(content, char) PROVE Good(more)
    BY <2>1, <2>5, <2>6
  <2>7. ASSUME ~IsSpace(content, char) PROVE Good(more)
    <3>1. ASSUME NEW k \in 1..(Len(v) + 1)
          PROVE  \E m \in 1..Len(more) : Append(v, char)[k] = more[m]
      <4>1. CASE k = Len(v) + 1
        <5>1. Len(t) + 1 \in 1..Len(more)
          BY <2>3
        <5> QED BY <2>3, <2>4, <4>1, <5>1
      <4>2. CASE k # Len(v) + 1
        <5>1. k \in 1..Len(v)
          BY <2>4, <4>2
        <5> QED BY <2>4, <2>5, <5>1
      <4> QED BY <4>1, <4>2
    <3> QED BY <2>1, <2>4, <2>7, <3>1
  <2> HIDE DEF Good
  <2> QED BY <2>3, <2>6, <2>7 DEF more
<1> HIDE DEF T
<1>3. \A t \in Seq(Place) : t \in T
  BY <1>1, <1>2, SequenceInduction DEF Texts
<1>4. text \in Seq(Place)
  BY DEF Texts
<1> QED BY <1>3, <1>4 DEF T

\* A text that goes on behind its first visible character shows more than that one.
LEMMA VisibleMore ==
    ASSUME NEW text \in Texts, ~IsSpace(content, text[1]), NEW k \in 2..Len(text),
           ~IsSpace(content, text[k])
    PROVE  /\ Len(VisibleChars(text)) >= 2
           /\ \E m \in 2..Len(text) : VisibleChars(text)[2] = text[m]
<1> DEFINE head == <<text[1]>>
           rest == SubSeq(text, 2, Len(text))
           v == VisibleChars(rest)
<1>1. text \in Seq(Place) /\ Len(text) \in Nat /\ Len(text) >= 2 /\ k \in Int
      /\ text[1] \in Place
  <2>1. text \in Seq(Place)
    BY DEF Texts
  <2> QED BY <2>1
<1>2. head \in Texts /\ VisibleChars(head) = head /\ head = SubSeq(text, 1, 1)
  <2>1. head \in Seq(Place) /\ head = SubSeq(text, 1, 1)
    <3>1. \A m \in 1..1 : text[m] \in Place
      BY <1>1
    <3>2. SubSeq(text, 1, 1) \in Seq(Place) /\ Len(SubSeq(text, 1, 1)) = 1
          /\ SubSeq(text, 1, 1)[1] = text[1]
      BY <1>1
    <3>3. head \in Seq(Place) /\ Len(head) = 1 /\ head[1] = text[1]
      BY <1>1
    <3> HIDE DEF head
    <3>4. \A m \in 1..Len(head) : head[m] = SubSeq(text, 1, 1)[m]
      BY <3>2, <3>3
    <3> QED BY <3>2, <3>3, <3>4, SeqEqual
  <2> QED BY <1>1, <2>1, VisibleOne DEF Texts
<1>3. /\ rest \in Seq(Place) /\ Len(rest) = Len(text) - 1
      /\ \A m \in 1..Len(rest) : rest[m] = text[m + 1]
  <2>1. /\ 2 \in Int /\ Len(text) \in Int /\ 2 <= Len(text)
        /\ \A m \in 2..Len(text) : text[m] \in Place
    BY <1>1
  <2>2. /\ rest \in Seq(Place) /\ Len(rest) = IF 2 <= Len(text) THEN Len(text) - 2 + 1 ELSE 0
        /\ \A m \in 1..(Len(text) - 2 + 1) : rest[m] = text[2 + m - 1]
    BY <2>1, SubSeqProperties
  <2> HIDE DEF rest
  <2>3. Len(rest) = Len(text) - 1
    BY <1>1, <2>2
  <2>4. ASSUME NEW m \in 1..Len(rest) PROVE rest[m] = text[m + 1]
    <3>1. m \in 1..(Len(text) - 2 + 1) /\ 2 + m - 1 = m + 1
      BY <1>1, <2>3
    <3> QED BY <2>2, <3>1
  <2> QED BY <2>2, <2>3, <2>4
<1>4. text = head \o rest
  <2>1. SubSeq(text, 1, 1) \o SubSeq(text, 1 + 1, Len(text)) = SubSeq(text, 1, Len(text))
    <3>1. 1 \in 1..(Len(text) + 1) /\ 1 \in (1 - 1)..Len(text) /\ Len(text) \in 1..Len(text)
      BY <1>1
    <3> QED BY <1>1, <3>1, ConcatAdjacentSubSeq
  <2>2. SubSeq(text, 1, Len(text)) = text
    BY <1>1, SubSeqFull
  <2> QED BY <1>2, <2>1, <2>2
<1> HIDE DEF rest
<1>5. rest \in Texts
  BY <1>3 DEF Texts
<1>6. v # <<>> /\ v \in Seq(Place)
  <2>1. k - 1 \in 1..Len(rest) /\ (k - 1) + 1 = k
    BY <1>1, <1>3
  <2>2. ~IsSpace(content, rest[k - 1])
    BY <1>3, <2>1
  <2>3. v # <<>>
    BY <1>5, <2>1, <2>2, VisibleBlank
  <2> QED BY <1>5, <2>3, VisibleFacts DEF Texts
<1>7. VisibleChars(text) = head \o v
  BY <1>2, <1>4, <1>5, VisibleConcat
<1>8. \A m \in 1..Len(v) : \E i \in 1..Len(rest) : v[m] = rest[i]
  BY <1>5, VisibleFrom
<1> HIDE DEF v
<1>9. Len(v) >= 1
  BY <1>6
<1>10. Len(head \o v) >= 2 /\ (head \o v)[2] = v[1]
  BY <1>1, <1>6, <1>9
<1>11. PICK i \in 1..Len(rest) : v[1] = rest[i]
  BY <1>6, <1>8, <1>9
<1>12. i + 1 \in 2..Len(text) /\ rest[i] = text[i + 1]
  BY <1>1, <1>3
<1> QED BY <1>7, <1>10, <1>11, <1>12

\* What is trimmed is blank, and what is left starts and ends with visible characters.
LEMMA Trimmed ==
    ASSUME NEW text \in Texts
    PROVE  LET trimmed == TrimSpace(content, text) IN
           \/ trimmed = <<>> /\ \A k \in 1..Len(text) : IsSpace(content, text[k])
           \/ \E lo \in 1..Len(text) : \E hi \in lo..Len(text) :
                 /\ trimmed = SubSeq(text, lo, hi)
                 /\ ~IsSpace(content, text[lo]) /\ ~IsSpace(content, text[hi])
                 /\ \A k \in 1..Len(text) : k < lo \/ hi < k => IsSpace(content, text[k])
<1> DEFINE n == Len(text)
           visible == {k \in DOMAIN text : ~IsSpace(content, text[k])}
           lo == Min(visible)
           hi == Max(visible)
           trimmed == TrimSpace(content, text)
<1>1. n \in Nat /\ DOMAIN text = 1..n
  BY DEF Texts
<1>2. CASE visible = {}
  <2>1. trimmed = <<>>
    BY <1>2 DEF TrimSpace
  <2> QED BY <1>1, <1>2, <2>1
<1>3. CASE visible # {}
  <2>1. trimmed = SubSeq(text, lo, hi)
    BY <1>3 DEF TrimSpace
  <2>2. visible \in SUBSET (1..n) /\ visible \in SUBSET Nat
    BY <1>1
  <2>3. lo \in visible /\ \A y \in visible : lo <= y
    BY <1>3, <2>2, SmallestElement
  <2>4. hi \in visible /\ \A y \in visible : y <= hi
    BY <1>1, <1>3, <2>2, GreatestElement
  <2>5. ~IsSpace(content, text[lo]) /\ ~IsSpace(content, text[hi])
    BY <2>3, <2>4
  <2>6. \A k \in 1..n : k \notin visible => IsSpace(content, text[k])
    BY <1>1
  <2> HIDE DEF lo, hi, visible, trimmed
  <2>7. lo \in 1..n /\ hi \in lo..n
    BY <1>1, <2>2, <2>3, <2>4
  <2>8. \A k \in 1..n : k < lo \/ hi < k => k \notin visible
    BY <1>1, <2>3, <2>4, <2>7
  <2>9. \A k \in 1..n : k < lo \/ hi < k => IsSpace(content, text[k])
    BY <2>6, <2>8
  <2> QED BY <2>1, <2>5, <2>7, <2>9 DEF trimmed
<1> QED BY <1>2, <1>3

\* Trimming removes no visible character.
LEMMA TrimKeeps ==
    ASSUME NEW text \in Texts
    PROVE  /\ TrimSpace(content, text) \in Texts
           /\ VisibleChars(TrimSpace(content, text)) = VisibleChars(text)
           /\ TrimSpace(content, text) # <<>> =>
                 ~IsSpace(content, TrimSpace(content, text)[1])
<1> DEFINE trimmed == TrimSpace(content, text)
           n == Len(text)
<1>1. n \in Nat /\ \A k \in 1..n : text[k] \in Place
  BY DEF Texts
<1>2. CASE trimmed = <<>> /\ \A k \in 1..n : IsSpace(content, text[k])
  <2>1. trimmed \in Texts /\ VisibleChars(trimmed) = <<>> /\ VisibleChars(text) = <<>>
    BY <1>2, VisibleBlank, VisibleFacts DEF Texts
  <2> QED BY <1>2, <2>1
<1>3. ASSUME NEW lo \in 1..n, NEW hi \in lo..n,
             trimmed = SubSeq(text, lo, hi), ~IsSpace(content, text[lo]),
             \A k \in 1..n : k < lo \/ hi < k => IsSpace(content, text[k])
      PROVE  /\ trimmed \in Texts /\ VisibleChars(trimmed) = VisibleChars(text)
             /\ trimmed # <<>> => ~IsSpace(content, trimmed[1])
  <2> DEFINE before == SubSeq(text, 1, lo - 1)
             after == SubSeq(text, hi + 1, n)
  <2>1. /\ lo \in Int /\ hi \in Int /\ lo - 1 \in Int /\ hi + 1 \in Int /\ 1 \in Int /\ n \in Int
        /\ \A k \in lo..hi : text[k] \in Place
        /\ \A k \in 1..(lo - 1) : text[k] \in Place
        /\ \A k \in (hi + 1)..n : text[k] \in Place
    BY <1>1
  <2>2. /\ trimmed \in Texts
        /\ \A k \in 1..(hi - lo + 1) : trimmed[k] = text[lo + k - 1]
    BY <1>3, <2>1, SubSeqProperties DEF Texts
  <2>3. trimmed[1] = text[lo]
    <3>1. 1 \in 1..(hi - lo + 1) /\ lo + 1 - 1 = lo
      BY <2>1
    <3> QED BY <2>2, <3>1
  <2>4. before \in Texts /\ \A k \in 1..Len(before) : IsSpace(content, before[k])
    <3>1. /\ before \in Texts
          /\ Len(before) = IF 1 <= lo - 1 THEN lo - 1 - 1 + 1 ELSE 0
          /\ \A k \in 1..(lo - 1 - 1 + 1) : before[k] = text[1 + k - 1]
      BY <2>1, SubSeqProperties DEF Texts
    <3> HIDE DEF before
    <3>2. \A k \in 1..Len(before) : before[k] = text[k] /\ k \in 1..n /\ k < lo
      BY <1>1, <2>1, <3>1
    <3> QED BY <1>3, <3>1, <3>2
  <2>5. after \in Texts /\ \A k \in 1..Len(after) : IsSpace(content, after[k])
    <3>1. /\ after \in Texts
          /\ Len(after) = IF hi + 1 <= n THEN n - (hi + 1) + 1 ELSE 0
          /\ \A k \in 1..(n - (hi + 1) + 1) : after[k] = text[hi + 1 + k - 1]
      BY <2>1, SubSeqProperties DEF Texts
    <3> HIDE DEF after
    <3>2. \A k \in 1..Len(after) : after[k] = text[hi + k] /\ hi + k \in 1..n /\ hi < hi + k
      BY <1>1, <2>1, <3>1
    <3> QED BY <1>3, <3>1, <3>2
  <2>6. text = before \o (trimmed \o after)
    <3>1. SubSeq(text, lo, hi) \o SubSeq(text, hi + 1, n) = SubSeq(text, lo, n)
      <4>1. lo \in 1..(n + 1) /\ hi \in (lo - 1)..n /\ n \in hi..n
        BY <1>1
      <4> QED BY <4>1, ConcatAdjacentSubSeq DEF Texts
    <3>2. SubSeq(text, 1, lo - 1) \o SubSeq(text, (lo - 1) + 1, n) = SubSeq(text, 1, n)
      <4>1. 1 \in 1..(n + 1) /\ lo - 1 \in (1 - 1)..n /\ n \in (lo - 1)..n
        BY <1>1
      <4> QED BY <4>1, ConcatAdjacentSubSeq DEF Texts
    <3>3. (lo - 1) + 1 = lo
      BY <2>1
    <3>4. SubSeq(text, 1, n) = text
      BY SubSeqFull DEF Texts
    <3> QED BY <1>3, <3>1, <3>2, <3>3, <3>4
  <2> HIDE DEF before, after
  <2>7. VisibleChars(before) = <<>> /\ VisibleChars(after) = <<>>
    BY <2>4, <2>5, VisibleBlank
  <2>8. trimmed \o after \in Texts
    BY <2>2, <2>5 DEF Texts
  <2>9. VisibleChars(text) = <<>> \o (VisibleChars(trimmed) \o <<>>)
    <3>1. VisibleChars(trimmed \o after) = VisibleChars(trimmed) \o <<>>
      BY <2>2, <2>5, <2>7, VisibleConcat
    <3> QED BY <2>4, <2>6, <2>7, <2>8, <3>1, VisibleConcat
  <2>10. <<>> \o (VisibleChars(trimmed) \o <<>>) = VisibleChars(trimmed)
    BY <2>2, VisibleFacts, ConcatEmptySeq DEF Texts
  <2> QED BY <1>3, <2>2, <2>3, <2>9, <2>10
<1> HIDE DEF trimmed
<1>4. \/ trimmed = <<>> /\ \A k \in 1..n : IsSpace(content, text[k])
      \/ \E lo \in 1..n : \E hi \in lo..n :
            /\ trimmed = SubSeq(text, lo, hi)
            /\ ~IsSpace(content, text[lo]) /\ ~IsSpace(content, text[hi])
            /\ \A k \in 1..n : k < lo \/ hi < k => IsSpace(content, text[k])
  BY Trimmed DEF trimmed
<1> QED BY <1>2, <1>3, <1>4 DEF trimmed

-----------------------------------------------------------------------------
(* Sections *)

\* The numbers of the lines, the characters of a line that are its own, and the byte order
\* mark in front of the first one.
Numbers == DOMAIN content.lines
Body(i) == [k \in 1..(content.lines[i].indent + content.lines[i].chars) |-> At(i, k)]
BomText == IF content.bom THEN <<Mark>> ELSE <<>>

\* The lines of a document.
LEMMA LineFacts ==
    ASSUME Document
    PROVE  /\ Len(content.lines) \in Nat \ {0} /\ Numbers = 1..Len(content.lines)
           /\ content.bom \in BOOLEAN /\ BomText \in Texts
           /\ \A i \in Numbers :
                 /\ i \in Nat \ {0} /\ content.lines[i] \in Lines
                 /\ content.lines[i].indent \in Nat /\ content.lines[i].chars \in Nat
                 /\ Body(i) \in Texts /\ Chars(content, i) \in Texts
                 /\ Len(Body(i)) = content.lines[i].indent + content.lines[i].chars
                 /\ Chars(content, i) = (IF i = 1 THEN BomText ELSE <<>>) \o Body(i)
                 /\ i # 1 => Chars(content, i) = Body(i)
<1>1. /\ Len(content.lines) \in Nat \ {0} /\ Numbers = 1..Len(content.lines)
      /\ content.bom \in BOOLEAN
      /\ \A i \in Numbers : i \in Nat \ {0} /\ content.lines[i] \in Lines
  BY RowsAssumption DEF Document, Numbers
<1>2. \A i \in Numbers : content.lines[i].indent \in Nat /\ content.lines[i].chars \in Nat
  BY <1>1, RowsAssumption
<1>3. BomText \in Texts /\ <<>> \in Texts
  <2>1. Mark \in Place
    BY DEF Mark, At, Place
  <2>2. <<Mark>> \in Seq(Place) /\ <<>> \in Seq(Place)
    BY <2>1
  <2> QED BY <2>2 DEF BomText, Texts
<1>4. ASSUME NEW i \in Numbers
      PROVE  /\ Body(i) \in Texts
             /\ Len(Body(i)) = content.lines[i].indent + content.lines[i].chars
  <2> DEFINE n == content.lines[i].indent + content.lines[i].chars
  <2>1. n \in Nat /\ i \in Nat
    BY <1>1, <1>2
  <2> HIDE DEF n
  <2>2. \A k \in 1..n : At(i, k) \in Place
    BY <2>1 DEF At, Place
  <2>3. [k \in 1..n |-> At(i, k)] \in Seq(Place) /\ Len([k \in 1..n |-> At(i, k)]) = n
    BY <2>1, <2>2
  <2> QED BY <2>3 DEF Body, Texts, n
<1>5. ASSUME NEW i \in Numbers
      PROVE  /\ Chars(content, i) \in Texts
             /\ Chars(content, i) = (IF i = 1 THEN BomText ELSE <<>>) \o Body(i)
             /\ i # 1 => Chars(content, i) = Body(i)
  <2>1. Chars(content, i) = (IF i = 1 THEN BomText ELSE <<>>) \o Body(i)
    BY <1>1 DEF Chars, Body, BomText
  <2>2. Body(i) \in Seq(Place) /\ BomText \in Seq(Place) /\ <<>> \o Body(i) = Body(i)
    BY <1>3, <1>4, ConcatEmptySeq DEF Texts
  <2>3. BomText \o Body(i) \in Seq(Place)
    BY <2>2
  <2> QED BY <2>1, <2>2, <2>3 DEF Texts
<1> QED BY <1>1, <1>2, <1>3, <1>4, <1>5

\* Lines are joined by newlines.
LEMMA JoinFacts ==
    ASSUME Document
    PROVE  /\ \A current \in Seq(Numbers) : Join(content, current) \in Texts
           /\ \A i \in Numbers : Join(content, <<i>>) = Chars(content, i)
           /\ \A current \in Seq(Numbers), i \in Numbers :
                 current # <<>> /\ i # current[1] =>
                    Join(content, Append(current, i))
                       = (Join(content, current) \o <<Newline(i)>>) \o Chars(content, i)
<1> DEFINE Sep(first, i) == IF i = first THEN <<>> ELSE <<Newline(i)>>
           op(first) == [p \in Texts \X Numbers |->
                            (p[1] \o Sep(first, p[2])) \o Chars(content, p[2])]
<1>1. /\ <<>> \in Texts
      /\ \A i \in Numbers : Chars(content, i) \in Texts /\ <<Newline(i)>> \in Texts
  BY LineFacts DEF Texts, Newline, At, Place
<1>2. ASSUME NEW first PROVE Combines(Texts, Numbers, op(first))
  <2>1. ASSUME NEW t \in Texts, NEW i \in Numbers
        PROVE  (t \o Sep(first, i)) \o Chars(content, i) \in Texts
    <3>1. Sep(first, i) \in Texts
      BY <1>1
    <3> HIDE DEF Sep
    <3> QED BY <1>1, <3>1 DEF Texts
  <2> HIDE DEF Sep
  <2> QED BY <2>1 DEF Combines
<1>3. \A first : \A t \in Texts, i \in Numbers :
          op(first)[<<t, i>>] = (t \o Sep(first, i)) \o Chars(content, i)
  OBVIOUS
<1> HIDE DEF op
<1>4. ASSUME NEW current \in Seq(Numbers)
      PROVE  Join(content, current) = Fold(Texts, op(current[1]), <<>>, current)
  <2> DEFINE step == op(current[1])
             More(t, i) == (t \o (IF i = current[1] THEN <<>> ELSE <<Newline(i)>>))
                               \o Chars(content, i)
             Fixed(h) == h = [s \in SUBSET (DOMAIN current) |->
                                 IF s = {} THEN <<>>
                                 ELSE More(h[s \ {Max(s)}], current[Max(s)])]
             chosen == CHOOSE h : Fixed(h)
  <2>1. Join(content, current) = chosen[DOMAIN current]
    BY DEF Join, FoldLeft, MapThenFoldSet
  <2>2. Combines(Texts, Numbers, step)
    BY <1>2
  <2>3. \A t \in Texts, i \in Numbers :
            step[<<t, i>>] = More(t, i)
    BY <1>3
  <2> HIDE DEF step, More
  <2>4. PICK g : Unfolding(Texts, step, <<>>, current, g)
    BY <1>1, <2>2, UnfoldsExists
  <2>5. \A k \in DOMAIN current : current[k] \in Numbers
    OBVIOUS
  <2>6. Fixed(g)
    BY <2>3, <2>4, <2>5 DEF Unfolding
  <2>7. Fixed(chosen)
    BY <2>6
  <2> HIDE DEF chosen
  <2>8. Unfolds(Texts, step, <<>>, current, chosen)
    <3>1. chosen[{}] = <<>>
      BY <2>7
    <3>2. ASSUME NEW s \in SUBSET (DOMAIN current), s # {}, chosen[s \ {Max(s)}] \in Texts
          PROVE  chosen[s] = step[<<chosen[s \ {Max(s)}], current[Max(s)]>>]
      BY <2>3, <2>4, <2>5, <2>7, <3>2 DEF Unfolding
    <3> QED BY <3>1, <3>2 DEF Unfolds
  <2>9. chosen[DOMAIN current] = Fold(Texts, step, <<>>, current)
    BY <1>1, <2>2, <2>8, FoldFacts
  <2> QED BY <2>1, <2>9 DEF step
<1>5. ASSUME NEW first
      PROVE  /\ Fold(Texts, op(first), <<>>, <<>>) = <<>>
             /\ \A current \in Seq(Numbers) :
                   /\ Fold(Texts, op(first), <<>>, current) \in Texts
                   /\ \A i \in Numbers :
                         Fold(Texts, op(first), <<>>, Append(current, i))
                            = (Fold(Texts, op(first), <<>>, current) \o Sep(first, i))
                                 \o Chars(content, i)
  <2> DEFINE step == op(first)
  <2>1. Combines(Texts, Numbers, step)
    BY <1>2
  <2>2. \A t \in Texts, i \in Numbers :
          step[<<t, i>>] = (t \o Sep(first, i)) \o Chars(content, i)
    BY <1>3
  <2> HIDE DEF step, Sep
  <2>3. /\ Fold(Texts, step, <<>>, <<>>) = <<>>
        /\ \A current \in Seq(Numbers) :
              /\ Fold(Texts, step, <<>>, current) \in Texts
              /\ \A i \in Numbers : Fold(Texts, step, <<>>, Append(current, i))
                                       = step[<<Fold(Texts, step, <<>>, current), i>>]
    BY <1>1, <2>1, FoldFacts
  <2> QED BY <2>2, <2>3 DEF step
<1>6. \A current \in Seq(Numbers) : Join(content, current) \in Texts
  BY <1>4, <1>5
<1>7. ASSUME NEW i \in Numbers PROVE Join(content, <<i>>) = Chars(content, i)
  <2>1. <<i>> = Append(<<>>, i) /\ <<>> \in Seq(Numbers) /\ <<i>> \in Seq(Numbers) /\ <<i>>[1] = i
    OBVIOUS
  <2> DEFINE Folded(c) == Fold(Texts, op(i), <<>>, c)
  <2>2. Join(content, <<i>>) = Folded(<<i>>)
    BY <1>4, <2>1
  <2>4. Folded(<<>>) = <<>> /\ Folded(Append(<<>>, i)) = (Folded(<<>>) \o <<>>) \o Chars(content, i)
    BY <1>5, <2>1
  <2> HIDE DEF Folded
  <2>3. (<<>> \o <<>>) \o Chars(content, i) = Chars(content, i)
    BY <1>1, ConcatEmptySeq DEF Texts
  <2> QED BY <2>1, <2>2, <2>3, <2>4
<1>8. ASSUME NEW current \in Seq(Numbers), NEW i \in Numbers, current # <<>>, i # current[1]
      PROVE  Join(content, Append(current, i))
                = (Join(content, current) \o <<Newline(i)>>) \o Chars(content, i)
  <2>1. Append(current, i) \in Seq(Numbers) /\ Append(current, i)[1] = current[1]
    BY <1>8
  <2> DEFINE first == current[1]
             Folded(c) == Fold(Texts, op(first), <<>>, c)
  <2>2. /\ Join(content, current) = Folded(current)
        /\ Join(content, Append(current, i)) = Folded(Append(current, i))
    BY <1>4, <2>1
  <2>3. Folded(Append(current, i)) = (Folded(current) \o <<Newline(i)>>) \o Chars(content, i)
    BY <1>5, <1>8
  <2> QED BY <2>2, <2>3
<1> QED BY <1>6, <1>7, <1>8

\* The lines from a to b.
Run(a, b) == [k \in 1..(b - a + 1) |-> a + k - 1]

\* The lines from a to b, collected one by one.
LEMMA RunFacts ==
    ASSUME Document, NEW a \in Numbers, NEW b \in Numbers, a <= b
    PROVE  /\ Run(a, b) \in Seq(Numbers) /\ Run(a, b) # <<>> /\ Run(a, b)[1] = a
           /\ Run(a, a) = <<a>>
           /\ b + 1 \in Numbers => Run(a, b + 1) = Append(Run(a, b), b + 1)
<1> DEFINE n == Len(content.lines)
<1>1. n \in Nat /\ Numbers = 1..n /\ a \in Nat /\ b \in Nat
  BY LineFacts
<1> HIDE DEF n
<1>2. ASSUME NEW c \in Numbers, a <= c
      PROVE  Run(a, c) \in Seq(Numbers) /\ Len(Run(a, c)) = c - a + 1
  <2>1. c - a + 1 \in Nat /\ \A k \in 1..(c - a + 1) : a + k - 1 \in Numbers
    BY <1>1, <1>2
  <2> QED BY <2>1 DEF Run
<1>3. Run(a, b) # <<>> /\ Run(a, b)[1] = a
  <2>1. 1 \in 1..(b - a + 1) /\ a + 1 - 1 = a
    BY <1>1
  <2>2. Run(a, b)[1] = a
    BY <2>1 DEF Run
  <2>3. Len(Run(a, b)) # 0
    BY <1>1, <1>2
  <2> QED BY <2>2, <2>3
<1>4. Run(a, a) = <<a>>
  <2>1. Run(a, a) \in Seq(Numbers) /\ Len(Run(a, a)) = 1
    <3>1. a <= a /\ a - a + 1 = 1
      BY <1>1
    <3>2. Run(a, a) \in Seq(Numbers) /\ Len(Run(a, a)) = a - a + 1
      BY <1>2, <3>1
    <3> QED BY <3>1, <3>2
  <2>2. <<a>> \in Seq(Numbers) /\ Len(<<a>>) = 1 /\ <<a>>[1] = a
    OBVIOUS
  <2>3. Run(a, a)[1] = a
    <3>1. 1 \in 1..(a - a + 1) /\ a + 1 - 1 = a
      BY <1>1
    <3> QED BY <3>1 DEF Run
  <2>4. \A k \in 1..Len(<<a>>) : Run(a, a)[k] = <<a>>[k]
    BY <2>2, <2>3
  <2> QED BY <2>1, <2>2, <2>4, SeqEqual
<1>5. ASSUME b + 1 \in Numbers PROVE Run(a, b + 1) = Append(Run(a, b), b + 1)
  <2> DEFINE left == Run(a, b + 1)
             right == Append(Run(a, b), b + 1)
             m == b - a + 1
  <2>1. m \in Nat /\ b + 1 - a + 1 = m + 1 /\ a + (m + 1) - 1 = b + 1 /\ a <= b + 1
    BY <1>1
  <2>2. left \in Seq(Numbers) /\ Len(left) = m + 1
    <3>1. left \in Seq(Numbers) /\ Len(left) = (b + 1) - a + 1
      BY <1>2, <1>5, <2>1
    <3>2. (b + 1) - a + 1 = m + 1
      BY <1>1
    <3> QED BY <3>1, <3>2
  <2>3. Run(a, b) \in Seq(Numbers) /\ Len(Run(a, b)) = m
    BY <1>2
  <2>4. right \in Seq(Numbers) /\ Len(right) = m + 1
    BY <1>5, <2>1, <2>3
  <2>5. ASSUME NEW k \in 1..(m + 1) PROVE left[k] = right[k]
    <3>1. left[k] = a + k - 1
      <4>1. k \in 1..((b + 1) - a + 1)
        BY <1>1
      <4> QED BY <4>1 DEF Run
    <3>2. CASE k = m + 1
      <4>1. right[k] = b + 1
        BY <1>5, <2>1, <2>3, <3>2
      <4> QED BY <2>1, <3>1, <3>2, <4>1
    <3>3. CASE k # m + 1
      <4>1. k \in 1..m
        BY <2>1, <3>3
      <4>2. right[k] = Run(a, b)[k]
        BY <1>5, <2>3, <4>1
      <4>3. Run(a, b)[k] = a + k - 1
        BY <4>1 DEF Run
      <4> QED BY <3>1, <4>2, <4>3
    <3> QED BY <3>2, <3>3
  <2> HIDE DEF left, right, m
  <2>6. left = right
    BY <2>2, <2>4, <2>5, SeqEqual
  <2> QED BY <2>6 DEF left, right
<1> QED BY <1>2, <1>3, <1>4, <1>5

\* The text of the lines from a to b, line by line.
Between(a, b) == Join(content, Run(a, b))

\* The text of the lines from a to b grows by a newline, which is blank, and the next line.
LEMMA BetweenFacts ==
    ASSUME Document, NEW a \in Numbers, NEW b \in Numbers, a <= b
    PROVE  /\ Between(a, b) \in Texts
           /\ Between(a, a) = Chars(content, a)
           /\ b + 1 \in Numbers =>
                 /\ Between(a, b + 1)
                       = (Between(a, b) \o <<Newline(b + 1)>>) \o Chars(content, b + 1)
                 /\ VisibleChars(Between(a, b + 1))
                       = VisibleChars(Between(a, b)) \o VisibleChars(Chars(content, b + 1))
<1>1. Between(a, b) \in Texts
  BY RunFacts, JoinFacts DEF Between
<1>2. Between(a, a) = Chars(content, a)
  BY RunFacts, JoinFacts DEF Between
<1>3. ASSUME b + 1 \in Numbers
      PROVE  Between(a, b + 1) = (Between(a, b) \o <<Newline(b + 1)>>) \o Chars(content, b + 1)
  <2>1. /\ Run(a, b) \in Seq(Numbers) /\ Run(a, b) # <<>> /\ Run(a, b)[1] = a
        /\ Run(a, b + 1) = Append(Run(a, b), b + 1)
    BY <1>3, RunFacts
  <2>2. b + 1 # a
    BY LineFacts
  <2> QED BY <1>3, <2>1, <2>2, JoinFacts DEF Between
<1>4. ASSUME b + 1 \in Numbers
      PROVE  VisibleChars(Between(a, b + 1))
                = VisibleChars(Between(a, b)) \o VisibleChars(Chars(content, b + 1))
  <2> DEFINE newline == Newline(b + 1)
             line == Chars(content, b + 1)
             before == Between(a, b)
  <2>1. newline \in Place /\ <<newline>> \in Texts /\ line \in Texts
    <3>1. newline \in Place
      BY <1>4, LineFacts DEF Newline, At, Place
    <3> QED BY <1>4, <3>1, LineFacts DEF Texts
  <2>2. IsSpace(content, newline)
    <3>1. newline.line = b + 1 /\ newline.at = 0 /\ newline # Mark
      BY DEF Newline, At, Mark
    <3>2. 0 <= content.lines[b + 1].indent
      BY <1>4, LineFacts
    <3> QED BY <3>1, <3>2 DEF IsSpace
  <2>3. VisibleChars(<<newline>>) = <<>>
    BY <2>1, <2>2, VisibleOne
  <2> HIDE DEF newline, line, before
  <2>4. before \in Texts /\ before \o <<newline>> \in Texts /\ VisibleChars(before) \in Texts
    <3>1. before \in Texts
      BY <1>1 DEF before
    <3> QED BY <2>1, <3>1, VisibleFacts DEF Texts
  <2>5. VisibleChars(before \o <<newline>>) = VisibleChars(before)
    <3>1. VisibleChars(before \o <<newline>>) = VisibleChars(before) \o <<>>
      BY <2>1, <2>3, <2>4, VisibleConcat
    <3> QED BY <2>4, <3>1, ConcatEmptySeq DEF Texts
  <2>6. VisibleChars((before \o <<newline>>) \o line) = VisibleChars(before) \o VisibleChars(line)
    BY <2>1, <2>4, <2>5, VisibleConcat
  <2> QED BY <1>3, <1>4, <2>6 DEF newline, line, before
<1> QED BY <1>1, <1>2, <1>3, <1>4

\* Where headings start.
Starts == {At(i, 1) : i \in {j \in Numbers : IsHeading(content, j)}}

\* The first line of such a text is followed by characters of other lines only.
LEMMA BetweenShape ==
    ASSUME Document, NEW a \in Numbers, NEW b \in Numbers, a <= b
    PROVE  LET text == Between(a, b)
               first == Chars(content, a)
           IN /\ Len(first) <= Len(text)
              /\ \A k \in 1..Len(first) : text[k] = first[k]
              /\ \A k \in (Len(first) + 1)..Len(text) : text[k].line \in (a + 1)..b
<1> DEFINE first == Chars(content, a)
           Shape(c) == /\ Len(first) <= Len(Between(a, c))
                       /\ \A k \in 1..Len(first) : Between(a, c)[k] = first[k]
                       /\ \A k \in (Len(first) + 1)..Len(Between(a, c)) :
                             Between(a, c)[k].line \in (a + 1)..c
           T == {d \in Nat : a + d \in Numbers => Shape(a + d)}
           n == Len(content.lines)
<1>1. n \in Nat /\ Numbers = 1..n /\ a \in Nat \ {0} /\ b \in Nat /\ first \in Seq(Place)
  BY LineFacts DEF Texts
<1> HIDE DEF n
<1>2. 0 \in T
  <2>1. a + 0 = a /\ a <= a
    BY <1>1
  <2>4. Between(a, a) = first
    BY <2>1, BetweenFacts
  <2>2. Len(first) \in Nat /\ (Len(first) + 1)..Len(first) = {}
    BY <1>1
  <2> HIDE DEF first
  <2>3. Shape(a)
    BY <2>1, <2>2, <2>4
  <2> QED BY <2>1, <2>3
<1>3. ASSUME NEW d \in Nat, d \in T PROVE d + 1 \in T
  <2> HIDE DEF Shape
  <2> SUFFICES ASSUME a + (d + 1) \in Numbers PROVE Shape(a + (d + 1))
    OBVIOUS
  <2> DEFINE c == a + d
             text == Between(a, c)
             longer == Between(a, c + 1)
             line == Chars(content, c + 1)
  <2>1. c \in Numbers /\ c + 1 \in Numbers /\ a <= c /\ a + (d + 1) = c + 1 /\ c \in Nat
    BY <1>1
  <2>2. Shape(c)
    BY <1>3, <2>1
  <2>3. /\ text \in Seq(Place) /\ line \in Seq(Place) /\ Newline(c + 1) \in Place
        /\ longer = (text \o <<Newline(c + 1)>>) \o line
    BY <2>1, BetweenFacts, LineFacts DEF Texts, Newline, At, Place
  <2>4. \A k \in 1..Len(line) : line[k].line = c + 1
    <3>1. c + 1 # 1
      BY <1>1
    <3>2. line = Body(c + 1) /\ Len(Body(c + 1))
              = content.lines[c + 1].indent + content.lines[c + 1].chars
      BY <2>1, <3>1, LineFacts
    <3> DEFINE o == content.lines[c + 1].indent + content.lines[c + 1].chars
    <3>3. \A k \in 1..o : Body(c + 1)[k].line = c + 1
      BY DEF Body, At
    <3>4. line = Body(c + 1) /\ Len(line) = o
      BY <3>2
    <3> HIDE DEF o, line, c
    <3>5. \A k \in 1..Len(line) : k \in 1..o
      BY <3>4
    <3>6. \A k \in 1..o : line[k].line = c + 1
      BY <3>3, <3>4
    <3> QED BY <3>5, <3>6
  <2>5. Newline(c + 1).line = c + 1
    BY DEF Newline, At
  <2> USE DEF Shape
  <2>6. /\ Len(first) <= Len(text) /\ Len(first) \in Nat
        /\ \A k \in 1..Len(first) : text[k] = first[k]
        /\ \A k \in (Len(first) + 1)..Len(text) : text[k].line \in (a + 1)..c
    BY <1>1, <2>2
  <2> HIDE DEF Shape, c, text, longer, line, first
  <2> DEFINE m == Len(text)
             newline == Newline(c + 1)
  <2>7. /\ m \in Nat /\ Len(longer) = m + 1 + Len(line) /\ Len(line) \in Nat
        /\ \A k \in 1..m : longer[k] = text[k]
        /\ longer[m + 1] = newline
        /\ \A k \in (m + 2)..(m + 1 + Len(line)) : longer[k] = line[k - (m + 1)]
    <3> HIDE DEF newline
    <3> DEFINE front == text \o <<newline>>
    <3>1. /\ front \in Seq(Place) /\ Len(front) = m + 1
          /\ \A k \in 1..m : front[k] = text[k]
          /\ front[m + 1] = newline
      BY <2>3 DEF newline
    <3> HIDE DEF front, m
    <3>2. longer = front \o line
      BY <2>3 DEF front, newline
    <3>3. /\ Len(longer) = Len(front) + Len(line)
          /\ \A k \in 1..(Len(front) + Len(line)) :
                longer[k] = IF k <= Len(front) THEN front[k] ELSE line[k - Len(front)]
      <4>1. /\ Len(front \o line) = Len(front) + Len(line)
            /\ \A k \in 1..(Len(front) + Len(line)) :
                  (front \o line)[k] = IF k <= Len(front) THEN front[k] ELSE line[k - Len(front)]
        BY <2>3, <3>1, ConcatProperties
      <4> QED BY <3>2, <4>1
    <3>4. m \in Nat /\ Len(line) \in Nat
      BY <2>3 DEF m
    <3> QED BY <3>1, <3>3, <3>4
  <2> HIDE DEF m
  <2>8. Len(first) <= Len(longer) /\ \A k \in 1..Len(first) : longer[k] = first[k]
    BY <2>6, <2>7 DEF m
  <2>9. ASSUME NEW k \in (Len(first) + 1)..Len(longer)
        PROVE  longer[k].line \in (a + 1)..(c + 1)
    <3>1. c + 1 \in (a + 1)..(c + 1)
      BY <1>1, <2>1
    <3>2. CASE k <= m
      <4>1. k \in (Len(first) + 1)..m /\ k \in 1..m
        BY <2>6, <2>7, <3>2
      <4>2. text[k].line \in (a + 1)..c
        BY <2>6, <4>1 DEF m
      <4>3. longer[k] = text[k]
        BY <2>7, <4>1
      <4>4. (a + 1)..c \subseteq (a + 1)..(c + 1)
        BY <1>1, <2>1
      <4> QED BY <4>2, <4>3, <4>4
    <3>3. CASE k = m + 1
      BY <2>5, <2>7, <3>1, <3>3
    <3>4. CASE k > m + 1
      <4>1. k \in (m + 2)..(m + 1 + Len(line)) /\ k - (m + 1) \in 1..Len(line)
        BY <2>6, <2>7, <3>4
      <4> QED BY <2>4, <2>7, <3>1, <4>1
    <3> QED BY <2>6, <2>7, <3>2, <3>3, <3>4
  <2>10. Shape(c + 1)
    BY <2>8, <2>9 DEF Shape, longer
  <2> QED BY <2>1, <2>10
<1>4. Shape(b)
  <2> HIDE DEF Shape
  <2>1. \A d \in Nat : d \in T
    <3> HIDE DEF T
    <3> QED BY <1>2, <1>3, NumberInduction
  <2>2. b - a \in Nat /\ a + (b - a) = b
    BY <1>1
  <2> QED BY <2>1, <2>2
<1> QED BY <1>4

\* What makes the text of a section: it starts and ends with visible characters, has the start of a
\* heading in no other place, and a title behind a byte order mark follows it at once.
Whole(text) ==
    /\ text \in Texts /\ text # <<>>
    /\ ~IsSpace(content, text[1]) /\ ~IsSpace(content, text[Len(text)])
    /\ \A k \in 2..Len(text) : text[k] \notin Starts
    /\ text[1] = Mark /\ content.lines[1].title # NoLabel =>
          Len(text) >= 2 /\ text[2] = At(1, 1)

\* A heading is not indented and goes on behind its first character.
LEMMA HeadingFacts ==
    ASSUME Document, NEW i \in Numbers, content.lines[i].prefix = "heading"
    PROVE  /\ Len(Body(i)) >= 2 /\ Body(i)[1] = At(i, 1)
           /\ ~IsSpace(content, At(i, 1))
<1>1. /\ content.lines[i] \in Lines /\ content.lines[i].indent = 0 /\ content.lines[i].chars > 1
      /\ content.lines[i].chars \in Nat /\ i \in Nat \ {0}
  BY LineFacts, RowsAssumption
<1>2. Len(Body(i)) >= 2
  BY <1>1, LineFacts
<1>3. Body(i)[1] = At(i, 1)
  <2> DEFINE o == content.lines[i].indent + content.lines[i].chars
  <2>1. 1 \in 1..o
    BY <1>1
  <2> QED BY <2>1 DEF Body
<1>4. At(i, 1).line = i /\ At(i, 1).at = 1
  BY DEF At
<1>5. ~IsSpace(content, At(i, 1))
  BY <1>1, <1>4 DEF IsSpace
<1> QED BY <1>2, <1>3, <1>5

\* The start of a heading is a visible character.
LEMMA StartVisible ==
    ASSUME Document, NEW place \in Starts
    PROVE  ~IsSpace(content, place)
<1>1. PICK i \in Numbers : IsHeading(content, i) /\ place = At(i, 1)
  BY DEF Starts
<1> QED BY <1>1, HeadingFacts DEF IsHeading

\* The characters of the first line of a section.
LEMMA FirstLine ==
    ASSUME Document, NEW a \in Numbers
    PROVE  /\ \A k \in 2..Len(Chars(content, a)) : Chars(content, a)[k] \notin Starts
           /\ \A k \in 1..Len(Chars(content, a)) :
                 Chars(content, a)[k] = Mark => a = 1 /\ content.bom /\ k = 1
           /\ IsHeading(content, a) =>
                 Len(Chars(content, a)) >= 2 /\ Chars(content, a)[1] = At(a, 1)
           /\ a = 1 /\ content.bom =>
                 /\ \A k \in 1..Len(Body(1)) : Chars(content, 1)[k + 1] = Body(1)[k]
                 /\ Len(Chars(content, 1)) = Len(Body(1)) + 1
<1> DEFINE chars == Chars(content, a)
           o == Len(Body(a))
<1>1. /\ a \in Nat \ {0} /\ Body(a) \in Seq(Place) /\ chars \in Seq(Place) /\ o \in Nat
      /\ chars = (IF a = 1 THEN BomText ELSE <<>>) \o Body(a)
  BY LineFacts DEF Texts
<1>2. \A k \in 1..o : Body(a)[k] = At(a, k)
  <2> DEFINE p == content.lines[a].indent + content.lines[a].chars
  <2>1. o = p
    BY LineFacts
  <2>2. \A k \in 1..p : Body(a)[k] = At(a, k)
    BY DEF Body
  <2> QED BY <2>1, <2>2
<1>3. \A i, k : At(i, k).line = i /\ At(i, k).at = k
  BY DEF At
<1>4. \A place \in Starts : \E i \in Numbers : IsHeading(content, i) /\ place = At(i, 1)
  BY DEF Starts
<1>5. CASE a = 1 /\ content.bom
  <2>1. chars = <<Mark>> \o Body(a) /\ Mark \in Place
    BY <1>1, <1>5, LineFacts DEF BomText, Mark, At, Place
  <2>2. /\ Len(chars) = o + 1 /\ chars[1] = Mark
        /\ \A k \in 1..o : chars[k + 1] = Body(a)[k]
    BY <1>1, <2>1, InFront
  <2>3. ASSUME NEW k \in 2..Len(chars) PROVE chars[k] = At(a, k - 1) /\ k - 1 \in 1..o
    <3>1. k - 1 \in 1..o /\ (k - 1) + 1 = k
      BY <1>1, <2>2
    <3> HIDE DEF chars, o
    <3> QED BY <1>2, <2>2, <3>1
  <2>4. ~IsHeading(content, a)
    BY <1>5 DEF IsHeading
  <2> HIDE DEF chars, o
  <2>5. \A k \in 2..Len(chars) : chars[k] \notin Starts
    BY <1>3, <1>4, <2>3, <2>4
  <2>6. ASSUME NEW k \in 1..Len(chars), chars[k] = Mark PROVE k = 1
    <3> SUFFICES ASSUME k # 1 PROVE FALSE
      OBVIOUS
    <3>1. k \in 2..Len(chars)
      BY <1>1, <2>2
    <3>2. Mark.line = 0 /\ chars[k].line = a
      BY <1>3, <2>3, <3>1 DEF Mark
    <3> QED BY <1>1, <2>6, <3>2
  <2> QED BY <1>5, <2>2, <2>4, <2>5, <2>6 DEF chars, o
<1>6. CASE ~(a = 1 /\ content.bom)
  <2>1. chars = Body(a)
    <3>1. chars = <<>> \o Body(a)
      BY <1>1, <1>6 DEF BomText
    <3> QED BY <1>1, <3>1, ConcatEmptySeq
  <2>2. Len(chars) = o /\ \A k \in 1..o : chars[k] = At(a, k)
    BY <1>2, <2>1
  <2> HIDE DEF chars, o
  <2>3. \A k \in 2..Len(chars) : chars[k] \notin Starts
    <3> TAKE k \in 2..Len(chars)
    <3>1. k \in 1..o /\ k # 1
      BY <1>1, <2>2
    <3> QED BY <1>3, <1>4, <2>2, <3>1
  <2>4. \A k \in 1..Len(chars) : chars[k] # Mark
    <3> TAKE k \in 1..Len(chars)
    <3>1. k \in 1..o
      BY <2>2
    <3>2. chars[k].line = a
      BY <1>3, <2>2, <3>1
    <3>3. Mark.line = 0
      BY <1>3 DEF Mark
    <3> QED BY <1>1, <3>2, <3>3
  <2>5. ASSUME IsHeading(content, a) PROVE Len(chars) >= 2 /\ chars[1] = At(a, 1)
    BY <2>1, <2>5, HeadingFacts DEF IsHeading
  <2> QED BY <1>6, <2>3, <2>4, <2>5 DEF chars
<1> QED BY <1>5, <1>6

\* The section of the lines from a to b, if no heading but the first line is among them.
LEMMA SectionWhole ==
    ASSUME Document, NEW a \in Numbers, NEW b \in Numbers, a <= b,
           \A i \in (a + 1)..b : ~IsHeading(content, i),
           TrimSpace(content, Between(a, b)) # <<>>
    PROVE  /\ Whole(TrimSpace(content, Between(a, b)))
           /\ IsHeading(content, a) => TrimSpace(content, Between(a, b))[1] \in Starts
<1> DEFINE t == Between(a, b)
           text == TrimSpace(content, t)
           first == Chars(content, a)
           n == Len(t)
           m == Len(first)
<1>1. /\ a \in Nat \ {0} /\ b \in Nat /\ t \in Texts /\ n \in Nat
      /\ first \in Texts /\ m \in Nat
  <2>1. a \in Nat \ {0} /\ b \in Nat /\ t \in Texts /\ first \in Texts
    BY LineFacts, BetweenFacts
  <2> HIDE DEF t, first
  <2> QED BY <2>1 DEF Texts
<1>2. /\ m <= n
      /\ \A k \in 1..m : t[k] = first[k]
      /\ \A k \in (m + 1)..n : t[k].line \in (a + 1)..b
  BY BetweenShape
<1>3. /\ \A k \in 2..m : first[k] \notin Starts
      /\ \A k \in 1..m : first[k] = Mark => a = 1 /\ content.bom /\ k = 1
      /\ IsHeading(content, a) => m >= 2 /\ first[1] = At(a, 1)
      /\ a = 1 /\ content.bom =>
            /\ \A k \in 1..Len(Body(1)) : first[k + 1] = Body(1)[k]
            /\ m = Len(Body(1)) + 1
  BY FirstLine
<1>4. \A place \in Starts : \E i \in Numbers : IsHeading(content, i) /\ place.line = i
  BY DEF Starts, At
<1>13. PICK lo \in 1..n :
          \E hi \in lo..n :
             /\ text = SubSeq(t, lo, hi)
             /\ ~IsSpace(content, t[lo]) /\ ~IsSpace(content, t[hi])
             /\ \A k \in 1..n : k < lo \/ hi < k => IsSpace(content, t[k])
  BY <1>1, Trimmed
<1>5. PICK hi \in lo..n :
         /\ text = SubSeq(t, lo, hi)
         /\ ~IsSpace(content, t[lo]) /\ ~IsSpace(content, t[hi])
         /\ \A k \in 1..n : k < lo \/ hi < k => IsSpace(content, t[k])
  BY <1>13
<1>6. text \in Texts
  BY <1>1, TrimKeeps
<1> HIDE DEF t, text, first, n, m
<1>7. /\ Len(text) = hi - lo + 1
      /\ \A k \in 1..(hi - lo + 1) : text[k] = t[lo + k - 1]
  <2>1. lo \in Int /\ hi \in Int /\ lo <= hi /\ \A k \in lo..hi : t[k] \in Place
    <3>1. t \in Seq(Place) /\ n = Len(t)
      BY <1>1 DEF Texts, n
    <3> QED BY <1>1, <1>5, <3>1
  <2>2. /\ Len(SubSeq(t, lo, hi)) = IF lo <= hi THEN hi - lo + 1 ELSE 0
        /\ \A k \in 1..(hi - lo + 1) : SubSeq(t, lo, hi)[k] = t[lo + k - 1]
    BY <2>1, SubSeqProperties
  <2> QED BY <1>5, <2>1, <2>2
<1>8. \A k \in 2..n : t[k] \notin Starts
  <2> TAKE k \in 2..n
  <2>1. CASE k <= m
    <3>1. k \in 2..m /\ k \in 1..m
      BY <1>1, <2>1
    <3> QED BY <1>2, <1>3, <3>1
  <2>2. CASE k > m
    <3>1. k \in (m + 1)..n
      BY <1>1, <2>2
    <3> QED BY <1>2, <1>4, <3>1
  <2> QED BY <1>1, <2>1, <2>2
<1>9. text # <<>> /\ text[1] = t[lo] /\ ~IsSpace(content, text[1])
  <2>1. 1 \in 1..(hi - lo + 1) /\ lo + 1 - 1 = lo
    BY <1>1, <1>5
  <2>2. text[1] = t[lo] /\ Len(text) # 0
    BY <1>7, <2>1
  <2> QED BY <1>5, <2>2
<1>10. \A k \in 2..Len(text) : text[k] \notin Starts
  <2> TAKE k \in 2..Len(text)
  <2>1. k \in 1..(hi - lo + 1) /\ lo + k - 1 \in 2..n
    BY <1>1, <1>5, <1>7
  <2> QED BY <1>7, <1>8, <2>1
<1>11. ASSUME text[1] = Mark, content.lines[1].title # NoLabel
       PROVE  Len(text) >= 2 /\ text[2] = At(1, 1)
  <2>1. lo <= m
    <3> SUFFICES ASSUME lo > m PROVE FALSE
      BY <1>1
    <3>1. t[lo].line \in (a + 1)..b
      <4>1. lo \in (m + 1)..n
        BY <1>1
      <4> QED BY <1>2, <4>1
    <3>2. Mark.line = 0
      BY DEF Mark, At
    <3> QED BY <1>1, <1>9, <1>11, <3>1, <3>2
  <2>2. a = 1 /\ content.bom /\ lo = 1
    <3>1. lo \in 1..m
      BY <1>1, <2>1
    <3> QED BY <1>2, <1>3, <1>9, <1>11, <3>1
  <2>3. content.lines[1].prefix = "heading" /\ 1 \in Numbers
    <3>1. 1 \in Numbers /\ content.lines[1] \in Lines
      BY <2>2, LineFacts
    <3> QED BY <1>11, <3>1, RowsAssumption
  <2>4. Len(Body(1)) >= 2 /\ Body(1)[1] = At(1, 1) /\ ~IsSpace(content, At(1, 1))
        /\ Len(Body(1)) \in Nat
    <3>1. Body(1) \in Texts
      BY <2>3, LineFacts
    <3> QED BY <2>3, <3>1, HeadingFacts DEF Texts
  <2>5. first[1 + 1] = At(1, 1) /\ m >= 2
    <3>1. 1 \in 1..Len(Body(1))
      BY <2>4
    <3> QED BY <1>3, <2>2, <2>4, <3>1
  <2>6. t[2] = At(1, 1) /\ 2 \in 1..n
    <3>1. 2 \in 1..m /\ 1 + 1 = 2
      BY <1>1, <2>5
    <3> QED BY <1>1, <1>2, <2>5, <3>1
  <2>7. hi >= 2
    <3> SUFFICES ASSUME hi < 2 PROVE FALSE
      BY <1>1, <1>5
    <3> QED BY <1>5, <2>4, <2>6
  <2>8. 2 \in 1..(hi - lo + 1) /\ lo + 2 - 1 = 2
    BY <1>1, <1>5, <2>2, <2>7
  <2>9. text[2] = t[2] /\ Len(text) >= 2
    BY <1>1, <1>5, <1>7, <2>8
  <2> QED BY <2>6, <2>9
<1>12. ASSUME IsHeading(content, a) PROVE text[1] \in Starts
  <2>1. 1 \in 1..m /\ 1 \in 1..n
    BY <1>1, <1>2, <1>3, <1>12
  <2>2. t[1] = At(a, 1)
    BY <1>2, <1>3, <1>12, <2>1
  <2>3. ~IsSpace(content, t[1])
    BY <1>12, <2>2, HeadingFacts DEF IsHeading
  <2>4. lo = 1
    <3> SUFFICES ASSUME 1 < lo PROVE FALSE
      BY <1>1, <1>5
    <3> QED BY <1>5, <2>1, <2>3
  <2> QED BY <1>9, <1>12, <2>2, <2>4 DEF Starts
<1>14. ~IsSpace(content, text[Len(text)])
  <2>1. Len(text) \in 1..(hi - lo + 1) /\ lo + Len(text) - 1 = hi
    BY <1>1, <1>5, <1>7
  <2>2. text[Len(text)] = t[hi]
    BY <1>7, <2>1
  <2> QED BY <1>5, <2>2
<1> QED BY <1>6, <1>9, <1>10, <1>11, <1>12, <1>14 DEF text, t, Whole

\* The visible characters of texts, one after the other.
AllVisible(texts) ==
    Fold(Texts, [p \in Texts \X Texts |-> p[1] \o VisibleChars(p[2])], <<>>, texts)

\* The visible characters of several texts, text by text.
LEMMA AllVisibleFacts ==
    /\ AllVisible(<<>>) = <<>>
    /\ \A texts \in Seq(Texts) :
          /\ AllVisible(texts) \in Texts
          /\ \A text \in Texts :
                AllVisible(Append(texts, text)) = AllVisible(texts) \o VisibleChars(text)
<1> DEFINE op == [p \in Texts \X Texts |-> p[1] \o VisibleChars(p[2])]
<1>1. \A t, u \in Texts : t \o VisibleChars(u) \in Texts
  BY VisibleFacts DEF Texts
<1>2. Combines(Texts, Texts, op) /\ <<>> \in Texts
  BY <1>1 DEF Combines, Texts
<1>3. \A t, u \in Texts : op[<<t, u>>] = t \o VisibleChars(u)
  OBVIOUS
<1> HIDE DEF op
<1>4. /\ Fold(Texts, op, <<>>, <<>>) = <<>>
      /\ \A texts \in Seq(Texts) :
            /\ Fold(Texts, op, <<>>, texts) \in Texts
            /\ \A text \in Texts : Fold(Texts, op, <<>>, Append(texts, text))
                                      = op[<<Fold(Texts, op, <<>>, texts), text>>]
  BY <1>2, FoldFacts
<1>5. \A texts : AllVisible(texts) = Fold(Texts, op, <<>>, texts)
  BY DEF AllVisible, op
<1> QED BY <1>3, <1>4, <1>5

\* Sections are whole, and all but the first start with a heading.
GoodSections(sections) ==
    /\ sections \in Seq(Texts)
    /\ \A m \in DOMAIN sections :
          Whole(sections[m]) /\ (m > 1 => sections[m][1] \in Starts)

\* What the section of the lines from a to b adds.
LEMMA AddSection ==
    ASSUME Document, NEW a \in Numbers, NEW b \in Numbers, a <= b,
           \A i \in (a + 1)..b : ~IsHeading(content, i),
           NEW sections, GoodSections(sections), sections # <<>> => IsHeading(content, a)
    PROVE  LET more == sections \o Section(content, Run(a, b)) IN
           /\ GoodSections(more)
           /\ AllVisible(more) = AllVisible(sections) \o VisibleChars(Between(a, b))
<1> DEFINE text == TrimSpace(content, Between(a, b))
           more == sections \o Section(content, Run(a, b))
<1>1. /\ Between(a, b) \in Texts /\ text \in Texts
      /\ VisibleChars(text) = VisibleChars(Between(a, b))
  BY BetweenFacts, TrimKeeps
<1>2. Section(content, Run(a, b)) = IF text = <<>> THEN <<>> ELSE <<text>>
  BY DEF Section, Between
<1>3. sections \in Seq(Texts) /\ AllVisible(sections) \in Texts
  BY AllVisibleFacts DEF GoodSections
<1>4. text # <<>> => Whole(text) /\ (IsHeading(content, a) => text[1] \in Starts)
  BY SectionWhole
<1> HIDE DEF text
<1>5. CASE text = <<>>
  <2>1. more = sections
    BY <1>2, <1>3, <1>5, ConcatEmptySeq
  <2>2. VisibleChars(Between(a, b)) = <<>>
    BY <1>1, <1>5, VisibleFacts
  <2>3. AllVisible(sections) \o <<>> = AllVisible(sections)
    BY <1>3, ConcatEmptySeq DEF Texts
  <2> HIDE DEF more
  <2> QED BY <2>1, <2>2, <2>3 DEF more
<1>6. CASE text # <<>>
  <2>1. more = Append(sections, text)
    <3>1. more = sections \o <<text>>
      BY <1>2, <1>6
    <3>2. sections \o <<text>> = Append(sections, text)
      <4>1. <<text>> = Append(<<>>, text) /\ <<>> \in Seq(Texts) /\ sections \o <<>> = sections
        BY <1>3, ConcatEmptySeq
      <4> QED BY <1>1, <1>3, <4>1, ConcatAppend
    <3> QED BY <3>1, <3>2
  <2> HIDE DEF more
  <2>2. AllVisible(more) = AllVisible(sections) \o VisibleChars(Between(a, b))
    BY <1>1, <1>3, <2>1, AllVisibleFacts
  <2> DEFINE n == Len(sections)
  <2>3. /\ n \in Nat /\ DOMAIN sections = 1..n
        /\ more \in Seq(Texts) /\ DOMAIN more = 1..(n + 1) /\ more[n + 1] = text
        /\ \A m \in 1..n : more[m] = sections[m]
    BY <1>1, <1>3, <2>1
  <2>4. n > 0 => IsHeading(content, a)
    BY <1>3
  <2> HIDE DEF n
  <2>5. ASSUME NEW m \in DOMAIN more
        PROVE  Whole(more[m]) /\ (m > 1 => more[m][1] \in Starts)
    <3>1. CASE m = n + 1
      <4>1. more[m] = text /\ (m > 1 => n > 0)
        BY <2>3, <3>1
      <4> QED BY <1>4, <1>6, <2>4, <4>1
    <3>2. CASE m # n + 1
      <4>1. m \in DOMAIN sections /\ more[m] = sections[m]
        BY <2>3, <3>2
      <4> QED BY <4>1 DEF GoodSections
    <3> QED BY <3>1, <3>2
  <2> QED BY <2>2, <2>3, <2>5 DEF GoodSections, more
<1> QED BY <1>5, <1>6

\* The states of the loop over the lines.
States == [sections : Seq(Texts), current : Seq(Numbers)]

\* The states of the loop over the lines.
LEMMA ScanFacts ==
    ASSUME Document
    PROVE  \E h \in [0..Len(content.lines) -> States] :
              /\ h[0] = [sections |-> <<>>, current |-> <<>>]
              /\ \A k \in 1..Len(content.lines) : h[k] = Scan(content, h[k - 1], k)
              /\ Scanned(content) = h[Len(content.lines)]
<1> DEFINE n == Len(content.lines)
           empty == [sections |-> <<>>, current |-> <<>>]
           numbers == [i \in DOMAIN content.lines |-> i]
           op == [p \in States \X Numbers |-> Scan(content, p[1], p[2])]
           More(state, i) == Scan(content, state, i)
           Fixed(g) == g = [s \in SUBSET (DOMAIN numbers) |->
                               IF s = {} THEN empty
                               ELSE More(g[s \ {Max(s)}], numbers[Max(s)])]
           chosen == CHOOSE g : Fixed(g)
<1>1. n \in Nat /\ Numbers = 1..n /\ DOMAIN content.lines = 1..n
  BY LineFacts DEF Numbers
<1>2. /\ numbers \in Seq(Numbers) /\ Len(numbers) = n /\ DOMAIN numbers = 1..n
      /\ \A k \in 1..n : numbers[k] = k
  <2>1. numbers = [i \in 1..n |-> i] /\ \A i \in 1..n : i \in Numbers
    BY <1>1
  <2> HIDE DEF n
  <2>2. [i \in 1..n |-> i] \in Seq(Numbers) /\ Len([i \in 1..n |-> i]) = n
    BY <1>1, <2>1
  <2> QED BY <2>1, <2>2
<1>3. empty \in States
  BY DEF States
<1>4. ASSUME NEW state \in States, NEW i \in Numbers PROVE Scan(content, state, i) \in States
  <2>1. state.sections \in Seq(Texts) /\ state.current \in Seq(Numbers)
    BY DEF States
  <2>2. Section(content, state.current) \in Seq(Texts)
    <3>1. TrimSpace(content, Join(content, state.current)) \in Texts
      BY <2>1, JoinFacts, TrimKeeps
    <3> DEFINE text == TrimSpace(content, Join(content, state.current))
    <3>2. Section(content, state.current) = IF text = <<>> THEN <<>> ELSE <<text>>
      BY DEF Section
    <3> HIDE DEF text
    <3>3. <<text>> \in Seq(Texts) /\ <<>> \in Seq(Texts)
      BY <3>1 DEF text
    <3> QED BY <3>2, <3>3
  <2>3. /\ state.sections \o Section(content, state.current) \in Seq(Texts)
        /\ <<i>> \in Seq(Numbers) /\ Append(state.current, i) \in Seq(Numbers)
    BY <2>1, <2>2
  <2>4. CASE IsHeading(content, i) /\ state.current # <<>>
    <3>1. Scan(content, state, i) = [sections |-> state.sections \o Section(content, state.current),
                                     current |-> <<i>>]
      BY <2>4 DEF Scan
    <3> QED BY <2>3, <3>1 DEF States
  <2>5. CASE ~(IsHeading(content, i) /\ state.current # <<>>)
    <3>1. Scan(content, state, i) = [state EXCEPT !.current = Append(state.current, i)]
      BY <2>5 DEF Scan
    <3> QED BY <2>3, <3>1 DEF States
  <2> QED BY <2>4, <2>5
<1>5. Combines(States, Numbers, op)
  BY <1>4 DEF Combines
<1>6. \A state \in States, i \in Numbers : op[<<state, i>>] = More(state, i)
  OBVIOUS
<1>7. Scanned(content) = chosen[DOMAIN numbers]
  BY DEF Scanned, FoldLeft, MapThenFoldSet
<1> HIDE DEF n, empty, numbers, op, More
<1>8. PICK g : Unfolding(States, op, empty, numbers, g)
  BY <1>2, <1>3, <1>5, UnfoldsExists
<1>17. \A k \in DOMAIN numbers : numbers[k] \in Numbers
  BY <1>1, <1>2
<1>18. \A s \in SUBSET (DOMAIN numbers) : s # {} => Max(s) \in DOMAIN numbers
  BY <1>8 DEF Unfolding
<1>9. Fixed(g)
  <2>1. g \in [SUBSET (DOMAIN numbers) -> States] /\ g[{}] = empty
    BY <1>8 DEF Unfolding
  <2>2. ASSUME NEW s \in SUBSET (DOMAIN numbers), s # {}
        PROVE  g[s] = More(g[s \ {Max(s)}], numbers[Max(s)])
    <3>1. s \ {Max(s)} \in SUBSET (DOMAIN numbers) /\ Max(s) \in DOMAIN numbers
      BY <2>2, <1>18
    <3>2. g[s \ {Max(s)}] \in States /\ numbers[Max(s)] \in Numbers
      BY <1>17, <2>1, <3>1
    <3>3. g[s] = op[<<g[s \ {Max(s)}], numbers[Max(s)]>>]
      BY <1>8, <2>2 DEF Unfolding
    <3> QED BY <1>6, <3>2, <3>3
  <2> QED BY <2>1, <2>2
<1>10. Fixed(chosen)
  BY <1>9
<1> HIDE DEF chosen
<1>11. Unfolds(States, op, empty, numbers, chosen)
  <2>1. chosen[{}] = empty
    BY <1>10
  <2>2. ASSUME NEW s \in SUBSET (DOMAIN numbers), s # {}, chosen[s \ {Max(s)}] \in States
        PROVE  chosen[s] = op[<<chosen[s \ {Max(s)}], numbers[Max(s)]>>]
    <3>1. numbers[Max(s)] \in Numbers
      BY <1>17, <1>18, <2>2
    <3>2. chosen[s] = More(chosen[s \ {Max(s)}], numbers[Max(s)])
      BY <1>10, <2>2
    <3> QED BY <1>6, <2>2, <3>1, <3>2
  <2> QED BY <2>1, <2>2 DEF Unfolds
<1>12. PICK h : Walk(States, op, empty, numbers, h)
  BY <1>2, <1>3, <1>5, WalkExists
<1>13. chosen[DOMAIN numbers] = h[Len(numbers)]
  BY <1>2, <1>3, <1>5, <1>11, <1>12, UnfoldsWalk
<1>14. /\ h \in [0..n -> States] /\ h[0] = empty
       /\ \A k \in 1..n : h[k] = op[<<h[k - 1], numbers[k]>>]
  BY <1>2, <1>12 DEF Walk
<1>15. ASSUME NEW k \in 1..n PROVE h[k] = More(h[k - 1], k)
  <2>1. k - 1 \in 0..n
    BY <1>1
  <2>2. h[k - 1] \in States /\ numbers[k] = k /\ k \in Numbers
    BY <1>1, <1>2, <1>14, <2>1
  <2> QED BY <1>6, <1>14, <2>2
<1>16. Scanned(content) = h[n]
  BY <1>2, <1>7, <1>13
<1> QED BY <1>14, <1>15, <1>16 DEF n, empty, More

\* After k lines: the sections hold what precedes the current lines, which start at a.
Scanning(state, k, a) ==
    /\ state.current = Run(a, k)
    /\ \A i \in (a + 1)..k : ~IsHeading(content, i)
    /\ GoodSections(state.sections)
    /\ state.sections # <<>> => IsHeading(content, a)
    /\ AllVisible(state.sections) \o VisibleChars(Between(a, k)) = VisibleChars(Between(1, k))

\* One pass of the loop.
LEMMA ScanStep ==
    ASSUME Document, NEW k \in Numbers, k + 1 \in Numbers, NEW a \in Numbers, a <= k,
           NEW state \in States, Scanning(state, k, a)
    PROVE  \E b \in Numbers : b <= k + 1 /\ Scanning(Scan(content, state, k + 1), k + 1, b)
<1> DEFINE chars == VisibleChars(Chars(content, k + 1))
           old == AllVisible(state.sections)
           text == VisibleChars(Between(a, k))
           new == Scan(content, state, k + 1)
<1>1. k \in Nat \ {0} /\ a \in Nat \ {0} /\ 1 \in Numbers
  BY LineFacts
<1>2. /\ VisibleChars(Between(1, k + 1)) = VisibleChars(Between(1, k)) \o chars
      /\ VisibleChars(Between(a, k + 1)) = text \o chars
      /\ Between(k + 1, k + 1) = Chars(content, k + 1)
      /\ Between(a, k) \in Texts /\ Chars(content, k + 1) \in Texts
  <2>1. 1 <= k /\ k + 1 <= k + 1
    BY <1>1
  <2> QED BY <1>1, <2>1, BetweenFacts, LineFacts
<1>3. /\ state.current = Run(a, k) /\ Run(a, k) # <<>> /\ Run(a, k + 1) = Append(Run(a, k), k + 1)
      /\ Run(k + 1, k + 1) = <<k + 1>>
  <2>1. k + 1 <= k + 1
    BY <1>1
  <2> QED BY <2>1, RunFacts DEF Scanning
<1>4. /\ old \in Texts /\ text \in Texts /\ chars \in Texts
      /\ old \o text = VisibleChars(Between(1, k))
  BY <1>2, AllVisibleFacts, VisibleFacts DEF Scanning, GoodSections
<1> HIDE DEF chars, old, text
<1>5. CASE IsHeading(content, k + 1)
  <2> DEFINE more == state.sections \o Section(content, Run(a, k))
  <2>1. new = [sections |-> more, current |-> <<k + 1>>]
    BY <1>3, <1>5 DEF Scan
  <2>2. GoodSections(more) /\ AllVisible(more) = old \o text
    BY AddSection DEF Scanning, old, text
  <2> HIDE DEF more, new
  <2>3. \A i \in ((k + 1) + 1)..(k + 1) : ~IsHeading(content, i)
    BY <1>1
  <2>4. AllVisible(more) \o VisibleChars(Between(k + 1, k + 1)) = VisibleChars(Between(1, k + 1))
    BY <1>2, <1>4, <2>2 DEF chars
  <2>5. Scanning(new, k + 1, k + 1)
    BY <1>3, <1>5, <2>1, <2>2, <2>3, <2>4 DEF Scanning
  <2> QED BY <1>1, <2>5 DEF new
<1>6. CASE ~IsHeading(content, k + 1)
  <2>1. new = [state EXCEPT !.current = Append(state.current, k + 1)]
    BY <1>6 DEF Scan
  <2>2. new.current = Run(a, k + 1) /\ new.sections = state.sections
    BY <1>3, <2>1 DEF States
  <2> HIDE DEF new
  <2>3. \A i \in (a + 1)..(k + 1) : ~IsHeading(content, i)
    <3> TAKE i \in (a + 1)..(k + 1)
    <3>1. i \in (a + 1)..k \/ i = k + 1
      BY <1>1
    <3> QED BY <1>6, <3>1 DEF Scanning
  <2>4. old \o (text \o chars) = (old \o text) \o chars
    <3>1. old \in Seq(Place) /\ text \in Seq(Place) /\ chars \in Seq(Place)
      BY <1>4 DEF Texts
    <3> QED BY <3>1, ConcatAssociative
  <2>5. AllVisible(new.sections) \o VisibleChars(Between(a, k + 1))
            = VisibleChars(Between(1, k + 1))
    BY <1>2, <1>4, <2>2, <2>4 DEF old
  <2>6. Scanning(new, k + 1, a)
    BY <2>2, <2>3, <2>5 DEF Scanning
  <2> QED BY <1>1, <2>6 DEF new
<1> QED BY <1>5, <1>6

\* The sections of a document hold its text, and each but the first starts with a heading.
LEMMA SectionsGood ==
    ASSUME Document
    PROVE  /\ GoodSections(SplitSections(content))
           /\ AllVisible(SplitSections(content))
                 = VisibleChars(Between(1, Len(content.lines)))
<1> DEFINE n == Len(content.lines)
<1>1. n \in Nat \ {0} /\ Numbers = 1..n
  BY LineFacts
<1>2. PICK h \in [0..n -> States] :
         /\ h[0] = [sections |-> <<>>, current |-> <<>>]
         /\ \A k \in 1..n : h[k] = Scan(content, h[k - 1], k)
         /\ Scanned(content) = h[n]
  BY ScanFacts
<1> HIDE DEF n
<1> DEFINE Good(k) == \E a \in Numbers : a <= k /\ Scanning(h[k], k, a)
           T == {d \in Nat : d + 1 \in Numbers => Good(d + 1)}
<1>3. 0 \in T
  <2> SUFFICES Good(1)
    OBVIOUS
  <2>1. 1 \in Numbers /\ 1 \in 1..n /\ 1 - 1 = 0
    BY <1>1
  <2> DEFINE empty == [sections |-> <<>>, current |-> <<>>]
  <2>2. h[1] = Scan(content, empty, 1)
    BY <1>2, <2>1
  <2>3. Scan(content, empty, 1) = [sections |-> <<>>, current |-> <<1>>]
    BY DEF Scan
  <2>4. Run(1, 1) = <<1>> /\ Between(1, 1) \in Texts
    <3>1. 1 <= 1
      OBVIOUS
    <3> QED BY <2>1, <3>1, RunFacts, BetweenFacts
  <2>5. VisibleChars(Between(1, 1)) \in Seq(Place)
    BY <2>4, VisibleFacts DEF Texts
  <2>6. AllVisible(<<>>) \o VisibleChars(Between(1, 1)) = VisibleChars(Between(1, 1))
    BY <2>5, AllVisibleFacts, ConcatEmptySeq
  <2>7. GoodSections(<<>>)
    BY DEF GoodSections
  <2>8. \A i \in (1 + 1)..1 : ~IsHeading(content, i)
    OBVIOUS
  <2>9. Scanning(h[1], 1, 1)
    BY <2>2, <2>3, <2>4, <2>6, <2>7, <2>8 DEF Scanning
  <2> QED BY <2>1, <2>9
<1>4. ASSUME NEW d \in Nat, d \in T PROVE d + 1 \in T
  <2> SUFFICES ASSUME (d + 1) + 1 \in Numbers PROVE Good((d + 1) + 1)
    OBVIOUS
  <2> DEFINE k == d + 1
  <2>1. k \in Numbers /\ k + 1 \in Numbers /\ k + 1 \in 1..n /\ (k + 1) - 1 = k /\ k \in 0..n
    BY <1>1
  <2>2. PICK a \in Numbers : a <= k /\ Scanning(h[k], k, a)
    BY <1>4, <2>1
  <2> HIDE DEF k
  <2>3. h[k + 1] = Scan(content, h[k], k + 1) /\ h[k] \in States
    BY <1>2, <2>1
  <2>4. \E b \in Numbers : b <= k + 1 /\ Scanning(h[k + 1], k + 1, b)
    BY <2>1, <2>2, <2>3, ScanStep
  <2> QED BY <2>4 DEF k
<1>5. Good(n)
  <2> HIDE DEF Good
  <2>1. \A d \in Nat : d \in T
    <3> HIDE DEF T
    <3> QED BY <1>3, <1>4, NumberInduction
  <2>2. n - 1 \in Nat /\ (n - 1) + 1 = n /\ n \in Numbers
    BY <1>1
  <2> QED BY <2>1, <2>2
<1>6. PICK a \in Numbers : a <= n /\ Scanning(h[n], n, a)
  BY <1>5
<1>7. n \in Numbers
  BY <1>1
<1>8. SplitSections(content) = h[n].sections \o Section(content, Run(a, n))
  BY <1>2, <1>6 DEF SplitSections, Scanning
<1>9. /\ GoodSections(SplitSections(content))
      /\ AllVisible(SplitSections(content))
            = AllVisible(h[n].sections) \o VisibleChars(Between(a, n))
  BY <1>6, <1>7, <1>8, AddSection DEF Scanning
<1> QED BY <1>6, <1>9 DEF Scanning, n

-----------------------------------------------------------------------------
(* Chunks *)

\* The pieces of a section.
LEMMA CutType ==
    ASSUME NEW text \in Texts
    PROVE  SplitLongChunk(text) \in Seq(Texts)
<1> DEFINE n == (Len(text) + MaxChars - 1) \div MaxChars
           Piece(j) == SubSeq(text, MaxChars * (j - 1) + 1, Min({MaxChars * j, Len(text)}))
<1>1. text \in Seq(Place) /\ Len(text) \in Nat
  BY DEF Texts
<1>2. n \in Nat
  BY <1>1, Pieces
<1>3. SplitLongChunk(text) = [j \in 1..n |-> Piece(j)]
  BY DEF SplitLongChunk
<1>4. DOMAIN SplitLongChunk(text) = 1..n
  BY <1>3
<1>5. ASSUME NEW j \in 1..n PROVE Piece(j) \in Texts
  <2>1. Piece(j) = SplitLongChunk(text)[j]
    BY <1>3
  <2> DEFINE from1 == MaxChars * (j - 1) + 1
             to == Min({MaxChars * j, Len(text)})
  <2>2. j \in Nat /\ MaxChars * j \in Nat /\ MaxChars * (j - 1) \in Nat
    <3>1. j \in Nat /\ j - 1 \in Nat /\ MaxChars \in Nat
      BY <1>2, ParserAssumption
    <3> QED BY <3>1
  <2>3. to = IF MaxChars * j <= Len(text) THEN MaxChars * j ELSE Len(text)
    BY <1>1, <2>2, PieceEnd
  <2>4. from1 \in Int /\ from1 >= 1 /\ to \in Int /\ to <= Len(text)
    BY <1>1, <2>2, <2>3
  <2> HIDE DEF from1, to
  <2>5. \A k \in from1..to : text[k] \in Place
    BY <1>1, <2>4
  <2>6. SubSeq(text, from1, to) \in Seq(Place)
    BY <2>4, <2>5, SubSeqProperties
  <2> QED BY <2>6 DEF from1, to, Texts
<1> HIDE DEF n, Piece
<1>6. [j \in 1..n |-> Piece(j)] \in Seq(Texts)
  BY <1>2, <1>5
<1> QED BY <1>3, <1>6

\* The chunks of sections.
CutAll(sections) ==
    Fold(Seq(Texts), [p \in Seq(Texts) \X Texts |-> p[1] \o SplitLongChunk(p[2])], <<>>, sections)

\* Sections are cut one by one.
LEMMA CutAllFacts ==
    /\ CutAll(<<>>) = <<>>
    /\ \A sections \in Seq(Texts) :
          /\ CutAll(sections) \in Seq(Texts)
          /\ \A text \in Texts :
                CutAll(Append(sections, text)) = CutAll(sections) \o SplitLongChunk(text)
<1> DEFINE op == [p \in Seq(Texts) \X Texts |-> p[1] \o SplitLongChunk(p[2])]
           S == Seq(Texts)
<1>1. \A t \in S, u \in Texts : t \o SplitLongChunk(u) \in S
  BY CutType
<1>2. <<>> \in S
  OBVIOUS
<1> HIDE DEF S
<1>3. Combines(S, Texts, op)
  BY <1>1 DEF Combines, S
<1>4. \A t \in S, u \in Texts : op[<<t, u>>] = t \o SplitLongChunk(u)
  BY DEF S
<1>5. \A sections : CutAll(sections) = Fold(S, op, <<>>, sections)
  BY DEF CutAll, S
<1> HIDE DEF op
<1>6. /\ Fold(S, op, <<>>, <<>>) = <<>>
      /\ \A sections \in Seq(Texts) :
            /\ Fold(S, op, <<>>, sections) \in S
            /\ \A text \in Texts : Fold(S, op, <<>>, Append(sections, text))
                                      = op[<<Fold(S, op, <<>>, sections), text>>]
  BY <1>2, <1>3, FoldFacts
<1>7. /\ CutAll(<<>>) = <<>>
      /\ \A sections \in Seq(Texts) :
            /\ CutAll(sections) \in S
            /\ \A text \in Texts :
                  CutAll(Append(sections, text)) = CutAll(sections) \o SplitLongChunk(text)
  BY <1>4, <1>5, <1>6
<1> QED BY <1>7 DEF S

\* Parse cuts the sections of the document.
LEMMA ParseCuts ==
    ASSUME Document
    PROVE  Parse(content) = CutAll(SplitSections(content))
<1> DEFINE S == Seq(Texts)
           op == [p \in S \X Texts |-> p[1] \o SplitLongChunk(p[2])]
           sections == SplitSections(content)
           More(t, u) == t \o SplitLongChunk(u)
           Fixed(g) == g = [s \in SUBSET (DOMAIN sections) |->
                               IF s = {} THEN <<>>
                               ELSE More(g[s \ {Max(s)}], sections[Max(s)])]
           chosen == CHOOSE g : Fixed(g)
<1>1. sections \in Seq(Texts) /\ \A k \in DOMAIN sections : sections[k] \in Texts
  BY SectionsGood DEF GoodSections
<1>2. <<>> \in S /\ \A t \in S, u \in Texts : More(t, u) \in S
  BY CutType
<1>3. Combines(S, Texts, op)
  BY <1>2 DEF Combines
<1>4. \A t \in S, u \in Texts : op[<<t, u>>] = More(t, u)
  OBVIOUS
<1>5. Parse(content) = chosen[DOMAIN sections]
  BY DEF Parse, FoldLeft, MapThenFoldSet
<1>6. CutAll(sections) = Fold(S, op, <<>>, sections)
  BY DEF CutAll
<1> HIDE DEF S, op, sections, More
<1>7. PICK g : Unfolding(S, op, <<>>, sections, g)
  BY <1>1, <1>2, <1>3, UnfoldsExists
<1>8. \A s \in SUBSET (DOMAIN sections) : s # {} => Max(s) \in DOMAIN sections
  BY <1>7 DEF Unfolding
<1>9. Fixed(g)
  <2>1. g \in [SUBSET (DOMAIN sections) -> S] /\ g[{}] = <<>>
    BY <1>7 DEF Unfolding
  <2>2. ASSUME NEW s \in SUBSET (DOMAIN sections), s # {}
        PROVE  g[s] = More(g[s \ {Max(s)}], sections[Max(s)])
    <3>1. s \ {Max(s)} \in SUBSET (DOMAIN sections) /\ Max(s) \in DOMAIN sections
      BY <1>8, <2>2
    <3>2. g[s \ {Max(s)}] \in S /\ sections[Max(s)] \in Texts
      BY <1>1, <2>1, <3>1
    <3>3. g[s] = op[<<g[s \ {Max(s)}], sections[Max(s)]>>]
      BY <1>7, <2>2 DEF Unfolding
    <3> QED BY <1>4, <3>2, <3>3
  <2> QED BY <2>1, <2>2
<1>10. Fixed(chosen)
  BY <1>9
<1> HIDE DEF chosen
<1>11. Unfolds(S, op, <<>>, sections, chosen)
  <2>1. chosen[{}] = <<>>
    BY <1>10
  <2>2. ASSUME NEW s \in SUBSET (DOMAIN sections), s # {}, chosen[s \ {Max(s)}] \in S
        PROVE  chosen[s] = op[<<chosen[s \ {Max(s)}], sections[Max(s)]>>]
    <3>1. sections[Max(s)] \in Texts
      BY <1>1, <1>8, <2>2
    <3>2. chosen[s] = More(chosen[s \ {Max(s)}], sections[Max(s)])
      BY <1>10, <2>2
    <3> QED BY <1>4, <2>2, <3>1, <3>2
  <2> QED BY <2>1, <2>2 DEF Unfolds
<1>12. chosen[DOMAIN sections] = Fold(S, op, <<>>, sections)
  BY <1>1, <1>2, <1>3, <1>11, FoldFacts
<1> QED BY <1>5, <1>6, <1>12 DEF sections

\* The visible characters of some texts come before those of the texts behind them.
LEMMA AllVisibleConcat ==
    ASSUME NEW c \in Seq(Texts), NEW d \in Seq(Texts)
    PROVE  AllVisible(c \o d) = AllVisible(c) \o AllVisible(d)
<1> DEFINE T == {e \in Seq(Texts) : AllVisible(c \o e) = AllVisible(c) \o AllVisible(e)}
<1>1. <<>> \in T
  <2>1. c \o <<>> = c /\ <<>> \in Seq(Texts)
    BY ConcatEmptySeq
  <2>2. AllVisible(c) \o <<>> = AllVisible(c)
    BY AllVisibleFacts, ConcatEmptySeq DEF Texts
  <2> QED BY <2>1, <2>2, AllVisibleFacts
<1>2. ASSUME NEW e \in Seq(Texts), NEW text \in Texts, e \in T PROVE Append(e, text) \in T
  <2> DEFINE x == AllVisible(c)
             y == AllVisible(e)
             z == VisibleChars(text)
  <2>1. x \in Seq(Place) /\ y \in Seq(Place) /\ z \in Seq(Place)
    BY AllVisibleFacts, VisibleFacts DEF Texts
  <2>2. AllVisible(c \o e) = x \o y
    BY <1>2
  <2>3. /\ c \o e \in Seq(Texts) /\ Append(e, text) \in Seq(Texts)
        /\ c \o Append(e, text) = Append(c \o e, text)
    BY ConcatAppend
  <2>4. /\ AllVisible(Append(c \o e, text)) = AllVisible(c \o e) \o z
        /\ AllVisible(Append(e, text)) = y \o z
    BY <2>3, AllVisibleFacts
  <2> HIDE DEF x, y, z
  <2>5. (x \o y) \o z = x \o (y \o z)
    BY <2>1, ConcatAssociative
  <2> QED BY <2>2, <2>3, <2>4, <2>5 DEF x
<1> HIDE DEF T
<1>3. \A e \in Seq(Texts) : e \in T
  BY <1>1, <1>2, SequenceInduction
<1> QED BY <1>3 DEF T

\* The first of several texts comes first, then the second.
LEMMA FirstTexts ==
    ASSUME NEW texts \in Seq(Texts)
    PROVE  /\ Len(texts) = 1 => AllVisible(texts) = VisibleChars(texts[1])
           /\ Len(texts) >= 1 =>
                 \E u \in Texts : AllVisible(texts) = VisibleChars(texts[1]) \o u
           /\ Len(texts) >= 2 =>
                 \E u \in Texts : AllVisible(texts)
                                     = (VisibleChars(texts[1]) \o VisibleChars(texts[2])) \o u
<1> DEFINE One(s) == Len(s) = 1 => AllVisible(s) = VisibleChars(s[1])
           First(s) == Len(s) >= 1 => \E u \in Texts : AllVisible(s) = VisibleChars(s[1]) \o u
           Second(s) == Len(s) >= 2 =>
                           \E u \in Texts : AllVisible(s)
                                               = (VisibleChars(s[1]) \o VisibleChars(s[2])) \o u
           T == {s \in Seq(Texts) : One(s) /\ First(s) /\ Second(s)}
<1>1. <<>> \in T
  OBVIOUS
<1>2. ASSUME NEW s \in Seq(Texts), NEW text \in Texts, s \in T PROVE Append(s, text) \in T
  <2> DEFINE more == Append(s, text)
             n == Len(s)
             z == VisibleChars(text)
             all == AllVisible(s)
  <2>1. /\ more \in Seq(Texts) /\ n \in Nat /\ Len(more) = n + 1 /\ more[n + 1] = text
        /\ \A m \in 1..n : more[m] = s[m] /\ s[m] \in Texts
    OBVIOUS
  <2>2. AllVisible(more) = all \o z
    BY AllVisibleFacts
  <2>3. z \in Seq(Place) /\ z \in Texts /\ all \in Seq(Place) /\ <<>> \in Texts
        /\ (n = 0 => all = <<>>)
    BY AllVisibleFacts, VisibleFacts DEF Texts
  <2>4. \A t \in Texts : VisibleChars(t) \in Seq(Place)
    BY VisibleFacts DEF Texts
  <2>5. One(s) /\ First(s) /\ Second(s)
    BY <1>2
  <2>9. n \in Nat /\ Len(more) = n + 1
    OBVIOUS
  <2> HIDE DEF more, n
  <2>6. One(more)
    <3> SUFFICES ASSUME Len(more) = 1 PROVE AllVisible(more) = VisibleChars(more[1])
      OBVIOUS
    <3>3. n = 0
      BY <2>9
    <3>1. more[1] = text
      BY <2>1, <3>3
    <3> HIDE DEF z, all
    <3>2. all \o z = z
      BY <2>3, <3>3, ConcatEmptySeq
    <3> QED BY <2>2, <3>1, <3>2 DEF z
  <2>7. First(more)
    <3>1. CASE n = 0
      <4>1. AllVisible(more) = VisibleChars(more[1]) /\ more[1] = text
        BY <2>1, <2>6, <3>1
      <4>2. z \o <<>> = z
        BY <2>3, ConcatEmptySeq
      <4> QED BY <2>3, <4>1, <4>2
    <3>2. CASE n # 0
      <4>1. 1 \in 1..n /\ n >= 1
        BY <2>1, <3>2
      <4>2. PICK u \in Texts : all = VisibleChars(s[1]) \o u
        BY <2>5, <4>1 DEF n
      <4> DEFINE x == VisibleChars(s[1])
      <4>3. x \in Seq(Place) /\ u \in Seq(Place) /\ more[1] = s[1]
        BY <2>1, <2>4, <4>1 DEF Texts
      <4> HIDE DEF x, z
      <4>4. (x \o u) \o z = x \o (u \o z)
        <5>1. x \in Seq(Place) /\ u \in Seq(Place) /\ z \in Seq(Place)
          BY <2>3, <4>3
        <5> QED BY <5>1, ConcatAssociative
      <4>5. u \o z \in Texts
        BY <2>3, <4>3 DEF Texts
      <4>6. AllVisible(more) = x \o (u \o z)
        BY <2>2, <4>2, <4>4 DEF x
      <4> QED BY <4>3, <4>5, <4>6 DEF x
    <3> QED BY <3>1, <3>2
  <2>8. Second(more)
    <3> SUFFICES ASSUME Len(more) >= 2
        PROVE  \E u \in Texts : AllVisible(more)
                                   = (VisibleChars(more[1]) \o VisibleChars(more[2])) \o u
      OBVIOUS
    <3>3. n >= 1
      BY <2>9
    <3>1. CASE n = 1
      <4>1. more[1] = s[1] /\ more[2] = text /\ s[1] \in Texts
        BY <2>1, <3>1
      <4>2. all = VisibleChars(s[1])
        BY <2>5, <3>1 DEF n
      <4> DEFINE x == VisibleChars(s[1])
      <4>3. x \in Seq(Place)
        BY <2>4, <4>1
      <4> HIDE DEF x, z
      <4>4. x \o z \in Seq(Place)
        BY <2>3, <4>3
      <4>5. (x \o z) \o <<>> = x \o z
        BY <4>4, ConcatEmptySeq
      <4>6. AllVisible(more) = (x \o z) \o <<>>
        BY <2>2, <4>2, <4>5 DEF x
      <4> QED BY <2>3, <4>1, <4>6 DEF x, z
    <3>2. CASE n # 1
      <4>1. 1 \in 1..n /\ 2 \in 1..n /\ n >= 2
        BY <2>1, <3>2, <3>3
      <4>2. PICK u \in Texts : all = (VisibleChars(s[1]) \o VisibleChars(s[2])) \o u
        BY <2>5, <4>1 DEF n
      <4> DEFINE x == VisibleChars(s[1])
                 y == VisibleChars(s[2])
      <4>3. x \in Seq(Place) /\ y \in Seq(Place) /\ u \in Seq(Place)
            /\ more[1] = s[1] /\ more[2] = s[2]
        BY <2>1, <2>4, <4>1 DEF Texts
      <4> HIDE DEF x, y, z
      <4>4. x \o y \in Seq(Place)
        BY <4>3
      <4>5. ((x \o y) \o u) \o z = (x \o y) \o (u \o z)
        <5>1. x \o y \in Seq(Place) /\ u \in Seq(Place) /\ z \in Seq(Place)
          BY <2>3, <4>3, <4>4
        <5> DEFINE lead == x \o y
        <5>2. lead \in Seq(Place) /\ u \in Seq(Place) /\ z \in Seq(Place)
          BY <5>1
        <5> HIDE DEF lead
        <5>3. (lead \o u) \o z = lead \o (u \o z)
          BY <5>2, ConcatAssociative
        <5> QED BY <5>3 DEF lead
      <4>6. u \o z \in Texts
        BY <2>3, <4>3 DEF Texts
      <4>7. AllVisible(more) = (x \o y) \o (u \o z)
        BY <2>2, <4>2, <4>5 DEF x, y
      <4> QED BY <4>3, <4>6, <4>7 DEF x, y
    <3> QED BY <3>1, <3>2
  <2> HIDE DEF One, First, Second
  <2> QED BY <2>1, <2>6, <2>7, <2>8 DEF more
<1> HIDE DEF T
<1>3. \A s \in Seq(Texts) : s \in T
  BY <1>1, <1>2, SequenceInduction
<1> QED BY <1>3 DEF T

\* Cutting a section keeps its characters in order.
LEMMA AllVisibleCut ==
    ASSUME NEW text \in Texts
    PROVE  AllVisible(SplitLongChunk(text)) = VisibleChars(text)
<1> DEFINE pieces == SplitLongChunk(text)
           n == Len(pieces)
           len == Len(text)
           Stop(m) == IF MaxChars * m <= len THEN MaxChars * m ELSE len
           T == {m \in Nat : m <= n =>
                    AllVisible(SubSeq(pieces, 1, m)) = VisibleChars(SubSeq(text, 1, Stop(m)))}
<1>1. /\ pieces \in Seq(Texts) /\ text \in Seq(Place) /\ len \in Nat
      /\ n \in Nat /\ DOMAIN pieces = 1..n /\ MaxChars \in Nat \ {0}
  BY CutType, ParserAssumption DEF Texts
<1>2. /\ n = (len + MaxChars - 1) \div MaxChars
      /\ len <= MaxChars * n /\ \A j \in 1..n : MaxChars * (j - 1) < len
      /\ \A j \in 1..n :
            pieces[j] = SubSeq(text, MaxChars * (j - 1) + 1, Min({MaxChars * j, len}))
  <2> DEFINE p == (len + MaxChars - 1) \div MaxChars
  <2>1. p \in Nat /\ len <= MaxChars * p /\ \A j \in 1..p : MaxChars * (j - 1) < len
    BY <1>1, Pieces
  <2>2. /\ DOMAIN pieces = 1..p
        /\ \A j \in 1..p :
              pieces[j] = SubSeq(text, MaxChars * (j - 1) + 1, Min({MaxChars * j, len}))
    BY DEF SplitLongChunk
  <2> HIDE DEF p, pieces, n, len
  <2>3. n = p
    BY <1>1, <2>1, <2>2
  <2> QED BY <2>1, <2>2, <2>3 DEF p
<1> HIDE DEF pieces, n, len
<1>3. 0 \in T
  <2>1. Stop(0) = 0
    BY <1>1
  <2>2. SubSeq(pieces, 1, 0) = <<>> /\ SubSeq(text, 1, 0) = <<>>
    BY SubSeqEmpty
  <2> HIDE DEF Stop
  <2>3. AllVisible(SubSeq(pieces, 1, 0)) = VisibleChars(SubSeq(text, 1, Stop(0)))
    BY <2>1, <2>2, AllVisibleFacts, VisibleFacts
  <2> QED BY <2>3
<1>4. ASSUME NEW m \in Nat, m \in T PROVE m + 1 \in T
  <2> HIDE DEF Stop
  <2> SUFFICES ASSUME m + 1 <= n
               PROVE  AllVisible(SubSeq(pieces, 1, m + 1))
                          = VisibleChars(SubSeq(text, 1, Stop(m + 1)))
    OBVIOUS
  <2>1. AllVisible(SubSeq(pieces, 1, m)) = VisibleChars(SubSeq(text, 1, Stop(m)))
    BY <1>1, <1>4
  <2>2. m + 1 \in 1..n /\ (m + 1) - 1 = m /\ m \in 0..n
    BY <1>1
  <2>3. /\ MaxChars * m \in Nat /\ MaxChars * m < len
        /\ MaxChars * (m + 1) = MaxChars * m + MaxChars
    BY <1>1, <1>2, <2>2
  <2>4. Stop(m) = MaxChars * m
    BY <1>1, <2>3 DEF Stop
  <2>5. pieces[m + 1] = SubSeq(text, Stop(m) + 1, Stop(m + 1))
    <3>1. Min({MaxChars * (m + 1), len}) = Stop(m + 1)
      <4>1. m + 1 \in Nat
        OBVIOUS
      <4> QED BY <1>1, <4>1, PieceEnd DEF Stop
    <3> QED BY <1>2, <2>2, <2>4, <3>1
  <2>6. Stop(m + 1) \in Stop(m)..len /\ Stop(m) \in 0..len
    BY <1>1, <2>3, <2>4 DEF Stop
  <2> DEFINE e == Stop(m)
             f == Stop(m + 1)
  <2> HIDE DEF e, f
  <2>7. SubSeq(text, 1, e) \o SubSeq(text, e + 1, f) = SubSeq(text, 1, f)
    <3>1. 1 \in 1..(Len(text) + 1) /\ e \in (1 - 1)..Len(text) /\ f \in e..Len(text)
      BY <1>1, <2>6 DEF e, f, len
    <3> QED BY <1>1, <3>1, ConcatAdjacentSubSeq
  <2>8. SubSeq(text, 1, e) \in Texts /\ pieces[m + 1] \in Texts
    <3>1. 1 \in Int /\ e \in Int /\ \A i \in 1..e : text[i] \in Place
      BY <1>1, <2>6 DEF e, len
    <3>2. SubSeq(text, 1, e) \in Seq(Place)
      BY <3>1, SubSeqProperties
    <3> QED BY <1>1, <2>2, <3>2 DEF Texts
  <2>9. SubSeq(pieces, 1, m + 1) = Append(SubSeq(pieces, 1, m), pieces[m + 1])
        /\ SubSeq(pieces, 1, m) \in Seq(Texts)
    <3>1. 1 \in Int /\ m \in Int /\ m + 1 \in Int
          /\ (\A i \in 1..m : pieces[i] \in Texts) /\ (\A i \in 1..(m + 1) : pieces[i] \in Texts)
      BY <1>1, <2>2
    <3>2. /\ SubSeq(pieces, 1, m) \in Seq(Texts) /\ Len(SubSeq(pieces, 1, m)) = m
          /\ \A i \in 1..m : SubSeq(pieces, 1, m)[i] = pieces[i]
      BY <3>1, SubSeqProperties
    <3>3. /\ SubSeq(pieces, 1, m + 1) \in Seq(Texts) /\ Len(SubSeq(pieces, 1, m + 1)) = m + 1
          /\ \A i \in 1..(m + 1) : SubSeq(pieces, 1, m + 1)[i] = pieces[i]
      BY <3>1, SubSeqProperties
    <3> DEFINE front == SubSeq(pieces, 1, m)
               all == SubSeq(pieces, 1, m + 1)
    <3> HIDE DEF front, all
    <3>4. front \in Seq(Texts) /\ Len(front) = m /\ \A i \in 1..m : front[i] = pieces[i]
      BY <3>2 DEF front
    <3>5. all \in Seq(Texts) /\ Len(all) = m + 1 /\ \A i \in 1..(m + 1) : all[i] = pieces[i]
      BY <3>3 DEF all
    <3>6. /\ Append(front, pieces[m + 1]) \in Seq(Texts)
          /\ Len(Append(front, pieces[m + 1])) = m + 1
          /\ \A i \in 1..(m + 1) : Append(front, pieces[m + 1])[i] = pieces[i]
      BY <2>8, <3>4
    <3>7. all = Append(front, pieces[m + 1])
      BY <3>5, <3>6, SeqEqual
    <3> QED BY <3>4, <3>7 DEF front, all
  <2>10. AllVisible(SubSeq(pieces, 1, m + 1))
            = AllVisible(SubSeq(pieces, 1, m)) \o VisibleChars(pieces[m + 1])
    BY <2>8, <2>9, AllVisibleFacts
  <2>11. VisibleChars(SubSeq(text, 1, f))
            = VisibleChars(SubSeq(text, 1, e)) \o VisibleChars(pieces[m + 1])
    <3>1. pieces[m + 1] = SubSeq(text, e + 1, f)
      BY <2>5 DEF e, f
    <3>2. VisibleChars(SubSeq(text, 1, e) \o pieces[m + 1])
              = VisibleChars(SubSeq(text, 1, e)) \o VisibleChars(pieces[m + 1])
      BY <2>8, VisibleConcat
    <3>3. SubSeq(text, 1, e) \o pieces[m + 1] = SubSeq(text, 1, f)
      BY <2>7, <3>1
    <3> QED BY <3>2, <3>3
  <2> QED BY <2>1, <2>10, <2>11 DEF e, f
<1>5. AllVisible(SubSeq(pieces, 1, n)) = VisibleChars(SubSeq(text, 1, Stop(n)))
  <2> HIDE DEF Stop
  <2>1. \A m \in Nat : m \in T
    <3> HIDE DEF T
    <3> QED BY <1>3, <1>4, NumberInduction
  <2>2. n <= n
    BY <1>1
  <2> QED BY <1>1, <2>1, <2>2
<1>6. Stop(n) = len
  <2>1. MaxChars * n \in Nat
    BY <1>1
  <2> QED BY <1>1, <1>2, <2>1
<1>7. SubSeq(pieces, 1, n) = pieces /\ SubSeq(text, 1, len) = text
  BY <1>1, SubSeqFull DEF n, len
<1> HIDE DEF Stop
<1> QED BY <1>5, <1>6, <1>7 DEF pieces

\* The chunks hold the text of the sections.
LEMMA AllVisibleChunks ==
    ASSUME NEW sections \in Seq(Texts)
    PROVE  AllVisible(CutAll(sections)) = AllVisible(sections)
<1> DEFINE T == {s \in Seq(Texts) : AllVisible(CutAll(s)) = AllVisible(s)}
<1>1. <<>> \in T
  BY CutAllFacts, AllVisibleFacts
<1>2. ASSUME NEW s \in Seq(Texts), NEW text \in Texts, s \in T PROVE Append(s, text) \in T
  <2>1. AllVisible(CutAll(s)) = AllVisible(s)
    BY <1>2
  <2>2. CutAll(s) \in Seq(Texts) /\ SplitLongChunk(text) \in Seq(Texts)
        /\ Append(s, text) \in Seq(Texts)
    BY CutAllFacts, CutType
  <2>3. CutAll(Append(s, text)) = CutAll(s) \o SplitLongChunk(text)
    BY CutAllFacts
  <2>4. AllVisible(CutAll(s) \o SplitLongChunk(text))
            = AllVisible(CutAll(s)) \o AllVisible(SplitLongChunk(text))
    BY <2>2, AllVisibleConcat
  <2>5. AllVisible(Append(s, text)) = AllVisible(s) \o VisibleChars(text)
    BY AllVisibleFacts
  <2> QED BY <2>1, <2>2, <2>3, <2>4, <2>5, AllVisibleCut
<1> HIDE DEF T
<1>3. \A s \in Seq(Texts) : s \in T
  BY <1>1, <1>2, SequenceInduction
<1> QED BY <1>3 DEF T

\* The pieces of one section.
LEMMA PiecesGood ==
    ASSUME NEW text, Whole(text)
    PROVE  LET pieces == SplitLongChunk(text) IN
           /\ pieces \in Seq(Texts) /\ Len(pieces) \in Nat \ {0}
           /\ pieces[1][1] = text[1]
           /\ \A j \in 1..Len(pieces) :
                 /\ Len(pieces[j]) \in 1..MaxChars
                 /\ \A k \in 2..Len(pieces[j]) : pieces[j][k] \notin Starts
                 /\ j + 1 \in 1..Len(pieces) => Len(pieces[j]) = MaxChars
                 /\ \A k \in 1..Len(pieces[j]) : /\ MaxChars * (j - 1) + k \in 1..Len(text)
                                                /\ pieces[j][k] = text[MaxChars * (j - 1) + k]
<1> DEFINE pieces == SplitLongChunk(text)
           n == Len(pieces)
<1>1. /\ text \in Texts /\ text \in Seq(Place) /\ text # <<>>
      /\ \A k \in 2..Len(text) : text[k] \notin Starts
  BY DEF Whole, Texts
<1>2. pieces \in Seq(Texts) /\ n \in Nat /\ DOMAIN pieces = 1..n
  BY <1>1, CutType
<1>3. /\ \A j \in DOMAIN pieces :
            /\ Len(pieces[j]) \in 1..MaxChars
            /\ j + 1 \in DOMAIN pieces => Len(pieces[j]) = MaxChars
            /\ \A k \in 1..Len(pieces[j]) :
                  /\ MaxChars * (j - 1) + k \in 1..Len(text)
                  /\ pieces[j][k] = text[MaxChars * (j - 1) + k]
      /\ \A i \in 1..Len(text) : \E j \in DOMAIN pieces : \E k \in 1..Len(pieces[j]) :
            i = MaxChars * (j - 1) + k
  BY <1>1, CutExactly
<1> HIDE DEF pieces, n
<1>4. MaxChars \in Nat \ {0}
  BY ParserAssumption
<1>5. 1 \in 1..Len(text)
  BY <1>1
<1>6. 1 \in 1..n
  <2>1. PICK j \in DOMAIN pieces : TRUE
    BY <1>3, <1>5
  <2> QED BY <1>2, <2>1
<1>7. pieces[1][1] = text[1]
  <2>1. MaxChars * (1 - 1) + 1 = 1
    BY <1>4
  <2>2. 1 \in 1..Len(pieces[1])
    BY <1>2, <1>3, <1>4, <1>6
  <2> QED BY <1>2, <1>3, <1>6, <2>1, <2>2
<1>8. ASSUME NEW j \in 1..n, NEW k \in 2..Len(pieces[j]) PROVE pieces[j][k] \notin Starts
  <2>1. Len(pieces[j]) \in 1..MaxChars
    BY <1>2, <1>3
  <2>2. k \in 1..Len(pieces[j]) /\ k >= 2
    BY <1>4, <2>1
  <2>3. MaxChars * (j - 1) \in Nat
    <3>1. j - 1 \in Nat
      BY <1>2
    <3> QED BY <1>4, <3>1
  <2>4. MaxChars * (j - 1) + k \in 1..Len(text) /\ pieces[j][k] = text[MaxChars * (j - 1) + k]
    BY <1>2, <1>3, <2>2
  <2>5. MaxChars * (j - 1) + k \in 2..Len(text)
    BY <1>1, <2>2, <2>3, <2>4
  <2> QED BY <1>1, <2>4, <2>5
<1>9. pieces \in Seq(Texts) /\ n \in Nat \ {0} /\ pieces[1][1] = text[1]
  BY <1>2, <1>6, <1>7
<1>10. \A j \in 1..n :
          /\ Len(pieces[j]) \in 1..MaxChars
          /\ \A k \in 2..Len(pieces[j]) : pieces[j][k] \notin Starts
          /\ j + 1 \in 1..n => Len(pieces[j]) = MaxChars
          /\ \A k \in 1..Len(pieces[j]) : /\ MaxChars * (j - 1) + k \in 1..Len(text)
                                         /\ pieces[j][k] = text[MaxChars * (j - 1) + k]
  BY <1>2, <1>3, <1>8
<1> QED BY <1>9, <1>10 DEF pieces, n

\* The chunks of good sections are of bounded length, start sections or follow full chunks,
\* and begin with the pieces of the first section.
GoodChunks(chunks, sections) ==
    /\ chunks \in Seq(Texts)
    /\ sections = <<>> => chunks = <<>>
    /\ \A j \in 1..Len(chunks) :
          /\ Len(chunks[j]) \in 1..MaxChars
          /\ \A k \in 2..Len(chunks[j]) : chunks[j][k] \notin Starts
          /\ j > 1 => Len(chunks[j - 1]) = MaxChars \/ chunks[j][1] \in Starts
    /\ sections # <<>> =>
          LET pieces == SplitLongChunk(sections[1]) IN
          /\ Len(pieces) <= Len(chunks)
          /\ \A j \in 1..Len(pieces) : chunks[j] = pieces[j]
          /\ Len(pieces) < Len(chunks) => chunks[Len(pieces) + 1][1] \in Starts

\* Cutting good sections yields such chunks.
LEMMA ChunksGood ==
    ASSUME NEW sections, GoodSections(sections)
    PROVE  GoodChunks(CutAll(sections), sections)
<1> DEFINE T == {s \in Seq(Texts) : GoodSections(s) => GoodChunks(CutAll(s), s)}
<1>1. <<>> \in T
  <2>1. <<>> \in Seq(Texts) /\ CutAll(<<>>) = <<>> /\ Len(<<>>) = 0
    BY CutAllFacts
  <2>2. GoodChunks(<<>>, <<>>)
    BY <2>1 DEF GoodChunks
  <2> QED BY <2>1, <2>2
<1>2. ASSUME NEW s \in Seq(Texts), NEW text \in Texts, s \in T PROVE Append(s, text) \in T
  <2> DEFINE more == Append(s, text)
             m == Len(s)
             old == CutAll(s)
             pieces == SplitLongChunk(text)
             new == CutAll(more)
             n == Len(old)
             p == Len(pieces)
  <2>1. /\ more \in Seq(Texts) /\ Len(more) = m + 1 /\ m \in Nat
        /\ DOMAIN more = 1..(m + 1) /\ DOMAIN s = 1..m
        /\ more[m + 1] = text /\ \A k \in 1..m : more[k] = s[k]
    OBVIOUS
  <2> SUFFICES ASSUME GoodSections(more) PROVE GoodChunks(new, more)
    BY <2>1
  <2>2. GoodSections(s) /\ Whole(text) /\ (m > 0 => text[1] \in Starts)
    <3> HIDE DEF more, m
    <3>1. Whole(text) /\ (m + 1 > 1 => text[1] \in Starts)
      BY <2>1 DEF GoodSections
    <3>2. GoodSections(s)
      BY <2>1 DEF GoodSections
    <3> QED BY <2>1, <3>1, <3>2
  <2>3. GoodChunks(old, s)
    BY <1>2, <2>2
  <2>4. /\ pieces \in Seq(Texts) /\ p \in Nat \ {0} /\ pieces[1][1] = text[1]
        /\ \A j \in 1..p :
              /\ Len(pieces[j]) \in 1..MaxChars
              /\ \A k \in 2..Len(pieces[j]) : pieces[j][k] \notin Starts
              /\ j + 1 \in 1..p => Len(pieces[j]) = MaxChars
    BY <2>2, PiecesGood
  <2>5. new = old \o pieces
    BY CutAllFacts
  <2>6. old \in Seq(Texts) /\ n \in Nat
    BY CutAllFacts
  <2> HIDE DEF old, pieces, new
  <2>7. /\ new \in Seq(Texts) /\ Len(new) = n + p
        /\ \A j \in 1..(n + p) : new[j] = IF j <= n THEN old[j] ELSE pieces[j - n]
    BY <2>4, <2>5, <2>6, ConcatProperties
  <2>8. more # <<>>
    BY <2>1
  <2> HIDE DEF more, m, n, p
  <2>9. ASSUME NEW j \in 1..n
        PROVE  /\ new[j] = old[j] /\ Len(old[j]) \in 1..MaxChars
               /\ \A k \in 2..Len(old[j]) : old[j][k] \notin Starts
               /\ j > 1 => Len(old[j - 1]) = MaxChars \/ old[j][1] \in Starts
    BY <2>3, <2>4, <2>6, <2>7 DEF GoodChunks, n
  <2>10. ASSUME NEW j \in 1..p PROVE new[n + j] = pieces[j]
    <3>1. n + j \in 1..(n + p) /\ ~(n + j <= n) /\ (n + j) - n = j
      BY <2>4, <2>6
    <3> QED BY <2>7, <3>1
  <2>11. n > 0 => m > 0
    <3>1. m = 0 => s = <<>>
      BY DEF m
    <3>2. s = <<>> => old = <<>>
      BY <2>3 DEF GoodChunks
    <3>3. old = <<>> => n = 0
      BY DEF n
    <3> QED BY <2>1, <2>6, <3>1, <3>2, <3>3
  <2>12. ASSUME NEW j \in 1..Len(new)
         PROVE  /\ Len(new[j]) \in 1..MaxChars
                /\ \A k \in 2..Len(new[j]) : new[j][k] \notin Starts
                /\ j > 1 => Len(new[j - 1]) = MaxChars \/ new[j][1] \in Starts
    <3>1. CASE j <= n
      <4>1. j \in 1..n /\ (j > 1 => j - 1 \in 1..n)
        BY <2>6, <3>1
      <4> QED BY <2>9, <4>1
    <3>2. CASE j > n
      <4>1. j - n \in 1..p /\ n + (j - n) = j
        BY <2>4, <2>6, <2>7, <3>2
      <4>2. new[j] = pieces[j - n]
        BY <2>10, <4>1
      <4>3. Len(new[j]) \in 1..MaxChars /\ \A k \in 2..Len(new[j]) : new[j][k] \notin Starts
        BY <2>4, <4>1, <4>2
      <4>4. ASSUME j > 1 PROVE Len(new[j - 1]) = MaxChars \/ new[j][1] \in Starts
        <5>1. CASE j - n = 1
          <6>1. n > 0
            BY <2>6, <4>1, <4>4, <5>1
          <6>2. new[j][1] = text[1]
            BY <2>4, <4>2, <5>1
          <6> QED BY <2>2, <2>11, <6>1, <6>2
        <5>2. CASE j - n # 1
          <6>1. j - n - 1 \in 1..p /\ (j - n - 1) + 1 = j - n /\ n + (j - n - 1) = j - 1
            BY <2>4, <2>6, <4>1, <5>2
          <6>2. new[j - 1] = pieces[j - n - 1]
            BY <2>10, <6>1
          <6>3. Len(pieces[j - n - 1]) = MaxChars
            BY <2>4, <4>1, <6>1
          <6> QED BY <6>2, <6>3
        <5> QED BY <5>1, <5>2
      <4> QED BY <4>3, <4>4
    <3> QED BY <2>4, <2>6, <2>7, <3>1, <3>2
  <2>13. LET first == SplitLongChunk(more[1]) IN
         /\ Len(first) <= Len(new)
         /\ \A j \in 1..Len(first) : new[j] = first[j]
         /\ Len(first) < Len(new) => new[Len(first) + 1][1] \in Starts
    <3>1. CASE m = 0
      <4>1. more[1] = text
        BY <2>1, <3>1
      <4>2. n = 0
        BY <2>6, <2>11, <3>1
      <4>3. Len(new) = p /\ \A j \in 1..p : new[j] = pieces[j]
        BY <2>4, <2>7, <2>10, <4>2
      <4> QED BY <2>4, <4>1, <4>3 DEF pieces, p
    <3>2. CASE m # 0
      <4> DEFINE first == SplitLongChunk(more[1])
                 q == Len(first)
      <4>1. more[1] = s[1] /\ s # <<>>
        <5>1. 1 \in 1..m
          BY <2>1, <3>2
        <5>2. s # <<>>
          BY <3>2 DEF m
        <5> QED BY <2>1, <5>1, <5>2
      <4>2. first \in Seq(Texts) /\ q \in Nat
        <5>1. s[1] \in Texts
          BY <4>1
        <5> QED BY <4>1, <5>1, CutType
      <4>3. /\ q <= n /\ \A j \in 1..q : old[j] = first[j]
            /\ q < n => old[q + 1][1] \in Starts
        BY <2>3, <4>1 DEF GoodChunks, n
      <4> HIDE DEF first, q
      <4>4. \A j \in 1..q : new[j] = first[j]
        <5> TAKE j \in 1..q
        <5>1. j \in 1..n
          BY <2>6, <4>2, <4>3
        <5> QED BY <2>9, <4>3, <5>1
      <4>5. ASSUME q < Len(new) PROVE new[q + 1][1] \in Starts
        <5>1. CASE q < n
          <6>1. q + 1 \in 1..n
            BY <2>6, <4>2, <5>1
          <6> QED BY <2>9, <4>3, <5>1, <6>1
        <5>2. CASE q = n
          <6>1. 1 \in 1..p /\ new[n + 1] = pieces[1]
            BY <2>4, <2>10
          <6>2. m > 0
            BY <2>1, <3>2
          <6> QED BY <2>2, <2>4, <5>2, <6>1, <6>2
        <5> QED BY <2>6, <4>2, <4>3, <5>1, <5>2
      <4>6. q <= Len(new)
        BY <2>4, <2>6, <2>7, <4>2, <4>3
      <4> QED BY <4>4, <4>5, <4>6 DEF first, q
    <3> QED BY <3>1, <3>2
  <2> QED BY <2>7, <2>8, <2>12, <2>13 DEF GoodChunks
<1>3. sections \in Seq(Texts)
  BY DEF GoodSections
<1> HIDE DEF T
<1>4. \A s \in Seq(Texts) : s \in T
  BY <1>1, <1>2, SequenceInduction
<1> QED BY <1>3, <1>4 DEF T

\* The chunks hold the visible characters of the document.
LEMMA ChunksKeep ==
    ASSUME Document
    PROVE  AllVisible(Parse(content)) = VisibleChars(Between(1, Len(content.lines)))
<1>1. SplitSections(content) \in Seq(Texts)
  BY SectionsGood DEF GoodSections
<1> QED BY <1>1, ParseCuts, AllVisibleChunks, SectionsGood

\* The chunks of a document that has any.
LEMMA ChunkFacts ==
    ASSUME Document, Parse(content) # <<>>
    PROVE  LET chunks == Parse(content) IN
           /\ chunks \in Seq(Texts) /\ 1 \in 1..Len(chunks)
           /\ \A j \in 1..Len(chunks) :
                 /\ chunks[j] \in Texts /\ Len(chunks[j]) \in 1..MaxChars
                 /\ \A k \in 2..Len(chunks[j]) : chunks[j][k] \notin Starts
                 /\ j > 1 => Len(chunks[j - 1]) = MaxChars \/ chunks[j][1] \in Starts
           /\ ~IsSpace(content, chunks[1][1])
           /\ \E text : /\ Whole(text) /\ text[1] = chunks[1][1]
                        /\ \A k \in 1..Len(chunks[1]) : k \in 1..Len(text) /\ chunks[1][k] = text[k]
                        /\ \E u \in Texts : AllVisible(chunks) = VisibleChars(text) \o u
                        /\ Len(chunks) >= 2 =>
                              \/ chunks[2][1] \in Starts
                              \/ /\ Len(chunks[1]) = MaxChars /\ MaxChars + 1 \in 1..Len(text)
                                 /\ chunks[2][1] = text[MaxChars + 1]
<1> DEFINE chunks == Parse(content)
           sections == SplitSections(content)
           text == sections[1]
           pieces == SplitLongChunk(text)
           n == Len(chunks)
           p == Len(pieces)
<1>1. GoodSections(sections) /\ chunks = CutAll(sections) /\ sections \in Seq(Texts)
  BY SectionsGood, ParseCuts DEF GoodSections
<1>2. AllVisible(chunks) = AllVisible(sections)
  BY <1>1, AllVisibleChunks
<1> HIDE DEF chunks, sections
<1>3. GoodChunks(chunks, sections)
  BY <1>1, ChunksGood
<1>4. sections # <<>> /\ chunks # <<>>
  BY <1>3 DEF GoodChunks, chunks
<1>5. 1 \in DOMAIN sections /\ 1 <= Len(sections)
  BY <1>1, <1>4
<1>6. Whole(text) /\ text \in Texts /\ ~IsSpace(content, text[1])
  <2>1. Whole(text)
    BY <1>1, <1>5 DEF GoodSections
  <2> QED BY <2>1 DEF Whole
<1> HIDE DEF text
<1>7. /\ pieces \in Seq(Texts) /\ p \in Nat \ {0} /\ pieces[1][1] = text[1]
      /\ \A j \in 1..p :
            /\ Len(pieces[j]) \in 1..MaxChars
            /\ j + 1 \in 1..p => Len(pieces[j]) = MaxChars
            /\ \A k \in 1..Len(pieces[j]) : /\ MaxChars * (j - 1) + k \in 1..Len(text)
                                           /\ pieces[j][k] = text[MaxChars * (j - 1) + k]
  BY <1>6, PiecesGood
<1> HIDE DEF pieces
<1>8. /\ p <= n /\ \A j \in 1..p : chunks[j] = pieces[j]
      /\ p < n => chunks[p + 1][1] \in Starts
  BY <1>3, <1>4 DEF GoodChunks, text, pieces
<1>9. chunks \in Seq(Texts) /\ n \in Nat
  BY <1>3 DEF GoodChunks
<1>10. \A j \in 1..n : chunks[j] \in Texts
  BY <1>9
<1> HIDE DEF p
<1>11. 1 \in 1..n /\ 1 \in 1..p /\ chunks[1] = pieces[1] /\ chunks[1][1] = text[1]
  BY <1>7, <1>8, <1>9
<1>12. \E u \in Texts : AllVisible(chunks) = VisibleChars(text) \o u
  BY <1>1, <1>2, <1>5, FirstTexts DEF text
<1>13. MaxChars \in Nat \ {0}
  BY ParserAssumption
<1>14. \A k \in 1..Len(chunks[1]) : k \in 1..Len(text) /\ chunks[1][k] = text[k]
  <2> TAKE k \in 1..Len(chunks[1])
  <2>1. MaxChars * (1 - 1) = 0
    BY <1>13
  <2>2. k \in Int
    OBVIOUS
  <2>3. 0 + k = k
    BY <2>2
  <2>4. MaxChars * (1 - 1) + k \in 1..Len(text) /\ chunks[1][k] = text[MaxChars * (1 - 1) + k]
    BY <1>7, <1>11
  <2> QED BY <2>1, <2>3, <2>4
<1>15. ASSUME n >= 2, chunks[2][1] \notin Starts
       PROVE  /\ Len(chunks[1]) = MaxChars /\ MaxChars + 1 \in 1..Len(text)
              /\ chunks[2][1] = text[MaxChars + 1]
  <2>1. p >= 2
    <3> SUFFICES ASSUME p < 2 PROVE FALSE
      BY <1>7
    <3>1. p = 1 /\ p < n
      BY <1>7, <1>9, <1>15
    <3> QED BY <1>8, <1>15, <3>1
  <2>2. 2 \in 1..p /\ 1 + 1 \in 1..p
    BY <1>7, <2>1
  <2>3. chunks[2] = pieces[2]
    BY <1>8, <2>2
  <2>4. 1 \in 1..Len(pieces[2])
    BY <1>7, <1>13, <2>2
  <2>5. MaxChars * (2 - 1) + 1 \in 1..Len(text) /\ pieces[2][1] = text[MaxChars * (2 - 1) + 1]
    BY <1>7, <2>2, <2>4
  <2>6. MaxChars * (2 - 1) = MaxChars
    BY <1>13
  <2>7. Len(pieces[1]) = MaxChars
    BY <1>7, <1>11, <2>2
  <2> QED BY <1>11, <2>3, <2>5, <2>6, <2>7
<1>16. \A j \in 1..n :
          /\ Len(chunks[j]) \in 1..MaxChars
          /\ \A k \in 2..Len(chunks[j]) : chunks[j][k] \notin Starts
          /\ j > 1 => Len(chunks[j - 1]) = MaxChars \/ chunks[j][1] \in Starts
  BY <1>3 DEF GoodChunks
<1>17. ~IsSpace(content, chunks[1][1])
  BY <1>6, <1>11
<1>18. \E t : /\ Whole(t) /\ t[1] = chunks[1][1]
              /\ \A k \in 1..Len(chunks[1]) : k \in 1..Len(t) /\ chunks[1][k] = t[k]
              /\ \E u \in Texts : AllVisible(chunks) = VisibleChars(t) \o u
              /\ n >= 2 =>
                    \/ chunks[2][1] \in Starts
                    \/ /\ Len(chunks[1]) = MaxChars /\ MaxChars + 1 \in 1..Len(t)
                       /\ chunks[2][1] = t[MaxChars + 1]
  BY <1>6, <1>11, <1>12, <1>14, <1>15
<1> QED BY <1>9, <1>10, <1>11, <1>16, <1>17, <1>18 DEF chunks, n

\* What is seen of the chunks starts with the first chunk's first character.
LEMMA SeenFirst ==
    ASSUME Document, Parse(content) # <<>>
    PROVE  LET lead == VisibleChars(Parse(content)[1])
               seen == VisibleChars(Between(1, Len(content.lines)))
           IN /\ lead \in Seq(Place) /\ Len(lead) >= 1 /\ lead[1] = Parse(content)[1][1]
              /\ Len(seen) >= Len(lead) /\ \A k \in 1..Len(lead) : seen[k] = lead[k]
<1> DEFINE chunks == Parse(content)
           lead == VisibleChars(chunks[1])
           seen == VisibleChars(Between(1, Len(content.lines)))
<1>1. /\ chunks \in Seq(Texts) /\ 1 \in 1..Len(chunks) /\ chunks[1] \in Texts
      /\ ~IsSpace(content, chunks[1][1]) /\ Len(chunks[1]) \in 1..MaxChars
  BY ChunkFacts
<1>2. AllVisible(chunks) = seen
  BY ChunksKeep
<1> HIDE DEF chunks, seen
<1>3. PICK u \in Texts : seen = lead \o u
  <2>1. Len(chunks) >= 1
    BY <1>1
  <2> QED BY <1>1, <1>2, <2>1, FirstTexts
<1>4. chunks[1] # <<>>
  <2>1. Len(<<>>) = 0 /\ MaxChars \in Nat
    BY ParserAssumption
  <2> QED BY <1>1, <2>1
<1>5. Len(lead) >= 1 /\ lead[1] = chunks[1][1]
  BY <1>1, <1>4, VisibleFirst
<1>6. lead \in Seq(Place) /\ u \in Seq(Place)
  BY <1>1, VisibleFacts DEF Texts
<1> HIDE DEF lead
<1>7. Len(seen) >= Len(lead) /\ \A k \in 1..Len(lead) : seen[k] = lead[k]
  BY <1>3, <1>6
<1> QED BY <1>5, <1>6, <1>7 DEF chunks, lead, seen

-----------------------------------------------------------------------------
(* What is seen first *)

\* The visible characters of a line: nothing if it is blank, else the first one is seen.
LEMMA LineVisible ==
    ASSUME Document, NEW i \in Numbers
    PROVE  /\ VisibleChars(Body(i)) \in Texts
           /\ VisibleChars(Body(i)) = <<>> <=> content.lines[i].chars = 0
           /\ VisibleChars(Chars(content, i)) =
                 (IF i = 1 THEN BomText ELSE <<>>) \o VisibleChars(Body(i))
<1>1. /\ Body(i) \in Texts /\ BomText \in Texts /\ <<>> \in Texts /\ i \in Nat \ {0}
      /\ content.lines[i].indent \in Nat /\ content.lines[i].chars \in Nat
      /\ Len(Body(i)) = content.lines[i].indent + content.lines[i].chars
      /\ Chars(content, i) = (IF i = 1 THEN BomText ELSE <<>>) \o Body(i)
  BY LineFacts DEF Texts
<1> DEFINE m == content.lines[i].indent
           c == content.lines[i].chars
<1>2. ASSUME NEW k \in 1..(m + c) PROVE IsSpace(content, Body(i)[k]) <=> k <= m
  <2>1. Body(i)[k] = At(i, k)
    BY DEF Body
  <2>2. At(i, k) # Mark /\ At(i, k).at = k /\ At(i, k).line = i
    BY <1>1 DEF At, Mark
  <2> QED BY <2>1, <2>2 DEF IsSpace
<1> HIDE DEF m, c
<1>3. (\A k \in 1..Len(Body(i)) : IsSpace(content, Body(i)[k])) <=> c = 0
  <2>1. m \in Nat /\ c \in Nat /\ Len(Body(i)) = m + c
    BY <1>1 DEF m, c
  <2>2. CASE c = 0
    BY <1>2, <2>1, <2>2
  <2>3. CASE c # 0
    <3>1. m + 1 \in 1..(m + c) /\ ~(m + 1 <= m)
      BY <2>1, <2>3
    <3> QED BY <1>2, <2>1, <2>3, <3>1
  <2> QED BY <2>2, <2>3
<1>4. VisibleChars(BomText) = BomText /\ VisibleChars(<<>>) = <<>>
  <2>1. Mark \in Place /\ ~IsSpace(content, Mark)
    BY DEF Mark, At, Place, IsSpace
  <2> QED BY <2>1, VisibleOne, VisibleFacts DEF BomText
<1>5. VisibleChars(Chars(content, i)) =
          (IF i = 1 THEN BomText ELSE <<>>) \o VisibleChars(Body(i))
  BY <1>1, <1>4, VisibleConcat
<1>6. VisibleChars(Body(i)) = <<>> <=> c = 0
  BY <1>1, <1>3, VisibleBlank
<1> QED BY <1>1, <1>5, <1>6, VisibleFacts DEF c

\* What is seen of a document: the byte order mark, then the first line that is not blank.
LEMMA Lead ==
    ASSUME Document, NEW first \in Nat \ {0},
           \A i \in Numbers : i < first => content.lines[i].chars = 0
    PROVE  \A k \in Numbers :
              /\ k < first => VisibleChars(Between(1, k)) = BomText
              /\ first <= k /\ first \in Numbers =>
                    \E u \in Texts : VisibleChars(Between(1, k))
                                        = (BomText \o VisibleChars(Body(first))) \o u
<1> DEFINE Seen(k) == VisibleChars(Between(1, k))
           Good(k) == /\ k < first => Seen(k) = BomText
                      /\ first <= k =>
                            \E u \in Texts : Seen(k) = (BomText \o VisibleChars(Body(first))) \o u
           T == {k \in Nat : k \in Numbers => Good(k)}
<1>1. Numbers = 1..Len(content.lines) /\ Len(content.lines) \in Nat \ {0}
      /\ BomText \in Seq(Place) /\ BomText \in Texts /\ <<>> \in Texts
  BY LineFacts DEF Texts
<1>2. ASSUME NEW i \in Numbers
      PROVE  VisibleChars(Body(i)) \in Texts /\ VisibleChars(Body(i)) \in Seq(Place)
  BY LineVisible DEF Texts
<1>3. 0 \in T
  BY <1>1
<1>4. ASSUME NEW k \in Nat, k \in T PROVE k + 1 \in T
  <2> DEFINE line == VisibleChars(Body(k + 1))
  <2> SUFFICES ASSUME k + 1 \in Numbers PROVE Good(k + 1)
    OBVIOUS
  <2>1. line \in Seq(Place) /\ line \in Texts
        /\ (k + 1 < first => content.lines[k + 1].chars = 0)
        /\ (content.lines[k + 1].chars = 0 => line = <<>>)
    BY <1>2, LineVisible
  <2>2. CASE k = 0
    <3>1. 1 \in Numbers /\ k + 1 = 1 /\ 1 <= 1
      BY <1>1, <2>2
    <3>2. Between(1, 1) = Chars(content, 1)
      BY <3>1, BetweenFacts
    <3>3. VisibleChars(Chars(content, 1)) = BomText \o VisibleChars(Body(1))
      BY <3>1, LineVisible
    <3>4. Seen(k + 1) = BomText \o line
      BY <3>1, <3>2, <3>3
    <3> HIDE DEF Seen, line
    <3>5. ASSUME k + 1 < first PROVE Seen(k + 1) = BomText
      <4>1. line = <<>>
        BY <2>1, <3>5
      <4> QED BY <1>1, <3>4, <4>1, ConcatEmptySeq
    <3>6. ASSUME first <= k + 1
          PROVE  \E u \in Texts : Seen(k + 1) = (BomText \o VisibleChars(Body(first))) \o u
      <4>1. first = k + 1 /\ line = VisibleChars(Body(first))
        BY <3>1, <3>6 DEF line
      <4>2. BomText \o line \in Seq(Place)
        BY <1>1, <2>1
      <4>3. (BomText \o line) \o <<>> = BomText \o line
        BY <4>2, ConcatEmptySeq
      <4> QED BY <1>1, <3>4, <4>1, <4>3
    <3> QED BY <3>5, <3>6
  <2>3. CASE k # 0
    <3>1. 1 \in Numbers /\ k \in Numbers /\ 1 <= k
      BY <1>1, <2>3
    <3>2. k + 1 # 1
      BY <3>1
    <3>3. VisibleChars(Chars(content, k + 1)) = <<>> \o line
      BY <3>2, LineVisible
    <3>4. <<>> \o line = line
      BY <2>1, ConcatEmptySeq
    <3>5. VisibleChars(Between(1, k + 1))
              = VisibleChars(Between(1, k)) \o VisibleChars(Chars(content, k + 1))
      <4>1. k \in Numbers /\ 1 \in Numbers /\ 1 <= k /\ k + 1 \in Numbers
        BY <3>1
      <4> QED BY <4>1, BetweenFacts
    <3>6. Seen(k + 1) = Seen(k) \o line
      BY <3>3, <3>4, <3>5
    <3>7. Good(k)
      BY <1>4, <3>1
    <3> HIDE DEF Seen, line
    <3>8. ASSUME k + 1 < first PROVE Seen(k + 1) = BomText
      <4>1. line = <<>> /\ Seen(k) = BomText
        BY <2>1, <3>7, <3>8
      <4> QED BY <1>1, <3>6, <4>1, ConcatEmptySeq
    <3>9. ASSUME first <= k + 1
          PROVE  \E u \in Texts : Seen(k + 1) = (BomText \o VisibleChars(Body(first))) \o u
      <4>1. CASE first = k + 1
        <5>1. Seen(k) = BomText /\ line = VisibleChars(Body(first))
          BY <3>7, <4>1 DEF line
        <5>2. BomText \o line \in Seq(Place)
          BY <1>1, <2>1
        <5>3. (BomText \o line) \o <<>> = BomText \o line
          BY <5>2, ConcatEmptySeq
        <5> QED BY <1>1, <3>6, <5>1, <5>3
      <4>2. CASE first <= k
        <5> DEFINE lead == BomText \o VisibleChars(Body(first))
        <5>1. PICK u \in Texts : Seen(k) = lead \o u
          BY <3>7, <4>2
        <5>2. first \in Numbers
          BY <1>1, <3>1, <4>2
        <5>3. lead \in Seq(Place) /\ u \in Seq(Place)
          BY <1>1, <1>2, <5>2 DEF Texts
        <5> HIDE DEF lead
        <5>4. (lead \o u) \o line = lead \o (u \o line)
          BY <2>1, <5>3, ConcatAssociative
        <5>5. u \o line \in Texts
          BY <2>1, <5>3 DEF Texts
        <5> QED BY <3>6, <5>1, <5>4, <5>5 DEF lead
      <4>3. first = k + 1 \/ first <= k
        BY <3>9
      <4> QED BY <4>1, <4>2, <4>3
    <3> QED BY <3>8, <3>9
  <2> QED BY <2>2, <2>3
<1> HIDE DEF T
<1>5. \A k \in Nat : k \in T
  BY <1>3, <1>4, NumberInduction
<1>6. ASSUME NEW k \in Numbers PROVE Good(k)
  <2> HIDE DEF Good
  <2>1. k \in Nat
    BY <1>1
  <2>2. k \in T
    BY <1>5, <2>1
  <2> QED BY <2>2 DEF T
<1> QED BY <1>6

=============================================================================
