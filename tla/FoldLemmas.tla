----------------------------- MODULE FoldLemmas -----------------------------
(***************************************************************************)
(* Induction over numbers and sequences, and what FoldLeft computes. The    *)
(* lemmas speak of sets and functions only, so that they can be cited       *)
(* without an operator as an argument: an induction is over the set of      *)
(* things that have a property, a fold is over a function op.               *)
(***************************************************************************)
EXTENDS Integers, SequencesExt, SequenceTheorems, WellFoundedInduction, TLAPS

\* Every set of numbers has a least element.
LEMMA LeastElement ==
    ASSUME NEW T \in SUBSET Nat, T # {}
    PROVE  \E x \in T : \A y \in T : x <= y
<1>1. PICK x \in T : \A y \in T : <<y, x>> \notin OpToRel(<, Nat)
  BY NatLessThanWellFounded, WFMin
<1>2. \A y \in T : ~(y < x)
  BY <1>1 DEF OpToRel
<1> QED BY <1>2

\* Induction for a set of numbers.
LEMMA NumberInduction ==
    ASSUME NEW T, 0 \in T, \A k \in Nat : k \in T => k + 1 \in T
    PROVE  \A k \in Nat : k \in T
<1> DEFINE Rest == Nat \ T
<1> SUFFICES ASSUME Rest # {} PROVE FALSE
  OBVIOUS
<1>1. PICK k \in Rest : \A y \in Rest : k <= y
  BY LeastElement
<1>2. k - 1 \in Nat /\ k - 1 \notin Rest /\ (k - 1) + 1 = k
  BY <1>1
<1> QED BY <1>1, <1>2

\* Induction for a set of sequences.
LEMMA SequenceInduction ==
    ASSUME NEW S, NEW T, <<>> \in T,
           \A seq \in Seq(S), x \in S : seq \in T => Append(seq, x) \in T
    PROVE  \A seq \in Seq(S) : seq \in T
<1> DEFINE Good == {k \in Nat : \A seq \in Seq(S) : Len(seq) = k => seq \in T}
<1>1. 0 \in Good
  <2>1. \A seq \in Seq(S) : Len(seq) = 0 => seq = <<>>
    OBVIOUS
  <2> QED BY <2>1
<1>2. ASSUME NEW k \in Nat, k \in Good PROVE k + 1 \in Good
  <2> SUFFICES ASSUME NEW seq \in Seq(S), Len(seq) = k + 1 PROVE seq \in T
    OBVIOUS
  <2> DEFINE front == SubSeq(seq, 1, k)
             last == seq[k + 1]
  <2>1. /\ last \in S /\ \A i \in 1..k : seq[i] \in S
    OBVIOUS
  <2>2. /\ front \in Seq(S) /\ Len(front) = k /\ \A i \in 1..k : front[i] = seq[i]
    <3>1. 1 \in Int /\ k \in Int
      OBVIOUS
    <3> QED BY <2>1, <3>1, SubSeqProperties
  <2> HIDE DEF front, last
  <2>3. seq = Append(front, last)
    <3>1. Append(front, last) \in Seq(S) /\ Len(Append(front, last)) = k + 1
      BY <2>1, <2>2
    <3>2. \A i \in 1..(k + 1) : Append(front, last)[i] = seq[i]
      BY <2>1, <2>2 DEF last
    <3> QED BY <3>1, <3>2, SeqEqual
  <2> QED BY <1>2, <2>1, <2>2, <2>3
<1> HIDE DEF Good
<1>3. \A k \in Nat : k \in Good
  BY <1>1, <1>2, NumberInduction
<1> QED BY <1>3 DEF Good

\* An operation that adds an element of A to a result in S.
Combines(S, A, op) == op \in [S \X A -> S]

\* What op makes of each prefix of a sequence.
Walk(S, op, base, seq, h) ==
    /\ h \in [0..Len(seq) -> S] /\ h[0] = base
    /\ \A k \in 1..Len(seq) : h[k] = op[<<h[k - 1], seq[k]>>]

\* One more element is one more step.
LEMMA WalkAppend ==
    ASSUME NEW S, NEW A, NEW op, Combines(S, A, op), NEW base \in S,
           NEW seq \in Seq(A), NEW x \in A, NEW h, Walk(S, op, base, seq, h)
    PROVE  LET n == Len(seq) + 1
               more == [k \in 0..n |-> IF k = n THEN op[<<h[n - 1], x>>] ELSE h[k]]
           IN Walk(S, op, base, Append(seq, x), more)
<1> DEFINE n == Len(seq) + 1
           more == [k \in 0..n |-> IF k = n THEN op[<<h[n - 1], x>>] ELSE h[k]]
           longer == Append(seq, x)
<1>1. n \in Nat /\ n - 1 = Len(seq) /\ Len(longer) = n
  OBVIOUS
<1>2. \A k \in 1..n : longer[k] = IF k = n THEN x ELSE seq[k]
  OBVIOUS
<1>3. /\ h \in [0..(n - 1) -> S] /\ h[0] = base
      /\ \A k \in 1..(n - 1) : h[k] = op[<<h[k - 1], seq[k]>>]
  BY <1>1 DEF Walk
<1> HIDE DEF n, longer
<1>4. h[n - 1] \in S /\ op[<<h[n - 1], x>>] \in S
  <2>1. h[n - 1] \in S
    BY <1>1, <1>3
  <2> QED BY <2>1 DEF Combines
<1>5. more \in [0..n -> S] /\ more[0] = base
  BY <1>1, <1>3, <1>4
<1>6. ASSUME NEW k \in 1..n PROVE more[k] = op[<<more[k - 1], longer[k]>>]
  <2>1. k \in 0..n /\ k - 1 \in 0..n /\ k - 1 # n
    BY <1>1
  <2>2. more[k - 1] = h[k - 1]
    BY <2>1
  <2>3. CASE k = n
    BY <1>2, <2>1, <2>2, <2>3
  <2>4. CASE k # n
    <3>1. k \in 1..(n - 1) /\ more[k] = h[k] /\ longer[k] = seq[k]
      BY <1>1, <1>2, <2>1, <2>4
    <3> QED BY <1>3, <2>2, <3>1
  <2> QED BY <2>3, <2>4
<1> HIDE DEF more
<1>7. Walk(S, op, base, longer, more)
  BY <1>1, <1>5, <1>6 DEF Walk
<1> QED BY <1>7 DEF n, longer, more

\* There is a walk along every sequence.
LEMMA WalkExists ==
    ASSUME NEW S, NEW A, NEW op, Combines(S, A, op), NEW base \in S
    PROVE  \A seq \in Seq(A) : \E h : Walk(S, op, base, seq, h)
<1> DEFINE T == {seq \in Seq(A) : \E h : Walk(S, op, base, seq, h)}
<1>1. <<>> \in T
  <2>1. Walk(S, op, base, <<>>, [k \in {0} |-> base])
    BY DEF Walk
  <2> QED BY <2>1
<1>2. ASSUME NEW seq \in Seq(A), NEW x \in A, seq \in T PROVE Append(seq, x) \in T
  <2>1. Append(seq, x) \in Seq(A)
    OBVIOUS
  <2>2. PICK h : Walk(S, op, base, seq, h)
    BY <1>2
  <2>3. \E more : Walk(S, op, base, Append(seq, x), more)
    BY <2>2, WalkAppend
  <2> QED BY <2>1, <2>3
<1> HIDE DEF T
<1>3. \A seq \in Seq(A) : seq \in T
  BY <1>1, <1>2, SequenceInduction
<1> QED BY <1>3 DEF T

\* Walks along sequences that start alike start alike.
LEMMA WalkUnique ==
    ASSUME NEW S, NEW A, NEW op, Combines(S, A, op), NEW base \in S,
           NEW seq \in Seq(A), NEW other \in Seq(A), NEW n \in Nat,
           n <= Len(seq), n <= Len(other), \A k \in 1..n : seq[k] = other[k],
           NEW h, NEW i, Walk(S, op, base, seq, h), Walk(S, op, base, other, i)
    PROVE  \A k \in 0..n : h[k] = i[k]
<1> DEFINE T == {k \in Nat : k <= n => h[k] = i[k]}
<1>1. 0 \in T
  BY DEF Walk
<1>2. ASSUME NEW k \in Nat, k \in T PROVE k + 1 \in T
  <2> SUFFICES ASSUME k + 1 <= n PROVE h[k + 1] = i[k + 1]
    OBVIOUS
  <2>1. /\ k + 1 \in 1..Len(seq) /\ k + 1 \in 1..Len(other) /\ k + 1 \in 1..n
        /\ (k + 1) - 1 = k /\ h[k] = i[k]
    BY <1>2
  <2>2. h[k + 1] = op[<<h[k], seq[k + 1]>>] /\ i[k + 1] = op[<<i[k], other[k + 1]>>]
    BY <2>1 DEF Walk
  <2> QED BY <2>1, <2>2
<1> HIDE DEF T
<1>3. \A k \in Nat : k \in T
  BY <1>1, <1>2, NumberInduction
<1> QED BY <1>3 DEF T

\* The greatest element of a set of numbers up to n.
LEMMA GreatestElement ==
    ASSUME NEW n \in Nat, NEW s \in SUBSET (1..n), s # {}
    PROVE  Max(s) \in s /\ \A y \in s : y <= Max(s)
<1> DEFINE Rest == {n - y : y \in s}
<1>1. Rest \in SUBSET Nat /\ Rest # {}
  <2>1. ASSUME NEW y \in s PROVE n - y \in Nat
    OBVIOUS
  <2>2. PICK y \in s : TRUE
    OBVIOUS
  <2>3. n - y \in Rest
    BY <2>2
  <2> QED BY <2>1, <2>3
<1>2. PICK z \in Rest : \A y \in Rest : z <= y
  BY <1>1, LeastElement
<1>3. PICK x \in s : z = n - x
  BY <1>2
<1>4. \A y \in s : x >= y
  <2> TAKE y \in s
  <2>1. n - x <= n - y
    BY <1>2, <1>3
  <2> QED BY <2>1
<1>5. \E m \in s : \A y \in s : m >= y
  BY <1>4
<1>6. Max(s) \in s /\ \A y \in s : Max(s) >= y
  BY <1>5 DEF Max
<1>7. \A y \in s : y \in Nat
  OBVIOUS
<1> DEFINE max == Max(s)
<1>8. max \in s /\ \A y \in s : max >= y
  BY <1>6
<1> HIDE DEF max
<1>9. \A y \in s : y <= max
  BY <1>7, <1>8
<1> QED BY <1>8, <1>9 DEF max

\* The recursion behind FoldLeft goes over sets of positions.
Unfolds(S, op, base, seq, g) ==
    /\ g[{}] = base
    /\ \A s \in SUBSET (DOMAIN seq) :
          s # {} /\ g[s \ {Max(s)}] \in S => g[s] = op[<<g[s \ {Max(s)}], seq[Max(s)]>>]

\* The recursion over positions yields what the walk yields.
LEMMA UnfoldsWalk ==
    ASSUME NEW S, NEW A, NEW op, Combines(S, A, op), NEW base \in S, NEW seq \in Seq(A),
           NEW g, Unfolds(S, op, base, seq, g), NEW h, Walk(S, op, base, seq, h)
    PROVE  g[DOMAIN seq] = h[Len(seq)]
<1> DEFINE n == Len(seq)
           T == {k \in Nat : k <= n => g[1..k] = h[k]}
<1>1. n \in Nat /\ DOMAIN seq = 1..n
  OBVIOUS
<1> HIDE DEF n
<1>2. h \in [0..n -> S] /\ h[0] = base /\ \A k \in 1..n : h[k] = op[<<h[k - 1], seq[k]>>]
  BY DEF Walk, n
<1>3. 0 \in T
  <2>1. 1..0 = {}
    OBVIOUS
  <2> QED BY <1>2, <2>1 DEF Unfolds
<1>4. ASSUME NEW k \in Nat, k \in T PROVE k + 1 \in T
  <2> SUFFICES ASSUME k + 1 <= n PROVE g[1..(k + 1)] = h[k + 1]
    OBVIOUS
  <2> DEFINE s == 1..(k + 1)
  <2>1. s \in SUBSET (1..n) /\ s # {} /\ k + 1 \in s
    <3>1. k + 1 \in s
      OBVIOUS
    <3>2. ASSUME NEW y \in s PROVE y \in 1..n
      BY <1>1
    <3> QED BY <3>1, <3>2
  <2>2. Max(s) = k + 1
    <3>1. Max(s) \in s /\ \A y \in s : y <= Max(s)
      BY <1>1, <2>1, GreatestElement
    <3> QED BY <2>1, <3>1
  <2>3. s \ {k + 1} = 1..k
    OBVIOUS
  <2>4. g[1..k] = h[k] /\ h[k] \in S
    <3>1. k \in 0..n /\ k <= n
      BY <1>1
    <3> QED BY <1>2, <1>4, <3>1
  <2> HIDE DEF s
  <2>5. g[s] = op[<<g[1..k], seq[k + 1]>>]
    BY <1>1, <2>1, <2>2, <2>3, <2>4 DEF Unfolds
  <2>6. k + 1 \in 1..n /\ (k + 1) - 1 = k
    BY <1>1
  <2>7. h[k + 1] = op[<<h[k], seq[k + 1]>>]
    BY <1>2, <2>6
  <2> QED BY <2>4, <2>5, <2>7 DEF s
<1> HIDE DEF T
<1>5. \A k \in Nat : k \in T
  BY <1>3, <1>4, NumberInduction
<1> QED BY <1>1, <1>5 DEF T, n

\* There is such a function.
Unfolding(S, op, base, seq, g) ==
    /\ g \in [SUBSET (DOMAIN seq) -> S] /\ g[{}] = base
    /\ \A s \in SUBSET (DOMAIN seq) :
          s # {} => /\ s \ {Max(s)} \in SUBSET (DOMAIN seq)
                    /\ Max(s) \in DOMAIN seq
                    /\ g[s] = op[<<g[s \ {Max(s)}], seq[Max(s)]>>]

\* The recursion over positions has a solution.
LEMMA UnfoldsExists ==
    ASSUME NEW S, NEW A, NEW op, Combines(S, A, op), NEW base \in S, NEW seq \in Seq(A)
    PROVE  \E g : Unfolding(S, op, base, seq, g)
<1> DEFINE n == Len(seq)
           Good(k, g) == /\ g \in [SUBSET (1..k) -> S] /\ g[{}] = base
                         /\ \A s \in SUBSET (1..k) :
                               s # {} => g[s] = op[<<g[s \ {Max(s)}], seq[Max(s)]>>]
           T == {k \in Nat : k <= n => \E g : Good(k, g)}
<1>1. n \in Nat /\ DOMAIN seq = 1..n /\ \A k \in 1..n : seq[k] \in A
  OBVIOUS
<1> HIDE DEF n
<1>2. ASSUME NEW k \in Nat, NEW s \in SUBSET (1..k), s # {}
      PROVE  Max(s) \in s /\ \A y \in s : y <= Max(s)
  BY <1>2, GreatestElement
<1>3. 0 \in T
  <2> DEFINE g == [s \in SUBSET (1..0) |-> base]
  <2>1. 1..0 = {}
    OBVIOUS
  <2>2. g \in [SUBSET (1..0) -> S] /\ g[{}] = base
    <3>1. {} \in SUBSET (1..0)
      OBVIOUS
    <3> QED BY <3>1
  <2>3. \A s \in SUBSET (1..0) : s = {}
    BY <2>1
  <2> HIDE DEF g
  <2>4. Good(0, g)
    BY <2>2, <2>3
  <2> QED BY <2>4
<1>4. ASSUME NEW k \in Nat, k \in T PROVE k + 1 \in T
  <2> HIDE DEF Good
  <2> SUFFICES ASSUME k + 1 <= n PROVE \E g : Good(k + 1, g)
    OBVIOUS
  <2>1. PICK f : Good(k, f)
    <3>1. k <= n
      BY <1>1
    <3>2. k <= n => \E f : Good(k, f)
      BY <1>4
    <3> QED BY <3>1, <3>2
  <2> USE DEF Good
  <2> DEFINE g == [s \in SUBSET (1..(k + 1)) |->
                      IF k + 1 \in s THEN op[<<f[s \ {k + 1}], seq[k + 1]>>] ELSE f[s]]
  <2>2. seq[k + 1] \in A
    BY <1>1
  <2>3. ASSUME NEW s \in SUBSET (1..(k + 1))
        PROVE  /\ s \ {k + 1} \in SUBSET (1..k)
               /\ k + 1 \notin s => s \in SUBSET (1..k)
               /\ f[s \ {k + 1}] \in S
    <3>1. s \ {k + 1} \in SUBSET (1..k)
      OBVIOUS
    <3>2. k + 1 \notin s => s = s \ {k + 1}
      OBVIOUS
    <3> QED BY <2>1, <3>1, <3>2
  <2>4. ASSUME NEW s \in SUBSET (1..(k + 1)) PROVE g[s] \in S
    <3>1. CASE k + 1 \in s
      <4>1. op[<<f[s \ {k + 1}], seq[k + 1]>>] \in S
        BY <2>2, <2>3 DEF Combines
      <4> QED BY <3>1, <4>1
    <3>2. CASE k + 1 \notin s
      BY <2>1, <2>3, <3>2
    <3> QED BY <3>1, <3>2
  <2>5. g \in [SUBSET (1..(k + 1)) -> S]
    BY <2>4
  <2>6. g[{}] = base
    BY <2>1
  <2>7. ASSUME NEW s \in SUBSET (1..(k + 1)), s # {}
        PROVE  g[s] = op[<<g[s \ {Max(s)}], seq[Max(s)]>>]
    <3>1. Max(s) \in s /\ \A y \in s : y <= Max(s)
      <4>1. k + 1 \in Nat
        OBVIOUS
      <4> QED BY <1>2, <2>7, <4>1
    <3>2. s \ {Max(s)} \in SUBSET (1..(k + 1))
      OBVIOUS
    <3>3. CASE k + 1 \in s
      <4>1. Max(s) = k + 1
        <5> DEFINE max == Max(s)
        <5>1. max \in 1..(k + 1) /\ k + 1 <= max
          BY <3>1, <3>3
        <5> HIDE DEF max
        <5>2. max = k + 1
          BY <5>1
        <5> QED BY <5>2 DEF max
      <4>2. k + 1 \notin s \ {Max(s)}
        BY <4>1
      <4>3. g[s \ {Max(s)}] = f[s \ {Max(s)}]
        BY <3>2, <4>2
      <4>4. g[s] = op[<<f[s \ {k + 1}], seq[k + 1]>>]
        BY <3>3
      <4> QED BY <4>1, <4>3, <4>4
    <3>4. CASE k + 1 \notin s
      <4>1. s \in SUBSET (1..k)
        BY <2>3, <3>4
      <4>2. g[s] = f[s]
        BY <3>4
      <4>3. g[s \ {Max(s)}] = f[s \ {Max(s)}]
        BY <3>2, <3>4
      <4>4. f[s] = op[<<f[s \ {Max(s)}], seq[Max(s)]>>]
        BY <2>1, <2>7, <4>1
      <4> QED BY <4>2, <4>3, <4>4
    <3> QED BY <3>3, <3>4
  <2> HIDE DEF g
  <2>8. Good(k + 1, g)
    BY <2>5, <2>6, <2>7
  <2> QED BY <2>8
<1> HIDE DEF T
<1>5. \A k \in Nat : k \in T
  BY <1>3, <1>4, NumberInduction
<1>6. PICK g : Good(n, g)
  <2>1. n \in T /\ n <= n
    BY <1>1, <1>5
  <2>2. n <= n => \E g : Good(n, g)
    BY <2>1 DEF T
  <2> QED BY <2>1, <2>2
<1>7. ASSUME NEW s \in SUBSET (1..n), s # {}
      PROVE  s \ {Max(s)} \in SUBSET (1..n) /\ Max(s) \in 1..n
  BY <1>1, <1>2, <1>7
<1> QED BY <1>1, <1>6, <1>7 DEF Unfolding

\* What a fold yields.
Fold(S, op, base, seq) == (CHOOSE h : Walk(S, op, base, seq, h))[Len(seq)]

\* A fold adds the elements one by one, and it is what the recursion behind FoldLeft yields.
LEMMA FoldFacts ==
    ASSUME NEW S, NEW A, NEW op, Combines(S, A, op), NEW base \in S
    PROVE  /\ Fold(S, op, base, <<>>) = base
           /\ \A seq \in Seq(A) :
                 /\ Fold(S, op, base, seq) \in S
                 /\ \A x \in A : Fold(S, op, base, Append(seq, x))
                                    = op[<<Fold(S, op, base, seq), x>>]
                 /\ \A g : Unfolds(S, op, base, seq, g) =>
                              g[DOMAIN seq] = Fold(S, op, base, seq)
<1> DEFINE W(seq) == CHOOSE h : Walk(S, op, base, seq, h)
<1>1. ASSUME NEW seq \in Seq(A)
      PROVE  Walk(S, op, base, seq, W(seq)) /\ Fold(S, op, base, seq) = W(seq)[Len(seq)]
  <2>1. \E h : Walk(S, op, base, seq, h)
    BY WalkExists
  <2> QED BY <2>1 DEF Fold
<1> HIDE DEF W
<1>2. ASSUME NEW seq \in Seq(A) PROVE Fold(S, op, base, seq) \in S
  BY <1>1 DEF Walk
<1>3. Fold(S, op, base, <<>>) = base
  <2>1. <<>> \in Seq(A) /\ Len(<<>>) = 0
    OBVIOUS
  <2> QED BY <1>1, <2>1 DEF Walk
<1>4. ASSUME NEW seq \in Seq(A), NEW x \in A
      PROVE  Fold(S, op, base, Append(seq, x)) = op[<<Fold(S, op, base, seq), x>>]
  <2> DEFINE longer == Append(seq, x)
             n == Len(seq)
  <2>1. /\ longer \in Seq(A) /\ Len(longer) = n + 1 /\ n \in Nat /\ longer[n + 1] = x
        /\ \A k \in 1..n : seq[k] = longer[k]
    OBVIOUS
  <2>2. Walk(S, op, base, seq, W(seq)) /\ Walk(S, op, base, longer, W(longer))
    BY <1>1, <2>1
  <2> HIDE DEF longer
  <2>3. \A k \in 0..n : W(seq)[k] = W(longer)[k]
    <3> HIDE DEF n
    <3>1. n = Len(seq) /\ n <= Len(seq) /\ n <= Len(longer)
      BY <2>1 DEF n
    <3> DEFINE h == W(seq)
               i == W(longer)
    <3> HIDE DEF h, i
    <3>2. Walk(S, op, base, seq, h) /\ Walk(S, op, base, longer, i)
      BY <2>2 DEF h, i
    <3>3. \A k \in 0..n : h[k] = i[k]
      <4>1. \A f, g : Walk(S, op, base, seq, f) /\ Walk(S, op, base, longer, g) =>
                  \A k \in 0..n : f[k] = g[k]
        BY <2>1, <3>1, WalkUnique
      <4> QED BY <3>2, <4>1
    <3> QED BY <3>3 DEF h, i
  <2>4. W(longer)[n + 1] = op[<<W(longer)[n], x>>]
    <3>1. n + 1 \in 1..Len(longer) /\ (n + 1) - 1 = n
      BY <2>1
    <3> QED BY <2>1, <2>2, <3>1 DEF Walk
  <2>5. Fold(S, op, base, longer) = W(longer)[n + 1] /\ Fold(S, op, base, seq) = W(seq)[n]
    BY <1>1, <2>1
  <2>6. W(seq)[n] = W(longer)[n]
    BY <2>1, <2>3
  <2> QED BY <2>4, <2>5, <2>6 DEF longer
<1>5. ASSUME NEW seq \in Seq(A), NEW g, Unfolds(S, op, base, seq, g)
      PROVE  g[DOMAIN seq] = Fold(S, op, base, seq)
  <2> DEFINE h == W(seq)
  <2>1. Walk(S, op, base, seq, h) /\ Fold(S, op, base, seq) = h[Len(seq)]
    BY <1>1
  <2> HIDE DEF h
  <2>2. \A i : Walk(S, op, base, seq, i) => g[DOMAIN seq] = i[Len(seq)]
    BY <1>5, UnfoldsWalk
  <2> QED BY <2>1, <2>2
<1> QED BY <1>2, <1>3, <1>4, <1>5

\* Appending to a concatenation.
LEMMA ConcatAppend ==
    ASSUME NEW S, NEW s \in Seq(S), NEW t \in Seq(S), NEW x \in S
    PROVE  s \o Append(t, x) = Append(s \o t, x)
<1> DEFINE left == s \o Append(t, x)
           right == Append(s \o t, x)
<1>1. left \in Seq(S) /\ right \in Seq(S) /\ Len(left) = Len(right)
  OBVIOUS
<1>2. ASSUME NEW k \in 1..Len(left) PROVE left[k] = right[k]
  OBVIOUS
<1> HIDE DEF left, right
<1>3. left = right
  BY <1>1, <1>2, SeqEqual
<1> QED BY <1>3 DEF left, right

\* The least element of a set of numbers.
LEMMA SmallestElement ==
    ASSUME NEW s \in SUBSET Nat, s # {}
    PROVE  Min(s) \in s /\ \A y \in s : Min(s) <= y
<1>1. \E m \in s : \A y \in s : m <= y
  BY LeastElement
<1> QED BY <1>1 DEF Min

\* Putting one element in front.
LEMMA InFront ==
    ASSUME NEW S, NEW x \in S, NEW seq \in Seq(S)
    PROVE  /\ Len(<<x>> \o seq) = Len(seq) + 1 /\ (<<x>> \o seq)[1] = x
           /\ \A k \in 1..Len(seq) : (<<x>> \o seq)[k + 1] = seq[k]
<1> DEFINE one == <<x>>
<1>1. one \in Seq(S) /\ Len(one) = 1 /\ one[1] = x /\ Len(seq) \in Nat
  OBVIOUS
<1> HIDE DEF one
<1>2. /\ Len(one \o seq) = 1 + Len(seq)
      /\ \A k \in 1..(1 + Len(seq)) : (one \o seq)[k] = IF k <= 1 THEN one[k] ELSE seq[k - 1]
  <2>1. /\ Len(one \o seq) = Len(one) + Len(seq)
        /\ \A k \in 1..(Len(one) + Len(seq)) :
              (one \o seq)[k] = IF k <= Len(one) THEN one[k] ELSE seq[k - Len(one)]
    BY <1>1, ConcatProperties
  <2> QED BY <1>1, <2>1
<1>3. ASSUME NEW k \in 1..Len(seq) PROVE (one \o seq)[k + 1] = seq[k]
  <2>1. k + 1 \in 1..(1 + Len(seq)) /\ ~(k + 1 <= 1) /\ (k + 1) - 1 = k
    BY <1>1
  <2> QED BY <1>2, <2>1
<1>4. (one \o seq)[1] = x /\ Len(one \o seq) = Len(seq) + 1
  BY <1>1, <1>2
<1> QED BY <1>3, <1>4 DEF one

=============================================================================
