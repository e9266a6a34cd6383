---------------------------- MODULE SequenceFacts ----------------------------
(***************************************************************************)
(* Facts the proofs share: least and greatest numbers of a set, products,  *)
(* and what FlattenSeq of the community modules concatenates.              *)
(***************************************************************************)
EXTENDS Integers, SequencesExt, SequenceTheorems, WellFoundedInduction, TLAPS

\* A non-empty set of natural numbers has a least element.
LEMMA NatMin == ASSUME NEW T, T \subseteq Nat, T # {} PROVE \E x \in T : \A y \in T : x <= y
  <1> DEFINE R == OpToRel(<, Nat)
  <1>1. IsWellFoundedOn(R, Nat)
    BY NatLessThanWellFounded
  <1>2. \A x, y \in Nat : y < x => <<y, x>> \in R
    BY DEF OpToRel
  <1> HIDE DEF R
  <1>3. PICK x \in T : \A y \in T : ~(<<y, x>> \in R)
    BY <1>1, WFMin
  <1>4. ASSUME NEW y \in T PROVE x <= y
    <2>1. x \in Nat /\ y \in Nat
      OBVIOUS
    <2>2. ~(y < x)
      BY <1>2, <1>3, <2>1
    <2> QED BY <2>1, <2>2
  <1> QED BY <1>4

\* ... and a greatest one, when it is bounded.
LEMMA NatMax ==
  ASSUME NEW T, T \subseteq Nat, T # {}, NEW n \in Nat, \A x \in T : x <= n
  PROVE  \E x \in T : \A y \in T : y <= x
  <1> DEFINE D == {n - y : y \in T}
  <1>1. D \subseteq Nat /\ D # {}
    <2>1. ASSUME NEW x \in T PROVE n - x \in Nat
      <3>1. x \in Nat /\ x <= n
        OBVIOUS
      <3> QED BY <3>1
    <2>2. D # {}
      <3>1. PICK x : x \in T
        OBVIOUS
      <3> QED BY <3>1
    <2> QED BY <2>1, <2>2
  <1>2. PICK d \in D : \A e \in D : d <= e
    <2> HIDE DEF D
    <2> QED BY <1>1, NatMin
  <1>3. PICK x \in T : d = n - x
    BY <1>2
  <1>4. ASSUME NEW y \in T PROVE y <= x
    <2>1. x \in Nat /\ y \in Nat /\ x <= n /\ y <= n
      OBVIOUS
    <2>2. n - y \in D
      OBVIOUS
    <2>3. n - x <= n - y
      BY <1>2, <1>3, <2>2
    <2> QED BY <2>1, <2>3
  <1> QED BY <1>4

LEMMA Product ==
  ASSUME NEW a \in Nat, NEW b \in Nat, NEW c \in Nat, NEW d \in Nat, a <= b, c <= d
  PROVE  a * c <= b * d /\ a * c \in Nat /\ b * d \in Nat
  <1>1. PICK e \in Nat : b = a + e
    <2>1. b - a \in Nat /\ b = a + (b - a)
      OBVIOUS
    <2> QED BY <2>1
  <1>2. PICK f \in Nat : d = c + f
    <2>1. d - c \in Nat /\ d = c + (d - c)
      OBVIOUS
    <2> QED BY <2>1
  <1>3. b * d = a * c + a * f + e * c + e * f
    BY <1>1, <1>2
  <1>4. a * c \in Nat /\ a * f \in Nat /\ e * c \in Nat /\ e * f \in Nat
    OBVIOUS
  <1> QED BY <1>3, <1>4

-----------------------------------------------------------------------------
\* FlattenSeq of the community modules, by the function it chooses.

Joins(h, q, n) == h = [i \in 1..n |-> IF i = 1 THEN q[i] ELSE h[i - 1] \o q[i]]

LEMMA JoinsFacts ==
  ASSUME NEW h, NEW q, NEW n \in Nat, Joins(h, q, n)
  PROVE  \A i \in 1..n : h[i] = IF i = 1 THEN q[i] ELSE h[i - 1] \o q[i]
  <1> DEFINE g == [i \in 1..n |-> IF i = 1 THEN q[i] ELSE h[i - 1] \o q[i]]
  <1>1. h = g
    BY DEF Joins
  <1>2. \A i \in 1..n : g[i] = IF i = 1 THEN q[i] ELSE h[i - 1] \o q[i]
    OBVIOUS
  <1> HIDE DEF g
  <1> QED BY <1>1, <1>2

LEMMA JoinsExists == ASSUME NEW q, NEW n \in Nat PROVE \E h : Joins(h, q, n)
  <1> DEFINE T == {m \in Nat : ~\E h : Joins(h, q, m)}
  <1>1. ASSUME T # {} PROVE FALSE
    <2>1. PICK m \in T : \A y \in T : m <= y
      <3>1. T \subseteq Nat
        OBVIOUS
      <3> HIDE DEF T
      <3> QED BY <1>1, <3>1, NatMin
    <2>2. m \in Nat /\ ~\E h : Joins(h, q, m)
      OBVIOUS
    <2>3. CASE m = 0
      <3> DEFINE e == [i \in 1..0 |-> q[i]]
      <3>1. e = [i \in 1..0 |-> IF i = 1 THEN q[i] ELSE e[i - 1] \o q[i]]
        <4>1. 1..0 = {}
          OBVIOUS
        <4> QED BY <4>1
      <3> QED BY <2>2, <2>3, <3>1 DEF Joins
    <2>4. CASE m # 0
      <3>1. m - 1 \in Nat /\ ~(m <= m - 1)
        BY <2>2, <2>4
      <3>2. m - 1 \notin T
        BY <2>1, <3>1
      <3>3. PICK h : Joins(h, q, m - 1)
        BY <3>1, <3>2
      <3>4. \A i \in 1..m - 1 : h[i] = IF i = 1 THEN q[i] ELSE h[i - 1] \o q[i]
        BY <3>1, <3>3, JoinsFacts
      <3> DEFINE last == IF m = 1 THEN q[m] ELSE h[m - 1] \o q[m]
                 g == [i \in 1..m |-> IF i = m THEN last ELSE h[i]]
      <3>5. \A i \in 1..m : i # m => i \in 1..m - 1
        BY <2>2
      <3>6. ASSUME NEW i \in 1..m PROVE g[i] = IF i = 1 THEN q[i] ELSE g[i - 1] \o q[i]
        <4>1. CASE i = m
          <5>1. m # 1 => m - 1 \in 1..m /\ m - 1 # m
            BY <2>2, <2>4
          <5> QED BY <4>1, <5>1
        <4>2. CASE i # m
          <5>1. i \in 1..m - 1 /\ g[i] = h[i]
            BY <3>5, <4>2
          <5>2. i # 1 => i - 1 \in 1..m /\ i - 1 # m
            BY <5>1, <2>2
          <5>3. i # 1 => g[i - 1] = h[i - 1]
            BY <5>2
          <5> HIDE DEF g
          <5> QED BY <3>4, <5>1, <5>3
        <4> QED BY <4>1, <4>2
      <3>7. g = [i \in 1..m |-> IF i = 1 THEN q[i] ELSE g[i - 1] \o q[i]]
        <4>1. g = [i \in 1..m |-> g[i]]
          OBVIOUS
        <4> HIDE DEF g
        <4> QED BY <3>6, <4>1
      <3> HIDE DEF g
      <3> QED BY <2>2, <3>7 DEF Joins
    <2> QED BY <2>3, <2>4
  <1> QED BY <1>1

\* Where two sequences agree, so do their joins.
Agree(q, r, m) == \A i \in 1..m : q[i] = r[i]
LEMMA JoinsAgree ==
  ASSUME NEW q, NEW r, NEW m \in Nat, NEW n \in Nat, m <= n, Agree(q, r, m),
         NEW h, NEW g, Joins(h, q, m), Joins(g, r, n)
  PROVE  Agree(h, g, m)
  <1> DEFINE T == {i \in 1..m : h[i] # g[i]}
  <1>1. ASSUME T # {} PROVE FALSE
    <2>1. PICK i \in T : \A y \in T : i <= y
      <3>1. T \subseteq Nat
        OBVIOUS
      <3> HIDE DEF T
      <3> QED BY <1>1, <3>1, NatMin
    <2>2. i \in 1..m /\ h[i] # g[i] /\ i \in 1..m /\ i \in 1..n
      OBVIOUS
    <2>3. h[i] = IF i = 1 THEN q[i] ELSE h[i - 1] \o q[i]
      BY <2>2, JoinsFacts
    <2>4. g[i] = IF i = 1 THEN r[i] ELSE g[i - 1] \o r[i]
      BY <2>2, JoinsFacts
    <2>5. i # 1 => h[i - 1] = g[i - 1]
      <3>1. i # 1 => i - 1 \in 1..m /\ ~(i <= i - 1)
        BY <2>2
      <3> QED BY <2>1, <3>1
    <2>6. q[i] = r[i]
      BY <2>2 DEF Agree
    <2> HIDE DEF T
    <2> QED BY <2>2, <2>3, <2>4, <2>5, <2>6
  <1> QED BY <1>1 DEF Agree

LEMMA FlattenJoins ==
  ASSUME NEW q, Len(q) \in Nat, Len(q) # 0
  PROVE  \E g : Joins(g, q, Len(q)) /\ FlattenSeq(q) = g[Len(q)]
  <1>1. \E g : FlattenSeq(q) = g[Len(q)] /\ g = CHOOSE h : Joins(h, q, Len(q))
    BY DEF FlattenSeq, Joins
  <1>2. \E h : Joins(h, q, Len(q))
    BY JoinsExists
  <1>3. Joins(CHOOSE h : Joins(h, q, Len(q)), q, Len(q))
    BY <1>2
  <1> QED BY <1>1, <1>3

LEMMA FlattenNothing == FlattenSeq(<<>>) = <<>>
  BY DEF FlattenSeq

\* Appending an element appends it to the concatenation.
LEMMA FlattenAppend ==
  ASSUME NEW S, NEW q \in Seq(Seq(S)), NEW e \in Seq(S)
  PROVE  FlattenSeq(Append(q, e)) = FlattenSeq(q) \o e
  <1> DEFINE r == Append(q, e)
             n == Len(q)
  <1>1. n \in Nat /\ Len(r) = n + 1 /\ r[n + 1] = e /\ \A i \in 1..n : q[i] = r[i]
    OBVIOUS
  <1> HIDE DEF r
  <1>2. PICK g : Joins(g, r, n + 1) /\ FlattenSeq(r) = g[n + 1]
    BY <1>1, FlattenJoins
  <1>3. g[n + 1] = IF n + 1 = 1 THEN e ELSE g[n] \o e
    <2>1. n + 1 \in 1..n + 1 /\ n + 1 \in Nat /\ (n + 1) - 1 = n
      BY <1>1
    <2>2. g[n + 1] = IF n + 1 = 1 THEN r[n + 1] ELSE g[(n + 1) - 1] \o r[n + 1]
      BY <1>2, <2>1, JoinsFacts
    <2> QED BY <1>1, <2>1, <2>2
  <1>4. CASE n = 0
    <2>1. q = <<>> /\ FlattenSeq(q) = <<>>
      <3>1. q = <<>>
        BY <1>4
      <3> QED BY <3>1, FlattenNothing
    <2>2. <<>> \o e = e
      OBVIOUS
    <2> QED BY <1>2, <1>3, <1>4, <2>1, <2>2 DEF r
  <1>5. CASE n # 0
    <2>1. PICK h : Joins(h, q, n) /\ FlattenSeq(q) = h[n]
      BY <1>1, <1>5, FlattenJoins
    <2>2. n <= n + 1 /\ n + 1 \in Nat /\ n <= n /\ n \in 1..n
      BY <1>1, <1>5
    <2>3. \A i \in 1..n : h[i] = g[i]
      <3>1. PICK l \in Nat : l = n + 1
        BY <2>2
      <3>2. n <= l /\ Joins(g, r, l) /\ Agree(q, r, n)
        BY <1>1, <1>2, <3>1 DEF Agree
      <3> HIDE DEF n
      <3>3. Agree(h, g, n)
        BY <1>1, <2>1, <3>2, JoinsAgree
      <3> QED BY <3>3 DEF Agree
    <2>4. h[n] = g[n] /\ n + 1 # 1
      BY <1>1, <1>5, <2>2, <2>3
    <2>5. g[n + 1] = h[n] \o e
      BY <1>3, <2>4
    <2> QED BY <1>2, <2>1, <2>5 DEF r
  <1> QED BY <1>4, <1>5

LEMMA FlattenType ==
  ASSUME NEW S, NEW q \in Seq(Seq(S))
  PROVE  FlattenSeq(q) \in Seq(S)
  <1>1. CASE q = <<>>
    <2>1. FlattenSeq(q) = <<>> /\ <<>> \in Seq(S)
      BY <1>1, FlattenNothing
    <2> QED BY <2>1
  <1>2. CASE q # <<>>
    <2>1. Len(q) \in Nat /\ Len(q) # 0 /\ \A i \in 1..Len(q) : q[i] \in Seq(S)
      BY <1>2
    <2>2. PICK g : Joins(g, q, Len(q)) /\ FlattenSeq(q) = g[Len(q)]
      BY <2>1, FlattenJoins
    <2> DEFINE T == {i \in 1..Len(q) : g[i] \notin Seq(S)}
    <2>3. ASSUME T # {} PROVE FALSE
      <3>1. PICK i \in T : \A y \in T : i <= y
        <4>1. T \subseteq Nat
          OBVIOUS
        <4> HIDE DEF T
        <4> QED BY <2>3, <4>1, NatMin
      <3>2. i \in 1..Len(q) /\ g[i] \notin Seq(S)
        OBVIOUS
      <3>3. g[i] = IF i = 1 THEN q[i] ELSE g[i - 1] \o q[i]
        BY <2>1, <2>2, <3>2, JoinsFacts
      <3>4. i # 1 => g[i - 1] \in Seq(S)
        <4>1. i # 1 => i - 1 \in 1..Len(q) /\ ~(i <= i - 1)
          BY <2>1, <3>2
        <4> QED BY <3>1, <4>1
      <3> QED BY <2>1, <3>2, <3>3, <3>4
    <2>4. Len(q) \in 1..Len(q)
      BY <2>1
    <2> QED BY <2>2, <2>3, <2>4
  <1> QED BY <1>1, <1>2

LEMMA FlattenTwo ==
  ASSUME NEW S, NEW a \in Seq(S), NEW b \in Seq(S)
  PROVE  FlattenSeq(<<a, b>>) = a \o b
  <1>1. /\ <<>> \in Seq(Seq(S)) /\ <<a>> \in Seq(Seq(S))
        /\ Append(<<>>, a) = <<a>> /\ Append(<<a>>, b) = <<a, b>>
    <2>1. <<>> \in Seq(Seq(S)) /\ <<a>> \in Seq(Seq(S))
      OBVIOUS
    <2>2. Append(<<>>, a) = <<a>>
      OBVIOUS
    <2>3. Append(<<a>>, b) = <<a, b>>
      <3>1. <<a>> \in Seq(Seq(S)) /\ <<a, b>> \in Seq(Seq(S))
        OBVIOUS
      <3>2. Append(<<a>>, b) \in Seq(Seq(S)) /\ Len(Append(<<a>>, b)) = 2
        OBVIOUS
      <3>3. Append(<<a>>, b)[1] = a /\ Append(<<a>>, b)[2] = b
        OBVIOUS
      <3>4. Len(<<a, b>>) = 2 /\ <<a, b>>[1] = a /\ <<a, b>>[2] = b
        OBVIOUS
      <3>5. \A i \in 1..2 : Append(<<a>>, b)[i] = <<a, b>>[i]
        BY <3>3, <3>4
      <3> QED BY <3>1, <3>2, <3>4, <3>5, SeqEqual
    <2> QED BY <2>1, <2>2, <2>3
  <1>2. FlattenSeq(<<a>>) = <<>> \o a
    BY <1>1, FlattenNothing, FlattenAppend
  <1>3. FlattenSeq(<<a, b>>) = FlattenSeq(<<a>>) \o b
    BY <1>1, FlattenAppend
  <1>4. <<>> \o a = a
    OBVIOUS
  <1> QED BY <1>2, <1>3, <1>4

\* What a concatenation is made of.
LEMMA Joined ==
  ASSUME NEW S, NEW q \in Seq(S), NEW r \in Seq(S)
  PROVE  /\ q \o r \in Seq(S) /\ Len(q \o r) = Len(q) + Len(r) /\ Len(q) \in Nat /\ Len(r) \in Nat
         /\ \A i \in 1..Len(q) : (q \o r)[i] = q[i]
         /\ \A i \in 1..Len(r) : (q \o r)[Len(q) + i] = r[i]
  BY ConcatProperties

\* A sequence that is not empty is another with its last element appended.
LEMMA SplitLast ==
  ASSUME NEW S, NEW q \in Seq(S), q # <<>>
  PROVE  \E p \in Seq(S), e \in S : q = Append(p, e) /\ Len(q) = Len(p) + 1 /\ e = q[Len(q)]
  <1>1. Len(q) \in Nat /\ Len(q) # 0 /\ \A i \in 1..Len(q) : q[i] \in S
    OBVIOUS
  <1>2. PICK n \in Nat : Len(q) = n + 1
    <2>1. Len(q) - 1 \in Nat /\ Len(q) = (Len(q) - 1) + 1
      BY <1>1
    <2> QED BY <2>1
  <1> DEFINE p == [i \in 1..n |-> q[i]]
  <1>3. p \in Seq(S) /\ Len(p) = n /\ \A i \in 1..n : p[i] = q[i]
    BY <1>1, <1>2
  <1>4. q[n + 1] \in S
    BY <1>1, <1>2
  <1> HIDE DEF p
  <1>5. /\ Append(p, q[n + 1]) \in Seq(S) /\ Len(Append(p, q[n + 1])) = n + 1
        /\ Append(p, q[n + 1])[n + 1] = q[n + 1] /\ \A i \in 1..n : Append(p, q[n + 1])[i] = p[i]
    BY <1>3, <1>4
  <1>6. \A i \in 1..Len(q) : q[i] = Append(p, q[n + 1])[i]
    <2>1. \A i \in 1..n + 1 : i \in 1..n \/ i = n + 1
      OBVIOUS
    <2> QED BY <1>2, <1>3, <1>5, <2>1
  <1>7. q = Append(p, q[n + 1])
    BY <1>2, <1>5, <1>6, SeqEqual
  <1> QED BY <1>2, <1>3, <1>4, <1>7

LEMMA ConcatAppend ==
  ASSUME NEW S, NEW q \in Seq(S), NEW p \in Seq(S), NEW e \in S
  PROVE  q \o Append(p, e) = Append(q \o p, e) /\ q \o p \in Seq(S)
  OBVIOUS

LEMMA FlattenConcatStep ==
  ASSUME NEW S, NEW q \in Seq(Seq(S)), NEW p \in Seq(Seq(S)), NEW e \in Seq(S),
         FlattenSeq(q \o p) = FlattenSeq(q) \o FlattenSeq(p)
  PROVE  FlattenSeq(q \o Append(p, e)) = FlattenSeq(q) \o FlattenSeq(Append(p, e))
  <1>1. q \o Append(p, e) = Append(q \o p, e) /\ q \o p \in Seq(Seq(S))
    BY ConcatAppend
  <1>2. FlattenSeq(q \o Append(p, e)) = FlattenSeq(q \o p) \o e /\ FlattenSeq(Append(p, e)) = FlattenSeq(p) \o e
    BY <1>1, FlattenAppend
  <1>3. FlattenSeq(q) \in Seq(S) /\ FlattenSeq(p) \in Seq(S)
    BY FlattenType
  <1>4. (FlattenSeq(q) \o FlattenSeq(p)) \o e = FlattenSeq(q) \o (FlattenSeq(p) \o e)
    BY <1>3, ConcatAssociative
  <1> QED BY <1>2, <1>4

\* Concatenating two sequences concatenates what they concatenate to.
LEMMA FlattenConcat ==
  ASSUME NEW S, NEW q \in Seq(Seq(S)), NEW r \in Seq(Seq(S))
  PROVE  FlattenSeq(q \o r) = FlattenSeq(q) \o FlattenSeq(r)
  <1> DEFINE Differs(s) == FlattenSeq(q \o s) # FlattenSeq(q) \o FlattenSeq(s)
             T == {n \in Nat : \E s \in Seq(Seq(S)) : Len(s) = n /\ Differs(s)}
  <1>1. FlattenSeq(q) \in Seq(S)
    BY FlattenType
  <1>2. ASSUME T # {} PROVE FALSE
    <2>1. PICK n \in T : \A y \in T : n <= y
      <3>1. T \subseteq Nat
        OBVIOUS
      <3> HIDE DEF T
      <3> QED BY <1>2, <3>1, NatMin
    <2>2. PICK s \in Seq(Seq(S)) : Len(s) = n /\ Differs(s)
      OBVIOUS
    <2>3. s # <<>>
      <3>1. q \o <<>> = q /\ FlattenSeq(q) \o <<>> = FlattenSeq(q)
        BY <1>1
      <3> QED BY <2>2, <3>1, FlattenNothing
    <2>4. PICK p \in Seq(Seq(S)), e \in Seq(S) : s = Append(p, e) /\ Len(s) = Len(p) + 1
      BY <2>3, SplitLast
    <2>5. Len(p) \in Nat /\ ~(n <= Len(p))
      BY <2>2, <2>4
    <2>6. ~Differs(p)
      BY <2>1, <2>5
    <2>7. ~Differs(Append(p, e))
      BY <2>4, <2>6, FlattenConcatStep
    <2> QED BY <2>2, <2>4, <2>7
  <1>3. Len(r) \in Nat
    OBVIOUS
  <1> QED BY <1>2, <1>3

\* If one element at most is not empty, the concatenation is that element.
LEMMA FlattenOnly ==
  ASSUME NEW S, NEW q \in Seq(Seq(S)), NEW k \in 1..Len(q), \A i \in 1..Len(q) : i # k => q[i] = <<>>
  PROVE  FlattenSeq(q) = q[k]
  <1>1. Len(q) \in Nat /\ Len(q) # 0 /\ k \in Nat /\ q[k] \in Seq(S)
    OBVIOUS
  <1>2. PICK g : Joins(g, q, Len(q)) /\ FlattenSeq(q) = g[Len(q)]
    BY <1>1, FlattenJoins
  <1>3. \A i \in 1..Len(q) : g[i] = IF i = 1 THEN q[i] ELSE g[i - 1] \o q[i]
    BY <1>1, <1>2, JoinsFacts
  <1> DEFINE T == {i \in 1..Len(q) : g[i] # IF i < k THEN <<>> ELSE q[k]}
  <1>4. ASSUME T # {} PROVE FALSE
    <2>1. PICK i \in T : \A y \in T : i <= y
      <3>1. T \subseteq Nat
        OBVIOUS
      <3> HIDE DEF T
      <3> QED BY <1>4, <3>1, NatMin
    <2>2. i \in 1..Len(q) /\ g[i] # IF i < k THEN <<>> ELSE q[k]
      OBVIOUS
    <2>3. i # 1 => i - 1 \in 1..Len(q) /\ ~(i <= i - 1)
      BY <1>1, <2>2
    <2>4. i # 1 => g[i - 1] = IF i - 1 < k THEN <<>> ELSE q[k]
      BY <2>1, <2>3
    <2>5. <<>> \o <<>> = <<>> /\ q[k] \o <<>> = q[k] /\ <<>> \o q[k] = q[k]
      <3>1. \A s \in Seq(S) : <<>> \o s = s /\ s \o <<>> = s
        OBVIOUS
      <3>2. <<>> \in Seq(S)
        OBVIOUS
      <3> QED BY <1>1, <3>1, <3>2
    <2> HIDE DEF T
    <2>6. CASE i < k
      <3>1. q[i] = <<>> /\ (i # 1 => i - 1 < k)
        BY <1>1, <2>2, <2>6
      <3> QED BY <1>3, <2>2, <2>4, <2>5, <2>6, <3>1
    <2>7. CASE i = k
      <3>1. ~(i < k) /\ (i # 1 => i - 1 < k)
        BY <1>1, <2>7
      <3> QED BY <1>3, <2>2, <2>4, <2>5, <2>7, <3>1
    <2>8. CASE i > k
      <3>1. ~(i < k) /\ i # 1 /\ ~(i - 1 < k) /\ q[i] = <<>>
        BY <1>1, <2>2, <2>8
      <3> QED BY <1>3, <2>2, <2>4, <2>5, <3>1
    <2>9. i < k \/ i = k \/ i > k
      BY <1>1, <2>2
    <2> QED BY <2>6, <2>7, <2>8, <2>9
  <1>5. Len(q) \in 1..Len(q) /\ ~(Len(q) < k)
    BY <1>1
  <1> QED BY <1>2, <1>4, <1>5

LEMMA FlattenEmpties ==
  ASSUME NEW S, NEW q \in Seq(Seq(S)), \A i \in 1..Len(q) : q[i] = <<>>
  PROVE  FlattenSeq(q) = <<>>
  <1>1. CASE q = <<>>
    BY <1>1, FlattenNothing
  <1>2. CASE q # <<>>
    <2>1. 1 \in 1..Len(q)
      BY <1>2
    <2>2. \A i \in 1..Len(q) : i # 1 => q[i] = <<>>
      OBVIOUS
    <2>3. FlattenSeq(q) = q[1]
      BY <2>1, <2>2, FlattenOnly
    <2> QED BY <2>1, <2>3
  <1> QED BY <1>1, <1>2

\* The concatenation is made of what its parts are made of.
LEMMA FlattenMembers ==
  ASSUME NEW S, NEW q \in Seq(Seq(S)), NEW R, \A n \in 1..Len(q) : q[n] \in Seq(R)
  PROVE  FlattenSeq(q) \in Seq(R)
  <1>1. q \in Seq(Seq(R))
    OBVIOUS
  <1> QED BY <1>1, FlattenType
\* A sequence over a set is one over a larger set.
LEMMA SeqWider == ASSUME NEW A, NEW B, A \subseteq B, NEW q \in Seq(A) PROVE q \in Seq(B)
  OBVIOUS
=============================================================================
