--------------------------- MODULE SequenceLemmas ---------------------------
(***************************************************************************)
(* Facts about numbers and sequences that the proofs of several components *)
(* need.  What FlattenSeq computes is shown by induction: of a set of      *)
(* counterexamples one is least.                                           *)
(***************************************************************************)
EXTENDS SequencesExt, WellFoundedInduction, SequenceTheorems, TLAPS

\* A set of numbers that is not empty has a least.
LEMMA Least ==
  ASSUME NEW S \in SUBSET Nat, S # {}
  PROVE  \E m \in S : \A i \in S : m <= i
<1> DEFINE R == OpToRel(<, Nat)
<1>1. PICK m \in S : \A i \in S : ~(<<i, m>> \in R)
  <2> HIDE DEF R
  <2>1. IsWellFoundedOn(R, Nat)
    BY NatLessThanWellFounded DEF R
  <2> QED
    BY <2>1, WFMin
<1>2. \A i \in S : ~(i < m)
  BY <1>1 DEF OpToRel
<1> QED
  BY <1>2

\* A set of positions has a least member, which is the Min of it.
LEMMA LeastPosition ==
  ASSUME NEW n \in Nat, NEW S \in SUBSET (1 .. n), S # {}
  PROVE  Min(S) \in S /\ \A i \in S : Min(S) <= i
<1>1. \E m \in S : \A i \in S : m <= i
  BY Least
<1> QED
  BY <1>1 DEF Min

\* And it has a greatest, which is the Max of it.
LEMMA GreatestPosition ==
  ASSUME NEW n \in Nat, NEW S \in SUBSET (1 .. n), S # {}
  PROVE  Max(S) \in S /\ \A i \in S : i <= Max(S)
<1> DEFINE T == {n - i : i \in S}
<1>1. T \in SUBSET Nat /\ T # {}
  <2>1. \A i \in S : n - i \in Nat
    OBVIOUS
  <2>2. PICK i \in S : TRUE
    OBVIOUS
  <2>3. n - i \in T
    OBVIOUS
  <2> QED
    BY <2>1, <2>3
<1>2. PICK k \in T : \A j \in T : k <= j
  BY <1>1, Least
<1>3. PICK m \in S : k = n - m
  OBVIOUS
<1>4. \A i \in S : m >= i
  <2> SUFFICES ASSUME NEW i \in S PROVE m >= i
    OBVIOUS
  <2>1. n - i \in T /\ k <= n - i
    BY <1>2
  <2> QED
    BY <2>1, <1>3
<1>5. \E x \in S : \A y \in S : x >= y
  BY <1>4
<1>6. Max(S) \in S /\ \A i \in S : Max(S) >= i
  BY <1>5 DEF Max
<1> QED
  BY <1>6

-----------------------------------------------------------------------------
(* Parts of a sequence.                                                    *)

\* A prefix has the members that the sequence has.
LEMMA Prefix ==
  ASSUME NEW S, NEW s \in Seq(S), NEW k \in 0 .. Len(s)
  PROVE  /\ SubSeq(s, 1, k) \in Seq(S) /\ Len(SubSeq(s, 1, k)) = k
         /\ \A i \in 1 .. k : SubSeq(s, 1, k)[i] = s[i]
<1>1. Len(s) \in Nat /\ \A i \in 1 .. Len(s) : s[i] \in S
  BY LenProperties, ElementOfSeq
<1>2. k \in Int /\ \A i \in 1 .. k : s[i] \in S
  BY <1>1
<1> QED
  BY <1>1, <1>2, SubSeqProperties

\* A part of length one is that member.
LEMMA OneMember ==
  ASSUME NEW S, NEW s \in Seq(S), NEW m \in 1 .. Len(s)
  PROVE  SubSeq(s, m, m) = <<s[m]>>
<1>1. Len(s) \in Nat /\ m \in Int /\ m \in m .. Len(s) /\ m + 1 \in Int /\ m < m + 1
  BY LenProperties
<1>2. SubSeq(s, m, m) = <<s[m]>> \o SubSeq(s, m + 1, m)
  <2>1. m \in m .. Len(s)
    BY <1>1
  <2> QED
    BY <2>1, SubSeqRecursiveFirst
<1>3. SubSeq(s, m + 1, m) = <<>>
  BY <1>1, SubSeqEmpty
<1>4. <<s[m]>> \in Seq(S)
  BY ElementOfSeq
<1> QED
  BY <1>2, <1>3, <1>4, ConcatEmptySeq

\* A prefix that is one longer has one member more.
LEMMA PrefixGrows ==
  ASSUME NEW S, NEW s \in Seq(S), NEW k \in Nat, k < Len(s)
  PROVE  /\ SubSeq(s, 1, k) \in Seq(S) /\ Len(SubSeq(s, 1, k)) = k /\ s[k + 1] \in S
         /\ SubSeq(s, 1, k + 1) = Append(SubSeq(s, 1, k), s[k + 1])
<1>1. /\ Len(s) \in Nat /\ \A i \in 1 .. Len(s) : s[i] \in S
      /\ 1 .. k + 1 \subseteq 1 .. Len(s) /\ k + 1 \in 1 .. k + 1
  BY LenProperties, ElementOfSeq
<1>2. /\ SubSeq(s, 1, k) \in Seq(S) /\ Len(SubSeq(s, 1, k)) = k
      /\ \A i \in 1 .. k : SubSeq(s, 1, k)[i] = s[i]
  BY <1>1, SubSeqProperties
<1>3. /\ SubSeq(s, 1, k + 1) \in Seq(S) /\ Len(SubSeq(s, 1, k + 1)) = k + 1
      /\ \A i \in 1 .. k + 1 : SubSeq(s, 1, k + 1)[i] = s[i]
  BY <1>1, SubSeqProperties
<1> DEFINE a == SubSeq(s, 1, k)
           b == SubSeq(s, 1, k + 1)
           x == s[k + 1]
           c == Append(a, x)
<1>4. x \in S
  BY <1>1
<1>5. /\ c \in Seq(S) /\ Len(c) = k + 1 /\ c[k + 1] = x /\ \A i \in 1 .. k : c[i] = a[i]
  <2> HIDE DEF a, x
  <2> QED
    BY <1>2, <1>4, AppendProperties DEF a
<1> HIDE DEF a, b, c, x
<1>6. \A i \in 1 .. k + 1 : b[i] = c[i]
  BY <1>2, <1>3, <1>5 DEF a, b, x
<1>7. b = c
  BY <1>3, <1>5, <1>6, SeqEqual DEF b
<1> QED
  BY <1>2, <1>4, <1>7 DEF a, b, c, x

\* A sequence that is not empty is another one and one member more.
LEMMA LastApart ==
  ASSUME NEW S, NEW s \in Seq(S), s # <<>>
  PROVE  \E f \in Seq(S), x \in S : s = Append(f, x) /\ Len(s) = Len(f) + 1
<1> DEFINE k == Len(s) - 1
<1>1. k \in Nat /\ k < Len(s) /\ Len(s) = k + 1
  BY EmptySeq, LenProperties
<1>2. SubSeq(s, 1, Len(s)) = s
  BY SubSeqFull
<1> HIDE DEF k
<1>3. /\ SubSeq(s, 1, k) \in Seq(S) /\ Len(SubSeq(s, 1, k)) = k /\ s[k + 1] \in S
      /\ SubSeq(s, 1, k + 1) = Append(SubSeq(s, 1, k), s[k + 1])
  BY <1>1, PrefixGrows
<1>4. s = Append(SubSeq(s, 1, k), s[k + 1]) /\ Len(s) = Len(SubSeq(s, 1, k)) + 1
  BY <1>1, <1>2, <1>3
<1> QED
  BY <1>3, <1>4

-----------------------------------------------------------------------------
(* FlattenSeq.                                                             *)

\* g is what FlattenSeq computes of the first n members of s, one by one.
Flattens(g, s, n) == g = [i \in 1 .. n |-> IF i = 1 THEN s[i] ELSE g[i - 1] \o s[i]]

\* The recursion of FlattenSeq has a solution,
LEMMA FlatteningExists ==
  ASSUME NEW s, NEW n \in Nat \ {0}
  PROVE  \E g : Flattens(g, s, n)
<1> DEFINE T == {k \in Nat \ {0} : ~ \E g : Flattens(g, s, k)}
<1> SUFFICES ASSUME T # {} PROVE FALSE
  OBVIOUS
<1>1. PICK m \in T : \A k \in T : m <= k
  BY Least
<1>2. m \in Nat \ {0} /\ ~ \E g : Flattens(g, s, m)
  OBVIOUS
<1>3. CASE m = 1
  <2> DEFINE g == [i \in 1 .. 1 |-> s[i]]
  <2>1. g = [i \in 1 .. 1 |-> IF i = 1 THEN s[i] ELSE g[i - 1] \o s[i]]
    OBVIOUS
  <2> QED
    BY <1>2, <1>3, <2>1 DEF Flattens
<1>4. CASE m # 1
  <2>1. m - 1 \in Nat \ {0} /\ m - 1 \notin T
    BY <1>1, <1>2, <1>4
  <2>2. PICK g : Flattens(g, s, m - 1)
    BY <2>1
  <2> DEFINE h == [i \in 1 .. m |-> IF i = m THEN g[m - 1] \o s[m] ELSE g[i]]
  <2>3. \A i \in 1 .. m - 1 : g[i] = IF i = 1 THEN s[i] ELSE g[i - 1] \o s[i]
    BY <2>2 DEF Flattens
  <2>4. \A i \in 1 .. m : h[i] = IF i = 1 THEN s[i] ELSE h[i - 1] \o s[i]
    BY <1>2, <1>4, <2>3
  <2>5. h = [i \in 1 .. m |-> IF i = 1 THEN s[i] ELSE h[i - 1] \o s[i]]
    BY <2>4
  <2> QED
    BY <1>2, <2>5 DEF Flattens
<1> QED
  BY <1>3, <1>4

\* and two solutions agree as far as their sequences do.
LEMMA FlatteningsAgree ==
  ASSUME NEW s, NEW t, NEW n \in Nat, NEW k \in Nat, NEW g, NEW h, n <= k,
         Flattens(g, s, n), Flattens(h, t, k), \A i \in 1 .. n : s[i] = t[i],
         NEW j \in 1 .. n
  PROVE  g[j] = h[j]
<1> DEFINE T == {i \in 1 .. n : g[i] # h[i]}
<1> SUFFICES ASSUME T # {} PROVE FALSE
  OBVIOUS
<1>1. PICK m \in T : \A i \in T : m <= i
  <2>1. T \in SUBSET Nat
    OBVIOUS
  <2> HIDE DEF T
  <2> QED
    BY <2>1, Least
<1>2. m \in 1 .. n /\ m \in 1 .. k /\ g[m] # h[m]
  OBVIOUS
<1>3. g[m] = IF m = 1 THEN s[m] ELSE g[m - 1] \o s[m]
  BY <1>2 DEF Flattens
<1>4. h[m] = IF m = 1 THEN t[m] ELSE h[m - 1] \o t[m]
  BY <1>2 DEF Flattens
<1>5. m # 1 => g[m - 1] = h[m - 1]
  <2> SUFFICES ASSUME m # 1 PROVE g[m - 1] = h[m - 1]
    OBVIOUS
  <2>1. m - 1 \in 1 .. n /\ ~(m <= m - 1)
    BY <1>2
  <2> QED
    BY <1>1, <2>1
<1>6. s[m] = t[m]
  BY <1>2
<1> QED
  BY <1>2, <1>3, <1>4, <1>5, <1>6

\* What FlattenSeq takes is a solution.
LEMMA FlattenSolves ==
  ASSUME NEW s, Len(s) \in Nat \ {0}
  PROVE  \E g : Flattens(g, s, Len(s)) /\ FlattenSeq(s) = g[Len(s)]
<1> DEFINE g == CHOOSE g : g = [i \in 1 .. Len(s) |-> IF i = 1 THEN s[i] ELSE g[i - 1] \o s[i]]
<1>1. Flattens(g, s, Len(s))
  BY FlatteningExists DEF Flattens
<1>2. FlattenSeq(s) = g[Len(s)]
  BY DEF FlattenSeq
<1> QED
  BY <1>1, <1>2

\* It puts sequences of members of S together to one.
LEMMA FlattenType ==
  ASSUME NEW S, NEW s \in Seq(Seq(S))
  PROVE  FlattenSeq(s) \in Seq(S)
<1>1. Len(s) \in Nat /\ \A i \in 1 .. Len(s) : s[i] \in Seq(S)
  BY LenProperties, ElementOfSeq
<1>2. CASE Len(s) = 0
  <2>1. s = <<>>
    BY <1>2, EmptySeq
  <2>2. FlattenSeq(<<>>) = <<>>
    BY EmptySeq DEF FlattenSeq
  <2> QED
    BY <2>1, <2>2, EmptySeq
<1>3. CASE Len(s) # 0
  <2> DEFINE n == Len(s)
  <2>1. PICK g : Flattens(g, s, n) /\ FlattenSeq(s) = g[n]
    BY <1>1, <1>3, FlattenSolves
  <2> DEFINE T == {i \in 1 .. n : g[i] \notin Seq(S)}
  <2> SUFFICES ASSUME T # {} PROVE FALSE
    BY <1>1, <1>3, <2>1
  <2>2. PICK m \in T : \A i \in T : m <= i
    <3>1. T \in SUBSET Nat
      BY <1>1
    <3> HIDE DEF T
    <3> QED
      BY <3>1, Least
  <2>3. m \in 1 .. n /\ g[m] \notin Seq(S) /\ s[m] \in Seq(S)
    BY <1>1
  <2>4. g[m] = IF m = 1 THEN s[m] ELSE g[m - 1] \o s[m]
    BY <2>1, <2>3 DEF Flattens
  <2>5. m # 1 => g[m - 1] \in Seq(S)
    <3> SUFFICES ASSUME m # 1 PROVE g[m - 1] \in Seq(S)
      OBVIOUS
    <3>1. m - 1 \in 1 .. n /\ ~(m <= m - 1)
      BY <1>1, <2>3
    <3> QED
      BY <2>2, <3>1
  <2> QED
    BY <2>3, <2>4, <2>5, ConcatProperties
<1> QED
  BY <1>2, <1>3

\* One sequence more makes what FlattenSeq computes that much longer.
LEMMA FlattenStep ==
  ASSUME NEW s, NEW t, NEW n \in Nat \ {0}, NEW k \in Nat, k = n + 1,
         Len(s) = n, Len(t) = k, \A i \in 1 .. n : s[i] = t[i]
  PROVE  FlattenSeq(t) = FlattenSeq(s) \o t[k]
<1>1. PICK g : Flattens(g, s, n) /\ FlattenSeq(s) = g[n]
  BY FlattenSolves
<1>2. PICK h : Flattens(h, t, k) /\ FlattenSeq(t) = h[k]
  BY FlattenSolves
<1>3. g[n] = h[n]
  <2>1. n \in Nat /\ n \in 1 .. n /\ n <= k
    OBVIOUS
  <2> QED
    BY <1>1, <1>2, <2>1, FlatteningsAgree
<1>4. h[k] = h[n] \o t[k]
  <2>1. k \in 1 .. k /\ k # 1 /\ k - 1 = n
    OBVIOUS
  <2> QED
    BY <1>2, <2>1 DEF Flattens
<1> QED
  BY <1>1, <1>2, <1>3, <1>4

\* Of no sequence FlattenSeq makes none, and of one it makes that one.
LEMMA FlattenShort ==
  ASSUME NEW s, Len(s) = 1
  PROVE  FlattenSeq(<<>>) = <<>> /\ FlattenSeq(s) = s[1]
<1>1. FlattenSeq(<<>>) = <<>>
  BY EmptySeq DEF FlattenSeq
<1>2. PICK g : Flattens(g, s, Len(s)) /\ FlattenSeq(s) = g[Len(s)]
  <2>1. Len(s) \in Nat \ {0}
    OBVIOUS
  <2> QED
    BY <2>1, FlattenSolves
<1> QED
  BY <1>1, <1>2 DEF Flattens

\* What FlattenSeq makes of a sequence more, the first included.
LEMMA FlattenAppend ==
  ASSUME NEW S, NEW s \in Seq(Seq(S)), NEW x \in Seq(S)
  PROVE  FlattenSeq(<<>>) = <<>> /\ FlattenSeq(Append(s, x)) = FlattenSeq(s) \o x
<1> DEFINE t == Append(s, x)
           n == Len(s)
           k == n + 1
<1>1. n \in Nat /\ Len(t) = k /\ t[k] = x /\ \A i \in 1 .. n : s[i] = t[i]
  BY AppendProperties, LenProperties
<1>2. FlattenSeq(<<>>) = <<>>
  BY EmptySeq DEF FlattenSeq
<1>3. CASE n = 0
  <2>1. s = <<>> /\ <<>> \o x = x
    BY <1>3, EmptySeq, ConcatEmptySeq
  <2>2. k = 1
    BY <1>3
  <2> HIDE DEF t
  <2>3. FlattenSeq(t) = x
    BY <1>1, <2>2, FlattenShort
  <2> QED
    BY <1>2, <2>1, <2>3 DEF t
<1>4. CASE n # 0
  <2>1. n \in Nat \ {0} /\ k \in Nat /\ k = n + 1
    BY <1>1, <1>4
  <2> HIDE DEF t, k
  <2>2. FlattenSeq(t) = FlattenSeq(s) \o t[k]
    BY <1>1, <2>1, FlattenStep
  <2> QED
    BY <1>1, <1>2, <2>2 DEF t
<1> QED
  BY <1>3, <1>4
=============================================================================
