--------------------------- MODULE PadMergeProofs ---------------------------
(***************************************************************************)
(* What the merge of the sketchpad keeps, for pads of any length: every    *)
(* line of it is a line of one of the two copies, and what either device   *)
(* wrote, or both still have, is in it.  So the pads that devices sync     *)
(* with it keep their blocks until a user takes them out.                  *)
(***************************************************************************)
EXTENDS MCPadMerge, SequenceTheorems, WellFoundedInduction, FiniteSetTheorems, TLAPS
-----------------------------------------------------------------------------
(* Naturals, and what is computed step by step *)

\* A non-empty set of naturals has a least element.
LEMMA Least ==
    ASSUME NEW T, T \subseteq Nat, T # {}
    PROVE  \E n \in T : \A m \in T : n <= m
<1> DEFINE R == OpToRel(LAMBDA i, j : i < j, Nat)
<1>1. \A i \in Nat : \A j \in Nat : <<j, i>> \in R <=> j < i
  BY DEF OpToRel
<1>2. IsWellFoundedOn(R, Nat)
  BY NatLessThanWellFounded
<1> HIDE DEF R
<1>3. PICK n \in T : \A m \in T : ~ (<<m, n>> \in R)
  BY <1>2, WFMin
<1>4. ASSUME NEW m \in T PROVE n <= m
  <2>1. m \in Nat /\ n \in Nat
    OBVIOUS
  <2>2. ~ (<<m, n>> \in R)
    BY <1>3
  <2>3. ~ (m < n)
    BY <1>1, <2>1, <2>2
  <2> QED BY <2>1, <2>3
<1> QED BY <1>4

\* A set of naturals that has zero and with each of its elements the next one has all.
LEMMA AllOf ==
    ASSUME NEW T, 0 \in T, \A n \in Nat : n \in T => n + 1 \in T
    PROVE  Nat \subseteq T
<1> SUFFICES ASSUME Nat \ T # {} PROVE FALSE
  OBVIOUS
<1>1. PICK n \in Nat \ T : \A m \in Nat \ T : n <= m
  BY Least
<1>2. n # 0 /\ n - 1 \in Nat
  OBVIOUS
<1>3. n - 1 \in T
  BY <1>1, <1>2
<1> QED BY <1>2, <1>3

\* What holds at the start of a walk of n steps and is kept by each of them.
LEMMA Walks ==
    ASSUME NEW n \in Nat, NEW f, NEW good, f[0] \in good[0],
           \A k \in 1..n : f[k - 1] \in good[k - 1] => f[k] \in good[k]
    PROVE  \A k \in 0..n : f[k] \in good[k]
<1> DEFINE T == {k \in Nat : k <= n => f[k] \in good[k]}
<1>1. 0 \in T
  OBVIOUS
<1>2. ASSUME NEW k \in Nat, k \in T PROVE k + 1 \in T
  <2>1. CASE k + 1 <= n
    <3>1. k + 1 \in 1..n /\ (k + 1) - 1 = k /\ k <= n
      BY <2>1
    <3> QED BY <1>2, <3>1
  <2> QED BY <2>1
<1> HIDE DEF T
<1>3. Nat \subseteq T
  BY <1>1, <1>2, AllOf
<1> QED BY <1>3 DEF T

\* A row of n steps from x.
Row(g, x, st, n) == g = [k \in 0..n |-> IF k = 0 THEN x ELSE st[<<g[k - 1], k>>]]

LEMMA RowExists ==
    ASSUME NEW x, NEW st
    PROVE  \A n \in Nat : \E g : Row(g, x, st, n)
<1> DEFINE T == {n \in Nat : \E g : Row(g, x, st, n)}
           Then(r, k) == st[<<r, k>>]
<1>1. 0 \in T
  <2> DEFINE g == [k \in 0..0 |-> x]
  <2>1. g = [k \in 0..0 |-> IF k = 0 THEN x ELSE Then(g[k - 1], k)]
    <3> HIDE DEF Then
    <3> QED OBVIOUS
  <2>2. Row(g, x, st, 0)
    <3> HIDE DEF g
    <3> QED BY <2>1 DEF Row
  <2> HIDE DEF g
  <2> QED BY <2>2
<1>2. ASSUME NEW n \in Nat, n \in T PROVE n + 1 \in T
  <2>1. PICK g : Row(g, x, st, n)
    BY <1>2
  <2>2. g[0] = x /\ \A k \in 1..n : g[k] = Then(g[k - 1], k)
    BY <2>1 DEF Row
  <2> DEFINE h == [k \in 0..(n + 1) |-> IF k <= n THEN g[k] ELSE Then(g[n], n + 1)]
             F(k) == IF k = 0 THEN x ELSE Then(h[k - 1], k)
  <2>3. ASSUME NEW k \in 0..(n + 1) PROVE h[k] = F(k)
    <3> HIDE DEF Then
    <3>1. CASE k = 0
      BY <2>2, <3>1
    <3>2. CASE k \in 1..n
      <4>1. k - 1 \in 0..n /\ h[k - 1] = g[k - 1] /\ h[k] = g[k]
        BY <3>2
      <4>2. g[k] = Then(g[k - 1], k)
        BY <2>2, <3>2
      <4> QED BY <3>2, <4>1, <4>2
    <3>3. CASE k = n + 1
      <4>1. h[n] = g[n] /\ h[k] = Then(g[n], n + 1)
        BY <3>3
      <4> QED BY <3>3, <4>1
    <3> QED BY <3>1, <3>2, <3>3
  <2>4. h = [k \in 0..(n + 1) |-> h[k]]
    <3> HIDE DEF Then
    <3> QED OBVIOUS
  <2>5. h = [k \in 0..(n + 1) |-> F(k)]
    <3> HIDE DEF h
    <3> HIDE DEF F
    <3> QED BY <2>3, <2>4
  <2>6. Row(h, x, st, n + 1)
    <3> HIDE DEF h
    <3> QED BY <2>5 DEF Row
  <2> HIDE DEF h
  <2> QED BY <2>6
<1> HIDE DEF T
<1>3. Nat \subseteq T
  BY <1>1, <1>2, AllOf
<1> QED BY <1>3 DEF T

\* A row whose every step leads from what is good to what is good.
LEMMA GoodRow ==
    ASSUME NEW n \in Nat, NEW x, NEW st, NEW good, x \in good[0],
           \A k \in 1..n : \A y \in good[k - 1] : st[<<y, k>>] \in good[k]
    PROVE  \E g : Row(g, x, st, n) /\ \A k \in 0..n : g[k] \in good[k]
<1>1. PICK g : Row(g, x, st, n)
  BY RowExists
<1>2. g[0] = x /\ \A k \in 1..n : g[k] = st[<<g[k - 1], k>>]
  BY <1>1 DEF Row
<1>3. g[0] \in good[0]
  BY <1>2
<1>4. \A k \in 1..n : g[k - 1] \in good[k - 1] => g[k] \in good[k]
  BY <1>2
<1>5. \A k \in 0..n : g[k] \in good[k]
  BY <1>3, <1>4, Walks
<1> QED BY <1>1, <1>5
-----------------------------------------------------------------------------
(* Lists and what is in them *)

LEMMA FunctionSeq ==
    ASSUME NEW S, NEW n \in Nat, NEW f \in [1..n -> S]
    PROVE  f \in Seq(S) /\ Len(f) = n
<1>1. [1..n -> S] \in {[1..k -> S] : k \in Nat}
  OBVIOUS
<1>2. f \in UNION {[1..k -> S] : k \in Nat}
  BY <1>1
<1>3. f \in Seq(S)
  BY <1>2, SeqDef
<1>4. DOMAIN f = 1..n /\ DOMAIN f = 1..Len(f) /\ Len(f) \in Nat
  BY <1>3, LenProperties
<1>5. \A k, m \in Nat : 1..k = 1..m => k = m
  <2> SUFFICES ASSUME NEW k \in Nat, NEW m \in Nat, 1..k = 1..m PROVE k = m
    OBVIOUS
  <2>1. \A i \in Nat : i \in 1..k <=> i \in 1..m
    OBVIOUS
  <2>2. (k # 0 => k \in 1..m) /\ (m # 0 => m \in 1..k)
    BY <2>1
  <2> QED BY <2>2
<1>6. n = Len(f)
  BY <1>4, <1>5
<1> QED BY <1>3, <1>6

LEMMA RangeIs ==
    ASSUME NEW S, NEW s \in Seq(S)
    PROVE  /\ Range(s) = {s[i] : i \in 1..Len(s)} /\ Range(s) \subseteq S
           /\ Len(s) \in Nat /\ \A i \in 1..Len(s) : s[i] \in S
BY DEF Range

LEMMA AppendRange ==
    ASSUME NEW S, NEW s \in Seq(S), NEW x \in S
    PROVE  Append(s, x) \in Seq(S) /\ Range(Append(s, x)) = Range(s) \cup {x}
<1> DEFINE t == Append(s, x)
<1>1. /\ t \in Seq(S) /\ Len(t) = Len(s) + 1
      /\ \A i \in 1..Len(s) : t[i] = s[i]
      /\ t[Len(s) + 1] = x
  BY AppendProperties
<1> HIDE DEF t
<1>2. Len(s) \in Nat
  OBVIOUS
<1>3. Range(t) = {t[i] : i \in 1..Len(t)} /\ Range(s) = {s[i] : i \in 1..Len(s)}
  BY <1>1, RangeIs
<1>4. ASSUME NEW i \in 1..Len(t) PROVE t[i] \in Range(s) \cup {x}
  BY <1>1, <1>2, <1>3
<1>5. ASSUME NEW i \in 1..Len(s) PROVE s[i] \in Range(t)
  BY <1>1, <1>2, <1>3
<1>6. x \in Range(t)
  BY <1>1, <1>2, <1>3
<1>7. Range(t) = Range(s) \cup {x}
  BY <1>3, <1>4, <1>5, <1>6
<1> QED BY <1>1, <1>7 DEF t

LEMMA ConcatRange ==
    ASSUME NEW S, NEW s \in Seq(S), NEW t \in Seq(S)
    PROVE  s \o t \in Seq(S) /\ Range(s \o t) = Range(s) \cup Range(t)
BY ConcatProperties, RangeConcatenation

\* The lines of a stretch of a list.
Lines(s, from, to) == {s[i] : i \in (from + 1)..to}

LEMMA SliceRange ==
    ASSUME NEW S, NEW s \in Seq(S), NEW from \in Nat, NEW to \in Nat, to <= Len(s)
    PROVE  /\ Slice(s, from, to) \in Seq(S)
           /\ Range(Slice(s, from, to)) = Lines(s, from, to)
<1> DEFINE t == SubSeq(s, from + 1, to)
<1>0. Len(s) \in Nat /\ \A i \in 1..Len(s) : s[i] \in S
  OBVIOUS
<1>1. \A i \in (from + 1)..to : s[i] \in S
  BY <1>0
<1>2. /\ t \in Seq(S)
      /\ Len(t) = IF from + 1 <= to THEN to - (from + 1) + 1 ELSE 0
      /\ \A i \in 1..(to - (from + 1) + 1) : t[i] = s[(from + 1) + i - 1]
  BY <1>1, SubSeqProperties
<1> HIDE DEF t
<1>3. Range(t) = {t[i] : i \in 1..Len(t)}
  BY <1>2, RangeIs
<1>4. ASSUME NEW i \in 1..Len(t) PROVE \E j \in (from + 1)..to : t[i] = s[j]
  <2>1. i \in 1..(to - (from + 1) + 1) /\ from + i \in (from + 1)..to
        /\ (from + 1) + i - 1 = from + i
    BY <1>2
  <2> QED BY <1>2, <2>1
<1>5. ASSUME NEW j \in (from + 1)..to PROVE \E i \in 1..Len(t) : t[i] = s[j]
  <2>1. j - from \in 1..Len(t) /\ j - from \in 1..(to - (from + 1) + 1)
        /\ (from + 1) + (j - from) - 1 = j
    BY <1>2
  <2> QED BY <1>2, <2>1
<1>6. {t[i] : i \in 1..Len(t)} = {s[i] : i \in (from + 1)..to}
  <2> DEFINE I == 1..Len(t)
             J == (from + 1)..to
  <2>1. \A i \in I : \E j \in J : t[i] = s[j]
    BY <1>4
  <2>2. \A j \in J : \E i \in I : t[i] = s[j]
    BY <1>5
  <2> HIDE DEF I, J
  <2>3. {t[i] : i \in I} = {s[j] : j \in J}
    BY <2>1, <2>2
  <2> QED BY <2>3 DEF I, J
<1> QED BY <1>2, <1>3, <1>6 DEF t, Slice, Lines

LEMMA OneRange == \A S : \A x \in S : <<x>> \in Seq(S) /\ Range(<<x>>) = {x}
BY DEF Range

LEMMA NoneRange == \A S : <<>> \in Seq(S) /\ Range(<<>>) = {}
BY DEF Range

\* The elements of a list that are in a set are those, and no others.
Kept(kept, x, set) == IF x \in set THEN Append(kept, x) ELSE kept

LEMMA AmongIs ==
    ASSUME NEW S, NEW list \in Seq(S), NEW set
    PROVE  Among(list, set) \in Seq(S) /\ Range(Among(list, set)) = Range(list) \cap set
<1> DEFINE n == Len(list)
           st == [p \in Seq(S) \X (1..n) |-> Kept(p[1], list[p[2]], set)]
           good == [k \in 0..n |-> {r \in Seq(S) : Range(r) = {list[i] : i \in 1..k} \cap set}]
           Is(g) == g = [k \in 0..n |-> IF k = 0 THEN <<>> ELSE Kept(g[k - 1], list[k], set)]
           kept == CHOOSE g : Is(g)
<1>1. n \in Nat /\ \A k \in 1..n : list[k] \in S
  OBVIOUS
<1>2. Among(list, set) = kept[n]
  BY DEF Among, Kept
<1> HIDE DEF n
<1>3. <<>> \in good[0]
  <2>1. {list[i] : i \in 1..0} = {}
    OBVIOUS
  <2> QED BY <1>1, <2>1, NoneRange
<1>4. ASSUME NEW k \in 1..n, NEW r \in good[k - 1] PROVE Kept(r, list[k], set) \in good[k]
  <2> DEFINE Old == {list[i] : i \in 1..(k - 1)}
             New == {list[i] : i \in 1..k}
  <2>1. r \in Seq(S) /\ Range(r) = Old \cap set
    BY <1>1
  <2>2. New = Old \cup {list[k]}
    BY <1>1
  <2>3. good[k] = {t \in Seq(S) : Range(t) = New \cap set}
    BY <1>1
  <2> HIDE DEF Old, New, good
  <2>4. CASE list[k] \in set
    <3>1. Append(r, list[k]) \in Seq(S) /\ Range(Append(r, list[k])) = Range(r) \cup {list[k]}
      BY <1>1, <2>1, AppendRange
    <3> QED BY <2>1, <2>2, <2>3, <2>4, <3>1 DEF Kept
  <2>5. CASE list[k] \notin set
    BY <2>1, <2>2, <2>3, <2>5 DEF Kept
  <2> QED BY <2>4, <2>5
<1>5. ASSUME NEW k \in 1..n, NEW r \in good[k - 1]
      PROVE  st[<<r, k>>] = Kept(r, list[k], set) /\ r \in Seq(S)
  BY <1>1
<1> HIDE DEF st
<1>6. \A k \in 1..n : \A r \in good[k - 1] : st[<<r, k>>] \in good[k]
  <2> HIDE DEF good
  <2> QED BY <1>4, <1>5
<1>7. \E g : Is(g)
  <2> HIDE DEF good
  <2>1. PICK g : Row(g, <<>>, st, n) /\ \A k \in 0..n : g[k] \in good[k]
    BY <1>1, <1>3, <1>6, GoodRow
  <2>2. \A k \in 1..n : st[<<g[k - 1], k>>] = Kept(g[k - 1], list[k], set)
    BY <1>1, <1>5, <2>1
  <2>3. Is(g)
    BY <1>1, <2>1, <2>2 DEF Row
  <2> QED BY <2>3
<1>8. Is(kept)
  BY <1>7
<1> HIDE DEF kept
<1>9. kept[0] = <<>> /\ \A k \in 1..n : kept[k] = Kept(kept[k - 1], list[k], set)
  BY <1>1, <1>8
<1>10. \A k \in 0..n : kept[k] \in good[k]
  <2> HIDE DEF good
  <2>1. kept[0] \in good[0] /\ \A k \in 1..n : kept[k - 1] \in good[k - 1] => kept[k] \in good[k]
    BY <1>3, <1>4, <1>9
  <2> QED BY <1>1, <2>1, Walks
<1>11. kept[n] \in Seq(S) /\ Range(kept[n]) = {list[i] : i \in 1..n} \cap set
  <2>1. good[n] = {r \in Seq(S) : Range(r) = {list[i] : i \in 1..n} \cap set}
    BY <1>1
  <2> HIDE DEF good
  <2>2. kept[n] \in good[n]
    BY <1>1, <1>10
  <2> QED BY <2>1, <2>2
<1>12. Range(list) = {list[i] : i \in 1..n}
  BY RangeIs DEF n
<1> QED BY <1>2, <1>11, <1>12
-----------------------------------------------------------------------------
(* diff *)

\* What a common prefix is.
LEMMA PrefixIs ==
    ASSUME NEW S, NEW a \in Seq(S), NEW b \in Seq(S)
    PROVE  /\ Prefix(a, b) \in Nat /\ Prefix(a, b) <= Len(a) /\ Prefix(a, b) <= Len(b)
           /\ \A i \in 1..Prefix(a, b) : a[i] = b[i]
<1> DEFINE m == Shorter(a, b)
           Ends(n) == n < m => a[n + 1] # b[n + 1]
           T == {n \in Nat : n <= m /\ Ends(n)}
           Is(n) == Slice(a, 0, n) = Slice(b, 0, n) /\ Ends(n)
<1>1. /\ m \in Nat /\ m <= Len(a) /\ m <= Len(b) /\ Len(a) \in Nat /\ Len(b) \in Nat
      /\ \A i \in 1..Len(a) : a[i] \in S
      /\ \A i \in 1..Len(b) : b[i] \in S
  BY DEF Shorter
<1> HIDE DEF m
<1>2. m \in T
  BY <1>1
<1>3. PICK n \in T : \A k \in T : n <= k
  <2> HIDE DEF T
  <2>1. T \subseteq Nat
    BY DEF T
  <2> QED BY <1>2, <2>1, Least
<1>4. n \in 0..m /\ Ends(n)
  BY <1>1, <1>3
<1>5. ASSUME NEW i \in 1..n PROVE a[i] = b[i]
  <2> DEFINE k == i - 1
  <2>1. k \in Nat /\ k < n /\ k < m /\ k <= m /\ k + 1 = i
    BY <1>1, <1>4
  <2> HIDE DEF k
  <2>2. k \notin T
    <3> HIDE DEF T
    <3> QED BY <1>1, <1>3, <1>4, <2>1
  <2> QED BY <2>1, <2>2
<1> HIDE DEF T
<1>6. ASSUME NEW k \in 0..m
      PROVE  Slice(a, 0, k) = Slice(b, 0, k) <=> \A i \in 1..k : a[i] = b[i]
  <2> DEFINE s == SubSeq(a, 0 + 1, k)
             t == SubSeq(b, 0 + 1, k)
  <2>1. /\ \A i \in (0 + 1)..k : a[i] \in S
        /\ \A i \in (0 + 1)..k : b[i] \in S
        /\ k \in Int /\ 0 + 1 \in Int
    BY <1>1
  <2>2. /\ s \in Seq(S) /\ Len(s) = (IF 0 + 1 <= k THEN k - (0 + 1) + 1 ELSE 0)
        /\ \A i \in 1..(k - (0 + 1) + 1) : s[i] = a[(0 + 1) + i - 1]
    BY <2>1, SubSeqProperties
  <2>3. /\ t \in Seq(S) /\ Len(t) = (IF 0 + 1 <= k THEN k - (0 + 1) + 1 ELSE 0)
        /\ \A i \in 1..(k - (0 + 1) + 1) : t[i] = b[(0 + 1) + i - 1]
    BY <2>1, SubSeqProperties
  <2> HIDE DEF s, t
  <2>4. Len(s) = k /\ Len(t) = k
    BY <1>1, <2>2, <2>3
  <2>5. ASSUME NEW i \in 1..k PROVE s[i] = a[i] /\ t[i] = b[i]
    <3>1. i \in 1..(k - (0 + 1) + 1) /\ (0 + 1) + i - 1 = i
      BY <1>1
    <3> QED BY <2>2, <2>3, <3>1
  <2>6. s = t <=> \A i \in 1..k : s[i] = t[i]
    BY <2>2, <2>3, <2>4, SeqEqual
  <2> QED BY <2>5, <2>6 DEF s, t, Slice
<1>7. Is(n)
  BY <1>4, <1>5, <1>6
<1>8. Prefix(a, b) = CHOOSE k \in 0..m : Is(k)
  BY DEF Prefix, m
<1> HIDE DEF Is
<1>9. Prefix(a, b) \in 0..m /\ Is(Prefix(a, b))
  BY <1>4, <1>7, <1>8
<1> QED BY <1>1, <1>6, <1>9 DEF Is

\* What a common suffix of what follows the prefix is.
LEMMA SuffixIs ==
    ASSUME NEW S, NEW a \in Seq(S), NEW b \in Seq(S), NEW pre \in Nat,
           pre <= Len(a), pre <= Len(b), NEW suf,
           suf = Prefix(Reverse(Slice(a, pre, Len(a))), Reverse(Slice(b, pre, Len(b))))
    PROVE  /\ suf \in Nat /\ pre + suf <= Len(a) /\ pre + suf <= Len(b)
           /\ \A i \in 1..suf : a[Len(a) - i + 1] = b[Len(b) - i + 1]
<1>1. ASSUME NEW s \in Seq(S), pre <= Len(s)
      PROVE  LET r == Reverse(Slice(s, pre, Len(s)))
             IN  /\ r \in Seq(S) /\ Len(r) = Len(s) - pre
                 /\ \A i \in 1..Len(r) : r[i] = s[Len(s) - i + 1]
  <2> DEFINE t == SubSeq(s, pre + 1, Len(s))
             r == [i \in 1..Len(t) |-> t[(Len(t) - i) + 1]]
  <2>1. Len(s) \in Nat /\ pre + 1 \in Int /\ \A i \in (pre + 1)..Len(s) : s[i] \in S
    OBVIOUS
  <2>2. /\ t \in Seq(S) /\ Len(t) = (IF pre + 1 <= Len(s) THEN Len(s) - (pre + 1) + 1 ELSE 0)
        /\ \A i \in 1..(Len(s) - (pre + 1) + 1) : t[i] = s[(pre + 1) + i - 1]
    BY <2>1, SubSeqProperties
  <2>3. Reverse(Slice(s, pre, Len(s))) = r
    BY DEF Reverse, Slice
  <2> HIDE DEF t
  <2>4. Len(t) \in Nat /\ Len(t) = Len(s) - pre
    BY <1>1, <2>1, <2>2
  <2>5. \A i \in 1..Len(t) : t[i] \in S
    BY <2>2
  <2>6. \A i \in 1..Len(t) : r[i] = t[(Len(t) - i) + 1] /\ (Len(t) - i) + 1 \in 1..Len(t)
    BY <2>4
  <2>7. r \in [1..Len(t) -> S]
    BY <2>4, <2>5, <2>6
  <2> HIDE DEF r
  <2>8. r \in Seq(S) /\ Len(r) = Len(t)
    BY <2>4, <2>7, FunctionSeq
  <2>9. ASSUME NEW i \in 1..Len(t) PROVE r[i] = s[Len(s) - i + 1]
    <3>1. (Len(t) - i) + 1 \in 1..(Len(s) - (pre + 1) + 1)
          /\ (pre + 1) + ((Len(t) - i) + 1) - 1 = Len(s) - i + 1
      BY <2>1, <2>4
    <3> QED BY <2>2, <2>6, <3>1
  <2> QED BY <2>3, <2>4, <2>8, <2>9
<1> DEFINE r == Reverse(Slice(a, pre, Len(a)))
           t == Reverse(Slice(b, pre, Len(b)))
<1>2. /\ r \in Seq(S) /\ Len(r) = Len(a) - pre
      /\ \A i \in 1..Len(r) : r[i] = a[Len(a) - i + 1]
  BY <1>1
<1>3. /\ t \in Seq(S) /\ Len(t) = Len(b) - pre
      /\ \A i \in 1..Len(t) : t[i] = b[Len(b) - i + 1]
  BY <1>1
<1>4. suf = Prefix(r, t)
  OBVIOUS
<1> HIDE DEF r, t
<1>5. /\ Prefix(r, t) \in Nat /\ Prefix(r, t) <= Len(r) /\ Prefix(r, t) <= Len(t)
      /\ \A i \in 1..Prefix(r, t) : r[i] = t[i]
  <2>1. r \in Seq(S) /\ t \in Seq(S)
    BY <1>2, <1>3
  <2> QED BY ONLY <2>1, PrefixIs
<1>6. Len(a) \in Nat /\ Len(b) \in Nat
  OBVIOUS
<1>7. suf \in Nat /\ pre + suf <= Len(a) /\ pre + suf <= Len(b)
  BY <1>2, <1>3, <1>4, <1>5, <1>6
<1>8. ASSUME NEW i \in 1..suf PROVE a[Len(a) - i + 1] = b[Len(b) - i + 1]
  <2>1. i \in 1..Len(r) /\ i \in 1..Len(t)
    BY <1>2, <1>3, <1>4, <1>5, <1>6
  <2>2. r[i] = t[i]
    BY <1>4, <1>5
  <2> QED BY <1>2, <1>3, <2>1, <2>2
<1> QED BY <1>7, <1>8

\* The places from which the pairing of a[pre:n] and b[pre:m] goes on, those that are at
\* most t lines from the end, and what it makes of one of them.
Grid(pre, n, m) == (pre..n) \X (pre..m)
Near(pre, n, m, t) == {p \in Grid(pre, n, m) : (n - p[1]) + (m - p[2]) <= t}

Pairing(a, b, n, m, g, p) ==
    IF p[1] = n \/ p[2] = m THEN <<>>
    ELSE IF a[p[1] + 1] = b[p[2] + 1] THEN <<p>> \o g[<<p[1] + 1, p[2] + 1>>]
    ELSE LongerOf(g[<<p[1] + 1, p[2]>>], g[<<p[1], p[2] + 1>>])

LEMMA NextNear ==
    ASSUME NEW pre \in Nat, NEW n \in Nat, NEW m \in Nat, NEW t \in Nat,
           NEW p \in Near(pre, n, m, t + 1), p[1] # n, p[2] # m
    PROVE  /\ <<p[1] + 1, p[2] + 1>> \in Near(pre, n, m, t)
           /\ <<p[1] + 1, p[2]>> \in Near(pre, n, m, t)
           /\ <<p[1], p[2] + 1>> \in Near(pre, n, m, t)
<1> DEFINE i == p[1]
           j == p[2]
<1>1. /\ p = <<i, j>> /\ i \in pre..n /\ j \in pre..m /\ (n - i) + (m - j) <= t + 1
  BY DEF Near, Grid
<1> HIDE DEF i, j
<1>2. i # n /\ j # m
  BY <1>1
<1>3. /\ i + 1 \in pre..n /\ j + 1 \in pre..m
      /\ (n - (i + 1)) + (m - (j + 1)) <= t
      /\ (n - (i + 1)) + (m - j) <= t
      /\ (n - i) + (m - (j + 1)) <= t
  BY <1>1, <1>2
<1>4. ASSUME NEW x \in pre..n, NEW y \in pre..m, (n - x) + (m - y) <= t
      PROVE  <<x, y>> \in Near(pre, n, m, t)
  BY <1>4 DEF Near, Grid
<1>5. /\ <<i + 1, j + 1>> \in Near(pre, n, m, t)
      /\ <<i + 1, j>> \in Near(pre, n, m, t)
      /\ <<i, j + 1>> \in Near(pre, n, m, t)
  BY <1>1, <1>3, <1>4
<1> QED BY <1>5 DEF i, j

LEMMA PairingSame ==
    ASSUME NEW pre \in Nat, NEW n \in Nat, NEW m \in Nat, NEW t \in Nat,
           NEW a, NEW b, NEW f, NEW g, \A p \in Near(pre, n, m, t) : f[p] = g[p],
           NEW p \in Near(pre, n, m, t + 1)
    PROVE  Pairing(a, b, n, m, f, p) = Pairing(a, b, n, m, g, p)
<1>1. CASE p[1] = n \/ p[2] = m
  BY <1>1 DEF Pairing
<1>2. CASE ~ (p[1] = n \/ p[2] = m)
  <2> DEFINE x == <<p[1] + 1, p[2] + 1>>
             y == <<p[1] + 1, p[2]>>
             z == <<p[1], p[2] + 1>>
  <2>1. x \in Near(pre, n, m, t) /\ y \in Near(pre, n, m, t) /\ z \in Near(pre, n, m, t)
    BY <1>2, NextNear
  <2>2. /\ Pairing(a, b, n, m, f, p) = IF a[p[1] + 1] = b[p[2] + 1] THEN <<p>> \o f[x]
                                       ELSE LongerOf(f[y], f[z])
        /\ Pairing(a, b, n, m, g, p) = IF a[p[1] + 1] = b[p[2] + 1] THEN <<p>> \o g[x]
                                       ELSE LongerOf(g[y], g[z])
    BY <1>2 DEF Pairing
  <2> HIDE DEF x, y, z
  <2>3. f[x] = g[x] /\ f[y] = g[y] /\ f[z] = g[z]
    BY <2>1
  <2> QED BY <2>2, <2>3
<1> QED BY <1>1, <1>2

AllPaired(g, a, b, pre, n, m) ==
    g = [p \in Grid(pre, n, m) |-> Pairing(a, b, n, m, g, p)]

LEMMA PairingExists ==
    ASSUME NEW pre \in Nat, NEW n \in Nat, NEW m \in Nat, pre <= n, pre <= m, NEW a, NEW b
    PROVE  \E g : AllPaired(g, a, b, pre, n, m)
<1> DEFINE D(t) == Near(pre, n, m, t)
           F(g, p) == Pairing(a, b, n, m, g, p)
           Is(g, t) == g = [p \in D(t) |-> F(g, p)]
           T == {t \in Nat : \E g : Is(g, t)}
<1>1. 0 \in T
  <2> DEFINE g == [p \in D(0) |-> <<>>]
  <2>1. ASSUME NEW p \in D(0) PROVE g[p] = F(g, p)
    <3> DEFINE i == p[1]
               j == p[2]
    <3>1. i \in pre..n /\ j \in pre..m /\ (n - i) + (m - j) <= 0
      BY DEF Near, Grid
    <3> HIDE DEF i, j
    <3>2. i = n
      BY <3>1
    <3> QED BY <3>2 DEF Pairing, i
  <2>2. g = [p \in D(0) |-> g[p]]
    OBVIOUS
  <2>3. Is(g, 0)
    <3> HIDE DEF g, D, F
    <3> QED BY <2>1, <2>2
  <2> HIDE DEF g, Is
  <2> QED BY <2>3
<1>2. ASSUME NEW t \in Nat, t \in T PROVE t + 1 \in T
  <2>1. PICK g : Is(g, t)
    BY <1>2
  <2>2. \A p \in D(t) : g[p] = F(g, p)
    <3> HIDE DEF D, F
    <3> QED BY <2>1
  <2> DEFINE h == [p \in D(t + 1) |-> IF p \in D(t) THEN g[p] ELSE F(g, p)]
  <2>3. D(t) \subseteq D(t + 1)
    <3> SUFFICES ASSUME NEW p \in D(t) PROVE p \in D(t + 1)
      OBVIOUS
    <3>1. /\ p \in Grid(pre, n, m) /\ (n - p[1]) + (m - p[2]) <= t
          /\ p[1] \in Int /\ p[2] \in Int
      BY DEF Near, Grid
    <3>2. (n - p[1]) + (m - p[2]) <= t + 1
      BY <3>1
    <3> QED BY <3>1, <3>2 DEF Near
  <2>4. \A p \in D(t) : h[p] = g[p]
    <3> HIDE DEF D, F
    <3> QED BY <2>3
  <2>5. ASSUME NEW p \in D(t + 1) PROVE h[p] = F(h, p)
    <3>1. F(h, p) = F(g, p)
      <4> HIDE DEF h
      <4> QED BY <2>4, PairingSame
    <3>2. h[p] = F(g, p)
      <4> HIDE DEF D, F
      <4> QED BY <2>2
    <3> QED BY <3>1, <3>2
  <2>6. h = [p \in D(t + 1) |-> h[p]]
    <3> HIDE DEF D, F
    <3> QED OBVIOUS
  <2>7. Is(h, t + 1)
    <3> HIDE DEF D, F, h
    <3> QED BY <2>5, <2>6
  <2> HIDE DEF h, Is
  <2> QED BY <2>7
<1> HIDE DEF T
<1>3. Nat \subseteq T
  BY <1>1, <1>2, AllOf
<1> DEFINE t == (n - pre) + (m - pre)
<1>4. t \in Nat
  OBVIOUS
<1>5. D(t) = Grid(pre, n, m)
  <2>1. ASSUME NEW p \in Grid(pre, n, m) PROVE (n - p[1]) + (m - p[2]) <= t
    BY DEF Grid
  <2> QED BY <2>1 DEF Near
<1> HIDE DEF t
<1>6. PICK g : Is(g, t)
  BY <1>3, <1>4 DEF T
<1>7. g = [p \in Grid(pre, n, m) |-> F(g, p)]
  <2> HIDE DEF D, F
  <2> QED BY <1>5, <1>6
<1> QED BY <1>7 DEF AllPaired

\* Pairs of equal lines of a[i:n] and b[j:m], each after the one before it in both.
Pairs(s, a, b, i, j, n, m) ==
    /\ s \in Seq(Nat \X Nat)
    /\ \A k \in 1..Len(s) : /\ i <= s[k][1] /\ s[k][1] < n
                            /\ j <= s[k][2] /\ s[k][2] < m
                            /\ a[s[k][1] + 1] = b[s[k][2] + 1]
    /\ \A k, l \in 1..Len(s) : k < l => s[k][1] < s[l][1] /\ s[k][2] < s[l][2]

LEMMA PairsNone ==
    ASSUME NEW a, NEW b, NEW i, NEW j, NEW n, NEW m
    PROVE  Pairs(<<>>, a, b, i, j, n, m)
BY DEF Pairs

LEMMA PairsWider ==
    ASSUME NEW a, NEW b, NEW i \in Nat, NEW j \in Nat, NEW n \in Nat, NEW m \in Nat,
           NEW x \in Nat, NEW y \in Nat, x <= i, y <= j, NEW s, Pairs(s, a, b, i, j, n, m)
    PROVE  Pairs(s, a, b, x, y, n, m)
<1>1. s \in Seq(Nat \X Nat)
  BY DEF Pairs
<1>2. ASSUME NEW k \in 1..Len(s)
      PROVE  s[k][1] \in Nat /\ s[k][2] \in Nat /\ x <= s[k][1] /\ y <= s[k][2]
  <2> DEFINE v == s[k][1]
             w == s[k][2]
  <2>1. s[k] \in Nat \X Nat
    BY <1>1
  <2>2. v \in Nat /\ w \in Nat /\ i <= v /\ j <= w
    BY <2>1 DEF Pairs
  <2> HIDE DEF v, w
  <2>3. x <= v /\ y <= w
    BY <2>2
  <2> QED BY <2>2, <2>3 DEF v, w
<1> QED BY <1>1, <1>2 DEF Pairs

LEMMA FirstOf ==
    ASSUME NEW S, NEW x \in S, NEW s \in Seq(S)
    PROVE  /\ <<x>> \o s \in Seq(S) /\ Len(<<x>> \o s) = 1 + Len(s)
           /\ (<<x>> \o s)[1] = x
           /\ \A k \in 2..(1 + Len(s)) : (<<x>> \o s)[k] = s[k - 1]
<1> DEFINE one == <<x>>
           t == one \o s
<1>1. one \in Seq(S) /\ Len(one) = 1 /\ one[1] = x /\ Len(s) \in Nat
  OBVIOUS
<1> HIDE DEF one
<1>2. /\ t \in Seq(S) /\ Len(t) = Len(one) + Len(s)
      /\ \A k \in 1..(Len(one) + Len(s)) : t[k] = IF k <= Len(one) THEN one[k] ELSE s[k - Len(one)]
  BY <1>1, ConcatProperties
<1> HIDE DEF t
<1>3. Len(t) = 1 + Len(s) /\ t[1] = x
  BY <1>1, <1>2
<1>4. ASSUME NEW k \in 2..(1 + Len(s)) PROVE t[k] = s[k - 1]
  <2>1. k \in 1..(Len(one) + Len(s)) /\ ~ (k <= Len(one)) /\ k - Len(one) = k - 1
    BY <1>1
  <2> QED BY <1>2, <2>1
<1> QED BY <1>2, <1>3, <1>4 DEF t, one

LEMMA PairsMore ==
    ASSUME NEW a, NEW b, NEW i \in Nat, NEW j \in Nat, NEW n \in Nat, NEW m \in Nat,
           i < n, j < m, a[i + 1] = b[j + 1],
           NEW s, Pairs(s, a, b, i + 1, j + 1, n, m)
    PROVE  Pairs(<< <<i, j>> >> \o s, a, b, i, j, n, m)
<1> DEFINE p == <<i, j>>
           t == <<p>> \o s
<1>1. s \in Seq(Nat \X Nat) /\ p \in Nat \X Nat
  BY DEF Pairs
<1>2. /\ t \in Seq(Nat \X Nat) /\ Len(t) = 1 + Len(s) /\ t[1] = p
      /\ \A k \in 2..(1 + Len(s)) : t[k] = s[k - 1]
  <2> HIDE DEF p
  <2> QED BY <1>1, FirstOf
<1>3. Len(s) \in Nat /\ p[1] = i /\ p[2] = j
  BY <1>1
<1> HIDE DEF t, p
<1>4. ASSUME NEW k \in 2..Len(t) PROVE k - 1 \in 1..Len(s) /\ t[k] = s[k - 1]
  BY <1>2, <1>3
<1>5. ASSUME NEW k \in 1..Len(s)
      PROVE  /\ s[k][1] \in Nat /\ s[k][2] \in Nat /\ i < s[k][1] /\ j < s[k][2]
             /\ s[k][1] < n /\ s[k][2] < m /\ a[s[k][1] + 1] = b[s[k][2] + 1]
  <2> DEFINE v == s[k][1]
             w == s[k][2]
  <2>1. s[k] \in Nat \X Nat
    BY <1>1
  <2>2. /\ v \in Nat /\ w \in Nat /\ i + 1 <= v /\ j + 1 <= w
        /\ v < n /\ w < m /\ a[v + 1] = b[w + 1]
    BY <2>1 DEF Pairs
  <2> HIDE DEF v, w
  <2>3. i < v /\ j < w
    BY <2>2
  <2> QED BY <2>2, <2>3 DEF v, w
<1>6. ASSUME NEW k \in 1..Len(t)
      PROVE  /\ i <= t[k][1] /\ t[k][1] < n /\ j <= t[k][2] /\ t[k][2] < m
             /\ a[t[k][1] + 1] = b[t[k][2] + 1]
  <2>1. CASE k = 1
    <3>1. t[k][1] = i /\ t[k][2] = j
      BY <1>2, <1>3, <2>1
    <3>2. i <= i /\ j <= j
      OBVIOUS
    <3> QED BY <3>1, <3>2
  <2>2. CASE k # 1
    <3>1. k \in 2..Len(t)
      BY <1>2, <1>3, <2>2
    <3>2. k - 1 \in 1..Len(s) /\ t[k] = s[k - 1]
      BY <1>4, <3>1
    <3> DEFINE v == s[k - 1][1]
               w == s[k - 1][2]
    <3>3. v \in Nat /\ w \in Nat /\ i < v /\ j < w /\ v < n /\ w < m /\ a[v + 1] = b[w + 1]
      BY <1>5, <3>2
    <3>4. t[k][1] = v /\ t[k][2] = w
      BY <3>2
    <3> HIDE DEF v, w
    <3>5. i <= v /\ j <= w
      BY <3>3
    <3> QED BY <3>3, <3>4, <3>5
  <2> QED BY <2>1, <2>2
<1>7. ASSUME NEW k \in 1..Len(t), NEW l \in 1..Len(t), k < l
      PROVE  t[k][1] < t[l][1] /\ t[k][2] < t[l][2]
  <2>1. l \in 2..Len(t)
    BY <1>7
  <2>2. CASE k = 1
    <3>1. l - 1 \in 1..Len(s) /\ t[l] = s[l - 1]
      BY <1>4, <2>1
    <3>2. i < s[l - 1][1] /\ j < s[l - 1][2]
      BY <1>5, <3>1
    <3>3. t[k][1] = i /\ t[k][2] = j
      BY <1>2, <1>3, <2>2
    <3> QED BY <3>1, <3>2, <3>3
  <2>3. CASE k # 1
    <3>1. k \in 2..Len(t) /\ k - 1 < l - 1
      BY <1>2, <1>3, <1>7, <2>3
    <3>2. t[k] = s[k - 1] /\ t[l] = s[l - 1] /\ k - 1 \in 1..Len(s) /\ l - 1 \in 1..Len(s)
      BY <1>4, <2>1, <3>1
    <3>3. s[k - 1][1] < s[l - 1][1] /\ s[k - 1][2] < s[l - 1][2]
      BY <3>1, <3>2 DEF Pairs
    <3> QED BY <3>2, <3>3
  <2> QED BY <2>2, <2>3
<1>8. Pairs(t, a, b, i, j, n, m)
  BY <1>2, <1>6, <1>7 DEF Pairs
<1> QED BY <1>8 DEF t, p

\* What Paired makes of two middles.
LEMMA PairingPairs ==
    ASSUME NEW pre \in Nat, NEW n \in Nat, NEW m \in Nat, pre <= n, pre <= m, NEW a, NEW b,
           NEW g, AllPaired(g, a, b, pre, n, m)
    PROVE  Pairs(g[<<pre, pre>>], a, b, pre, pre, n, m)
<1> DEFINE D(t) == Near(pre, n, m, t)
           Good(p) == Pairs(g[p], a, b, p[1], p[2], n, m)
           T == {t \in Nat : \A p \in D(t) : Good(p)}
<1>1. ASSUME NEW t, NEW p \in D(t) PROVE g[p] = Pairing(a, b, n, m, g, p)
  <2>1. p \in Grid(pre, n, m)
    BY DEF Near
  <2> QED BY <2>1 DEF AllPaired
<1>2. ASSUME NEW t, NEW p \in D(t) PROVE p[1] \in pre..n /\ p[2] \in pre..m /\ p = <<p[1], p[2]>>
  BY DEF Near, Grid
<1>3. ASSUME NEW t, NEW p \in D(t), p[1] = n \/ p[2] = m PROVE Good(p)
  <2>1. g[p] = <<>>
    BY <1>1, <1>3 DEF Pairing
  <2> QED BY <2>1, PairsNone
<1>4. 0 \in T
  <2> SUFFICES ASSUME NEW p \in D(0) PROVE Good(p)
    OBVIOUS
  <2> DEFINE i == p[1]
             j == p[2]
  <2>1. i \in pre..n /\ j \in pre..m /\ (n - i) + (m - j) <= 0
    BY DEF Near, Grid
  <2> HIDE DEF i, j
  <2>2. i = n
    BY <2>1
  <2> QED BY <1>3, <2>2 DEF i
<1>5. ASSUME NEW t \in Nat, t \in T PROVE t + 1 \in T
  <2> SUFFICES ASSUME NEW p \in D(t + 1), p[1] # n, p[2] # m PROVE Good(p)
    BY <1>3
  <2> DEFINE i == p[1]
             j == p[2]
             x == <<i + 1, j + 1>>
             y == <<i + 1, j>>
             z == <<i, j + 1>>
  <2>1. x \in D(t) /\ y \in D(t) /\ z \in D(t)
    BY NextNear
  <2>2. g[p] = IF a[i + 1] = b[j + 1] THEN <<p>> \o g[x] ELSE LongerOf(g[y], g[z])
    BY <1>1 DEF Pairing
  <2>3. /\ Pairs(g[x], a, b, i + 1, j + 1, n, m)
        /\ Pairs(g[y], a, b, i + 1, j, n, m)
        /\ Pairs(g[z], a, b, i, j + 1, n, m)
    <3>1. Good(x) /\ Good(y) /\ Good(z)
      BY <1>5, <2>1
    <3> QED BY <3>1
  <2>4. i \in pre..n /\ j \in pre..m /\ p = <<i, j>> /\ i # n /\ j # m
    BY <1>2
  <2> HIDE DEF i, j, x, y, z
  <2>5. /\ i \in Nat /\ j \in Nat /\ i + 1 \in Nat /\ j + 1 \in Nat /\ i < n /\ j < m
        /\ i <= i /\ j <= j /\ i <= i + 1 /\ j <= j + 1
    BY <2>4
  <2>6. CASE a[i + 1] = b[j + 1]
    <3>1. g[p] = << <<i, j>> >> \o g[x]
      BY <2>2, <2>4, <2>6
    <3>2. Pairs(<< <<i, j>> >> \o g[x], a, b, i, j, n, m)
      BY <2>3, <2>5, <2>6, PairsMore
    <3> QED BY <3>1, <3>2 DEF i, j
  <2>7. CASE a[i + 1] # b[j + 1]
    <3>1. g[p] \in {g[y], g[z]}
      BY <2>2, <2>7 DEF LongerOf
    <3>2. Pairs(g[y], a, b, i, j, n, m)
      BY <2>3, <2>5, PairsWider
    <3>3. Pairs(g[z], a, b, i, j, n, m)
      BY <2>3, <2>5, PairsWider
    <3>4. Pairs(g[p], a, b, i, j, n, m)
      BY <3>1, <3>2, <3>3
    <3> QED BY <3>4 DEF i, j
  <2> QED BY <2>6, <2>7
<1> HIDE DEF T
<1>6. Nat \subseteq T
  BY <1>4, <1>5, AllOf
<1> DEFINE t == (n - pre) + (m - pre)
           p == <<pre, pre>>
<1>7. t \in Nat /\ p \in D(t)
  BY DEF Near, Grid
<1> HIDE DEF t
<1>8. Good(p)
  BY <1>6, <1>7 DEF T
<1> QED BY <1>8

LEMMA PairedIs ==
    ASSUME NEW pre \in Nat, NEW n \in Nat, NEW m \in Nat, pre <= n, pre <= m, NEW a, NEW b
    PROVE  Pairs(Paired(a, b, pre, n, m), a, b, pre, pre, n, m)
<1> DEFINE f == CHOOSE g : AllPaired(g, a, b, pre, n, m)
<1>1. AllPaired(f, a, b, pre, n, m)
  BY PairingExists
<1>2. Paired(a, b, pre, n, m) =
          IF (n - pre) * (m - pre) > MaxCells THEN <<>> ELSE f[<<pre, pre>>]
  BY DEF Paired, AllPaired, Grid, Pairing
<1> HIDE DEF f
<1>3. Pairs(f[<<pre, pre>>], a, b, pre, pre, n, m)
  BY <1>1, PairingPairs
<1> QED BY <1>2, <1>3, PairsNone

\* Where pairs stand on one side, the end of the middle being the last of them.
Marks(u, k, pre, n) ==
    /\ k \in Nat \ {0} /\ u \in [1..k -> Nat] /\ u[k] = n
    /\ \A x \in 1..k : pre <= u[x] /\ u[x] <= n
    /\ \A x, y \in 1..k : x < y => u[x] < u[y]

\* Where the gap before the pair starts.
From(u, x, pre) == IF x = 1 THEN pre ELSE u[x - 1] + 1

LEMMA FromIs ==
    ASSUME NEW u, NEW k, NEW pre \in Nat, NEW n \in Nat, Marks(u, k, pre, n)
    PROVE  /\ \A x \in 1..k : From(u, x, pre) \in Nat /\ pre <= From(u, x, pre) /\ From(u, x, pre) <= u[x]
           /\ \A x, y \in 1..k : x < y => u[x] < From(u, y, pre)
<1>1. k \in Nat /\ \A x \in 1..k : u[x] \in Nat
  BY DEF Marks
<1>2. ASSUME NEW x \in 1..k
      PROVE  From(u, x, pre) \in Nat /\ pre <= From(u, x, pre) /\ From(u, x, pre) <= u[x]
  <2>1. CASE x = 1
    BY <1>1, <2>1 DEF From, Marks
  <2>2. CASE x # 1
    <3>1. x - 1 \in 1..k /\ x - 1 < x
      BY <1>1, <2>2
    <3>2. u[x - 1] \in Nat /\ u[x - 1] < u[x] /\ pre <= u[x - 1] /\ u[x] \in Nat
      BY <1>1, <3>1 DEF Marks
    <3> QED BY <2>2, <3>2 DEF From
  <2> QED BY <2>1, <2>2
<1>3. ASSUME NEW x \in 1..k, NEW y \in 1..k, x < y PROVE u[x] < From(u, y, pre)
  <2>1. y # 1 /\ y - 1 \in 1..k /\ (x = y - 1 \/ x < y - 1)
    BY <1>1, <1>3
  <2>2. u[x] \in Nat /\ u[y - 1] \in Nat /\ (x = y - 1 \/ u[x] < u[y - 1])
    BY <1>1, <2>1 DEF Marks
  <2> QED BY <2>1, <2>2 DEF From
<1> QED BY <1>2, <1>3

\* A place of the middle is one of the pairs or in the gap before one.
LEMMA Located ==
    ASSUME NEW u, NEW k, NEW pre \in Nat, NEW n \in Nat, Marks(u, k, pre, n),
           NEW x \in Nat, pre <= x, x < n
    PROVE  \E y \in 1..k : \/ y < k /\ u[y] = x
                           \/ From(u, y, pre) <= x /\ x < u[y]
<1> DEFINE T == {y \in 1..k : x <= u[y]}
<1>1. k \in Nat \ {0} /\ (\A y \in 1..k : u[y] \in Nat) /\ u[k] = n
  BY DEF Marks
<1>2. k \in T /\ T \subseteq Nat
  BY <1>1
<1>3. PICK y \in T : \A z \in T : y <= z
  <2> HIDE DEF T
  <2> QED BY <1>2, Least
<1>4. y \in 1..k /\ x <= u[y] /\ u[y] \in Nat
  BY <1>1, <1>3
<1>5. CASE u[y] = x
  <2>1. y # k
    BY <1>1, <1>5
  <2> QED BY <1>1, <1>4, <1>5, <2>1
<1>6. CASE u[y] # x
  <2>1. x < u[y]
    BY <1>4, <1>6
  <2>2. From(u, y, pre) <= x
    <3>1. CASE y = 1
      BY <3>1 DEF From
    <3>2. CASE y # 1
      <4>1. y - 1 \in 1..k /\ ~ (y <= y - 1)
        BY <1>1, <1>4, <3>2
      <4>2. y - 1 \notin T
        <5> HIDE DEF T
        <5> QED BY <1>3, <4>1
      <4>3. u[y - 1] \in Nat /\ ~ (x <= u[y - 1])
        BY <1>1, <4>1, <4>2
      <4> QED BY <3>2, <4>3 DEF From
    <3> QED BY <3>1, <3>2
  <2> QED BY <1>4, <2>1, <2>2
<1> QED BY <1>5, <1>6

HunkType == [b0 : Nat, b1 : Nat, s0 : Nat, s1 : Nat, theirs : BOOLEAN]

\* A hunk replaces a line of the base, or writes a line of the copy.
Covers(h, i) == h.b0 < i /\ i <= h.b1
Writes(h, i) == h.s0 < i /\ i <= h.s1

\* The hunks of a diff from a to b stand apart in a.  A line of a that none replaces is in
\* b, and a line of b that none writes is a line of a that none replaces.
Fits(hs, a, b, side) ==
    /\ hs \subseteq HunkType
    /\ \A h \in hs : /\ h.theirs = side
                     /\ h.b0 <= h.b1 /\ h.b1 <= Len(a)
                     /\ h.s0 <= h.s1 /\ h.s1 <= Len(b)
    /\ \A g, h \in hs : g = h \/ g.b1 < h.b0 \/ h.b1 < g.b0
    /\ \A i \in 1..Len(a) : (\E h \in hs : Covers(h, i)) \/ a[i] \in Range(b)
    /\ \A i \in 1..Len(b) :
          \/ \E h \in hs : Writes(h, i)
          \/ \E j \in 1..Len(a) : a[j] = b[i] /\ \A h \in hs : ~ Covers(h, j)

Gap(u, v, y, pre, side) == Hunk(From(u, y, pre), u[y], From(v, y, pre), v[y], side)

\* What precedes the middles is the same in both, and so is what follows them.
Aligned(a, b, pre, n, m) ==
    /\ pre <= n /\ pre <= m /\ n <= Len(a) /\ m <= Len(b) /\ Len(a) - n = Len(b) - m
    /\ \A i \in 1..pre : a[i] = b[i]
    /\ \A i \in 1..Len(a) : n < i => a[i] = b[i - n + m]

\* The hunks are gaps, those that are not empty among them.
GapsOf(hs, u, v, k, pre, side) ==
    /\ \A h \in hs : \E y \in 1..k : h = Gap(u, v, y, pre, side)
    /\ \A y \in 1..k : LET h == Gap(u, v, y, pre, side)
                       IN  h.b0 < h.b1 \/ h.s0 < h.s1 => h \in hs

\* The hunks of what stands between pairs of equal lines fit.
LEMMA GapsFit ==
    ASSUME NEW S, NEW a \in Seq(S), NEW b \in Seq(S), NEW u, NEW v, NEW k,
           NEW pre \in Nat, NEW n \in Nat, NEW m \in Nat, NEW side \in BOOLEAN,
           Marks(u, k, pre, n), Marks(v, k, pre, m),
           Aligned(a, b, pre, n, m),
           \A y \in 1..k : y < k => a[u[y] + 1] = b[v[y] + 1],
           NEW hs, GapsOf(hs, u, v, k, pre, side)
    PROVE  Fits(hs, a, b, side)
<1> DEFINE G(y) == Gap(u, v, y, pre, side)
<1>0. /\ k \in Nat \ {0} /\ Len(a) \in Nat /\ Len(b) \in Nat
      /\ \A y \in 1..k : u[y] \in Nat /\ v[y] \in Nat
      /\ pre <= n /\ pre <= m /\ n <= Len(a) /\ m <= Len(b) /\ Len(a) - n = Len(b) - m
  BY DEF Marks, Aligned
<1>1. ASSUME NEW y \in 1..k
      PROVE  /\ G(y) \in HunkType /\ G(y).theirs = side
             /\ G(y).b0 = From(u, y, pre) /\ G(y).b1 = u[y] /\ pre <= G(y).b0
             /\ G(y).b0 <= G(y).b1 /\ G(y).b1 <= n
             /\ G(y).s0 = From(v, y, pre) /\ G(y).s1 = v[y]
             /\ G(y).s0 <= G(y).s1 /\ G(y).s1 <= m
  <2>1. /\ From(u, y, pre) \in Nat /\ u[y] \in Nat /\ From(u, y, pre) <= u[y] /\ u[y] <= n
        /\ pre <= From(u, y, pre)
    BY FromIs DEF Marks
  <2>2. From(v, y, pre) \in Nat /\ v[y] \in Nat /\ From(v, y, pre) <= v[y] /\ v[y] <= m
    BY FromIs DEF Marks
  <2>3. G(y) = [b0 |-> From(u, y, pre), b1 |-> u[y], s0 |-> From(v, y, pre), s1 |-> v[y],
                theirs |-> side]
    BY DEF Gap, Hunk
  <2> QED BY ONLY <2>1, <2>2, <2>3, side \in BOOLEAN DEF HunkType
<1>2. ASSUME NEW x \in 1..k, NEW y \in 1..k, x < y PROVE G(x).b1 < G(y).b0
  <2>1. u[x] < From(u, y, pre)
    BY <1>2, FromIs
  <2> QED BY <1>1, <2>1
<1>3. \A h \in hs : \E y \in 1..k : h = G(y)
  BY DEF GapsOf
<1>4. \A y \in 1..k : (G(y).b0 < G(y).b1 \/ G(y).s0 < G(y).s1) => G(y) \in hs
  BY DEF GapsOf
<1> HIDE DEF G
<1>5. hs \subseteq HunkType
  BY <1>1, <1>3
<1>6. ASSUME NEW h \in hs
      PROVE  /\ h.theirs = side /\ h.b0 <= h.b1 /\ h.b1 <= Len(a) /\ h.s0 <= h.s1 /\ h.s1 <= Len(b)
             /\ pre <= h.b0 /\ h.b1 <= n /\ h.b0 \in Nat /\ h.b1 \in Nat
  <2>1. h \in HunkType
    BY <1>5
  <2>2. h.b0 \in Nat /\ h.b1 \in Nat /\ h.s0 \in Nat /\ h.s1 \in Nat
    BY <2>1 DEF HunkType
  <2>3. /\ h.theirs = side /\ h.b0 <= h.b1 /\ h.b1 <= n /\ h.s0 <= h.s1 /\ h.s1 <= m
        /\ pre <= h.b0
    BY <1>1, <1>3
  <2>4. h.b1 <= Len(a) /\ h.s1 <= Len(b)
    BY <1>0, <2>2, <2>3
  <2> QED BY <2>2, <2>3, <2>4
<1>7. ASSUME NEW g \in hs, NEW h \in hs PROVE g = h \/ g.b1 < h.b0 \/ h.b1 < g.b0
  <2>1. PICK x \in 1..k : g = G(x)
    BY <1>3
  <2>2. PICK y \in 1..k : h = G(y)
    BY <1>3
  <2>3. x < y \/ x = y \/ y < x
    BY <1>0
  <2> QED BY <1>2, <2>1, <2>2, <2>3
<1>8. ASSUME NEW i \in 1..Len(a) PROVE (\E h \in hs : Covers(h, i)) \/ a[i] \in Range(b)
  <2>1. ASSUME NEW j \in 1..Len(b), a[i] = b[j] PROVE a[i] \in Range(b)
    BY <2>1, RangeIs
  <2>2. CASE i <= pre
    <3>1. i \in 1..pre /\ i \in 1..Len(b)
      BY <1>0, <2>2
    <3> QED BY <2>1, <3>1 DEF Aligned
  <2>3. CASE n < i
    <3>1. i - n + m \in 1..Len(b) /\ a[i] = b[i - n + m]
      BY <1>0, <2>3 DEF Aligned
    <3> QED BY <2>1, <3>1
  <2>4. CASE pre < i /\ i <= n
    <3> DEFINE z == i - 1
    <3>1. z \in Nat /\ pre <= z /\ z < n /\ z + 1 = i
      BY <1>0, <2>4
    <3> HIDE DEF z
    <3>2. PICK y \in 1..k : (y < k /\ u[y] = z) \/ (From(u, y, pre) <= z /\ z < u[y])
      BY <3>1, Located
    <3>3. CASE y < k /\ u[y] = z
      <4>1. a[i] = b[v[y] + 1]
        BY <3>1, <3>3
      <4>2. v[y] < v[k] /\ v[k] = m
        BY <1>0, <3>3 DEF Marks
      <4>3. v[y] + 1 \in 1..Len(b)
        BY <1>0, <4>2
      <4> QED BY <2>1, <4>1, <4>3
    <3>4. CASE From(u, y, pre) <= z /\ z < u[y]
      <4>1. G(y).b0 <= z /\ z < G(y).b1 /\ G(y).b0 \in Nat /\ G(y).b1 \in Nat
        BY <1>1, <3>4 DEF HunkType
      <4>2. G(y) \in hs
        <5>1. G(y).b0 < G(y).b1 \/ G(y).s0 < G(y).s1
          BY <3>1, <4>1
        <5> QED BY <1>4, <5>1
      <4>3. Covers(G(y), i)
        BY <1>0, <3>1, <4>1 DEF Covers
      <4> QED BY <4>2, <4>3
    <3> QED BY <3>2, <3>3, <3>4
  <2> QED BY <1>0, <2>2, <2>3, <2>4
<1>9. ASSUME NEW i \in 1..Len(b)
      PROVE  \/ \E h \in hs : Writes(h, i)
             \/ \E j \in 1..Len(a) : a[j] = b[i] /\ \A h \in hs : ~ Covers(h, j)
  <2>1. CASE i <= pre
    <3>1. i \in 1..Len(a) /\ a[i] = b[i]
      BY <1>0, <2>1 DEF Aligned
    <3>2. ASSUME NEW h \in hs PROVE ~ Covers(h, i)
      BY <1>6, <2>1 DEF Covers
    <3> QED BY <3>1, <3>2
  <2>2. CASE m < i
    <3> DEFINE j == i - m + n
    <3>1. j \in 1..Len(a) /\ n < j /\ j - n + m = i
      BY <1>0, <2>2
    <3> HIDE DEF j
    <3>2. a[j] = b[i]
      BY <3>1 DEF Aligned
    <3>3. ASSUME NEW h \in hs PROVE ~ Covers(h, j)
      BY <1>6, <3>1 DEF Covers
    <3> QED BY <3>1, <3>2, <3>3
  <2>3. CASE pre < i /\ i <= m
    <3> DEFINE z == i - 1
    <3>1. z \in Nat /\ pre <= z /\ z < m /\ z + 1 = i
      BY <1>0, <2>3
    <3> HIDE DEF z
    <3>2. PICK y \in 1..k : (y < k /\ v[y] = z) \/ (From(v, y, pre) <= z /\ z < v[y])
      BY <3>1, Located
    <3>3. CASE y < k /\ v[y] = z
      <4>1. a[u[y] + 1] = b[i]
        BY <3>1, <3>3
      <4>2. u[y] < u[k] /\ u[k] = n
        BY <1>0, <3>3 DEF Marks
      <4>3. u[y] + 1 \in 1..Len(a)
        BY <1>0, <4>2
      <4>4. ASSUME NEW h \in hs PROVE ~ Covers(h, u[y] + 1)
        <5>1. PICK x \in 1..k : h = G(x)
          BY <1>3
        <5>2. h.b0 = From(u, x, pre) /\ h.b1 = u[x] /\ h.b0 \in Nat /\ h.b1 \in Nat
          BY <1>1, <1>6, <5>1
        <5>3. CASE x < y
          <6>1. u[x] < u[y]
            BY <5>3 DEF Marks
          <6> QED BY <1>0, <5>2, <6>1 DEF Covers
        <5>4. CASE x = y
          BY <1>0, <5>2, <5>4 DEF Covers
        <5>5. CASE y < x
          <6>1. u[y] < From(u, x, pre)
            BY <5>5, FromIs
          <6> QED BY <1>0, <5>2, <6>1 DEF Covers
        <5> QED BY <1>0, <5>3, <5>4, <5>5
      <4> QED BY <4>1, <4>3, <4>4
    <3>4. CASE From(v, y, pre) <= z /\ z < v[y]
      <4>1. G(y).s0 <= z /\ z < G(y).s1 /\ G(y).s0 \in Nat /\ G(y).s1 \in Nat
        BY <1>1, <3>4 DEF HunkType
      <4>2. G(y) \in hs
        <5>1. G(y).b0 < G(y).b1 \/ G(y).s0 < G(y).s1
          BY <3>1, <4>1
        <5> QED BY <1>4, <5>1
      <4>3. Writes(G(y), i)
        BY <1>0, <3>1, <4>1 DEF Writes
      <4> QED BY <4>2, <4>3
    <3> QED BY <3>2, <3>3, <3>4
  <2>4. i \in Nat /\ (i <= pre \/ m < i \/ (pre < i /\ i <= m))
    BY <1>0
  <2> QED BY <2>1, <2>2, <2>3, <2>4
<1> QED BY <1>5, <1>6, <1>7, <1>8, <1>9 DEF Fits

Sides(u, v, s, n, m, k) ==
    LET t == Append(s, <<n, m>>)
    IN  /\ k = Len(t)
        /\ u = [y \in 1..k |-> t[y][1]]
        /\ v = [y \in 1..k |-> t[y][2]]

\* A pair more, the ends of the middles: where the pairs stand on either side.
LEMMA PairsMark ==
    ASSUME NEW a, NEW b, NEW pre \in Nat, NEW n \in Nat, NEW m \in Nat, pre <= n, pre <= m,
           NEW s, Pairs(s, a, b, pre, pre, n, m), NEW k, NEW u, NEW v,
           Sides(u, v, s, n, m, k)
    PROVE  /\ Marks(u, k, pre, n) /\ Marks(v, k, pre, m)
           /\ \A y \in 1..k : y < k => a[u[y] + 1] = b[v[y] + 1]
<1> DEFINE e == <<n, m>>
           t == Append(s, e)
           P == Nat \X Nat
<1>0. k = Len(t) /\ u = [y \in 1..k |-> t[y][1]] /\ v = [y \in 1..k |-> t[y][2]]
  BY DEF Sides
<1>1. s \in Seq(P) /\ e \in P /\ e[1] = n /\ e[2] = m
  BY DEF Pairs
<1>2. \A p \in P : p[1] \in Nat /\ p[2] \in Nat
  OBVIOUS
<1> HIDE DEF e, P
<1>3. /\ t \in Seq(P) /\ k = Len(s) + 1 /\ Len(s) \in Nat
      /\ \A y \in 1..Len(s) : t[y] = s[y] /\ s[y] \in P
      /\ t[Len(s) + 1] = e
  <2>1. /\ t \in Seq(P) /\ Len(t) = Len(s) + 1
        /\ \A y \in 1..Len(s) : t[y] = s[y]
        /\ t[Len(s) + 1] = e
    BY ONLY <1>1, AppendProperties
  <2>2. Len(s) \in Nat /\ \A y \in 1..Len(s) : s[y] \in P
    BY <1>1
  <2> QED BY <1>0, <2>1, <2>2
<1> HIDE DEF t
<1>4. k \in Nat \ {0} /\ t[k] = e
  BY <1>3
<1>5. ASSUME NEW y \in 1..k, y # k PROVE y \in 1..Len(s) /\ u[y] = s[y][1] /\ v[y] = s[y][2]
  <2>1. y \in 1..Len(s)
    BY <1>3, <1>5
  <2> QED BY <1>0, <1>3, <2>1
<1>6. u[k] = n /\ v[k] = m
  BY <1>0, <1>1, <1>4
<1>7. ASSUME NEW y \in 1..k
      PROVE  /\ u[y] \in Nat /\ v[y] \in Nat /\ pre <= u[y] /\ pre <= v[y]
             /\ u[y] <= n /\ v[y] <= m
             /\ y # k => u[y] < n /\ v[y] < m
  <2>1. CASE y = k
    BY <1>6, <2>1
  <2>2. CASE y # k
    <3>1. y \in 1..Len(s) /\ u[y] = s[y][1] /\ v[y] = s[y][2]
      BY <1>5, <2>2
    <3>2. s[y][1] \in Nat /\ s[y][2] \in Nat
      BY <1>2, <1>3, <3>1
    <3>3. pre <= s[y][1] /\ s[y][1] < n /\ pre <= s[y][2] /\ s[y][2] < m
      BY <3>1 DEF Pairs
    <3>4. u[y] \in Nat /\ v[y] \in Nat /\ pre <= u[y] /\ pre <= v[y] /\ u[y] < n /\ v[y] < m
      BY <3>1, <3>2, <3>3
    <3> HIDE DEF e
    <3> QED BY <3>4
  <2> QED BY <2>1, <2>2
<1>8. ASSUME NEW x \in 1..k, NEW y \in 1..k, x < y PROVE u[x] < u[y] /\ v[x] < v[y]
  <2>1. x # k
    BY <1>4, <1>8
  <2>2. CASE y = k
    BY <1>6, <1>7, <2>1, <2>2
  <2>3. CASE y # k
    <3>1. /\ x \in 1..Len(s) /\ u[x] = s[x][1] /\ v[x] = s[x][2]
          /\ y \in 1..Len(s) /\ u[y] = s[y][1] /\ v[y] = s[y][2]
      BY <1>5, <2>1, <2>3
    <3>2. s[x][1] < s[y][1] /\ s[x][2] < s[y][2]
      BY <1>8, <3>1 DEF Pairs
    <3> QED BY <3>1, <3>2
  <2> QED BY <2>2, <2>3
<1>9. ASSUME NEW y \in 1..k, y < k PROVE a[u[y] + 1] = b[v[y] + 1]
  <2>1. y # k
    BY <1>4, <1>9
  <2>2. y \in 1..Len(s) /\ u[y] = s[y][1] /\ v[y] = s[y][2]
    BY <1>5, <2>1
  <2>3. a[s[y][1] + 1] = b[s[y][2] + 1]
    BY <2>2 DEF Pairs
  <2> QED BY <2>2, <2>3
<1>10. u \in [1..k -> Nat] /\ v \in [1..k -> Nat]
  BY <1>0, <1>7
<1> QED BY <1>4, <1>6, <1>7, <1>8, <1>9, <1>10 DEF Marks

\* diff: its hunks fit.
LEMMA DiffFits ==
    ASSUME NEW S, NEW a \in Seq(S), NEW b \in Seq(S), NEW side \in BOOLEAN
    PROVE  /\ Diff(a, b, side) \in Seq(HunkType)
           /\ Fits(Range(Diff(a, b, side)), a, b, side)
<1> DEFINE pre == Prefix(a, b)
           suf == Prefix(Reverse(Slice(a, pre, Len(a))), Reverse(Slice(b, pre, Len(b))))
           n == Len(a) - suf
           m == Len(b) - suf
           t == Append(Paired(a, b, pre, n, m), <<n, m>>)
           k == Len(t)
           u == [y \in 1..k |-> t[y][1]]
           v == [y \in 1..k |-> t[y][2]]
           gaps == [y \in 1..k |-> Gap(u, v, y, pre, side)]
           set == {h \in Range(gaps) : h.b0 < h.b1 \/ h.s0 < h.s1}
           hs == Among(gaps, set)
<1>1. /\ pre \in Nat /\ pre <= Len(a) /\ pre <= Len(b)
      /\ \A i \in 1..pre : a[i] = b[i]
  BY PrefixIs
<1> HIDE DEF pre
<1>2. /\ suf \in Nat /\ pre + suf <= Len(a) /\ pre + suf <= Len(b)
      /\ \A i \in 1..suf : a[Len(a) - i + 1] = b[Len(b) - i + 1]
  BY <1>1, SuffixIs
<1>3. Diff(a, b, side) = Gaps(t, pre, side)
  BY DEF Diff, DiffBetween, pre
<1> HIDE DEF suf
<1>4. /\ Len(a) \in Nat /\ Len(b) \in Nat
  OBVIOUS
<1>5. /\ n \in Nat /\ m \in Nat /\ pre <= n /\ pre <= m /\ n <= Len(a) /\ m <= Len(b)
      /\ Len(a) - n = Len(b) - m /\ Len(a) = n + suf /\ Len(b) = m + suf
  BY <1>1, <1>2, <1>4
<1> HIDE DEF n, m
<1>6. ASSUME NEW i \in 1..Len(a), n < i PROVE a[i] = b[i - n + m]
  <2> DEFINE j == Len(a) - i + 1
  <2>1. j \in 1..suf /\ Len(a) - j + 1 = i /\ Len(b) - j + 1 = i - n + m
    BY <1>2, <1>4, <1>5, <1>6
  <2> HIDE DEF j
  <2>2. a[Len(a) - j + 1] = b[Len(b) - j + 1]
    BY <1>2, <2>1
  <2> QED BY <2>1, <2>2
<1>7. Pairs(Paired(a, b, pre, n, m), a, b, pre, pre, n, m)
  BY <1>1, <1>5, PairedIs
<1>8. t \in Seq(Nat \X Nat)
  <2> DEFINE P == Nat \X Nat
             e == <<n, m>>
  <2>1. Paired(a, b, pre, n, m) \in Seq(P) /\ e \in P
    BY <1>5, <1>7 DEF Pairs
  <2>2. t = Append(Paired(a, b, pre, n, m), e)
    OBVIOUS
  <2> HIDE DEF P, e, t
  <2>3. t \in Seq(P)
    BY <2>1, <2>2, AppendProperties
  <2> QED BY <2>3 DEF P
<1> DEFINE s == Paired(a, b, pre, n, m)
<1>9. t = Append(s, <<n, m>>)
  OBVIOUS
<1> HIDE DEF s, t
<1>10. k \in Nat /\ DOMAIN t = 1..k
  BY <1>8
<1>11. Gaps(t, pre, side) = hs
  <2> DEFINE after(y) == IF y = 1 THEN <<pre, pre>> ELSE <<t[y - 1][1] + 1, t[y - 1][2] + 1>>
             gap(from, to) == Hunk(from[1], to[1], from[2], to[2], side)
             old == [y \in DOMAIN t |-> gap(after(y), t[y])]
  <2>1. Gaps(t, pre, side) = Among(old, {h \in Range(old) : h.b0 < h.b1 \/ h.s0 < h.s1})
    BY DEF Gaps
  <2>2. ASSUME NEW y \in 1..k PROVE gap(after(y), t[y]) = Gap(u, v, y, pre, side)
    <3>1. u[y] = t[y][1] /\ v[y] = t[y][2]
      OBVIOUS
    <3>2. y # 1 => u[y - 1] = t[y - 1][1] /\ v[y - 1] = t[y - 1][2]
      BY <1>10
    <3>3. after(y)[1] = From(u, y, pre) /\ after(y)[2] = From(v, y, pre)
      BY <3>2 DEF From
    <3> HIDE DEF u, v, after
    <3> QED BY <3>1, <3>3 DEF Gap
  <2> HIDE DEF gap, after
  <2>3. old = gaps
    <3> HIDE DEF u, v
    <3> QED BY <1>10, <2>2
  <2> HIDE DEF old, gaps
  <2> QED BY <2>1, <2>3
<1>12. /\ Marks(u, k, pre, n) /\ Marks(v, k, pre, m)
       /\ \A y \in 1..k : y < k => a[u[y] + 1] = b[v[y] + 1]
  <2>1. Pairs(s, a, b, pre, pre, n, m)
    BY <1>7 DEF s
  <2>2. Sides(u, v, s, n, m, k)
    BY <1>9 DEF Sides
  <2> HIDE DEF k, u, v
  <2>3. pre \in Nat /\ n \in Nat /\ m \in Nat /\ pre <= n /\ pre <= m
    BY <1>1, <1>5
  <2>4. Marks(u, k, pre, n)
    BY ONLY <2>1, <2>2, <2>3, PairsMark
  <2>5. Marks(v, k, pre, m)
    BY ONLY <2>1, <2>2, <2>3, PairsMark
  <2>6. \A y \in 1..k : y < k => a[u[y] + 1] = b[v[y] + 1]
    BY ONLY <2>1, <2>2, <2>3, PairsMark
  <2> QED BY <2>4, <2>5, <2>6
<1> HIDE DEF k, u, v
<1>13. ASSUME NEW y \in 1..k PROVE Gap(u, v, y, pre, side) \in HunkType
  <2>1. /\ From(u, y, pre) \in Nat /\ u[y] \in Nat /\ From(v, y, pre) \in Nat /\ v[y] \in Nat
    BY <1>1, <1>5, <1>12, FromIs DEF Marks
  <2> QED BY <2>1 DEF Gap, Hunk, HunkType
<1>14. gaps \in Seq(HunkType) /\ Range(gaps) = {Gap(u, v, y, pre, side) : y \in 1..k}
  <2>1. gaps \in [1..k -> HunkType]
    BY <1>13
  <2>2. Range(gaps) = {Gap(u, v, y, pre, side) : y \in 1..k}
    BY DEF Range
  <2> HIDE DEF gaps
  <2> QED BY <1>10, <2>1, <2>2, FunctionSeq
<1>15. hs \in Seq(HunkType) /\ Range(hs) = Range(gaps) \cap set
  <2> HIDE DEF gaps, set
  <2> QED BY <1>14, AmongIs
<1> DEFINE H == Range(hs)
<1>16. \A h \in H : \E y \in 1..k : h = Gap(u, v, y, pre, side)
  <2> HIDE DEF gaps, set, hs
  <2> QED BY <1>14, <1>15
<1>17. \A y \in 1..k : LET h == Gap(u, v, y, pre, side)
                       IN  h.b0 < h.b1 \/ h.s0 < h.s1 => h \in H
  <2> HIDE DEF gaps, hs
  <2> QED BY <1>14, <1>15
<1>18. Fits(H, a, b, side)
  <2> HIDE DEF H
  <2>1. Aligned(a, b, pre, n, m)
    BY <1>1, <1>5, <1>6 DEF Aligned
  <2>2. GapsOf(H, u, v, k, pre, side)
    BY <1>16, <1>17 DEF GapsOf
  <2> QED BY <1>1, <1>5, <1>12, <2>1, <2>2, GapsFit
<1> HIDE DEF hs
<1> QED BY <1>3, <1>11, <1>15, <1>18
-----------------------------------------------------------------------------
(* The hunks in order *)

Ordered(hs) == \A x, y \in 1..Len(hs) : x < y => hs[x].b0 <= hs[y].b0

LEMMA BeforeIs ==
    ASSUME NEW g \in HunkType, NEW h \in HunkType
    PROVE  /\ Before(g, h) => g.b0 <= h.b0
           /\ ~ Before(g, h) => h.b0 <= g.b0
BY DEF Before, HunkType

\* Where a hunk goes among others.
LEMMA PlaceExists ==
    ASSUME NEW hs \in Seq(HunkType), NEW h \in HunkType
    PROVE  \E n \in 0..Len(hs) : /\ \A i \in 1..n : Before(hs[i], h)
                                 /\ n < Len(hs) => ~ Before(hs[n + 1], h)
<1> DEFINE T == {n \in Nat : n <= Len(hs) /\ (n < Len(hs) => ~ Before(hs[n + 1], h))}
<1>1. Len(hs) \in Nat
  OBVIOUS
<1>2. Len(hs) \in T /\ T \subseteq Nat
  BY <1>1
<1>3. PICK n \in T : \A k \in T : n <= k
  <2> HIDE DEF T
  <2> QED BY <1>2, Least
<1>4. n \in 0..Len(hs) /\ (n < Len(hs) => ~ Before(hs[n + 1], h))
  BY <1>1, <1>3
<1>5. ASSUME NEW i \in 1..n PROVE Before(hs[i], h)
  <2> DEFINE k == i - 1
  <2>1. k \in Nat /\ k < n /\ k < Len(hs) /\ k <= Len(hs) /\ k + 1 = i /\ ~ (n <= k)
    BY <1>1, <1>4
  <2> HIDE DEF k
  <2>2. k \notin T
    <3> HIDE DEF T
    <3> QED BY <1>3, <2>1
  <2>3. Before(hs[k + 1], h)
    BY <2>1, <2>2
  <2> QED BY <2>1, <2>3
<1> QED BY <1>4, <1>5

LEMMA PlacedIs ==
    ASSUME NEW hs \in Seq(HunkType), NEW h \in HunkType, Ordered(hs)
    PROVE  /\ Placed(hs, h) \in Seq(HunkType) /\ Ordered(Placed(hs, h))
           /\ Range(Placed(hs, h)) = Range(hs) \cup {h}
<1> DEFINE l == Len(hs)
           Is(n) == /\ \A i \in 1..n : Before(hs[i], h)
                    /\ n < l => ~ Before(hs[n + 1], h)
           n == CHOOSE n \in 0..l : Is(n)
           one == <<h>>
           p == SubSeq(hs, 1, n) \o one \o SubSeq(hs, n + 1, l)
<1>1. Placed(hs, h) = p
  BY DEF Placed
<1>2. n \in 0..l /\ Is(n)
  <2>1. \E x \in 0..l : Is(x)
    BY PlaceExists
  <2> HIDE DEF Is
  <2> QED BY <2>1
<1>3. l \in Nat /\ \A i \in 1..l : hs[i] \in HunkType
  OBVIOUS
<1> HIDE DEF n, l
<1>4. one \in Seq(HunkType) /\ Len(one) = 1 /\ one[1] = h
  OBVIOUS
<1> HIDE DEF one
<1> DEFINE s == SubSeq(hs, 1, n)
           t == SubSeq(hs, n + 1, l)
<1>5. /\ s \in Seq(HunkType) /\ Len(s) = n /\ \A i \in 1..n : s[i] = hs[i]
      /\ Range(s) = {hs[i] : i \in 1..n}
  <2>1. /\ \A i \in 1..n : hs[i] \in HunkType
        /\ n \in Int /\ 1 \in Int
    BY <1>2, <1>3
  <2>2. /\ s \in Seq(HunkType) /\ Len(s) = (IF 1 <= n THEN n - 1 + 1 ELSE 0)
        /\ \A i \in 1..(n - 1 + 1) : s[i] = hs[1 + i - 1]
    BY <2>1, SubSeqProperties
  <2> HIDE DEF s
  <2>3. Len(s) = n
    BY <1>2, <1>3, <2>2
  <2>4. ASSUME NEW i \in 1..n PROVE s[i] = hs[i]
    <3>1. i \in 1..(n - 1 + 1) /\ 1 + i - 1 = i
      BY <1>2, <1>3
    <3> QED BY <2>2, <3>1
  <2>5. Range(s) = {s[i] : i \in 1..n}
    BY <2>2, <2>3, RangeIs
  <2> DEFINE N == 1..n
  <2> HIDE DEF N
  <2>6. {s[i] : i \in N} = {hs[i] : i \in N}
    BY <2>4 DEF N
  <2> QED BY <2>2, <2>3, <2>4, <2>5, <2>6 DEF N
<1>6. /\ t \in Seq(HunkType) /\ Len(t) = l - n /\ \A i \in 1..(l - n) : t[i] = hs[n + i]
  <2>1. /\ \A i \in (n + 1)..l : hs[i] \in HunkType
        /\ n + 1 \in Int /\ l \in Int
    BY <1>2, <1>3
  <2>2. /\ t \in Seq(HunkType) /\ Len(t) = (IF n + 1 <= l THEN l - (n + 1) + 1 ELSE 0)
        /\ \A i \in 1..(l - (n + 1) + 1) : t[i] = hs[(n + 1) + i - 1]
    BY <2>1, SubSeqProperties
  <2> HIDE DEF t
  <2>3. Len(t) = l - n
    BY <1>2, <1>3, <2>2
  <2>4. ASSUME NEW i \in 1..(l - n) PROVE t[i] = hs[n + i]
    <3>1. i \in 1..(l - (n + 1) + 1) /\ (n + 1) + i - 1 = n + i
      BY <1>2, <1>3
    <3> QED BY <2>2, <3>1
  <2> QED BY <2>2, <2>3, <2>4
<1> HIDE DEF s, t
<1> DEFINE q == s \o one
<1>7. /\ q \in Seq(HunkType) /\ Len(q) = n + 1
      /\ \A i \in 1..(n + 1) : q[i] = IF i <= n THEN s[i] ELSE one[i - n]
  <2>1. s \in Seq(HunkType) /\ one \in Seq(HunkType)
    BY <1>4, <1>5
  <2>2. /\ q \in Seq(HunkType) /\ Len(q) = Len(s) + Len(one)
        /\ \A i \in 1..(Len(s) + Len(one)) : q[i] = IF i <= Len(s) THEN s[i] ELSE one[i - Len(s)]
    BY ONLY <2>1, ConcatProperties
  <2> QED BY <1>4, <1>5, <2>2
<1> HIDE DEF q
<1>8. p = q \o t
  BY DEF q, s, t
<1> HIDE DEF p
<1>9. /\ p \in Seq(HunkType) /\ Len(p) = (n + 1) + (l - n)
      /\ \A i \in 1..((n + 1) + (l - n)) : p[i] = IF i <= n + 1 THEN q[i] ELSE t[i - (n + 1)]
  BY <1>6, <1>7, <1>8, ConcatProperties
<1>10. Len(p) = l + 1 /\ (n + 1) + (l - n) = l + 1
  BY <1>2, <1>3, <1>9
<1>11. ASSUME NEW i \in 1..n PROVE p[i] = hs[i]
  <2>1. i \in 1..((n + 1) + (l - n)) /\ i <= n + 1 /\ i \in 1..(n + 1) /\ i <= n
    BY <1>2, <1>3
  <2>2. p[i] = q[i] /\ q[i] = s[i] /\ s[i] = hs[i]
    BY <1>5, <1>7, <1>9, <2>1
  <2> QED BY <2>2
<1>12. p[n + 1] = h
  <2>1. n + 1 \in 1..((n + 1) + (l - n)) /\ n + 1 \in 1..(n + 1) /\ ~ (n + 1 <= n) /\ (n + 1) - n = 1
        /\ n + 1 <= n + 1
    BY <1>2, <1>3
  <2>2. p[n + 1] = q[n + 1] /\ q[n + 1] = one[(n + 1) - n]
    BY <1>7, <1>9, <2>1
  <2> QED BY <1>4, <2>1, <2>2
<1>13. ASSUME NEW i \in (n + 2)..(l + 1) PROVE p[i] = hs[i - 1] /\ i - 1 \in (n + 1)..l
  <2>1. /\ i \in 1..((n + 1) + (l - n)) /\ ~ (i <= n + 1) /\ i - (n + 1) \in 1..(l - n)
        /\ n + (i - (n + 1)) = i - 1 /\ i - 1 \in (n + 1)..l
    BY <1>2, <1>3
  <2>2. p[i] = t[i - (n + 1)]
    BY <1>9, <2>1
  <2>3. t[i - (n + 1)] = hs[n + (i - (n + 1))]
    BY <1>6, <2>1
  <2> QED BY <2>1, <2>2, <2>3
<1>14. \A i \in 1..l : hs[i].b0 \in Nat
  BY <1>3 DEF HunkType
<1>15. h.b0 \in Nat
  BY DEF HunkType
<1>16. ASSUME NEW i \in 1..n PROVE i \in 1..l /\ hs[i].b0 <= h.b0
  <2>1. i \in 1..l
    BY <1>2, <1>3
  <2> QED BY <1>2, <1>3, <2>1, BeforeIs
<1>17. ASSUME NEW i \in (n + 1)..l PROVE i \in 1..l /\ h.b0 <= hs[i].b0
  <2>1. i \in 1..l /\ n + 1 \in 1..l /\ n < l
    BY <1>2, <1>3
  <2>2. h.b0 <= hs[n + 1].b0
    BY <1>2, <1>3, <2>1, BeforeIs
  <2>3. i = n + 1 \/ n + 1 < i
    BY <1>2, <1>3
  <2>4. hs[n + 1].b0 <= hs[i].b0
    <3>1. CASE i = n + 1
      BY <1>14, <2>1, <3>1
    <3>2. CASE n + 1 < i
      BY <2>1, <3>2 DEF Ordered, l
    <3> QED BY <2>3, <3>1, <3>2
  <2> QED BY <1>14, <1>15, <2>1, <2>2, <2>4
<1>18. ASSUME NEW x \in 1..(l + 1), NEW y \in 1..(l + 1), x < y PROVE p[x].b0 <= p[y].b0
  <2>0. \A i, j \in 1..l : i < j => hs[i].b0 <= hs[j].b0
    BY DEF Ordered, l
  <2>1. CASE x \in 1..n
    <3>1. p[x] = hs[x] /\ x \in 1..l /\ hs[x].b0 <= h.b0
      BY <1>11, <1>16, <2>1
    <3>2. CASE y \in 1..n
      BY <1>11, <1>16, <1>18, <2>0, <2>1, <3>1, <3>2
    <3>3. CASE y = n + 1
      BY <1>12, <3>1, <3>3
    <3>4. CASE y \in (n + 2)..(l + 1)
      <4>1. p[y] = hs[y - 1] /\ y - 1 \in 1..l /\ h.b0 <= hs[y - 1].b0
        BY <1>13, <1>17, <3>4
      <4> QED BY <1>14, <1>15, <3>1, <4>1
    <3> QED BY <1>2, <1>3, <3>2, <3>3, <3>4
  <2>2. CASE x = n + 1
    <3>1. y \in (n + 2)..(l + 1)
      BY <1>2, <1>3, <1>18, <2>2
    <3>2. p[y] = hs[y - 1] /\ h.b0 <= hs[y - 1].b0
      BY <1>13, <1>17, <3>1
    <3> QED BY <1>12, <2>2, <3>2
  <2>3. CASE x \in (n + 2)..(l + 1)
    <3>1. y \in (n + 2)..(l + 1) /\ x - 1 < y - 1
      BY <1>2, <1>3, <1>18, <2>3
    <3>2. p[x] = hs[x - 1] /\ x - 1 \in 1..l /\ p[y] = hs[y - 1] /\ y - 1 \in 1..l
      BY <1>13, <1>17, <2>3, <3>1
    <3>3. hs[x - 1].b0 <= hs[y - 1].b0
      BY <2>0, <3>1, <3>2
    <3> QED BY <3>2, <3>3
  <2> QED BY <1>2, <1>3, <2>1, <2>2, <2>3
<1>19. Ordered(p)
  BY <1>10, <1>18 DEF Ordered
<1>20. Range(p) = {p[i] : i \in 1..(l + 1)} /\ Range(hs) = {hs[i] : i \in 1..l}
  BY <1>9, <1>10, RangeIs DEF l
<1>21. ASSUME NEW i \in 1..(l + 1) PROVE p[i] \in Range(hs) \cup {h}
  <2>1. CASE i \in 1..n
    BY <1>11, <1>16, <1>20, <2>1
  <2>2. CASE i = n + 1
    BY <1>12, <2>2
  <2>3. CASE i \in (n + 2)..(l + 1)
    <3>1. p[i] = hs[i - 1] /\ i - 1 \in 1..l
      BY <1>13, <1>17, <2>3
    <3> QED BY <1>20, <3>1
  <2> QED BY <1>2, <1>3, <2>1, <2>2, <2>3
<1>22. ASSUME NEW i \in 1..l PROVE hs[i] \in Range(p)
  <2>1. CASE i \in 1..n
    <3>1. p[i] = hs[i] /\ i \in 1..(l + 1)
      BY <1>3, <1>11, <2>1
    <3> QED BY <1>20, <3>1
  <2>2. CASE i \notin 1..n
    <3> DEFINE j == i + 1
    <3>1. j \in (n + 2)..(l + 1) /\ j \in 1..(l + 1) /\ j - 1 = i
      BY <1>2, <1>3, <2>2
    <3> HIDE DEF j
    <3>2. p[j] = hs[i]
      BY <1>13, <3>1
    <3> QED BY <1>20, <3>1, <3>2
  <2> QED BY <2>1, <2>2
<1>23. h \in Range(p)
  <2>1. n + 1 \in 1..(l + 1)
    BY <1>2, <1>3
  <2> QED BY <1>12, <1>20, <2>1
<1>24. Range(p) = Range(hs) \cup {h}
  BY <1>20, <1>21, <1>22, <1>23
<1> QED BY <1>1, <1>9, <1>19, <1>24

LEMMA SortedIs ==
    ASSUME NEW hunks \in Seq(HunkType)
    PROVE  /\ Sorted(hunks) \in Seq(HunkType) /\ Ordered(Sorted(hunks))
           /\ Range(Sorted(hunks)) = Range(hunks)
<1> DEFINE n == Len(hunks)
           st == [p \in Seq(HunkType) \X (1..n) |-> Placed(p[1], hunks[p[2]])]
           good == [k \in 0..n |-> {r \in Seq(HunkType) : /\ Ordered(r)
                                                          /\ Range(r) = {hunks[i] : i \in 1..k}}]
           Is(g) == g = [k \in 0..n |-> IF k = 0 THEN <<>> ELSE Placed(g[k - 1], hunks[k])]
           sorted == CHOOSE g : Is(g)
<1>1. n \in Nat /\ \A k \in 1..n : hunks[k] \in HunkType
  OBVIOUS
<1>2. Sorted(hunks) = sorted[n]
  BY DEF Sorted
<1> HIDE DEF n
<1>3. <<>> \in good[0]
  <2>1. {hunks[i] : i \in 1..0} = {} /\ Ordered(<<>>)
    BY DEF Ordered
  <2> QED BY <1>1, <2>1, NoneRange
<1>4. ASSUME NEW k \in 1..n, NEW r \in good[k - 1] PROVE Placed(r, hunks[k]) \in good[k]
  <2> DEFINE Old == {hunks[i] : i \in 1..(k - 1)}
             New == {hunks[i] : i \in 1..k}
  <2>1. r \in Seq(HunkType) /\ Ordered(r) /\ Range(r) = Old
    BY <1>1
  <2>2. New = Old \cup {hunks[k]}
    BY <1>1
  <2>3. good[k] = {t \in Seq(HunkType) : Ordered(t) /\ Range(t) = New}
    BY <1>1
  <2> HIDE DEF Old, New, good
  <2>4. /\ Placed(r, hunks[k]) \in Seq(HunkType) /\ Ordered(Placed(r, hunks[k]))
        /\ Range(Placed(r, hunks[k])) = Range(r) \cup {hunks[k]}
    BY <1>1, <2>1, PlacedIs
  <2> QED BY <2>1, <2>2, <2>3, <2>4
<1>5. ASSUME NEW k \in 1..n, NEW r \in good[k - 1]
      PROVE  st[<<r, k>>] = Placed(r, hunks[k]) /\ r \in Seq(HunkType)
  BY <1>1
<1> HIDE DEF st
<1>6. \A k \in 1..n : \A r \in good[k - 1] : st[<<r, k>>] \in good[k]
  <2> HIDE DEF good
  <2> QED BY <1>4, <1>5
<1>7. \E g : Is(g)
  <2> HIDE DEF good
  <2>1. PICK g : Row(g, <<>>, st, n) /\ \A k \in 0..n : g[k] \in good[k]
    BY <1>1, <1>3, <1>6, GoodRow
  <2>2. \A k \in 1..n : st[<<g[k - 1], k>>] = Placed(g[k - 1], hunks[k])
    BY <1>1, <1>5, <2>1
  <2>3. Is(g)
    BY <1>1, <2>1, <2>2 DEF Row
  <2> QED BY <2>3
<1>8. Is(sorted)
  BY <1>7
<1> HIDE DEF sorted
<1>9. sorted[0] = <<>> /\ \A k \in 1..n : sorted[k] = Placed(sorted[k - 1], hunks[k])
  BY <1>1, <1>8
<1>10. \A k \in 0..n : sorted[k] \in good[k]
  <2> HIDE DEF good
  <2>1. /\ sorted[0] \in good[0]
        /\ \A k \in 1..n : sorted[k - 1] \in good[k - 1] => sorted[k] \in good[k]
    BY <1>3, <1>4, <1>9
  <2> QED BY <1>1, <2>1, Walks
<1>11. /\ sorted[n] \in Seq(HunkType) /\ Ordered(sorted[n])
       /\ Range(sorted[n]) = {hunks[i] : i \in 1..n}
  <2>1. good[n] = {r \in Seq(HunkType) : Ordered(r) /\ Range(r) = {hunks[i] : i \in 1..n}}
    BY <1>1
  <2> HIDE DEF good
  <2>2. sorted[n] \in good[n]
    BY <1>1, <1>10
  <2> QED BY <2>1, <2>2
<1>12. Range(hunks) = {hunks[i] : i \in 1..n}
  BY RangeIs DEF n
<1> QED BY <1>2, <1>11, <1>12
-----------------------------------------------------------------------------
(* The groups *)

GroupType == [g0 : Nat, g1 : Nat, hunks : Seq(HunkType)]

\* A group of some of the hunks of hs holds them in order.
GroupOk(g, hs, n) ==
    /\ g \in GroupType /\ g.g0 <= g.g1 /\ g.g1 <= n
    /\ Ordered(g.hunks) /\ Range(g.hunks) \subseteq hs
    /\ \A h \in Range(g.hunks) : g.g0 <= h.b0 /\ h.b1 <= g.g1
    /\ \E h \in hs : g.g0 = h.b0

\* The groups of the hunks hs follow one another.
GroupsOk(gs, hs, n) ==
    /\ gs \in Seq(GroupType)
    /\ \A x \in 1..Len(gs) : GroupOk(gs[x], hs, n)
    /\ \A x, y \in 1..Len(gs) : x < y => gs[x].g1 <= gs[y].g0
    /\ \A h \in hs : \E x \in 1..Len(gs) : h \in Range(gs[x].hunks)

LEMMA GroupWider ==
    ASSUME NEW n \in Nat, NEW g, NEW hs, NEW h, GroupOk(g, hs, n)
    PROVE  GroupOk(g, hs \cup {h}, n)
BY DEF GroupOk

LEMMA OrderedMore ==
    ASSUME NEW hs \in Seq(HunkType), Ordered(hs), NEW h \in HunkType,
           \A g \in Range(hs) : g.b0 <= h.b0
    PROVE  Ordered(Append(hs, h))
<1> DEFINE t == Append(hs, h)
<1>1. /\ t \in Seq(HunkType) /\ Len(t) = Len(hs) + 1
      /\ \A i \in 1..Len(hs) : t[i] = hs[i]
      /\ t[Len(hs) + 1] = h
  BY AppendProperties
<1> HIDE DEF t
<1>2. Len(hs) \in Nat /\ \A i \in 1..Len(hs) : hs[i] \in Range(hs)
  BY RangeIs
<1>3. ASSUME NEW x \in 1..Len(t), NEW y \in 1..Len(t), x < y PROVE t[x].b0 <= t[y].b0
  <2>1. x \in 1..Len(hs)
    BY <1>1, <1>2, <1>3
  <2>2. CASE y \in 1..Len(hs)
    BY <1>1, <1>3, <2>1, <2>2 DEF Ordered
  <2>3. CASE y = Len(hs) + 1
    BY <1>1, <1>2, <2>1, <2>3
  <2> QED BY <1>1, <1>2, <2>2, <2>3
<1> QED BY <1>3 DEF Ordered, t

LEMMA JoinedOk ==
    ASSUME NEW n \in Nat, NEW g, NEW hs, hs \subseteq HunkType, GroupOk(g, hs, n),
           NEW h \in HunkType, h.b0 <= h.b1, h.b1 <= n, \A f \in hs : f.b0 <= h.b0
    PROVE  GroupOk(Joined(g, h), hs \cup {h}, n) /\ g.g1 <= Joined(g, h).g1
<1> DEFINE new == Append(g.hunks, h)
           j == Joined(g, h)
<1>1. /\ g.g0 \in Nat /\ g.g1 \in Nat /\ g.hunks \in Seq(HunkType)
      /\ h.b0 \in Nat /\ h.b1 \in Nat
  BY DEF GroupOk, GroupType, HunkType
<1>2. g.g0 <= g.g1 /\ g.g1 <= n /\ g.g0 <= h.b0 /\ Range(g.hunks) \subseteq hs /\ Ordered(g.hunks)
  BY DEF GroupOk
<1>3. new \in Seq(HunkType) /\ Range(new) = Range(g.hunks) \cup {h}
  BY <1>1, AppendRange
<1>4. Ordered(new)
  BY <1>1, <1>2, OrderedMore
<1> DEFINE top == Larger(g.g1, h.b1)
<1>5. top \in Nat /\ g.g1 <= top /\ h.b1 <= top /\ top <= n /\ g.g0 <= top
  BY <1>1, <1>2 DEF Larger
<1>6. j = [g0 |-> g.g0, g1 |-> top, hunks |-> new]
  BY DEF Joined
<1> HIDE DEF new, top, j
<1>7. j.g0 = g.g0 /\ j.g1 = top /\ j.hunks = new /\ j \in GroupType
  BY <1>1, <1>3, <1>5, <1>6 DEF GroupType
<1>8. ASSUME NEW f \in Range(new) PROVE g.g0 <= f.b0 /\ f.b1 <= top
  <2>1. CASE f = h
    BY <1>2, <1>5, <2>1
  <2>2. CASE f \in Range(g.hunks)
    <3>1. f.b0 \in Nat /\ f.b1 \in Nat
      BY <1>2, <2>2 DEF HunkType
    <3>2. g.g0 <= f.b0 /\ f.b1 <= g.g1
      BY <2>2 DEF GroupOk
    <3> QED BY <1>1, <1>5, <3>1, <3>2
  <2> QED BY <1>3, <2>1, <2>2
<1>9. \E f \in hs \cup {h} : j.g0 = f.b0
  BY <1>7 DEF GroupOk
<1>10. GroupOk(j, hs \cup {h}, n)
  BY <1>2, <1>3, <1>4, <1>5, <1>7, <1>8, <1>9 DEF GroupOk
<1> QED BY <1>5, <1>7, <1>10 DEF j

LEMMA AloneOk ==
    ASSUME NEW n \in Nat, NEW hs, NEW h \in HunkType, h.b0 <= h.b1, h.b1 <= n
    PROVE  GroupOk([g0 |-> h.b0, g1 |-> h.b1, hunks |-> <<h>>], hs \cup {h}, n)
<1> DEFINE g == [g0 |-> h.b0, g1 |-> h.b1, hunks |-> <<h>>]
<1>1. h.b0 \in Nat /\ h.b1 \in Nat
  BY DEF HunkType
<1>2. <<h>> \in Seq(HunkType) /\ Range(<<h>>) = {h}
  BY OneRange
<1>3. Ordered(<<h>>)
  BY DEF Ordered
<1>4. g.g0 = h.b0 /\ g.g1 = h.b1 /\ g.hunks = <<h>> /\ g \in GroupType
  BY <1>1, <1>2 DEF GroupType
<1> HIDE DEF g
<1>5. \A f \in Range(g.hunks) : g.g0 <= f.b0 /\ f.b1 <= g.g1
  BY <1>1, <1>2, <1>4
<1>6. GroupOk(g, hs \cup {h}, n)
  BY <1>2, <1>3, <1>4, <1>5 DEF GroupOk
<1> QED BY <1>6 DEF g

\* A hunk more: it joins the last group, or stands in a new one past it.
LEMMA JoinsLast ==
    ASSUME NEW n \in Nat, NEW gs, NEW hs, hs \subseteq HunkType, GroupsOk(gs, hs, n),
           NEW h \in HunkType, h.b0 <= h.b1, h.b1 <= n, \A f \in hs : f.b0 <= h.b0,
           gs # <<>>
    PROVE  GroupsOk(Append(Front(gs), Joined(Last(gs), h)), hs \cup {h}, n)
<1> DEFINE l == Len(gs)
           e == Joined(gs[l], h)
           s == SubSeq(gs, 1, l - 1)
           r == Append(s, e)
           all == hs \cup {h}
<1>1. gs \in Seq(GroupType) /\ l \in Nat /\ l # 0 /\ \A x \in 1..l : gs[x] \in GroupType
  BY DEF GroupsOk
<1>2. Append(Front(gs), Joined(Last(gs), h)) = r
  BY DEF Front, Last
<1> HIDE DEF l
<1>3. l \in 1..l
  BY <1>1
<1>4. GroupOk(gs[l], hs, n)
  BY <1>3 DEF GroupsOk, l
<1>5. GroupOk(e, all, n) /\ gs[l].g1 <= e.g1
  BY <1>4, JoinedOk
<1>6. e.g0 = gs[l].g0 /\ e.hunks = Append(gs[l].hunks, h) /\ e \in GroupType
  BY <1>5 DEF Joined, GroupOk
<1> HIDE DEF e
<1>7. s \in Seq(GroupType) /\ Len(s) = l - 1 /\ \A x \in 1..(l - 1) : s[x] = gs[x]
  <2>1. /\ \A i \in 1..(l - 1) : gs[i] \in GroupType
        /\ 1 \in Int /\ l - 1 \in Int
    BY <1>1
  <2>2. /\ s \in Seq(GroupType) /\ Len(s) = (IF 1 <= l - 1 THEN (l - 1) - 1 + 1 ELSE 0)
        /\ \A i \in 1..((l - 1) - 1 + 1) : s[i] = gs[1 + i - 1]
    BY <2>1, SubSeqProperties
  <2> HIDE DEF s
  <2>3. Len(s) = l - 1
    BY <1>1, <2>2
  <2>4. ASSUME NEW i \in 1..(l - 1) PROVE s[i] = gs[i]
    <3>1. i \in 1..((l - 1) - 1 + 1) /\ 1 + i - 1 = i
      BY <1>1
    <3> QED BY <2>2, <3>1
  <2> QED BY <2>2, <2>3, <2>4
<1> HIDE DEF s
<1>8. r \in Seq(GroupType) /\ Len(r) = l /\ (\A x \in 1..(l - 1) : r[x] = gs[x]) /\ r[l] = e
  <2>1. /\ r \in Seq(GroupType) /\ Len(r) = Len(s) + 1
        /\ \A i \in 1..Len(s) : r[i] = s[i]
        /\ r[Len(s) + 1] = e
    BY <1>6, <1>7, AppendProperties
  <2> HIDE DEF r
  <2>2. Len(s) + 1 = l
    BY <1>1, <1>7
  <2> QED BY <1>7, <2>1, <2>2
<1> HIDE DEF r
<1>9. ASSUME NEW x \in 1..l PROVE x = l \/ (x \in 1..(l - 1) /\ r[x] = gs[x])
  BY <1>1, <1>8
<1>10. ASSUME NEW x \in 1..l PROVE GroupOk(gs[x], hs, n)
  BY DEF GroupsOk, l
<1>11. ASSUME NEW x \in 1..l PROVE GroupOk(r[x], all, n)
  <2>1. CASE x = l
    BY <1>5, <1>8, <2>1
  <2>2. CASE r[x] = gs[x]
    BY <1>10, <2>2, GroupWider
  <2> QED BY <1>9, <2>1, <2>2
<1>12. ASSUME NEW x \in 1..l, NEW y \in 1..l, x < y PROVE r[x].g1 <= r[y].g0
  <2>1. gs[x].g1 <= gs[y].g0
    BY <1>12 DEF GroupsOk, l
  <2>2. r[x] = gs[x]
    <3>1. x # l
      BY <1>1, <1>12
    <3> QED BY <1>9, <3>1
  <2>3. r[y].g0 = gs[y].g0
    BY <1>6, <1>8, <1>9
  <2> QED BY <2>1, <2>2, <2>3
<1>13. Range(e.hunks) = Range(gs[l].hunks) \cup {h}
  <2>1. gs[l].hunks \in Seq(HunkType)
    BY <1>1, <1>3 DEF GroupType
  <2> QED BY <1>6, <2>1, AppendRange
<1>14. ASSUME NEW f \in all PROVE \E x \in 1..l : f \in Range(r[x].hunks)
  <2>1. CASE f = h
    BY <1>3, <1>8, <1>13, <2>1
  <2>2. CASE f \in hs
    <3>1. PICK x \in 1..l : f \in Range(gs[x].hunks)
      BY <2>2 DEF GroupsOk, l
    <3> QED BY <1>3, <1>8, <1>9, <1>13, <3>1
  <2> QED BY <2>1, <2>2
<1>15. GroupsOk(r, all, n)
  BY <1>8, <1>11, <1>12, <1>14 DEF GroupsOk
<1> QED BY <1>2, <1>15

LEMMA StandsAlone ==
    ASSUME NEW n \in Nat, NEW gs, NEW hs, hs \subseteq HunkType, GroupsOk(gs, hs, n),
           NEW h \in HunkType, h.b0 <= h.b1, h.b1 <= n,
           gs # <<>> => ~ (h.b0 < Last(gs).g1)
    PROVE  GroupsOk(Append(gs, [g0 |-> h.b0, g1 |-> h.b1, hunks |-> <<h>>]), hs \cup {h}, n)
<1> DEFINE l == Len(gs)
           e == [g0 |-> h.b0, g1 |-> h.b1, hunks |-> <<h>>]
           r == Append(gs, e)
           all == hs \cup {h}
<1>1. gs \in Seq(GroupType) /\ l \in Nat /\ \A x \in 1..l : gs[x] \in GroupType
  BY DEF GroupsOk
<1>2. GroupOk(e, all, n)
  BY AloneOk
<1>3. e.g0 = h.b0 /\ e.g1 = h.b1 /\ e.hunks = <<h>> /\ e \in GroupType
  BY <1>2 DEF GroupOk
<1>4. \A x \in 1..l : gs[x].g0 \in Nat /\ gs[x].g1 \in Nat
  BY <1>1 DEF GroupType
<1>5. h.b0 \in Nat /\ Range(<<h>>) = {h}
  BY OneRange DEF HunkType
<1> HIDE DEF e
<1>6. /\ r \in Seq(GroupType) /\ Len(r) = l + 1
      /\ \A i \in 1..l : r[i] = gs[i]
      /\ r[l + 1] = e
  BY <1>1, <1>3, AppendProperties
<1> HIDE DEF r
<1>7. ASSUME NEW x \in 1..(l + 1) PROVE x = l + 1 \/ (x \in 1..l /\ r[x] = gs[x])
  <2> HIDE DEF l
  <2> QED BY <1>1, <1>6
<1>8. ASSUME NEW x \in 1..l PROVE GroupOk(gs[x], hs, n) /\ gs[x].g0 <= gs[x].g1
  BY DEF GroupsOk, GroupOk
<1>9. ASSUME NEW x \in 1..(l + 1) PROVE GroupOk(r[x], all, n)
  <2>1. CASE x = l + 1
    BY <1>2, <1>6, <2>1
  <2>2. CASE x \in 1..l /\ r[x] = gs[x]
    BY <1>8, <2>2, GroupWider
  <2> HIDE DEF l
  <2> QED BY <1>7, <2>1, <2>2
<1>10. ASSUME NEW x \in 1..l PROVE gs[x].g1 <= h.b0
  <2>1. l \in 1..l /\ gs # <<>>
    BY <1>1
  <2>2. ~ (h.b0 < gs[l].g1)
    BY <2>1 DEF Last
  <2>3. x = l \/ x < l
    BY <1>1
  <2>4. CASE x = l
    BY <1>4, <1>5, <2>2, <2>4
  <2>5. CASE x < l
    <3>1. gs[x].g1 <= gs[l].g0 /\ gs[l].g0 <= gs[l].g1
      BY <1>8, <2>1, <2>5 DEF GroupsOk
    <3> HIDE DEF l
    <3> QED BY <1>4, <1>5, <2>1, <2>2, <3>1
  <2> QED BY <2>3, <2>4, <2>5
<1>11. ASSUME NEW x \in 1..(l + 1), NEW y \in 1..(l + 1), x < y PROVE r[x].g1 <= r[y].g0
  <2>1. x \in 1..l /\ r[x] = gs[x]
    <3> HIDE DEF l
    <3>1. x # l + 1
      BY <1>1, <1>11
    <3> QED BY <1>7, <3>1
  <2>2. CASE y = l + 1
    BY <1>3, <1>6, <1>10, <2>1, <2>2
  <2>3. CASE y \in 1..l /\ r[y] = gs[y]
    <3>1. gs[x].g1 <= gs[y].g0
      BY <1>11, <2>1, <2>3 DEF GroupsOk
    <3> QED BY <2>1, <2>3, <3>1
  <2> HIDE DEF l
  <2> QED BY <1>7, <2>2, <2>3
<1>12. ASSUME NEW f \in all PROVE \E x \in 1..(l + 1) : f \in Range(r[x].hunks)
  <2>1. CASE f = h
    <3>1. l + 1 \in 1..(l + 1)
      BY <1>1
    <3> QED BY <1>3, <1>5, <1>6, <2>1, <3>1
  <2>2. CASE f \in hs
    <3>1. PICK x \in 1..l : f \in Range(gs[x].hunks)
      BY <2>2 DEF GroupsOk
    <3>2. x \in 1..(l + 1)
      BY <1>1
    <3> QED BY <1>6, <3>1, <3>2
  <2> QED BY <2>1, <2>2
<1>13. GroupsOk(r, all, n)
  <2> HIDE DEF l
  <2> QED BY <1>6, <1>9, <1>11, <1>12 DEF GroupsOk
<1> QED BY <1>13 DEF r, e

LEMMA GatheredOk ==
    ASSUME NEW n \in Nat, NEW gs, NEW hs, hs \subseteq HunkType, GroupsOk(gs, hs, n),
           NEW h \in HunkType, h.b0 <= h.b1, h.b1 <= n, \A f \in hs : f.b0 <= h.b0
    PROVE  GroupsOk(Gathered(gs, h), hs \cup {h}, n)
<1>1. CASE gs # <<>> /\ Joins(h, Last(gs))
  BY <1>1, JoinsLast DEF Gathered
<1>2. CASE ~ (gs # <<>> /\ Joins(h, Last(gs)))
  <2>1. gs # <<>> => ~ (h.b0 < Last(gs).g1)
    BY <1>2 DEF Joins
  <2> QED BY <1>2, <2>1, StandsAlone DEF Gathered
<1> QED BY <1>1, <1>2

LEMMA GroupsIs ==
    ASSUME NEW n \in Nat, NEW hunks \in Seq(HunkType), Ordered(hunks),
           \A h \in Range(hunks) : h.b0 <= h.b1 /\ h.b1 <= n
    PROVE  GroupsOk(Groups(hunks), Range(hunks), n)
<1> DEFINE m == Len(hunks)
           first(k) == {hunks[i] : i \in 1..k}
           st == [p \in Seq(GroupType) \X (1..m) |-> Gathered(p[1], hunks[p[2]])]
           good == [k \in 0..m |-> {r \in Seq(GroupType) : GroupsOk(r, first(k), n)}]
           Is(g) == g = [k \in 0..m |-> IF k = 0 THEN <<>> ELSE Gathered(g[k - 1], hunks[k])]
           gathered == CHOOSE g : Is(g)
<1>1. /\ m \in Nat /\ \A k \in 1..m : hunks[k] \in HunkType
      /\ Range(hunks) = first(m)
  BY RangeIs
<1>2. \A x, y \in 1..m : x < y => hunks[x].b0 <= hunks[y].b0
  BY DEF Ordered
<1>3. Groups(hunks) = gathered[m]
  BY DEF Groups
<1>4. \A k \in 1..m : hunks[k].b0 <= hunks[k].b1 /\ hunks[k].b1 <= n
  BY <1>1
<1> HIDE DEF m
<1>5. <<>> \in good[0]
  <2>1. first(0) = {}
    OBVIOUS
  <2>2. GroupsOk(<<>>, {}, n)
    BY DEF GroupsOk
  <2>3. good[0] = {r \in Seq(GroupType) : GroupsOk(r, first(0), n)}
    BY <1>1
  <2> HIDE DEF good, first
  <2> QED BY <2>1, <2>2, <2>3, NoneRange
<1>6. ASSUME NEW k \in 1..m, NEW r \in good[k - 1] PROVE Gathered(r, hunks[k]) \in good[k]
  <2>1. r \in Seq(GroupType) /\ GroupsOk(r, first(k - 1), n)
    BY <1>1
  <2>2. first(k) = first(k - 1) \cup {hunks[k]}
    BY <1>1
  <2>3. good[k] = {t \in Seq(GroupType) : GroupsOk(t, first(k), n)}
    BY <1>1
  <2>4. first(k - 1) \subseteq HunkType /\ \A f \in first(k - 1) : f.b0 <= hunks[k].b0
    BY <1>1, <1>2
  <2> HIDE DEF first, good
  <2>5. GroupsOk(Gathered(r, hunks[k]), first(k - 1) \cup {hunks[k]}, n)
    BY <1>1, <1>4, <2>1, <2>4, GatheredOk
  <2>6. Gathered(r, hunks[k]) \in Seq(GroupType)
    BY <2>5 DEF GroupsOk
  <2> QED BY <2>2, <2>3, <2>5, <2>6
<1>7. ASSUME NEW k \in 1..m, NEW r \in good[k - 1]
      PROVE  st[<<r, k>>] = Gathered(r, hunks[k]) /\ r \in Seq(GroupType)
  <2>1. r \in Seq(GroupType)
    BY <1>1
  <2> QED BY <2>1
<1> HIDE DEF st
<1>8. \A k \in 1..m : \A r \in good[k - 1] : st[<<r, k>>] \in good[k]
  <2> HIDE DEF good
  <2> QED BY <1>6, <1>7
<1>9. \E g : Is(g)
  <2> HIDE DEF good
  <2>1. PICK g : Row(g, <<>>, st, m) /\ \A k \in 0..m : g[k] \in good[k]
    BY <1>1, <1>5, <1>8, GoodRow
  <2>2. \A k \in 1..m : st[<<g[k - 1], k>>] = Gathered(g[k - 1], hunks[k])
    BY <1>1, <1>7, <2>1
  <2>3. Is(g)
    BY <1>1, <2>1, <2>2 DEF Row
  <2> QED BY <2>3
<1>10. Is(gathered)
  BY <1>9
<1> HIDE DEF gathered
<1>11. gathered[0] = <<>> /\ \A k \in 1..m : gathered[k] = Gathered(gathered[k - 1], hunks[k])
  BY <1>1, <1>10
<1>12. \A k \in 0..m : gathered[k] \in good[k]
  <2> HIDE DEF good
  <2>1. /\ gathered[0] \in good[0]
        /\ \A k \in 1..m : gathered[k - 1] \in good[k - 1] => gathered[k] \in good[k]
    BY <1>5, <1>6, <1>11
  <2> QED BY <1>1, <2>1, Walks
<1>13. GroupsOk(gathered[m], first(m), n)
  <2>1. good[m] = {r \in Seq(GroupType) : GroupsOk(r, first(m), n)}
    BY <1>1
  <2> HIDE DEF good, first
  <2>2. gathered[m] \in good[m]
    BY <1>1, <1>12
  <2> QED BY <2>1, <2>2
<1> QED BY <1>1, <1>3, <1>13
-----------------------------------------------------------------------------
(* One side's version of a group *)

At(S) == [out : Seq(S), pos : Nat]

LEMMA UptoIs ==
    ASSUME NEW S, NEW old \in Seq(S), NEW at \in At(S), NEW end \in Nat, end <= Len(old)
    PROVE  /\ Upto(old, at, end) \in Seq(S)
           /\ Range(Upto(old, at, end)) = Range(at.out) \cup Lines(old, at.pos, end)
<1> DEFINE s == Slice(old, at.pos, end)
<1>1. at.out \in Seq(S) /\ at.pos \in Nat
  BY DEF At
<1>2. s \in Seq(S) /\ Range(s) = Lines(old, at.pos, end)
  BY <1>1, SliceRange
<1> HIDE DEF s
<1>3. at.out \o s \in Seq(S) /\ Range(at.out \o s) = Range(at.out) \cup Range(s)
  BY <1>1, <1>2, ConcatRange
<1> QED BY <1>2, <1>3 DEF Upto, s

\* The hunks of a side that touch a group's lines are all in the group.
SideOf(g, ds, old, ls, side) ==
    /\ Fits(ds, old, ls, side)
    /\ g \in GroupType /\ g.g0 <= g.g1 /\ g.g1 <= Len(old) /\ Ordered(g.hunks)
    /\ \A h \in Range(g.hunks) : /\ g.g0 <= h.b0 /\ h.b1 <= g.g1
                                 /\ h.theirs = side => h \in ds
    /\ \A h \in ds : h \in Range(g.hunks) \/ \A i \in (g.g0 + 1)..g.g1 : ~ Covers(h, i)

\* How far a side has been copied after the first k hunks of the group.
Copied(at, k, g, ds, old, ls, side) ==
    /\ g.g0 <= at.pos /\ at.pos <= g.g1
    /\ Range(at.out) \subseteq Range(ls)
    /\ \A j \in 1..k : g.hunks[j].theirs = side =>
          /\ g.hunks[j].b1 <= at.pos
          /\ \A i \in 1..Len(ls) : Writes(g.hunks[j], i) => ls[i] \in Range(at.out)
    /\ \A i \in (g.g0 + 1)..at.pos : (\A h \in ds : ~ Covers(h, i)) => old[i] \in Range(at.out)

\* A line past what is copied and before the hunks that are left is on the side too.
LEMMA Clear ==
    ASSUME NEW S, NEW old \in Seq(S), NEW ls \in Seq(S), NEW side \in BOOLEAN, NEW ds, NEW g,
           SideOf(g, ds, old, ls, side), NEW k \in Nat, k <= Len(g.hunks), NEW at \in At(S),
           Copied(at, k, g, ds, old, ls, side),
           NEW i \in (at.pos + 1)..g.g1, \A j \in (k + 1)..Len(g.hunks) : i <= g.hunks[j].b0
    PROVE  i \in 1..Len(old) /\ (\A h \in ds : ~ Covers(h, i)) /\ old[i] \in Range(ls)
<1>1. /\ g.g0 \in Nat /\ g.g1 \in Nat /\ g.hunks \in Seq(HunkType) /\ Len(old) \in Nat
      /\ at.pos \in Nat /\ g.g1 <= Len(old) /\ g.g0 <= at.pos /\ Len(g.hunks) \in Nat
  BY DEF SideOf, GroupType, At, Copied
<1>2. i \in 1..Len(old) /\ i \in (g.g0 + 1)..g.g1 /\ i \in Nat /\ at.pos < i
  BY <1>1
<1>3. ASSUME NEW h \in ds PROVE ~ Covers(h, i)
  <2>1. CASE h \notin Range(g.hunks)
    BY <1>2, <2>1 DEF SideOf
  <2>2. CASE h \in Range(g.hunks)
    <3>1. PICK j \in 1..Len(g.hunks) : h = g.hunks[j]
      BY <1>1, <2>2, RangeIs
    <3>2. h \in HunkType /\ h.theirs = side
      BY DEF SideOf, Fits
    <3>3. h.b0 \in Nat /\ h.b1 \in Nat
      BY <3>2 DEF HunkType
    <3>4. CASE j \in 1..k
      <4>1. h.b1 <= at.pos
        BY <3>1, <3>2, <3>4 DEF Copied
      <4>2. h.b1 < i
        BY <1>1, <1>2, <3>3, <4>1
      <4> QED BY <1>2, <3>3, <4>2 DEF Covers
    <3>5. CASE j \in (k + 1)..Len(g.hunks)
      <4>1. i <= h.b0
        BY <3>1, <3>5
      <4> QED BY <1>2, <3>3, <4>1 DEF Covers
    <3>6. j \in 1..k \/ j \in (k + 1)..Len(g.hunks)
      BY <1>1
    <3> QED BY <3>4, <3>5, <3>6
  <2> QED BY <2>1, <2>2
<1>4. old[i] \in Range(ls)
  BY <1>2, <1>3 DEF SideOf, Fits
<1> QED BY <1>2, <1>3, <1>4

OneSide(old, ls, at, h, side) == IF h.theirs # side THEN at ELSE Taken(old, ls, at, h)

LEMMA CopiedMore ==
    ASSUME NEW S, NEW old \in Seq(S), NEW ls \in Seq(S), NEW side \in BOOLEAN, NEW ds, NEW g,
           SideOf(g, ds, old, ls, side), NEW k \in Nat, k + 1 <= Len(g.hunks), NEW at \in At(S),
           Copied(at, k, g, ds, old, ls, side)
    PROVE  LET t == OneSide(old, ls, at, g.hunks[k + 1], side)
           IN  t \in At(S) /\ Copied(t, k + 1, g, ds, old, ls, side)
<1> DEFINE h == g.hunks[k + 1]
           t == OneSide(old, ls, at, h, side)
<1>1. /\ g.g0 \in Nat /\ g.g1 \in Nat /\ g.hunks \in Seq(HunkType) /\ Len(old) \in Nat
      /\ Len(ls) \in Nat /\ at.pos \in Nat /\ g.g1 <= Len(old) /\ g.g0 <= at.pos
      /\ at.pos <= g.g1 /\ Len(g.hunks) \in Nat
  BY DEF SideOf, GroupType, At, Copied
<1>2. k + 1 \in 1..Len(g.hunks) /\ \A j \in 1..(k + 1) : j = k + 1 \/ j \in 1..k
  BY <1>1
<1>3. h \in HunkType /\ h \in Range(g.hunks)
  BY <1>1, <1>2, RangeIs
<1>4. g.g0 <= h.b0 /\ h.b1 <= g.g1 /\ h.b0 \in Nat /\ h.b1 \in Nat /\ h.s0 \in Nat /\ h.s1 \in Nat
  BY <1>3 DEF SideOf, HunkType
<1>5. CASE h.theirs # side
  <2>1. t = at
    BY <1>5 DEF OneSide
  <2>2. Copied(at, k + 1, g, ds, old, ls, side)
    <3>1. ASSUME NEW j \in 1..(k + 1), g.hunks[j].theirs = side PROVE j \in 1..k
      BY <1>2, <1>5, <3>1
    <3> QED BY <3>1 DEF Copied
  <2> QED BY <2>1, <2>2
<1>6. CASE h.theirs = side
  <2>1. t = Taken(old, ls, at, h)
    BY <1>6 DEF OneSide
  <2>2. h \in ds
    BY <1>3, <1>6 DEF SideOf
  <2>3. h.b0 <= h.b1 /\ h.b1 <= Len(old) /\ h.s0 <= h.s1 /\ h.s1 <= Len(ls)
    BY <2>2 DEF SideOf, Fits
  <2>4. /\ t \in At(S) /\ t.pos = h.b1
        /\ Range(t.out) = (Range(at.out) \cup Lines(old, at.pos, h.b0))
                              \cup Lines(ls, h.s0, h.s1)
    <3>1. h.b0 <= Len(old)
      BY <1>1, <1>4, <2>3
    <3> DEFINE u == Upto(old, at, h.b0)
               s == Slice(ls, h.s0, h.s1)
    <3> HIDE DEF h, t
    <3>2. u \in Seq(S) /\ Range(u) = Range(at.out) \cup Lines(old, at.pos, h.b0)
      BY <1>4, <3>1, UptoIs
    <3>3. s \in Seq(S) /\ Range(s) = Lines(ls, h.s0, h.s1)
      BY <1>4, <2>3, SliceRange
    <3>4. t = [out |-> u \o s, pos |-> h.b1]
      BY <2>1 DEF Taken
    <3> HIDE DEF u, s
    <3>5. u \o s \in Seq(S) /\ Range(u \o s) = Range(u) \cup Range(s)
      BY <3>2, <3>3, ConcatRange
    <3>6. t \in At(S) /\ t.pos = h.b1 /\ t.out = u \o s
      BY <1>4, <3>4, <3>5 DEF At
    <3> QED BY <3>2, <3>3, <3>5, <3>6
  <2> HIDE DEF t
  <2>5. ASSUME NEW i \in (at.pos + 1)..h.b0 PROVE old[i] \in Range(ls)
    <3>1. i \in (at.pos + 1)..g.g1 /\ i <= h.b0
      BY <1>1, <1>4, <2>3
    <3>2. ASSUME NEW j \in (k + 1)..Len(g.hunks) PROVE i <= g.hunks[j].b0
      <4>1. j = k + 1 \/ (k + 1 < j /\ j \in 1..Len(g.hunks))
        BY <1>1
      <4>2. CASE j = k + 1
        BY <3>1, <4>2
      <4>3. CASE k + 1 < j /\ j \in 1..Len(g.hunks)
        <5>1. h.b0 <= g.hunks[j].b0
          BY <1>2, <4>3 DEF SideOf, Ordered
        <5>2. g.hunks[j] \in HunkType
          BY <1>1, <4>3
        <5>3. g.hunks[j].b0 \in Nat
          BY <5>2 DEF HunkType
        <5> HIDE DEF h
        <5> QED BY <1>1, <1>4, <3>1, <5>1, <5>3
      <4> QED BY <4>1, <4>2, <4>3
    <3>3. k <= Len(g.hunks)
      BY <1>1
    <3> HIDE DEF h
    <3> QED BY <3>1, <3>2, <3>3, Clear
  <2>6. ASSUME NEW i \in (h.s0 + 1)..h.s1 PROVE i \in 1..Len(ls) /\ ls[i] \in Range(ls)
    <3>1. i \in 1..Len(ls)
      BY <1>1, <1>4, <2>3
    <3> QED BY <3>1, RangeIs
  <2>7. Range(t.out) \subseteq Range(ls)
    <3> HIDE DEF h
    <3>1. Range(at.out) \subseteq Range(ls)
      BY DEF Copied
    <3>2. Lines(old, at.pos, h.b0) \subseteq Range(ls)
      BY <2>5 DEF Lines
    <3>3. Lines(ls, h.s0, h.s1) \subseteq Range(ls)
      BY <2>6 DEF Lines
    <3> QED BY <2>4, <3>1, <3>2, <3>3
  <2>8. Range(at.out) \subseteq Range(t.out)
    BY <2>4
  <2>9. ASSUME NEW j \in 1..(k + 1), g.hunks[j].theirs = side
        PROVE  /\ g.hunks[j].b1 <= t.pos
               /\ \A i \in 1..Len(ls) : Writes(g.hunks[j], i) => ls[i] \in Range(t.out)
    <3>1. CASE j = k + 1
      <4>1. ASSUME NEW i \in 1..Len(ls), Writes(h, i) PROVE ls[i] \in Range(t.out)
        <5>1. i \in (h.s0 + 1)..h.s1
          BY <1>1, <1>4, <4>1 DEF Writes
        <5> QED BY <2>4, <5>1 DEF Lines
      <4> QED BY <1>4, <2>4, <3>1, <4>1
    <3>2. CASE j \in 1..k
      <4> DEFINE f == g.hunks[j]
      <4>1. /\ f.b1 <= at.pos
            /\ \A i \in 1..Len(ls) : Writes(f, i) => ls[i] \in Range(at.out)
        BY <2>9, <3>2 DEF Copied
      <4>2. j \in 1..Len(g.hunks) /\ j < k + 1
        BY <1>1, <3>2
      <4>3. f \in Range(g.hunks) /\ f \in HunkType /\ f.b0 <= h.b0
        BY <1>1, <1>2, <4>2, RangeIs DEF SideOf, Ordered
      <4>4. f \in ds
        BY <2>9, <4>3 DEF SideOf
      <4>5. f.b0 \in Nat /\ f.b1 \in Nat /\ f.b0 <= f.b1
        BY <4>3, <4>4 DEF HunkType, SideOf, Fits
      <4>6. f = h \/ f.b1 < h.b0 \/ h.b1 < f.b0
        BY <2>2, <4>4 DEF SideOf, Fits
      <4> HIDE DEF f, h
      <4>7. f.b1 <= h.b1
        BY <1>4, <2>3, <4>3, <4>5, <4>6
      <4> QED BY <2>4, <2>8, <4>1, <4>7 DEF f
    <3> QED BY <1>2, <3>1, <3>2
  <2>10. ASSUME NEW i \in (g.g0 + 1)..t.pos, \A f \in ds : ~ Covers(f, i)
         PROVE  old[i] \in Range(t.out)
    <3>1. i \in (g.g0 + 1)..at.pos \/ i \in (at.pos + 1)..h.b0 \/ i \in (h.b0 + 1)..h.b1
      <4>1. i \in (g.g0 + 1)..h.b1
        BY <2>4
      <4> HIDE DEF h
      <4> QED BY <1>1, <1>4, <2>3, <4>1
    <3>2. CASE i \in (g.g0 + 1)..at.pos
      BY <2>8, <2>10, <3>2 DEF Copied
    <3>3. CASE i \in (at.pos + 1)..h.b0
      BY <2>4, <3>3 DEF Lines
    <3>4. CASE i \in (h.b0 + 1)..h.b1
      <4>1. Covers(h, i)
        BY <1>4, <3>4 DEF Covers
      <4> QED BY <2>2, <2>10, <4>1
    <3> QED BY <3>1, <3>2, <3>3, <3>4
  <2>11. g.g0 <= t.pos /\ t.pos <= g.g1
    BY <1>1, <1>4, <2>3, <2>4
  <2>12. Copied(t, k + 1, g, ds, old, ls, side)
    BY <2>7, <2>9, <2>10, <2>11 DEF Copied
  <2> QED BY <2>4, <2>12 DEF t
<1> QED BY <1>5, <1>6

\* What a side's version of a group holds: nothing but that side's lines, all that
\* its hunks write, and what of the group's lines it left alone.
Holds(r, g, ds, old, ls, side) ==
    /\ Range(r) \subseteq Range(ls)
    /\ \A h \in Range(g.hunks) : h.theirs = side =>
          \A i \in 1..Len(ls) : Writes(h, i) => ls[i] \in Range(r)
    /\ \A i \in (g.g0 + 1)..g.g1 : (\A h \in ds : ~ Covers(h, i)) => old[i] \in Range(r)

LEMMA CopiedAll ==
    ASSUME NEW S, NEW old \in Seq(S), NEW ls \in Seq(S), NEW side \in BOOLEAN, NEW ds, NEW g,
           SideOf(g, ds, old, ls, side), NEW at \in At(S),
           Copied(at, Len(g.hunks), g, ds, old, ls, side)
    PROVE  /\ Upto(old, at, g.g1) \in Seq(S)
           /\ Holds(Upto(old, at, g.g1), g, ds, old, ls, side)
<1> DEFINE r == Upto(old, at, g.g1)
<1>1. /\ g.g0 \in Nat /\ g.g1 \in Nat /\ g.hunks \in Seq(HunkType) /\ Len(old) \in Nat
      /\ at.pos \in Nat /\ g.g1 <= Len(old) /\ Len(g.hunks) \in Nat
  BY DEF SideOf, GroupType, At
<1>2. r \in Seq(S) /\ Range(r) = Range(at.out) \cup Lines(old, at.pos, g.g1)
  BY <1>1, UptoIs
<1> HIDE DEF r
<1>3. ASSUME NEW i \in (at.pos + 1)..g.g1 PROVE old[i] \in Range(ls)
  <2>1. \A j \in (Len(g.hunks) + 1)..Len(g.hunks) : i <= g.hunks[j].b0
    BY <1>1
  <2>2. Len(g.hunks) <= Len(g.hunks)
    BY <1>1
  <2> QED BY <1>1, <2>1, <2>2, Clear
<1>4. Range(r) \subseteq Range(ls)
  <2>1. Range(at.out) \subseteq Range(ls)
    BY DEF Copied
  <2>2. Lines(old, at.pos, g.g1) \subseteq Range(ls)
    BY <1>3 DEF Lines
  <2> QED BY <1>2, <2>1, <2>2
<1>5. ASSUME NEW h \in Range(g.hunks), h.theirs = side,
             NEW i \in 1..Len(ls), Writes(h, i)
      PROVE  ls[i] \in Range(r)
  <2>1. PICK j \in 1..Len(g.hunks) : h = g.hunks[j]
    BY <1>1, RangeIs
  <2>2. ls[i] \in Range(at.out)
    BY <1>5, <2>1 DEF Copied
  <2> QED BY <1>2, <2>2
<1>6. ASSUME NEW i \in (g.g0 + 1)..g.g1, \A h \in ds : ~ Covers(h, i)
      PROVE  old[i] \in Range(r)
  <2>1. i \in (g.g0 + 1)..at.pos \/ i \in (at.pos + 1)..g.g1
    BY <1>1
  <2>2. CASE i \in (g.g0 + 1)..at.pos
    BY <1>2, <1>6, <2>2 DEF Copied
  <2>3. CASE i \in (at.pos + 1)..g.g1
    BY <1>2, <2>3 DEF Lines
  <2> QED BY <2>1, <2>2, <2>3
<1>7. Holds(r, g, ds, old, ls, side)
  BY <1>4, <1>5, <1>6 DEF Holds
<1> QED BY <1>2, <1>7 DEF r

LEMMA SideIs ==
    ASSUME NEW S, NEW old \in Seq(S), NEW ls \in Seq(S), NEW side \in BOOLEAN, NEW ds, NEW g,
           SideOf(g, ds, old, ls, side)
    PROVE  /\ Side(old, ls, g, side) \in Seq(S)
           /\ Holds(Side(old, ls, g, side), g, ds, old, ls, side)
<1> DEFINE m == Len(g.hunks)
           start == [out |-> <<>>, pos |-> g.g0]
           st == [p \in At(S) \X (1..m) |-> OneSide(old, ls, p[1], g.hunks[p[2]], side)]
           good == [k \in 0..m |-> {at \in At(S) : Copied(at, k, g, ds, old, ls, side)}]
           Is(f) == f = [k \in 0..m |-> IF k = 0 THEN [out |-> <<>>, pos |-> g.g0]
                                        ELSE IF g.hunks[k].theirs # side THEN f[k - 1]
                                        ELSE Taken(old, ls, f[k - 1], g.hunks[k])]
           copied == CHOOSE f : Is(f)
<1>1. /\ g.g0 \in Nat /\ g.g1 \in Nat /\ g.g0 <= g.g1 /\ m \in Nat
  BY DEF SideOf, GroupType
<1>2. Side(old, ls, g, side) = Upto(old, copied[m], g.g1)
  BY DEF Side
<1> HIDE DEF m
<1>3. start \in good[0]
  <2>1. Range(<<>>) = {} /\ <<>> \in Seq(S)
    BY NoneRange
  <2>2. start \in At(S) /\ start.pos = g.g0 /\ start.out = <<>>
    BY <1>1, <2>1 DEF At
  <2>3. good[0] = {at \in At(S) : Copied(at, 0, g, ds, old, ls, side)}
    BY <1>1
  <2> HIDE DEF start, good
  <2>4. Copied(start, 0, g, ds, old, ls, side)
    BY <1>1, <2>1, <2>2 DEF Copied
  <2> QED BY <2>2, <2>3, <2>4
<1> HIDE DEF start
<1>4. ASSUME NEW k \in 1..m, NEW r \in good[k - 1]
      PROVE  OneSide(old, ls, r, g.hunks[k], side) \in good[k]
  <2>1. r \in At(S) /\ Copied(r, k - 1, g, ds, old, ls, side)
    BY <1>1
  <2>2. good[k] = {at \in At(S) : Copied(at, k, g, ds, old, ls, side)}
    BY <1>1
  <2> HIDE DEF good
  <2>3. k - 1 \in Nat /\ (k - 1) + 1 = k /\ (k - 1) + 1 <= Len(g.hunks)
    BY <1>1 DEF m
  <2>4. LET t == OneSide(old, ls, r, g.hunks[(k - 1) + 1], side)
        IN  t \in At(S) /\ Copied(t, (k - 1) + 1, g, ds, old, ls, side)
    BY <2>1, <2>3, CopiedMore
  <2> QED BY <2>2, <2>3, <2>4
<1>5. ASSUME NEW k \in 1..m, NEW r \in good[k - 1]
      PROVE  st[<<r, k>>] = OneSide(old, ls, r, g.hunks[k], side) /\ r \in At(S)
  <2>1. r \in At(S)
    BY <1>1
  <2> QED BY <2>1
<1> HIDE DEF st
<1>6. \A k \in 1..m : \A r \in good[k - 1] : st[<<r, k>>] \in good[k]
  <2> HIDE DEF good
  <2> QED BY <1>4, <1>5
<1>7. \E f : Is(f)
  <2> HIDE DEF good
  <2>1. PICK f : Row(f, start, st, m) /\ \A k \in 0..m : f[k] \in good[k]
    BY <1>1, <1>3, <1>6, GoodRow
  <2>2. \A k \in 1..m : st[<<f[k - 1], k>>] = OneSide(old, ls, f[k - 1], g.hunks[k], side)
    BY <1>1, <1>5, <2>1
  <2>3. \A k \in 0..m : k = 0 \/ k \in 1..m
    BY <1>1
  <2>4. f = [k \in 0..m |-> IF k = 0 THEN start
                            ELSE OneSide(old, ls, f[k - 1], g.hunks[k], side)]
    BY <2>1, <2>2, <2>3 DEF Row
  <2>5. Is(f)
    BY <2>4 DEF OneSide, start
  <2> QED BY <2>5
<1>8. Is(copied)
  BY <1>7
<1> HIDE DEF copied
<1>9. /\ copied[0] = start
      /\ \A k \in 1..m : copied[k] = OneSide(old, ls, copied[k - 1], g.hunks[k], side)
  BY <1>1, <1>8 DEF OneSide, start
<1>10. \A k \in 0..m : copied[k] \in good[k]
  <2> HIDE DEF good
  <2>1. /\ copied[0] \in good[0]
        /\ \A k \in 1..m : copied[k - 1] \in good[k - 1] => copied[k] \in good[k]
    BY <1>3, <1>4, <1>9
  <2> QED BY <1>1, <2>1, Walks
<1>11. copied[m] \in At(S) /\ Copied(copied[m], Len(g.hunks), g, ds, old, ls, side)
  <2>1. good[m] = {at \in At(S) : Copied(at, m, g, ds, old, ls, side)}
    BY <1>1
  <2> HIDE DEF good
  <2>2. copied[m] \in good[m]
    BY <1>1, <1>10
  <2> QED BY <2>1, <2>2 DEF m
<1>12. /\ Upto(old, copied[m], g.g1) \in Seq(S)
       /\ Holds(Upto(old, copied[m], g.g1), g, ds, old, ls, side)
  BY <1>11, CopiedAll
<1> QED BY <1>2, <1>12
-----------------------------------------------------------------------------
(* What a group becomes *)

LEMMA ResolveIs ==
    ASSUME NEW S, NEW b \in Seq(S), NEW o \in Seq(S), NEW t \in Seq(S)
    PROVE  /\ Resolve(b, o, t) \in Seq(S)
           /\ Range(Resolve(b, o, t)) \subseteq Range(o) \cup Range(t)
           /\ Range(o) \subseteq Range(Resolve(b, o, t)) \/ (o = b /\ Resolve(b, o, t) = t)
           /\ Range(t) \subseteq Range(Resolve(b, o, t)) \cup Range(b)
<1>1. CASE o = t \/ t = b
  <2>1. Resolve(b, o, t) = o
    BY <1>1 DEF Resolve
  <2> QED BY <1>1, <2>1
<1>2. CASE ~ (o = t \/ t = b) /\ o = b
  <2>1. Resolve(b, o, t) = t
    BY <1>2 DEF Resolve
  <2> QED BY <1>2, <2>1
<1>3. CASE ~ (o = t \/ t = b) /\ o # b
  <2> DEFINE new == Range(t) \ (Range(b) \cup Range(o))
             more == Among(t, new)
  <2>1. Resolve(b, o, t) = o \o more
    BY <1>3 DEF Resolve
  <2> HIDE DEF new
  <2>2. more \in Seq(S) /\ Range(more) = Range(t) \cap new
    BY AmongIs
  <2> HIDE DEF more
  <2>3. o \o more \in Seq(S) /\ Range(o \o more) = Range(o) \cup Range(more)
    BY <2>2, ConcatRange
  <2> QED BY <2>1, <2>2, <2>3 DEF new
<1> QED BY <1>1, <1>2, <1>3

In(g, i) == g.g0 < i /\ i <= g.g1

Old(b, g) == Slice(b, g.g0, g.g1)
Result(b, o, t, g) == Resolve(Old(b, g), Side(b, o, g, FALSE), Side(b, t, g, TRUE))

\* The lines of the base that the group stands for.
LEMMA OldIs ==
    ASSUME NEW S, NEW b \in Seq(S), NEW g \in GroupType, g.g1 <= Len(b)
    PROVE  /\ Old(b, g) \in Seq(S)
           /\ \A y \in Range(Old(b, g)) : \E i \in 1..Len(b) : In(g, i) /\ b[i] = y
<1>1. g.g0 \in Nat /\ g.g1 \in Nat /\ Len(b) \in Nat
  BY DEF GroupType
<1>2. Old(b, g) \in Seq(S) /\ Range(Old(b, g)) = Lines(b, g.g0, g.g1)
  BY <1>1, SliceRange DEF Old
<1>3. ASSUME NEW y \in Range(Old(b, g)) PROVE \E i \in 1..Len(b) : In(g, i) /\ b[i] = y
  <2>1. PICK i \in (g.g0 + 1)..g.g1 : b[i] = y
    BY <1>2 DEF Lines
  <2>2. i \in 1..Len(b) /\ In(g, i)
    BY <1>1 DEF In
  <2> QED BY <2>1, <2>2
<1> QED BY <1>2, <1>3

\* Each group has all of a side's hunks that touch its lines.
LEMMA SideOfGroup ==
    ASSUME NEW old, NEW ls, NEW side, NEW ds, NEW hs, NEW gs, Fits(ds, old, ls, side),
           ds \subseteq hs, hs \subseteq HunkType, \A h \in hs : h.theirs = side => h \in ds,
           Len(old) \in Nat, GroupsOk(gs, hs, Len(old)), NEW x \in 1..Len(gs)
    PROVE  SideOf(gs[x], ds, old, ls, side)
<1>1. GroupOk(gs[x], hs, Len(old)) /\ gs \in Seq(GroupType) /\ Len(gs) \in Nat
  BY DEF GroupsOk
<1>2. /\ gs[x] \in GroupType /\ gs[x].g0 <= gs[x].g1 /\ gs[x].g1 <= Len(old)
      /\ Ordered(gs[x].hunks)
  BY <1>1 DEF GroupOk
<1>3. \A h \in Range(gs[x].hunks) : /\ gs[x].g0 <= h.b0 /\ h.b1 <= gs[x].g1
                                    /\ h.theirs = side => h \in ds
  BY <1>1 DEF GroupOk
<1>4. ASSUME NEW h \in ds, h \notin Range(gs[x].hunks), NEW i \in (gs[x].g0 + 1)..gs[x].g1
      PROVE  ~ Covers(h, i)
  <2>1. PICK y \in 1..Len(gs) : h \in Range(gs[y].hunks)
    BY DEF GroupsOk
  <2>2. y < x \/ x < y
    BY <1>1, <1>4, <2>1
  <2>3. gs[y] \in GroupType /\ gs[y].g0 <= h.b0 /\ h.b1 <= gs[y].g1
    BY <2>1 DEF GroupsOk, GroupOk
  <2>4. gs[y].g1 <= gs[x].g0 \/ gs[x].g1 <= gs[y].g0
    BY <2>2 DEF GroupsOk
  <2>5. /\ gs[x].g0 \in Nat /\ gs[x].g1 \in Nat /\ gs[y].g0 \in Nat /\ gs[y].g1 \in Nat
    BY <1>2, <2>3 DEF GroupType
  <2>6. h \in HunkType
    OBVIOUS
  <2>7. h.b0 \in Nat /\ h.b1 \in Nat
    BY <2>6 DEF HunkType
  <2> QED BY <2>3, <2>4, <2>5, <2>7 DEF Covers
<1> QED BY <1>2, <1>3, <1>4 DEF SideOf

\* What the walk through the groups goes by.
Steps(S, gs, b, o, t) ==
    /\ gs \in Seq(GroupType)
    /\ \A x \in 1..Len(gs) : /\ gs[x].g0 <= gs[x].g1 /\ gs[x].g1 <= Len(b)
                             /\ Result(b, o, t, gs[x]) \in Seq(S)
                             /\ Range(Result(b, o, t, gs[x])) \subseteq Range(o) \cup Range(t)
    /\ \A x, y \in 1..Len(gs) : x < y => gs[x].g1 <= gs[y].g0
    /\ \A i \in 1..Len(b) : (\A x \in 1..Len(gs) : ~ In(gs[x], i)) => b[i] \in Range(o)

\* How far the merge has come after the first k groups.
Settling(at, k, gs, b, o, t) ==
    /\ at.pos <= Len(b)
    /\ \A x \in 1..k : gs[x].g1 <= at.pos
    /\ \A x \in (k + 1)..Len(gs) : at.pos <= gs[x].g0
    /\ Range(at.out) \subseteq Range(o) \cup Range(t)
    /\ \A x \in 1..k : Range(Result(b, o, t, gs[x])) \subseteq Range(at.out)
    /\ \A i \in 1..at.pos : (\E x \in 1..k : In(gs[x], i)) \/ b[i] \in Range(at.out)

\* Between two groups both sides have the lines of the base.
LEMMA BetweenGroups ==
    ASSUME NEW S, NEW b \in Seq(S), NEW o, NEW t, NEW gs, Steps(S, gs, b, o, t),
           NEW k \in Nat, k <= Len(gs), NEW at \in At(S), Settling(at, k, gs, b, o, t),
           NEW end \in Nat, end <= Len(b), \A x \in (k + 1)..Len(gs) : end <= gs[x].g0
    PROVE  Lines(b, at.pos, end) \subseteq Range(o)
<1>1. at.pos \in Nat /\ Len(b) \in Nat /\ gs \in Seq(GroupType) /\ Len(gs) \in Nat
  BY DEF At, Steps
<1>2. ASSUME NEW i \in (at.pos + 1)..end PROVE b[i] \in Range(o)
  <2>1. i \in 1..Len(b)
    BY <1>1
  <2>2. ASSUME NEW x \in 1..Len(gs), In(gs[x], i) PROVE FALSE
    <3>1. gs[x] \in GroupType
      BY <1>1
    <3>2. gs[x].g0 \in Nat /\ gs[x].g1 \in Nat
      BY <3>1 DEF GroupType
    <3>3. x \in 1..k \/ x \in (k + 1)..Len(gs)
      BY <1>1
    <3>4. gs[x].g1 <= at.pos \/ end <= gs[x].g0
      BY <3>3 DEF Settling
    <3> QED BY <1>1, <2>1, <2>2, <3>2, <3>4 DEF In
  <2> QED BY <2>1, <2>2 DEF Steps
<1> QED BY <1>2 DEF Lines

LEMMA SettledMore ==
    ASSUME NEW S, NEW b \in Seq(S), NEW o, NEW t, NEW gs, Steps(S, gs, b, o, t),
           NEW k \in Nat, k + 1 <= Len(gs), NEW at \in At(S), Settling(at, k, gs, b, o, t)
    PROVE  /\ Settled(b, o, t, at, gs[k + 1]) \in At(S)
           /\ Settling(Settled(b, o, t, at, gs[k + 1]), k + 1, gs, b, o, t)
<1> DEFINE g == gs[k + 1]
           u == Upto(b, at, g.g0)
           r == Result(b, o, t, g)
           e == Settled(b, o, t, at, g)
<1>1. /\ at.pos \in Nat /\ Len(b) \in Nat /\ gs \in Seq(GroupType) /\ Len(gs) \in Nat
      /\ k + 1 \in 1..Len(gs) /\ k <= Len(gs) /\ k + 1 \in (k + 1)..Len(gs)
  BY DEF At, Steps
<1>2. g \in GroupType
  BY <1>1
<1>3. /\ g.g0 \in Nat /\ g.g1 \in Nat /\ g.g0 <= g.g1 /\ g.g1 <= Len(b)
      /\ r \in Seq(S) /\ Range(r) \subseteq Range(o) \cup Range(t)
  BY <1>1, <1>2 DEF GroupType, Steps
<1>4. e = [out |-> u \o r, pos |-> g.g1]
  BY DEF Settled, Result, Old
<1>5. ASSUME NEW x \in (k + 1)..Len(gs) PROVE g.g0 <= gs[x].g0
  <2>1. CASE x = k + 1
    BY <1>3, <2>1
  <2>2. CASE x # k + 1
    <3>1. x \in 1..Len(gs) /\ k + 1 < x
      BY <1>1, <2>2
    <3>2. g.g1 <= gs[x].g0 /\ gs[x] \in GroupType
      BY <1>1, <3>1 DEF Steps
    <3>3. gs[x].g0 \in Nat
      BY <3>2 DEF GroupType
    <3> HIDE DEF g
    <3> QED BY <1>3, <3>2, <3>3
  <2> QED BY <2>1, <2>2
<1>6. \A x \in 1..(k + 1) : x = k + 1 \/ x \in 1..k
  BY <1>1
<1>7. at.pos <= g.g0 /\ \A x \in 1..k : gs[x].g1 <= at.pos
  BY <1>1 DEF Settling
<1>8. \A x \in (k + 2)..Len(gs) : g.g1 <= gs[x].g0
  <2>1. ASSUME NEW x \in (k + 2)..Len(gs) PROVE x \in 1..Len(gs) /\ k + 1 < x
    BY <1>1
  <2> QED BY <1>1, <2>1 DEF Steps
<1>9. \A x \in 1..k : gs[x].g1 \in Nat
  <2>1. \A x \in 1..k : x \in 1..Len(gs)
    BY <1>1
  <2>2. \A x \in 1..k : gs[x] \in GroupType
    BY <1>1, <2>1
  <2> QED BY <2>2 DEF GroupType
<1>10. (k + 1) + 1 = k + 2
  OBVIOUS
<1>11. g.g0 <= Len(b)
  <2> HIDE DEF g
  <2> QED BY <1>1, <1>3
<1> HIDE DEF g, u, r, e
<1>12. u \in Seq(S) /\ Range(u) = Range(at.out) \cup Lines(b, at.pos, g.g0)
  BY <1>3, <1>11, UptoIs DEF u
<1>13. u \o r \in Seq(S) /\ Range(u \o r) = Range(u) \cup Range(r)
  BY <1>3, <1>12, ConcatRange
<1>14. e \in At(S) /\ e.out = u \o r /\ e.pos = g.g1
  BY <1>3, <1>4, <1>13 DEF At
<1>15. Range(e.out) = (Range(at.out) \cup Lines(b, at.pos, g.g0)) \cup Range(r)
  BY <1>12, <1>13, <1>14
<1>16. Lines(b, at.pos, g.g0) \subseteq Range(o)
  BY <1>1, <1>3, <1>5, <1>11, BetweenGroups
<1>17. Range(e.out) \subseteq Range(o) \cup Range(t)
  <2>1. Range(at.out) \subseteq Range(o) \cup Range(t)
    BY DEF Settling
  <2> QED BY <1>3, <1>15, <1>16, <2>1
<1>18. \A x \in 1..(k + 1) : gs[x].g1 <= e.pos
  <2>1. ASSUME NEW x \in 1..k PROVE gs[x].g1 <= g.g1
    BY <1>1, <1>3, <1>7, <1>9
  <2>2. gs[k + 1].g1 <= g.g1
    BY <1>3 DEF g
  <2> QED BY <1>6, <1>14, <2>1, <2>2
<1>19. \A x \in 1..(k + 1) : Range(Result(b, o, t, gs[x])) \subseteq Range(e.out)
  <2>1. ASSUME NEW x \in 1..k PROVE Range(Result(b, o, t, gs[x])) \subseteq Range(e.out)
    BY <1>15 DEF Settling
  <2>2. Range(Result(b, o, t, gs[k + 1])) \subseteq Range(e.out)
    BY <1>15 DEF r, g
  <2> QED BY <1>6, <2>1, <2>2
<1>20. ASSUME NEW i \in 1..e.pos
       PROVE  (\E x \in 1..(k + 1) : In(gs[x], i)) \/ b[i] \in Range(e.out)
  <2>1. i \in 1..at.pos \/ i \in (at.pos + 1)..g.g0 \/ i \in (g.g0 + 1)..g.g1
    <3>1. i \in 1..g.g1
      BY <1>14
    <3> QED BY <1>1, <1>3, <1>7, <3>1
  <2>2. CASE i \in 1..at.pos
    <3>1. (\E x \in 1..k : In(gs[x], i)) \/ b[i] \in Range(at.out)
      BY <2>2 DEF Settling
    <3>2. \A x \in 1..k : x \in 1..(k + 1)
      OBVIOUS
    <3> QED BY <1>15, <3>1, <3>2
  <2>3. CASE i \in (at.pos + 1)..g.g0
    BY <1>15, <2>3 DEF Lines
  <2>4. CASE i \in (g.g0 + 1)..g.g1
    <3>1. In(g, i)
      BY <1>3, <2>4 DEF In
    <3>2. k + 1 \in 1..(k + 1)
      OBVIOUS
    <3> QED BY <3>1, <3>2 DEF g
  <2> QED BY <2>1, <2>2, <2>3, <2>4
<1>21. \A x \in ((k + 1) + 1)..Len(gs) : e.pos <= gs[x].g0
  BY <1>8, <1>10, <1>14
<1>22. e.pos <= Len(b)
  BY <1>3, <1>14
<1>23. Settling(e, k + 1, gs, b, o, t)
  BY <1>17, <1>18, <1>19, <1>20, <1>21, <1>22 DEF Settling
<1> QED BY <1>14, <1>23 DEF e, g

\* What the three-way merge holds.
Keeps(r, gs, b, o, t) ==
    /\ Range(r) \subseteq Range(o) \cup Range(t)
    /\ \A x \in 1..Len(gs) : Range(Result(b, o, t, gs[x])) \subseteq Range(r)
    /\ \A i \in 1..Len(b) : (\E x \in 1..Len(gs) : In(gs[x], i)) \/ b[i] \in Range(r)

LEMMA SettledAll ==
    ASSUME NEW S, NEW b \in Seq(S), NEW o, NEW t, NEW gs, Steps(S, gs, b, o, t),
           NEW at \in At(S), Settling(at, Len(gs), gs, b, o, t)
    PROVE  Upto(b, at, Len(b)) \in Seq(S) /\ Keeps(Upto(b, at, Len(b)), gs, b, o, t)
<1> DEFINE r == Upto(b, at, Len(b))
           m == Len(gs)
<1>1. Len(b) \in Nat /\ m \in Nat /\ at.pos \in Nat /\ Len(b) <= Len(b) /\ m <= m
  BY DEF Steps, At
<1>2. r \in Seq(S) /\ Range(r) = Range(at.out) \cup Lines(b, at.pos, Len(b))
  BY <1>1, UptoIs
<1> HIDE DEF r
<1>3. Lines(b, at.pos, Len(b)) \subseteq Range(o)
  <2>1. \A x \in (m + 1)..m : Len(b) <= gs[x].g0
    BY <1>1
  <2> QED BY <1>1, <2>1, BetweenGroups
<1>4. ASSUME NEW i \in 1..Len(b) PROVE (\E x \in 1..m : In(gs[x], i)) \/ b[i] \in Range(r)
  <2>1. i \in 1..at.pos \/ i \in (at.pos + 1)..Len(b)
    BY <1>1
  <2>2. CASE i \in 1..at.pos
    BY <1>2, <2>2 DEF Settling
  <2>3. CASE i \in (at.pos + 1)..Len(b)
    BY <1>2, <2>3 DEF Lines
  <2> QED BY <2>1, <2>2, <2>3
<1>5. Range(at.out) \subseteq Range(o) \cup Range(t)
  BY DEF Settling
<1>6. \A x \in 1..m : Range(Result(b, o, t, gs[x])) \subseteq Range(r)
  BY <1>2 DEF Settling
<1>7. Keeps(r, gs, b, o, t)
  BY <1>2, <1>3, <1>4, <1>5, <1>6 DEF Keeps
<1> QED BY <1>2, <1>7 DEF r

\* What a side brings to the groups: each of its lines is in the side's version of
\* some group, or is a line of the base that the side left alone.
Carried(b, ls, gs, side) ==
    \A i \in 1..Len(ls) :
        \/ \E x \in 1..Len(gs) : ls[i] \in Range(Side(b, ls, gs[x], side))
        \/ \E j \in 1..Len(b) :
              /\ b[j] = ls[i]
              /\ \A x \in 1..Len(gs) :
                    In(gs[x], j) => ls[i] \in Range(Side(b, ls, gs[x], side))

LEMMA CarriedIs ==
    ASSUME NEW b, NEW ls, NEW side, NEW ds, NEW gs, Fits(ds, b, ls, side),
           gs \in Seq(GroupType), Len(b) \in Nat, Len(ls) \in Nat,
           \A h \in ds : \E x \in 1..Len(gs) : h \in Range(gs[x].hunks),
           \A x \in 1..Len(gs) : Holds(Side(b, ls, gs[x], side), gs[x], ds, b, ls, side)
    PROVE  Carried(b, ls, gs, side)
<1> SUFFICES ASSUME NEW i \in 1..Len(ls)
             PROVE  \/ \E x \in 1..Len(gs) : ls[i] \in Range(Side(b, ls, gs[x], side))
                    \/ \E j \in 1..Len(b) :
                          /\ b[j] = ls[i]
                          /\ \A x \in 1..Len(gs) :
                                In(gs[x], j) => ls[i] \in Range(Side(b, ls, gs[x], side))
  BY DEF Carried
<1>1. \/ \E h \in ds : Writes(h, i)
      \/ \E j \in 1..Len(b) : b[j] = ls[i] /\ \A h \in ds : ~ Covers(h, j)
  BY DEF Fits
<1>2. CASE \E h \in ds : Writes(h, i)
  <2>1. PICK h \in ds : Writes(h, i)
    BY <1>2
  <2>2. PICK x \in 1..Len(gs) : h \in Range(gs[x].hunks)
    OBVIOUS
  <2>3. h.theirs = side
    BY DEF Fits
  <2>4. ls[i] \in Range(Side(b, ls, gs[x], side))
    BY <2>1, <2>2, <2>3 DEF Holds
  <2> QED BY <2>4
<1>3. CASE \E j \in 1..Len(b) : b[j] = ls[i] /\ \A h \in ds : ~ Covers(h, j)
  <2>1. PICK j \in 1..Len(b) : b[j] = ls[i] /\ \A h \in ds : ~ Covers(h, j)
    BY <1>3
  <2>2. ASSUME NEW x \in 1..Len(gs), In(gs[x], j)
        PROVE  ls[i] \in Range(Side(b, ls, gs[x], side))
    <3>1. gs[x] \in GroupType
      OBVIOUS
    <3>2. gs[x].g0 \in Nat /\ gs[x].g1 \in Nat
      BY <3>1 DEF GroupType
    <3>3. j \in (gs[x].g0 + 1)..gs[x].g1
      BY <2>2, <3>2 DEF In
    <3> QED BY <2>1, <3>3 DEF Holds
  <2> QED BY <2>1, <2>2
<1> QED BY <1>1, <1>2, <1>3

\* The groups of the merge of b, o and t.
GroupsFor(b, o, t) == Groups(Sorted(Diff(b, o, FALSE) \o Diff(b, t, TRUE)))

LEMMA GroupsFit ==
    ASSUME NEW S, NEW b \in Seq(S), NEW o \in Seq(S), NEW t \in Seq(S)
    PROVE  LET gs == GroupsFor(b, o, t)
               do == Range(Diff(b, o, FALSE))
               dt == Range(Diff(b, t, TRUE))
           IN  /\ Fits(do, b, o, FALSE) /\ Fits(dt, b, t, TRUE)
               /\ GroupsOk(gs, do \cup dt, Len(b))
<1> DEFINE p == Diff(b, o, FALSE)
           q == Diff(b, t, TRUE)
           hunks == Sorted(p \o q)
<1>1. p \in Seq(HunkType) /\ Fits(Range(p), b, o, FALSE)
  BY DiffFits
<1>2. q \in Seq(HunkType) /\ Fits(Range(q), b, t, TRUE)
  BY DiffFits
<1> HIDE DEF p, q
<1>3. p \o q \in Seq(HunkType) /\ Range(p \o q) = Range(p) \cup Range(q)
  BY <1>1, <1>2, ConcatRange
<1>4. /\ hunks \in Seq(HunkType) /\ Ordered(hunks)
      /\ Range(hunks) = Range(p) \cup Range(q)
  BY <1>3, SortedIs
<1> HIDE DEF hunks
<1>5. \A h \in Range(hunks) : h.b0 <= h.b1 /\ h.b1 <= Len(b)
  BY <1>1, <1>2, <1>4 DEF Fits
<1>6. GroupsOk(Groups(hunks), Range(hunks), Len(b))
  <2>1. Len(b) \in Nat
    OBVIOUS
  <2> QED BY <1>4, <1>5, <2>1, GroupsIs
<1> QED BY <1>1, <1>2, <1>4, <1>6 DEF GroupsFor, p, q, hunks

LEMMA StepsOk ==
    ASSUME NEW S, NEW b \in Seq(S), NEW o \in Seq(S), NEW t \in Seq(S)
    PROVE  LET gs == GroupsFor(b, o, t)
           IN  /\ Steps(S, gs, b, o, t)
               /\ Carried(b, o, gs, FALSE) /\ Carried(b, t, gs, TRUE)
               /\ \A x \in 1..Len(gs) : /\ gs[x] \in GroupType
                                        /\ Side(b, o, gs[x], FALSE) \in Seq(S)
                                        /\ Side(b, t, gs[x], TRUE) \in Seq(S)
<1> DEFINE gs == GroupsFor(b, o, t)
           do == Range(Diff(b, o, FALSE))
           dt == Range(Diff(b, t, TRUE))
           hs == do \cup dt
<1>1. /\ Fits(do, b, o, FALSE) /\ Fits(dt, b, t, TRUE)
      /\ GroupsOk(gs, hs, Len(b))
  BY GroupsFit
<1>2. Len(b) \in Nat /\ Len(o) \in Nat /\ Len(t) \in Nat
  OBVIOUS
<1> HIDE DEF gs, do, dt
<1>3. /\ \A h \in do : h \in HunkType /\ h.theirs = FALSE
      /\ \A h \in dt : h \in HunkType /\ h.theirs = TRUE
  <2>1. do \subseteq HunkType /\ dt \subseteq HunkType
    BY <1>1 DEF Fits
  <2>2. (\A h \in do : h.theirs = FALSE) /\ (\A h \in dt : h.theirs = TRUE)
    BY <1>1 DEF Fits
  <2> QED BY <2>1, <2>2
<1>4. /\ hs \subseteq HunkType /\ do \subseteq hs /\ dt \subseteq hs
      /\ \A h \in hs : h.theirs = FALSE => h \in do
      /\ \A h \in hs : h.theirs = TRUE => h \in dt
  BY <1>3
<1> HIDE DEF hs
<1>5. /\ gs \in Seq(GroupType) /\ Len(gs) \in Nat
      /\ \A x, y \in 1..Len(gs) : x < y => gs[x].g1 <= gs[y].g0
      /\ \A x \in 1..Len(gs) : GroupOk(gs[x], hs, Len(b))
      /\ \A h \in hs : \E x \in 1..Len(gs) : h \in Range(gs[x].hunks)
  BY <1>1 DEF GroupsOk
<1>6. ASSUME NEW x \in 1..Len(gs)
      PROVE  /\ gs[x] \in GroupType /\ gs[x].g0 <= gs[x].g1 /\ gs[x].g1 <= Len(b)
             /\ Side(b, o, gs[x], FALSE) \in Seq(S)
             /\ Side(b, t, gs[x], TRUE) \in Seq(S)
             /\ Holds(Side(b, o, gs[x], FALSE), gs[x], do, b, o, FALSE)
             /\ Holds(Side(b, t, gs[x], TRUE), gs[x], dt, b, t, TRUE)
  <2>1. SideOf(gs[x], do, b, o, FALSE)
    BY <1>1, <1>2, <1>4, SideOfGroup
  <2>2. SideOf(gs[x], dt, b, t, TRUE)
    BY <1>1, <1>2, <1>4, SideOfGroup
  <2>3. gs[x] \in GroupType /\ gs[x].g0 <= gs[x].g1 /\ gs[x].g1 <= Len(b)
    BY <1>5 DEF GroupOk
  <2>4. /\ Side(b, o, gs[x], FALSE) \in Seq(S)
        /\ Holds(Side(b, o, gs[x], FALSE), gs[x], do, b, o, FALSE)
    BY <2>1, SideIs
  <2>5. /\ Side(b, t, gs[x], TRUE) \in Seq(S)
        /\ Holds(Side(b, t, gs[x], TRUE), gs[x], dt, b, t, TRUE)
    BY <2>2, SideIs
  <2> QED BY <2>3, <2>4, <2>5
<1>7. ASSUME NEW x \in 1..Len(gs)
      PROVE  /\ Result(b, o, t, gs[x]) \in Seq(S)
             /\ Range(Result(b, o, t, gs[x])) \subseteq Range(o) \cup Range(t)
  <2> DEFINE old == Old(b, gs[x])
             p == Side(b, o, gs[x], FALSE)
             q == Side(b, t, gs[x], TRUE)
  <2>1. old \in Seq(S)
    BY <1>6, OldIs
  <2>2. p \in Seq(S) /\ q \in Seq(S) /\ Range(p) \subseteq Range(o) /\ Range(q) \subseteq Range(t)
    BY <1>6 DEF Holds
  <2>3. Result(b, o, t, gs[x]) = Resolve(old, p, q)
    BY DEF Result
  <2> HIDE DEF old, p, q
  <2>4. /\ Resolve(old, p, q) \in Seq(S)
        /\ Range(Resolve(old, p, q)) \subseteq Range(p) \cup Range(q)
    BY <2>1, <2>2, ResolveIs
  <2> QED BY <2>2, <2>3, <2>4
<1>8. ASSUME NEW i \in 1..Len(b), \A x \in 1..Len(gs) : ~ In(gs[x], i)
      PROVE  b[i] \in Range(o)
  <2>1. ASSUME NEW h \in do PROVE ~ Covers(h, i)
    <3>1. PICK x \in 1..Len(gs) : h \in Range(gs[x].hunks)
      BY <1>4, <1>5
    <3>2. /\ gs[x].g0 <= h.b0 /\ h.b1 <= gs[x].g1 /\ gs[x] \in GroupType
      BY <1>5, <3>1 DEF GroupOk
    <3>3. h \in HunkType
      BY <1>3
    <3>4. gs[x].g0 \in Nat /\ gs[x].g1 \in Nat /\ h.b0 \in Nat /\ h.b1 \in Nat
      BY <3>2, <3>3 DEF GroupType, HunkType
    <3>5. ~ In(gs[x], i)
      BY <1>8
    <3> QED BY <3>2, <3>4, <3>5 DEF Covers, In
  <2> QED BY <1>1, <2>1 DEF Fits
<1>9. Steps(S, gs, b, o, t)
  BY <1>5, <1>6, <1>7, <1>8 DEF Steps
<1>10. Carried(b, o, gs, FALSE)
  <2>1. \A h \in do : \E x \in 1..Len(gs) : h \in Range(gs[x].hunks)
    BY <1>4, <1>5
  <2>2. \A x \in 1..Len(gs) : Holds(Side(b, o, gs[x], FALSE), gs[x], do, b, o, FALSE)
    BY <1>6
  <2> QED BY <1>1, <1>2, <1>5, <2>1, <2>2, CarriedIs
<1>11. Carried(b, t, gs, TRUE)
  <2>1. \A h \in dt : \E x \in 1..Len(gs) : h \in Range(gs[x].hunks)
    BY <1>4, <1>5
  <2>2. \A x \in 1..Len(gs) : Holds(Side(b, t, gs[x], TRUE), gs[x], dt, b, t, TRUE)
    BY <1>6
  <2> QED BY <1>1, <1>2, <1>5, <2>1, <2>2, CarriedIs
<1> QED BY <1>6, <1>9, <1>10, <1>11 DEF gs

LEMMA Merge3Is ==
    ASSUME NEW S, NEW b \in Seq(S), NEW o \in Seq(S), NEW t \in Seq(S)
    PROVE  Merge3(b, o, t) \in Seq(S) /\ Keeps(Merge3(b, o, t), GroupsFor(b, o, t), b, o, t)
<1> DEFINE gs == GroupsFor(b, o, t)
           m == Len(gs)
           start == [out |-> <<>>, pos |-> 0]
           st == [p \in At(S) \X (1..m) |-> Settled(b, o, t, p[1], gs[p[2]])]
           good == [k \in 0..m |-> {at \in At(S) : Settling(at, k, gs, b, o, t)}]
           Is(f) == f = [k \in 0..m |-> IF k = 0 THEN [out |-> <<>>, pos |-> 0]
                                        ELSE Settled(b, o, t, f[k - 1], gs[k])]
           settled == CHOOSE f : Is(f)
<1>1. Merge3(b, o, t) = Upto(b, settled[m], Len(b))
  BY DEF Merge3, GroupsFor
<1>2. Steps(S, gs, b, o, t)
  BY StepsOk
<1> HIDE DEF gs
<1>3. gs \in Seq(GroupType) /\ m \in Nat /\ Len(b) \in Nat
  BY <1>2 DEF Steps
<1> HIDE DEF m
<1>4. start \in good[0]
  <2>1. Range(<<>>) = {} /\ <<>> \in Seq(S)
    BY NoneRange
  <2>2. start \in At(S) /\ start.pos = 0 /\ start.out = <<>>
    BY <2>1 DEF At
  <2>3. good[0] = {at \in At(S) : Settling(at, 0, gs, b, o, t)}
    BY <1>3
  <2> HIDE DEF start, good
  <2>4. \A x \in 1..Len(gs) : 0 <= gs[x].g0
    <3>1. \A x \in 1..Len(gs) : gs[x] \in GroupType
      BY <1>3
    <3> QED BY <3>1 DEF GroupType
  <2>5. Settling(start, 0, gs, b, o, t)
    BY <1>3, <2>1, <2>2, <2>4 DEF Settling
  <2> QED BY <2>2, <2>3, <2>5
<1> HIDE DEF start
<1>5. ASSUME NEW k \in 1..m, NEW r \in good[k - 1]
      PROVE  Settled(b, o, t, r, gs[k]) \in good[k]
  <2>1. r \in At(S) /\ Settling(r, k - 1, gs, b, o, t)
    BY <1>3
  <2>2. good[k] = {at \in At(S) : Settling(at, k, gs, b, o, t)}
    BY <1>3
  <2> HIDE DEF good
  <2>3. k - 1 \in Nat /\ (k - 1) + 1 = k /\ (k - 1) + 1 <= Len(gs)
    BY <1>3 DEF m
  <2>4. /\ Settled(b, o, t, r, gs[(k - 1) + 1]) \in At(S)
        /\ Settling(Settled(b, o, t, r, gs[(k - 1) + 1]), (k - 1) + 1, gs, b, o, t)
    BY <1>2, <2>1, <2>3, SettledMore
  <2> QED BY <2>2, <2>3, <2>4
<1>6. ASSUME NEW k \in 1..m, NEW r \in good[k - 1]
      PROVE  st[<<r, k>>] = Settled(b, o, t, r, gs[k])
  <2>1. r \in At(S)
    BY <1>3
  <2> QED BY <2>1
<1> HIDE DEF st
<1>7. \A k \in 1..m : \A r \in good[k - 1] : st[<<r, k>>] \in good[k]
  <2> HIDE DEF good
  <2> QED BY <1>5, <1>6
<1>8. \E f : Is(f)
  <2> HIDE DEF good
  <2>1. PICK f : Row(f, start, st, m) /\ \A k \in 0..m : f[k] \in good[k]
    BY <1>3, <1>4, <1>7, GoodRow
  <2>2. \A k \in 1..m : st[<<f[k - 1], k>>] = Settled(b, o, t, f[k - 1], gs[k])
    BY <1>3, <1>6, <2>1
  <2>3. \A k \in 0..m : k = 0 \/ k \in 1..m
    BY <1>3
  <2>4. f = [k \in 0..m |-> IF k = 0 THEN start ELSE Settled(b, o, t, f[k - 1], gs[k])]
    BY <2>1, <2>2, <2>3 DEF Row
  <2>5. Is(f)
    BY <2>4 DEF start
  <2> QED BY <2>5
<1>9. Is(settled)
  BY <1>8
<1> HIDE DEF settled
<1>10. /\ settled[0] = start
       /\ \A k \in 1..m : settled[k] = Settled(b, o, t, settled[k - 1], gs[k])
  BY <1>3, <1>9 DEF start
<1>11. \A k \in 0..m : settled[k] \in good[k]
  <2> HIDE DEF good
  <2>1. /\ settled[0] \in good[0]
        /\ \A k \in 1..m : settled[k - 1] \in good[k - 1] => settled[k] \in good[k]
    BY <1>4, <1>5, <1>10
  <2> QED BY <1>3, <2>1, Walks
<1>12. settled[m] \in At(S) /\ Settling(settled[m], Len(gs), gs, b, o, t)
  <2>1. good[m] = {at \in At(S) : Settling(at, m, gs, b, o, t)}
    BY <1>3
  <2> HIDE DEF good
  <2>2. settled[m] \in good[m]
    BY <1>3, <1>11
  <2> QED BY <2>1, <2>2 DEF m
<1>13. /\ Upto(b, settled[m], Len(b)) \in Seq(S)
       /\ Keeps(Upto(b, settled[m], Len(b)), gs, b, o, t)
  BY <1>2, <1>12, SettledAll
<1> QED BY <1>1, <1>13 DEF gs
-----------------------------------------------------------------------------
(* What the merge keeps *)

LEMMA LeavesAre ==
    ASSUME NEW ls \in Seq(Line)
    PROVE  /\ Leaves(ls) = {y.leaf : y \in Range(ls)}
           /\ \A y \in Range(ls) : y.leaf \in Leaves(ls)
           /\ \A x \in Leaves(ls) : \E i \in 1..Len(ls) : ls[i].leaf = x
<1>1. /\ Range(ls) = {ls[i] : i \in 1..Len(ls)}
      /\ \A i \in 1..Len(ls) : ls[i] \in Range(ls)
  BY RangeIs
<1>2. Leaves(ls) = {ls[i].leaf : i \in 1..Len(ls)}
  BY DEF Leaves
<1> QED BY <1>1, <1>2

\* A pad that says nothing twice has each leaf on one line.
EachOnce(ls) == \A i, j \in 1..Len(ls) : ls[i].leaf = ls[j].leaf => i = j

LEMMA OneLine ==
    ASSUME NEW ls \in Seq(Line), Distinct(ls)
    PROVE  EachOnce(ls)
<1> DEFINE n == Len(ls)
           f == [k \in 1..n |-> ls[k].leaf]
<1>1. n \in Nat /\ Leaves(ls) = {ls[k].leaf : k \in 1..n} /\ Cardinality(Leaves(ls)) = n
  BY DEF Leaves, Distinct
<1> HIDE DEF n
<1>2. f \in Surjection(1..n, Leaves(ls))
  BY <1>1 DEF Surjection
<1>3. IsFiniteSet(1..n) /\ Cardinality(1..n) = n
  BY <1>1, FS_Interval
<1>4. f \in Injection(1..n, Leaves(ls))
  BY <1>1, <1>2, <1>3, FS_Surjection
<1>5. ASSUME NEW i \in 1..n, NEW j \in 1..n, ls[i].leaf = ls[j].leaf PROVE i = j
  <2>1. f[i] = f[j]
    BY <1>5
  <2> HIDE DEF f
  <2> QED BY <1>4, <1>5, <2>1 DEF Injection, IsInjective
<1> QED BY <1>5 DEF EachOnce, n

\* The base has the line among those that the n-th group stands for.
OfGroup(b, gs, n, y) == \E i \in 1..Len(b) : In(gs[n], i) /\ b[i] = y

\* A line of a side's version of a group is in the merge, or it is one of the base's
\* lines that the group stands for; if ours is left out, all of theirs is in.
OursIn(b, o, t, n, y) ==
    \/ y \in Range(Merge3(b, o, t))
    \/ /\ OfGroup(b, GroupsFor(b, o, t), n, y)
       /\ Range(Side(b, t, GroupsFor(b, o, t)[n], TRUE)) \subseteq Range(Merge3(b, o, t))

TheirsIn(b, o, t, n, y) ==
    y \in Range(Merge3(b, o, t)) \/ OfGroup(b, GroupsFor(b, o, t), n, y)

LEMMA FromSides ==
    ASSUME NEW S, NEW b \in Seq(S), NEW o \in Seq(S), NEW t \in Seq(S),
           NEW n \in 1..Len(GroupsFor(b, o, t)), NEW y
    PROVE  /\ y \in Range(Side(b, o, GroupsFor(b, o, t)[n], FALSE)) => OursIn(b, o, t, n, y)
           /\ y \in Range(Side(b, t, GroupsFor(b, o, t)[n], TRUE)) => TheirsIn(b, o, t, n, y)
<1> DEFINE gs == GroupsFor(b, o, t)
           old == Old(b, gs[n])
           p == Side(b, o, gs[n], FALSE)
           q == Side(b, t, gs[n], TRUE)
           r == Result(b, o, t, gs[n])
           m == Merge3(b, o, t)
<1>1. /\ Steps(S, gs, b, o, t)
      /\ \A z \in 1..Len(gs) : /\ gs[z] \in GroupType
                               /\ Side(b, o, gs[z], FALSE) \in Seq(S)
                               /\ Side(b, t, gs[z], TRUE) \in Seq(S)
  BY StepsOk
<1>2. gs[n] \in GroupType /\ gs[n].g1 <= Len(b) /\ p \in Seq(S) /\ q \in Seq(S)
  BY <1>1 DEF Steps
<1>3. /\ old \in Seq(S)
      /\ \A z \in Range(old) : OfGroup(b, gs, n, z)
  BY <1>2, OldIs DEF OfGroup
<1>4. r = Resolve(old, p, q)
  BY DEF Result
<1>5. Range(r) \subseteq Range(m)
  <2>1. Keeps(m, gs, b, o, t)
    BY Merge3Is
  <2> QED BY <2>1 DEF Keeps
<1> HIDE DEF old, p, q, r, m
<1>6. /\ Range(p) \subseteq Range(Resolve(old, p, q)) \/ (p = old /\ Resolve(old, p, q) = q)
      /\ Range(q) \subseteq Range(Resolve(old, p, q)) \cup Range(old)
  BY <1>2, <1>3, ResolveIs
<1>7. ASSUME y \in Range(p)
      PROVE  y \in Range(m) \/ (OfGroup(b, gs, n, y) /\ Range(q) \subseteq Range(m))
  <2>1. CASE Range(p) \subseteq Range(r)
    BY <1>5, <1>7, <2>1
  <2>2. CASE p = old /\ r = q
    BY <1>3, <1>5, <1>7, <2>2
  <2> QED BY <1>4, <1>6, <2>1, <2>2
<1>8. ASSUME y \in Range(q)
      PROVE  y \in Range(m) \/ OfGroup(b, gs, n, y)
  BY <1>3, <1>4, <1>5, <1>6, <1>8
<1> QED BY <1>7, <1>8 DEF p, q, m, OursIn, TheirsIn

\* A side brings a leaf in its version of a group, or on a line of the base that it
\* left alone.
BringsIn(b, ls, gs, side, x) ==
    \E n \in 1..Len(gs) : \E y \in Range(Side(b, ls, gs[n], side)) : y.leaf = x

LeftAlone(b, ls, gs, side, x) ==
    \E j \in 1..Len(b) :
        /\ b[j].leaf = x
        /\ \A n \in 1..Len(gs) : In(gs[n], j) => b[j] \in Range(Side(b, ls, gs[n], side))

LEMMA Brings ==
    ASSUME NEW b, NEW gs, NEW ls \in Seq(Line), NEW side, Carried(b, ls, gs, side),
           NEW x \in Leaves(ls)
    PROVE  BringsIn(b, ls, gs, side, x) \/ LeftAlone(b, ls, gs, side, x)
<1>1. PICK i \in 1..Len(ls) : ls[i].leaf = x
  BY LeavesAre
<1> QED BY <1>1 DEF Carried, BringsIn, LeftAlone

\* A group stands for lines that no other group stands for.
LEMMA OneGroup ==
    ASSUME NEW S, NEW b, NEW o, NEW t, NEW gs, Steps(S, gs, b, o, t),
           NEW x \in 1..Len(gs), NEW y \in 1..Len(gs), NEW i \in Nat, In(gs[x], i), In(gs[y], i)
    PROVE  x = y
<1>1. gs[x] \in GroupType /\ gs[y] \in GroupType /\ x \in Nat /\ y \in Nat
  BY DEF Steps
<1>2. /\ gs[x].g0 \in Nat /\ gs[x].g1 \in Nat /\ gs[y].g0 \in Nat /\ gs[y].g1 \in Nat
  BY <1>1 DEF GroupType
<1>3. ASSUME x < y PROVE FALSE
  <2>1. gs[x].g1 <= gs[y].g0
    BY <1>3 DEF Steps
  <2> QED BY <1>2, <2>1 DEF In
<1>4. ASSUME y < x PROVE FALSE
  <2>1. gs[y].g1 <= gs[x].g0
    BY <1>4 DEF Steps
  <2> QED BY <1>2, <2>1 DEF In
<1> QED BY <1>1, <1>3, <1>4

\* The merge has every leaf that a side wrote.
LEMMA WrittenIn ==
    ASSUME NEW b \in Seq(Line), NEW o \in Seq(Line), NEW t \in Seq(Line),
           NEW x \in Leaves(o) \cup Leaves(t), x \notin Leaves(b)
    PROVE  x \in Leaves(Merge3(b, o, t))
<1> DEFINE gs == GroupsFor(b, o, t)
           m == Merge3(b, o, t)
<1>1. m \in Seq(Line)
  BY Merge3Is
<1>2. \A j \in 1..Len(b) : b[j].leaf # x
  BY DEF Leaves
<1>3. Carried(b, o, gs, FALSE) /\ Carried(b, t, gs, TRUE)
  BY StepsOk
<1>4. BringsIn(b, o, gs, FALSE, x) \/ BringsIn(b, t, gs, TRUE, x)
  <2> HIDE DEF gs
  <2>1. \A ls, side : ~ LeftAlone(b, ls, gs, side, x)
    BY <1>2 DEF LeftAlone
  <2>2. CASE x \in Leaves(o)
    BY <1>3, <2>1, <2>2, Brings
  <2>3. CASE x \in Leaves(t)
    BY <1>3, <2>1, <2>3, Brings
  <2> QED BY <2>2, <2>3
<1>5. ASSUME NEW n \in 1..Len(gs), NEW y,
             y \in Range(Side(b, o, gs[n], FALSE)) \/ y \in Range(Side(b, t, gs[n], TRUE))
      PROVE  y \in Range(m) \/ OfGroup(b, gs, n, y)
  <2>1. OursIn(b, o, t, n, y) \/ TheirsIn(b, o, t, n, y)
    BY <1>5, FromSides
  <2> QED BY <2>1 DEF OursIn, TheirsIn
<1> HIDE DEF gs, m
<1>6. PICK y \in Range(m) : y.leaf = x
  <2>1. PICK n \in 1..Len(gs) :
             \E y : /\ y.leaf = x
                    /\ \/ y \in Range(Side(b, o, gs[n], FALSE))
                       \/ y \in Range(Side(b, t, gs[n], TRUE))
    BY <1>4 DEF BringsIn
  <2>2. PICK y : /\ y.leaf = x
                 /\ \/ y \in Range(Side(b, o, gs[n], FALSE))
                    \/ y \in Range(Side(b, t, gs[n], TRUE))
    BY <2>1
  <2>3. ~ OfGroup(b, gs, n, y)
    BY <1>2, <2>2 DEF OfGroup
  <2> QED BY <1>5, <2>2, <2>3
<1>7. x \in Leaves(m)
  BY <1>1, <1>6, LeavesAre
<1> QED BY <1>7 DEF m

\* If the base says nothing twice, the merge has every leaf that both sides have.
LEMMA SharedIn ==
    ASSUME NEW b \in Seq(Line), NEW o \in Seq(Line), NEW t \in Seq(Line), EachOnce(b),
           NEW x \in Leaves(o) \cap Leaves(t)
    PROVE  x \in Leaves(Merge3(b, o, t))
<1>1. CASE x \notin Leaves(b)
  BY <1>1, WrittenIn
<1>2. CASE x \in Leaves(b)
  <2> DEFINE gs == GroupsFor(b, o, t)
             m == Merge3(b, o, t)
  <2>1. m \in Seq(Line) /\ Keeps(m, gs, b, o, t)
    BY Merge3Is
  <2>2. Steps(Line, gs, b, o, t) /\ Carried(b, o, gs, FALSE) /\ Carried(b, t, gs, TRUE)
    BY StepsOk
  <2>3. PICK j \in 1..Len(b) : b[j].leaf = x
    BY <1>2, LeavesAre
  <2>4. \A i \in 1..Len(b) : b[i].leaf = x => i = j
    BY <2>3 DEF EachOnce
  <2> SUFFICES ASSUME \A y \in Range(m) : y.leaf # x PROVE FALSE
    BY <2>1, LeavesAre
  <2>5. ASSUME NEW n \in 1..Len(gs), NEW y, y.leaf = x,
               y \in Range(Side(b, o, gs[n], FALSE))
        PROVE  OfGroup(b, gs, n, y) /\ Range(Side(b, t, gs[n], TRUE)) \subseteq Range(m)
    <3>1. OursIn(b, o, t, n, y)
      BY <2>5, FromSides
    <3> QED BY <2>5, <3>1 DEF OursIn
  <2>6. ASSUME NEW n \in 1..Len(gs), NEW y, y.leaf = x,
               y \in Range(Side(b, t, gs[n], TRUE))
        PROVE  OfGroup(b, gs, n, y)
    <3>1. TheirsIn(b, o, t, n, y)
      BY <2>6, FromSides
    <3> QED BY <2>6, <3>1 DEF TheirsIn
  <2> HIDE DEF gs, m
  <2>7. PICK k \in 1..Len(gs) : In(gs[k], j)
    <3>1. b[j] \notin Range(m)
      BY <2>3
    <3> QED BY <2>1, <3>1 DEF Keeps
  <2>8. \A n \in 1..Len(gs) : In(gs[n], j) => n = k
    <3>1. j \in Nat
      OBVIOUS
    <3> QED BY <2>2, <2>7, <3>1, OneGroup
  <2>9. ASSUME NEW n \in 1..Len(gs), NEW y, y.leaf = x, OfGroup(b, gs, n, y)
        PROVE  n = k
    BY <2>4, <2>8, <2>9 DEF OfGroup
  <2>10. Range(Side(b, t, gs[k], TRUE)) \subseteq Range(m)
    <3>1. CASE BringsIn(b, o, gs, FALSE, x)
      <4>0. PICK n \in 1..Len(gs) : \E y \in Range(Side(b, o, gs[n], FALSE)) : y.leaf = x
        BY <3>1 DEF BringsIn
      <4>1. PICK y \in Range(Side(b, o, gs[n], FALSE)) : y.leaf = x
        BY <4>0
      <4>2. OfGroup(b, gs, n, y) /\ Range(Side(b, t, gs[n], TRUE)) \subseteq Range(m)
        BY <2>5, <4>1
      <4>3. n = k
        BY <2>9, <4>1, <4>2
      <4> QED BY <4>2, <4>3
    <3>2. CASE LeftAlone(b, o, gs, FALSE, x)
      <4>1. b[j] \in Range(Side(b, o, gs[k], FALSE))
        BY <2>4, <2>7, <3>2 DEF LeftAlone
      <4> QED BY <2>3, <2>5, <4>1
    <3>3. BringsIn(b, o, gs, FALSE, x) \/ LeftAlone(b, o, gs, FALSE, x)
      BY <2>2, Brings
    <3> QED BY <3>1, <3>2, <3>3
  <2>11. CASE BringsIn(b, t, gs, TRUE, x)
    <3>0. PICK n \in 1..Len(gs) : \E y \in Range(Side(b, t, gs[n], TRUE)) : y.leaf = x
      BY <2>11 DEF BringsIn
    <3>1. PICK y \in Range(Side(b, t, gs[n], TRUE)) : y.leaf = x
      BY <3>0
    <3>2. n = k
      BY <2>6, <2>9, <3>1
    <3>3. y \in Range(m)
      BY <2>10, <3>1, <3>2
    <3> QED BY <3>1, <3>3
  <2>12. CASE LeftAlone(b, t, gs, TRUE, x)
    <3>1. b[j] \in Range(Side(b, t, gs[k], TRUE))
      BY <2>4, <2>7, <2>12 DEF LeftAlone
    <3> QED BY <2>3, <2>10, <3>1
  <2>13. BringsIn(b, t, gs, TRUE, x) \/ LeftAlone(b, t, gs, TRUE, x)
    BY <2>2, Brings
  <2> QED BY <2>11, <2>12, <2>13
<1> QED BY <1>1, <1>2
-----------------------------------------------------------------------------
(* The merge laws *)

\* Rendering changes no leaf.
LEMMA RenderIs ==
    ASSUME NEW ls \in Seq(Line)
    PROVE  Render(ls) \in Seq(Line) /\ Leaves(Render(ls)) = Leaves(ls)
<1> DEFINE n == Len(ls)
           r == Render(ls)
<1>1. n \in Nat /\ DOMAIN ls = 1..n /\ \A i \in 1..n : ls[i] \in Line
  OBVIOUS
<1>2. ASSUME NEW i \in 1..n PROVE r[i] \in Line /\ r[i].leaf = ls[i].leaf
  <2>1. r[i] = IF ls[i].box = "inside" /\ (i = 1 \/ ls[i - 1].box = "none")
               THEN [ls[i] EXCEPT !.box = "opens"] ELSE ls[i]
    BY <1>1 DEF Render
  <2>2. ls[i] \in Line
    BY <1>1
  <2> HIDE DEF r
  <2>3. CASE r[i] = ls[i]
    BY <2>2, <2>3
  <2>4. CASE r[i] = [ls[i] EXCEPT !.box = "opens"]
    BY <2>2, <2>4 DEF Line
  <2> QED BY <2>1, <2>3, <2>4
<1>3. DOMAIN r = 1..n /\ r = [i \in 1..n |-> r[i]]
  BY <1>1 DEF Render
<1> HIDE DEF r, n
<1>4. r \in [1..n -> Line]
  BY <1>2, <1>3
<1>5. r \in Seq(Line)
  BY <1>1, <1>4
<1>6. Leaves(r) = {r[i].leaf : i \in 1..n} /\ Leaves(ls) = {ls[i].leaf : i \in 1..n}
  BY <1>1, <1>3 DEF Leaves
<1> QED BY <1>2, <1>5, <1>6 DEF r

LEMMA Merge3Keeps ==
    ASSUME NEW b \in Seq(Line), NEW o \in Seq(Line), NEW t \in Seq(Line)
    PROVE  LET m == Render(Merge3(b, o, t))
           IN  /\ m \in Seq(Line)
               /\ Leaves(m) \subseteq Leaves(o) \cup Leaves(t)
               /\ (Leaves(o) \cup Leaves(t)) \ Leaves(b) \subseteq Leaves(m)
               /\ EachOnce(b) => Leaves(o) \cap Leaves(t) \subseteq Leaves(m)
<1> DEFINE m == Merge3(b, o, t)
<1>1. m \in Seq(Line) /\ Range(m) \subseteq Range(o) \cup Range(t)
  BY Merge3Is DEF Keeps
<1>2. (Leaves(o) \cup Leaves(t)) \ Leaves(b) \subseteq Leaves(m)
  BY WrittenIn
<1>3. EachOnce(b) => Leaves(o) \cap Leaves(t) \subseteq Leaves(m)
  BY SharedIn
<1> HIDE DEF m
<1>4. Render(m) \in Seq(Line) /\ Leaves(Render(m)) = Leaves(m)
  BY <1>1, RenderIs
<1>5. Leaves(m) \subseteq Leaves(o) \cup Leaves(t)
  <2>1. /\ Leaves(m) = {y.leaf : y \in Range(m)}
        /\ Leaves(o) = {y.leaf : y \in Range(o)} /\ Leaves(t) = {y.leaf : y \in Range(t)}
    BY <1>1, LeavesAre
  <2> QED BY <1>1, <2>1
<1> QED BY <1>2, <1>3, <1>4, <1>5 DEF m

\* For any three pads, the merge has no leaf that neither copy has, has every leaf that
\* a copy has and the base has not, and every leaf of both if the base says nothing
\* twice (Merge).
LEMMA MergeKeeps ==
    ASSUME NEW b \in Seq(Line), NEW o \in Seq(Line), NEW t \in Seq(Line)
    PROVE  LET m == Merge(b, o, t)
           IN  /\ m \in Seq(Line)
               /\ Leaves(m) \subseteq Leaves(o) \cup Leaves(t)
               /\ (Leaves(o) \cup Leaves(t)) \ Leaves(b) \subseteq Leaves(m)
               /\ EachOnce(b) => Leaves(o) \cap Leaves(t) \subseteq Leaves(m)
<1>1. CASE o = t \/ t = b
  BY <1>1 DEF Merge
<1>2. CASE ~ (o = t \/ t = b) /\ o = b
  BY <1>2 DEF Merge
<1>3. CASE ~ (o = t \/ t = b) /\ o # b
  <2>1. Merge(b, o, t) = Render(Merge3(b, o, t))
    BY <1>3 DEF Merge
  <2> QED BY <2>1, Merge3Keeps
<1> QED BY <1>1, <1>2, <1>3

\* An edit makes a pad of a pad.
LEMMA EditsArePads ==
    ASSUME NEW ls \in Seq(Line), NEW new \in SUBSET Line
    PROVE  Edits(ls, new) \subseteq Seq(Line)
<1> DEFINE m == Len(ls)
<1>1. m \in Nat /\ DOMAIN ls = 1..m
  OBVIOUS
<1>2. ASSUME NEW n \in 1..(m + 1), NEW l \in new PROVE InsertAt(ls, n, l) \in Seq(Line)
  <2> DEFINE p == SubSeq(ls, 1, n - 1)
             q == SubSeq(ls, n, m)
  <2>1. p \in Seq(Line) /\ q \in Seq(Line) /\ <<l>> \in Seq(Line)
    BY <1>1, SubSeqProperties
  <2>2. InsertAt(ls, n, l) = (p \o <<l>>) \o q
    BY DEF InsertAt
  <2> HIDE DEF p, q
  <2> QED BY <2>1, <2>2, ConcatProperties
<1>3. ASSUME NEW n \in 1..m PROVE RemoveAt(ls, n) \in Seq(Line)
  <2> DEFINE p == SubSeq(ls, 1, n - 1)
             q == SubSeq(ls, n + 1, m)
  <2>1. p \in Seq(Line) /\ q \in Seq(Line)
    BY <1>1, SubSeqProperties
  <2>2. RemoveAt(ls, n) = p \o q
    BY DEF RemoveAt
  <2> HIDE DEF p, q
  <2> QED BY <2>1, <2>2, ConcatProperties
<1>4. ASSUME NEW n \in 1..m, NEW l \in new PROVE ReplaceAt(ls, n, l) \in Seq(Line)
  BY ExceptSeq DEF ReplaceAt
<1> QED BY <1>1, <1>2, <1>3, <1>4, RenderIs DEF Edits

\* The base and the copies are pads.
PadsOk == base \in Seq(Line) /\ ours \in Seq(Line) /\ theirs \in Seq(Line)

LEMMA PadsStay == Spec => []PadsOk
<1>1. Init => PadsOk
  <2> SUFFICES ASSUME Init PROVE PadsOk
    OBVIOUS
  <2>1. PICK k \in 0..MaxLines : base \in [1..k -> Line]
    BY DEF Init, Pads
  <2>2. k \in Nat
    BY PadBounds
  <2>3. base \in Seq(Line)
    BY <2>1, <2>2
  <2> QED BY <2>3 DEF Init, PadsOk
<1>2. PadsOk /\ [Next]_vars => PadsOk'
  <2> SUFFICES ASSUME PadsOk, [Next]_vars PROVE PadsOk'
    OBVIOUS
  <2>1. CASE EditOurs
    BY <2>1, EditsArePads DEF EditOurs, PadsOk
  <2>2. CASE EditTheirs
    BY <2>2, EditsArePads DEF EditTheirs, PadsOk
  <2>3. CASE UNCHANGED vars
    BY <2>3 DEF vars, PadsOk
  <2> QED BY <2>1, <2>2, <2>3 DEF Next
<1> QED BY <1>1, <1>2, PTL DEF Spec

\* Whatever two devices make of copies of one pad, the merge has no block that neither
\* of them has (Merge, side and resolve).
THEOREM NothingComesBack == Spec => []NothingReturns
<1>1. PadsOk => NothingReturns
  BY MergeKeeps DEF PadsOk, NothingReturns, Merged
<1> QED BY <1>1, PadsStay, PTL

\* Whatever two devices make of copies of one pad, a block that either of them wrote is
\* in the merge, and so is one that both kept of a base that says nothing twice.
THEOREM WrittenIsKept == Spec => []WrittenStays
<1>1. PadsOk => WrittenStays
  BY MergeKeeps, OneLine DEF PadsOk, WrittenStays, Merged
<1> QED BY <1>1, PadsStay, PTL
-----------------------------------------------------------------------------
(* The pads of an account *)

LEMMA LeavesTyped == \A ls \in Seq(Line) : Leaves(ls) \subseteq Leaf
<1> SUFFICES ASSUME NEW ls \in Seq(Line), NEW n \in DOMAIN ls PROVE ls[n].leaf \in Leaf
  BY DEF Leaves
<1>1. ls[n] \in Line
  OBVIOUS
<1> QED BY <1>1 DEF Line

\* What a pad loses of its leaves has been taken out.
LEMMA GoneIsTakenOut ==
    ASSUME NEW old \in Seq(Line), NEW new \in Seq(Line)
    PROVE  /\ Leaves(old) \ Leaves(new) \subseteq TakenOut(old, new)
           /\ TakenOut(old, new) \subseteq Leaf
<1> DEFINE At0(ls, x) == {n \in DOMAIN ls : ls[n].leaf = x}
<1>1. TakenOut(old, new) =
          {x \in Leaves(old) : Cardinality(At0(new, x)) < Cardinality(At0(old, x))}
  BY DEF TakenOut
<1>2. Leaves(old) \subseteq Leaf
  BY LeavesTyped
<1>3. ASSUME NEW x \in Leaves(old) \ Leaves(new)
      PROVE  Cardinality(At0(new, x)) < Cardinality(At0(old, x))
  <2>1. At0(new, x) = {} /\ At0(old, x) # {}
    BY DEF Leaves
  <2>2. IsFiniteSet(DOMAIN old)
    BY FS_Interval
  <2>3. At0(old, x) \subseteq DOMAIN old
    OBVIOUS
  <2> HIDE DEF At0
  <2>4. IsFiniteSet(At0(old, x))
    BY <2>2, <2>3, FS_Subset
  <2>5. Cardinality(At0(old, x)) \in Nat
    BY <2>4, FS_CardinalityType
  <2>6. Cardinality(At0(old, x)) # 0 /\ Cardinality(At0(new, x)) = 0
    BY <2>1, <2>4, FS_EmptySet
  <2> QED BY <2>5, <2>6
<1> QED BY <1>1, <1>2, <1>3

\* A pad from which nothing can be taken out and stay has each leaf on one line.
LEMMA NothingTwice ==
    ASSUME NEW ls \in Seq(Line), \A new \in Seq(Line) : TakenOut(ls, new) \cap Leaves(new) = {}
    PROVE  EachOnce(ls)
<1> SUFFICES ASSUME NEW i \in 1..Len(ls), NEW j \in 1..Len(ls), ls[i].leaf = ls[j].leaf, i # j
             PROVE  FALSE
  BY DEF EachOnce
<1> DEFINE x == ls[i].leaf
           new == <<ls[i]>>
           At0(l) == {n \in DOMAIN l : l[n].leaf = x}
<1>1. new \in Seq(Line) /\ DOMAIN new = {1} /\ new[1].leaf = x
  OBVIOUS
<1>2. At0(new) = {1} /\ {i, j} \subseteq At0(ls) /\ At0(ls) \subseteq DOMAIN ls
  BY <1>1
<1>3. x \in Leaves(new) /\ x \in Leaves(ls)
  BY <1>1 DEF Leaves
<1>4. TakenOut(ls, new) = {y \in Leaves(ls) : Cardinality({n \in DOMAIN new : new[n].leaf = y})
                                                 < Cardinality({n \in DOMAIN ls : ls[n].leaf = y})}
  BY DEF TakenOut
<1>5. Cardinality(At0(new)) < Cardinality(At0(ls)) => x \in TakenOut(ls, new)
  BY <1>3, <1>4
<1>6. IsFiniteSet(DOMAIN ls)
  BY FS_Interval
<1> HIDE DEF x, new, At0
<1>7. IsFiniteSet(At0(ls))
  BY <1>2, <1>6, FS_Subset
<1>8. Cardinality(At0(new)) = 1
  BY <1>2, FS_Singleton
<1>9. Cardinality({i, j}) = 2
  <2>1. IsFiniteSet({i}) /\ Cardinality({i}) = 1
    BY FS_Singleton
  <2>2. Cardinality({i} \cup {j}) = Cardinality({i}) + 1
    BY <2>1, FS_AddElement
  <2>3. {i} \cup {j} = {i, j}
    OBVIOUS
  <2> QED BY <2>1, <2>2, <2>3
<1>10. Cardinality({i, j}) <= Cardinality(At0(ls)) /\ Cardinality(At0(ls)) \in Nat
  BY <1>2, <1>7, FS_Subset, FS_CardinalityType
<1>11. x \in TakenOut(ls, new)
  BY <1>5, <1>8, <1>9, <1>10
<1> QED BY <1>1, <1>3, <1>11

CONSTANTS Device, Starts, Imports, NoText, MaxFails, MaxVersion

VARIABLES record, pad, disk, legacy, shown, calls, reply, event, sync, made, fails, typed, erased

\* What one edit makes of a pad, the blocks it writes saying one of these.
Typing(ls, leaves) == Edits(ls, [box : {"none", "opens", "inside"}, leaf : leaves])

\* The pads that the devices of an account sync, of any number of blocks, in lists or
\* out, merged as the code does.
Sync == INSTANCE PadSyncProofs WITH
    Text <- Seq(Line), Empty <- <<>>, Block <- Leaf, Blocks <- Leaves, Erases <- TakenOut,
    Edited <- Typing, MergeTexts <- Merge, edits <- made

LEMMA PadsClosed ==
    ASSUME Starts \subseteq Seq(Line), Imports \subseteq Seq(Line)
    PROVE  Sync!TextsClosed
<1>1. <<>> \in Seq(Line)
  OBVIOUS
<1>2. \A t \in Seq(Line) : Leaves(t) \subseteq Leaf
  BY LeavesTyped
<1>3. ASSUME NEW t \in Seq(Line), NEW new \in SUBSET Leaf PROVE Typing(t, new) \subseteq Seq(Line)
  <2>1. [box : {"none", "opens", "inside"}, leaf : new] \subseteq Line
    BY DEF Line
  <2> QED BY <2>1, EditsArePads DEF Typing
<1>4. \A t, u \in Seq(Line) : TakenOut(t, u) \subseteq Leaf
  BY GoneIsTakenOut
<1>5. \A b, o, t \in Seq(Line) : Merge(b, o, t) \in Seq(Line)
  BY MergeKeeps
<1> QED BY <1>1, <1>2, <1>3, <1>4, <1>5 DEF Sync!TextsClosed

LEMMA PadBlocksKept == Sync!BlocksKept
<1>1. Leaves(<<>>) = {}
  BY DEF Leaves
<1>2. \A t, u \in Seq(Line) : Leaves(t) \ Leaves(u) \subseteq TakenOut(t, u)
  BY GoneIsTakenOut
<1>3. ASSUME NEW b \in Seq(Line), NEW o \in Seq(Line), NEW t \in Seq(Line)
      PROVE  /\ (Leaves(o) \cup Leaves(t)) \ Leaves(b) \subseteq Leaves(Merge(b, o, t))
             /\ Sync!Once(b) => Leaves(o) \cap Leaves(t) \subseteq Leaves(Merge(b, o, t))
  <2>1. Sync!Once(b) => EachOnce(b)
    BY NothingTwice DEF Sync!Once
  <2> QED BY <2>1, MergeKeeps
<1> QED BY <1>1, <1>2, <1>3 DEF Sync!BlocksKept

\* A block that is in the record or in a pad file stays until a user takes it out,
\* whatever devices do to the pads of one account, unless a pad says a block twice
\* (Sync, adopt and the merge).
THEOREM PadsStayWhole ==
    /\ Starts \subseteq Seq(Line) /\ Imports \subseteq Seq(Line)
    /\ MaxFails \in Nat /\ MaxVersion \in Nat \ {0}
    => (Sync!Spec /\ []Sync!Unrepeated => Sync!TextStays)
<1> SUFFICES ASSUME Starts \subseteq Seq(Line), Imports \subseteq Seq(Line),
                    MaxFails \in Nat, MaxVersion \in Nat \ {0}
             PROVE  Sync!Spec /\ []Sync!Unrepeated => Sync!TextStays
  OBVIOUS
<1>1. Sync!TextsClosed /\ Sync!BlocksKept
  BY PadsClosed, PadBlocksKept
<1>2. Sync!BoundsAssumption
  BY PadBounds DEF Sync!BoundsAssumption
<1> QED BY <1>1, <1>2, Sync!TextsStay, PTL
=============================================================================
