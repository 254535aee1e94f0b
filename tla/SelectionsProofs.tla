-------------------------- MODULE SelectionsProofs --------------------------
(***************************************************************************)
(* What Selections returns: facts about ranks, and about the elements that *)
(* a loop keeps, for sequences of any length.                              *)
(***************************************************************************)
EXTENDS Selections, FiniteSetTheorems, SequenceTheorems, TLAPS

-----------------------------------------------------------------------------
(* Positions in order. *)

(* A strict order of the positions in I, as a set of pairs.                 *)
TotalOrder(I, R) ==
    /\ \A i \in I : <<i, i>> \notin R
    /\ \A i, j, k \in I : <<i, j>> \in R /\ <<j, k>> \in R => <<i, k>> \in R
    /\ \A i, j \in I : i = j \/ <<i, j>> \in R \/ <<j, i>> \in R
Before(I, R, i) == {j \in I : <<j, i>> \in R}

(* Fewer positions come before an earlier one.                              *)
LEMMA RankGrows ==
    ASSUME NEW I, IsFiniteSet(I), NEW R, TotalOrder(I, R), NEW i \in I, NEW j \in I, <<i, j>> \in R
    PROVE  Cardinality(Before(I, R, i)) < Cardinality(Before(I, R, j))
<1>1. Before(I, R, j) \in SUBSET I /\ Before(I, R, i) \in SUBSET Before(I, R, j)
  BY DEF TotalOrder, Before
<1>2. i \in Before(I, R, j) /\ i \notin Before(I, R, i)
  BY DEF TotalOrder, Before
<1>3. IsFiniteSet(Before(I, R, j))
  BY <1>1, FS_Subset
<1>4. /\ Cardinality(Before(I, R, i)) <= Cardinality(Before(I, R, j))
      /\ Cardinality(Before(I, R, j)) = Cardinality(Before(I, R, i)) => Before(I, R, j) = Before(I, R, i)
      /\ IsFiniteSet(Before(I, R, i))
  BY <1>1, <1>3, FS_Subset
<1>5. Cardinality(Before(I, R, i)) \in Nat /\ Cardinality(Before(I, R, j)) \in Nat
  BY <1>3, <1>4, FS_CardinalityType
<1> QED
  BY <1>2, <1>4, <1>5

(* Nth enumerates the positions, each once and in order.                    *)
LEMMA NthEnumerates ==
    ASSUME NEW I, IsFiniteSet(I), NEW R, TotalOrder(I, R)
    PROVE  /\ Cardinality(I) \in Nat
           /\ \A k \in 1..Cardinality(I) : Nth(I, R, k) \in I
           /\ \A i \in I : \E k \in 1..Cardinality(I) : Nth(I, R, k) = i
           /\ \A k, m \in 1..Cardinality(I) : k < m => <<Nth(I, R, k), Nth(I, R, m)>> \in R
<1>1. PICK n \in Nat : n = Cardinality(I)
  BY FS_CardinalityType
<1>2. PICK f : f = [i \in I |-> Cardinality(Before(I, R, i)) + 1]
  OBVIOUS
<1>3. \A i \in I : f[i] \in 1..n
  <2> TAKE i \in I
  <2>1. IsFiniteSet(I \ {i}) /\ Cardinality(I \ {i}) = n - 1
    BY <1>1, FS_RemoveElement
  <2>2. Before(I, R, i) \in SUBSET (I \ {i})
    BY DEF TotalOrder, Before
  <2>3. IsFiniteSet(Before(I, R, i)) /\ Cardinality(Before(I, R, i)) <= n - 1
    BY <2>1, <2>2, FS_Subset
  <2>4. Cardinality(Before(I, R, i)) \in Nat
    BY <2>3, FS_CardinalityType
  <2> QED
    BY <1>2, <2>3, <2>4
<1>4. \A i, j \in I : <<i, j>> \in R => f[i] < f[j]
  <2> TAKE i \in I, j \in I
  <2> HAVE <<i, j>> \in R
  <2>1. Cardinality(Before(I, R, i)) < Cardinality(Before(I, R, j))
    BY RankGrows
  <2>2. f[i] = Cardinality(Before(I, R, i)) + 1 /\ f[j] = Cardinality(Before(I, R, j)) + 1
    BY <1>2
  <2>3. f[i] \in 1..n /\ f[j] \in 1..n
    BY <1>3
  <2>4. IsFiniteSet(Before(I, R, i)) /\ IsFiniteSet(Before(I, R, j))
    BY FS_Subset DEF Before
  <2>5. Cardinality(Before(I, R, i)) \in Nat /\ Cardinality(Before(I, R, j)) \in Nat
    BY <2>4, FS_CardinalityType
  <2> QED
    BY <2>1, <2>2, <2>5
<1>5. \A i, j \in I : f[i] = f[j] => i = j
  <2> TAKE i \in I, j \in I
  <2>1. f[i] \in Nat /\ f[j] \in Nat
    BY <1>3
  <2>2. i = j \/ <<i, j>> \in R \/ <<j, i>> \in R
    BY DEF TotalOrder
  <2> QED
    BY <1>4, <2>1, <2>2
<1>6. f \in [I -> 1..n]
  BY <1>2, <1>3
<1>7. f \in Injection(I, 1..n)
  BY <1>5, <1>6 DEF Injection, IsInjective
<1>8. IsFiniteSet(1..n) /\ Cardinality(1..n) = n
  BY FS_Interval
<1>9. f \in Surjection(I, 1..n)
  BY <1>1, <1>7, <1>8, FS_Injection
<1>10. \A k \in 1..n : \E i \in I : f[i] = k
  BY <1>9 DEF Surjection
<1>11. \A k \in 1..n : Nth(I, R, k) \in I /\ f[Nth(I, R, k)] = k
  <2> TAKE k \in 1..n
  <2>1. \A i \in I : Cardinality(Before(I, R, i)) = k - 1 <=> f[i] = k
    <3> TAKE i \in I
    <3>1. IsFiniteSet(Before(I, R, i))
      BY FS_Subset DEF Before
    <3>2. Cardinality(Before(I, R, i)) \in Nat
      BY <3>1, FS_CardinalityType
    <3> QED
      BY <1>2, <3>2
  <2>2. \E i \in I : Cardinality(Before(I, R, i)) = k - 1
    BY <1>10, <2>1
  <2>3. Nth(I, R, k) = CHOOSE i \in I : Cardinality(Before(I, R, i)) = k - 1
    BY DEF Nth, Before
  <2> QED
    BY <2>1, <2>2, <2>3
<1>12. \A i \in I : Nth(I, R, f[i]) = i
  BY <1>3, <1>5, <1>11
<1>13. ASSUME NEW k \in 1..n, NEW m \in 1..n, k < m PROVE <<Nth(I, R, k), Nth(I, R, m)>> \in R
  <2>1. PICK x \in I : x = Nth(I, R, k) /\ f[x] = k
    BY <1>11
  <2>2. PICK y \in I : y = Nth(I, R, m) /\ f[y] = m
    BY <1>11
  <2>3. x = y \/ <<x, y>> \in R \/ <<y, x>> \in R
    BY DEF TotalOrder
  <2>4. x # y
    BY <1>13, <2>1, <2>2
  <2>5. <<y, x>> \notin R
    BY <1>4, <1>13, <2>1, <2>2
  <2> QED
    BY <2>1, <2>2, <2>3, <2>4, <2>5
<1> QED
  BY <1>1, <1>3, <1>11, <1>12, <1>13

-----------------------------------------------------------------------------
(* What Only keeps. *)

(* g lists the positions in I, the lowest first.                            *)
Enumerates(g, m, I) ==
    /\ g \in [1..m -> I]
    /\ \A k, h \in 1..m : k < h => g[k] < g[h]
    /\ \A i \in I : \E k \in 1..m : g[k] = i
Picked(s, g, m) == [k \in 1..m |-> s[g[k]]]

LEMMA AscendingOrder ==
    ASSUME NEW I \in SUBSET Nat
    PROVE  TotalOrder(I, Ascending(I)) /\ \A i, j \in I : <<i, j>> \in Ascending(I) <=> i < j
<1>1. \A i, j \in I : <<i, j>> \in Ascending(I) <=> i < j
  BY DEF Ascending
<1> QED
  BY <1>1 DEF TotalOrder

LEMMA EnumeratedSize ==
    ASSUME NEW I \in SUBSET Nat, NEW m \in Nat, NEW g, Enumerates(g, m, I)
    PROVE  IsFiniteSet(I) /\ Cardinality(I) = m
<1>1. g \in [1..m -> I]
  BY DEF Enumerates
<1>2. \A k, h \in 1..m : g[k] = g[h] => k = h
  <2> TAKE k \in 1..m, h \in 1..m
  <2> HAVE g[k] = g[h]
  <2>1. g[k] \in Nat /\ g[h] \in Nat
    BY <1>1
  <2>2. k < h => g[k] < g[h]
    BY DEF Enumerates
  <2>3. h < k => g[h] < g[k]
    BY DEF Enumerates
  <2> QED
    BY <2>1, <2>2, <2>3
<1>3. g \in Bijection(1..m, I)
  BY <1>1, <1>2 DEF Enumerates, Bijection, Injection, Surjection, IsInjective
<1>4. IsFiniteSet(1..m) /\ Cardinality(1..m) = m
  BY FS_Interval
<1>5. ExistsBijection(1..m, I)
  BY <1>3 DEF ExistsBijection
<1> QED
  BY <1>4, <1>5, FS_Bijection

(* The positions before the k-th.                                           *)
LEMMA EnumeratedBefore ==
    ASSUME NEW I \in SUBSET Nat, NEW m \in Nat, NEW g, Enumerates(g, m, I), NEW k \in 1..m
    PROVE  g[k] \in I /\ Cardinality(Before(I, Ascending(I), g[k])) = k - 1
<1>1. PICK J : J = Before(I, Ascending(I), g[k])
  OBVIOUS
<1>2. g[k] \in I /\ g \in [1..m -> I]
  BY DEF Enumerates
<1>3. J \in SUBSET I /\ \A j \in I : j \in J <=> j < g[k]
  BY <1>1, <1>2, AscendingOrder DEF Before
<1>4. PICK f : f = [h \in 1..(k - 1) |-> g[h]]
  OBVIOUS
<1>5. \A h \in 1..(k - 1) : h \in 1..m /\ h < k
  OBVIOUS
<1>6. f \in [1..(k - 1) -> J]
  <2>1. \A h \in 1..(k - 1) : g[h] \in J
    BY <1>2, <1>3, <1>5 DEF Enumerates
  <2> QED
    BY <1>4, <2>1
<1>7. \A h, q \in 1..(k - 1) : h < q => f[h] < f[q]
  BY <1>4, <1>5 DEF Enumerates
<1>8. \A j \in J : \E h \in 1..(k - 1) : f[h] = j
  <2> TAKE j \in J
  <2>1. j \in I /\ j < g[k]
    BY <1>3
  <2>2. PICK h \in 1..m : g[h] = j
    BY <2>1 DEF Enumerates
  <2>3. g[h] \in Nat /\ g[k] \in Nat
    BY <1>2
  <2>4. k < h => g[k] < g[h]
    BY DEF Enumerates
  <2>5. h < k
    BY <2>1, <2>2, <2>3, <2>4
  <2>6. h \in 1..(k - 1)
    BY <2>5
  <2> QED
    BY <1>4, <2>2, <2>6
<1>9. Enumerates(f, k - 1, J)
  BY <1>6, <1>7, <1>8 DEF Enumerates
<1>10. J \in SUBSET Nat /\ k - 1 \in Nat
  BY <1>3
<1>11. Cardinality(J) = k - 1
  BY <1>9, <1>10, EnumeratedSize
<1> QED
  BY <1>1, <1>2, <1>11

(* There is one way only to list positions in order: Nth's.                 *)
LEMMA EnumeratedIsNth ==
    ASSUME NEW I \in SUBSET Nat, NEW m \in Nat, NEW g, Enumerates(g, m, I), NEW k \in 1..m
    PROVE  Nth(I, Ascending(I), k) = g[k]
<1>1. g[k] \in I /\ Cardinality(Before(I, Ascending(I), g[k])) = k - 1
  BY EnumeratedBefore
<1>2. \A i \in I : Cardinality(Before(I, Ascending(I), i)) = k - 1 => i = g[k]
  <2> TAKE i \in I
  <2>1. PICK h \in 1..m : g[h] = i
    BY DEF Enumerates
  <2>2. Cardinality(Before(I, Ascending(I), i)) = h - 1
    BY <2>1, EnumeratedBefore
  <2> QED
    BY <2>1, <2>2
<1>3. Nth(I, Ascending(I), k) = CHOOSE i \in I : Cardinality(Before(I, Ascending(I), i)) = k - 1
  BY DEF Nth, Before
<1> QED
  BY <1>1, <1>2, <1>3

(* The elements at some positions, however they are listed in order.        *)
LEMMA OnlyEnumerated ==
    ASSUME NEW I \in SUBSET Nat, NEW m \in Nat, NEW g, Enumerates(g, m, I), NEW s
    PROVE  Only(s, I) = Picked(s, g, m)
<1>1. Cardinality(I) = m
  BY EnumeratedSize
<1>2. \A k \in 1..m : Nth(I, Ascending(I), k) = g[k]
  BY EnumeratedIsNth
<1> QED
  BY <1>1, <1>2 DEF Only, Picked

(* Only keeps the elements at the positions, in their order.                *)
LEMMA OnlyLists ==
    ASSUME NEW n \in Nat, NEW I \in SUBSET (1..n), NEW s
    PROVE  \E m, g : m \in Nat /\ Enumerates(g, m, I) /\ Only(s, I) = Picked(s, g, m)
<1>1. IsFiniteSet(I)
  <2>1. IsFiniteSet(1..n)
    BY FS_Interval
  <2> QED
    BY <2>1, FS_Subset
<1>2. I \in SUBSET Nat
  OBVIOUS
<1>3. PICK R : R = Ascending(I)
  OBVIOUS
<1>4. TotalOrder(I, R) /\ \A i, j \in I : <<i, j>> \in R <=> i < j
  BY <1>2, <1>3, AscendingOrder
<1>5. PICK m : m = Cardinality(I)
  OBVIOUS
<1>6. /\ m \in Nat
      /\ \A k \in 1..m : Nth(I, R, k) \in I
      /\ \A i \in I : \E k \in 1..m : Nth(I, R, k) = i
      /\ \A k, h \in 1..m : k < h => <<Nth(I, R, k), Nth(I, R, h)>> \in R
  BY <1>1, <1>4, <1>5, NthEnumerates
<1>7. PICK g : g = [k \in 1..m |-> Nth(I, R, k)]
  OBVIOUS
<1>8. g \in [1..m -> I] /\ \A k \in 1..m : g[k] = Nth(I, R, k)
  BY <1>6, <1>7
<1>9. Enumerates(g, m, I)
  BY <1>4, <1>6, <1>8 DEF Enumerates
<1>10. Only(s, I) = Picked(s, g, m)
  BY <1>2, <1>6, <1>9, OnlyEnumerated
<1> QED
  BY <1>6, <1>9, <1>10

LEMMA OnlyInSeq ==
    ASSUME NEW S, NEW s \in Seq(S), NEW I \in SUBSET (1..Len(s))
    PROVE  /\ Only(s, I) \in Seq(S) /\ Len(Only(s, I)) <= Len(s)
           /\ \A k \in 1..Len(Only(s, I)) : \E i \in I : Only(s, I)[k] = s[i]
           /\ \A i \in I : \E k \in 1..Len(Only(s, I)) : Only(s, I)[k] = s[i]
<1>1. PICK n \in Nat : n = Len(s) /\ I \in SUBSET (1..n)
  OBVIOUS
<1>2. PICK m, g : m \in Nat /\ Enumerates(g, m, I) /\ Only(s, I) = Picked(s, g, m)
  BY <1>1, OnlyLists
<1>3. PICK t : t = Only(s, I)
  OBVIOUS
<1>4. t \in [1..m -> S] /\ \A k \in 1..m : t[k] = s[g[k]]
  <2>1. t = [k \in 1..m |-> s[g[k]]]
    BY <1>2, <1>3 DEF Picked
  <2>2. \A i \in I : s[i] \in S
    OBVIOUS
  <2>3. \A k \in 1..m : g[k] \in I
    BY <1>2 DEF Enumerates
  <2> QED
    BY <2>1, <2>2, <2>3
<1>5. t \in Seq(S) /\ Len(t) = m
  BY <1>2, <1>4
<1>6. m <= n
  <2>1. Cardinality(I) = m
    <3>1. I \in SUBSET Nat
      BY <1>1
    <3> QED
      BY <1>2, <3>1, EnumeratedSize
  <2>2. IsFiniteSet(1..n) /\ Cardinality(1..n) = n
    BY FS_Interval
  <2>3. Cardinality(I) <= Cardinality(1..n)
    BY <1>1, <2>2, FS_Subset
  <2> QED
    BY <2>1, <2>2, <2>3
<1>7. \A i \in I : \E k \in 1..m : t[k] = s[i]
  BY <1>2, <1>4 DEF Enumerates
<1>8. \A k \in 1..m : \E i \in I : t[k] = s[i]
  BY <1>2, <1>4 DEF Enumerates
<1> QED
  BY <1>1, <1>3, <1>5, <1>6, <1>7, <1>8
(* The positions of the elements in T.                                      *)
IndicesOf(s, T) == {i \in 1..Len(s) : s[i] \in T}

LEMMA IndicesAre ==
    ASSUME NEW S, NEW s \in Seq(S), NEW T
    PROVE  /\ IndicesOf(s, T) \in SUBSET (1..Len(s)) /\ IndicesOf(s, T) \in SUBSET Nat
           /\ \E m, g : m \in Nat /\ Enumerates(g, m, IndicesOf(s, T)) /\ Only(s, IndicesOf(s, T)) = Picked(s, g, m)
<1>1. PICK n \in Nat : n = Len(s)
  OBVIOUS
<1>2. IndicesOf(s, T) \in SUBSET (1..n) /\ IndicesOf(s, T) \in SUBSET Nat
  BY <1>1 DEF IndicesOf
<1>3. \E m, g : m \in Nat /\ Enumerates(g, m, IndicesOf(s, T)) /\ Only(s, IndicesOf(s, T)) = Picked(s, g, m)
  BY <1>2, OnlyLists
<1> QED
  BY <1>1, <1>2, <1>3

(* To keep of s what is in T, and nothing, and everything.                  *)
LEMMA OnlyNone ==
    ASSUME NEW s
    PROVE  Only(s, {}) = <<>>
<1>1. Enumerates(<<>>, 0, {})
  <2>1. 1..0 = {}
    OBVIOUS
  <2>2. <<>> \in [1..0 -> {}]
    BY <2>1
  <2> QED
    BY <2>1, <2>2 DEF Enumerates
<1>2. Only(s, {}) = Picked(s, <<>>, 0)
  <2>1. {} \in SUBSET Nat /\ 0 \in Nat
    OBVIOUS
  <2> QED
    BY <1>1, <2>1, OnlyEnumerated
<1> QED
  BY <1>2 DEF Picked

LEMMA OnlyAll ==
    ASSUME NEW S, NEW s \in Seq(S)
    PROVE  Only(s, 1..Len(s)) = s
<1>1. PICK n \in Nat : n = Len(s) /\ s \in [1..n -> S]
  OBVIOUS
<1>2. PICK g : g = [k \in 1..n |-> k]
  OBVIOUS
<1>3. Enumerates(g, n, 1..n)
  BY <1>2 DEF Enumerates
<1>4. Only(s, 1..n) = Picked(s, g, n)
  <2>1. 1..n \in SUBSET Nat
    OBVIOUS
  <2> QED
    BY <1>3, <2>1, OnlyEnumerated
<1> QED
  BY <1>1, <1>2, <1>4 DEF Picked

LEMMA ConcatParts ==
    ASSUME NEW S, NEW a \in Seq(S), NEW b \in Seq(S), NEW n \in Nat, n = Len(a), NEW r \in Nat, r = Len(b),
           NEW c, c = a \o b
    PROVE  /\ c \in Seq(S) /\ Len(c) = n + r
           /\ \A i \in 1..n : c[i] = a[i]
           /\ \A i \in 1..r : c[n + i] = b[i]
<1>1. /\ c \in Seq(S) /\ Len(c) = n + r
      /\ \A i \in 1..(n + r) : c[i] = IF i <= n THEN a[i] ELSE b[i - n]
  BY ConcatProperties
<1>2. \A i \in 1..n : c[i] = a[i]
  BY <1>1
<1>3. \A i \in 1..r : c[n + i] = b[i]
  <2> TAKE i \in 1..r
  <2>1. n + i \in 1..(n + r) /\ ~(n + i <= n) /\ (n + i) - n = i
    OBVIOUS
  <2> QED
    BY <1>1, <2>1
<1> QED
  BY <1>1, <1>2, <1>3

LEMMA ConcatIs ==
    ASSUME NEW S, NEW a \in Seq(S), NEW b \in Seq(S), NEW n \in Nat, n = Len(a), NEW r \in Nat, r = Len(b),
           NEW t, t \in [1..(n + r) -> S], \A i \in 1..n : t[i] = a[i], \A i \in 1..r : t[n + i] = b[i]
    PROVE  a \o b = t
<1>1. PICK c : c = a \o b
  OBVIOUS
<1>2. /\ c \in Seq(S) /\ Len(c) = n + r
      /\ \A i \in 1..n : c[i] = a[i]
      /\ \A i \in 1..r : c[n + i] = b[i]
  BY <1>1, ConcatParts
<1>3. \A i \in 1..(n + r) : c[i] = t[i]
  <2> TAKE i \in 1..(n + r)
  <2>1. CASE i \in 1..n
    BY <1>2, <2>1
  <2>2. CASE i \notin 1..n
    <3>1. PICK j \in 1..r : i = n + j
      <4>1. i - n \in 1..r /\ i = n + (i - n)
        BY <2>2
      <4> QED
        BY <4>1
    <3> QED
      BY <1>2, <3>1
  <2> QED
    BY <2>1, <2>2
<1>4. c \in [1..(n + r) -> S]
  BY <1>2
<1> QED
  BY <1>1, <1>3, <1>4

(* What is kept of a concatenation is the concatenation of what is kept.    *)
LEMMA OnlyConcat ==
    ASSUME NEW S, NEW a \in Seq(S), NEW b \in Seq(S), NEW T
    PROVE  Only(a \o b, IndicesOf(a \o b, T)) = Only(a, IndicesOf(a, T)) \o Only(b, IndicesOf(b, T))
<1>1. PICK n \in Nat, r \in Nat : n = Len(a) /\ r = Len(b)
  OBVIOUS
<1>2. PICK c : c = a \o b
  OBVIOUS
<1>3. /\ c \in Seq(S) /\ Len(c) = n + r
      /\ \A i \in 1..n : c[i] = a[i]
      /\ \A i \in 1..r : c[n + i] = b[i]
  BY <1>1, <1>2, ConcatParts
<1>4. PICK m, f : m \in Nat /\ Enumerates(f, m, IndicesOf(a, T)) /\ Only(a, IndicesOf(a, T)) = Picked(a, f, m)
  BY IndicesAre
<1>5. PICK h, q : h \in Nat /\ Enumerates(q, h, IndicesOf(b, T)) /\ Only(b, IndicesOf(b, T)) = Picked(b, q, h)
  BY IndicesAre
<1>6. /\ \A k \in 1..m : f[k] \in 1..n /\ a[f[k]] \in T
      /\ \A k, j \in 1..m : k < j => f[k] < f[j]
      /\ \A i \in 1..n : a[i] \in T => \E k \in 1..m : f[k] = i
  BY <1>1, <1>4 DEF Enumerates, IndicesOf
<1>7. /\ \A k \in 1..h : q[k] \in 1..r /\ b[q[k]] \in T
      /\ \A k, j \in 1..h : k < j => q[k] < q[j]
      /\ \A i \in 1..r : b[i] \in T => \E k \in 1..h : q[k] = i
  BY <1>1, <1>5 DEF Enumerates, IndicesOf
<1>8. PICK g : g = [k \in 1..(m + h) |-> IF k <= m THEN f[k] ELSE n + q[k - m]]
  OBVIOUS
<1>9. \A k \in 1..m : k \in 1..(m + h) /\ g[k] = f[k]
  BY <1>4, <1>5, <1>8
<1>10. \A k \in 1..h : m + k \in 1..(m + h) /\ g[m + k] = n + q[k]
  BY <1>4, <1>5, <1>8
<1>11. \A k \in 1..(m + h) : (k \in 1..m) \/ (\E j \in 1..h : k = m + j)
  <2> TAKE k \in 1..(m + h)
  <2>1. k \in Nat /\ (k \in 1..m \/ k - m \in 1..h)
    BY <1>4, <1>5
  <2>2. k = m + (k - m)
    BY <1>4, <2>1
  <2> QED
    BY <2>1, <2>2
<1>12. \A k \in 1..(m + h) : g[k] \in IndicesOf(c, T)
  <2> TAKE k \in 1..(m + h)
  <2>1. CASE k \in 1..m
    <3>1. g[k] = f[k] /\ f[k] \in 1..n /\ a[f[k]] \in T
      BY <1>6, <1>9, <2>1
    <3>2. g[k] \in 1..Len(c) /\ c[g[k]] = a[f[k]]
      BY <1>1, <1>3, <3>1
    <3> QED
      BY <3>1, <3>2 DEF IndicesOf
  <2>2. CASE \E j \in 1..h : k = m + j
    <3>1. PICK j \in 1..h : k = m + j
      BY <2>2
    <3>2. g[k] = n + q[j] /\ q[j] \in 1..r /\ b[q[j]] \in T
      BY <1>7, <1>10, <3>1
    <3>3. g[k] \in 1..Len(c) /\ c[g[k]] = b[q[j]]
      <4>1. PICK x \in 1..r : x = q[j]
        BY <3>2
      <4>2. n + x \in 1..(n + r) /\ c[n + x] = b[x]
        BY <1>1, <1>3
      <4> QED
        BY <1>3, <3>2, <4>1, <4>2
    <3> QED
      BY <3>2, <3>3 DEF IndicesOf
  <2> QED
    BY <1>11, <2>1, <2>2
<1>13. ASSUME NEW k \in 1..(m + h), NEW j \in 1..(m + h), k < j PROVE g[k] < g[j]
  <2>1. CASE k \in 1..m /\ j \in 1..m
    BY <1>6, <1>9, <1>13, <2>1
  <2>2. CASE k \in 1..m /\ \E y \in 1..h : j = m + y
    <3>1. PICK y \in 1..h : j = m + y
      BY <2>2
    <3>2. g[k] \in 1..n /\ g[j] = n + q[y] /\ q[y] \in 1..r
      BY <1>6, <1>7, <1>9, <1>10, <2>2, <3>1
    <3> QED
      BY <1>1, <3>2
  <2>3. CASE (\E x \in 1..h : k = m + x) /\ \E y \in 1..h : j = m + y
    <3>1. PICK x \in 1..h : k = m + x
      BY <2>3
    <3>2. PICK y \in 1..h : j = m + y
      BY <2>3
    <3>3. x < y
      BY <1>4, <1>13, <3>1, <3>2
    <3>4. g[k] = n + q[x] /\ g[j] = n + q[y] /\ q[x] < q[y] /\ q[x] \in 1..r /\ q[y] \in 1..r
      BY <1>7, <1>10, <3>1, <3>2, <3>3
    <3> QED
      BY <1>1, <3>4
  <2>4. ~((\E x \in 1..h : k = m + x) /\ j \in 1..m)
    BY <1>4, <1>5, <1>13
  <2> QED
    BY <1>11, <2>1, <2>2, <2>3, <2>4
<1>14. ASSUME NEW i \in IndicesOf(c, T) PROVE \E k \in 1..(m + h) : g[k] = i
  <2>1. i \in 1..(n + r) /\ c[i] \in T
    BY <1>3 DEF IndicesOf
  <2>2. CASE i \in 1..n
    <3>1. a[i] \in T
      BY <1>3, <2>1, <2>2
    <3>2. PICK k \in 1..m : f[k] = i
      BY <1>6, <2>2, <3>1
    <3> QED
      BY <1>9, <3>2
  <2>3. CASE i \notin 1..n
    <3>1. PICK y \in 1..r : i = n + y
      <4>1. i - n \in 1..r /\ i = n + (i - n)
        BY <1>1, <2>1, <2>3
      <4> QED
        BY <4>1
    <3>2. b[y] \in T
      BY <1>3, <2>1, <3>1
    <3>3. PICK k \in 1..h : q[k] = y
      BY <1>7, <3>2
    <3> QED
      BY <1>10, <3>1, <3>3
  <2> QED
    BY <2>2, <2>3
<1>15. g \in [1..(m + h) -> IndicesOf(c, T)]
  BY <1>8, <1>12
<1>16. Enumerates(g, m + h, IndicesOf(c, T))
  BY <1>13, <1>14, <1>15 DEF Enumerates
<1>17. Only(c, IndicesOf(c, T)) = Picked(c, g, m + h)
  <2>1. IndicesOf(c, T) \in SUBSET Nat /\ m + h \in Nat
    BY <1>3, <1>4, <1>5, IndicesAre
  <2> QED
    BY <1>16, <2>1, OnlyEnumerated
<1>18. PICK u : u = Picked(a, f, m)
  OBVIOUS
<1>19. PICK v : v = Picked(b, q, h)
  OBVIOUS
<1>20. u \in Seq(S) /\ Len(u) = m /\ \A k \in 1..m : u[k] = c[g[k]]
  <2>1. \A k \in 1..m : a[f[k]] \in S /\ a[f[k]] = c[g[k]]
    BY <1>1, <1>3, <1>6, <1>9
  <2>2. u \in [1..m -> S] /\ \A k \in 1..m : u[k] = a[f[k]]
    BY <1>18, <2>1 DEF Picked
  <2> QED
    BY <1>4, <2>1, <2>2
<1>21. v \in Seq(S) /\ Len(v) = h /\ \A k \in 1..h : v[k] = c[g[m + k]]
  <2>1. \A k \in 1..h : b[q[k]] \in S /\ b[q[k]] = c[g[m + k]]
    <3> TAKE k \in 1..h
    <3>1. PICK x \in 1..r : x = q[k]
      BY <1>7
    <3>2. c[n + x] = b[x] /\ b[x] \in S
      BY <1>1, <1>3
    <3> QED
      BY <1>10, <3>1, <3>2
  <2>2. v \in [1..h -> S] /\ \A k \in 1..h : v[k] = b[q[k]]
    BY <1>19, <2>1 DEF Picked
  <2> QED
    BY <1>5, <2>1, <2>2
<1>22. PICK w : w = Picked(c, g, m + h)
  OBVIOUS
<1>23. w \in [1..(m + h) -> S] /\ \A k \in 1..(m + h) : w[k] = c[g[k]]
  <2>1. \A i \in IndicesOf(c, T) : c[i] \in S
    BY <1>3 DEF IndicesOf
  <2> QED
    BY <1>12, <1>22, <2>1 DEF Picked
<1>24. \A k \in 1..m : w[k] = u[k]
  BY <1>9, <1>20, <1>23
<1>25. \A k \in 1..h : w[m + k] = v[k]
  BY <1>10, <1>21, <1>23
<1>26. u \in Seq(S) /\ v \in Seq(S) /\ m = Len(u) /\ h = Len(v) /\ m \in Nat /\ h \in Nat
  BY <1>4, <1>5, <1>20, <1>21
<1>27. u \o v = w
  BY <1>23, <1>24, <1>25, <1>26, ConcatIs
<1> QED
  BY <1>2, <1>4, <1>5, <1>17, <1>18, <1>19, <1>22, <1>27

(* What is kept of what was kept.                                           *)
LEMMA OnlyOfOnly ==
    ASSUME NEW S, NEW s \in Seq(S), NEW T, NEW U, T \subseteq U
    PROVE  LET t == Only(s, IndicesOf(s, U)) IN Only(t, IndicesOf(t, T)) = Only(s, IndicesOf(s, T))
<1>1. PICK n \in Nat : n = Len(s)
  OBVIOUS
<1>2. PICK t : t = Only(s, IndicesOf(s, U))
  OBVIOUS
<1>3. PICK m, g : m \in Nat /\ Enumerates(g, m, IndicesOf(s, U)) /\ t = Picked(s, g, m)
  BY <1>2, IndicesAre
<1>4. /\ \A k \in 1..m : g[k] \in 1..n /\ s[g[k]] \in U
      /\ \A k, j \in 1..m : k < j => g[k] < g[j]
      /\ \A i \in 1..n : s[i] \in U => \E k \in 1..m : g[k] = i
  BY <1>1, <1>3 DEF Enumerates, IndicesOf
<1>5. t \in Seq(S) /\ Len(t) = m /\ \A k \in 1..m : t[k] = s[g[k]]
  <2>1. \A k \in 1..m : s[g[k]] \in S
    BY <1>1, <1>4
  <2>2. t \in [1..m -> S] /\ \A k \in 1..m : t[k] = s[g[k]]
    BY <1>3, <2>1 DEF Picked
  <2> QED
    BY <1>3, <2>2
<1>6. PICK h, q : h \in Nat /\ Enumerates(q, h, IndicesOf(t, T)) /\ Only(t, IndicesOf(t, T)) = Picked(t, q, h)
  BY <1>5, IndicesAre
<1>7. /\ \A k \in 1..h : q[k] \in 1..m /\ t[q[k]] \in T
      /\ \A k, j \in 1..h : k < j => q[k] < q[j]
      /\ \A i \in 1..m : t[i] \in T => \E k \in 1..h : q[k] = i
  BY <1>5, <1>6 DEF Enumerates, IndicesOf
<1>8. PICK p : p = [k \in 1..h |-> g[q[k]]]
  OBVIOUS
<1>9. \A k \in 1..h : p[k] = g[q[k]] /\ p[k] \in 1..n /\ s[p[k]] \in T /\ s[p[k]] = t[q[k]]
  BY <1>4, <1>5, <1>7, <1>8
<1>10. p \in [1..h -> IndicesOf(s, T)]
  BY <1>1, <1>8, <1>9 DEF IndicesOf
<1>11. ASSUME NEW k \in 1..h, NEW j \in 1..h, k < j PROVE p[k] < p[j]
  <2>1. q[k] \in 1..m /\ q[j] \in 1..m /\ q[k] < q[j]
    BY <1>7, <1>11
  <2>2. g[q[k]] < g[q[j]]
    BY <1>4, <2>1
  <2> QED
    BY <1>9, <2>2
<1>12. ASSUME NEW i \in IndicesOf(s, T) PROVE \E k \in 1..h : p[k] = i
  <2>1. i \in 1..n /\ s[i] \in T /\ s[i] \in U
    BY <1>1 DEF IndicesOf
  <2>2. PICK k \in 1..m : g[k] = i
    BY <1>4, <2>1
  <2>3. t[k] \in T
    BY <1>5, <2>1, <2>2
  <2>4. PICK j \in 1..h : q[j] = k
    BY <1>7, <2>3
  <2> QED
    BY <1>9, <2>2, <2>4
<1>13. Enumerates(p, h, IndicesOf(s, T))
  BY <1>10, <1>11, <1>12 DEF Enumerates
<1>14. Only(s, IndicesOf(s, T)) = Picked(s, p, h)
  <2>1. IndicesOf(s, T) \in SUBSET Nat
    BY IndicesAre
  <2> QED
    BY <1>6, <1>13, <2>1, OnlyEnumerated
<1>15. Picked(s, p, h) = Picked(t, q, h)
  BY <1>9 DEF Picked
<1> QED
  BY <1>2, <1>6, <1>14, <1>15
=============================================================================
