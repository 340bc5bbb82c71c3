--------------------------- MODULE RequestsProofs ---------------------------
(* What is proved of Requests, for every image, every request a caller may  *)
(* write down and every load it may refer to: lemmas about the lists        *)
(* handlers make; that a text-only model decodes nothing; that an embedding *)
(* is the one asked for; that a ranking is in order; that a search keeps    *)
(* its role from the vendor's word to the prompt.                           *)
EXTENDS Requests, FiniteSetTheorems, SequenceTheorems, WellFoundedInduction,
        TLAPS

----------------------------------------------------------------------------
(* Lists                                                                    *)

(* A strict total order on a finite set gives each member a place, and      *)
(* Arranged lists every member once, at its place.                          *)
LEMMA ArrangedFacts ==
  ASSUME NEW S, IsFiniteSet(S), NEW before,
         \A x \in S : <<x, x>> \notin before,
         \A x, y, z \in S : <<x, y>> \in before /\ <<y, z>> \in before
                              => <<x, z>> \in before,
         \A x, y \in S : x # y => <<x, y>> \in before \/ <<y, x>> \in before
  PROVE  /\ Cardinality(S) \in Nat
         /\ Arranged(S, before) \in [1..Cardinality(S) -> S]
         /\ \A x \in S : \E k \in 1..Cardinality(S) : Arranged(S, before)[k] = x
         /\ \A j, k \in 1..Cardinality(S) :
              j < k => <<Arranged(S, before)[j], Arranged(S, before)[k]>> \in before
<1> DEFINE n     == Cardinality(S)
           up(x) == {y \in S : <<y, x>> \in before}
           f     == [x \in S |-> Cardinality(up(x)) + 1]
           A     == Arranged(S, before)
<1>1. n \in Nat  BY FS_CardinalityType
<1>2. \A x \in S : IsFiniteSet(up(x)) /\ Cardinality(up(x)) \in Nat
  BY FS_Subset, FS_CardinalityType
<1>3. ASSUME NEW x \in S, NEW T \in SUBSET S, up(x) \subseteq T, x \in T
      PROVE  Cardinality(up(x)) + 1 <= Cardinality(T)
  <2>1. IsFiniteSet(T) /\ x \notin up(x)  BY FS_Subset
  <2>2. Cardinality(up(x) \cup {x}) = Cardinality(up(x)) + 1
    BY <1>2, <2>1, FS_AddElement
  <2>3. up(x) \cup {x} \in SUBSET T  BY <1>3
  <2>4. Cardinality(up(x) \cup {x}) <= Cardinality(T)
    BY <2>1, <2>3, FS_Subset
  <2> QED  BY <2>2, <2>4
<1>4. f \in [S -> 1..n]
  <2> SUFFICES ASSUME NEW x \in S PROVE Cardinality(up(x)) + 1 \in 1..n
    OBVIOUS
  <2>1. Cardinality(up(x)) + 1 <= n
    <3>1. up(x) \subseteq S  OBVIOUS
    <3> QED  BY <1>3, <3>1
  <2> HIDE DEF up, n
  <2> QED  BY <1>1, <1>2, <2>1
<1>5. \A x, y \in S : <<x, y>> \in before => f[x] < f[y]
  <2> SUFFICES ASSUME NEW x \in S, NEW y \in S, <<x, y>> \in before
               PROVE  Cardinality(up(x)) + 1 < Cardinality(up(y)) + 1
    OBVIOUS
  <2>1. up(x) \subseteq up(y) /\ x \in up(y) /\ up(y) \in SUBSET S
    OBVIOUS
  <2> HIDE DEF up
  <2>2. Cardinality(up(x)) + 1 <= Cardinality(up(y))  BY <1>3, <2>1
  <2> QED  BY <1>2, <2>2
<1>6. \A x, y \in S : f[x] = f[y] => x = y
  <2> HIDE DEF f
  <2>1. \A x, y \in S : f[x] = f[y] => ~(f[x] < f[y]) /\ ~(f[y] < f[x])
    BY <1>1, <1>4
  <2> QED  BY <1>5, <2>1
<1>7. f \in Surjection(S, 1..n)
  <2>1. IsFiniteSet(1..n) /\ Cardinality(1..n) = n  BY <1>1, FS_Interval
  <2> HIDE DEF f, n
  <2>2. f \in Injection(S, 1..n)  BY <1>4, <1>6 DEF Injection, IsInjective
  <2>3. Cardinality(S) = n  BY DEF n
  <2> QED  BY <2>1, <2>2, <2>3, FS_Injection
<1>8. \A k \in 1..n : \E x \in S : Cardinality(up(x)) = k - 1
  <2> TAKE k \in 1..n
  <2>1. PICK x \in S : f[x] = k
    <3> HIDE DEF f
    <3> QED  BY <1>7 DEF Surjection
  <2>2. Cardinality(up(x)) + 1 = k  BY <2>1
  <2> HIDE DEF up, n
  <2> QED  BY <1>2, <2>2
<1>9. \A k \in 1..n : A[k] \in S /\ Cardinality(up(A[k])) = k - 1
  BY <1>8 DEF Arranged
<1>10. A \in [1..n -> S]  BY <1>9 DEF Arranged
<1>11. \A k \in 1..n : f[A[k]] = k
  <2>1. \A x \in S : f[x] = Cardinality(up(x)) + 1  OBVIOUS
  <2> HIDE DEF A, n, up, f
  <2> TAKE k \in 1..n
  <2>2. k \in Nat /\ Cardinality(up(A[k])) = k - 1 /\ A[k] \in S  BY <1>1, <1>9
  <2>3. f[A[k]] = (k - 1) + 1  BY <2>1, <2>2
  <2> QED  BY <2>2, <2>3
<1>12. \A x \in S : f[x] \in 1..n /\ A[f[x]] = x
  <2> HIDE DEF f, A, n, up
  <2> TAKE x \in S
  <2>1. f[x] \in 1..n  BY <1>4
  <2>2. A[f[x]] \in S /\ f[A[f[x]]] = f[x]  BY <1>9, <1>11, <2>1
  <2> QED  BY <1>6, <2>1, <2>2
<1>13. ASSUME NEW j \in 1..n, NEW k \in 1..n, j < k PROVE <<A[j], A[k]>> \in before
  <2> HIDE DEF f, A, n
  <2>1. A[j] \in S /\ A[k] \in S /\ f[A[j]] = j /\ f[A[k]] = k
    BY <1>9, <1>11
  <2>2. A[j] # A[k] /\ ~(f[A[k]] < f[A[j]])
    BY <1>1, <1>13, <2>1
  <2> QED  BY <1>5, <2>1, <2>2
<1> QED  BY <1>1, <1>10, <1>12, <1>13

(* Numbers in ascending order.                                              *)
LEMMA AscendingFacts ==
  ASSUME NEW I \in SUBSET Int, IsFiniteSet(I)
  PROVE  /\ Cardinality(I) \in Nat
         /\ Ascending(I) \in [1..Cardinality(I) -> I]
         /\ \A x \in I : \E k \in 1..Cardinality(I) : Ascending(I)[k] = x
         /\ \A j, k \in 1..Cardinality(I) : j < k => Ascending(I)[j] < Ascending(I)[k]
<1> DEFINE before == {e \in I \X I : e[1] < e[2]}
<1>1. \A x, y \in I : <<x, y>> \in before <=> x < y  OBVIOUS
<1>2. /\ \A x \in I : <<x, x>> \notin before
      /\ \A x, y, z \in I : <<x, y>> \in before /\ <<y, z>> \in before
                              => <<x, z>> \in before
      /\ \A x, y \in I : x # y => <<x, y>> \in before \/ <<y, x>> \in before
  <2> HIDE DEF before
  <2> QED  BY <1>1
<1> HIDE DEF before
<1>3. /\ Cardinality(I) \in Nat
      /\ Arranged(I, before) \in [1..Cardinality(I) -> I]
      /\ \A x \in I : \E k \in 1..Cardinality(I) : Arranged(I, before)[k] = x
      /\ \A j, k \in 1..Cardinality(I) :
           j < k => <<Arranged(I, before)[j], Arranged(I, before)[k]>> \in before
  BY <1>2, ArrangedFacts
<1>4. Ascending(I) = Arranged(I, before)  BY DEF Ascending, before
<1> QED  BY <1>1, <1>3, <1>4

(* Kept drops what is not in the set and nothing else.                      *)
LEMMA KeptFacts ==
  ASSUME NEW T, NEW s \in Seq(T), NEW S
  PROVE  /\ Kept(s, S) \in Seq(T \cap S)
         /\ Members(Kept(s, S)) = Members(s) \cap S
<1> DEFINE I == {i \in DOMAIN s : s[i] \in S}
           n == Cardinality(I)
<1>1. DOMAIN s = 1..Len(s) /\ Len(s) \in Nat  OBVIOUS
<1>2. I \in SUBSET Int /\ IsFiniteSet(I)
  <2>1. IsFiniteSet(1..Len(s))  BY <1>1, FS_Interval
  <2> QED  BY <1>1, <2>1, FS_Subset
<1>3. /\ n \in Nat /\ Ascending(I) \in [1..n -> I]
      /\ \A x \in I : \E k \in 1..n : Ascending(I)[k] = x
  <2> HIDE DEF I
  <2> QED  BY <1>2, AscendingFacts
<1>4. Kept(s, S) = [k \in 1..n |-> s[Ascending(I)[k]]]  BY DEF Kept
<1>5. \A i \in I : s[i] \in T \cap S /\ s[i] \in Members(s)  BY DEF Members
<1>6. Kept(s, S) \in [1..n -> T \cap S]
  <2> HIDE DEF I, n
  <2> QED  BY <1>3, <1>4, <1>5
<1>7. Kept(s, S) \in Seq(T \cap S)
  <2> HIDE DEF n
  <2> QED  BY <1>3, <1>6, SeqDef
<1>8. \A x \in Members(Kept(s, S)) : x \in Members(s) \cap S
  <2> TAKE x \in Members(Kept(s, S))
  <2> HIDE DEF I, n
  <2>1. PICK k \in 1..n : x = s[Ascending(I)[k]]
    BY <1>4 DEF Members
  <2>2. Ascending(I)[k] \in I  BY <1>3
  <2> QED  BY <1>5, <2>1, <2>2
<1>9. \A x \in Members(s) \cap S : x \in Members(Kept(s, S))
  <2> TAKE x \in Members(s) \cap S
  <2>1. PICK i \in I : x = s[i]  BY DEF Members
  <2> HIDE DEF I, n
  <2>2. PICK k \in 1..n : Ascending(I)[k] = i  BY <1>3
  <2>3. k \in DOMAIN Kept(s, S) /\ Kept(s, S)[k] = x  BY <1>4, <2>1, <2>2
  <2> QED  BY <2>3 DEF Members
<1> QED  BY <1>7, <1>8, <1>9

(* A number in a nonempty set of naturals is the first of it: the code's    *)
(* loops stop there.                                                        *)
LEMMA Least ==
  ASSUME NEW T \in SUBSET Nat, T # {}
  PROVE  FirstOf(T) \in T /\ \A y \in T : FirstOf(T) <= y
<1> DEFINE R == StrictSubsetOrdering(Nat)
           F == {0..t : t \in T}
<1>1. IsWellFoundedOn(R, FiniteSubsetsOf(Nat))
  BY FS_StrictSubsetOrderingWellFounded
<1>2. F \subseteq FiniteSubsetsOf(Nat) /\ F # {}
  <2>1. ASSUME NEW t \in T PROVE IsFiniteSet(0..t) /\ 0..t \subseteq Nat
    BY FS_Interval
  <2> QED  BY <2>1 DEF FiniteSubsetsOf
<1>3. \E X \in F : \A Y \in F : ~(<<Y, X>> \in R)
  <2> HIDE DEF R, F
  <2> QED  BY <1>1, <1>2, WFMin
<1>4. PICK x \in T : \A y \in T : ~(<<0..y, 0..x>> \in R)
  BY <1>3
<1>5. ASSUME NEW y \in T, y < x PROVE FALSE
  <2>1. 0..y \subseteq 0..x /\ x \in 0..x /\ x \notin 0..y
    BY <1>5
  <2>2. 0..y # 0..x
    BY <2>1
  <2>3. 0..y \in SUBSET Nat /\ 0..x \in SUBSET Nat
    OBVIOUS
  <2>4. <<0..y, 0..x>> \in R
    BY <2>1, <2>2, <2>3 DEF StrictSubsetOrdering
  <2> QED  BY <1>4, <2>4
<1>6. \A y \in T : x <= y
  BY <1>5
<1> QED  BY <1>6 DEF FirstOf

(* What holds of 0 and of a number's successor holds of every number to n.  *)
LEMMA UpTo ==
  ASSUME NEW n \in Nat, NEW P, 0 \in P,
         \A k \in 0..n - 1 : k \in P => k + 1 \in P
  PROVE  \A k \in 0..n : k \in P
<1> DEFINE T == {k \in 0..n : k \notin P}
<1> SUFFICES ASSUME T # {} PROVE FALSE  OBVIOUS
<1>1. PICK k \in T : \A y \in T : k <= y
  <2>1. T \in SUBSET Nat  OBVIOUS
  <2> HIDE DEF T
  <2> QED  BY <2>1, Least
<1>2. k \in 1..n /\ k - 1 \in 0..n - 1 /\ (k - 1) + 1 = k  OBVIOUS
<1>3. k - 1 \notin T  BY <1>1, <1>2
<1>4. k - 1 \in P  BY <1>2, <1>3
<1> QED  BY <1>2, <1>4

(* A sum of counts is a count.                                              *)
LEMMA TotalIsCount ==
  ASSUME NEW n \in Nat, NEW counts \in [1..n -> Nat]
  PROVE  Total(counts) \in Nat
<1> DEFINE body(f, k) == [i \in 0..k |-> IF i = 0 THEN 0 ELSE f[i - 1] + counts[i]]
           P == {k \in 0..n : \E f : f = body(f, k)}
<1>1. 0 \in P
  <2> DEFINE g == [i \in 0..0 |-> 0]
  <2>1. \A i \in 0..0 : i = 0  OBVIOUS
  <2>2. g = body(g, 0)  BY <2>1
  <2> HIDE DEF g, body
  <2> QED  BY <2>2
<1>2. ASSUME NEW k \in 0..n - 1, k \in P PROVE k + 1 \in P
  <2>1. PICK f : f = body(f, k)  BY <1>2
  <2> DEFINE g == [i \in 0..k + 1 |-> IF i = k + 1 THEN f[k] + counts[k + 1] ELSE f[i]]
  <2>2. \A i \in 0..k : f[i] = IF i = 0 THEN 0 ELSE f[i - 1] + counts[i]
    BY <2>1
  <2>3. \A i \in 0..k + 1 : g[i] = IF i = 0 THEN 0 ELSE g[i - 1] + counts[i]
    <3> TAKE i \in 0..k + 1
    <3>1. CASE i = k + 1
      <4>1. i # 0 /\ i - 1 = k /\ k \in 0..k + 1 /\ k # k + 1  BY <3>1
      <4> QED  BY <3>1, <4>1
    <3>2. CASE i # k + 1
      <4>1. i \in 0..k /\ (i # 0 => i - 1 \in 0..k + 1 /\ i - 1 # k + 1)
        BY <3>2
      <4> QED  BY <2>2, <3>2, <4>1
    <3> QED  BY <3>1, <3>2
  <2>4. g = body(g, k + 1)  BY <2>3
  <2>5. k + 1 \in 0..n  OBVIOUS
  <2> HIDE DEF g, body
  <2> QED  BY <2>4, <2>5
<1>3. n \in P
  <2> HIDE DEF P
  <2>1. \A k \in 0..n : k \in P  BY <1>1, <1>2, UpTo
  <2>2. n \in 0..n  OBVIOUS
  <2> QED  BY <2>1, <2>2
<1>4. Len(counts) = n  OBVIOUS
<1>5. PICK f : f = body(f, n)  BY <1>3
<1> DEFINE F == CHOOSE h : h = body(h, n)
<1>6. F = body(F, n)  BY <1>5
<1>7. Total(counts) = F[n]  BY <1>4 DEF Total
<1>8. n \in Nat /\ \A k \in 0..n : F[k] \in Nat
  <2> DEFINE Q == {k \in 0..n : F[k] \in Nat}
  <2>1. \A i \in 0..n : F[i] = IF i = 0 THEN 0 ELSE F[i - 1] + counts[i]
    <3> HIDE DEF F
    <3> QED  BY <1>6
  <2> HIDE DEF F
  <2>2. 0 \in Q  BY <2>1
  <2>3. ASSUME NEW k \in 0..n - 1, k \in Q PROVE k + 1 \in Q
    <3>1. k + 1 \in 0..n /\ k + 1 \in 1..n /\ (k + 1) - 1 = k /\ k + 1 # 0  OBVIOUS
    <3>2. F[k] \in Nat /\ counts[k + 1] \in Nat  BY <2>3, <3>1
    <3>3. F[k + 1] = F[k] + counts[k + 1]  BY <2>1, <3>1
    <3> QED  BY <3>1, <3>2, <3>3
  <2> HIDE DEF Q
  <2>4. \A k \in 0..n : k \in Q  BY <2>2, <2>3, UpTo
  <2> QED  BY <2>4 DEF Q
<1> QED  BY <1>7, <1>8

(* The texts of all rows end to end: those of row i begin where those of    *)
(* the rows before it end.                                                  *)
Flat(lists, k) == FlattenSeq([i \in 1..k |-> lists[i]])

LEMMA FlatGrows ==
  ASSUME NEW T, NEW n \in Nat, NEW lists \in [1..n -> Seq(T)]
  PROVE  /\ Flat(lists, 0) = <<>>
         /\ \A k \in 0..n : Flat(lists, k) \in Seq(T)
         /\ \A k \in 1..n : Flat(lists, k) = Flat(lists, k - 1) \o lists[k]
<1> DEFINE body(f, k) == [i \in 1..k |-> IF i = 1 THEN lists[i] ELSE f[i - 1] \o lists[i]]
           P == {k \in 0..n : \E f : f = body(f, k)}
           s(k) == [i \in 1..k |-> lists[i]]
           flat(f, k) == [i \in 1..Len(s(k)) |->
                            IF i = 1 THEN s(k)[i] ELSE f[i - 1] \o s(k)[i]]
           F(k) == CHOOSE f : f = flat(f, k)
<1>1. 0 \in P
  <2> DEFINE g == [i \in 1..0 |-> 0]
  <2>1. \A i \in 1..0 : FALSE  OBVIOUS
  <2>2. g = body(g, 0)  BY <2>1
  <2> HIDE DEF g, body
  <2> QED  BY <2>2
<1>2. ASSUME NEW k \in 0..n - 1, k \in P PROVE k + 1 \in P
  <2>1. PICK f : f = body(f, k)  BY <1>2
  <2> DEFINE last == IF k = 0 THEN lists[k + 1] ELSE f[k] \o lists[k + 1]
             g == [i \in 1..k + 1 |-> IF i = k + 1 THEN last ELSE f[i]]
  <2>2. \A i \in 1..k : f[i] = IF i = 1 THEN lists[i] ELSE f[i - 1] \o lists[i]
    BY <2>1
  <2>3. \A i \in 1..k + 1 : g[i] = IF i = 1 THEN lists[i] ELSE g[i - 1] \o lists[i]
    <3> TAKE i \in 1..k + 1
    <3>1. CASE i = k + 1 /\ k = 0
      BY <3>1
    <3>2. CASE i = k + 1 /\ k # 0
      <4>1. i # 1 /\ i - 1 = k /\ k \in 1..k + 1 /\ k # k + 1  BY <3>2
      <4> QED  BY <3>2, <4>1
    <3>3. CASE i # k + 1
      <4>1. i \in 1..k /\ (i # 1 => i - 1 \in 1..k + 1 /\ i - 1 # k + 1)
        BY <3>3
      <4> QED  BY <2>2, <3>3, <4>1
    <3> QED  BY <3>1, <3>2, <3>3
  <2>4. g = body(g, k + 1)  BY <2>3
  <2>5. k + 1 \in 0..n  OBVIOUS
  <2> HIDE DEF g, body
  <2> QED  BY <2>4, <2>5
<1>A. \A k \in 0..n : k \in P
  <2> HIDE DEF P
  <2> QED  BY <1>1, <1>2, UpTo
<1>3. ASSUME NEW k \in 0..n
      PROVE  /\ \A f : flat(f, k) = body(f, k)
             /\ F(k) = body(F(k), k)
  <2>1. \A f : flat(f, k) = body(f, k)  OBVIOUS
  <2>2. k \in P  BY <1>A
  <2>3. PICK f : f = body(f, k)  BY <2>2
  <2> HIDE DEF flat, body
  <2>4. f = flat(f, k)  BY <2>1, <2>3
  <2>5. F(k) = flat(F(k), k)  BY <2>4
  <2> QED  BY <2>1, <2>5
<1>4. \A k \in 0..n : \A i \in 1..k :
        F(k)[i] = IF i = 1 THEN lists[i] ELSE F(k)[i - 1] \o lists[i]
  <2> TAKE k \in 0..n
  <2> HIDE DEF F
  <2>1. F(k) = body(F(k), k)  BY <1>3
  <2> QED  BY <2>1
<1>5. \A k \in 1..n : Flat(lists, k) = F(k)[k]
  <2> TAKE k \in 1..n
  <2>1. Len(s(k)) = k /\ k # 0  OBVIOUS
  <2>2. Flat(lists, k) = F(k)[Len(s(k))]  BY <2>1 DEF Flat, FlattenSeq
  <2> HIDE DEF F, s
  <2> QED  BY <2>1, <2>2
<1>6. Flat(lists, 0) = <<>>
  <2>1. Len(s(0)) = 0 /\ s(0) = <<>>  OBVIOUS
  <2> QED  BY <2>1 DEF Flat, FlattenSeq
<1> HIDE DEF F
<1>7. \A k \in 1..n - 1 : \A i \in 1..k : F(k + 1)[i] = F(k)[i]
  <2> TAKE k \in 1..n - 1
  <2> DEFINE Q == {i \in 0..k : i = 0 \/ F(k + 1)[i] = F(k)[i]}
  <2>1. k \in 0..n /\ k + 1 \in 0..n  OBVIOUS
  <2>2. 0 \in Q  OBVIOUS
  <2>3. ASSUME NEW i \in 0..k - 1, i \in Q PROVE i + 1 \in Q
    <3>1. /\ i + 1 \in 1..k /\ i + 1 \in 1..k + 1 /\ (i + 1) - 1 = i
          /\ (i + 1 = 1 <=> i = 0) /\ i + 1 \in 0..k
      OBVIOUS
    <3>2. F(k + 1)[i + 1] = IF i = 0 THEN lists[i + 1] ELSE F(k + 1)[i] \o lists[i + 1]
      BY <1>4, <2>1, <3>1
    <3>3. F(k)[i + 1] = IF i = 0 THEN lists[i + 1] ELSE F(k)[i] \o lists[i + 1]
      BY <1>4, <2>1, <3>1
    <3> QED  BY <2>3, <3>1, <3>2, <3>3
  <2>4. \A i \in 0..k : i \in Q
    <3>1. k \in Nat  OBVIOUS
    <3> HIDE DEF Q
    <3> QED  BY <2>2, <2>3, <3>1, UpTo
  <2> QED  BY <2>4
<1>8. \A k \in 1..n : Flat(lists, k) = IF k = 1 THEN lists[k]
                                        ELSE Flat(lists, k - 1) \o lists[k]
  <2> TAKE k \in 1..n
  <2>1. Flat(lists, k) = IF k = 1 THEN lists[k] ELSE F(k)[k - 1] \o lists[k]
    <3>1. k \in 0..n /\ k \in 1..k  OBVIOUS
    <3> QED  BY <1>4, <1>5, <3>1
  <2>2. CASE k # 1
    <3>1. k - 1 \in 1..n - 1 /\ k - 1 \in 1..n /\ k - 1 \in 1..k - 1 /\ (k - 1) + 1 = k
      BY <2>2
    <3>2. F(k)[k - 1] = F(k - 1)[k - 1]  BY <1>7, <3>1
    <3>3. Flat(lists, k - 1) = F(k - 1)[k - 1]  BY <1>5, <3>1
    <3> QED  BY <2>1, <2>2, <3>2, <3>3
  <2> QED  BY <2>1, <2>2
<1>9. \A k \in 0..n : Flat(lists, k) \in Seq(T)
  <2> DEFINE Q == {k \in 0..n : Flat(lists, k) \in Seq(T)}
  <2>1. 0 \in Q
    <3>1. 0 \in 0..n /\ <<>> \in Seq(T)  OBVIOUS
    <3>2. Flat(lists, 0) \in Seq(T)  BY <1>6, <3>1
    <3> QED  BY <3>1, <3>2
  <2>2. ASSUME NEW k \in 0..n - 1, k \in Q PROVE k + 1 \in Q
    <3>1. k + 1 \in 1..n /\ k + 1 \in 0..n /\ (k + 1) - 1 = k  OBVIOUS
    <3>2. lists[k + 1] \in Seq(T) /\ Flat(lists, k) \in Seq(T)  BY <2>2, <3>1
    <3>3. Flat(lists, k) \o lists[k + 1] \in Seq(T)  BY <3>2, ConcatProperties
    <3>4. Flat(lists, k + 1) = IF k + 1 = 1 THEN lists[k + 1]
                               ELSE Flat(lists, k) \o lists[k + 1]
      BY <1>8, <3>1
    <3> QED  BY <3>1, <3>2, <3>3, <3>4
  <2> HIDE DEF Q
  <2>3. \A k \in 0..n : k \in Q  BY <2>1, <2>2, UpTo
  <2> QED  BY <2>3 DEF Q
<1>10. \A k \in 1..n : Flat(lists, k) = Flat(lists, k - 1) \o lists[k]
  <2> TAKE k \in 1..n
  <2>1. CASE k = 1
    <3>1. lists[1] \in Seq(T)  OBVIOUS
    <3>2. <<>> \o lists[1] = lists[1]  BY <3>1, ConcatEmptySeq
    <3>3. k - 1 = 0  BY <2>1
    <3> QED  BY <1>6, <1>8, <2>1, <3>2, <3>3
  <2> QED  BY <1>8, <2>1
<1> QED  BY <1>6, <1>9, <1>10

(* The lists of n rows, under a name the prover need not look into.         *)
Lists(T, n) == [1..n -> Seq(T)]

(* Where the texts of row i are in the texts of all n.                      *)
LEMMA FlatPlaces ==
  ASSUME NEW T, NEW n \in Nat, NEW lists \in Lists(T, n)
  PROVE  \A m \in 0..n : \A i \in 1..m : \A k \in 1..Len(lists[i]) :
           /\ Len(Flat(lists, i - 1)) + k \in 1..Len(Flat(lists, m))
           /\ Flat(lists, m)[Len(Flat(lists, i - 1)) + k] = lists[i][k]
<1> DEFINE place(i, k) == Len(Flat(lists, i - 1)) + k
           Holds(m, i, k) == /\ place(i, k) \in 1..Len(Flat(lists, m))
                             /\ Flat(lists, m)[place(i, k)] = lists[i][k]
           P == {m \in 0..n : \A i \in 1..m : \A k \in 1..Len(lists[i]) : Holds(m, i, k)}
<1>1. /\ \A m \in 0..n : Flat(lists, m) \in Seq(T)
      /\ \A m \in 1..n : Flat(lists, m) = Flat(lists, m - 1) \o lists[m]
  <2>1. lists \in [1..n -> Seq(T)]  BY DEF Lists
  <2> QED  BY <2>1, FlatGrows
<1>2. 0 \in P  OBVIOUS
<1>3. ASSUME NEW m \in 0..n - 1, m \in P PROVE m + 1 \in P
  <2>1. m \in 0..n /\ m + 1 \in 0..n /\ m + 1 \in 1..n /\ (m + 1) - 1 = m  OBVIOUS
  <2>2. /\ Flat(lists, m) \in Seq(T) /\ lists[m + 1] \in Seq(T)
        /\ Flat(lists, m + 1) = Flat(lists, m) \o lists[m + 1]
    BY <1>1, <2>1 DEF Lists
  <2>3. PICK a \in Nat, b \in Nat :
          a = Len(Flat(lists, m)) /\ b = Len(lists[m + 1])
    BY <2>2, LenProperties
  <2>4. /\ Len(Flat(lists, m + 1)) = a + b
        /\ \A j \in 1..a + b :
             Flat(lists, m + 1)[j] = IF j <= a THEN Flat(lists, m)[j]
                                               ELSE lists[m + 1][j - a]
    BY <2>2, <2>3, ConcatProperties
  <2>5. ASSUME NEW i \in 1..m + 1, NEW k \in 1..Len(lists[i]) PROVE Holds(m + 1, i, k)
    <3>1. CASE i = m + 1
      <4>1. k \in 1..b /\ place(i, k) = a + k  BY <2>1, <2>3, <3>1
      <4>2. a + k \in 1..a + b /\ ~(a + k <= a) /\ (a + k) - a = k
        BY <2>3, <4>1
      <4> QED  BY <2>4, <3>1, <4>1, <4>2
    <3>2. CASE i # m + 1
      <4>1. i \in 1..m  BY <3>2
      <4>2. Holds(m, i, k)  BY <1>3, <4>1
      <4>3. place(i, k) \in 1..a /\ Flat(lists, m)[place(i, k)] = lists[i][k]
        BY <2>3, <4>2
      <4> HIDE DEF place
      <4>4. place(i, k) \in 1..a + b /\ place(i, k) <= a  BY <2>3, <4>3
      <4> QED  BY <2>4, <4>3, <4>4
    <3> QED  BY <3>1, <3>2
  <2> HIDE DEF Holds
  <2> QED  BY <2>1, <2>5
<1> HIDE DEF P
<1>4. \A m \in 0..n : m \in P  BY <1>2, <1>3, UpTo
<1> QED  BY <1>4 DEF P

(* The same, of one text of row i.                                          *)
LEMMA FlatPlace ==
  ASSUME NEW T, NEW n \in Nat, NEW lists \in Lists(T, n),
         NEW i \in 1..n, NEW k \in 1..Len(lists[i])
  PROVE  /\ Len(Flat(lists, i - 1)) + k \in 1..Len(Flat(lists, n))
         /\ Flat(lists, n)[Len(Flat(lists, i - 1)) + k] = lists[i][k]
<1>1. \A m \in 0..n : \A j \in 1..m : \A l \in 1..Len(lists[j]) :
         /\ Len(Flat(lists, j - 1)) + l \in 1..Len(Flat(lists, m))
         /\ Flat(lists, m)[Len(Flat(lists, j - 1)) + l] = lists[j][l]
  BY FlatPlaces
<1>2. n \in 0..n  OBVIOUS
<1> QED  BY <1>1, <1>2

----------------------------------------------------------------------------
(* What is under way                                                        *)

Gated == {"jina", "cohere", "voyage"}

(* A request under way has come through its gate before it is parsed.       *)
PastGate ==
  status = 0 /\ req.route \in Gated /\ At("parse") /\ NeedsMultimodal =>
    image.multimodal

(* The request is one that can be sent, and is somewhere in its program.    *)
Sent == req \in Calls /\ step \in Nat \ {0} /\ at \in Nat \ {0}

IInv == Sent /\ PastGate /\ NoDecodeOnTextModel

----------------------------------------------------------------------------
(* Shapes and fields                                                        *)

(* The two ways of looking at a part agree: whatever the parser would open  *)
(* a connection or run a decoder for has the shape of media, and looks like *)
(* it by itself unless it has a list of its own under `content`.            *)
LEMMA TouchedIsMedia ==
  ASSUME NEW part, Touches(part)
  PROVE  /\ IsMediaPart(part)
         /\ "content" \notin part.keys => IsMediaByItself(part)
BY DEF Touches, IsMediaPart, IsMediaByItself

(* So has everything a route would load of an input that is not a string.   *)
LEMMA LoadedIsMedia ==
  ASSUME NEW item, NEW part \in LoadedFrom(item)
  PROVE  /\ item.shape # "string"
         /\ part \in Members(PartsOf(item))
         /\ Loads(part)
BY DEF LoadedFrom

(* A part only Gemini's gate does not see.                                  *)
PassesUnseen(part) == req.route \in Gemini /\ "content" \in part.keys

LEMMA RefusedAtTheItem ==
  ASSUME NEW item, Sent, req.route \notin Gated, NEW part \in LoadedFrom(item)
  PROVE  ItemNeedsMultimodal(item) \/ PassesUnseen(part)
<1>1. item.shape # "string" /\ part \in Members(PartsOf(item)) /\ Loads(part)
  BY LoadedIsMedia
<1>2. CASE req.route = "chat"
  BY <1>1, <1>2 DEF Loads, ItemNeedsMultimodal, Ranks, Gemini
<1>3. CASE req.route \in Ranks
  <2>1. PartsOf(item) = item.parts  BY <1>3 DEF PartsOf, Ranks, Gemini
  <2>2. "text" \notin part.keys /\ "image" \in part.keys
    BY <1>1, <1>3 DEF Loads, Ranks, Gemini
  <2> QED  BY <1>1, <1>3, <2>1, <2>2 DEF ItemNeedsMultimodal, Ranks, Gemini
<1>4. CASE req.route \in Gemini
  BY <1>1, <1>4, TouchedIsMedia
  DEF Loads, ItemNeedsMultimodal, PassesUnseen, Ranks, Gemini
<1> QED
  BY <1>2, <1>3, <1>4, CallAssumption DEF Sent, Gated, Ranks, Gemini, Program

LEMMA RefusedAtTheGate ==
  ASSUME Sent, req.route \in Gated, NEW i \in DOMAIN req.inputs,
         LoadedFrom(req.inputs[i]) # {}
  PROVE  NeedsMultimodal
<1> DEFINE item == req.inputs[i]
<1> PICK part \in LoadedFrom(item) : TRUE  OBVIOUS
<1>1. item.shape # "string" /\ part \in Members(PartsOf(item)) /\ Loads(part)
  BY LoadedIsMedia
<1>2. CASE req.route = "jina"
  <2>1. part \in Members(item.parts) /\ Touches(part)
    BY <1>1, <1>2 DEF Loads, PartsOf, Ranks, Gemini
  <2>2. IsMedia(item)  BY <1>1, <2>1, TouchedIsMedia DEF IsMedia
  <2> QED  BY <1>2, <2>2 DEF NeedsMultimodal
<1>3. CASE req.route = "cohere"
  <2>1. req.form \in {"inputs", "images"}
    BY <1>1, <1>3, CallAssumption DEF Sent
  <2> QED  BY <1>3, <2>1 DEF NeedsMultimodal
<1>4. CASE req.route = "voyage"
  BY <1>4 DEF NeedsMultimodal
<1> QED  BY <1>2, <1>3, <1>4 DEF Gated

(* Nothing else is loaded of the next input unless the model takes media.   *)
LEMMA LoadedIfMultimodal ==
  ASSUME Sent, PastGate, status = 0, At("parse"),
         NEW i \in DOMAIN req.inputs,
         ItemNeedsMultimodal(req.inputs[i]) => image.multimodal,
         NEW part \in LoadedFrom(req.inputs[i])
  PROVE  image.multimodal \/ PassesUnseen(part)
<1>1. CASE req.route \in Gated
  <2>1. LoadedFrom(req.inputs[i]) # {}  OBVIOUS
  <2> QED  BY <1>1, <2>1, RefusedAtTheGate DEF PastGate
<1>2. CASE req.route \notin Gated
  BY <1>2, RefusedAtTheItem
<1> QED  BY <1>1, <1>2

----------------------------------------------------------------------------
(* The gate                                                                 *)

(* What comes before parsing on a gated route is the gate.                  *)
LEMMA GateBeforeParse ==
  ASSUME NEW route \in Gated, NEW k \in Nat \ {0},
         k + 1 \in DOMAIN Program[route], Program[route][k + 1] = "parse"
  PROVE  Program[route][k] = "gate"
BY DEF Gated, Program

LEMMA AdvanceKeepsGate ==
  ASSUME Sent, UNCHANGED <<image, req>>, step' = step + 1,
         At("gate") /\ NeedsMultimodal => image.multimodal, status = 0
  PROVE  PastGate'
<1> SUFFICES ASSUME req.route \in Gated, At("parse")', NeedsMultimodal
             PROVE  image.multimodal
  BY DEF PastGate, NeedsMultimodal
<1>1. /\ step + 1 \in DOMAIN Program[req.route]
      /\ Program[req.route][step + 1] = "parse"
  BY DEF At
<1>2. Program[req.route][step] = "gate"
  BY <1>1, GateBeforeParse DEF Sent
<1>3. step \in DOMAIN Program[req.route]
  BY <1>1 DEF Sent, Gated, Program
<1> QED  BY <1>2, <1>3 DEF At

LEMMA StayKeepsGate ==
  ASSUME PastGate, status = 0, UNCHANGED <<image, req, step>>
  PROVE  PastGate'
BY DEF PastGate, At, NeedsMultimodal

(* Every stage but the gate and the parser keeps what is known of a request,*)
(* whether it ends it or lets it through.                                   *)
LEMMA OtherStage ==
  ASSUME IInv, status = 0, ~At("gate"),
         UNCHANGED <<image, req, touched, at>>, step' \in {step, step + 1}
  PROVE  IInv'
BY StayKeepsGate, AdvanceKeepsGate DEF IInv, Sent, NoDecodeOnTextModel

----------------------------------------------------------------------------
(* Nothing is decoded for a text-only model                                 *)

LEMMA InitInv == Init => IInv
BY DEF Init, IInv, Sent, PastGate, At, Gated, Program, NoDecodeOnTextModel

LEMMA NextInv == IInv /\ [Next]_vars => IInv'
<1> SUFFICES ASSUME IInv, [Next]_vars PROVE IInv'  OBVIOUS
<1>1. CASE Validate
  BY <1>1, OtherStage DEF Validate, Check, Refuse, At
<1>2. CASE RejectForeignModel
  BY <1>2, OtherStage DEF RejectForeignModel, Check, Refuse, At
<1>3. CASE RequireVerb
  BY <1>3, OtherStage DEF RequireVerb, Check, Refuse, At
<1>4. CASE Stream
  BY <1>4, OtherStage DEF Stream, Check, Refuse, At
<1>5. CASE InferenceKwargs
  BY <1>5, OtherStage DEF InferenceKwargs, Check, Refuse, At
<1>6. CASE RequireMultimodal
  <2>1. status = 0 /\ UNCHANGED <<image, req, touched, at>>
    BY <1>6 DEF RequireMultimodal, Check, Refuse, At
  <2>2. \/ step' = step
        \/ step' = step + 1 /\ (NeedsMultimodal => image.multimodal)
    BY <1>6 DEF RequireMultimodal, Check, Refuse
  <2> QED  BY <2>1, <2>2, StayKeepsGate, AdvanceKeepsGate
           DEF IInv, Sent, NoDecodeOnTextModel
<1>7. CASE ResolveTasks
  BY <1>7, OtherStage DEF ResolveTasks, Refuse, At
<1>8. CASE AllParsed
  BY <1>8, OtherStage DEF AllParsed, Refuse, At
<1>9. CASE TruncateTexts
  BY <1>9, OtherStage DEF TruncateTexts, Refuse, At
<1>10. CASE Embed
  BY <1>10, OtherStage DEF Embed, Refuse, At
<1>11. CASE EmbedAnswers
  BY <1>11, OtherStage DEF EmbedAnswers, Refuse, At
<1>12. CASE Rerank
  BY <1>12, OtherStage DEF Rerank, Refuse, At
<1>13. CASE Generate
  BY <1>13, OtherStage DEF Generate, Refuse, At
<1>14. CASE ParseInput
  <2>1. /\ status = 0 /\ At("parse") /\ at \in DOMAIN req.inputs
        /\ UNCHANGED <<image, req, step>> /\ at' \in {at, at + 1}
    BY <1>14, CallAssumption DEF ParseInput, Refuse, At, IInv, Sent
  <2>2. \A part \in touched' : image.multimodal \/ PassesUnseen(part)
    <3>1. CASE touched' = touched
      BY <3>1 DEF IInv, NoDecodeOnTextModel, PassesUnseen
    <3>2. CASE touched' # touched
      <4>1. /\ touched' = touched \cup LoadedFrom(req.inputs[at])
            /\ ItemNeedsMultimodal(req.inputs[at]) => image.multimodal
        BY <1>14, <3>2 DEF ParseInput
      <4>2. \A part \in LoadedFrom(req.inputs[at]) :
               image.multimodal \/ PassesUnseen(part)
        BY <2>1, <4>1, LoadedIfMultimodal DEF IInv
      <4> QED  BY <4>1, <4>2 DEF IInv, NoDecodeOnTextModel, PassesUnseen
    <3> QED  BY <3>1, <3>2
  <2> QED  BY <2>1, <2>2, StayKeepsGate
           DEF IInv, Sent, NoDecodeOnTextModel, PassesUnseen
<1>15. CASE Answered \/ UNCHANGED vars
  BY <1>15 DEF Answered, vars, IInv, Sent, PastGate, At, NeedsMultimodal,
               NoDecodeOnTextModel
<1> QED
  BY <1>1, <1>2, <1>3, <1>4, <1>5, <1>6, <1>7, <1>8, <1>9, <1>10, <1>11,
     <1>12, <1>13, <1>14, <1>15 DEF Next

(* On a text-only model no request, however it is spelled and whichever     *)
(* envelope it comes in, opens a connection or runs a decoder, save for a   *)
(* Gemini part with a list of its own under `content`.                      *)
THEOREM NothingDecoded == Spec => []NoDecodeOnTextModel
<1>1. IInv => NoDecodeOnTextModel  BY DEF IInv
<1> QED  BY <1>1, InitInv, NextInv, PTL DEF Spec

----------------------------------------------------------------------------
(* Embeddings are the ones asked for                                        *)

(* The stage a request is at, whatever has become of it, and those it has   *)
(* been through.                                                            *)
Here(stage) ==
  step \in DOMAIN Program[req.route] /\ Program[req.route][step] = stage
Past(stage) ==
  \E k \in 1..step - 1 :
    k \in DOMAIN Program[req.route] /\ Program[req.route][k] = stage

(* What a part may have been read as, and the pieces rows are made of.      *)
Kinds == {"none", "text", "bytes", "image", "stream"}
Pieces == [as : Kinds, n : Nat, words : Nat, est : Nat, from : Int, to : Int]

(* The p-th input as the engine is given it, and as it is now: Cohere cuts  *)
(* its texts on the way.                                                    *)
Seen(p) == IF req.route = "cohere" /\ req.form = "texts"
           THEN <<Trimmed(Row(p)[1])>> ELSE Row(p)
RowNow(p) == IF Past("trim") THEN Seen(p) ELSE Row(p)

(* The state is of the shape TypeOK gives it. The rest of the invariant     *)
(* says where the request stands, each part for the variables it names.     *)
Shape ==
  /\ image \in Images /\ tok \in BOOLEAN /\ req \in Calls
  /\ step \in Nat \ {0} /\ at \in Nat \ {0} /\ status \in Statuses
  /\ touched \subseteq UNION {Members(req.inputs[i].parts) :
                                i \in DOMAIN req.inputs}

(* One row per input passed, in order, each the reading of that input.      *)
RowsKept ==
  /\ rows \in Seq(Seq(Pieces)) /\ Len(rows) = at - 1
  /\ at <= Len(req.inputs) + 1
  /\ Past("parse") => at = Len(req.inputs) + 1
  /\ \A p \in 1..at - 1 : rows[p] = RowNow(p)

(* A task per row: a batch names them as it is parsed, other routes at      *)
(* once.                                                                    *)
TasksKept ==
  /\ req.route = "batch" =>
       /\ tasks \in Seq({TaskOf(p) : p \in DOMAIN req.inputs})
       /\ Len(tasks) = at - 1
       /\ \A p \in 1..at - 1 : tasks[p] = TaskOf(p)
  /\ Past("task") => \A p \in DOMAIN req.inputs : tasks[p] = TaskOf(p)

(* What is asked of a row depends on the request and the container alone.   *)
LEMMA SameRequest ==
  ASSUME UNCHANGED <<image, tok, req>>
  PROVE  \A p : /\ Row(p)' = Row(p) /\ TaskOf(p)' = TaskOf(p)
                /\ Seen(p)' = Seen(p) /\ Want(p)' = Want(p)
                /\ Truncates(p)' = Truncates(p)
<1>1. \A part : Reading(part)' = Reading(part)  BY DEF Reading
<1>2. \A item : PartsOf(item)' = PartsOf(item)  BY DEF PartsOf
<1>3. \A part : Piece(part)' = Piece(part)  BY <1>1 DEF Piece
<1>4. \A pieces : Joined(pieces)' = Joined(pieces)  BY DEF Joined
<1>5. \A p : Row(p)' = Row(p)
  BY <1>2, <1>3, <1>4 DEF Row
<1>6. \A p : Want(p)' = Want(p)  BY DEF Want
<1>7. \A p : TaskOf(p)' = TaskOf(p)  BY <1>6 DEF TaskOf
<1>8. \A text : Trimmed(text)' = Trimmed(text)
  BY <1>6 DEF Trimmed, TrimLimit, IdsOf
<1>9. \A p : Seen(p)' = Seen(p)  BY <1>5, <1>8 DEF Seen
<1>10. \A p : Truncates(p)' = Truncates(p)  BY <1>6 DEF Truncates
<1> QED  BY <1>5, <1>6, <1>7, <1>9, <1>10

(* The parts a route takes of an input are parts of that input.             *)
LEMMA PartsAreSent ==
  ASSUME req \in Calls, NEW p \in DOMAIN req.inputs
  PROVE  PartsOf(req.inputs[p]) \in Seq(Members(req.inputs[p].parts))
<1> DEFINE item == req.inputs[p]
           D    == {part \in Members(item.parts) : IsDict(part)}
<1>1. item.parts \in Seq(Members(item.parts))  BY ContentAssumption
<1>2. Kept(item.parts, D) \in Seq(Members(item.parts) \cap D)
  <2> HIDE DEF D
  <2> QED  BY <1>1, KeptFacts
<1>3. Seq(Members(item.parts) \cap D) \subseteq Seq(Members(item.parts))
  <2> HIDE DEF D
  <2> QED  OBVIOUS
<1>4. PartsOf(item) \in {Kept(item.parts, D), item.parts}  BY DEF PartsOf
<1> HIDE DEF D, item
<1> QED  BY <1>1, <1>2, <1>3, <1>4 DEF item

(* A part is read as one of five kinds of thing, or refused as such.        *)
LEMMA ReadingKinds ==
  ASSUME req \in Calls, NEW p \in DOMAIN req.inputs,
         NEW part \in Members(req.inputs[p].parts)
  PROVE  Reading(part).as \in Kinds /\ Reading(part).status \in {200, 400, 413, 500}
<1>1. part.load.mime \in {"image", "stream", "unknown"}  BY ContentAssumption
<1> DEFINE Fine(a) == a.as \in Kinds /\ a.status \in {200, 400, 413, 500}
<1>2. Fine(Bad) /\ Fine(TooBig) /\ Fine(Crashed) /\ Fine(Raw)
      /\ Fine(Answer(200, "text"))
  BY DEF Bad, TooBig, Crashed, Raw, Answer, Kinds
<1>3. Fine(ToInput(part.load))
  BY <1>1, <1>2 DEF ToInput, Answer, Kinds, Bad
<1> HIDE DEF Fine
<1>4. Fine(DecodeB64(part.load)) /\ Fine(Fetch(part.load))
  BY <1>2 DEF DecodeB64, Fetch
<1>5. \A read : Fine(read) => Fine(Input(read, part.load))
  BY <1>3 DEF Input
<1>6. Fine(FromUrlOrData(part.load))  BY <1>4 DEF FromUrlOrData
<1>7. Fine(ParseContentPart(part))
  BY <1>2, <1>4, <1>5, <1>6 DEF ParseContentPart
<1>8. Fine(ChatPart(part)) /\ Fine(QueryPart(part))
  BY <1>2, <1>5, <1>6, <1>7 DEF ChatPart, QueryPart
<1>9. Fine(Reading(part))  BY <1>2, <1>7, <1>8 DEF Reading
<1> QED  BY <1>9 DEF Fine

(* A row is made of whole pieces; a text of Cohere's is one.                *)
LEMMA RowIsWhole ==
  ASSUME req \in Calls, NEW p \in DOMAIN req.inputs
  PROVE  /\ Row(p) \in Seq(Pieces)
         /\ \A k \in 1..Len(Row(p)) : Row(p)[k].from = 1 /\ Row(p)[k].to = Row(p)[k].n
         /\ req.route = "cohere" /\ req.form = "texts" => Len(Row(p)) = 1
<1> DEFINE item  == req.inputs[p]
           parts == PartsOf(item)
           P     == [i \in DOMAIN parts |-> Piece(parts[i])]
           Whole(x) == x \in Pieces /\ x.from = 1 /\ x.to = x.n
<1>1. \A n, words, est \in Nat : Whole(TextPiece(n, words, est))
  BY DEF TextPiece, Pieces, Kinds
<1>2. \A x : Whole(x) => /\ <<x>> \in Seq(Pieces) /\ Len(<<x>>) = 1
                         /\ <<x>>[1] = x
  OBVIOUS
<1>3. CASE item.shape = "string"
  <2>1. item.parts \in Seq(Members(item.parts)) /\ item.parts # <<>>
    BY <1>3, ContentAssumption
  <2>2. 1 \in DOMAIN item.parts  BY <2>1
  <2>3. item.parts[1] \in Members(item.parts)  BY <2>2 DEF Members
  <2> DEFINE x == TextPiece(item.parts[1].n, item.parts[1].words, item.parts[1].est)
  <2>4. Whole(x)  BY <1>1, <2>3, ContentAssumption
  <2>5. Row(p) = <<x>>  BY <1>3 DEF Row
  <2> HIDE DEF x, item
  <2>6. <<x>> \in Seq(Pieces) /\ Len(<<x>>) = 1 /\ <<x>>[1] = x  BY <1>2, <2>4
  <2>7. \A k \in 1..Len(Row(p)) : k = 1  BY <2>5, <2>6
  <2> QED  BY <2>4, <2>5, <2>6, <2>7
<1>4. CASE item.shape # "string"
  <2>1. parts \in Seq(Members(item.parts))  BY PartsAreSent
  <2>2. \A part \in Members(item.parts) : Whole(Piece(part))
    <3> TAKE part \in Members(item.parts)
    <3>1. part.n \in Nat /\ part.words \in Nat /\ part.est \in Nat
      BY ContentAssumption
    <3>2. Reading(part).as \in Kinds  BY ReadingKinds
    <3> QED  BY <3>1, <3>2 DEF Piece, Pieces
  <2> HIDE DEF parts
  <2>3. PICK n \in Nat : n = Len(parts) /\ DOMAIN parts = 1..n /\ DOMAIN P = 1..n
    BY <2>1
  <2>4. \A i \in 1..n : Whole(P[i])
    <3>1. \A i \in 1..n : parts[i] \in Members(item.parts)  BY <2>1, <2>3
    <3> QED  BY <2>2, <2>3, <3>1
  <2>5. P \in [1..n -> Pieces]  BY <2>3, <2>4
  <2>6. P \in Seq(Pieces) /\ Len(P) = n  BY <2>3, <2>5, SeqDef, LenProperties
  <2>7. Row(p) = Joined(P)  BY <1>4 DEF Row, parts
  <2> HIDE DEF P
  <2>8. \/ Joined(P) = P
        \/ Joined(P) = <<TextPiece(0, 0, 0)>>
        \/ Joined(P) = <<TextPiece(Total([i \in DOMAIN P |-> P[i].n]),
                                   Total([i \in DOMAIN P |-> P[i].words]),
                                   Total([i \in DOMAIN P |-> P[i].est]))>>
    BY DEF Joined
  <2>9. /\ Total([i \in DOMAIN P |-> P[i].n]) \in Nat
        /\ Total([i \in DOMAIN P |-> P[i].words]) \in Nat
        /\ Total([i \in DOMAIN P |-> P[i].est]) \in Nat
    <3>1. /\ [i \in DOMAIN P |-> P[i].n] \in [1..n -> Nat]
          /\ [i \in DOMAIN P |-> P[i].words] \in [1..n -> Nat]
          /\ [i \in DOMAIN P |-> P[i].est] \in [1..n -> Nat]
      BY <2>3, <2>5 DEF Pieces
    <3> QED  BY <3>1, TotalIsCount
  <2>10. ~(req.route = "cohere" /\ req.form = "texts")
    BY <1>4, CallAssumption
  <2>11. CASE Joined(P) = P
    BY <2>4, <2>6, <2>7, <2>10, <2>11
  <2>12. CASE \E x : Whole(x) /\ Joined(P) = <<x>>
    <3>1. PICK x : Whole(x) /\ Joined(P) = <<x>>  BY <2>12
    <3>2. <<x>> \in Seq(Pieces) /\ Len(<<x>>) = 1 /\ <<x>>[1] = x  BY <1>2, <3>1
    <3>3. \A k \in 1..Len(Row(p)) : k = 1  BY <2>7, <3>1, <3>2
    <3> QED  BY <2>7, <2>10, <3>1, <3>2, <3>3
  <2> HIDE DEF Whole
  <2> QED  BY <1>1, <2>8, <2>9, <2>11, <2>12
<1> QED  BY <1>3, <1>4

(* Several encodings at once are refused first thing on the native route.   *)
Validated == Past("validate") => Want(1).type # "several"

(* A row that has an encoding has the one asked for, read whole where       *)
(* nothing may be cut; and an answer has one for every row.                 *)
Encoded ==
  /\ DOMAIN ordered = DOMAIN req.inputs
  /\ \A p \in DOMAIN ordered : ordered[p] # NotYet =>
       /\ Here("embed")
       /\ AsAsked(ordered[p], p)
       /\ tok /\ ~Truncates(p) => ReadWhole(ordered[p])
  /\ EmbedsNow => \A p \in DOMAIN ordered : ordered[p] # NotYet

(* The inductive invariant of the promises about embeddings.                *)
AskedInv == Shape /\ RowsKept /\ TasksKept /\ Validated /\ Encoded

(* The stages of a request come in the order of its route's program.        *)
LEMMA ProgramOrder ==
  ASSUME req \in Calls, step \in Nat \ {0}
  PROVE  /\ Here("embed") => /\ req.route \in Embeds /\ Past("parse")
                             /\ req.route # "batch" => Past("task")
                             /\ req.route = "cohere" => Past("trim")
                             /\ req.route = "jina" => Past("validate")
         /\ Here("trim")  => req.route = "cohere" /\ Past("parse") /\ ~Past("trim")
         /\ Here("parse") => ~Past("trim") /\ ~Past("parse")
         /\ Here("task")  => req.route # "batch"
         /\ Past("trim") => req.route = "cohere"
         /\ Past("task") => req.route # "batch"
         /\ Here("rank") \/ Here("generate") => req.route \notin Embeds
<1>1. req.route \in DOMAIN Program  BY CallAssumption
<1> USE DEF Here, Past, Program, Embeds, Gemini
<1>2. CASE req.route = "jina"  BY <1>2
<1>3. CASE req.route = "cohere"  BY <1>3
<1>4. CASE req.route = "voyage"  BY <1>4
<1>5. CASE req.route = "gemini"  BY <1>5
<1>6. CASE req.route = "batch"  BY <1>6
<1>7. CASE req.route = "chat"  BY <1>7
<1>8. CASE req.route = "rerank"  BY <1>8
<1>9. CASE req.route = "cohereRerank"  BY <1>9
<1> QED  BY <1>1, <1>2, <1>3, <1>4, <1>5, <1>6, <1>7, <1>8, <1>9

(* A stage left is a stage been through, and no other is.                   *)
LEMMA PastGrows ==
  ASSUME step \in Nat \ {0}, NEW s, Here(s), step' = step + 1, req' = req
  PROVE  /\ \A t : Past(t)' <=> Past(t) \/ t = s
<1>1. /\ (step + 1) - 1 = step
      /\ \A k : k \in 1..step <=> k \in 1..step - 1 \/ k = step
  OBVIOUS
<1>2. \A t : Past(t)' <=> \E k \in 1..step :
         k \in DOMAIN Program[req.route] /\ Program[req.route][k] = t
  BY <1>1 DEF Past
<1> QED  BY <1>1, <1>2 DEF Past, Here

(* An encoding stays as asked as long as the rows stay.                     *)
LEMMA SameEncoding ==
  ASSUME UNCHANGED <<image, tok, req>>
  PROVE  \A v, p : AsAsked(v, p) /\ UNCHANGED rows => AsAsked(v, p)'
<1>1. \A x : TokenLength(x)' = TokenLength(x)  BY DEF TokenLength
<1>2. \A p : rows' = rows => OwnWeight(p)' = OwnWeight(p)
  BY <1>1 DEF OwnWeight
<1> QED  BY <1>2, SameRequest DEF AsAsked

(* A stage that ends the request, or only lets it through.                  *)
LEMMA StageKeeps ==
  ASSUME AskedInv, NEW s, At(s),
         UNCHANGED <<image, tok, req, at, rows, tasks, ordered, touched>>,
         \/ /\ step' = step /\ status' \in Statuses
            /\ status' = 200 => req.route \notin Embeds
         \/ /\ step' = step + 1 /\ status' = status
            /\ s \notin {"task", "trim", "embed"}
            /\ s = "parse" => at = Len(req.inputs) + 1
            /\ s = "validate" => Want(1).type # "several"
  PROVE  AskedInv'
<1>1. status = 0 /\ Here(s)  BY DEF At, Here
<1>2. /\ req \in Calls /\ step \in Nat \ {0} /\ step' \in Nat \ {0}
      /\ status' \in Statuses
  BY DEF AskedInv, Shape, Statuses
<1>3. Shape'  BY <1>2 DEF AskedInv, Shape
<1>4. /\ Past("parse")' => Past("parse") \/ at = Len(req.inputs) + 1
      /\ Past("validate")' => Past("validate") \/ Want(1).type # "several"
      /\ Past("task")' <=> Past("task")
      /\ Past("trim")' <=> Past("trim")
  <2>1. CASE step' = step  BY <2>1 DEF Past
  <2>2. CASE step' = step + 1
    <3>1. s \notin {"task", "trim"}  BY <1>2, <2>2
    <3> QED  BY <1>1, <1>2, <2>2, <3>1, PastGrows
  <2> QED  BY <2>1, <2>2
<1>5. RowsKept'
  <2>1. \A p : RowNow(p)' = RowNow(p)  BY <1>4, SameRequest DEF RowNow
  <2> QED  BY <1>4, <2>1 DEF AskedInv, RowsKept
<1>6. TasksKept'
  <2>1. \A p : TaskOf(p)' = TaskOf(p)  BY SameRequest
  <2> QED  BY <1>4, <2>1 DEF AskedInv, TasksKept
<1>7. Validated'
  BY <1>4, SameRequest DEF AskedInv, Validated
<1>8. Encoded'
  <2>1. ASSUME NEW p \in DOMAIN ordered, ordered[p] # NotYet
        PROVE  /\ Here("embed")' /\ AsAsked(ordered[p], p)'
               /\ tok /\ ~Truncates(p)' => ReadWhole(ordered[p])
    <3>1. Here("embed") /\ AsAsked(ordered[p], p)
      BY <2>1 DEF AskedInv, Encoded
    <3>2. step' = step
      BY <1>1, <1>2, <3>1 DEF Here
    <3>3. Here("embed")'  BY <3>1, <3>2 DEF Here
    <3>4. AsAsked(ordered[p], p)'  BY <3>1, SameEncoding
    <3> QED  BY <2>1, <3>3, <3>4, SameRequest DEF AskedInv, Encoded
  <2>2. ~EmbedsNow'
    BY <1>1, <1>2 DEF EmbedsNow
  <2> QED  BY <2>1, <2>2 DEF AskedInv, Encoded, NotYet, ReadWhole
<1> QED  BY <1>3, <1>5, <1>6, <1>7, <1>8 DEF AskedInv

(* No row has an encoding before its stage.                                 *)
LEMMA NoneYet ==
  ASSUME AskedInv, ~Here("embed")
  PROVE  \A p \in DOMAIN ordered : ordered[p] = NotYet
BY DEF AskedInv, Encoded

(* The task stage gives every row the one task of the request.              *)
LEMMA TasksResolved ==
  ASSUME AskedInv, ResolveTasks
  PROVE  AskedInv'
<1>1. At("task") /\ Here("task") /\ status = 0
      /\ UNCHANGED <<image, tok, req, touched>>
  BY DEF ResolveTasks, At, Here
<1>2. req \in Calls /\ step \in Nat \ {0}  BY DEF AskedInv, Shape
<1>3. CASE TaskOf(1) = Refusal
  BY <1>1, <1>3, StageKeeps DEF ResolveTasks, Refuse, Statuses
<1>4. CASE TaskOf(1) # Refusal
  <2>1. /\ tasks' = [p \in DOMAIN req.inputs |-> TaskOf(1)]
        /\ step' = step + 1
        /\ UNCHANGED <<at, rows, ordered, ranking, status>>
    BY <1>4 DEF ResolveTasks
  <2>2. /\ req.route # "batch"
        /\ Past("trim")' <=> Past("trim")
        /\ Past("parse")' <=> Past("parse")
        /\ Past("validate")' <=> Past("validate")
    BY <1>1, <1>2, <2>1, ProgramOrder, PastGrows
  <2>3. Shape'  BY <1>1, <1>2, <2>1 DEF AskedInv, Shape
  <2>4. RowsKept'
    <3>1. \A p : RowNow(p)' = RowNow(p)  BY <1>1, <2>2, SameRequest DEF RowNow
    <3> QED  BY <1>1, <2>1, <2>2, <3>1 DEF AskedInv, RowsKept
  <2>5. TasksKept'
    <3>1. \A p : TaskOf(p) = TaskOf(1)  BY <2>2 DEF TaskOf, Want
    <3>2. \A p : TaskOf(p)' = TaskOf(p)  BY <1>1, SameRequest
    <3> QED  BY <1>1, <2>1, <2>2, <3>1, <3>2 DEF TasksKept
  <2>6. Validated'  BY <1>1, <2>2, SameRequest DEF AskedInv, Validated
  <2>7. Encoded'
    <3>1. ~Here("embed")  BY <1>1 DEF Here
    <3>2. ~EmbedsNow'  BY <1>1, <2>1 DEF EmbedsNow
    <3> QED  BY <1>1, <2>1, <3>1, <3>2, NoneYet DEF AskedInv, Encoded, NotYet
  <2> QED  BY <2>3, <2>4, <2>5, <2>6, <2>7 DEF AskedInv
<1> QED  BY <1>3, <1>4

(* Parsing an input refuses the request or adds its row, and its task in a  *)
(* batch.                                                                   *)
LEMMA InputParsed ==
  ASSUME AskedInv, ParseInput
  PROVE  AskedInv'
<1> DEFINE item  == req.inputs[at]
           asked == IF req.route = "batch" THEN TaskOf(at) ELSE None
           early == \/ asked = Refusal \/ item.shape = "other"
                    \/ ItemNeedsMultimodal(item) /\ ~image.multimodal
<1>1. /\ At("parse") /\ Here("parse") /\ status = 0 /\ at <= Len(req.inputs)
      /\ UNCHANGED <<image, tok, req>>
  BY DEF ParseInput, At, Here
<1>2. /\ req \in Calls /\ step \in Nat \ {0} /\ at \in Nat \ {0}
      /\ req.inputs \in Seq(Members(req.inputs))
  BY CallAssumption DEF AskedInv, Shape
<1>3. at \in DOMAIN req.inputs  BY <1>1, <1>2
<1>4. CASE early
  BY <1>1, <1>4, StageKeeps DEF ParseInput, Refuse, Statuses
<1>5. ASSUME ~early
      PROVE  /\ touched' = touched \cup LoadedFrom(item)
             /\ IF Failing(item) # {}
                THEN Refuse(Reading(PartsOf(item)[FirstOf(Failing(item))]).status)
                ELSE /\ rows' = Append(rows, Row(at))
                     /\ tasks' = IF req.route = "batch" THEN Append(tasks, asked)
                                                        ELSE tasks
                     /\ at' = at + 1
                     /\ UNCHANGED <<step, ordered, ranking, status>>
  BY <1>5 DEF ParseInput
<1>6. PartsOf(item) \in Seq(Members(item.parts))  BY <1>2, <1>3, PartsAreSent
<1>7. LoadedFrom(item) \subseteq Members(item.parts)
  <2>1. Members(PartsOf(item)) \subseteq Members(item.parts)
    BY <1>6 DEF Members
  <2> QED  BY <2>1 DEF LoadedFrom
<1>8. touched \cup LoadedFrom(item)
        \subseteq UNION {Members(req.inputs[i].parts) : i \in DOMAIN req.inputs}
  BY <1>3, <1>7 DEF AskedInv, Shape
<1>9. ~Past("trim") /\ ~Past("parse") /\ ~Here("embed")
  BY <1>1, <1>2, ProgramOrder DEF Here
<1>10. step' = step => \A t : Past(t)' <=> Past(t)
  BY <1>1 DEF Past
<1>11. CASE ~early /\ Failing(item) # {}
  <2> DEFINE i == FirstOf(Failing(item))
  <2>1. i \in DOMAIN PartsOf(item) /\ Reading(PartsOf(item)[i]).status # 200
    <3>1. Failing(item) \in SUBSET Nat
      BY <1>6 DEF Failing
    <3>2. i \in Failing(item)  BY <1>11, <3>1, Least
    <3> QED  BY <3>2 DEF Failing
  <2>2. PartsOf(item)[i] \in Members(item.parts)  BY <1>6, <2>1
  <2>3. Reading(PartsOf(item)[i]).status \in {400, 413, 500}
    <3> HIDE DEF i, item
    <3> QED  BY <1>2, <1>3, <2>1, <2>2, ReadingKinds DEF item
  <2>4. /\ touched' = touched \cup LoadedFrom(item)
        /\ Refuse(Reading(PartsOf(item)[i]).status)
    BY <1>5, <1>11
  <2> HIDE DEF i, item, early
  <2>5. status' \in {400, 413, 500} /\ UNCHANGED <<step, at, rows, tasks, ordered>>
    BY <2>3, <2>4 DEF Refuse
  <2>6. Shape'
    BY <1>1, <1>8, <2>4, <2>5 DEF AskedInv, Shape, Statuses
  <2>7. RowsKept'
    <3>1. \A p : RowNow(p)' = RowNow(p)
      BY <1>1, <1>10, <2>5, SameRequest DEF RowNow
    <3> QED  BY <1>1, <1>10, <2>5, <3>1 DEF AskedInv, RowsKept
  <2>8. TasksKept'
    BY <1>1, <1>10, <2>5, SameRequest DEF AskedInv, TasksKept
  <2>9. Validated'
    BY <1>1, <1>10, <2>5, SameRequest DEF AskedInv, Validated
  <2>10. Encoded'
    <3>1. ~EmbedsNow'  BY <2>5 DEF EmbedsNow
    <3> QED  BY <1>1, <1>9, <2>5, <3>1, NoneYet DEF AskedInv, Encoded, NotYet
  <2> QED  BY <2>6, <2>7, <2>8, <2>9, <2>10 DEF AskedInv
<1>12. CASE ~early /\ Failing(item) = {}
  <2>1. /\ touched' = touched \cup LoadedFrom(item)
        /\ rows' = Append(rows, Row(at))
        /\ tasks' = IF req.route = "batch" THEN Append(tasks, TaskOf(at)) ELSE tasks
        /\ at' = at + 1
        /\ UNCHANGED <<step, ordered, ranking, status>>
    BY <1>5, <1>12
  <2> HIDE DEF item, early
  <2>2. Shape'
    BY <1>1, <1>2, <1>8, <2>1 DEF AskedInv, Shape
  <2>3. \A p : Row(p)' = Row(p) /\ TaskOf(p)' = TaskOf(p) /\ Want(p)' = Want(p)
    BY <1>1, SameRequest
  <2>4. RowsKept'
    <3>1. Row(at) \in Seq(Pieces)  BY <1>2, <1>3, RowIsWhole
    <3>2. rows \in Seq(Seq(Pieces)) /\ Len(rows) = at - 1
      BY DEF AskedInv, RowsKept
    <3>3. /\ rows' \in Seq(Seq(Pieces)) /\ Len(rows') = at
          /\ \A p \in 1..at - 1 : rows'[p] = rows[p]
          /\ rows'[at] = Row(at)
      BY <1>2, <2>1, <3>1, <3>2, AppendProperties
    <3>4. \A p \in 1..at - 1 : rows[p] = Row(p)
      BY <1>9 DEF AskedInv, RowsKept, RowNow
    <3>5. \A p \in 1..at : rows'[p] = Row(p)
      <4>1. \A p \in 1..at : p \in 1..at - 1 \/ p = at  BY <1>2
      <4> QED  BY <3>3, <3>4, <4>1
    <3>6. ~Past("trim")' /\ ~Past("parse")'  BY <1>9, <1>10, <2>1
    <3>7. /\ at' = at + 1 /\ (at + 1) - 1 = at
          /\ at + 1 <= Len(req.inputs) + 1
      BY <1>1, <1>2, <2>1
    <3> QED  BY <1>1, <2>3, <3>3, <3>5, <3>6, <3>7 DEF RowsKept, RowNow
  <2>5. TasksKept'
    <3>1. Past("task")' => \A p \in DOMAIN req.inputs : tasks'[p] = TaskOf(p)
      <4>1. Past("task")' => Past("task") /\ req.route # "batch"
        BY <1>2, <1>10, <2>1, ProgramOrder
      <4> QED  BY <2>1, <4>1 DEF AskedInv, TasksKept
    <3>2. ASSUME req.route = "batch"
          PROVE  /\ tasks' \in Seq({TaskOf(p) : p \in DOMAIN req.inputs})
                 /\ Len(tasks') = at
                 /\ \A p \in 1..at : tasks'[p] = TaskOf(p)
      <4> DEFINE T == {TaskOf(p) : p \in DOMAIN req.inputs}
      <4>1. tasks \in Seq(T) /\ Len(tasks) = at - 1
        BY <3>2 DEF AskedInv, TasksKept
      <4>2. TaskOf(at) \in T  BY <1>3
      <4>3. \A p \in 1..at - 1 : tasks[p] = TaskOf(p)
        BY <3>2 DEF AskedInv, TasksKept
      <4>4. tasks' = Append(tasks, TaskOf(at))  BY <2>1, <3>2
      <4> HIDE DEF T
      <4>5. /\ tasks' \in Seq(T) /\ Len(tasks') = at
            /\ \A p \in 1..at - 1 : tasks'[p] = tasks[p]
            /\ tasks'[at] = TaskOf(at)
        BY <1>2, <4>1, <4>2, <4>4, AppendProperties
      <4>6. \A p \in 1..at : p \in 1..at - 1 \/ p = at  BY <1>2
      <4> QED  BY <4>3, <4>5, <4>6 DEF T
    <3>3. at' - 1 = at  BY <1>2, <2>1
    <3> QED  BY <1>1, <2>3, <3>1, <3>2, <3>3 DEF TasksKept
  <2>6. Validated'
    BY <1>1, <1>10, <2>1, <2>3 DEF AskedInv, Validated
  <2>7. Encoded'
    <3>1. ~EmbedsNow'  BY <1>1, <2>1 DEF EmbedsNow
    <3> QED  BY <1>1, <1>9, <2>1, <3>1, NoneYet DEF AskedInv, Encoded, NotYet
  <2> QED  BY <2>2, <2>4, <2>5, <2>6, <2>7 DEF AskedInv
<1> QED  BY <1>4, <1>11, <1>12

(* A wish as the schemas let a caller write it.                             *)
WantsAre(w) ==
  /\ w.dims \in Int /\ w.maxTokens \in Nat /\ w.dtype \in Dtypes \cup {"none"}
  /\ req.route \in DOMAIN Types => w.type \in Types[req.route]
  /\ req.route \in Gemini => w.inputType = None
  /\ req.route \in {"cohere", "voyage"} => w.task = None

(* Every row has a wish of its own or shares the one there is.              *)
LEMMA WantIsWritten ==
  ASSUME req \in Calls, NEW p \in DOMAIN req.inputs \cup {1},
         req.route # "batch" \/ p \in DOMAIN req.inputs
  PROVE  WantsAre(Want(p))
<1>1. /\ req.wants \in Seq(Members(req.wants)) /\ req.wants # <<>>
      /\ req.route = "batch" => Len(req.inputs) <= Len(req.wants)
      /\ req.inputs \in Seq(Members(req.inputs))
      /\ \A w \in Members(req.wants) : WantsAre(w)
  BY WantAssumption, CallAssumption DEF WantsAre
<1>2. 1 \in DOMAIN req.wants  BY <1>1
<1>3. req.route = "batch" => p \in DOMAIN req.wants  BY <1>1
<1>4. Want(p) \in Members(req.wants)  BY <1>1, <1>2, <1>3 DEF Want, Members
<1> QED  BY <1>1, <1>4

(* Cutting a text leaves what it is and how long it was.                    *)
LEMMA TrimmedPiece ==
  ASSUME AskedInv, req.route = "cohere", NEW x \in Pieces
  PROVE  Trimmed(x) \in Pieces /\ Trimmed(x).as = x.as /\ Trimmed(x).n = x.n
<1>1. TrimLimit \in Nat
  <2>1. Want(1).maxTokens \in Nat
    BY WantIsWritten DEF AskedInv, Shape, WantsAre
  <2>2. image.context \in Nat  BY ImageAssumption DEF AskedInv, Shape
  <2> QED  BY <2>1, <2>2 DEF TrimLimit
<1>2. CASE Trimmed(x) = x  BY <1>2
<1>3. CASE Trimmed(x) = [x EXCEPT !.from = x.n - TrimLimit + 1]
  BY <1>1, <1>3 DEF Pieces
<1>4. CASE Trimmed(x) = [x EXCEPT !.to = TrimLimit]
  BY <1>1, <1>4 DEF Pieces
<1> QED  BY <1>2, <1>3, <1>4 DEF Trimmed

(* The row the engine is given holds what the input holds.                  *)
LEMMA SeenRow ==
  ASSUME AskedInv, NEW p \in DOMAIN req.inputs
  PROVE  /\ Seen(p) \in Seq(Pieces)
         /\ {<<x.as, x.n>> : x \in Members(Seen(p))}
              = {<<x.as, x.n>> : x \in Members(Row(p))}
<1>1. req \in Calls  BY DEF AskedInv, Shape
<1>2. CASE req.route = "cohere" /\ req.form = "texts"
  <2>1. Row(p) \in Seq(Pieces) /\ Len(Row(p)) = 1
    BY <1>1, <1>2, RowIsWhole
  <2>2. Row(p)[1] \in Pieces /\ DOMAIN Row(p) = {1}
    <3> DEFINE row == Row(p)
    <3>1. row \in Seq(Pieces) /\ Len(row) = 1  BY <2>1
    <3> HIDE DEF row
    <3>2. DOMAIN row = 1..1 /\ 1..1 = {1}  BY <3>1
    <3>3. row[1] \in Pieces  BY <3>1, <3>2
    <3> QED  BY <3>2, <3>3 DEF row
  <2> DEFINE y == Trimmed(Row(p)[1])
  <2>3. y \in Pieces /\ y.as = Row(p)[1].as /\ y.n = Row(p)[1].n
    BY <1>2, <2>2, TrimmedPiece
  <2>4. Seen(p) = <<y>>  BY <1>2 DEF Seen
  <2> HIDE DEF y
  <2>5. Members(Seen(p)) = {y} /\ Members(Row(p)) = {Row(p)[1]}
    BY <2>2, <2>4 DEF Members
  <2> QED  BY <2>3, <2>4, <2>5
<1>3. CASE ~(req.route = "cohere" /\ req.form = "texts")
  BY <1>1, <1>3, RowIsWhole DEF Seen
<1> QED  BY <1>2, <1>3

(* Cohere's directive cuts texts and leaves all else of the rows.           *)
LEMMA TextsTrimmed ==
  ASSUME AskedInv, TruncateTexts
  PROVE  AskedInv'
<1> DEFINE refused == /\ req.form = "texts" /\ TrimLimit # 0 /\ Want(1).truncate = "NONE"
                      /\ \E p \in DOMAIN rows : IdsOf(rows[p][1]) > TrimLimit
<1>1. At("trim") /\ Here("trim") /\ status = 0
      /\ UNCHANGED <<image, tok, req, touched>>
  BY DEF TruncateTexts, At, Here
<1>2. req \in Calls /\ step \in Nat \ {0} /\ at \in Nat \ {0}  BY DEF AskedInv, Shape
<1>3. CASE refused
  BY <1>1, <1>3, StageKeeps DEF TruncateTexts, Refuse, Statuses
<1>4. CASE ~refused
  <2>1. /\ rows' = IF req.form = "texts"
                   THEN [p \in DOMAIN rows |-> <<Trimmed(rows[p][1])>>] ELSE rows
        /\ step' = step + 1
        /\ UNCHANGED <<at, tasks, ordered, ranking, status>>
    BY <1>4 DEF TruncateTexts
  <2> HIDE DEF refused
  <2>2. /\ req.route = "cohere" /\ Past("parse") /\ ~Past("trim") /\ Past("trim")'
        /\ Past("task")' <=> Past("task")
        /\ Past("parse")' <=> Past("parse")
        /\ Past("validate")' <=> Past("validate")
    BY <1>1, <1>2, <2>1, ProgramOrder, PastGrows
  <2>3. Shape'  BY <1>1, <1>2, <2>1 DEF AskedInv, Shape
  <2>4. RowsKept'
    <3>1. /\ rows \in Seq(Seq(Pieces)) /\ Len(rows) = at - 1
          /\ at = Len(req.inputs) + 1
          /\ \A p \in 1..at - 1 : rows[p] = Row(p)
      BY <2>2 DEF AskedInv, RowsKept, RowNow
    <3>2. DOMAIN req.inputs = 1..at - 1
      BY <1>2, <3>1, CallAssumption
    <3>3. DOMAIN rows = 1..at - 1  BY <3>1
    <3>4. rows' = [p \in 1..at - 1 |-> Seen(p)]
      <4>1. CASE req.form = "texts"
        BY <2>1, <2>2, <3>1, <3>3, <4>1 DEF Seen
      <4>2. CASE req.form # "texts"
        BY <2>1, <3>1, <3>3, <4>2 DEF Seen
      <4> QED  BY <4>1, <4>2
    <3>5. at - 1 \in Nat /\ rows' \in [1..at - 1 -> Seq(Pieces)]
      BY <1>2, <3>2, <3>4, SeenRow
    <3>6. rows' \in Seq(Seq(Pieces)) /\ Len(rows') = at - 1
      BY <3>5, SeqDef, LenProperties
    <3>7. \A p \in 1..at - 1 : rows'[p] = RowNow(p)'
      BY <1>1, <2>2, <3>4, SameRequest DEF RowNow
    <3>8. at' = at /\ at - 1 = Len(req.inputs) /\ at <= Len(req.inputs) + 1
      BY <1>2, <2>1, <3>1
    <3> QED  BY <1>1, <3>1, <3>6, <3>7, <3>8 DEF RowsKept
  <2>5. TasksKept'
    BY <1>1, <2>1, <2>2, SameRequest DEF AskedInv, TasksKept
  <2>6. Validated'  BY <1>1, <2>2, SameRequest DEF AskedInv, Validated
  <2>7. Encoded'
    <3>1. ~Here("embed")  BY <1>1 DEF Here
    <3>2. ~EmbedsNow'  BY <1>1, <2>1 DEF EmbedsNow
    <3> QED  BY <1>1, <2>1, <3>1, <3>2, NoneYet DEF AskedInv, Encoded, NotYet
  <2> QED  BY <2>3, <2>4, <2>5, <2>6, <2>7 DEF AskedInv
<1> QED  BY <1>3, <1>4

(* At the embed stage every row has been parsed, cut and given its task.    *)
LEMMA AtEmbed ==
  ASSUME AskedInv, Here("embed")
  PROVE  /\ req.route \in Embeds
         /\ req.route = "jina" => Want(1).type # "several"
         /\ DOMAIN rows = DOMAIN req.inputs /\ DOMAIN rows \in SUBSET Int
         /\ IsFiniteSet(DOMAIN rows)
         /\ \A p \in DOMAIN rows : /\ rows[p] \in Seq(Pieces)
                                   /\ rows[p] = Seen(p) /\ tasks[p] = TaskOf(p)
<1>1. req \in Calls /\ step \in Nat \ {0} /\ at \in Nat \ {0}  BY DEF AskedInv, Shape
<1>2. /\ req.route \in Embeds /\ Past("parse")
      /\ req.route # "batch" => Past("task")
      /\ req.route = "cohere" => Past("trim")
      /\ req.route = "jina" => Past("validate")
  BY <1>1, ProgramOrder
<1>3. /\ rows \in Seq(Seq(Pieces)) /\ Len(rows) = at - 1
      /\ at = Len(req.inputs) + 1
      /\ \A p \in 1..at - 1 : rows[p] = RowNow(p)
  BY <1>2 DEF AskedInv, RowsKept
<1>4. DOMAIN rows = 1..at - 1 /\ DOMAIN req.inputs = 1..at - 1
  BY <1>1, <1>3, CallAssumption
<1>5. IsFiniteSet(DOMAIN rows) /\ DOMAIN rows \in SUBSET Int
  <2>1. 1 \in Int /\ at - 1 \in Int  BY <1>1
  <2>2. IsFiniteSet(1..at - 1)  BY <2>1, FS_Interval
  <2> QED  BY <1>4, <2>2
<1>6. \A p \in DOMAIN rows : rows[p] \in Seq(Pieces)  BY <1>3
<1>7. \A p \in DOMAIN rows : rows[p] = Seen(p)
  BY <1>2, <1>3, <1>4 DEF RowNow, Seen
<1>8. \A p \in DOMAIN rows : tasks[p] = TaskOf(p)
  BY <1>2, <1>4 DEF AskedInv, TasksKept
<1>9. req.route = "jina" => Want(1).type # "several"
  BY <1>2 DEF AskedInv, Validated
<1> QED  BY <1>2, <1>4, <1>5, <1>6, <1>7, <1>8, <1>9

(* A call of the engine takes rows that want the same of it, and there is   *)
(* one as long as a row has no encoding.                                    *)
LEMMA GroupIs ==
  ASSUME AskedInv, Here("embed")
  PROVE  /\ Group = <<>> => \A p \in DOMAIN ordered : ordered[p] # NotYet
         /\ Group # <<>> =>
              \E n \in Nat \ {0} :
                /\ Group \in [1..n -> DOMAIN rows]
                /\ \A i \in 1..n : KeyOf(Group[i]) = KeyOf(Group[1])
<1> DEFINE left == {p \in DOMAIN rows : ordered[p] = NotYet}
           G    == {p \in left : KeyOf(p) = KeyOf(FirstOf(left))}
<1>1. /\ DOMAIN rows = DOMAIN req.inputs /\ DOMAIN rows \in SUBSET Int
      /\ IsFiniteSet(DOMAIN rows) /\ DOMAIN ordered = DOMAIN req.inputs
  BY AtEmbed DEF AskedInv, Encoded
<1>2. CASE left = {}
  BY <1>1, <1>2 DEF Group
<1>3. CASE left # {}
  <2>1. Group = Ascending(G)  BY <1>3 DEF Group
  <2>2. DOMAIN rows \in SUBSET Nat
    BY DEF AskedInv, RowsKept
  <2>3. FirstOf(left) \in left
    <3>1. left \in SUBSET Nat  BY <2>2
    <3> HIDE DEF left
    <3> QED  BY <1>3, <3>1, Least
  <2>4. FirstOf(left) \in G  BY <2>3
  <2>5. G \in SUBSET Int /\ IsFiniteSet(G) /\ G \subseteq DOMAIN rows
    BY <1>1, FS_Subset
  <2>6. \A p, q \in G : KeyOf(p) = KeyOf(q)  OBVIOUS
  <2> HIDE DEF left, G
  <2>7. /\ Cardinality(G) \in Nat /\ Group \in [1..Cardinality(G) -> G]
        /\ \E k \in 1..Cardinality(G) : Group[k] = FirstOf(left)
    BY <2>1, <2>4, <2>5, AscendingFacts
  <2>8. Cardinality(G) \in Nat \ {0}  BY <2>7
  <2>9. /\ Group \in [1..Cardinality(G) -> DOMAIN rows]
        /\ \A i \in 1..Cardinality(G) : KeyOf(Group[i]) = KeyOf(Group[1])
    <3>1. 1 \in 1..Cardinality(G)  BY <2>8
    <3> QED  BY <2>5, <2>6, <2>7, <3>1
  <2>10. Group # <<>>
    <3>1. 1 \in DOMAIN Group  BY <2>7, <2>8
    <3> QED  BY <3>1
  <2> QED  BY <2>8, <2>9, <2>10
<1> QED  BY <1>2, <1>3

(* The verdict on some checks is the status of one of them, or 200 when     *)
(* none of them has anything to refuse.                                     *)
LEMMA VerdictIs ==
  ASSUME NEW checks, DOMAIN checks \in SUBSET Nat,
         NEW S \in SUBSET (Nat \ {200}), \A i \in DOMAIN checks : checks[i][2] \in S
  PROVE  /\ Verdict(checks) \in S \cup {200}
         /\ Verdict(checks) = 200 => \A i \in DOMAIN checks : ~checks[i][1]
<1> DEFINE failed == {i \in DOMAIN checks : checks[i][1]}
<1>1. Verdict(checks) = IF failed = {} THEN 200 ELSE checks[FirstOf(failed)][2]
  BY DEF Verdict
<1>2. failed \in SUBSET Nat  OBVIOUS
<1>3. failed \subseteq DOMAIN checks  OBVIOUS
<1>4. failed = {} => \A i \in DOMAIN checks : ~checks[i][1]  OBVIOUS
<1> HIDE DEF failed
<1>5. CASE failed = {}  BY <1>1, <1>4, <1>5
<1>6. CASE failed # {}
  <2>1. FirstOf(failed) \in failed  BY <1>2, <1>6, Least
  <2>2. checks[FirstOf(failed)][2] \in S  BY <1>3, <2>1
  <2>3. Verdict(checks) = checks[FirstOf(failed)][2]  BY <1>1, <1>6
  <2>4. Verdict(checks) \in S /\ 200 \notin S  BY <2>2, <2>3
  <2> QED  BY <2>4
<1> QED  BY <1>5, <1>6

(* A call the engine accepts is one an embedding model can answer, for a    *)
(* task it has, no wider than it, and with no text too long when none may   *)
(* be cut.                                                                  *)
LEMMA EmbedChecksAre ==
  ASSUME NEW p, NEW task, NEW texts
  PROVE  /\ EmbedChecks(p, task, texts) \in {200, 400, 422}
         /\ EmbedChecks(p, task, texts) = 200 =>
              /\ image.verb = "embed" /\ CheckTask(image, task)
              /\ ~(image.dim # 0 /\ Want(p).dims > image.dim)
              /\ ~(~Truncates(p) /\ OverLength(texts))
<1> DEFINE A == image.verb # "embed"
           B == ~CheckTask(image, task)
           C == image.dim # 0 /\ Want(p).dims > image.dim
           D == ~ Want(p).kwargs \subseteq image.takes
           E == ~Truncates(p) /\ OverLength(texts)
           checks == << <<A, 400>>, <<B, 400>>, <<C, 422>>, <<D, 400>>, <<E, 400>> >>
<1>1. EmbedChecks(p, task, texts) = Verdict(checks)  BY DEF EmbedChecks
<1>2. /\ (A <=> checks[1][1]) /\ (B <=> checks[2][1])
      /\ (C <=> checks[3][1]) /\ (E <=> checks[5][1])
  OBVIOUS
<1>3. DOMAIN checks = 1..5 /\ \A i \in 1..5 : checks[i][2] \in {400, 422}
  <2> HIDE DEF A, B, C, D, E
  <2> QED  OBVIOUS
<1>4. {400, 422} \in SUBSET (Nat \ {200})  OBVIOUS
<1>5. /\ Verdict(checks) \in {400, 422} \cup {200}
      /\ Verdict(checks) = 200 => \A i \in 1..5 : ~checks[i][1]
  <2> DEFINE S == {400, 422}
  <2>1. DOMAIN checks \in SUBSET Nat  BY <1>3
  <2>2. S \in SUBSET (Nat \ {200}) /\ \A i \in DOMAIN checks : checks[i][2] \in S
    BY <1>3, <1>4
  <2> HIDE DEF checks, S
  <2>3. /\ Verdict(checks) \in S \cup {200}
        /\ Verdict(checks) = 200 => \A i \in DOMAIN checks : ~checks[i][1]
    BY <2>1, <2>2, VerdictIs
  <2>4. S \cup {200} = {400, 422} \cup {200}  BY DEF S
  <2> QED  BY <1>3, <2>3, <2>4
<1>6. Verdict(checks) = 200 => ~A /\ ~B /\ ~C /\ ~E
  <2>1. 1 \in 1..5 /\ 2 \in 1..5 /\ 3 \in 1..5 /\ 5 \in 1..5  OBVIOUS
  <2> HIDE DEF A, B, C, D, E, checks
  <2> QED  BY <1>2, <1>5, <2>1
<1> QED  BY <1>1, <1>5, <1>6

LEMMA EmbedVerdictIs ==
  ASSUME NEW group
  PROVE  /\ EmbedVerdict(group) \in {200, 400, 422}
         /\ EmbedVerdict(group) = 200 =>
              /\ image.verb = "embed" /\ CheckTask(image, tasks[group[1]])
              /\ ~(image.dim # 0 /\ Want(group[1]).dims > image.dim)
              /\ ~(~Truncates(group[1]) /\ OverLength(TextsUpTo(group, Len(group))))
BY EmbedChecksAre DEF EmbedVerdict

(* The texts of a row are those of its pieces, and fusing it drops none.    *)
LEMMA RowTexts ==
  ASSUME NEW row \in Seq(Pieces)
  PROVE  /\ TextsOf(row) \in Seq(Pieces)
         /\ Members(TextsOf(row)) = {x \in Members(row) : IsText(x)}
         /\ Fused(row) \in Seq(Pieces)
         /\ Members(Fused(row)) = Members(row)
<1> DEFINE S == {x \in Members(row) : IsText(x)}
           O == {x \in Members(row) : ~IsText(x)}
<1>1. Members(row) \cap S = S /\ Members(row) \cap O = O /\ S \cup O = Members(row)
  OBVIOUS
<1>2. TextsOf(row) = Kept(row, S) /\ Fused(row) = Kept(row, O) \o Kept(row, S)
  BY DEF TextsOf, Fused
<1> HIDE DEF S, O
<1>3. /\ Kept(row, S) \in Seq(Pieces \cap S) /\ Members(Kept(row, S)) = S
      /\ Kept(row, O) \in Seq(Pieces \cap O) /\ Members(Kept(row, O)) = O
  BY <1>1, KeptFacts
<1>4. Seq(Pieces \cap S) \subseteq Seq(Pieces) /\ Seq(Pieces \cap O) \subseteq Seq(Pieces)
  OBVIOUS
<1> DEFINE a == Kept(row, O)
           b == Kept(row, S)
<1>5. a \in Seq(Pieces) /\ b \in Seq(Pieces)  BY <1>3, <1>4
<1> HIDE DEF a, b
<1>6. a \o b \in Seq(Pieces) /\ Members(a \o b) = Members(a) \cup Members(b)
  <2>1. PICK m \in Nat, n \in Nat : m = Len(a) /\ n = Len(b)
    BY <1>5, LenProperties
  <2>2. /\ a \o b \in Seq(Pieces) /\ Len(a \o b) = m + n
        /\ \A i \in 1..m + n : (a \o b)[i] = IF i <= m THEN a[i] ELSE b[i - m]
    BY <1>5, <2>1, ConcatProperties
  <2>3. DOMAIN a = 1..m /\ DOMAIN b = 1..n /\ DOMAIN (a \o b) = 1..m + n
    BY <1>5, <2>1, <2>2, LenProperties
  <2> DEFINE c == a \o b
  <2> HIDE DEF c
  <2>4. \A i \in 1..m : i \in 1..m + n /\ c[i] = a[i]
    <3>1. \A i \in 1..m : i \in 1..m + n /\ i <= m  OBVIOUS
    <3> QED  BY <2>2, <3>1 DEF c
  <2>5. \A i \in 1..n : m + i \in 1..m + n /\ c[m + i] = b[i]
    <3>1. \A i \in 1..n : m + i \in 1..m + n /\ ~(m + i <= m) /\ (m + i) - m = i
      OBVIOUS
    <3> QED  BY <2>2, <3>1 DEF c
  <2>6. \A i \in 1..m + n : i \in 1..m \/ (i - m \in 1..n /\ m + (i - m) = i)
    OBVIOUS
  <2>7. \A x : x \in Members(c) <=> x \in Members(a) \/ x \in Members(b)
    <3>1. Members(c) = {c[i] : i \in 1..m + n}  BY <2>3 DEF Members, c
    <3>2. Members(a) = {a[i] : i \in 1..m} /\ Members(b) = {b[i] : i \in 1..n}
      BY <2>3 DEF Members
    <3>3. ASSUME NEW i \in 1..m + n PROVE c[i] \in Members(a) \/ c[i] \in Members(b)
      BY <2>4, <2>5, <2>6, <3>2
    <3> QED  BY <2>4, <2>5, <3>1, <3>2, <3>3
  <2> QED  BY <2>2, <2>7 DEF c
<1>7. Members(a) = O /\ Members(b) = S  BY <1>3 DEF a, b
<1>8. /\ TextsOf(row) = b /\ Fused(row) = a \o b  BY <1>2 DEF a, b
<1> QED  BY <1>1, <1>5, <1>6, <1>7, <1>8 DEF S

(* The texts of the i-th row of a call begin, in the one list of them all,  *)
(* after those of the rows before it.                                       *)
LEMMA TextsIn ==
  ASSUME AskedInv, Here("embed"), NEW n \in Nat, NEW group \in [1..n -> DOMAIN rows],
         NEW i \in 1..n, NEW k \in 1..Len(TextsOf(rows[group[i]]))
  PROVE  /\ Len(TextsUpTo(group, i - 1)) + k \in DOMAIN TextsUpTo(group, n)
         /\ TextsUpTo(group, n)[Len(TextsUpTo(group, i - 1)) + k]
              = TextsOf(rows[group[i]])[k]
<1> DEFINE lists == [j \in 1..n |-> TextsOf(rows[group[j]])]
<1>1. lists \in [1..n -> Seq(Pieces)]  BY AtEmbed, RowTexts
<1>2. \A m \in 0..n : TextsUpTo(group, m) = Flat(lists, m)
  <2> TAKE m \in 0..n
  <2>1. \A j \in 1..m : j \in 1..n  OBVIOUS
  <2>2. [j \in 1..m |-> lists[j]] = [j \in 1..m |-> TextsOf(rows[group[j]])]
    BY <2>1
  <2> QED  BY <2>2 DEF TextsUpTo, Flat
<1>3. i - 1 \in 0..n /\ n \in 0..n  OBVIOUS
<1>4. lists[i] = TextsOf(rows[group[i]])  OBVIOUS
<1> HIDE DEF lists
<1>5. /\ Len(Flat(lists, i - 1)) + k \in 1..Len(Flat(lists, n))
      /\ Flat(lists, n)[Len(Flat(lists, i - 1)) + k] = lists[i][k]
  <2>1. lists \in Lists(Pieces, n) /\ k \in 1..Len(lists[i])
    BY <1>1, <1>4 DEF Lists
  <2> QED  BY <2>1, FlatPlace
<1>6. DOMAIN Flat(lists, n) = 1..Len(Flat(lists, n))
  <2>1. Flat(lists, n) \in Seq(Pieces)  BY <1>1, <1>3, FlatGrows
  <2> QED  BY <2>1
<1> QED  BY <1>2, <1>3, <1>4, <1>5, <1>6

(* The first of a list that is wanted is wanted and in the list; there is   *)
(* none exactly when nothing in the list is.                                *)
LEMMA FirstInIs ==
  ASSUME NEW s, DOMAIN s \in SUBSET Nat, NEW S, NEW otherwise
  PROVE  \/ /\ \A i \in DOMAIN s : s[i] \notin S
            /\ FirstIn(s, S, otherwise) = otherwise
         \/ \E i \in DOMAIN s : /\ s[i] \in S /\ FirstIn(s, S, otherwise) = s[i]
                                /\ \A j \in DOMAIN s : s[j] \in S => i <= j
<1> DEFINE hits == {i \in DOMAIN s : s[i] \in S}
<1>1. FirstIn(s, S, otherwise) = IF hits = {} THEN otherwise ELSE s[FirstOf(hits)]
  BY DEF FirstIn
<1>2. hits \in SUBSET Nat  OBVIOUS
<1>3. CASE hits = {}  BY <1>1, <1>3
<1>4. CASE hits # {}
  <2>1. FirstOf(hits) \in hits /\ \A y \in hits : FirstOf(hits) <= y
    <3> HIDE DEF hits
    <3> QED  BY <1>2, <1>4, Least
  <2>2. \A j \in DOMAIN s : s[j] \in S => FirstOf(hits) <= j  BY <2>1
  <2>3. FirstOf(hits) \in DOMAIN s /\ s[FirstOf(hits)] \in S  BY <2>1
  <2>4. FirstIn(s, S, otherwise) = s[FirstOf(hits)]  BY <1>1, <1>4
  <2> HIDE DEF hits
  <2> QED  BY <2>2, <2>3, <2>4
<1> QED  BY <1>3, <1>4

(* What is asked for as a query or a passage is prompted as one, or not at  *)
(* all when the model has no key for it; anything else by a common key.     *)
LEMMA PromptIs ==
  ASSUME NEW task, task # None, NEW prompts
  PROVE  LET keys == CASE Role(task) = "query" ->
                            {task, <<Base(task), "_query">>, Bare("query")}
                       [] Role(task) = "passage" ->
                            {task, <<Base(task), "_document">>,
                             Bare("document"), Bare("passage")}
                       [] OTHER -> {task, Bare("document"), Bare("query")}
         IN  IF keys \cap prompts = {}
             THEN MapPromptName(task, prompts) = None
             ELSE MapPromptName(task, prompts) \in keys \cap prompts
<1> DEFINE keys == CASE Role(task) = "query" ->
                          << task, <<Base(task), "_query">>, Bare("query") >>
                     [] Role(task) = "passage" ->
                          << task, <<Base(task), "_document">>,
                             Bare("document"), Bare("passage") >>
                     [] OTHER -> << task, Bare("document"), Bare("query") >>
<1>1. MapPromptName(task, prompts) = FirstIn(keys, prompts, None)
  BY DEF MapPromptName
<1>2. ASSUME DOMAIN keys \in SUBSET Nat
      PROVE  IF {keys[i] : i \in DOMAIN keys} \cap prompts = {}
             THEN MapPromptName(task, prompts) = None
             ELSE MapPromptName(task, prompts)
                    \in {keys[i] : i \in DOMAIN keys} \cap prompts
  <2> HIDE DEF keys
  <2> QED  BY <1>1, <1>2, FirstInIs
<1>3. ASSUME NEW a, NEW b
      PROVE  /\ DOMAIN <<task, a, b>> \in SUBSET Nat
             /\ {<<task, a, b>>[i] : i \in DOMAIN <<task, a, b>>} = {task, a, b}
  <2>1. DOMAIN <<task, a, b>> = 1..3  OBVIOUS
  <2>2. \A i \in 1..3 : i = 1 \/ i = 2 \/ i = 3  OBVIOUS
  <2> QED  BY <2>1, <2>2
<1>4. ASSUME NEW a, NEW b, NEW c
      PROVE  /\ DOMAIN <<task, a, b, c>> \in SUBSET Nat
             /\ {<<task, a, b, c>>[i] : i \in DOMAIN <<task, a, b, c>>}
                  = {task, a, b, c}
  <2>1. DOMAIN <<task, a, b, c>> = 1..4  OBVIOUS
  <2>2. \A i \in 1..4 : i = 1 \/ i = 2 \/ i = 3 \/ i = 4  OBVIOUS
  <2> QED  BY <2>1, <2>2
<1>5. CASE Role(task) = "query"
  <2>1. keys = << task, <<Base(task), "_query">>, Bare("query") >>  BY <1>5
  <2> HIDE DEF keys
  <2> QED  BY <1>2, <1>3, <1>5, <2>1
<1>6. CASE Role(task) = "passage"
  <2>1. keys = << task, <<Base(task), "_document">>, Bare("document"),
                 Bare("passage") >>
    BY <1>6
  <2> HIDE DEF keys
  <2> QED  BY <1>2, <1>4, <1>6, <2>1
<1>7. CASE Role(task) \notin {"query", "passage"}
  <2>1. keys = << task, Bare("document"), Bare("query") >>  BY <1>7
  <2> HIDE DEF keys
  <2> QED  BY <1>2, <1>3, <1>7, <2>1
<1> QED  BY <1>5, <1>6, <1>7

(* A task is prompted by a key the image has, so its prompt has a length.   *)
LEMMA PromptTaken ==
  ASSUME AskedInv, NEW asked
  PROVE  /\ Prefix(ResolveTask(image, asked).prompt) \in Nat
         /\ Prefix(None) \in Nat
<1> DEFINE task == IF asked = None THEN DefaultTask(image) ELSE asked
           key  == ResolveTask(image, asked).prompt
<1>1. key = None \/ key = MapPromptName(task, image.prompts)
  BY DEF ResolveTask
<1>2. task = None => MapPromptName(task, image.prompts) = None
  BY DEF MapPromptName
<1>3. task # None =>
        \/ MapPromptName(task, image.prompts) = None
        \/ MapPromptName(task, image.prompts) \in image.prompts
  BY PromptIs
<1>4. key = None \/ key \in image.prompts  BY <1>1, <1>2, <1>3
<1>5. \A k \in image.prompts : PromptTokens(k) \in Nat
  BY ImageAssumption DEF AskedInv, Shape
<1> HIDE DEF key
<1>6. Prefix(key) \in Nat  BY <1>4, <1>5 DEF Prefix
<1> QED  BY <1>6 DEF Prefix, key

(* The model reads what a piece is, and of a whole one that fits all but    *)
(* what its prompt takes.                                                   *)
LEMMA ReadPiece ==
  ASSUME AskedInv, NEW x \in Pieces, NEW prompt, Prefix(prompt) \in Nat
  PROVE  /\ Read(x, prompt).as = x.as /\ Read(x, prompt).n = x.n
         /\ /\ x.from = 1 /\ x.to = x.n
            /\ IsText(x) /\ image.context # 0 =>
                 x.to - x.from + 1 + Specials <= image.context
            => x.n - Read(x, prompt).to <= Prefix(prompt)
<1> DEFINE room == Room(prompt)
<1>1. image.context \in Nat /\ Specials \in Nat /\ Prefix(prompt) \in Nat
  BY ImageAssumption DEF AskedInv, Shape
<1>2. \/ Read(x, prompt) = x
      \/ /\ IsText(x) /\ image.context # 0
         /\ Read(x, prompt) = [x EXCEPT !.to = x.from + room - 1]
  BY DEF Read
<1>3. Read(x, prompt).as = x.as /\ Read(x, prompt).n = x.n
  BY <1>2 DEF Pieces
<1>4. /\ room \in Nat
      /\ image.context - Specials - Prefix(prompt) <= room
  BY <1>1 DEF Room
<1> HIDE DEF room
<1>5. ASSUME x.from = 1, x.to = x.n,
             IsText(x) /\ image.context # 0 =>
               x.to - x.from + 1 + Specials <= image.context
      PROVE  x.n - Read(x, prompt).to <= Prefix(prompt)
  <2>1. PICK n \in Nat : n = x.n  BY DEF Pieces
  <2>2. CASE Read(x, prompt) = x  BY <1>1, <1>5, <2>1, <2>2
  <2>3. CASE /\ IsText(x) /\ image.context # 0
             /\ Read(x, prompt) = [x EXCEPT !.to = x.from + room - 1]
    <3>1. Read(x, prompt).to = 1 + room - 1  BY <1>5, <2>3 DEF Pieces
    <3>2. n + Specials <= image.context  BY <1>1, <1>5, <2>1, <2>3
    <3> QED  BY <1>1, <1>4, <2>1, <3>1, <3>2
  <2> QED  BY <1>2, <2>2, <2>3
<1> QED  BY <1>3, <1>5

(* Two rows of a call want the same of it.                                  *)
LEMMA SameKey ==
  ASSUME NEW p, NEW q, KeyOf(p) = KeyOf(q)
  PROVE  tasks[p] = tasks[q] /\ Want(p).dims = Want(q).dims
         /\ (Truncates(p) <=> Truncates(q))
<1> DEFINE a == <<tasks[p], Want(p).dims, Truncates(p)>>
           b == <<tasks[q], Want(q).dims, Truncates(q)>>
<1>1. a = b  BY DEF KeyOf
<1>2. /\ a[1] = tasks[p] /\ a[2] = Want(p).dims /\ a[3] = Truncates(p)
      /\ b[1] = tasks[q] /\ b[2] = Want(q).dims /\ b[3] = Truncates(q)
  OBVIOUS
<1>3. Truncates(p) = Truncates(q)
  <2> HIDE DEF a, b
  <2> QED  BY <1>1, <1>2
<1> HIDE DEF a, b
<1> QED  BY <1>1, <1>2, <1>3

(* How the numbers of a row are written down.                               *)
LEMMA FormIs ==
  ASSUME AskedInv, Here("embed"), NEW p \in DOMAIN req.inputs
  PROVE  /\ req.route = "jina" /\ Want(p).dtype # "none" => Form(p).numbers = Want(p).dtype
         /\ Form(p).wire # "list" <=> req.route \notin Gemini /\ Want(p).type = "base64"
<1>1. /\ req.route \in Embeds
      /\ req.route = "jina" => Want(1).type # "several"
  BY AtEmbed
<1>2. WantsAre(Want(p))  BY WantIsWritten DEF AskedInv, Shape
<1>3. req.route # "batch" => Want(p) = Want(1)  BY DEF Want
<1>4. \A d \in Dtypes : Buffer(d) # "list"  BY DEF Dtypes, Buffer
<1>5. CASE req.route = "jina"
  <2>1. Want(p).type \in {"float", "base64", "binary", "ubinary"}
    BY <1>1, <1>2, <1>3, <1>5 DEF WantsAre, Types
  <2> DEFINE t == Want(p).type
  <2>2. NativeTypes[t][1] \in Dtypes /\ (NativeTypes[t][2] <=> t = "base64")
    <3> HIDE DEF t
    <3>1. CASE t = "float"   BY <3>1 DEF NativeTypes, Dtypes
    <3>2. CASE t = "base64"  BY <3>2 DEF NativeTypes, Dtypes
    <3>3. CASE t = "binary"  BY <3>3 DEF NativeTypes, Dtypes
    <3>4. CASE t = "ubinary" BY <3>4 DEF NativeTypes, Dtypes
    <3>5. t \in {"float", "base64", "binary", "ubinary"}  BY <2>1 DEF t
    <3> QED  BY <3>1, <3>2, <3>3, <3>4, <3>5
  <2>3. Want(p).dtype \in Dtypes \cup {"none"}  BY <1>2 DEF WantsAre
  <2> DEFINE d == IF Want(p).dtype # "none" THEN Want(p).dtype ELSE NativeTypes[t][1]
  <2>4. /\ Form(p).numbers = d
        /\ Form(p).wire = IF NativeTypes[t][2] THEN Buffer(d) ELSE "list"
    BY <1>5 DEF Form, EncodeVector, Gemini
  <2>5. Buffer(d) # "list" /\ (Want(p).dtype # "none" => d = Want(p).dtype)
    BY <1>4, <2>2, <2>3
  <2> HIDE DEF d, t
  <2>6. Form(p).wire # "list" <=> t = "base64"  BY <2>2, <2>4, <2>5
  <2> QED  BY <1>5, <2>4, <2>5, <2>6 DEF Gemini, t
<1>6. CASE req.route = "cohere"
  <2>1. Want(p).type \in Dtypes \cup {"base64"}
    BY <1>2, <1>6 DEF WantsAre, Types
  <2>2. "float" \in Dtypes /\ "base64" \notin Dtypes  BY DEF Dtypes
  <2> QED  BY <1>4, <1>6, <2>1, <2>2 DEF Form, EncodeVector, Gemini
<1>7. CASE req.route = "voyage"
  <2>1. "float" \in Dtypes  BY DEF Dtypes
  <2> QED  BY <1>4, <1>7, <2>1 DEF Form, EncodeVector, Gemini
<1>8. CASE req.route \in Gemini
  BY <1>8 DEF Form, EncodeVector, Gemini
<1> QED  BY <1>1, <1>5, <1>6, <1>7, <1>8 DEF Embeds

(* What the forward of a call makes of its i-th row.                        *)
LEMMA VectorAsAsked ==
  ASSUME AskedInv, Here("embed"), NEW n \in Nat \ {0},
         NEW group \in [1..n -> DOMAIN rows],
         \A i \in 1..n : KeyOf(group[i]) = KeyOf(group[1]),
         EmbedVerdict(group) = 200, NEW i \in 1..n
  PROVE  /\ AsAsked(Vector(group, i), group[i])
         /\ tok /\ ~Truncates(group[i]) => ReadWhole(Vector(group, i))
<1> DEFINE p    == group[i]
           row  == rows[p]
           v    == Vector(group, i)
           back == Fused(row)
<1>1. p \in DOMAIN rows /\ group[1] \in DOMAIN rows  OBVIOUS
<1>2. /\ p \in DOMAIN req.inputs /\ row \in Seq(Pieces)
      /\ row = Seen(p) /\ tasks[p] = TaskOf(p) /\ req.route \in Embeds
  BY <1>1, AtEmbed
<1>3. /\ tasks[p] = tasks[group[1]] /\ Want(p).dims = Want(group[1]).dims
      /\ Truncates(p) <=> Truncates(group[1])
  <2>1. KeyOf(p) = KeyOf(group[1])  OBVIOUS
  <2> QED  BY <2>1, SameKey
<1>4. Len(group) = n  OBVIOUS
<1>5. /\ image.verb = "embed"
      /\ ~(image.dim # 0 /\ Want(group[1]).dims > image.dim)
      /\ ~(~Truncates(group[1]) /\ OverLength(TextsUpTo(group, n)))
  BY <1>4, EmbedVerdictIs
<1>6. /\ TextsOf(row) \in Seq(Pieces)
      /\ Members(TextsOf(row)) = {x \in Members(row) : IsText(x)}
      /\ back \in Seq(Pieces) /\ Members(back) = Members(row)
  BY <1>2, RowTexts
<1>7. /\ v.of = p
      /\ v.pieces = [k \in DOMAIN back |-> Read(back[k], v.prompt)]
      /\ v.prompt \in {None, ResolveTask(image, tasks[group[1]]).prompt}
      /\ v.adapter = Adapter(image, ResolveTask(image, tasks[group[1]]).adapter)
      /\ v.width = Width(Want(group[1]).dims)
      /\ v.weight = Weight(group, i)
      /\ v.form = Form(p)
  BY DEF Vector
<1> HIDE DEF v, back
<1>C. Prefix(v.prompt) \in Nat
  <2>1. /\ Prefix(ResolveTask(image, tasks[group[1]]).prompt) \in Nat
        /\ Prefix(None) \in Nat
    BY PromptTaken
  <2>2. \/ v.prompt = None
        \/ v.prompt = ResolveTask(image, tasks[group[1]]).prompt
    BY <1>7
  <2>3. CASE v.prompt = None  BY <2>1, <2>3
  <2>4. CASE v.prompt = ResolveTask(image, tasks[group[1]]).prompt  BY <2>1, <2>4
  <2> QED  BY <2>2, <2>3, <2>4
<1>A. \A k \in DOMAIN back : back[k] \in Pieces /\ back[k] \in Members(row)
  <2> TAKE k \in DOMAIN back
  <2>1. back[k] \in Members(back)  BY DEF Members
  <2>2. back \in Seq(Pieces) /\ Members(back) = Members(row)  BY <1>6
  <2>3. back[k] \in Pieces
    <3>1. k \in 1..Len(back)  BY <2>2
    <3> QED  BY <2>2, <3>1
  <2> QED  BY <2>1, <2>2, <2>3
<1>8. {<<x.as, x.n>> : x \in Members(v.pieces)} = {<<x.as, x.n>> : x \in Members(Row(p))}
  <2>1. \A k \in DOMAIN back : /\ back[k] \in Members(row)
                              /\ v.pieces[k].as = back[k].as /\ v.pieces[k].n = back[k].n
    <3> TAKE k \in DOMAIN back
    <3> QED  BY <1>7, <1>A, <1>C, ReadPiece
  <2>2. DOMAIN v.pieces = DOMAIN back  BY <1>7
  <2>3. Members(v.pieces) = {v.pieces[k] : k \in DOMAIN back}  BY <2>2 DEF Members
  <2>4. Members(row) = {back[k] : k \in DOMAIN back}  BY <1>6 DEF Members
  <2>5. {<<x.as, x.n>> : x \in Members(v.pieces)} = {<<x.as, x.n>> : x \in Members(row)}
    <3>1. {<<x.as, x.n>> : x \in Members(v.pieces)}
             = {<<v.pieces[k].as, v.pieces[k].n>> : k \in DOMAIN back}
      BY <2>3
    <3>2. {<<x.as, x.n>> : x \in Members(row)}
             = {<<back[k].as, back[k].n>> : k \in DOMAIN back}
      BY <2>4
    <3>3. \A k \in DOMAIN back :
             <<v.pieces[k].as, v.pieces[k].n>> = <<back[k].as, back[k].n>>
      BY <2>1
    <3> HIDE DEF row, p
    <3> QED  BY <3>1, <3>2, <3>3
  <2> QED  BY <1>2, <2>5, SeenRow
<1>9. v.adapter = Adapter(image, ResolveTask(image, TaskOf(p)).adapter)
  BY <1>2, <1>3, <1>7
<1>10. Want(p).dims >= 0 =>
         v.width = IF Want(p).dims = 0 THEN image.dim ELSE Want(p).dims
  <2>1. Want(p).dims \in Int
    BY <1>2, WantIsWritten DEF AskedInv, Shape, WantsAre
  <2>2. image.dim \in Nat \ {0}
    BY <1>5, ImageAssumption DEF AskedInv, Shape
  <2>3. PICK d \in Int, w \in Nat \ {0} : d = Want(p).dims /\ w = image.dim
    BY <2>1, <2>2
  <2>4. v.width = Width(d) /\ ~(d > w)  BY <1>3, <1>5, <1>7, <2>3
  <2>5. d = 0 => Width(d) = w  BY <2>3 DEF Width
  <2>6. d > 0 => Width(d) = d
    <3> SUFFICES ASSUME d > 0 PROVE Width(d) = d  OBVIOUS
    <3>1. ~(d = 0 \/ d > w) /\ d \in 1..w /\ ~(d < 0)  BY <2>4
    <3> QED  BY <2>3, <3>1 DEF Width
  <2> QED  BY <2>3, <2>4, <2>5, <2>6
<1>11. v.weight = OwnWeight(p)
  <2>1. IsString(row) => TextsUpTo(group, n)[Len(TextsUpTo(group, i - 1)) + 1] = row[1]
    <3> SUFFICES ASSUME IsString(row)
                 PROVE  TextsUpTo(group, n)[Len(TextsUpTo(group, i - 1)) + 1] = row[1]
      OBVIOUS
    <3>1. DOMAIN row = {1} /\ IsText(row[1])
      <4>1. Len(row) = 1 /\ 1..1 = {1}  BY DEF IsString
      <4>2. DOMAIN row = 1..Len(row)  BY <1>2
      <4> QED  BY <4>1, <4>2 DEF IsString
    <3> DEFINE texts == TextsOf(row)
    <3> HIDE DEF row, p, texts
    <3>2. Members(texts) = {row[1]}
      <4>1. Members(row) = {row[1]}  BY <3>1 DEF Members
      <4> QED  BY <1>6, <3>1, <4>1 DEF texts
    <3>3. 1 \in 1..Len(texts) /\ texts[1] = row[1]
      <4>1. texts \in Seq(Pieces)  BY <1>6 DEF texts
      <4>2. PICK m \in Nat : m = Len(texts) /\ DOMAIN texts = 1..m
        BY <4>1, LenProperties
      <4>3. m # 0
        <5>0. row[1] \in Members(texts)  BY <3>2
        <5>1. \E k \in DOMAIN texts : texts[k] = row[1]  BY <5>0 DEF Members
        <5> QED  BY <4>2, <5>1
      <4>4. 1 \in 1..m  BY <4>3
      <4>5. texts[1] \in Members(texts)  BY <4>2, <4>4 DEF Members
      <4> QED  BY <3>2, <4>2, <4>4, <4>5
    <3> USE DEF row, p, texts
    <3>4. TextsUpTo(group, n)[Len(TextsUpTo(group, i - 1)) + 1] = TextsOf(row)[1]
      <4>1. n \in Nat /\ 1 \in 1..Len(TextsOf(rows[group[i]]))  BY <3>3
      <4>2. TextsUpTo(group, n)[Len(TextsUpTo(group, i - 1)) + 1]
              = TextsOf(rows[group[i]])[1]
        <5>1. \A k \in 1..Len(TextsOf(rows[group[i]])) :
                TextsUpTo(group, n)[Len(TextsUpTo(group, i - 1)) + k]
                  = TextsOf(rows[group[i]])[k]
          BY <4>1, TextsIn
        <5> QED  BY <4>1, <5>1
      <4> QED  BY <4>2
    <3> QED  BY <3>3, <3>4
  <2> QED  BY <1>4, <1>7, <2>1 DEF Weight, OwnWeight
<1>12. AsAsked(v, p)
  <2>1. /\ req.route = "jina" /\ Want(p).dtype # "none" => v.form.numbers = Want(p).dtype
        /\ v.form.wire # "list" <=> req.route \notin Gemini /\ Want(p).type = "base64"
    BY <1>2, <1>7, FormIs
  <2>2. v.of = p  BY <1>7
  <2> HIDE DEF p
  <2> QED  BY <1>8, <1>9, <1>10, <1>11, <2>1, <2>2 DEF AsAsked
<1>13. tok /\ ~Truncates(p) => ReadWhole(v)
  <2> SUFFICES ASSUME tok, ~Truncates(p), NEW k \in DOMAIN back
               PROVE  /\ Read(back[k], v.prompt).n = back[k].n
                      /\ back[k].n - Read(back[k], v.prompt).to <= Prefix(v.prompt)
    BY <1>7 DEF ReadWhole
  <2>1. back[k] \in Pieces /\ back[k] \in Members(row)  BY <1>A
  <2>2. req.route # "cohere"  BY DEF Truncates
  <2>3. row = Row(p)  BY <1>2, <2>2 DEF Seen
  <2>4. back[k].from = 1 /\ back[k].to = back[k].n
    <3>1. PICK j \in 1..Len(Row(p)) : back[k] = Row(p)[j]
      BY <1>2, <2>1, <2>3 DEF Members
    <3> QED  BY <1>2, <3>1, RowIsWhole DEF AskedInv, Shape
  <2>5. IsText(back[k]) /\ image.context # 0 =>
          back[k].to - back[k].from + 1 + Specials <= image.context
    <3> SUFFICES ASSUME IsText(back[k]), image.context # 0
                 PROVE  back[k].to - back[k].from + 1 + Specials <= image.context
      OBVIOUS
    <3>1. back[k] \in Members(TextsOf(row))  BY <1>6, <2>1
    <3>2. PICK j \in 1..Len(TextsOf(row)) : back[k] = TextsOf(row)[j]
      BY <1>6, <3>1 DEF Members
    <3>3. \E t \in DOMAIN TextsUpTo(group, n) : TextsUpTo(group, n)[t] = back[k]
      BY <3>2, TextsIn
    <3>4. ~(TokenLength(back[k]) > image.context)
      BY <1>3, <1>5, <3>3 DEF OverLength
    <3>5. TokenLength(back[k]) = back[k].to - back[k].from + 1 + Specials
      BY DEF TokenLength
    <3>6. back[k].to \in Int /\ back[k].from \in Int  BY <2>1 DEF Pieces
    <3>7. image.context \in Nat /\ Specials \in Nat
      BY ImageAssumption DEF AskedInv, Shape
    <3> QED  BY <3>4, <3>5, <3>6, <3>7
  <2> QED  BY <1>C, <2>1, <2>4, <2>5, ReadPiece
<1> QED  BY <1>12, <1>13 DEF v

(* A call of the engine gives each of its rows the encoding it asked for    *)
(* and leaves the others theirs.                                            *)
LEMMA CallEmbedded ==
  ASSUME AskedInv, Embed
  PROVE  AskedInv'
<1>1. At("embed") /\ Here("embed") /\ status = 0 /\ Group # <<>>
      /\ UNCHANGED <<image, tok, req, touched>>
  BY DEF Embed, At, Here
<1>2. CASE \E s \in {400, 413, 422, 500, 503} : Refuse(s)
  <2>1. /\ status' \in {400, 413, 422, 500, 503}
        /\ UNCHANGED <<step, at, rows, tasks, ordered>>
    BY <1>2 DEF Refuse
  <2>2. status' \in Statuses /\ status' # 200  BY <2>1 DEF Statuses
  <2> QED  BY <1>1, <2>1, <2>2, StageKeeps
<1>3. CASE /\ EmbedVerdict(Group) = 200
           /\ ordered' =
                [p \in DOMAIN ordered |->
                   IF p \in Members(Group)
                   THEN [i \in DOMAIN Group |-> Vector(Group, i)][PositionIn(Group, p)]
                   ELSE ordered[p]]
           /\ UNCHANGED <<step, at, rows, tasks, ranking, status>>
  <2>1. PICK n \in Nat \ {0} :
          /\ Group \in [1..n -> DOMAIN rows]
          /\ \A i \in 1..n : KeyOf(Group[i]) = KeyOf(Group[1])
    BY <1>1, GroupIs
  <2>2. \A t : Past(t)' <=> Past(t)  BY <1>1, <1>3 DEF Past
  <2>3. Shape'  BY <1>1, <1>3 DEF AskedInv, Shape
  <2>4. RowsKept'
    <3>1. \A p : RowNow(p)' = RowNow(p)  BY <1>1, <2>2, SameRequest DEF RowNow
    <3> QED  BY <1>1, <1>3, <2>2, <3>1 DEF AskedInv, RowsKept
  <2>5. TasksKept'  BY <1>1, <1>3, <2>2, SameRequest DEF AskedInv, TasksKept
  <2>6. Validated'  BY <1>1, <2>2, SameRequest DEF AskedInv, Validated
  <2>7. Encoded'
    <3>1. DOMAIN ordered' = DOMAIN ordered /\ DOMAIN ordered = DOMAIN req.inputs
      BY <1>3 DEF AskedInv, Encoded
    <3>2. ASSUME NEW p \in DOMAIN ordered, ordered'[p] # NotYet
          PROVE  /\ AsAsked(ordered'[p], p)
                 /\ tok /\ ~Truncates(p) => ReadWhole(ordered'[p])
      <4>1. CASE p \in Members(Group)
        <5> DEFINE i == PositionIn(Group, p)
        <5>1. i \in 1..n /\ Group[i] = p
          <6>1. \E j \in DOMAIN Group : Group[j] = p  BY <4>1 DEF Members
          <6>2. DOMAIN Group = 1..n  BY <2>1
          <6> QED  BY <6>1, <6>2 DEF PositionIn
        <5>2. ordered'[p] = Vector(Group, i)
          <6>1. i \in DOMAIN Group  BY <2>1, <5>1
          <6> HIDE DEF i
          <6>2. ordered'[p] = [j \in DOMAIN Group |-> Vector(Group, j)][i]
            BY <1>3, <4>1 DEF i
          <6> QED  BY <6>1, <6>2
        <5> HIDE DEF i
        <5>3. /\ AsAsked(Vector(Group, i), Group[i])
              /\ tok /\ ~Truncates(Group[i]) => ReadWhole(Vector(Group, i))
          BY <1>1, <1>3, <2>1, <5>1, VectorAsAsked
        <5> QED  BY <5>1, <5>2, <5>3
      <4>2. CASE p \notin Members(Group)
        <5>1. ordered'[p] = ordered[p]  BY <1>3, <4>2
        <5> QED  BY <3>2, <5>1 DEF AskedInv, Encoded
      <4> QED  BY <4>1, <4>2
    <3>3. Here("embed")'  BY <1>1, <1>3 DEF Here
    <3>4. ~EmbedsNow'  BY <1>1, <1>3 DEF EmbedsNow
    <3>5. ASSUME NEW p \in DOMAIN ordered, ordered'[p] # NotYet
          PROVE  AsAsked(ordered[p], p)' /\ (tok /\ ~Truncates(p) => ReadWhole(ordered[p]))'
      <4> DEFINE v == ordered'[p]
      <4>1. AsAsked(v, p) /\ (tok /\ ~Truncates(p) => ReadWhole(v))  BY <3>2, <3>5
      <4>2. UNCHANGED <<image, tok, req, rows>>  BY <1>1, <1>3
      <4>3. AsAsked(ordered[p], p)'  BY <4>1, <4>2, SameEncoding
      <4>4. (tok /\ ~Truncates(p) => ReadWhole(ordered[p]))'
        BY <4>1, <4>2, SameRequest DEF ReadWhole
      <4> QED  BY <4>3, <4>4
    <3> QED  BY <1>1, <3>1, <3>3, <3>4, <3>5 DEF Encoded, NotYet
  <2> QED  BY <2>3, <2>4, <2>5, <2>6, <2>7 DEF AskedInv
<1> DEFINE Forwarded ==
             /\ ordered' =
                  [p \in DOMAIN ordered |->
                     IF p \in Members(Group)
                     THEN [i \in DOMAIN Group |-> Vector(Group, i)][PositionIn(Group, p)]
                     ELSE ordered[p]]
             /\ UNCHANGED <<step, at, rows, tasks, ranking, status>>
<1>4. \/ EmbedVerdict(Group) # 200 /\ Refuse(EmbedVerdict(Group))
      \/ EmbedVerdict(Group) = 200 /\ \E s \in ForwardFails : Refuse(s)
      \/ EmbedVerdict(Group) = 200 /\ Forwarded
  BY ZenonT(30) DEF Embed
<1>5. CASE EmbedVerdict(Group) # 200 /\ Refuse(EmbedVerdict(Group))
  <2>1. EmbedVerdict(Group) \in {200, 400, 422}  BY EmbedVerdictIs
  <2> QED  BY <1>2, <1>5, <2>1
<1>6. CASE \E s \in ForwardFails : Refuse(s)
  BY <1>2, <1>6 DEF ForwardFails
<1>7. CASE EmbedVerdict(Group) = 200 /\ Forwarded
  BY <1>3, <1>7
<1> QED  BY <1>4, <1>5, <1>6, <1>7

(* The answer is given when no row is without an encoding.                  *)
LEMMA EmbeddingAnswered ==
  ASSUME AskedInv, EmbedAnswers
  PROVE  AskedInv'
<1>1. Here("embed") /\ Group = <<>>
      /\ UNCHANGED <<image, tok, req, step, at, rows, tasks, ordered, touched>>
  BY DEF EmbedAnswers, At, Here
<1>9. status' \in {200, 400, 413, 422, 500, 503}
  <2>1. EmbedChecks(1, TaskOf(1), <<>>) \in {200, 400, 422}
    BY EmbedChecksAre
  <2> QED  BY <2>1 DEF EmbedAnswers, ForwardFails
<1>2. \A p \in DOMAIN ordered : ordered[p] # NotYet  BY <1>1, GroupIs
<1>3. \A t : Past(t)' <=> Past(t)  BY <1>1 DEF Past
<1>4. Shape'  BY <1>1, <1>9 DEF AskedInv, Shape, Statuses
<1>5. RowsKept'
  <2>1. \A p : RowNow(p)' = RowNow(p)  BY <1>1, <1>3, SameRequest DEF RowNow
  <2> QED  BY <1>1, <1>3, <2>1 DEF AskedInv, RowsKept
<1>6. TasksKept'  BY <1>1, <1>3, SameRequest DEF AskedInv, TasksKept
<1>7. Validated'  BY <1>1, <1>3, SameRequest DEF AskedInv, Validated
<1>8. Encoded'
  <2>1. ASSUME NEW p \in DOMAIN ordered
        PROVE  /\ Here("embed")' /\ AsAsked(ordered[p], p)'
               /\ (tok /\ ~Truncates(p) => ReadWhole(ordered[p]))'
    <3>1. /\ AsAsked(ordered[p], p)
          /\ tok /\ ~Truncates(p) => ReadWhole(ordered[p])
      BY <1>2 DEF AskedInv, Encoded
    <3>2. AsAsked(ordered[p], p)'  BY <1>1, <3>1, SameEncoding
    <3> QED  BY <1>1, <3>1, <3>2, SameRequest DEF Here, ReadWhole
  <2> QED  BY <1>1, <1>2, <2>1 DEF AskedInv, Encoded, NotYet
<1> QED  BY <1>4, <1>5, <1>6, <1>7, <1>8 DEF AskedInv

(* A request that has just come in.                                         *)
LEMMA InitAsked == Init => AskedInv
<1> SUFFICES ASSUME Init PROVE AskedInv  OBVIOUS
<1>1. Shape  BY DEF Init, Shape, Statuses
<1>2. \A t : ~Past(t)  BY DEF Init, Past
<1>3. /\ rows = <<>> /\ tasks = <<>> /\ at = 1 /\ req \in Calls
      /\ Len(req.inputs) \in Nat
  BY CallAssumption DEF Init
<1>4. RowsKept  BY <1>2, <1>3 DEF RowsKept
<1>5. TasksKept  BY <1>2, <1>3 DEF TasksKept
<1>6. Validated  BY <1>2 DEF Validated
<1>7. Encoded  BY DEF Init, Encoded, EmbedsNow
<1> QED  BY <1>1, <1>4, <1>5, <1>6, <1>7 DEF AskedInv

(* Every step of a handler keeps the invariant.                             *)
LEMMA NextAsked == AskedInv /\ [Next]_vars => AskedInv'
<1> SUFFICES ASSUME AskedInv, [Next]_vars PROVE AskedInv'  OBVIOUS
<1>1. ASSUME NEW s, NEW refused, NEW code \in {400, 422}, Check(s, refused, code),
             s \notin {"parse", "task", "trim", "embed"},
             s = "validate" /\ ~refused => Want(1).type # "several"
      PROVE  AskedInv'
  <2>1. At(s) /\ UNCHANGED <<image, tok, req, touched>>  BY <1>1 DEF Check
  <2>2. \/ status' = code /\ UNCHANGED <<step, at, rows, tasks, ordered>>
        \/ /\ ~refused /\ step' = step + 1
           /\ UNCHANGED <<at, rows, tasks, ordered, status>>
    BY <1>1 DEF Check, Refuse
  <2>3. code \in Statuses /\ code # 200  BY DEF Statuses
  <2> QED  BY <1>1, <2>1, <2>2, <2>3, StageKeeps
<1>2. CASE Validate
  <2> DEFINE bad == \/ req.inputs = <<>>
                    \/ \E i \in DOMAIN req.inputs : req.inputs[i].shape = "token ids"
                    \/ Want(1).type = "several"
                    \/ "return_multivector" \in Want(1).kwargs /\ Want(1).dims # 0
                    \/ /\ "return_tokenized_input" \in Want(1).kwargs
                       /\ "return_multivector" \notin Want(1).kwargs
  <2>1. Want(1).type = "several" => bad  OBVIOUS
  <2>2. Check("validate", bad, 422)  BY <1>2 DEF Validate
  <2> HIDE DEF bad
  <2> QED  BY <1>1, <2>1, <2>2
<1>3. CASE RejectForeignModel  BY <1>1, <1>3 DEF RejectForeignModel
<1>4. CASE RequireVerb  BY <1>1, <1>4 DEF RequireVerb
<1>5. CASE Stream  BY <1>1, <1>5 DEF Stream
<1>6. CASE RequireMultimodal  BY <1>1, <1>6 DEF RequireMultimodal
<1>7. CASE InferenceKwargs
  <2> DEFINE bad == \/ "return_tokenized_input" \in Want(1).kwargs
                    \/ ~ Want(1).kwargs \subseteq image.takes
  <2>1. Check("kwargs", bad, 400)  BY <1>7 DEF InferenceKwargs
  <2> HIDE DEF bad
  <2> QED  BY <1>1, <2>1
<1>8. CASE ResolveTasks  BY <1>8, TasksResolved
<1>9. CASE ParseInput  BY <1>9, InputParsed
<1>10. CASE AllParsed
  <2>1. /\ At("parse") /\ step' = step + 1 /\ at > Len(req.inputs)
        /\ UNCHANGED <<image, tok, req, at, rows, tasks, ordered, touched, status>>
    BY <1>10 DEF AllParsed
  <2>2. at = Len(req.inputs) + 1
    <3>1. at \in Nat /\ Len(req.inputs) \in Nat /\ at <= Len(req.inputs) + 1
      BY CallAssumption DEF AskedInv, Shape, RowsKept
    <3> QED  BY <2>1, <3>1
  <2> QED  BY <2>1, <2>2, StageKeeps
<1>11. CASE TruncateTexts  BY <1>11, TextsTrimmed
<1>12. CASE Embed  BY <1>12, CallEmbedded
<1>13. CASE EmbedAnswers  BY <1>13, EmbeddingAnswered
<1>14. ASSUME NEW s \in {"rank", "generate"}, At(s), status' \in Statuses,
              UNCHANGED <<image, tok, req, step, at, rows, tasks, ordered, touched>>
       PROVE  AskedInv'
  <2>1. req.route \notin Embeds
    BY <1>14, ProgramOrder DEF AskedInv, Shape, At, Here
  <2> QED  BY <1>14, <2>1, StageKeeps
<1>15. CASE Rerank
  <2>1. At("rank") /\ UNCHANGED <<image, tok, req, step, at, rows, tasks, ordered, touched>>
    BY <1>15 DEF Rerank, Refuse
  <2>2. status' \in {RankVerdict, 500, 200}  BY <1>15 DEF Rerank, Refuse
  <2>3. RankVerdict \in {200, 400, 500}
    <3> DEFINE A == image.verb # "rerank"
               B == req.vectors /\ ~image.vectors
               C == req.clip # 0 /\ ~tok
               D == req.untrimmed /\ OverLength(rows[1] \o Scored)
               E == ~IsString(rows[1])
               checks == << <<A, 400>>, <<B, 400>>, <<C, 400>>, <<D, 400>>, <<E, 500>> >>
               S == {400, 500}
    <3>1. RankVerdict = Verdict(checks)  BY DEF RankVerdict
    <3>2. DOMAIN checks = 1..5 /\ \A i \in 1..5 : checks[i][2] \in S
      <4> HIDE DEF A, B, C, D, E
      <4> QED  OBVIOUS
    <3>3. DOMAIN checks \in SUBSET Nat /\ S \in SUBSET (Nat \ {200})  BY <3>2
    <3>4. Verdict(checks) \in S \cup {200}
      <4> HIDE DEF checks, S
      <4>1. \A i \in DOMAIN checks : checks[i][2] \in S  BY <3>2
      <4> QED  BY <3>3, <4>1, VerdictIs
    <3> HIDE DEF checks
    <3> QED  BY <3>1, <3>4
  <2>4. status' \in Statuses  BY <2>2, <2>3 DEF Statuses
  <2> QED  BY <1>14, <2>1, <2>4
<1>16. CASE Generate
  <2>1. /\ At("generate") /\ status' \in {200, 400, 500}
        /\ UNCHANGED <<image, tok, req, step, at, rows, tasks, ordered, touched>>
    BY <1>16 DEF Generate, Refuse
  <2>2. status' \in Statuses  BY <2>1 DEF Statuses
  <2> QED  BY <1>14, <2>1, <2>2
<1>17. CASE Answered \/ UNCHANGED vars
  <2>1. UNCHANGED vars  BY <1>17 DEF Answered
  <2>2. \A t : Past(t)' <=> Past(t)  BY <2>1 DEF Past, vars
  <2>3. Shape'  BY <2>1 DEF AskedInv, Shape, vars
  <2>4. RowsKept'
    <3>1. \A p : RowNow(p)' = RowNow(p)  BY <2>1, <2>2, SameRequest DEF RowNow, vars
    <3> QED  BY <2>1, <2>2, <3>1 DEF AskedInv, RowsKept, vars
  <2>5. TasksKept'  BY <2>1, <2>2, SameRequest DEF AskedInv, TasksKept, vars
  <2>6. Validated'  BY <2>1, <2>2, SameRequest DEF AskedInv, Validated, vars
  <2>7. Encoded'
    <3>1. \A p \in DOMAIN ordered : AsAsked(ordered[p], p) => AsAsked(ordered[p], p)'
      BY <2>1, SameEncoding DEF vars
    <3> QED  BY <2>1, <3>1, SameRequest
             DEF AskedInv, Encoded, vars, NotYet, Here, ReadWhole, EmbedsNow
  <2> QED  BY <2>3, <2>4, <2>5, <2>6, <2>7 DEF AskedInv
<1> QED
  BY <1>2, <1>3, <1>4, <1>5, <1>6, <1>7, <1>8, <1>9, <1>10, <1>11, <1>12, <1>13,
     <1>15, <1>16, <1>17 DEF Next

(* The state of a request is always of the shape the handlers give it: a    *)
(* row and, in a batch, a task for every input passed, one encoding slot    *)
(* per input, a status there is, and nothing opened that was not sent.      *)
THEOREM RequestsTyped == Spec => []TypeOK
<1>1. AskedInv => TypeOK
  BY DEF AskedInv, Shape, RowsKept, TasksKept, Encoded, TypeOK
<1> QED  BY <1>1, InitAsked, NextAsked, PTL DEF Spec

(* An embedding answer has at each position the encoding of the input sent  *)
(* at that position, with the adapter, width, form and packing weight this  *)
(* input asked for, through every envelope, fused row, mixed batch and      *)
(* grouping of its rows.                                                    *)
THEOREM AnsweredAsAsked == Spec => []EachRowAsAsked
<1>1. AskedInv => EachRowAsAsked
  BY DEF AskedInv, Encoded, EachRowAsAsked
<1> QED  BY <1>1, InitAsked, NextAsked, PTL DEF Spec

(* With the tokenizer loaded, a text of a caller who turned truncation off  *)
(* is refused with its request or encoded: to its last token where no       *)
(* prompt is put before it, and but for as many as the prompt has where one *)
(* is.                                                                      *)
THEOREM NeverShortened == Spec => []RefusedNotShortened
<1>1. AskedInv => RefusedNotShortened
  BY DEF AskedInv, Encoded, RefusedNotShortened
<1> QED  BY <1>1, InitAsked, NextAsked, PTL DEF Spec

----------------------------------------------------------------------------
(* Rankings are in order                                                    *)

(* A ranking lists the best of the documents, best first and each once.     *)
LEMMA RankedIs ==
  ASSUME req \in Calls, NEW score \in [DOMAIN req.docs -> Scores]
  PROVE  \E m \in Nat :
           /\ Ranked(score) \in [1..m -> DOMAIN req.docs]
           /\ \A j, k \in 1..m :
                j < k => <<Ranked(score)[j], Ranked(score)[k]>> \in Better(score)
           /\ \A out \in DOMAIN req.docs :
                \/ \E k \in 1..m : Ranked(score)[k] = out
                \/ \A k \in 1..m : <<Ranked(score)[k], out>> \in Better(score)
<1> DEFINE S == DOMAIN req.docs
           n == Cardinality(S)
           B == Better(score)
           best == Arranged(S, B)
<1>1. S \in SUBSET Int /\ IsFiniteSet(S)
  <2>1. req.docs \in Seq(Members(req.docs))  BY ContentAssumption
  <2>2. PICK l \in Nat : S = 1..l  BY <2>1
  <2>3. 1 \in Int /\ l \in Int  OBVIOUS
  <2> QED  BY <2>2, <2>3, FS_Interval
<1>2. \A x, y \in S : <<x, y>> \in B <=> \/ score[x] > score[y]
                                         \/ score[x] = score[y] /\ x < y
  BY DEF Better
<1>3. \A x \in S : score[x] \in Int /\ x \in Int  BY <1>1, ImageAssumption
<1> HIDE DEF S, B
<1>4. /\ \A x \in S : <<x, x>> \notin B
      /\ \A x, y, z \in S : <<x, y>> \in B /\ <<y, z>> \in B => <<x, z>> \in B
      /\ \A x, y \in S : x # y => <<x, y>> \in B \/ <<y, x>> \in B
  <2>1. \A x \in S : <<x, x>> \notin B  BY <1>2, <1>3
  <2>2. ASSUME NEW x \in S, NEW y \in S, NEW z \in S,
               <<x, y>> \in B, <<y, z>> \in B
        PROVE  <<x, z>> \in B
    <3>1. PICK a \in Int, b \in Int, c \in Int :
            a = score[x] /\ b = score[y] /\ c = score[z]  BY <1>3
    <3>2. /\ a > b \/ (a = b /\ x < y)
          /\ b > c \/ (b = c /\ y < z)
      BY <1>2, <2>2, <3>1
    <3>3. a > c \/ (a = c /\ x < z)  BY <1>3, <3>2
    <3> QED  BY <1>2, <3>1, <3>3
  <2>3. \A x, y \in S : x # y => <<x, y>> \in B \/ <<y, x>> \in B
    BY <1>2, <1>3
  <2> QED  BY <2>1, <2>2, <2>3
<1>5. /\ n \in Nat /\ best \in [1..n -> S]
      /\ \A x \in S : \E k \in 1..n : best[k] = x
      /\ \A j, k \in 1..n : j < k => <<best[j], best[k]>> \in B
  <2>1. /\ Cardinality(S) \in Nat
        /\ Arranged(S, B) \in [1..Cardinality(S) -> S]
        /\ \A x \in S : \E k \in 1..Cardinality(S) : Arranged(S, B)[k] = x
        /\ \A j, k \in 1..Cardinality(S) :
             j < k => <<Arranged(S, B)[j], Arranged(S, B)[k]>> \in B
    BY <1>1, <1>4, ArrangedFacts
  <2> QED  BY <2>1
<1>6. Ranked(score) = IF req.topN = 0 \/ req.topN > Len(best) THEN best
                                                          ELSE SubSeq(best, 1, req.topN)
  BY DEF Ranked, S, B
<1> HIDE DEF n, best
<1>7. Len(best) = n /\ best \in Seq(S)  BY <1>5, SeqDef
<1>8. \E m \in 0..n : Ranked(score) = [k \in 1..m |-> best[k]]
  <2>1. CASE req.topN = 0 \/ req.topN > n
    <3>1. Ranked(score) = [k \in 1..n |-> best[k]]  BY <1>5, <1>6, <1>7, <2>1
    <3>2. n \in 0..n  BY <1>5
    <3> QED  BY <3>1, <3>2
  <2>2. CASE ~(req.topN = 0 \/ req.topN > n)
    <3>1. PICK t \in Nat : t = req.topN  BY ContentAssumption
    <3>2. t \in 1..n /\ t \in 0..n  BY <1>5, <2>2, <3>1
    <3>3. Ranked(score) = SubSeq(best, 1, t)  BY <1>6, <1>7, <2>2, <3>1
    <3>4. SubSeq(best, 1, t) = [k \in 1..t |-> best[k]]
      <4>1. /\ SubSeq(best, 1, t) \in Seq(S) /\ Len(SubSeq(best, 1, t)) = t
            /\ \A k \in 1..t : SubSeq(best, 1, t)[k] = best[k]
        BY <1>7, <3>2
      <4> QED  BY <4>1
    <3> QED  BY <3>2, <3>3, <3>4
  <2> QED  BY <2>1, <2>2
<1>9. PICK m \in 0..n : Ranked(score) = [k \in 1..m |-> best[k]]  BY <1>8
<1>10. m \in Nat /\ \A k \in 1..m : k \in 1..n /\ Ranked(score)[k] = best[k]
  BY <1>5, <1>9
<1>11. Ranked(score) \in [1..m -> S]  BY <1>5, <1>9, <1>10
<1>12. \A j, k \in 1..m : j < k => <<Ranked(score)[j], Ranked(score)[k]>> \in B
  BY <1>5, <1>10
<1>13. ASSUME NEW out \in S
       PROVE  \/ \E k \in 1..m : Ranked(score)[k] = out
              \/ \A k \in 1..m : <<Ranked(score)[k], out>> \in B
  <2>1. PICK o \in 1..n : best[o] = out  BY <1>5
  <2>2. CASE o <= m
    <3>1. o \in 1..m  BY <2>2
    <3> QED  BY <1>10, <2>1, <3>1
  <2>3. CASE ~(o <= m)
    <3>1. \A k \in 1..m : k < o  BY <1>10, <2>3
    <3> QED  BY <1>5, <1>10, <2>1, <3>1
  <2> QED  BY <2>2, <2>3
<1> QED  BY <1>10, <1>11, <1>12, <1>13 DEF S, B

(* What a reranker answers, whatever it scored.                             *)
LEMMA RankingIs ==
  ASSUME req \in Calls, NEW score \in [DOMAIN req.docs -> Scores],
         UNCHANGED req,
         ranking' = [score |-> score, scored |-> Scored,
                     results |->
                       [k \in DOMAIN Ranked(score) |->
                          [index |-> Ranked(score)[k],
                           score |-> score[Ranked(score)[k]],
                           echo  |-> IF req.echo THEN <<req.docs[Ranked(score)[k]]>>
                                                ELSE <<>>]]]
  PROVE  RankedAsSent'
<1>1. PICK m \in Nat :
        /\ Ranked(score) \in [1..m -> DOMAIN req.docs]
        /\ \A j, k \in 1..m :
             j < k => <<Ranked(score)[j], Ranked(score)[k]>> \in Better(score)
        /\ \A out \in DOMAIN req.docs :
             \/ \E k \in 1..m : Ranked(score)[k] = out
             \/ \A k \in 1..m : <<Ranked(score)[k], out>> \in Better(score)
  BY RankedIs
<1> DEFINE R    == Ranked(score)
           list == ranking'.results
           in   == {list[k].index : k \in DOMAIN list}
<1>2. /\ ranking'.score = score /\ ranking'.scored = Scored
      /\ list = [k \in 1..m |-> [index |-> R[k], score |-> score[R[k]],
                                 echo |-> IF req.echo THEN <<req.docs[R[k]]>> ELSE <<>>]]
  BY <1>1
<1>3. /\ DOMAIN list = 1..m /\ Len(list) = m
      /\ \A k \in 1..m : /\ list[k].index = R[k] /\ list[k].score = score[R[k]]
                         /\ req.echo => list[k].echo = <<req.docs[R[k]]>>
  <2> HIDE DEF list, R
  <2> QED  BY <1>2
<1>4. /\ \A x \in DOMAIN req.docs : score[x] \in Int
      /\ DOMAIN req.docs \in SUBSET Int /\ DOMAIN score = DOMAIN req.docs
  <2>1. req.docs \in Seq(Members(req.docs))  BY ContentAssumption
  <2>2. DOMAIN req.docs \in SUBSET Int  BY <2>1
  <2>3. Scores \subseteq Int  BY ImageAssumption
  <2> QED  BY <2>2, <2>3
<1>5. \A x, y : <<x, y>> \in Better(score) =>
        /\ score[x] >= score[y]
        /\ x # y
  <2> SUFFICES ASSUME NEW x, NEW y, <<x, y>> \in Better(score)
               PROVE  score[x] >= score[y] /\ x # y
    OBVIOUS
  <2>1. /\ x \in DOMAIN req.docs /\ y \in DOMAIN req.docs
        /\ score[x] > score[y] \/ (score[x] = score[y] /\ x < y)
    BY <1>4 DEF Better
  <2>2. score[x] \in Int /\ score[y] \in Int /\ x \in Int /\ y \in Int
    BY <1>4, <2>1
  <2> QED  BY <2>1, <2>2
<1> HIDE DEF R, list
<1>6. R \in [1..m -> DOMAIN req.docs]  BY <1>1 DEF R
<1>7. \A j, k \in 1..m : j < k => score[R[j]] >= score[R[k]] /\ R[j] # R[k]
  BY <1>1, <1>5 DEF R
<1>8. Cardinality(in) = Len(list)
  <2>1. in = {R[k] : k \in 1..m}  BY <1>3
  <2> HIDE DEF in
  <2>2. \A j, k \in 1..m : R[j] = R[k] => j = k
    <3>1. \A j, k \in 1..m : j < k \/ k < j \/ j = k  OBVIOUS
    <3> QED  BY <1>7, <3>1
  <2>3. R \in Bijection(1..m, in)
    BY <1>6, <2>1, <2>2 DEF Bijection, Injection, IsInjective, Surjection
  <2>4. ExistsBijection(1..m, in)  BY <2>3 DEF ExistsBijection
  <2>5. Cardinality(in) = m  BY <2>4, FS_CountingElements
  <2> QED  BY <1>3, <2>5
<1>9. \A j, k \in DOMAIN list : j < k => list[j].score >= list[k].score
  BY <1>3, <1>7
<1>10. \A k \in DOMAIN list : list[k].score = ranking'.score[list[k].index]
  BY <1>2, <1>3
<1>11. \A out \in DOMAIN req.docs \ in, k \in DOMAIN list :
         ranking'.score[out] <= list[k].score
  <2> SUFFICES ASSUME NEW out \in DOMAIN req.docs, out \notin in, NEW k \in 1..m
               PROVE  score[out] <= score[R[k]]
    BY <1>2, <1>3
  <2>1. \A j \in 1..m : R[j] # out  BY <1>3
  <2>2. <<R[k], out>> \in Better(score)  BY <1>1, <2>1 DEF R
  <2>3. score[R[k]] >= score[out]  BY <1>5, <2>2
  <2>4. score[R[k]] \in Int /\ score[out] \in Int  BY <1>4, <1>6
  <2> QED  BY <2>3, <2>4
<1>12. req.echo => \A k \in DOMAIN list : list[k].echo = <<req.docs[list[k].index]>>
  BY <1>3
<1>13. req.clip # 0 => \A i \in DOMAIN req.docs : ranking'.scored[i].to <= req.clip
  <2> SUFFICES ASSUME req.clip # 0, NEW i \in DOMAIN req.docs
               PROVE  Scored[i].to <= req.clip
    BY <1>2
  <2> DEFINE x == TextPiece(req.docs[i].n, req.docs[i].words, req.docs[i].est)
  <2>1. Scored[i] = Clip(x)  BY DEF Scored
  <2>2. req.docs[i].n \in Nat /\ req.clip \in Nat
    BY ContentAssumption DEF Members
  <2>3. x.to = req.docs[i].n /\ x.n = req.docs[i].n  BY DEF TextPiece
  <2>4. CASE x.n > req.clip
    <3>1. Clip(x) = [x EXCEPT !.to = req.clip]  BY <2>4 DEF Clip
    <3>2. [x EXCEPT !.to = req.clip].to = req.clip  BY DEF TextPiece
    <3> QED  BY <2>1, <2>2, <3>1, <3>2
  <2>5. CASE ~(x.n > req.clip)
    <3>1. Clip(x) = x  BY <2>5 DEF Clip
    <3> QED  BY <2>1, <2>2, <2>3, <2>5, <3>1
  <2> QED  BY <2>4, <2>5
<1> QED  BY <1>8, <1>9, <1>10, <1>11, <1>12, <1>13 DEF RankedAsSent, list, in

(* A rerank answer lists distinct documents, best first, none left out that *)
(* scored higher than one listed, each echoed as it was sent.               *)
THEOREM RankedBest == Spec => []RankedAsSent
<1> DEFINE RInv == req \in Calls /\ RankedAsSent
<1>1. Init => RInv  BY DEF Init, RankedAsSent
<1>2. RInv /\ [Next]_vars => RInv'
  <2> SUFFICES ASSUME RInv, [Next]_vars PROVE RInv'  OBVIOUS
  <2>1. CASE UNCHANGED <<req, ranking>>  BY <2>1 DEF RankedAsSent, NoRanking
  <2>2. CASE ~UNCHANGED <<req, ranking>>
    <3>1. Rerank
      BY <2>2 DEF Next, vars, Validate, RejectForeignModel, RequireVerb, Stream,
        RequireMultimodal, InferenceKwargs, Check, Refuse, ResolveTasks,
        ParseInput, AllParsed, TruncateTexts, Embed, EmbedAnswers, Generate,
        Answered
    <3>2. UNCHANGED req  BY <3>1 DEF Rerank
    <3>3. PICK score \in [DOMAIN req.docs -> Scores] :
            ranking' = [score |-> score, scored |-> Scored,
                     results |->
                       [k \in DOMAIN Ranked(score) |->
                          [index |-> Ranked(score)[k],
                           score |-> score[Ranked(score)[k]],
                           echo  |-> IF req.echo THEN <<req.docs[Ranked(score)[k]]>>
                                                ELSE <<>>]]]
      BY <2>2, <3>1 DEF Rerank, Refuse
    <3> QED  BY <3>2, <3>3, RankingIs
  <2> QED  BY <2>1, <2>2
<1>3. RInv => RankedAsSent  OBVIOUS
<1> QED  BY <1>1, <1>2, <1>3, PTL DEF Spec

----------------------------------------------------------------------------
(* A task survives the way to the model                                     *)

(* A bare word is its base.                                                 *)
LEMMA BareIs ==
  ASSUME NEW name
  PROVE  Base(Bare(name)) = name /\ Role(Bare(name)) = "none"
BY DEF Bare, Base, Role

(* Cohere's and Voyage's words for a search, a class and a cluster.         *)
LEMMA InputWord ==
  ASSUME NEW w
  PROVE  /\ w \in DOMAIN InputTypeRoles <=> \E name \in InputTypes : w = Bare(name)
         /\ w \in {Bare("query"), Bare("search_query")} =>
              InputTypeRoles[w] = Wish(<<"retrieval">>, "query")
         /\ w \in {Bare("document"), Bare("search_document")} =>
              InputTypeRoles[w] = Wish(<<"retrieval">>, "passage")
         /\ w = Bare("classification") =>
              InputTypeRoles[w] = Wish(<<"classification">>, "none")
         /\ w = Bare("clustering") =>
              InputTypeRoles[w] = Wish(<<"clustering", "separation">>, "none")
<1>1. \A name \in InputTypes :
        InputTypeRoles[Bare(name)] =
         CASE name \in {"query", "search_query"} -> Wish(<<"retrieval">>, "query")
           [] name \in {"document", "search_document"} ->
                Wish(<<"retrieval">>, "passage")
           [] name = "classification" -> Wish(<<"classification">>, "none")
           [] name = "clustering" -> Wish(<<"clustering", "separation">>, "none")
           [] name = "image" -> Wish(<<>>, "none")
  BY BareIs DEF InputTypeRoles
<1>2. DOMAIN InputTypeRoles = {Bare(name) : name \in InputTypes}
  BY DEF InputTypeRoles
<1> QED  BY <1>1, <1>2 DEF InputTypes

(* Gemini's words for a search.                                             *)
LEMMA TaskTypeWord ==
  ASSUME NEW w
  PROVE  /\ w \in DOMAIN TaskTypeRoles <=> \E name \in TaskTypes : w = Bare(name)
         /\ w \in {Bare("RETRIEVAL_QUERY"), Bare("FACT_VERIFICATION")} =>
              TaskTypeRoles[w] = Wish(<<"retrieval">>, "query")
         /\ w = Bare("RETRIEVAL_DOCUMENT") =>
              TaskTypeRoles[w] = Wish(<<"retrieval">>, "passage")
         /\ w = Bare("QUESTION_ANSWERING") =>
              TaskTypeRoles[w] = Wish(<<"qa", "retrieval">>, "query")
         /\ w = Bare("CODE_RETRIEVAL_QUERY") =>
              TaskTypeRoles[w] = Wish(<<"nl2code", "code", "retrieval">>, "query")
<1>1. \A name \in TaskTypes :
        TaskTypeRoles[Bare(name)] =
         CASE name = "TASK_TYPE_UNSPECIFIED" -> Wish(<<>>, "none")
           [] name \in {"RETRIEVAL_QUERY", "FACT_VERIFICATION"} ->
                Wish(<<"retrieval">>, "query")
           [] name = "RETRIEVAL_DOCUMENT"  -> Wish(<<"retrieval">>, "passage")
           [] name = "SEMANTIC_SIMILARITY" -> Wish(<<"text-matching">>, "none")
           [] name = "CLASSIFICATION" -> Wish(<<"classification">>, "none")
           [] name = "CLUSTERING" -> Wish(<<"clustering", "separation">>, "none")
           [] name = "QUESTION_ANSWERING" -> Wish(<<"qa", "retrieval">>, "query")
           [] name = "CODE_RETRIEVAL_QUERY" ->
                Wish(<<"nl2code", "code", "retrieval">>, "query")
  BY BareIs DEF TaskTypeRoles
<1>2. DOMAIN TaskTypeRoles = {Bare(name) : name \in TaskTypes}
  BY DEF TaskTypeRoles
<1> QED  BY <1>1, <1>2 DEF TaskTypes

(* No task of the enum is a refusal, no task, or a word for a search.       *)
LEMMA NotForSale ==
  ASSUME NEW m \in Images, m.verb = "embed"
  PROVE  /\ m.enum \cap {None, Refusal, Bare("passage")} = {}
         /\ m.enum \cap VendorWords
              \subseteq {Bare("classification"), Bare("clustering")}
         /\ Refusal # None
<1>1. m.enum \cap (VendorWords \cup {None, Refusal, Bare("passage")})
        \subseteq {Bare("classification"), Bare("clustering")}
  BY VocabularyAssumption
<1>2. /\ {None, Refusal, Bare("passage")}
           \cap {Bare("classification"), Bare("clustering")} = {}
      /\ Refusal # None
  BY DEF None, Refusal, Bare
<1> QED  BY <1>1, <1>2

(* The families a vendor's word for a search may be fitted to.              *)
SearchLists == {<<"retrieval">>, <<"qa", "retrieval">>,
                <<"nl2code", "code", "retrieval">>}

(* A search is fitted to a task of the model in the same role; to none if   *)
(* the model serves a family without that role; or it is refused.           *)
LEMMA SearchFitted ==
  ASSUME NEW m \in Images, m.verb = "embed", m.enum # {},
         NEW role \in {"query", "passage"}, NEW families \in SearchLists,
         NEW t, t = FitTask(m, Wish(families, role)), CheckTask(m, t)
  PROVE  \/ t \in m.enum /\ Role(t) = role
         \/ /\ t = None
            /\ \E f \in Searches \cap Bases(m.enum) : <<f, role>> \notin m.enum
<1> DEFINE wish     == Wish(families, role)
           served   == {f \in ToSet(families) :
                          {<<f, role>>, Bare(f)} \cap m.enum # {}}
           family   == FirstIn(families, served, "none")
           fallback == <<Base(DefaultTask(m)), role>>
<1>1. wish.families = families /\ wish.role = role  BY DEF Wish
<1>2. t = IF family # "none"
          THEN IF <<family, role>> \in m.enum THEN <<family, role>>
                                              ELSE Bare(family)
          ELSE IF ToSet(families) \cap Bases(m.enum) # {} \/ families = <<>>
               THEN None
          ELSE IF role # "none" /\ fallback \in m.enum THEN fallback
          ELSE Refusal
  BY <1>1 DEF FitTask
<1>3. DOMAIN families \in SUBSET Nat /\ families # <<>>  BY DEF SearchLists
<1>4. ToSet(families) \subseteq Searches
  BY DEF SearchLists, ToSet, Searches
<1>5. /\ "none" \notin Searches
      /\ \A f \in Searches : Bare(f) \notin m.enum
      /\ Refusal \notin m.enum /\ Refusal # None
  BY NotForSale, VocabularyAssumption DEF Searches
<1>6. \A f : Role(<<f, role>>) = role  BY DEF Role
<1>7. CASE family # "none"
  <2>1. family \in served
    <3>1. \A i \in DOMAIN families : families[i] \in ToSet(families)  BY DEF ToSet
    <3> HIDE DEF served
    <3> QED  BY <1>3, <1>7, FirstInIs
  <2>2. \A f \in served : <<f, role>> \in m.enum  BY <1>4, <1>5
  <2>3. \A f \in served : f = family => t = <<f, role>>  BY <1>2, <1>7, <2>2
  <2> HIDE DEF served, family
  <2> QED  BY <1>6, <2>1, <2>2, <2>3
<1>8. CASE family = "none" /\ ToSet(families) \cap Bases(m.enum) # {}
  <2>1. t = None  BY <1>2, <1>8
  <2>2. PICK f \in ToSet(families) : f \in Bases(m.enum)  BY <1>8
  <2>3. f \in Searches /\ f # "none"  BY <1>4, <1>5
  <2>4. f \notin served
    <3>1. \E i \in DOMAIN families : families[i] = f  BY DEF ToSet
    <3>2. served \subseteq ToSet(families)  OBVIOUS
    <3>3. "none" \notin served  BY <1>4, <1>5, <3>2
    <3> HIDE DEF served
    <3> QED  BY <1>3, <1>8, <3>1, <3>3, FirstInIs
  <2>5. <<f, role>> \notin m.enum  BY <2>4
  <2> QED  BY <2>1, <2>2, <2>3, <2>5
<1>9. CASE family = "none" /\ ToSet(families) \cap Bases(m.enum) = {}
  <2>1. t = IF fallback \in m.enum THEN fallback ELSE Refusal  BY <1>2, <1>3, <1>9
  <2> HIDE DEF fallback
  <2>2. Role(fallback) = role  BY <1>6 DEF fallback
  <2> QED  BY <1>5, <2>1, <2>2 DEF CheckTask
<1> QED  BY <1>7, <1>8, <1>9

(* Without prompts no text is prompted, whatever it is asked for.           *)
LEMMA NothingPrompted ==
  ASSUME NEW m, m.prompts = {}, NEW t
  PROVE  ResolveTask(m, t).prompt = None
<1>1. \A task : MapPromptName(task, {}) = None
  <2> TAKE task
  <2>1. CASE task = None  BY <2>1 DEF MapPromptName
  <2>2. CASE task # None  BY <2>2, PromptIs
  <2> QED  BY <2>1, <2>2
<1> QED  BY <1>1 DEF ResolveTask

(* The task that stands in for none at all, and how it is prompted.         *)
LEMMA DefaultPrompt ==
  ASSUME NEW m, Role(DefaultTask(m)) = "none"
  PROVE  /\ DefaultTask(m) \in {Bare("retrieval"), Bare("text-matching")}
         /\ ResolveTask(m, None).prompt
              \in {None} \cup ({DefaultTask(m), Bare("document"), Bare("query")}
                             \cap m.prompts)
<1>1. DefaultTask(m) \in {Bare("retrieval"), Bare("text-matching")}
  BY DEF DefaultTask, Role, Bare
<1>2. DefaultTask(m) # None  BY <1>1 DEF Bare, None
<1>3. MapPromptName(DefaultTask(m), m.prompts)
        \in {None} \cup ({DefaultTask(m), Bare("document"), Bare("query")}
                         \cap m.prompts)
  BY <1>2, PromptIs
<1>4. ResolveTask(m, None).prompt \in {None, MapPromptName(DefaultTask(m), m.prompts)}
  BY DEF ResolveTask
<1> QED  BY <1>1, <1>3, <1>4

(* Prompts keyed by task: none has a role the model does not serve.         *)
LEMMA NoOwnKey ==
  ASSUME NEW m \in Images, m.verb = "embed", TaskKeyed(m),
         NEW role \in {"query", "passage"},
         NEW f \in Searches \cap Bases(m.enum), <<f, role>> \notin m.enum
  PROVE  \A key \in m.prompts : /\ Role(key) \notin {role, "_query", "_document"}
                                /\ key \notin {Bare("query"), Bare("document"),
                                              Bare("passage")}
<1>1. /\ m.enum \subseteq STRING \X {"none", "query", "passage"}
      /\ \A g \in Searches : Bare(g) \notin m.enum
  BY VocabularyAssumption
<1>2. PICK e \in m.enum : Base(e) = f  BY DEF Bases
<1>3. Role(e) # "none"
  <2>1. e = <<Base(e), Role(e)>>  BY <1>1 DEF Base, Role
  <2> QED  BY <1>1, <1>2, <2>1 DEF Bare
<1>4. f = "retrieval"  BY <1>2, <1>3 DEF TaskKeyed, Bases
<1> SUFFICES ASSUME NEW key \in m.prompts
             PROVE  /\ Role(key) \notin {role, "_query", "_document"}
                    /\ key \notin {Bare("query"), Bare("document"), Bare("passage")}
  OBVIOUS
<1>5. key \in m.enum  BY DEF TaskKeyed
<1>6. key = <<Base(key), Role(key)>> /\ Role(key) \in {"none", "query", "passage"}
  BY <1>1, <1>5 DEF Base, Role
<1>7. Role(key) # role
  <2> SUFFICES ASSUME Role(key) = role  PROVE FALSE  OBVIOUS
  <2>1. Base(key) = "retrieval"  BY <1>5 DEF TaskKeyed, Bases
  <2> QED  BY <1>4, <1>5, <1>6, <2>1
<1>8. {Bare("query"), Bare("document")} \subseteq VendorWords
  BY InputWord DEF VendorWords, InputTypes
<1>9. {Bare("query"), Bare("document")} \cap {Bare("classification"), Bare("clustering")} = {}
  BY DEF Bare
<1> QED  BY <1>5, <1>6, <1>7, <1>8, <1>9, NotForSale

(* A task in a role is prompted in that role, whenever there is such a key. *)
LEMMA RolePrompted ==
  ASSUME NEW m \in Images, m.verb = "embed", NEW t \in m.enum,
         NEW role \in {"query", "passage"}, Role(t) = role
  PROVE  LET key == ResolveTask(m, t).prompt
             own == IF role = "query"
                    THEN {t, <<Base(t), "_query">>, Bare("query")}
                    ELSE {t, <<Base(t), "_document">>, Bare("document"), Bare("passage")}
         IN  \/ key \in own
             \/ key = None /\ m.prompts = {}
<1> DEFINE key == ResolveTask(m, t).prompt
           own == IF role = "query"
                  THEN {t, <<Base(t), "_query">>, Bare("query")}
                  ELSE {t, <<Base(t), "_document">>, Bare("document"), Bare("passage")}
<1>1. t # None  BY NotForSale
<1>2. key = MapPromptName(t, m.prompts)  BY <1>1 DEF ResolveTask
<1>3. IF own \cap m.prompts = {} THEN key = None ELSE key \in own
  <2>1. CASE role = "query"  BY <1>1, <1>2, <2>1, PromptIs
  <2>2. CASE role = "passage"  BY <1>1, <1>2, <2>2, PromptIs
  <2> QED  BY <2>1, <2>2
<1>4. CASE m.prompts = {}  BY <1>3, <1>4
<1>5. CASE TaskKeyed(m)
  <2>1. t \in m.prompts  BY <1>5 DEF TaskKeyed
  <2> QED  BY <1>3, <2>1
<1>6. CASE RoleKeyed(m)
  <2>1. own \cap m.prompts # {}
    <3>1. Base(t) \in Bases(m.enum)  BY DEF Bases
    <3>2. CASE m.prompts = Bases(m.enum) \X {"_query", "_document"}
      BY <3>1, <3>2
    <3>3. CASE m.prompts \in {{Bare("query"), Bare(k)} : k \in {"passage", "document"}}
      BY <3>3
    <3> QED  BY <1>6, <3>2, <3>3 DEF RoleKeyed
  <2> QED  BY <1>3, <2>1
<1> QED  BY <1>4, <1>5, <1>6, VocabularyAssumption

(* A prompt that is not the other role's, and its own if the model has one. *)
KeepsQuery(m, key) ==
  ~PassagePrompt(key) /\ ((\E k \in m.prompts : QueryPrompt(k)) => QueryPrompt(key))
KeepsPassage(m, key) ==
  ~QueryPrompt(key) /\ ((\E k \in m.prompts : PassagePrompt(k)) => PassagePrompt(key))

(* A model without prompts has none of its own to keep.                     *)
LEMMA KeptByNone ==
  ASSUME NEW m, m.prompts = {}, NEW t
  PROVE  /\ KeepsQuery(m, ResolveTask(m, t).prompt)
         /\ KeepsPassage(m, ResolveTask(m, t).prompt)
<1>1. ~QueryPrompt(None) /\ ~PassagePrompt(None)
  BY DEF QueryPrompt, PassagePrompt, None, Bare, Role
<1> QED  BY <1>1, NothingPrompted DEF KeepsQuery, KeepsPassage

(* What a search is fitted to is prompted in its role: never with the other *)
(* role's prompt, nor without its own when the model has one.               *)
LEMMA RoleIsKept ==
  ASSUME NEW m \in Images, m.verb = "embed", m.enum # {},
         NEW role \in {"query", "passage"}, NEW families \in SearchLists,
         NEW t, t = FitTask(m, Wish(families, role)), CheckTask(m, t)
  PROVE  IF role = "query" THEN KeepsQuery(m, ResolveTask(m, t).prompt)
                           ELSE KeepsPassage(m, ResolveTask(m, t).prompt)
<1> DEFINE key == ResolveTask(m, t).prompt
<1>1. ~QueryPrompt(None) /\ ~PassagePrompt(None)
  BY DEF QueryPrompt, PassagePrompt, None, Bare, Role
<1>2. CASE t \in m.enum /\ Role(t) = role
  <2>1. CASE m.prompts = {}  BY <2>1, KeptByNone
  <2>2. CASE m.prompts # {} /\ role = "query"
    <3>1. key \in {t, <<Base(t), "_query">>, Bare("query")}
      BY <1>2, <2>2, RolePrompted
    <3>2. Role(t) = "query"  BY <1>2, <2>2
    <3>3. \A k \in {t, <<Base(t), "_query">>, Bare("query")} :
            QueryPrompt(k) /\ ~PassagePrompt(k)
      BY <3>2 DEF QueryPrompt, PassagePrompt, Bare, Role
    <3> QED  BY <2>2, <3>1, <3>3 DEF KeepsQuery
  <2>3. CASE m.prompts # {} /\ role = "passage"
    <3>1. key \in {t, <<Base(t), "_document">>, Bare("document"), Bare("passage")}
      BY <1>2, <2>3, RolePrompted
    <3>2. Role(t) = "passage"  BY <1>2, <2>3
    <3>3. \A k \in {t, <<Base(t), "_document">>, Bare("document"), Bare("passage")} :
            PassagePrompt(k) /\ ~QueryPrompt(k)
      BY <3>2 DEF QueryPrompt, PassagePrompt, Bare, Role
    <3> QED  BY <2>3, <3>1, <3>3 DEF KeepsPassage
  <2> QED  BY <2>1, <2>2, <2>3
<1>3. CASE /\ t = None
           /\ \E f \in Searches \cap Bases(m.enum) : <<f, role>> \notin m.enum
  <2>1. CASE m.prompts = {}  BY <2>1, KeptByNone
  <2>2. CASE RoleKeyed(m)  BY <1>3, <2>2 DEF RoleKeyed
  <2>3. CASE TaskKeyed(m)
    <3>1. \A k \in m.prompts : /\ Role(k) \notin {role, "_query", "_document"}
                               /\ k \notin {Bare("query"), Bare("document"),
                                           Bare("passage")}
      BY <1>3, <2>3, NoOwnKey
    <3>2. Role(DefaultTask(m)) = "none"  BY <2>3 DEF TaskKeyed
    <3>3. key \in {None, DefaultTask(m)}  BY <1>3, <3>1, <3>2, DefaultPrompt
    <3>4. ~QueryPrompt(key) /\ ~PassagePrompt(key)
      <4>1. DefaultTask(m) \in {Bare("retrieval"), Bare("text-matching")}
        BY <3>2, DefaultPrompt
      <4>2. \A k \in {Bare("retrieval"), Bare("text-matching")} :
              ~QueryPrompt(k) /\ ~PassagePrompt(k)
        BY DEF QueryPrompt, PassagePrompt, Bare, Role
      <4> QED  BY <1>1, <3>3, <4>1, <4>2
    <3>5. CASE role = "query"
      BY <3>1, <3>4, <3>5 DEF KeepsQuery, QueryPrompt
    <3>6. CASE role = "passage"
      BY <3>1, <3>4, <3>6 DEF KeepsPassage, PassagePrompt
    <3> QED  BY <3>5, <3>6
  <2> QED  BY <2>1, <2>2, <2>3, VocabularyAssumption
<1> QED  BY <1>2, <1>3, SearchFitted

(* A vendor's word for a search asks for one of its families in its role,   *)
(* in whichever field it is written, or it is refused.                      *)
LEMMA SearchWord ==
  ASSUME NEW m \in Images, m.verb = "embed", m.enum # {},
         NEW role \in {"query", "passage"},
         NEW w \in IF role = "query" THEN QueryWords ELSE PassageWords,
         NEW t \in {InputTypeTask(m, w), TaskTypeTask(m, w), NativeTask(m, None, w)},
         CheckTask(m, t)
  PROVE  \E families \in SearchLists : t = FitTask(m, Wish(families, role))
<1>1. w \in VendorWords /\ w # None
      /\ w \notin {Bare("classification"), Bare("clustering")}
  <2>1. \A name : Bare(name) \in {Bare("classification"), Bare("clustering")} =>
          name \in {"classification", "clustering"}
    BY DEF Bare
  <2>2. \A name : Bare(name) = None => name = "none"  BY DEF Bare, None
  <2> QED  BY <2>1, <2>2, InputWord, TaskTypeWord
           DEF VendorWords, InputTypes, TaskTypes, QueryWords, PassageWords
<1>2. w \notin m.enum /\ Refusal \notin m.enum /\ Refusal # None
  BY <1>1, NotForSale
<1>3. t \notin {w, Refusal}  BY <1>1, <1>2 DEF CheckTask
<1>4. w \in DOMAIN InputTypeRoles =>
        \E families \in SearchLists : InputTypeRoles[w] = Wish(families, role)
  <2>1. \A a, b : Bare(a) = Bare(b) => a = b  BY DEF Bare
  <2> QED  BY <2>1, InputWord DEF QueryWords, PassageWords, InputTypes, SearchLists
<1>5. w \in DOMAIN TaskTypeRoles =>
        \E families \in SearchLists : TaskTypeRoles[w] = Wish(families, role)
  <2>1. \A a, b : Bare(a) = Bare(b) => a = b  BY DEF Bare
  <2> QED  BY <2>1, TaskTypeWord DEF QueryWords, PassageWords, TaskTypes, SearchLists
<1>6. CASE t = InputTypeTask(m, w)
  BY <1>1, <1>3, <1>4, <1>6 DEF InputTypeTask, NamedTask
<1>7. CASE t = TaskTypeTask(m, w)
  BY <1>1, <1>3, <1>5, <1>7 DEF TaskTypeTask, NamedTask
<1>8. CASE t = NativeTask(m, None, w)
  BY <1>1, <1>3, <1>5, <1>8 DEF NativeTask
<1> QED  BY <1>6, <1>7, <1>8

(* A task of the image means itself in every vendor's field.                *)
LEMMA NameMeansItself ==
  ASSUME NEW m \in Images, m.verb = "embed", NEW name \in m.enum
  PROVE  /\ NativeTask(m, None, name) = name
         /\ InputTypeTask(m, name) = name
         /\ TaskTypeTask(m, name) = name
<1>1. name # None  BY NotForSale
<1>2. NamedTask(m, name) = name  BY DEF NamedTask
<1>3. name \in VendorWords => name \in {Bare("classification"), Bare("clustering")}
  BY NotForSale
<1>4. \A a, b : Bare(a) = Bare(b) => a = b  BY DEF Bare
<1>5. Bare("classification") \notin DOMAIN TaskTypeRoles
      /\ Bare("clustering") \notin DOMAIN TaskTypeRoles
  BY <1>4, TaskTypeWord DEF TaskTypes
<1>6. name \notin DOMAIN TaskTypeRoles  BY <1>3, <1>5 DEF VendorWords
<1>7. \A f \in {"classification", "clustering"} : \A families :
        /\ name = Bare(f) /\ DOMAIN families \in SUBSET Nat
        /\ 1 \in DOMAIN families /\ families[1] = f
        /\ \A i \in DOMAIN families : 1 <= i
        => FitTask(m, Wish(families, "none")) = name
  <2> TAKE f \in {"classification", "clustering"}
  <2> TAKE families
  <2> HAVE /\ name = Bare(f) /\ DOMAIN families \in SUBSET Nat
           /\ 1 \in DOMAIN families /\ families[1] = f
           /\ \A i \in DOMAIN families : 1 <= i
  <2> DEFINE wish   == Wish(families, "none")
             served == {g \in ToSet(families) :
                          {<<g, "none">>, Bare(g)} \cap m.enum # {}}
             family == FirstIn(families, served, "none")
  <2>1. f \in served  BY DEF ToSet, Bare
  <2>2. family = f
    <3> HIDE DEF served
    <3>1. PICK i \in DOMAIN families :
            /\ FirstIn(families, served, "none") = families[i]
            /\ \A j \in DOMAIN families : families[j] \in served => i <= j
      BY <2>1, FirstInIs
    <3>2. i <= 1 /\ 1 <= i /\ i \in Nat  BY <2>1, <3>1
    <3>3. i = 1  BY <3>2
    <3> QED  BY <3>1, <3>3
  <2>3. wish.families = families /\ wish.role = "none"  BY DEF Wish
  <2>4. <<f, "none">> = name  BY DEF Bare
  <2>5. FitTask(m, wish) = IF family # "none"
                           THEN IF <<family, "none">> \in m.enum
                                THEN <<family, "none">> ELSE Bare(family)
                           ELSE FitTask(m, wish)
    BY <2>3 DEF FitTask
  <2> HIDE DEF family
  <2> QED  BY <2>2, <2>4, <2>5
<1>8. InputTypeTask(m, name) = name
  <2>1. CASE name \notin DOMAIN InputTypeRoles
    BY <1>1, <1>2, <2>1 DEF InputTypeTask
  <2>2. CASE name = Bare("classification")
    <3>1. InputTypeRoles[name] = Wish(<<"classification">>, "none")
      BY <2>2, InputWord
    <3>2. FitTask(m, Wish(<<"classification">>, "none")) = name  BY <1>7, <2>2
    <3> QED  BY <1>1, <1>2, <3>1, <3>2 DEF InputTypeTask
  <2>3. CASE name = Bare("clustering")
    <3>1. InputTypeRoles[name] = Wish(<<"clustering", "separation">>, "none")
      BY <2>3, InputWord
    <3>2. FitTask(m, Wish(<<"clustering", "separation">>, "none")) = name
      BY <1>7, <2>3
    <3> QED  BY <1>1, <1>2, <3>1, <3>2 DEF InputTypeTask
  <2> QED  BY <1>3, <2>1, <2>2, <2>3 DEF VendorWords
<1> QED  BY <1>1, <1>2, <1>6, <1>8 DEF NativeTask, TaskTypeTask

(* Whichever field a vendor's word is written in, it is looked up as it is. *)
LEMMA WordRead ==
  ASSUME req \in Calls, EmbedsNow, NEW p \in DOMAIN req.inputs,
         WordOf(p) \in QueryWords \cup PassageWords
  PROVE  TaskOf(p) \in {InputTypeTask(image, WordOf(p)),
                       TaskTypeTask(image, WordOf(p)),
                       NativeTask(image, None, WordOf(p))}
<1>1. req.route \in Embeds  BY DEF EmbedsNow
<1>2. WordOf(p) # None
  BY DEF QueryWords, PassageWords, Bare, None
<1>3. /\ req.route \in Gemini => Want(p).inputType = None
      /\ req.route \in {"cohere", "voyage"} => Want(p).task = None
  BY WantIsWritten DEF WantsAre
<1>4. CASE req.route = "jina"
  BY <1>4 DEF TaskOf, WordOf, NativeTask, Gemini
<1>5. CASE req.route \in {"cohere", "voyage"}
  BY <1>2, <1>3, <1>5 DEF TaskOf, WordOf, Gemini
<1>6. CASE req.route \in Gemini
  BY <1>3, <1>6 DEF TaskOf, WordOf, Gemini
<1> QED  BY <1>1, <1>4, <1>5, <1>6 DEF Embeds

(* A row that has an encoding was asked for with a task the image has, and  *)
(* was prompted as this task is, or not at all in a call that is not all    *)
(* text.                                                                    *)
PromptedAs(v, p) ==
  LET key == ResolveTask(image, TaskOf(p)).prompt
  IN  /\ image.verb = "embed" /\ CheckTask(image, TaskOf(p))
      /\ v.prompt \in {None, key}
      /\ (\A q \in DOMAIN rows : IsString(rows[q])) => v.prompt = key
Prompted ==
  \A p \in DOMAIN ordered : ordered[p] # NotYet => PromptedAs(ordered[p], p)

(* What the forward of a call puts before the texts of its i-th row.        *)
LEMMA VectorPrompted ==
  ASSUME AskedInv, Here("embed"), NEW n \in Nat \ {0},
         NEW group \in [1..n -> DOMAIN rows],
         \A i \in 1..n : KeyOf(group[i]) = KeyOf(group[1]),
         EmbedVerdict(group) = 200, NEW i \in 1..n
  PROVE  PromptedAs(Vector(group, i), group[i])
<1> DEFINE p == group[i]
           v == Vector(group, i)
           how == ResolveTask(image, tasks[group[1]])
<1>1. p \in DOMAIN rows /\ tasks[p] = TaskOf(p)  BY AtEmbed
<1>2. tasks[p] = tasks[group[1]]
  <2>1. KeyOf(p) = KeyOf(group[1])  OBVIOUS
  <2> QED  BY <2>1, SameKey
<1>3. image.verb = "embed" /\ CheckTask(image, TaskOf(p))
  BY <1>1, <1>2, EmbedVerdictIs
<1>4. v.prompt = IF \A j \in DOMAIN group : IsString(rows[group[j]])
                 THEN how.prompt ELSE None
  BY DEF Vector
<1>5. how = ResolveTask(image, TaskOf(p))  BY <1>1, <1>2
<1>6. \A j \in DOMAIN group : group[j] \in DOMAIN rows  OBVIOUS
<1> HIDE DEF v, how, p
<1>7. PromptedAs(v, p)  BY <1>3, <1>4, <1>5, <1>6 DEF PromptedAs
<1> QED  BY <1>7 DEF v, p

(* A step that is no call of the engine leaves the encodings and, once      *)
(* there may be any, the rows.                                              *)
LEMMA OthersLeave ==
  ASSUME Next \/ UNCHANGED vars, ~Embed
  PROVE  /\ UNCHANGED <<image, tok, req, ordered>>
         /\ Here("embed") => rows' = rows
<1> USE DEF Check, Refuse
<1>1. CASE Validate  BY <1>1 DEF Validate
<1>2. CASE RejectForeignModel  BY <1>2 DEF RejectForeignModel
<1>3. CASE RequireVerb  BY <1>3 DEF RequireVerb
<1>4. CASE Stream  BY <1>4 DEF Stream
<1>5. CASE RequireMultimodal  BY <1>5 DEF RequireMultimodal
<1>6. CASE InferenceKwargs  BY <1>6 DEF InferenceKwargs
<1>7. CASE ResolveTasks  BY <1>7 DEF ResolveTasks
<1>8. CASE ParseInput
  <2>1. UNCHANGED <<image, tok, req, ordered>>  BY <1>8 DEF ParseInput
  <2>2. ~Here("embed")  BY <1>8 DEF ParseInput, At, Here
  <2> QED  BY <2>1, <2>2
<1>9. CASE AllParsed  BY <1>9 DEF AllParsed
<1>10. CASE TruncateTexts
  <2>1. UNCHANGED <<image, tok, req, ordered>>  BY <1>10 DEF TruncateTexts
  <2>2. ~Here("embed")  BY <1>10 DEF TruncateTexts, At, Here
  <2> QED  BY <2>1, <2>2
<1>11. CASE EmbedAnswers  BY <1>11 DEF EmbedAnswers
<1>12. CASE Rerank  BY <1>12 DEF Rerank
<1>13. CASE Generate  BY <1>13 DEF Generate
<1>14. CASE Answered \/ UNCHANGED vars  BY <1>14 DEF Answered, vars
<1> QED
  BY <1>1, <1>2, <1>3, <1>4, <1>5, <1>6, <1>7, <1>8, <1>9, <1>10, <1>11, <1>12,
     <1>13, <1>14 DEF Next

(* Every step of a handler keeps the prompts as they were asked for.        *)
LEMMA NextPrompted == AskedInv /\ Prompted /\ [Next]_vars => Prompted'
<1> SUFFICES ASSUME AskedInv, Prompted, [Next]_vars  PROVE Prompted'  OBVIOUS
<1>1. ASSUME UNCHANGED <<image, tok, req, rows>>
      PROVE  \A v, p : PromptedAs(v, p) => PromptedAs(v, p)'
  <2>1. \A p : TaskOf(p)' = TaskOf(p)  BY <1>1, SameRequest
  <2> QED  BY <1>1, <2>1 DEF PromptedAs
<1>2. CASE ~Embed
  <2>1. /\ UNCHANGED <<image, tok, req, ordered>>
        /\ Here("embed") => rows' = rows
    BY <1>2, OthersLeave
  <2>2. CASE Here("embed")
    BY <1>1, <2>1, <2>2 DEF Prompted, NotYet
  <2>3. CASE ~Here("embed")
    BY <2>1, <2>3, NoneYet DEF Prompted, NotYet
  <2> QED  BY <2>2, <2>3
<1>3. CASE Embed
  <2>1. /\ At("embed") /\ Here("embed") /\ Group # <<>>
        /\ UNCHANGED <<image, tok, req, rows>>
    BY <1>3 DEF Embed, Refuse, At, Here
  <2>2. CASE ordered' = ordered  BY <1>1, <2>1, <2>2 DEF Prompted, NotYet
  <2>3. CASE /\ EmbedVerdict(Group) = 200
             /\ ordered' =
                  [p \in DOMAIN ordered |->
                     IF p \in Members(Group)
                     THEN [i \in DOMAIN Group |-> Vector(Group, i)][PositionIn(Group, p)]
                     ELSE ordered[p]]
    <3>1. PICK n \in Nat \ {0} :
            /\ Group \in [1..n -> DOMAIN rows]
            /\ \A i \in 1..n : KeyOf(Group[i]) = KeyOf(Group[1])
      BY <2>1, GroupIs
    <3>2. ASSUME NEW p \in DOMAIN ordered, ordered'[p] # NotYet
          PROVE  PromptedAs(ordered'[p], p)
      <4>1. CASE p \in Members(Group)
        <5> DEFINE i == PositionIn(Group, p)
        <5>1. i \in DOMAIN Group /\ Group[i] = p /\ DOMAIN Group = 1..n
          <6>1. \E j \in DOMAIN Group : Group[j] = p  BY <4>1 DEF Members
          <6> QED  BY <3>1, <6>1 DEF PositionIn
        <5>2. ordered'[p] = [j \in DOMAIN Group |-> Vector(Group, j)][i]
          BY <2>3, <4>1
        <5> HIDE DEF i
        <5>3. ordered'[p] = Vector(Group, i)  BY <5>1, <5>2
        <5>4. PromptedAs(Vector(Group, i), Group[i])
          BY <2>1, <2>3, <3>1, <5>1, VectorPrompted
        <5> QED  BY <5>1, <5>3, <5>4
      <4>2. CASE p \notin Members(Group)
        BY <2>3, <3>2, <4>2 DEF Prompted
      <4> QED  BY <4>1, <4>2
    <3>3. DOMAIN ordered' = DOMAIN ordered  BY <2>3
    <3>4. ASSUME NEW p \in DOMAIN ordered, ordered'[p] # NotYet
          PROVE  PromptedAs(ordered[p], p)'
      <4> DEFINE v == ordered'[p]
      <4>1. PromptedAs(v, p)  BY <3>2, <3>4
      <4> QED  BY <1>1, <2>1, <4>1 DEF PromptedAs
    <3> QED  BY <3>3, <3>4 DEF Prompted, NotYet
  <2> QED  BY <1>3, <2>2, <2>3 DEF Embed, Refuse
<1> QED  BY <1>2, <1>3

(* A task an image serves reaches its model unchanged through every field,  *)
(* and a query or a document is never prompted as the other, nor without    *)
(* its own prompt, for every image of the catalog's kinds.                  *)
THEOREM TasksReachTheModel == Spec => []TaskSurvives
<1>1. AskedInv /\ Prompted => TaskSurvives
  <2> SUFFICES ASSUME AskedInv, Prompted  PROVE TaskSurvives  OBVIOUS
  <2>1. image \in Images /\ req \in Calls  BY DEF AskedInv, Shape
  <2>2. image.verb = "embed" => \A name \in image.enum :
          /\ NativeTask(image, None, name) = name
          /\ InputTypeTask(image, name) = name
          /\ TaskTypeTask(image, name) = name
    BY <2>1, NameMeansItself
  <2>3. ASSUME EmbedsNow, NEW p \in DOMAIN ordered
        PROVE  /\ RoleKept(p, QueryWords, QueryPrompt, PassagePrompt)
               /\ RoleKept(p, PassageWords, PassagePrompt, QueryPrompt)
    <3> DEFINE t   == TaskOf(p)
               key == ResolveTask(image, t).prompt
    <3>1. PromptedAs(ordered[p], p)
      BY <2>3 DEF AskedInv, Encoded, Prompted
    <3>2. /\ image.verb = "embed" /\ CheckTask(image, t)
          /\ ordered[p].prompt \in {None, key}
          /\ (\A q \in DOMAIN rows : IsString(rows[q])) => ordered[p].prompt = key
      BY <3>1 DEF PromptedAs
    <3>3. /\ WordOf(p) \in QueryWords => KeepsQuery(image, key)
          /\ WordOf(p) \in PassageWords => KeepsPassage(image, key)
      <4>1. CASE image.enum = {}
        <5>1. image.prompts = {}  BY <2>1, <3>2, <4>1, VocabularyAssumption
        <5> QED  BY <5>1, KeptByNone
      <4>2. ASSUME image.enum # {}, NEW role \in {"query", "passage"},
                   WordOf(p) \in IF role = "query" THEN QueryWords ELSE PassageWords
            PROVE  IF role = "query" THEN KeepsQuery(image, key)
                                     ELSE KeepsPassage(image, key)
        <5> DEFINE w == WordOf(p)
        <5>1. t \in {InputTypeTask(image, w), TaskTypeTask(image, w),
                     NativeTask(image, None, w)}
          <6>1. p \in DOMAIN req.inputs  BY DEF AskedInv, Encoded
          <6>2. w \in QueryWords \cup PassageWords  BY <4>2
          <6> QED  BY <2>1, <2>3, <6>1, <6>2, WordRead
        <5> HIDE DEF w, t
        <5>2. \E families \in SearchLists : t = FitTask(image, Wish(families, role))
          BY <2>1, <3>2, <4>2, <5>1, SearchWord DEF w
        <5> QED  BY <2>1, <3>2, <4>2, <5>2, RoleIsKept
      <4> QED  BY <4>1, <4>2
    <3>4. ~QueryPrompt(None) /\ ~PassagePrompt(None)
      BY DEF QueryPrompt, PassagePrompt, None, Bare, Role
    <3> HIDE DEF key
    <3>5. RoleKept(p, QueryWords, QueryPrompt, PassagePrompt)
      BY <3>2, <3>3, <3>4 DEF RoleKept, KeepsQuery
    <3>6. RoleKept(p, PassageWords, PassagePrompt, QueryPrompt)
      BY <3>2, <3>3, <3>4 DEF RoleKept, KeepsPassage
    <3> QED  BY <3>5, <3>6
  <2> QED  BY <2>2, <2>3 DEF TaskSurvives
<1>2. Init => Prompted  BY DEF Init, Prompted
<1> QED  BY <1>1, <1>2, InitAsked, NextAsked, NextPrompted, PTL DEF Spec
=============================================================================
