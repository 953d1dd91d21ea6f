---------------------------- MODULE ReadersProofs ----------------------------
(***************************************************************************)
(* Theorems about the readers of what gpg prints, for texts of any length  *)
(* and any number of slots of a card.                                      *)
(***************************************************************************)
EXTENDS Readers, FiniteSetTheorems, TLAPS

-----------------------------------------------------------------------------
(* Numbers in their order. *)

Rising(s) == \A k, m \in DOMAIN s : k < m => s[k] < s[m]
Covers(s, S) == \A i : i \in S <=> \E k \in DOMAIN s : s[k] = i

\* The rank of a number grows with it, from 1 to how many there are.
LEMMA RankGrows ==
  ASSUME NEW S \in SUBSET Nat, IsFiniteSet(S)
  PROVE  /\ Cardinality(S) \in Nat
         /\ \A i \in S : Rank(S, i) \in 1 .. Cardinality(S)
         /\ \A i, j \in S : i < j => Rank(S, i) < Rank(S, j)
<1> DEFINE U(i) == {j \in S : j <= i}
<1>1. Cardinality(S) \in Nat
  BY FS_CardinalityType
<1>2. \A i : IsFiniteSet(U(i)) /\ Cardinality(U(i)) \in Nat /\ Cardinality(U(i)) <= Cardinality(S)
  BY FS_Subset, FS_CardinalityType
<1>3. ASSUME NEW i \in S PROVE Rank(S, i) \in 1 .. Cardinality(S)
  <2>1. U(i) # {}
    OBVIOUS
  <2>2. Cardinality(U(i)) # 0
    BY <1>2, <2>1, FS_EmptySet
  <2>3. QED
    BY <1>1, <1>2, <2>2 DEF Rank
<1>4. ASSUME NEW i \in S, NEW j \in S, i < j PROVE Rank(S, i) < Rank(S, j)
  <2>1. U(i) \in SUBSET U(j) /\ U(i) # U(j)
    <3>1. i \in Nat /\ j \in Nat /\ \A x \in S : x \in Nat
      OBVIOUS
    <3>2. j \in U(j) /\ j \notin U(i)
      BY <1>4, <3>1
    <3>3. \A x \in U(i) : x \in U(j)
      BY <1>4, <3>1
    <3>4. QED
      BY <3>2, <3>3
  <2> HIDE DEF U
  <2>2. Cardinality(U(i)) < Cardinality(U(j))
    BY <1>2, <2>1, FS_Subset
  <2>3. QED
    BY <2>2 DEF Rank, U
<1>5. QED
  BY <1>1, <1>3, <1>4

\* InOrder lists the numbers of a finite set, each once and the smaller first.
LEMMA InOrderLists ==
  ASSUME NEW S \in SUBSET Nat, IsFiniteSet(S)
  PROVE  /\ Cardinality(S) \in Nat /\ InOrder(S) \in Seq(S)
         /\ DOMAIN InOrder(S) = 1 .. Cardinality(S) /\ Len(InOrder(S)) = Cardinality(S)
         /\ Rising(InOrder(S)) /\ Covers(InOrder(S), S)
<1> DEFINE n == Cardinality(S)
           rank == [i \in S |-> Rank(S, i)]
<1>1. n \in Nat
  BY RankGrows
<1>2. rank \in Injection(S, 1 .. n)
  <2>1. rank \in [S -> 1 .. n]
    BY RankGrows
  <2>2. \A i, j \in S : rank[i] = rank[j] => i = j
    <3> SUFFICES ASSUME NEW i \in S, NEW j \in S, rank[i] = rank[j], i # j PROVE FALSE
      OBVIOUS
    <3>1. i < j \/ j < i
      OBVIOUS
    <3>2. Rank(S, i) \in Nat /\ Rank(S, j) \in Nat /\ Rank(S, i) = Rank(S, j)
      BY RankGrows
    <3>3. QED
      BY <3>1, <3>2, RankGrows
  <2>3. QED
    BY <2>1, <2>2 DEF Injection, IsInjective
<1>3. rank \in Surjection(S, 1 .. n)
  <2>1. IsFiniteSet(1 .. n) /\ Cardinality(1 .. n) = n
    BY <1>1, FS_Interval
  <2>2. QED
    BY <1>2, <2>1, FS_Injection
<1>4. \A k \in 1 .. n : \E i \in S : Rank(S, i) = k
  BY <1>3 DEF Surjection
<1>5. \A k \in 1 .. n : InOrder(S)[k] \in S /\ Rank(S, InOrder(S)[k]) = k
  BY <1>4 DEF InOrder
<1>6. DOMAIN InOrder(S) = 1 .. n /\ InOrder(S) \in Seq(S) /\ Len(InOrder(S)) = n
  <2>1. InOrder(S) = [k \in 1 .. n |-> InOrder(S)[k]]
    BY DEF InOrder
  <2>2. InOrder(S) \in [1 .. n -> S]
    BY <1>5, <2>1
  <2>3. QED
    BY <1>1, <2>2
<1>7. Rising(InOrder(S))
  <2> SUFFICES ASSUME NEW k \in 1 .. n, NEW m \in 1 .. n, k < m
               PROVE  InOrder(S)[k] < InOrder(S)[m]
    BY <1>6 DEF Rising
  <2> DEFINE a == InOrder(S)[k]
             b == InOrder(S)[m]
  <2>1. a \in S /\ b \in S /\ Rank(S, a) = k /\ Rank(S, b) = m
    BY <1>5
  <2> HIDE DEF a, b
  <2>2. a < b \/ a = b \/ b < a
    BY <2>1
  <2>3. ~(b < a)
    <3>1. b < a => m < k
      BY <2>1, RankGrows
    <3>2. QED
      BY <1>1, <3>1
  <2>4. a # b
    BY <1>1, <2>1
  <2>5. QED
    BY <2>2, <2>3, <2>4 DEF a, b
<1>8. Covers(InOrder(S), S)
  <2>1. ASSUME NEW i \in S PROVE InOrder(S)[Rank(S, i)] = i
    <3>1. Rank(S, i) \in 1 .. n
      BY RankGrows
    <3>2. /\ InOrder(S)[Rank(S, i)] \in S
          /\ rank[InOrder(S)[Rank(S, i)]] = rank[i]
      BY <1>5, <3>1
    <3>3. QED
      BY <1>2, <3>2 DEF Injection, IsInjective
  <2>2. \A i \in S : Rank(S, i) \in 1 .. n
    BY RankGrows
  <2>3. QED
    BY <1>5, <1>6, <2>1, <2>2 DEF Covers
<1>9. QED
  BY <1>1, <1>6, <1>7, <1>8

\* There is no other way to list them.
LEMMA OnlyOneOrder ==
  ASSUME NEW S \in SUBSET Nat, NEW s \in Seq(S), Rising(s), Covers(s, S)
  PROVE  s = InOrder(S) /\ IsFiniteSet(S) /\ Cardinality(S) = Len(s)
<1> DEFINE n == Len(s)
<1>1. /\ n \in Nat /\ DOMAIN s = 1 .. n /\ s \in [1 .. n -> S]
      /\ \A k \in 1 .. n : k \in Nat /\ s[k] \in S /\ s[k] \in Nat
  <2>1. n \in Nat /\ DOMAIN s = 1 .. n /\ s \in [1 .. n -> S]
    OBVIOUS
  <2>2. \A x \in S : x \in Nat
    OBVIOUS
  <2> HIDE DEF n
  <2>3. \A k \in 1 .. n : k \in Nat /\ s[k] \in S
    BY <2>1
  <2>4. QED
    BY <2>1, <2>2, <2>3
<1> HIDE DEF n
<1>2. IsFiniteSet(1 .. n) /\ Cardinality(1 .. n) = n
  <2>1. n \in Nat
    BY <1>1
  <2>2. QED
    BY <2>1, FS_Interval
<1>3. s \in Bijection(1 .. n, S)
  <2>1. \A k, m \in 1 .. n : s[k] = s[m] => k = m
    <3> SUFFICES ASSUME NEW k \in 1 .. n, NEW m \in 1 .. n, s[k] = s[m], k # m PROVE FALSE
      OBVIOUS
    <3>1. s[k] \in Nat /\ s[m] \in Nat
      BY <1>1
    <3>2. k < m \/ m < k
      BY <1>1
    <3>3. QED
      BY <1>1, <3>1, <3>2 DEF Rising
  <2>2. \A i \in S : \E k \in 1 .. n : s[k] = i
    BY <1>1 DEF Covers
  <2>3. QED
    BY <1>1, <2>1, <2>2 DEF Bijection, Injection, Surjection, IsInjective
<1>4. IsFiniteSet(S) /\ Cardinality(S) = n
  BY <1>2, <1>3, FS_Bijection DEF ExistsBijection
<1>5. ASSUME NEW m \in 1 .. n PROVE Rank(S, s[m]) = m
  <2> DEFINE U == {j \in S : j <= s[m]}
             r == [k \in 1 .. m |-> s[k]]
  <2> m \in Nat /\ 1 .. m \subseteq 1 .. n
    BY <1>1
  <2>1. \A k \in 1 .. m : s[k] \in U
    <3> SUFFICES ASSUME NEW k \in 1 .. m PROVE s[k] <= s[m] /\ s[k] \in S
      OBVIOUS
    <3>1. k \in 1 .. n /\ s[k] \in Nat /\ s[m] \in Nat
      BY <1>1
    <3>2. CASE k = m
      BY <3>1, <3>2, <1>1
    <3>3. CASE k < m
      BY <3>1, <3>3, <1>1 DEF Rising
    <3>4. QED
      BY <3>2, <3>3
  <2>2. \A j \in U : \E k \in 1 .. m : s[k] = j
    <3> SUFFICES ASSUME NEW j \in U PROVE \E k \in 1 .. m : s[k] = j
      OBVIOUS
    <3>1. PICK k \in 1 .. n : s[k] = j
      BY <1>1 DEF Covers
    <3>2. ~(m < k)
      <4>1. m < k => s[m] < s[k]
        BY <1>1, <3>1 DEF Rising
      <4>2. s[k] \in Nat /\ s[m] \in Nat /\ s[k] <= s[m]
        BY <1>1, <3>1
      <4>3. QED
        BY <4>1, <4>2
    <3>3. QED
      BY <1>1, <3>1, <3>2
  <2>3. r \in [1 .. m -> U]
    BY <2>1
  <2>4. \A k, l \in 1 .. m : r[k] = r[l] => k = l
    <3>1. \A k, l \in 1 .. n : s[k] = s[l] => k = l
      BY <1>3 DEF Bijection, Injection, IsInjective
    <3>2. \A k \in 1 .. m : k \in 1 .. n /\ r[k] = s[k]
      BY <1>1
    <3> HIDE DEF r
    <3>3. QED
      BY <3>1, <3>2
  <2>5. \A j \in U : \E k \in 1 .. m : r[k] = j
    BY <2>2
  <2> HIDE DEF r, U
  <2>6. r \in Bijection(1 .. m, U)
    BY <2>3, <2>4, <2>5 DEF Bijection, Injection, Surjection, IsInjective
  <2>7. IsFiniteSet(1 .. m) /\ Cardinality(1 .. m) = m
    BY <1>1, FS_Interval
  <2>8. QED
    BY <2>6, <2>7, FS_Bijection DEF ExistsBijection, Rank, U
<1>6. ASSUME NEW m \in 1 .. n PROVE (CHOOSE i \in S : Rank(S, i) = m) = s[m]
  <2>1. s[m] \in S /\ Rank(S, s[m]) = m
    BY <1>1, <1>5
  <2>2. \A i \in S : Rank(S, i) = m => i = s[m]
    <3> SUFFICES ASSUME NEW i \in S, Rank(S, i) = m PROVE i = s[m]
      OBVIOUS
    <3>1. PICK k \in 1 .. n : s[k] = i
      BY <1>1 DEF Covers
    <3>2. QED
      BY <1>5, <3>1
  <2>3. QED
    BY <2>1, <2>2
<1>7. s = [m \in 1 .. n |-> CHOOSE i \in S : Rank(S, i) = m]
  BY <1>1, <1>6
<1>8. QED
  BY <1>4, <1>7 DEF InOrder, n

\* A number above all the others comes last.
LEMMA OneMoreInOrder ==
  ASSUME NEW S \in SUBSET Nat, IsFiniteSet(S), NEW n \in Nat, \A i \in S : i < n
  PROVE  InOrder(S \cup {n}) = Append(InOrder(S), n)
<1> DEFINE s == InOrder(S)
           t == Append(s, n)
           T == S \cup {n}
<1>1. s \in Seq(S) /\ Rising(s) /\ Covers(s, S)
  BY InOrderLists
<1> HIDE DEF s
<1>2. /\ T \in SUBSET Nat /\ t \in Seq(T) /\ DOMAIN t = 1 .. Len(s) + 1
      /\ Len(s) \in Nat /\ DOMAIN s = 1 .. Len(s)
      /\ t[Len(s) + 1] = n /\ \A k \in 1 .. Len(s) : t[k] = s[k]
      /\ \A k \in 1 .. Len(s) : s[k] \in S
  BY <1>1
<1> HIDE DEF t
<1>3. Rising(t)
  <2> SUFFICES ASSUME NEW k \in 1 .. Len(s) + 1, NEW m \in 1 .. Len(s) + 1, k < m
               PROVE  t[k] < t[m]
    BY <1>2 DEF Rising
  <2>1. k \in 1 .. Len(s)
    BY <1>2
  <2>2. CASE m = Len(s) + 1
    BY <1>2, <2>1, <2>2
  <2>3. CASE m # Len(s) + 1
    BY <1>1, <1>2, <2>1, <2>3 DEF Rising
  <2>4. QED
    BY <2>2, <2>3
<1>4. Covers(t, T)
  <2>1. ASSUME NEW i \in T PROVE \E k \in 1 .. Len(s) + 1 : t[k] = i
    <3>1. CASE i \in S
      <4>1. PICK k \in 1 .. Len(s) : s[k] = i
        BY <1>1, <1>2, <3>1 DEF Covers
      <4>2. k \in 1 .. Len(s) + 1 /\ t[k] = i
        BY <1>2, <4>1
      <4>3. QED
        BY <4>2
    <3>2. CASE i = n
      BY <1>2, <3>2
    <3>3. QED
      BY <3>1, <3>2
  <2>2. ASSUME NEW k \in 1 .. Len(s) + 1 PROVE t[k] \in T
    BY <1>2
  <2>3. QED
    BY <1>2, <2>1, <2>2 DEF Covers
<1>5. QED
  BY <1>2, <1>3, <1>4, OnlyOneOrder DEF t, s

\* The largest of them is the last.
LEMMA LatestIsLargest ==
  ASSUME NEW S \in SUBSET Nat, IsFiniteSet(S)
  PROVE  /\ S = {} => Latest(S) = 0
         /\ S # {} => Latest(S) \in S /\ \A i \in S : i <= Latest(S)
<1>1. ASSUME S # {} PROVE \E i \in S : \A j \in S : i >= j
  <2> DEFINE s == InOrder(S)
             n == Cardinality(S)
  <2>1. n \in Nat /\ s \in Seq(S) /\ DOMAIN s = 1 .. n /\ Len(s) = n /\ Rising(s) /\ Covers(s, S)
    BY InOrderLists
  <2> HIDE DEF s, n
  <2>2. n \in 1 .. n
    BY <1>1, <2>1 DEF Covers
  <2>3. \A k \in 1 .. n : s[n] >= s[k] /\ s[n] \in S
    <3> SUFFICES ASSUME NEW k \in 1 .. n PROVE s[n] >= s[k] /\ s[n] \in S
      OBVIOUS
    <3>1. s[n] \in S /\ s[k] \in S
      BY <2>1, <2>2 DEF Covers
    <3> s[n] \in Nat /\ s[k] \in Nat
      BY <3>1
    <3>2. k = n \/ s[k] < s[n]
      <4>1. k = n \/ k < n
        BY <2>1
      <4>2. QED
        BY <2>1, <2>2, <4>1 DEF Rising
    <3>3. QED
      BY <3>1, <3>2
  <2>4. QED
    BY <2>1, <2>2, <2>3 DEF Covers
<1>2. ASSUME S # {} PROVE Max(S) \in S /\ \A j \in S : Max(S) >= j
  BY <1>1, <1>2 DEF Max
<1>3. QED
  BY <1>2 DEF Latest
\* A number above all the others is the latest.
LEMMA OneMoreIsLatest ==
  ASSUME NEW S \in SUBSET Nat, IsFiniteSet(S), NEW n \in Nat, \A i \in S : i < n
  PROVE  Latest(S \cup {n}) = n
<1> DEFINE T == S \cup {n}
<1>1. T \in SUBSET Nat /\ T # {} /\ n \in T
  OBVIOUS
<1>2. IsFiniteSet(T)
  BY FS_AddElement
<1>3. \A i \in T : i <= n
  BY <1>1
<1> HIDE DEF T
<1>4. Latest(T) \in T /\ n <= Latest(T)
  BY <1>1, <1>2, LatestIsLargest
<1>5. Latest(T) \in Nat /\ Latest(T) <= n
  BY <1>1, <1>3, <1>4
<1>6. QED
  BY <1>4, <1>5 DEF T

-----------------------------------------------------------------------------
(* Lines that are printed, and the section of the text a line begins: up to *)
(* the next line with one of the tags that end it.                          *)

Tagged(t, tags) == {i \in DOMAIN t : t[i].tag \in tags}
UpTo(t, i, ends) == {j \in DOMAIN t : j > i /\ ~\E k \in Tagged(t, ends) : i < k /\ k <= j}
Section(t, i, tag, ends) == Tagged(t, {tag}) \cap UpTo(t, i, ends)
NoneAfter(t, i, ends) == \A k \in Tagged(t, ends) : k <= i

\* The lines in a text are finitely many, and numbers up to its length.
LEMMA LinesOfText ==
  ASSUME NEW L, NEW t \in Seq(L), NEW S \in SUBSET DOMAIN t
  PROVE  /\ Len(t) \in Nat /\ DOMAIN t = 1 .. Len(t)
         /\ S \in SUBSET Nat /\ IsFiniteSet(S) /\ \A i \in S : i \in Nat /\ i < Len(t) + 1
<1>1. Len(t) \in Nat /\ DOMAIN t = 1 .. Len(t)
  OBVIOUS
<1>2. IsFiniteSet(1 .. Len(t))
  BY <1>1, FS_Interval
<1>3. S \in SUBSET (1 .. Len(t))
  BY <1>1
<1>4. IsFiniteSet(S)
  BY <1>2, <1>3, FS_Subset
<1>5. QED
  BY <1>1, <1>3, <1>4

\* One more line is one more of its tag.
LEMMA OneMoreLine ==
  ASSUME NEW L, NEW t \in Seq(L), NEW l \in L
  PROVE  LET u == Append(t, l)  n == Len(t) + 1
         IN  /\ u \in Seq(L) /\ n \in Nat /\ u[n] = l
             /\ DOMAIN u = DOMAIN t \cup {n} /\ n \notin DOMAIN t
             /\ \A i \in DOMAIN t : i \in Nat /\ i < n /\ u[i] = t[i]
             /\ \A tags : Tagged(u, tags)
                  = Tagged(t, tags) \cup (IF l.tag \in tags THEN {n} ELSE {})
<1> DEFINE u == Append(t, l)
           n == Len(t) + 1
<1>1. /\ u \in Seq(L) /\ n \in Nat /\ u[n] = l
      /\ DOMAIN u = 1 .. n /\ DOMAIN t = 1 .. n - 1
      /\ \A i \in 1 .. n - 1 : u[i] = t[i]
  OBVIOUS
<1>2. /\ DOMAIN u = DOMAIN t \cup {n} /\ n \notin DOMAIN t
      /\ \A i \in DOMAIN t : i \in Nat /\ i < n /\ u[i] = t[i]
  BY <1>1
<1>3. ASSUME NEW tags
      PROVE  Tagged(u, tags) = Tagged(t, tags) \cup (IF l.tag \in tags THEN {n} ELSE {})
  <2>1. \A i : i \in Tagged(u, tags) <=> i \in DOMAIN u /\ u[i].tag \in tags
    BY DEF Tagged
  <2>2. \A i : i \in Tagged(t, tags) <=> i \in DOMAIN t /\ t[i].tag \in tags
    BY DEF Tagged
  <2>3. \A i : i \in Tagged(u, tags) <=>
               i \in Tagged(t, tags) \/ (i = n /\ l.tag \in tags)
    BY <1>1, <1>2, <2>1, <2>2
  <2>4. QED
    BY <2>3
<1>4. QED
  BY <1>1, <1>2, <1>3

\* A section gets the line if nothing has ended it; the new line's own is empty.
LEMMA SectionGrows ==
  ASSUME NEW L, NEW t \in Seq(L), NEW l \in L,
         NEW tag, NEW ends, tag \notin ends
  PROVE  LET u == Append(t, l)  n == Len(t) + 1
         IN  /\ Section(u, n, tag, ends) = {}
             /\ \A i \in DOMAIN t :
                  /\ Section(t, i, tag, ends) \in SUBSET DOMAIN t
                  /\ Section(u, i, tag, ends) =
                       Section(t, i, tag, ends)
                         \cup (IF l.tag = tag /\ NoneAfter(t, i, ends) THEN {n} ELSE {})
<1> DEFINE u == Append(t, l)
           n == Len(t) + 1
<1>1. /\ u \in Seq(L) /\ n \in Nat /\ u[n] = l
      /\ DOMAIN u = DOMAIN t \cup {n} /\ n \notin DOMAIN t
      /\ \A i \in DOMAIN t : i \in Nat /\ i < n /\ u[i] = t[i]
      /\ \A tags : Tagged(u, tags)
           = Tagged(t, tags) \cup (IF l.tag \in tags THEN {n} ELSE {})
  BY OneMoreLine
<1>2. \A tags : Tagged(t, tags) \subseteq DOMAIN t
  BY DEF Tagged
<1>3. \A i, j : j \in UpTo(u, i, ends) <=>
        j \in DOMAIN u /\ j > i /\ ~\E k \in Tagged(u, ends) : i < k /\ k <= j
  BY DEF UpTo
<1>4. \A i, j : j \in UpTo(t, i, ends) <=>
        j \in DOMAIN t /\ j > i /\ ~\E k \in Tagged(t, ends) : i < k /\ k <= j
  BY DEF UpTo
<1>5. \A i, j : j \in Section(u, i, tag, ends) <=>
        j \in Tagged(u, {tag}) /\ j \in UpTo(u, i, ends)
  BY DEF Section
<1>6. \A i, j : j \in Section(t, i, tag, ends) <=> j \in Tagged(t, {tag}) /\ j \in UpTo(t, i, ends)
  BY DEF Section
<1>7. Section(u, n, tag, ends) = {}
  <2>1. ASSUME NEW j, j \in Section(u, n, tag, ends) PROVE FALSE
    <3>1. j \in DOMAIN u /\ j > n
      BY <1>3, <1>5, <2>1
    <3>2. QED
      BY <1>1, <3>1
  <2>2. QED
    BY <2>1
<1>8. ASSUME NEW i \in DOMAIN t
      PROVE  Section(u, i, tag, ends) =
               Section(t, i, tag, ends)
                 \cup (IF l.tag = tag /\ NoneAfter(t, i, ends) THEN {n} ELSE {})
  <2>1. ASSUME NEW j \in DOMAIN t
        PROVE  j \in Section(u, i, tag, ends) <=> j \in Section(t, i, tag, ends)
    <3>1. j \in Tagged(u, {tag}) <=> j \in Tagged(t, {tag})
      BY <1>1
    <3>2. \A k : k \in Tagged(u, ends) /\ k <= j <=> k \in Tagged(t, ends) /\ k <= j
      BY <1>1
    <3>3. j \in UpTo(u, i, ends) <=> j \in UpTo(t, i, ends)
      BY <1>1, <1>3, <1>4, <3>2
    <3>4. QED
      BY <1>5, <1>6, <3>1, <3>3
  <2>2. n \in Section(u, i, tag, ends) <=> l.tag = tag /\ NoneAfter(t, i, ends)
    <3>1. n \in Tagged(u, {tag}) <=> l.tag = tag
      BY <1>1, <1>2
    <3>2. CASE l.tag # tag
      BY <1>5, <3>1, <3>2
    <3>3. CASE l.tag = tag
      <4>1. Tagged(u, ends) = Tagged(t, ends)
        BY <1>1, <3>3
      <4>2. \A k \in Tagged(t, ends) : k \in Nat /\ k <= n /\ (k <= i <=> ~(i < k))
        BY <1>1, <1>2
      <4>3. n \in UpTo(u, i, ends) <=> NoneAfter(t, i, ends)
        BY <1>1, <1>3, <4>1, <4>2 DEF NoneAfter
      <4>4. QED
        BY <1>5, <3>1, <3>3, <4>3
    <3>4. QED
      BY <3>2, <3>3
  <2>3. \A j \in Section(u, i, tag, ends) : j \in DOMAIN t \/ j = n
    BY <1>1, <1>3, <1>5
  <2>4. \A j \in Section(t, i, tag, ends) : j \in DOMAIN t
    BY <1>4, <1>6
  <2>5. \A j : j \in Section(u, i, tag, ends) <=>
          j \in Section(t, i, tag, ends) \/ (j = n /\ l.tag = tag /\ NoneAfter(t, i, ends))
    BY <1>1, <2>1, <2>2, <2>3, <2>4
  <2>6. QED
    BY <2>5
<1>9. \A i : Section(t, i, tag, ends) \in SUBSET DOMAIN t
  BY <1>4, <1>6
<1>10. QED
  BY <1>7, <1>8, <1>9

\* The order and the last line of a section that grows, or does not.
LEMMA SectionOrder ==
  ASSUME NEW L, NEW t \in Seq(L), NEW l \in L,
         NEW tag, NEW ends, tag \notin ends, NEW i \in DOMAIN t
  PROVE  LET u == Append(t, l)  n == Len(t) + 1
         IN  /\ InOrder(Section(u, i, tag, ends)) =
                  IF l.tag = tag /\ NoneAfter(t, i, ends)
                  THEN Append(InOrder(Section(t, i, tag, ends)), n)
                  ELSE InOrder(Section(t, i, tag, ends))
             /\ Latest(Section(u, i, tag, ends)) =
                  IF l.tag = tag /\ NoneAfter(t, i, ends) THEN n
                  ELSE Latest(Section(t, i, tag, ends))
<1> DEFINE u == Append(t, l)
           n == Len(t) + 1
           S == Section(t, i, tag, ends)
           T == Section(u, i, tag, ends)
<1>1. S \in SUBSET DOMAIN t
  BY SectionGrows
<1>2. T = IF l.tag = tag /\ NoneAfter(t, i, ends) THEN S \cup {n} ELSE S
  <2>1. T = S \cup (IF l.tag = tag /\ NoneAfter(t, i, ends) THEN {n} ELSE {})
    BY SectionGrows
  <2> HIDE DEF S, T
  <2>2. QED
    BY <2>1
<1>3. n \in Nat
  BY OneMoreLine
<1> HIDE DEF S, T
<1>4. S \in SUBSET Nat /\ IsFiniteSet(S) /\ \A j \in S : j < n
  BY <1>1, LinesOfText
<1>5. InOrder(S \cup {n}) = Append(InOrder(S), n) /\ Latest(S \cup {n}) = n
  BY <1>3, <1>4, OneMoreInOrder, OneMoreIsLatest
<1>6. QED
  BY <1>2, <1>5 DEF S, T
-----------------------------------------------------------------------------
(* The keys. *)

KeyTexts ==
  [tag : {"sec", "ssb"}, given : BOOLEAN] \cup [tag : {"uid"}, form : Forms]
    \cup [tag : {"fpr", "grp", "other"}]
KeysRead == [line : Nat, expires : {"number", "NaN", "0"}, fpr : Nat, grp : Nat]
UidsRead == [line : Nat, name : {"name", "name (comment)", ""}, comment : BOOLEAN]
SecretsRead == [key : KeysRead, uids : Seq(UidsRead), subs : Seq(KeysRead)]
KeyReaders == [keys : Seq(SecretsRead), at : Nat, failed : BOOLEAN]

\* The key (0) or a sub key of the secret key k.
KeyAt(r, k, m) == IF m = 0 THEN r.keys[k].key ELSE r.keys[k].subs[m]

LEMMA AddSecFacts ==
  ASSUME NEW r \in KeyReaders, NEW key \in KeysRead
  PROVE  LET q == AddSec(r, key)  n == Len(r.keys) IN
         /\ q \in KeyReaders /\ q.failed = r.failed /\ q.at = 0
         /\ n \in Nat /\ DOMAIN r.keys = 1 .. n /\ DOMAIN q.keys = 1 .. n + 1 /\ Len(q.keys) = n + 1
         /\ \A k \in 1 .. n : q.keys[k] = r.keys[k]
         /\ q.keys[n + 1] = [key |-> key, uids |-> <<>>, subs |-> <<>>]
<1> DEFINE q == AddSec(r, key)
           n == Len(r.keys)
           x == [key |-> key, uids |-> <<>>, subs |-> <<>>]
<1>1. r.keys \in Seq(SecretsRead) /\ x \in SecretsRead
  BY DEF KeyReaders, SecretsRead
<1>2. q = [r EXCEPT !.keys = Append(r.keys, x), !.at = 0]
  BY DEF AddSec
<1>3. /\ q.keys = Append(r.keys, x) /\ q.failed = r.failed /\ q.at = 0
      /\ q = [keys |-> q.keys, at |-> q.at, failed |-> q.failed] /\ r.failed \in BOOLEAN
  BY <1>2 DEF KeyReaders
<1> HIDE DEF x
<1>4. Append(r.keys, x) \in Seq(SecretsRead)
  BY <1>1
<1>5. q \in KeyReaders
  BY <1>3, <1>4 DEF KeyReaders
<1>6. QED
  BY <1>1, <1>3, <1>5 DEF x

LEMMA AddSsbFacts ==
  ASSUME NEW r \in KeyReaders, NEW key \in KeysRead, Len(r.keys) > 0
  PROVE  LET q == AddSsb(r, key)  n == Len(r.keys) IN
         /\ q \in KeyReaders /\ q.failed = r.failed /\ q.at = Len(r.keys[n].subs) + 1
         /\ n \in Nat /\ DOMAIN r.keys = 1 .. n /\ DOMAIN q.keys = 1 .. n /\ Len(q.keys) = n
         /\ \A k \in 1 .. n - 1 : q.keys[k] = r.keys[k]
         /\ q.keys[n].key = r.keys[n].key /\ q.keys[n].uids = r.keys[n].uids
         /\ q.keys[n].subs = Append(r.keys[n].subs, key)
<1> DEFINE q == AddSsb(r, key)
           n == Len(r.keys)
           x == [r.keys[n] EXCEPT !.subs = Append(r.keys[n].subs, key)]
<1>1. /\ r.keys \in Seq(SecretsRead) /\ n \in Nat /\ DOMAIN r.keys = 1 .. n
      /\ r.keys[n] \in SecretsRead
  BY DEF KeyReaders
<1>2. /\ x \in SecretsRead /\ x.key = r.keys[n].key /\ x.uids = r.keys[n].uids
      /\ x.subs = Append(r.keys[n].subs, key)
  <2>1. \A subs \in Seq(KeysRead) :
          /\ [r.keys[n] EXCEPT !.subs = subs] \in SecretsRead
          /\ [r.keys[n] EXCEPT !.subs = subs].subs = subs
    BY <1>1 DEF SecretsRead
  <2>2. r.keys[n].subs \in Seq(KeysRead)
    BY <1>1 DEF SecretsRead
  <2>3. Append(r.keys[n].subs, key) \in Seq(KeysRead)
    BY <2>2
  <2>4. x.key = r.keys[n].key /\ x.uids = r.keys[n].uids
    BY <1>1 DEF SecretsRead
  <2>5. QED
    BY <2>1, <2>3, <2>4
<1>3. q = [r EXCEPT !.keys = [r.keys EXCEPT ![n] = x], !.at = Len(r.keys[n].subs) + 1]
  BY DEF AddSsb
<1>4. r.keys[n].subs \in Seq(KeysRead)
  BY <1>1 DEF SecretsRead
<1> HIDE DEF x
<1>5. /\ q.keys = [r.keys EXCEPT ![n] = x] /\ q.failed = r.failed
      /\ q.at = Len(r.keys[n].subs) + 1
      /\ q = [keys |-> q.keys, at |-> q.at, failed |-> q.failed] /\ r.failed \in BOOLEAN
  BY <1>3 DEF KeyReaders
<1>6. /\ q.keys \in Seq(SecretsRead) /\ DOMAIN q.keys = 1 .. n /\ Len(q.keys) = n
      /\ q.keys[n] = x /\ \A k \in 1 .. n - 1 : q.keys[k] = r.keys[k]
  BY <1>1, <1>2, <1>5
<1>7. q \in KeyReaders
  <2>1. q.at \in Nat
    BY <1>4, <1>5
  <2> HIDE DEF q, n
  <2>2. QED
    BY <1>5, <1>6, <2>1 DEF KeyReaders
<1>8. QED
  BY <1>1, <1>2, <1>5, <1>6, <1>7

LEMMA AddUidFacts ==
  ASSUME NEW r \in KeyReaders, NEW uid \in UidsRead, Len(r.keys) > 0
  PROVE  LET q == AddUidTo(r, uid)  n == Len(r.keys) IN
         /\ q \in KeyReaders /\ q.failed = r.failed /\ q.at = r.at
         /\ n \in Nat /\ DOMAIN r.keys = 1 .. n /\ DOMAIN q.keys = 1 .. n /\ Len(q.keys) = n
         /\ \A k \in 1 .. n - 1 : q.keys[k] = r.keys[k]
         /\ q.keys[n].key = r.keys[n].key /\ q.keys[n].subs = r.keys[n].subs
         /\ q.keys[n].uids = Append(r.keys[n].uids, uid)
<1> DEFINE q == AddUidTo(r, uid)
           n == Len(r.keys)
           x == [r.keys[n] EXCEPT !.uids = Append(r.keys[n].uids, uid)]
<1>1. /\ r.keys \in Seq(SecretsRead) /\ n \in Nat /\ DOMAIN r.keys = 1 .. n
      /\ r.keys[n] \in SecretsRead
  BY DEF KeyReaders
<1>2. /\ x \in SecretsRead /\ x.key = r.keys[n].key /\ x.subs = r.keys[n].subs
      /\ x.uids = Append(r.keys[n].uids, uid)
  <2>1. \A uids \in Seq(UidsRead) :
          /\ [r.keys[n] EXCEPT !.uids = uids] \in SecretsRead
          /\ [r.keys[n] EXCEPT !.uids = uids].uids = uids
    BY <1>1 DEF SecretsRead
  <2>2. r.keys[n].uids \in Seq(UidsRead)
    BY <1>1 DEF SecretsRead
  <2>3. Append(r.keys[n].uids, uid) \in Seq(UidsRead)
    BY <2>2
  <2>4. x.key = r.keys[n].key /\ x.subs = r.keys[n].subs
    BY <1>1 DEF SecretsRead
  <2>5. QED
    BY <2>1, <2>3, <2>4
<1>3. q = [r EXCEPT !.keys = [r.keys EXCEPT ![n] = x]]
  BY DEF AddUidTo
<1> HIDE DEF x
<1>4. /\ q.keys = [r.keys EXCEPT ![n] = x] /\ q.failed = r.failed /\ q.at = r.at
      /\ q = [keys |-> q.keys, at |-> q.at, failed |-> q.failed]
      /\ r.failed \in BOOLEAN /\ r.at \in Nat
  BY <1>3 DEF KeyReaders
<1>5. /\ q.keys \in Seq(SecretsRead) /\ DOMAIN q.keys = 1 .. n /\ Len(q.keys) = n
      /\ q.keys[n] = x /\ \A k \in 1 .. n - 1 : q.keys[k] = r.keys[k]
  BY <1>1, <1>2, <1>4
<1>6. q \in KeyReaders
  BY <1>4, <1>5 DEF KeyReaders
<1>7. QED
  BY <1>1, <1>2, <1>4, <1>5, <1>6

LEMMA SetFieldFacts ==
  ASSUME NEW r \in KeyReaders, NEW line \in Nat, NEW field \in {"fpr", "grp"},
         Len(r.keys) > 0, r.at <= Len(r.keys[Len(r.keys)].subs)
  PROVE  LET q == SetOfCurrent(r, field, line)  n == Len(r.keys) IN
         /\ q \in KeyReaders /\ q.failed = r.failed /\ q.at = r.at
         /\ n \in Nat /\ DOMAIN r.keys = 1 .. n /\ DOMAIN q.keys = 1 .. n /\ Len(q.keys) = n
         /\ \A k \in 1 .. n - 1 : q.keys[k] = r.keys[k]
         /\ q.keys[n].uids = r.keys[n].uids /\ Len(q.keys[n].subs) = Len(r.keys[n].subs)
         /\ \A m \in 0 .. Len(r.keys[n].subs) :
              KeyAt(q, n, m) =
                IF m = r.at THEN [KeyAt(r, n, m) EXCEPT ![field] = line] ELSE KeyAt(r, n, m)
<1> DEFINE q == SetOfCurrent(r, field, line)
           n == Len(r.keys)
<1>1. /\ r.keys \in Seq(SecretsRead) /\ n \in Nat /\ DOMAIN r.keys = 1 .. n
      /\ r.keys[n] \in SecretsRead
  BY DEF KeyReaders
<1>2. \A key \in KeysRead : [key EXCEPT ![field] = line] \in KeysRead
  BY DEF KeysRead
<1>3. /\ r.keys[n].key \in KeysRead /\ r.keys[n].subs \in Seq(KeysRead) /\ r.at \in Nat
      /\ r.failed \in BOOLEAN
  BY <1>1 DEF SecretsRead, KeyReaders
<1> DEFINE kept == r.keys[n]
           x == IF r.at = 0 THEN [kept EXCEPT !.key[field] = line]
                ELSE [kept EXCEPT !.subs[r.at][field] = line]
           sub == [kept.subs[r.at] EXCEPT ![field] = line]
<1>4. /\ x \in SecretsRead /\ x.uids = kept.uids /\ Len(x.subs) = Len(kept.subs)
      /\ \A m \in 1 .. Len(kept.subs) : x.subs[m] = IF m = r.at THEN sub ELSE kept.subs[m]
      /\ x.key = IF r.at = 0 THEN [kept.key EXCEPT ![field] = line] ELSE kept.key
  <2>1. CASE r.at = 0
    <3>1. x = [kept EXCEPT !.key = [kept.key EXCEPT ![field] = line]]
      BY <2>1
    <3>2. [kept.key EXCEPT ![field] = line] \in KeysRead
      BY <1>2, <1>3
    <3>3. \A key \in KeysRead : [kept EXCEPT !.key = key] \in SecretsRead
      BY <1>1 DEF SecretsRead
    <3>4. /\ x.uids = kept.uids /\ x.subs = kept.subs
          /\ x.key = [kept.key EXCEPT ![field] = line]
      BY <1>1, <3>1 DEF SecretsRead
    <3>5. \A m \in 1 .. Len(kept.subs) : m # r.at
      BY <2>1
    <3> HIDE DEF x
    <3>6. QED
      BY <2>1, <3>1, <3>2, <3>3, <3>4, <3>5
  <2>2. CASE r.at # 0
    <3>1. x = [kept EXCEPT !.subs = [kept.subs EXCEPT ![r.at] = sub]]
      BY <2>2
    <3>2. r.at \in 1 .. Len(kept.subs) /\ kept.subs[r.at] \in KeysRead
      BY <1>3, <2>2
    <3>3. sub \in KeysRead
      BY <1>2, <3>2
    <3>4. /\ x.uids = kept.uids /\ x.key = kept.key
          /\ x.subs = [kept.subs EXCEPT ![r.at] = sub]
      BY <1>1, <3>1 DEF SecretsRead
    <3> HIDE DEF sub, x
    <3>5. /\ [kept.subs EXCEPT ![r.at] = sub] \in Seq(KeysRead)
          /\ Len([kept.subs EXCEPT ![r.at] = sub]) = Len(kept.subs)
          /\ \A m \in 1 .. Len(kept.subs) :
               [kept.subs EXCEPT ![r.at] = sub][m] = IF m = r.at THEN sub ELSE kept.subs[m]
      BY <1>3, <3>2, <3>3
    <3>6. \A subs \in Seq(KeysRead) : [kept EXCEPT !.subs = subs] \in SecretsRead
      BY <1>1 DEF SecretsRead
    <3>7. QED
      BY <2>2, <3>1, <3>4, <3>5, <3>6
  <2>3. QED
    BY <2>1, <2>2
<1>5. q = [r EXCEPT !.keys = [r.keys EXCEPT ![n] = x]]
  BY DEF SetOfCurrent
<1> HIDE DEF x
<1>6. /\ q.keys = [r.keys EXCEPT ![n] = x] /\ q.failed = r.failed /\ q.at = r.at
      /\ q = [keys |-> q.keys, at |-> q.at, failed |-> q.failed]
  BY <1>5 DEF KeyReaders
<1>7. /\ q.keys \in Seq(SecretsRead) /\ DOMAIN q.keys = 1 .. n /\ Len(q.keys) = n
      /\ q.keys[n] = x /\ \A k \in 1 .. n - 1 : q.keys[k] = r.keys[k]
  BY <1>1, <1>4, <1>6
<1>8. q \in KeyReaders
  BY <1>3, <1>6, <1>7 DEF KeyReaders
<1>9. ASSUME NEW m \in 0 .. Len(kept.subs)
      PROVE  KeyAt(q, n, m) =
               IF m = r.at THEN [KeyAt(r, n, m) EXCEPT ![field] = line] ELSE KeyAt(r, n, m)
  <2>1. CASE m = 0
    BY <1>4, <1>7, <2>1 DEF KeyAt
  <2>2. CASE m # 0
    <3>1. m \in 1 .. Len(kept.subs)
      BY <1>3, <2>2
    <3>2. QED
      BY <1>4, <1>7, <2>2, <3>1 DEF KeyAt
  <2>3. QED
    BY <2>1, <2>2
<1>10. QED
  BY <1>1, <1>4, <1>6, <1>7, <1>8, <1>9
-----------------------------------------------------------------------------
(* What the server has filed. *)

Count(r) == Len(r.keys)
Subs(r, k) == Len(r.keys[k].subs)
LineAt(r, k, m) == KeyAt(r, k, m).line

\* The key or sub key that fpr and grp lines are put to is the last of all.
Current(r, t) ==
  /\ Count(r) = 0 <=> Tagged(t, {"sec"}) = {}
  /\ \A k \in 1 .. Count(r) : r.keys[k].key.line \in Tagged(t, {"sec"})
  /\ \A k \in 1 .. Count(r) : k # Count(r) => r.keys[k].key.line < r.keys[Count(r)].key.line
  /\ \A k \in 1 .. Count(r) : \A m \in 0 .. Subs(r, k) :
       /\ LineAt(r, k, m) \in Tagged(t, {"sec", "ssb"})
       /\ k # Count(r) \/ m # r.at => LineAt(r, k, m) < LineAt(r, Count(r), r.at)
  /\ Count(r) > 0 =>
       /\ r.at = Subs(r, Count(r))
       /\ NoneAfter(t, r.keys[Count(r)].key.line, {"sec"})
       /\ NoneAfter(t, LineAt(r, Count(r), r.at), {"sec", "ssb"})

PartIn(t, i, tag) == Latest(Section(t, i, tag, {"sec", "ssb"}))
BelongsIn(t, key) ==
  key.fpr = PartIn(t, key.line, "fpr") /\ key.grp = PartIn(t, key.line, "grp")

Owned(t, i, tag) == InOrder(Section(t, i, tag, {"sec"}))
FiledKey(t, s) ==
  LineNumbers(s.subs) = Owned(t, s.key.line, "ssb")
    /\ LineNumbers(s.uids) = Owned(t, s.key.line, "uid")
Filed(r, t) ==
  /\ [k \in 1 .. Count(r) |-> r.keys[k].key.line] = InOrder(Tagged(t, {"sec"}))
  /\ \A k \in 1 .. Count(r) : FiledKey(t, r.keys[k])
  /\ \A k \in 1 .. Count(r) : \A m \in 0 .. Subs(r, k) : BelongsIn(t, KeyAt(r, k, m))

\* A key without an expiry is one whose line has none.
Endless(r, t) ==
  (\E k \in 1 .. Count(r) : \E m \in 0 .. Subs(r, k) : KeyAt(r, k, m).expires = "NaN")
    <=> \E i \in Tagged(t, {"sec", "ssb"}) : ~t[i].given

FiledInv(r, t) == Current(r, t) /\ Filed(r, t) /\ Endless(r, t)

LEMMA ReaderTyped ==
  ASSUME NEW r \in KeyReaders
  PROVE  /\ Count(r) \in Nat /\ DOMAIN r.keys = 1 .. Count(r) /\ r.at \in Nat
         /\ r.failed \in BOOLEAN /\ r.keys \in Seq(SecretsRead)
         /\ \A k \in 1 .. Count(r) :
              /\ Subs(r, k) \in Nat /\ DOMAIN r.keys[k].subs = 1 .. Subs(r, k)
              /\ r.keys[k] \in SecretsRead
              /\ r.keys[k].subs \in Seq(KeysRead) /\ r.keys[k].uids \in Seq(UidsRead)
              /\ \A m \in 0 .. Subs(r, k) : KeyAt(r, k, m) \in KeysRead
<1>1. r.keys \in Seq(SecretsRead) /\ r.at \in Nat /\ r.failed \in BOOLEAN
  BY DEF KeyReaders
<1>2. Count(r) \in Nat /\ DOMAIN r.keys = 1 .. Count(r)
  BY <1>1 DEF Count
<1>3. ASSUME NEW k \in 1 .. Count(r)
      PROVE  /\ Subs(r, k) \in Nat /\ DOMAIN r.keys[k].subs = 1 .. Subs(r, k)
             /\ r.keys[k] \in SecretsRead
             /\ r.keys[k].subs \in Seq(KeysRead) /\ r.keys[k].uids \in Seq(UidsRead)
             /\ \A m \in 0 .. Subs(r, k) : KeyAt(r, k, m) \in KeysRead
  <2>1. r.keys[k] \in SecretsRead
    BY <1>1, <1>2
  <2>2. /\ r.keys[k].subs \in Seq(KeysRead) /\ r.keys[k].uids \in Seq(UidsRead)
        /\ r.keys[k].key \in KeysRead
    BY <2>1 DEF SecretsRead
  <2>3. Subs(r, k) \in Nat /\ DOMAIN r.keys[k].subs = 1 .. Subs(r, k)
    BY <2>2 DEF Subs
  <2>4. ASSUME NEW m \in 0 .. Subs(r, k) PROVE KeyAt(r, k, m) \in KeysRead
    <3>1. m = 0 \/ m \in 1 .. Subs(r, k)
      BY <2>3
    <3>2. QED
      BY <2>2, <2>3, <3>1 DEF KeyAt
  <2>5. QED
    BY <2>1, <2>2, <2>3, <2>4
<1>4. QED
  BY <1>1, <1>2, <1>3

\* Which lines nothing has ended.
LEMMA Positions ==
  ASSUME NEW t \in Seq(KeyTexts), NEW r \in KeyReaders, Current(r, t)
  PROVE  \A k \in 1 .. Count(r) :
           /\ r.keys[k].key.line \in DOMAIN t
           /\ NoneAfter(t, r.keys[k].key.line, {"sec"}) <=> k = Count(r)
           /\ \A m \in 0 .. Subs(r, k) :
                /\ LineAt(r, k, m) \in DOMAIN t
                /\ NoneAfter(t, LineAt(r, k, m), {"sec", "ssb"}) <=> k = Count(r) /\ m = r.at
<1> DEFINE c == Count(r)
<1> SUFFICES ASSUME NEW k \in 1 .. c
             PROVE  /\ r.keys[k].key.line \in DOMAIN t
                    /\ NoneAfter(t, r.keys[k].key.line, {"sec"}) <=> k = c
                    /\ \A m \in 0 .. Subs(r, k) :
                         /\ LineAt(r, k, m) \in DOMAIN t
                         /\ NoneAfter(t, LineAt(r, k, m), {"sec", "ssb"}) <=> k = c /\ m = r.at
  OBVIOUS
<1>1. c \in Nat /\ c > 0 /\ c \in 1 .. c /\ r.at = Subs(r, c) /\ r.at \in 0 .. Subs(r, c)
  <2>1. c \in Nat /\ c > 0 /\ c \in 1 .. c /\ r.at \in Nat
    BY ReaderTyped
  <2>2. r.at = Subs(r, c)
    BY <2>1 DEF Current
  <2>3. QED
    BY <2>1, <2>2
<1>2. \A tags : Tagged(t, tags) \subseteq DOMAIN t
  BY DEF Tagged
<1>3. DOMAIN t \subseteq Nat
  OBVIOUS
<1>4. /\ r.keys[k].key.line \in Tagged(t, {"sec"}) /\ r.keys[c].key.line \in Tagged(t, {"sec"})
      /\ NoneAfter(t, r.keys[c].key.line, {"sec"})
      /\ k # c => r.keys[k].key.line < r.keys[c].key.line
  BY <1>1 DEF Current
<1>5. NoneAfter(t, r.keys[k].key.line, {"sec"}) <=> k = c
  <2> DEFINE a == r.keys[k].key.line
             b == r.keys[c].key.line
  <2>1. a \in Nat /\ b \in Nat /\ b \in Tagged(t, {"sec"}) /\ (k # c => a < b)
        /\ (k = c => a = b) /\ NoneAfter(t, b, {"sec"})
    BY <1>2, <1>3, <1>4
  <2> HIDE DEF a, b
  <2>2. a < b => ~NoneAfter(t, a, {"sec"})
    BY <2>1 DEF NoneAfter
  <2>3. QED
    BY <2>1, <2>2 DEF a
<1>6. ASSUME NEW m \in 0 .. Subs(r, k)
      PROVE  /\ LineAt(r, k, m) \in DOMAIN t
             /\ NoneAfter(t, LineAt(r, k, m), {"sec", "ssb"}) <=> k = c /\ m = r.at
  <2> DEFINE a == LineAt(r, k, m)
             b == LineAt(r, c, r.at)
  <2>1. /\ a \in Tagged(t, {"sec", "ssb"}) /\ b \in Tagged(t, {"sec", "ssb"})
        /\ NoneAfter(t, b, {"sec", "ssb"}) /\ (k # c \/ m # r.at => a < b)
    BY <1>1 DEF Current
  <2>2. k = c /\ m = r.at => a = b
    OBVIOUS
  <2> HIDE DEF a, b
  <2>3. a \in DOMAIN t /\ a \in Nat /\ b \in Nat
    BY <1>2, <1>3, <2>1
  <2>4. a < b => ~NoneAfter(t, a, {"sec", "ssb"})
    BY <2>1, <2>3 DEF NoneAfter
  <2>5. QED
    BY <2>1, <2>2, <2>3, <2>4 DEF a
<1>7. QED
  BY <1>2, <1>4, <1>5, <1>6

\* The lines of a list with one more.
LEMMA OneMoreNumber ==
  ASSUME NEW X, NEW s \in Seq(X), NEW x \in X, \A y \in X : y.line \in Nat
  PROVE  LineNumbers(Append(s, x)) = Append(LineNumbers(s), x.line)
<1> DEFINE n == Len(s)
           F == LineNumbers(s)
           G == LineNumbers(Append(s, x))
<1>1. n \in Nat /\ \A i \in 1 .. n : s[i] \in X
  OBVIOUS
<1>2. DOMAIN s = 1 .. n /\ DOMAIN Append(s, x) = 1 .. n + 1
      /\ Append(s, x)[n + 1] = x /\ \A i \in 1 .. n : Append(s, x)[i] = s[i]
  OBVIOUS
<1>3. F = [i \in 1 .. n |-> s[i].line] /\ G = [i \in 1 .. n + 1 |-> Append(s, x)[i].line]
  BY <1>2 DEF LineNumbers
<1> HIDE DEF F, G, n
<1>4. F \in Seq(Nat) /\ Len(F) = n /\ DOMAIN F = 1 .. n
  <2>1. F \in [1 .. n -> Nat]
    BY <1>1, <1>3
  <2>2. QED
    BY <1>1, <2>1
<1>5. /\ DOMAIN Append(F, x.line) = 1 .. n + 1 /\ Append(F, x.line)[n + 1] = x.line
      /\ \A i \in 1 .. n : Append(F, x.line)[i] = F[i]
      /\ Append(F, x.line) = [i \in 1 .. n + 1 |-> Append(F, x.line)[i]]
  <2>1. x.line \in Nat
    OBVIOUS
  <2> HIDE DEF F
  <2>2. Append(F, x.line) \in Seq(Nat) /\ Len(Append(F, x.line)) = n + 1
    BY <1>4, <2>1
  <2>3. DOMAIN Append(F, x.line) = 1 .. n + 1 /\ Append(F, x.line)[n + 1] = x.line
        /\ \A i \in 1 .. n : Append(F, x.line)[i] = F[i]
    BY <1>1, <1>4, <2>1
  <2>4. \A H \in Seq(Nat) : H = [i \in 1 .. Len(H) |-> H[i]]
    OBVIOUS
  <2>5. QED
    BY <2>2, <2>3, <2>4
<1>6. \A i \in 1 .. n + 1 : G[i] = Append(F, x.line)[i]
  <2> SUFFICES ASSUME NEW i \in 1 .. n + 1 PROVE G[i] = Append(F, x.line)[i]
    OBVIOUS
  <2>1. CASE i = n + 1
    BY <1>2, <1>3, <1>5, <2>1
  <2>2. CASE i # n + 1
    <3>1. i \in 1 .. n
      BY <1>1, <2>2
    <3>2. QED
      BY <1>2, <1>3, <1>5, <3>1
  <2>3. QED
    BY <2>1, <2>2
<1>7. QED
  BY <1>3, <1>5, <1>6 DEF F, G

\* Sections of keys, with one more line.
LEMMA KeySections ==
  ASSUME NEW t \in Seq(KeyTexts), NEW l \in KeyTexts
  PROVE  LET u == Append(t, l)  n == Len(t) + 1
         IN  /\ \A tag \in {"ssb", "uid"} :
                  /\ Owned(u, n, tag) = <<>>
                  /\ \A i \in DOMAIN t :
                       Owned(u, i, tag) = IF l.tag = tag /\ NoneAfter(t, i, {"sec"})
                                          THEN Append(Owned(t, i, tag), n) ELSE Owned(t, i, tag)
             /\ \A tag \in {"fpr", "grp"} :
                  /\ PartIn(u, n, tag) = 0
                  /\ \A i \in DOMAIN t :
                       PartIn(u, i, tag) = IF l.tag = tag /\ NoneAfter(t, i, {"sec", "ssb"})
                                           THEN n ELSE PartIn(t, i, tag)
<1> DEFINE u == Append(t, l)
           n == Len(t) + 1
<1>1. InOrder({}) = <<>> /\ Latest({}) = 0
  BY FS_EmptySet DEF InOrder, Latest
<1>2. ASSUME NEW tag \in {"ssb", "uid"}
      PROVE  /\ Owned(u, n, tag) = <<>>
             /\ \A i \in DOMAIN t :
                  Owned(u, i, tag) = IF l.tag = tag /\ NoneAfter(t, i, {"sec"})
                                     THEN Append(Owned(t, i, tag), n) ELSE Owned(t, i, tag)
  <2> DEFINE ends == {"sec"}
  <2>1. tag \notin ends
    OBVIOUS
  <2>2. \A i : /\ Owned(u, i, tag) = InOrder(Section(u, i, tag, ends))
               /\ Owned(t, i, tag) = InOrder(Section(t, i, tag, ends))
    BY DEF Owned
  <2> HIDE DEF ends
  <2>3. Section(u, n, tag, ends) = {}
    BY <2>1, SectionGrows
  <2>4. \A i \in DOMAIN t : InOrder(Section(u, i, tag, ends)) =
          IF l.tag = tag /\ NoneAfter(t, i, ends)
          THEN Append(InOrder(Section(t, i, tag, ends)), n) ELSE InOrder(Section(t, i, tag, ends))
    BY <2>1, SectionOrder
  <2> HIDE DEF u, n
  <2>5. /\ Owned(u, n, tag) = <<>>
        /\ \A i \in DOMAIN t :
             Owned(u, i, tag) = IF l.tag = tag /\ NoneAfter(t, i, ends)
                                THEN Append(Owned(t, i, tag), n) ELSE Owned(t, i, tag)
    BY <1>1, <2>2, <2>3, <2>4
  <2>6. QED
    BY <2>5 DEF ends
<1>3. ASSUME NEW tag \in {"fpr", "grp"}
      PROVE  /\ PartIn(u, n, tag) = 0
             /\ \A i \in DOMAIN t :
                  PartIn(u, i, tag) = IF l.tag = tag /\ NoneAfter(t, i, {"sec", "ssb"})
                                      THEN n ELSE PartIn(t, i, tag)
  <2> DEFINE ends == {"sec", "ssb"}
  <2>1. tag \notin ends
    OBVIOUS
  <2>2. \A i : /\ PartIn(u, i, tag) = Latest(Section(u, i, tag, ends))
               /\ PartIn(t, i, tag) = Latest(Section(t, i, tag, ends))
    BY DEF PartIn
  <2> HIDE DEF ends
  <2>3. Section(u, n, tag, ends) = {}
    BY <2>1, SectionGrows
  <2>4. \A i \in DOMAIN t : Latest(Section(u, i, tag, ends)) =
          IF l.tag = tag /\ NoneAfter(t, i, ends) THEN n ELSE Latest(Section(t, i, tag, ends))
    BY <2>1, SectionOrder
  <2> HIDE DEF u, n
  <2>5. /\ PartIn(u, n, tag) = 0
        /\ \A i \in DOMAIN t :
             PartIn(u, i, tag) = IF l.tag = tag /\ NoneAfter(t, i, ends)
                                 THEN n ELSE PartIn(t, i, tag)
    BY <1>1, <2>2, <2>3, <2>4
  <2>6. QED
    BY <2>5 DEF ends
<1>4. QED
  BY <1>2, <1>3
\* A sec line.
LEMMA SecStep ==
  ASSUME NEW t \in Seq(KeyTexts), NEW r \in KeyReaders, FiledInv(r, t), NEW given \in BOOLEAN
  PROVE  LET l == [tag |-> "sec", given |-> given]
             q == AddSec(r, Key(Len(t) + 1, ServerNumber(given)))
         IN  q \in KeyReaders /\ FiledInv(q, Append(t, l))
<1> DEFINE l == [tag |-> "sec", given |-> given]
           u == Append(t, l)
           n == Len(t) + 1
           key == Key(n, ServerNumber(given))
           q == AddSec(r, key)
           c == Count(r)
<1>1. /\ u \in Seq(KeyTexts) /\ n \in Nat /\ u[n] = l
      /\ DOMAIN u = DOMAIN t \cup {n} /\ n \notin DOMAIN t
      /\ \A i \in DOMAIN t : i \in Nat /\ i < n /\ u[i] = t[i]
      /\ \A tags : Tagged(u, tags) = Tagged(t, tags) \cup (IF l.tag \in tags THEN {n} ELSE {})
      /\ l \in KeyTexts /\ l.tag = "sec"
  <2>1. l \in KeyTexts /\ l.tag = "sec"
    BY DEF KeyTexts
  <2> HIDE DEF l
  <2>2. QED
    BY <2>1, OneMoreLine
<1>2. key \in KeysRead /\ key.line = n /\ key.fpr = 0 /\ key.grp = 0
      /\ (key.expires = "NaN" <=> ~given)
  BY <1>1 DEF Key, KeysRead, ServerNumber
<1>3. /\ \A tag \in {"ssb", "uid"} :
           Owned(u, n, tag) = <<>> /\ \A i \in DOMAIN t : Owned(u, i, tag) = Owned(t, i, tag)
      /\ \A tag \in {"fpr", "grp"} :
           PartIn(u, n, tag) = 0 /\ \A i \in DOMAIN t : PartIn(u, i, tag) = PartIn(t, i, tag)
  <2>1. \A tag \in {"ssb", "uid", "fpr", "grp"} : l.tag # tag
    OBVIOUS
  <2> HIDE DEF l
  <2>2. QED
    BY <1>1, <2>1, KeySections
<1>4. Tagged(u, {"sec"}) = Tagged(t, {"sec"}) \cup {n}
      /\ Tagged(u, {"sec", "ssb"}) = Tagged(t, {"sec", "ssb"}) \cup {n}
  BY <1>1
<1>5. u[n].given = given
  BY <1>1
<1> HIDE DEF key, l, u, n
<1>6. /\ q \in KeyReaders /\ q.at = 0 /\ c \in Nat /\ Count(q) = c + 1
      /\ DOMAIN r.keys = 1 .. c /\ \A k \in 1 .. c : q.keys[k] = r.keys[k]
      /\ q.keys[c + 1] = [key |-> key, uids |-> <<>>, subs |-> <<>>]
  <2>1. c = Len(r.keys) /\ Count(q) = Len(q.keys)
    BY DEF Count
  <2> HIDE DEF q, c
  <2>2. QED
    BY <1>2, <2>1, AddSecFacts DEF q
<1> HIDE DEF q
<1>7. /\ \A k \in 1 .. c : Subs(q, k) = Subs(r, k) /\ \A m : KeyAt(q, k, m) = KeyAt(r, k, m)
      /\ Subs(q, c + 1) = 0 /\ KeyAt(q, c + 1, 0) = key /\ q.keys[c + 1].key = key
      /\ q.keys[c + 1].subs = <<>> /\ q.keys[c + 1].uids = <<>>
  BY <1>6 DEF Subs, KeyAt
<1>8. /\ \A k \in 1 .. c : r.keys[k].key.line \in DOMAIN t
      /\ \A k \in 1 .. c : \A m \in 0 .. Subs(r, k) : LineAt(r, k, m) \in DOMAIN t
  BY Positions DEF FiledInv
<1>9. \A tags : Tagged(t, tags) \subseteq DOMAIN t
  BY DEF Tagged
<1>10. /\ \A k \in 1 .. c + 1 : k \in 1 .. c \/ k = c + 1
       /\ \A m \in 0 .. 0 : m = 0
  BY <1>6
<1> HIDE DEF c
<1>11. Current(q, u)
  <2>1. NoneAfter(u, n, {"sec"}) /\ NoneAfter(u, n, {"sec", "ssb"})
    BY <1>1, <1>4, <1>9 DEF NoneAfter
  <2>2. \A k \in 1 .. c : q.keys[k].key.line \in Tagged(u, {"sec"}) /\ q.keys[k].key.line < n
    BY <1>1, <1>4, <1>6, <1>8 DEF FiledInv, Current, c
  <2>3. \A k \in 1 .. c : \A m \in 0 .. Subs(q, k) :
          LineAt(q, k, m) \in Tagged(u, {"sec", "ssb"}) /\ LineAt(q, k, m) < n
    <3>1. \A k \in 1 .. c : \A m \in 0 .. Subs(r, k) : LineAt(r, k, m) \in Tagged(t, {"sec", "ssb"})
      BY DEF FiledInv, Current, c
    <3>2. \A k \in 1 .. c : \A m : LineAt(q, k, m) = LineAt(r, k, m)
      BY <1>7 DEF LineAt
    <3>3. QED
      BY <1>1, <1>4, <1>7, <1>8, <3>1, <3>2
  <2>4. LineAt(q, c + 1, 0) = n /\ q.keys[c + 1].key.line = n
    BY <1>2, <1>7 DEF LineAt
  <2>5. \A k \in 1 .. c + 1 : q.keys[k].key.line \in Tagged(u, {"sec"})
    BY <1>4, <1>10, <2>2, <2>4
  <2>6. \A k \in 1 .. c + 1 : \A m \in 0 .. Subs(q, k) :
          /\ LineAt(q, k, m) \in Tagged(u, {"sec", "ssb"})
          /\ k # c + 1 \/ m # 0 => LineAt(q, k, m) < n
    <3>1. \A m \in 0 .. Subs(q, c + 1) : m = 0
      BY <1>7, <1>10
    <3>2. LineAt(q, c + 1, 0) \in Tagged(u, {"sec", "ssb"})
      BY <1>4, <2>4
    <3>3. ASSUME NEW k \in 1 .. c + 1, NEW m \in 0 .. Subs(q, k)
          PROVE  /\ LineAt(q, k, m) \in Tagged(u, {"sec", "ssb"})
                 /\ k # c + 1 \/ m # 0 => LineAt(q, k, m) < n
      <4>1. CASE k \in 1 .. c
        BY <2>3, <4>1
      <4>2. CASE k = c + 1
        BY <3>1, <3>2, <4>2
      <4>3. QED
        BY <1>10, <4>1, <4>2
    <3>4. QED
      BY <3>3
  <2>7. c + 1 > 0 /\ Tagged(u, {"sec"}) # {}
    <3>1. n \in Tagged(u, {"sec"})
      BY <1>4
    <3>2. c + 1 > 0
      BY <1>6
    <3>3. QED
      BY <3>1, <3>2
  <2>8. \A k \in 1 .. c + 1 : k # c + 1 => q.keys[k].key.line < q.keys[c + 1].key.line
    BY <1>10, <2>2, <2>4
  <2>9. QED
    BY <1>6, <1>7, <2>1, <2>4, <2>5, <2>6, <2>7, <2>8 DEF Current
<1>12. Filed(q, u)
  <2>1. [k \in 1 .. c + 1 |-> q.keys[k].key.line] = InOrder(Tagged(u, {"sec"}))
    <3> DEFINE F == [k \in 1 .. c |-> r.keys[k].key.line]
               G == [k \in 1 .. c + 1 |-> q.keys[k].key.line]
               S == Tagged(t, {"sec"})
    <3>1. F = InOrder(S)
      BY DEF FiledInv, Filed, c
    <3>2. S \in SUBSET DOMAIN t
      BY <1>9
    <3> HIDE DEF S
    <3>3. S \in SUBSET Nat /\ IsFiniteSet(S) /\ \A i \in S : i < n
      BY <3>2, LinesOfText DEF n
    <3>4. InOrder(S \cup {n}) = Append(F, n)
      BY <1>1, <3>1, <3>3, OneMoreInOrder
    <3>5. Append(F, n) = G
      <4>1. F \in [1 .. c -> Nat] /\ F \in Seq(Nat) /\ Len(F) = c /\ DOMAIN F = 1 .. c
        <5>1. \A k \in 1 .. c : F[k] \in Nat
          BY <1>1, <1>8
        <5>2. F \in [1 .. c -> Nat]
          BY <5>1
        <5> HIDE DEF F
        <5>3. QED
          BY <1>6, <5>2
      <4>2. /\ \A k \in 1 .. c : F[k] = G[k]
            /\ G[c + 1] = n
        <5>1. c \in Nat /\ c + 1 \in 1 .. c + 1 /\ \A k \in 1 .. c : k \in 1 .. c + 1
          BY <1>6
        <5>2. \A k \in 1 .. c : q.keys[k] = r.keys[k]
          BY <1>6
        <5>3. q.keys[c + 1].key = key
          BY <1>7
        <5>4. q.keys[c + 1].key.line = n
          BY <1>2, <5>3
        <5>5. G[c + 1] = n
          BY <5>1, <5>4
        <5>6. \A k \in 1 .. c : F[k] = G[k]
          BY <5>1, <5>2
        <5>7. QED
          BY <5>5, <5>6
      <4>3. G = [k \in 1 .. c + 1 |-> G[k]]
        OBVIOUS
      <4> HIDE DEF F, G
      <4>4. /\ Append(F, n) \in Seq(Nat) /\ Len(Append(F, n)) = c + 1
            /\ Append(F, n)[c + 1] = n /\ \A k \in 1 .. c : Append(F, n)[k] = F[k]
        BY <1>1, <1>6, <4>1
      <4>5. \A H \in Seq(Nat) : H = [k \in 1 .. Len(H) |-> H[k]]
        OBVIOUS
      <4>6. Append(F, n) = [k \in 1 .. c + 1 |-> Append(F, n)[k]]
        BY <4>4, <4>5
      <4>7. \A k \in 1 .. c + 1 : Append(F, n)[k] = G[k]
        BY <1>10, <4>2, <4>4
      <4>8. QED
        BY <4>3, <4>6, <4>7
    <3>6. QED
      BY <1>4, <3>4, <3>5 DEF S
  <2>2. ASSUME NEW k \in 1 .. c PROVE FiledKey(u, q.keys[k])
    <3>1. FiledKey(t, r.keys[k]) /\ r.keys[k].key.line \in DOMAIN t /\ q.keys[k] = r.keys[k]
      BY <1>6, <1>8 DEF FiledInv, Filed, c
    <3>2. QED
      BY <1>3, <3>1 DEF FiledKey
  <2>3. FiledKey(u, q.keys[c + 1])
    <3>1. LineNumbers(<<>>) = <<>>
      BY DEF LineNumbers
    <3>2. QED
      BY <1>2, <1>3, <1>7, <3>1 DEF FiledKey
  <2>4. ASSUME NEW k \in 1 .. c, NEW m \in 0 .. Subs(q, k) PROVE BelongsIn(u, KeyAt(q, k, m))
    <3>1. /\ m \in 0 .. Subs(r, k) /\ KeyAt(q, k, m) = KeyAt(r, k, m)
          /\ KeyAt(r, k, m).line \in DOMAIN t
      BY <1>7, <1>8 DEF LineAt
    <3>2. BelongsIn(t, KeyAt(r, k, m))
      BY <3>1 DEF FiledInv, Filed, c
    <3>3. QED
      BY <1>3, <3>1, <3>2 DEF BelongsIn
  <2>5. BelongsIn(u, KeyAt(q, c + 1, 0))
    BY <1>2, <1>3, <1>7 DEF BelongsIn
  <2>6. \A k \in 1 .. c + 1 : \A m \in 0 .. Subs(q, k) : BelongsIn(u, KeyAt(q, k, m))
    BY <1>7, <1>10, <2>4, <2>5
  <2>7. \A k \in 1 .. c + 1 : FiledKey(u, q.keys[k])
    BY <1>10, <2>2, <2>3
  <2>8. QED
    BY <1>6, <2>1, <2>6, <2>7 DEF Filed
<1>13. Endless(q, u)
  <2>1. (\E i \in Tagged(u, {"sec", "ssb"}) : ~u[i].given)
          <=> (\E i \in Tagged(t, {"sec", "ssb"}) : ~t[i].given) \/ ~given
    <3>1. \A i \in Tagged(t, {"sec", "ssb"}) : u[i] = t[i]
      BY <1>1, <1>9
    <3>2. QED
      BY <1>4, <1>5, <3>1
  <2>2. (\E k \in 1 .. c + 1 : \E m \in 0 .. Subs(q, k) : KeyAt(q, k, m).expires = "NaN")
          <=> (\E k \in 1 .. c : \E m \in 0 .. Subs(r, k) : KeyAt(r, k, m).expires = "NaN")
              \/ ~given
    <3>1. (\E m \in 0 .. Subs(q, c + 1) : KeyAt(q, c + 1, m).expires = "NaN") <=> ~given
      <4>1. 0 \in 0 .. 0
        OBVIOUS
      <4>2. QED
        BY <1>2, <1>7, <1>10, <4>1
    <3>2. (\A k \in 1 .. c : k \in 1 .. c + 1) /\ c + 1 \in 1 .. c + 1
      BY <1>6
    <3>3. QED
      BY <1>7, <1>10, <3>1, <3>2
  <2>3. QED
    BY <1>6, <2>1, <2>2 DEF FiledInv, Endless, c
<1>14. QED
  BY <1>6, <1>11, <1>12, <1>13 DEF FiledInv, q, key, l, u, n
\* An ssb line.
LEMMA SsbStep ==
  ASSUME NEW t \in Seq(KeyTexts), NEW r \in KeyReaders, FiledInv(r, t), NEW given \in BOOLEAN,
         Tagged(t, {"sec"}) # {}
  PROVE  LET l == [tag |-> "ssb", given |-> given]
             q == AddSsb(r, Key(Len(t) + 1, ServerNumber(given)))
         IN  q \in KeyReaders /\ FiledInv(q, Append(t, l))
<1> DEFINE l == [tag |-> "ssb", given |-> given]
           u == Append(t, l)
           n == Len(t) + 1
           key == Key(n, ServerNumber(given))
           q == AddSsb(r, key)
           c == Count(r)
           s == Subs(r, c)
<1>1. /\ u \in Seq(KeyTexts) /\ n \in Nat /\ u[n] = l
      /\ DOMAIN u = DOMAIN t \cup {n} /\ n \notin DOMAIN t
      /\ \A i \in DOMAIN t : i \in Nat /\ i < n /\ u[i] = t[i]
      /\ \A tags : Tagged(u, tags) = Tagged(t, tags) \cup (IF l.tag \in tags THEN {n} ELSE {})
      /\ l \in KeyTexts /\ l.tag = "ssb"
  <2>1. l \in KeyTexts /\ l.tag = "ssb"
    BY DEF KeyTexts
  <2> HIDE DEF l
  <2>2. QED
    BY <2>1, OneMoreLine
<1>2. key \in KeysRead /\ key.line = n /\ key.fpr = 0 /\ key.grp = 0
      /\ (key.expires = "NaN" <=> ~given)
  BY <1>1 DEF Key, KeysRead, ServerNumber
<1>3. /\ \A i \in DOMAIN t :
           /\ Owned(u, i, "uid") = Owned(t, i, "uid")
           /\ Owned(u, i, "ssb") = IF NoneAfter(t, i, {"sec"})
                                   THEN Append(Owned(t, i, "ssb"), n) ELSE Owned(t, i, "ssb")
      /\ \A tag \in {"fpr", "grp"} :
           PartIn(u, n, tag) = 0 /\ \A i \in DOMAIN t : PartIn(u, i, tag) = PartIn(t, i, tag)
  <2>1. l.tag = "ssb" /\ \A tag \in {"uid", "fpr", "grp"} : l.tag # tag
    OBVIOUS
  <2> HIDE DEF l
  <2>2. QED
    BY <1>1, <2>1, KeySections
<1>4. Tagged(u, {"sec"}) = Tagged(t, {"sec"})
      /\ Tagged(u, {"sec", "ssb"}) = Tagged(t, {"sec", "ssb"}) \cup {n}
  BY <1>1
<1>5. u[n].given = given
  BY <1>1
<1>6. /\ c \in Nat /\ c > 0 /\ c \in 1 .. c /\ s \in Nat /\ r.at = s /\ DOMAIN r.keys = 1 .. c
      /\ r.keys[c].subs \in Seq(KeysRead) /\ s = Len(r.keys[c].subs)
  <2>1. c \in Nat /\ c > 0 /\ c \in 1 .. c
    BY ReaderTyped DEF FiledInv, Current
  <2>2. s = Len(r.keys[c].subs)
    BY DEF Subs
  <2>3. QED
    BY <2>1, <2>2, ReaderTyped DEF FiledInv, Current
<1> HIDE DEF key, l, u, n
<1>7. /\ q \in KeyReaders /\ q.at = s + 1 /\ Count(q) = c
      /\ \A k \in 1 .. c : k # c => q.keys[k] = r.keys[k]
      /\ q.keys[c].key = r.keys[c].key /\ q.keys[c].uids = r.keys[c].uids
      /\ q.keys[c].subs = Append(r.keys[c].subs, key)
  <2>1. c = Len(r.keys) /\ Count(q) = Len(q.keys)
    BY DEF Count
  <2>2. \A k \in 1 .. c : k # c => k \in 1 .. c - 1
    BY <1>6
  <2>3. q = AddSsb(r, key)
    OBVIOUS
  <2> HIDE DEF q, c, s
  <2>4. /\ q \in KeyReaders /\ q.at = Len(r.keys[c].subs) + 1
        /\ Len(q.keys) = c
        /\ \A k \in 1 .. c - 1 : q.keys[k] = r.keys[k]
        /\ q.keys[c].key = r.keys[c].key /\ q.keys[c].uids = r.keys[c].uids
        /\ q.keys[c].subs = Append(r.keys[c].subs, key)
    BY <1>2, <1>6, <2>1, <2>3, AddSsbFacts
  <2>5. QED
    BY <1>6, <2>1, <2>2, <2>4
<1> HIDE DEF q
<1>8. /\ \A k \in 1 .. c : k # c => Subs(q, k) = Subs(r, k)
           /\ \A m : KeyAt(q, k, m) = KeyAt(r, k, m)
      /\ Subs(q, c) = s + 1 /\ KeyAt(q, c, s + 1) = key
      /\ \A m \in 0 .. s : KeyAt(q, c, m) = KeyAt(r, c, m)
  <2>1. /\ Len(Append(r.keys[c].subs, key)) = s + 1 /\ Append(r.keys[c].subs, key)[s + 1] = key
        /\ \A m \in 1 .. s : Append(r.keys[c].subs, key)[m] = r.keys[c].subs[m]
    BY <1>2, <1>6
  <2>2. \A m \in 0 .. s : m = 0 \/ m \in 1 .. s
    BY <1>6
  <2>3. s + 1 # 0
    BY <1>6
  <2> HIDE DEF c, s
  <2>4. QED
    BY <1>7, <2>1, <2>2, <2>3 DEF Subs, KeyAt
<1>9. \A k \in 1 .. c :
        /\ r.keys[k].key.line \in DOMAIN t
        /\ NoneAfter(t, r.keys[k].key.line, {"sec"}) <=> k = c
        /\ \A m \in 0 .. Subs(r, k) : LineAt(r, k, m) \in DOMAIN t
  BY Positions DEF FiledInv
<1>10. \A tags : Tagged(t, tags) \subseteq DOMAIN t
  BY DEF Tagged
<1>11. \A m \in 0 .. s + 1 : m \in 0 .. s \/ m = s + 1
  BY <1>6
<1> HIDE DEF c, s
<1>12. \A k \in 1 .. c : q.keys[k].key = r.keys[k].key /\ q.keys[k].uids = r.keys[k].uids
  BY <1>7
<1>13. \A k \in 1 .. c : \A m \in 0 .. Subs(q, k) :
         \/ m \in 0 .. Subs(r, k) /\ KeyAt(q, k, m) = KeyAt(r, k, m)
         \/ k = c /\ m = s + 1 /\ KeyAt(q, k, m) = key
  BY <1>8, <1>11 DEF s
<1>14. Current(q, u)
  <2>1. NoneAfter(u, n, {"sec", "ssb"})
    BY <1>1, <1>4, <1>10 DEF NoneAfter
  <2>2. /\ \A k \in 1 .. c : q.keys[k].key.line \in Tagged(u, {"sec"})
        /\ \A k \in 1 .. c : k # c => q.keys[k].key.line < q.keys[c].key.line
        /\ NoneAfter(u, q.keys[c].key.line, {"sec"})
    BY <1>4, <1>6, <1>12 DEF FiledInv, Current, c, NoneAfter
  <2>3. LineAt(q, c, s + 1) = n
    BY <1>2, <1>8 DEF LineAt
  <2>4. ASSUME NEW k \in 1 .. c, NEW m \in 0 .. Subs(q, k)
        PROVE  /\ LineAt(q, k, m) \in Tagged(u, {"sec", "ssb"})
               /\ k # c \/ m # s + 1 => LineAt(q, k, m) < n
    <3>1. CASE m \in 0 .. Subs(r, k) /\ KeyAt(q, k, m) = KeyAt(r, k, m)
      <4>1. LineAt(q, k, m) = LineAt(r, k, m) /\ LineAt(r, k, m) \in Tagged(t, {"sec", "ssb"})
        BY <3>1 DEF FiledInv, Current, c, LineAt
      <4>2. QED
        BY <1>1, <1>4, <1>10, <4>1
    <3>2. CASE k = c /\ m = s + 1
      BY <1>4, <2>3, <3>2
    <3>3. QED
      BY <1>13, <3>1, <3>2
  <2>5. Count(q) # 0 /\ Tagged(u, {"sec"}) # {}
    BY <1>4, <1>6, <1>7
  <2>6. QED
    BY <1>6, <1>7, <1>8, <2>1, <2>2, <2>3, <2>4, <2>5 DEF Current
<1>15. Filed(q, u)
  <2>1. [k \in 1 .. c |-> q.keys[k].key.line] = InOrder(Tagged(u, {"sec"}))
    BY <1>4, <1>12 DEF FiledInv, Filed, c
  <2>2. ASSUME NEW k \in 1 .. c PROVE FiledKey(u, q.keys[k])
    <3> DEFINE i == r.keys[k].key.line
    <3>1. FiledKey(t, r.keys[k]) /\ i \in DOMAIN t
      BY <1>9 DEF FiledInv, Filed, c
    <3>2. LineNumbers(q.keys[k].uids) = Owned(u, i, "uid")
      BY <1>3, <1>12, <3>1 DEF FiledKey
    <3>3. CASE k # c
      <4>1. q.keys[k].subs = r.keys[k].subs /\ Owned(u, i, "ssb") = Owned(t, i, "ssb")
        BY <1>3, <1>7, <1>9, <3>3
      <4>2. QED
        BY <1>12, <3>1, <3>2, <4>1 DEF FiledKey
    <3>4. CASE k = c
      <4>1. Owned(u, i, "ssb") = Append(Owned(t, i, "ssb"), n)
        BY <1>3, <1>9, <3>4
      <4>2. \A x \in KeysRead : x.line \in Nat
        BY DEF KeysRead
      <4>3. LineNumbers(Append(r.keys[c].subs, key)) = Append(LineNumbers(r.keys[c].subs), n)
        BY <1>2, <1>6, <4>2, OneMoreNumber
      <4>4. QED
        BY <1>7, <1>12, <3>1, <3>2, <3>4, <4>1, <4>3 DEF FiledKey
    <3>5. QED
      BY <3>3, <3>4
  <2>3. ASSUME NEW k \in 1 .. c, NEW m \in 0 .. Subs(q, k) PROVE BelongsIn(u, KeyAt(q, k, m))
    <3>1. CASE m \in 0 .. Subs(r, k) /\ KeyAt(q, k, m) = KeyAt(r, k, m)
      <4>1. BelongsIn(t, KeyAt(r, k, m)) /\ KeyAt(r, k, m).line \in DOMAIN t
        BY <1>9, <3>1 DEF FiledInv, Filed, c, LineAt
      <4>2. QED
        BY <1>3, <3>1, <4>1 DEF BelongsIn
    <3>2. CASE KeyAt(q, k, m) = key
      BY <1>2, <1>3, <3>2 DEF BelongsIn
    <3>3. QED
      BY <1>13, <3>1, <3>2
  <2>4. QED
    BY <1>7, <2>1, <2>2, <2>3 DEF Filed
<1>16. Endless(q, u)
  <2>1. (\E i \in Tagged(u, {"sec", "ssb"}) : ~u[i].given)
          <=> (\E i \in Tagged(t, {"sec", "ssb"}) : ~t[i].given) \/ ~given
    <3>1. \A i \in Tagged(t, {"sec", "ssb"}) : u[i] = t[i]
      BY <1>1, <1>10
    <3>2. QED
      BY <1>4, <1>5, <3>1
  <2>2. (\E k \in 1 .. c : \E m \in 0 .. Subs(q, k) : KeyAt(q, k, m).expires = "NaN")
          <=> (\E k \in 1 .. c : \E m \in 0 .. Subs(r, k) : KeyAt(r, k, m).expires = "NaN")
              \/ ~given
    <3>1. \A k \in 1 .. c : \A m \in 0 .. Subs(r, k) :
            m \in 0 .. Subs(q, k) /\ KeyAt(q, k, m) = KeyAt(r, k, m)
      <4>1. \A m \in 0 .. s : m \in 0 .. s + 1
        BY <1>6
      <4>2. QED
        BY <1>8, <4>1 DEF s
    <3>2. s + 1 \in 0 .. Subs(q, c) /\ c \in 1 .. c
      BY <1>6, <1>8
    <3>3. QED
      BY <1>2, <1>8, <1>13, <3>1, <3>2
  <2>3. QED
    BY <1>7, <2>1, <2>2 DEF FiledInv, Endless, c
<1>17. QED
  BY <1>7, <1>14, <1>15, <1>16 DEF FiledInv, q, key, l, u, n
\* Lines that begin no key leave the order of the keys and their expiry alone.
LEMMA KeysStay ==
  ASSUME NEW t \in Seq(KeyTexts), NEW l \in KeyTexts, l.tag \notin {"sec", "ssb"},
         NEW r \in KeyReaders, FiledInv(r, t), NEW q \in KeyReaders,
         Count(q) = Count(r), q.at = r.at,
         \A k \in 1 .. Count(r) :
           /\ q.keys[k].key.line = r.keys[k].key.line /\ Subs(q, k) = Subs(r, k)
           /\ \A m \in 0 .. Subs(r, k) :
                /\ KeyAt(q, k, m).line = KeyAt(r, k, m).line
                /\ KeyAt(q, k, m).expires = KeyAt(r, k, m).expires
  PROVE  LET u == Append(t, l)
         IN  /\ Current(q, u) /\ Endless(q, u)
             /\ [k \in 1 .. Count(q) |-> q.keys[k].key.line] = InOrder(Tagged(u, {"sec"}))
<1> DEFINE u == Append(t, l)
           n == Len(t) + 1
           c == Count(r)
<1>1. /\ \A i \in DOMAIN t : u[i] = t[i]
      /\ \A tags : Tagged(u, tags) = Tagged(t, tags) \cup (IF l.tag \in tags THEN {n} ELSE {})
  BY OneMoreLine
<1>2. Tagged(u, {"sec"}) = Tagged(t, {"sec"})
        /\ Tagged(u, {"sec", "ssb"}) = Tagged(t, {"sec", "ssb"})
  BY <1>1
<1>3. Tagged(t, {"sec", "ssb"}) \subseteq DOMAIN t
  BY DEF Tagged
<1>4. c \in Nat /\ (c > 0 => c \in 1 .. c /\ r.at = Subs(r, c) /\ r.at \in 0 .. Subs(r, c))
  BY ReaderTyped DEF FiledInv, Current
<1> HIDE DEF u, n, c
<1>5. /\ Count(q) = c
      /\ \A k \in 1 .. c :
           /\ q.keys[k].key.line = r.keys[k].key.line /\ Subs(q, k) = Subs(r, k)
           /\ \A m \in 0 .. Subs(r, k) : LineAt(q, k, m) = LineAt(r, k, m)
  BY DEF c, LineAt
<1>6. Current(r, t) /\ Count(r) = c
  BY DEF FiledInv, c
<1>7. Current(q, u)
  <2>1. /\ c = 0 <=> Tagged(u, {"sec"}) = {}
        /\ \A k \in 1 .. c : q.keys[k].key.line \in Tagged(u, {"sec"})
    BY <1>2, <1>5, <1>6 DEF Current
  <2>2. c > 0 =>
          /\ q.keys[c].key.line = r.keys[c].key.line /\ LineAt(q, c, r.at) = LineAt(r, c, r.at)
          /\ q.at = Subs(q, c)
    BY <1>4, <1>5
  <2>3. \A k \in 1 .. c : k # c => q.keys[k].key.line < q.keys[c].key.line
    <3>1. \A k \in 1 .. c : c > 0
      BY <1>4
    <3>2. QED
      BY <1>5, <1>6, <2>2, <3>1 DEF Current
  <2>4. ASSUME NEW k \in 1 .. c, NEW m \in 0 .. Subs(q, k)
        PROVE  /\ LineAt(q, k, m) \in Tagged(u, {"sec", "ssb"})
               /\ k # c \/ m # r.at => LineAt(q, k, m) < LineAt(q, c, r.at)
    <3>1. c > 0 /\ m \in 0 .. Subs(r, k) /\ LineAt(q, k, m) = LineAt(r, k, m)
      BY <1>4, <1>5
    <3>2. /\ LineAt(r, k, m) \in Tagged(t, {"sec", "ssb"})
          /\ k # c \/ m # r.at => LineAt(r, k, m) < LineAt(r, c, r.at)
      BY <1>6, <3>1 DEF Current
    <3>3. QED
      BY <1>2, <2>2, <3>1, <3>2
  <2>5. c > 0 => /\ NoneAfter(u, r.keys[c].key.line, {"sec"})
                 /\ NoneAfter(u, LineAt(r, c, r.at), {"sec", "ssb"})
    BY <1>2, <1>6 DEF Current, NoneAfter
  <2>6. QED
    BY <1>5, <2>1, <2>2, <2>3, <2>4, <2>5 DEF Current
<1>8. Endless(q, u)
  <2>1. (\E k \in 1 .. c : \E m \in 0 .. Subs(q, k) : KeyAt(q, k, m).expires = "NaN")
          <=> \E k \in 1 .. c : \E m \in 0 .. Subs(r, k) : KeyAt(r, k, m).expires = "NaN"
    BY <1>5 DEF c
  <2>2. (\E i \in Tagged(u, {"sec", "ssb"}) : ~u[i].given)
          <=> \E i \in Tagged(t, {"sec", "ssb"}) : ~t[i].given
    BY <1>1, <1>2, <1>3
  <2>3. QED
    BY <1>5, <1>6, <2>1, <2>2 DEF FiledInv, Endless
<1>9. [k \in 1 .. c |-> q.keys[k].key.line] = InOrder(Tagged(u, {"sec"}))
  <2>1. [k \in 1 .. c |-> q.keys[k].key.line] = [k \in 1 .. c |-> r.keys[k].key.line]
    BY <1>5
  <2>2. QED
    BY <1>2, <1>6, <2>1 DEF FiledInv, Filed
<1>10. QED
  BY <1>5, <1>7, <1>8, <1>9 DEF u

\* A uid line.
LEMMA UidStep ==
  ASSUME NEW t \in Seq(KeyTexts), NEW r \in KeyReaders, FiledInv(r, t), NEW form \in Forms,
         NEW uid \in UidsRead, uid.line = Len(t) + 1, Tagged(t, {"sec"}) # {}
  PROVE  LET l == [tag |-> "uid", form |-> form]
             q == AddUidTo(r, uid)
         IN  q \in KeyReaders /\ FiledInv(q, Append(t, l))
<1> DEFINE l == [tag |-> "uid", form |-> form]
           u == Append(t, l)
           n == Len(t) + 1
           q == AddUidTo(r, uid)
           c == Count(r)
<1>1. l \in KeyTexts /\ l.tag = "uid"
  BY DEF KeyTexts
<1> HIDE DEF l
<1>2. /\ \A i \in DOMAIN t :
           /\ Owned(u, i, "ssb") = Owned(t, i, "ssb")
           /\ Owned(u, i, "uid") = IF NoneAfter(t, i, {"sec"})
                                   THEN Append(Owned(t, i, "uid"), n) ELSE Owned(t, i, "uid")
           /\ \A tag \in {"fpr", "grp"} : PartIn(u, i, tag) = PartIn(t, i, tag)
  BY <1>1, KeySections
<1>3. /\ c \in Nat /\ c > 0 /\ c \in 1 .. c
      /\ \A k \in 1 .. c : r.keys[k].uids \in Seq(UidsRead)
  BY ReaderTyped DEF FiledInv, Current
<1>4. /\ q \in KeyReaders /\ q.at = r.at /\ Count(q) = c
      /\ \A k \in 1 .. c : k # c => q.keys[k] = r.keys[k]
      /\ \A k \in 1 .. c : q.keys[k].key = r.keys[k].key /\ q.keys[k].subs = r.keys[k].subs
      /\ q.keys[c].uids = Append(r.keys[c].uids, uid)
  <2>1. c = Len(r.keys) /\ Count(q) = Len(q.keys)
    BY DEF Count
  <2>2. \A k \in 1 .. c : k = c \/ k \in 1 .. c - 1
    BY <1>3
  <2>3. q = AddUidTo(r, uid)
    OBVIOUS
  <2> HIDE DEF q, c
  <2>4. /\ q \in KeyReaders /\ q.at = r.at /\ Len(q.keys) = c
        /\ \A k \in 1 .. c - 1 : q.keys[k] = r.keys[k]
        /\ q.keys[c].key = r.keys[c].key /\ q.keys[c].subs = r.keys[c].subs
        /\ q.keys[c].uids = Append(r.keys[c].uids, uid)
    BY <1>3, <2>1, <2>3, AddUidFacts
  <2>5. \A k \in 1 .. c : k # c => q.keys[k] = r.keys[k]
    BY <2>2, <2>4
  <2>6. \A k \in 1 .. c : q.keys[k].key = r.keys[k].key /\ q.keys[k].subs = r.keys[k].subs
    BY <2>4, <2>5
  <2>7. QED
    BY <2>1, <2>4, <2>5, <2>6
<1> HIDE DEF q
<1>5. \A k \in 1 .. c :
        Subs(q, k) = Subs(r, k) /\ \A m : KeyAt(q, k, m) = KeyAt(r, k, m)
  BY <1>4 DEF Subs, KeyAt
<1>6. Current(q, u) /\ Endless(q, u)
      /\ [k \in 1 .. Count(q) |-> q.keys[k].key.line] = InOrder(Tagged(u, {"sec"}))
  BY <1>1, <1>4, <1>5, KeysStay
<1>7. \A k \in 1 .. c :
        /\ r.keys[k].key.line \in DOMAIN t
        /\ NoneAfter(t, r.keys[k].key.line, {"sec"}) <=> k = c
        /\ \A m \in 0 .. Subs(r, k) : KeyAt(r, k, m).line \in DOMAIN t
  BY Positions DEF FiledInv, LineAt
<1> HIDE DEF u, n, c
<1>8. ASSUME NEW k \in 1 .. c PROVE FiledKey(u, q.keys[k])
  <2> DEFINE i == r.keys[k].key.line
  <2>1. /\ LineNumbers(r.keys[k].subs) = Owned(t, i, "ssb")
        /\ LineNumbers(r.keys[k].uids) = Owned(t, i, "uid")
        /\ q.keys[k].key.line = i /\ q.keys[k].subs = r.keys[k].subs
    BY <1>4 DEF FiledInv, Filed, FiledKey, c
  <2>2. Owned(u, i, "ssb") = Owned(t, i, "ssb")
        /\ Owned(u, i, "uid") = IF k = c THEN Append(Owned(t, i, "uid"), n) ELSE Owned(t, i, "uid")
    BY <1>2, <1>7
  <2>3. LineNumbers(q.keys[k].uids) = Owned(u, i, "uid")
    <3>1. CASE k # c
      BY <1>4, <2>1, <2>2, <3>1
    <3>2. CASE k = c
      <4>1. \A x \in UidsRead : x.line \in Nat
        BY DEF UidsRead
      <4>2. LineNumbers(Append(r.keys[k].uids, uid)) = Append(LineNumbers(r.keys[k].uids), n)
        BY <1>3, <4>1, OneMoreNumber DEF n
      <4>3. QED
        BY <1>4, <2>1, <2>2, <3>2, <4>2
    <3>3. QED
      BY <3>1, <3>2
  <2>4. QED
    BY <2>1, <2>2, <2>3 DEF FiledKey
<1>9. ASSUME NEW k \in 1 .. c, NEW m \in 0 .. Subs(q, k) PROVE BelongsIn(u, KeyAt(q, k, m))
  <2>1. m \in 0 .. Subs(r, k) /\ KeyAt(q, k, m) = KeyAt(r, k, m) /\ KeyAt(r, k, m).line \in DOMAIN t
    BY <1>5, <1>7
  <2>2. BelongsIn(t, KeyAt(r, k, m))
    BY <2>1 DEF FiledInv, Filed, c
  <2>3. QED
    BY <1>2, <2>1, <2>2 DEF BelongsIn
<1>10. Filed(q, u)
  BY <1>4, <1>6, <1>8, <1>9 DEF Filed
<1>11. QED
  BY <1>4, <1>6, <1>10 DEF FiledInv, q, u, l

\* An fpr or a grp line.
LEMMA PartStep ==
  ASSUME NEW t \in Seq(KeyTexts), NEW r \in KeyReaders, FiledInv(r, t),
         NEW field \in {"fpr", "grp"}, Tagged(t, {"sec"}) # {}
  PROVE  LET q == SetOfCurrent(r, field, Len(t) + 1)
         IN  q \in KeyReaders /\ FiledInv(q, Append(t, [tag |-> field]))
<1> DEFINE l == [tag |-> field]
           u == Append(t, l)
           n == Len(t) + 1
           q == SetOfCurrent(r, field, n)
           c == Count(r)
<1>1. l \in KeyTexts /\ l.tag = field /\ n \in Nat
  BY DEF KeyTexts
<1> HIDE DEF l
<1>2. \A i \in DOMAIN t :
        /\ Owned(u, i, "ssb") = Owned(t, i, "ssb") /\ Owned(u, i, "uid") = Owned(t, i, "uid")
        /\ \A tag \in {"fpr", "grp"} :
             PartIn(u, i, tag) = IF tag = field /\ NoneAfter(t, i, {"sec", "ssb"})
                                 THEN n ELSE PartIn(t, i, tag)
  BY <1>1, KeySections
<1>3. /\ c \in Nat /\ c > 0 /\ c \in 1 .. c /\ r.at = Subs(r, c)
      /\ \A k \in 1 .. c : \A m \in 0 .. Subs(r, k) : KeyAt(r, k, m) \in KeysRead
  BY ReaderTyped DEF FiledInv, Current
<1>4. /\ q \in KeyReaders /\ q.at = r.at /\ Count(q) = c
      /\ \A k \in 1 .. c : k # c => q.keys[k] = r.keys[k]
      /\ q.keys[c].uids = r.keys[c].uids /\ Subs(q, c) = Subs(r, c)
      /\ \A m \in 0 .. Subs(r, c) :
           KeyAt(q, c, m) =
             IF m = r.at THEN [KeyAt(r, c, m) EXCEPT ![field] = n] ELSE KeyAt(r, c, m)
  <2>1. c = Len(r.keys) /\ Count(q) = Len(q.keys) /\ Subs(r, c) = Len(r.keys[c].subs)
        /\ Subs(q, c) = Len(q.keys[c].subs)
    BY DEF Count, Subs
  <2>2. \A k \in 1 .. c : k = c \/ k \in 1 .. c - 1
    BY <1>3
  <2>3. q = SetOfCurrent(r, field, n)
    OBVIOUS
  <2>4. r.at \in Nat /\ r.at <= Subs(r, c)
    BY <1>3, ReaderTyped
  <2> DEFINE z == Len(r.keys)
  <2>5. z > 0 /\ r.at <= Len(r.keys[z].subs)
    BY <1>3, <2>1, <2>4
  <2>6. /\ q \in KeyReaders /\ q.at = r.at /\ Len(q.keys) = z
        /\ \A k \in 1 .. z - 1 : q.keys[k] = r.keys[k]
        /\ q.keys[z].uids = r.keys[z].uids /\ Len(q.keys[z].subs) = Len(r.keys[z].subs)
        /\ \A m \in 0 .. Len(r.keys[z].subs) :
             KeyAt(q, z, m) =
               IF m = r.at THEN [KeyAt(r, z, m) EXCEPT ![field] = n] ELSE KeyAt(r, z, m)
    <3> HIDE DEF n
    <3>1. QED
      BY <1>1, <2>5, SetFieldFacts
  <2>7. z = c
    BY <2>1
  <2> HIDE DEF q, c, n, z
  <2>8. QED
    BY <2>1, <2>2, <2>6, <2>7
<1> HIDE DEF q
<1>5. \A k \in 1 .. c : \A m \in 0 .. Subs(r, k) :
        LET x == KeyAt(q, k, m)  y == KeyAt(r, k, m)
        IN  /\ x = IF k = c /\ m = r.at THEN [y EXCEPT ![field] = n] ELSE y
            /\ x.line = y.line /\ x.expires = y.expires
  <2>1. ASSUME NEW k \in 1 .. c, NEW m \in 0 .. Subs(r, k)
        PROVE  LET x == KeyAt(q, k, m)  y == KeyAt(r, k, m)
               IN  /\ x = IF k = c /\ m = r.at THEN [y EXCEPT ![field] = n] ELSE y
                   /\ x.line = y.line /\ x.expires = y.expires
    <3> DEFINE x == KeyAt(q, k, m)
               y == KeyAt(r, k, m)
    <3>1. y \in KeysRead
      BY <1>3
    <3>2. x = IF k = c /\ m = r.at THEN [y EXCEPT ![field] = n] ELSE y
      <4>1. CASE k = c
        BY <1>4, <4>1
      <4>2. CASE k # c
        BY <1>4, <4>2 DEF KeyAt
      <4>3. QED
        BY <4>1, <4>2
    <3> HIDE DEF x, y
    <3>3. x.line = y.line /\ x.expires = y.expires
      BY <3>1, <3>2 DEF KeysRead
    <3>4. QED
      BY <3>2, <3>3 DEF x, y
  <2>2. QED
    BY <2>1
<1>6. \A k \in 1 .. c :
        /\ Subs(q, k) = Subs(r, k) /\ q.keys[k].uids = r.keys[k].uids
        /\ q.keys[k].key.line = r.keys[k].key.line
  <2>1. \A k \in 1 .. c : Subs(q, k) = Subs(r, k) /\ q.keys[k].uids = r.keys[k].uids
    BY <1>4 DEF Subs
  <2>2. \A k \in 1 .. c : 0 \in 0 .. Subs(r, k)
    BY ReaderTyped
  <2>3. \A k \in 1 .. c : KeyAt(q, k, 0).line = KeyAt(r, k, 0).line
    BY <1>5, <2>2
  <2>4. \A k : KeyAt(q, k, 0) = q.keys[k].key /\ KeyAt(r, k, 0) = r.keys[k].key
    BY DEF KeyAt
  <2>5. QED
    BY <2>1, <2>3, <2>4
<1>7. Current(q, u) /\ Endless(q, u)
      /\ [k \in 1 .. Count(q) |-> q.keys[k].key.line] = InOrder(Tagged(u, {"sec"}))
  <2>1. l.tag \notin {"sec", "ssb"}
    BY <1>1
  <2>2. QED
    BY <1>1, <1>4, <1>5, <1>6, <2>1, KeysStay
<1>8. \A k \in 1 .. c :
        /\ r.keys[k].key.line \in DOMAIN t
        /\ \A m \in 0 .. Subs(r, k) :
             /\ KeyAt(r, k, m).line \in DOMAIN t
             /\ NoneAfter(t, KeyAt(r, k, m).line, {"sec", "ssb"}) <=> k = c /\ m = r.at
  BY Positions DEF FiledInv, LineAt
<1> HIDE DEF u, n, c
<1>9. ASSUME NEW k \in 1 .. c PROVE FiledKey(u, q.keys[k])
  <2>1. FiledKey(t, r.keys[k])
    BY DEF FiledInv, Filed, c
  <2>2. LineNumbers(q.keys[k].subs) = LineNumbers(r.keys[k].subs)
    <3>1. \A m \in 1 .. Subs(r, k) : q.keys[k].subs[m].line = r.keys[k].subs[m].line
      <4>1. \A m \in 1 .. Subs(r, k) : m \in 0 .. Subs(r, k) /\ m # 0
        BY ReaderTyped DEF c
      <4>2. QED
        BY <1>5, <4>1 DEF KeyAt
    <3>2. DOMAIN q.keys[k].subs = 1 .. Subs(r, k) /\ DOMAIN r.keys[k].subs = 1 .. Subs(r, k)
      BY <1>4, <1>6, ReaderTyped DEF c
    <3>3. QED
      BY <3>1, <3>2 DEF LineNumbers
  <2>3. QED
    BY <1>2, <1>6, <1>8, <2>1, <2>2 DEF FiledKey
<1>10. ASSUME NEW k \in 1 .. c, NEW m \in 0 .. Subs(q, k) PROVE BelongsIn(u, KeyAt(q, k, m))
  <2> DEFINE x == KeyAt(q, k, m)
             y == KeyAt(r, k, m)
  <2>1. m \in 0 .. Subs(r, k)
    BY <1>6
  <2>2. /\ y \in KeysRead /\ y.line \in DOMAIN t
        /\ NoneAfter(t, y.line, {"sec", "ssb"}) <=> k = c /\ m = r.at
        /\ x = IF k = c /\ m = r.at THEN [y EXCEPT ![field] = n] ELSE y
        /\ x.line = y.line
    BY <1>3, <1>5, <1>8, <2>1
  <2>3. BelongsIn(t, y)
    BY <2>1 DEF FiledInv, Filed, c
  <2> HIDE DEF x, y
  <2>4. \A tag \in {"fpr", "grp"} :
          PartIn(u, y.line, tag) = IF tag = field /\ k = c /\ m = r.at
                                   THEN n ELSE PartIn(t, y.line, tag)
    BY <1>2, <2>2
  <2>5. CASE field = "fpr"
    <3>1. x.fpr = (IF k = c /\ m = r.at THEN n ELSE y.fpr) /\ x.grp = y.grp
      <4>1. [y EXCEPT ![field] = n] = [y EXCEPT !.fpr = n]
        BY <2>5
      <4>2. [y EXCEPT !.fpr = n].fpr = n /\ [y EXCEPT !.fpr = n].grp = y.grp
        BY <2>2 DEF KeysRead
      <4>3. QED
        BY <2>2, <4>1, <4>2
    <3>2. /\ PartIn(u, y.line, "fpr") = IF k = c /\ m = r.at THEN n ELSE PartIn(t, y.line, "fpr")
          /\ PartIn(u, y.line, "grp") = PartIn(t, y.line, "grp")
      BY <2>4, <2>5
    <3>3. y.fpr = PartIn(t, y.line, "fpr") /\ y.grp = PartIn(t, y.line, "grp")
      BY <2>3 DEF BelongsIn
    <3>4. x.fpr = PartIn(u, x.line, "fpr") /\ x.grp = PartIn(u, x.line, "grp")
      BY <2>2, <3>1, <3>2, <3>3
    <3>5. QED
      BY <3>4 DEF BelongsIn, x
  <2>6. CASE field = "grp"
    <3>1. x.grp = (IF k = c /\ m = r.at THEN n ELSE y.grp) /\ x.fpr = y.fpr
      <4>1. [y EXCEPT ![field] = n] = [y EXCEPT !.grp = n]
        BY <2>6
      <4>2. [y EXCEPT !.grp = n].grp = n /\ [y EXCEPT !.grp = n].fpr = y.fpr
        BY <2>2 DEF KeysRead
      <4>3. QED
        BY <2>2, <4>1, <4>2
    <3>2. /\ PartIn(u, y.line, "grp") = IF k = c /\ m = r.at THEN n ELSE PartIn(t, y.line, "grp")
          /\ PartIn(u, y.line, "fpr") = PartIn(t, y.line, "fpr")
      BY <2>4, <2>6
    <3>3. y.fpr = PartIn(t, y.line, "fpr") /\ y.grp = PartIn(t, y.line, "grp")
      BY <2>3 DEF BelongsIn
    <3>4. x.fpr = PartIn(u, x.line, "fpr") /\ x.grp = PartIn(u, x.line, "grp")
      BY <2>2, <3>1, <3>2, <3>3
    <3>5. QED
      BY <3>4 DEF BelongsIn, x
  <2>7. QED
    BY <2>5, <2>6 DEF x
<1>11. Filed(q, u)
  BY <1>4, <1>7, <1>9, <1>10 DEF Filed
<1>12. QED
  BY <1>4, <1>7, <1>11 DEF FiledInv, q, u, l, n

\* Any other line.
LEMMA OtherStep ==
  ASSUME NEW t \in Seq(KeyTexts), NEW r \in KeyReaders, FiledInv(r, t)
  PROVE  FiledInv(r, Append(t, [tag |-> "other"]))
<1> DEFINE l == [tag |-> "other"]
           u == Append(t, l)
           c == Count(r)
<1>1. l \in KeyTexts /\ l.tag = "other"
  BY DEF KeyTexts
<1> HIDE DEF l
<1>2. \A i \in DOMAIN t :
        /\ Owned(u, i, "ssb") = Owned(t, i, "ssb") /\ Owned(u, i, "uid") = Owned(t, i, "uid")
        /\ PartIn(u, i, "fpr") = PartIn(t, i, "fpr") /\ PartIn(u, i, "grp") = PartIn(t, i, "grp")
  BY <1>1, KeySections
<1>3. Current(r, u) /\ Endless(r, u)
      /\ [k \in 1 .. c |-> r.keys[k].key.line] = InOrder(Tagged(u, {"sec"}))
  BY <1>1, KeysStay
<1>4. \A k \in 1 .. c :
        /\ r.keys[k].key.line \in DOMAIN t
        /\ \A m \in 0 .. Subs(r, k) : KeyAt(r, k, m).line \in DOMAIN t
  BY Positions DEF FiledInv, LineAt
<1>5. \A k \in 1 .. c : FiledKey(u, r.keys[k])
  BY <1>2, <1>4 DEF FiledInv, Filed, FiledKey
<1>6. \A k \in 1 .. c : \A m \in 0 .. Subs(r, k) : BelongsIn(u, KeyAt(r, k, m))
  BY <1>2, <1>4 DEF FiledInv, Filed, BelongsIn
<1>7. QED
  BY <1>3, <1>5, <1>6 DEF FiledInv, Filed, u, l
-----------------------------------------------------------------------------
(* The two readers keep in step. *)

SameKey(a, b) == a.line = b.line /\ a.fpr = b.fpr /\ a.grp = b.grp
SameUids(a, b) ==
  /\ Len(a) = Len(b)
  /\ \A i \in 1 .. Len(b) : a[i].line = b[i].line /\ (a[i] = b[i] <=> ~b[i].comment)
SameSecret(p, s, k) ==
  /\ Subs(p, k) = Subs(s, k)
  /\ \A m \in 0 .. Subs(s, k) : SameKey(KeyAt(p, k, m), KeyAt(s, k, m))
  /\ SameUids(p.keys[k].uids, s.keys[k].uids)
Alike(p, s) ==
  Count(p) = Count(s) /\ p.at = s.at /\ \A k \in 1 .. Count(s) : SameSecret(p, s, k)

\* Only the last of the keys that are there changes.
LEMMA AddedSec ==
  ASSUME NEW r \in KeyReaders, NEW key \in KeysRead
  PROVE  LET q == AddSec(r, key)  c == Count(r)
         IN  /\ q \in KeyReaders /\ q.failed = r.failed /\ q.at = 0 /\ Count(q) = c + 1 /\ c \in Nat
             /\ \A k \in 1 .. c : q.keys[k] = r.keys[k]
             /\ Subs(q, c + 1) = 0 /\ KeyAt(q, c + 1, 0) = key /\ q.keys[c + 1].uids = <<>>
<1> DEFINE q == AddSec(r, key)
           c == Len(r.keys)
<1>1. /\ q \in KeyReaders /\ q.failed = r.failed /\ q.at = 0 /\ Len(q.keys) = c + 1 /\ c \in Nat
      /\ \A k \in 1 .. c : q.keys[k] = r.keys[k]
      /\ q.keys[c + 1] = [key |-> key, uids |-> <<>>, subs |-> <<>>]
  BY AddSecFacts
<1> HIDE DEF q
<1>2. Subs(q, c + 1) = 0 /\ KeyAt(q, c + 1, 0) = key /\ q.keys[c + 1].uids = <<>>
  BY <1>1 DEF Subs, KeyAt
<1>3. QED
  BY <1>1, <1>2 DEF Count, q

LEMMA AddedSsb ==
  ASSUME NEW r \in KeyReaders, NEW key \in KeysRead, Count(r) > 0
  PROVE  LET q == AddSsb(r, key)  c == Count(r)
         IN  /\ q \in KeyReaders /\ q.failed = r.failed /\ q.at = Subs(r, c) + 1 /\ Count(q) = c
             /\ c \in 1 .. c /\ Subs(r, c) \in Nat
             /\ \A k \in 1 .. c : k # c => q.keys[k] = r.keys[k]
             /\ q.keys[c].uids = r.keys[c].uids /\ Subs(q, c) = Subs(r, c) + 1
             /\ KeyAt(q, c, Subs(r, c) + 1) = key
             /\ \A m \in 0 .. Subs(r, c) : KeyAt(q, c, m) = KeyAt(r, c, m)
<1> DEFINE q == AddSsb(r, key)
           c == Len(r.keys)
           s == Len(r.keys[c].subs)
<1>1. c > 0 /\ Count(r) = c /\ Subs(r, c) = s /\ Count(q) = Len(q.keys)
      /\ Subs(q, c) = Len(q.keys[c].subs)
  BY DEF Count, Subs
<1>2. c \in Nat /\ c \in 1 .. c /\ r.keys[c].subs \in Seq(KeysRead) /\ s \in Nat
  BY <1>1, ReaderTyped DEF Count
<1>3. /\ q \in KeyReaders /\ q.failed = r.failed /\ q.at = s + 1 /\ Len(q.keys) = c
      /\ \A k \in 1 .. c - 1 : q.keys[k] = r.keys[k]
      /\ q.keys[c].uids = r.keys[c].uids /\ q.keys[c].key = r.keys[c].key
      /\ q.keys[c].subs = Append(r.keys[c].subs, key)
  BY <1>1, AddSsbFacts
<1>4. /\ Len(Append(r.keys[c].subs, key)) = s + 1 /\ Append(r.keys[c].subs, key)[s + 1] = key
      /\ \A m \in 1 .. s : Append(r.keys[c].subs, key)[m] = r.keys[c].subs[m]
  <2>1. \A e \in Seq(KeysRead) :
          /\ Len(Append(e, key)) = Len(e) + 1 /\ Append(e, key)[Len(e) + 1] = key
          /\ \A m \in 1 .. Len(e) : Append(e, key)[m] = e[m]
    OBVIOUS
  <2>2. QED
    BY <1>2, <2>1
<1> HIDE DEF q, c, s
<1>5. \A k \in 1 .. c : k = c \/ k \in 1 .. c - 1
  BY <1>2
<1>6. \A m \in 0 .. s : m = 0 \/ m \in 1 .. s
  BY <1>2
<1>7. s + 1 # 0
  BY <1>2
<1>8. KeyAt(q, c, s + 1) = key /\ \A m \in 0 .. s : KeyAt(q, c, m) = KeyAt(r, c, m)
  BY <1>3, <1>4, <1>6, <1>7 DEF KeyAt
<1>9. QED
  BY <1>1, <1>2, <1>3, <1>4, <1>5, <1>8 DEF q

LEMMA AddedUid ==
  ASSUME NEW r \in KeyReaders, NEW uid \in UidsRead, Count(r) > 0
  PROVE  LET q == AddUidTo(r, uid)  c == Count(r)
         IN  /\ q \in KeyReaders /\ q.failed = r.failed /\ q.at = r.at /\ Count(q) = c
             /\ c \in 1 .. c /\ \A k \in 1 .. c : k # c => q.keys[k] = r.keys[k]
             /\ q.keys[c].key = r.keys[c].key /\ q.keys[c].subs = r.keys[c].subs
             /\ q.keys[c].uids = Append(r.keys[c].uids, uid)
             /\ r.keys[c].uids \in Seq(UidsRead)
<1> DEFINE q == AddUidTo(r, uid)
           c == Len(r.keys)
<1>1. c > 0 /\ Count(r) = c /\ Count(q) = Len(q.keys)
  BY DEF Count
<1>2. c \in Nat /\ c \in 1 .. c /\ r.keys[c].uids \in Seq(UidsRead)
  BY <1>1, ReaderTyped
<1>3. /\ q \in KeyReaders /\ q.failed = r.failed /\ q.at = r.at /\ Len(q.keys) = c
      /\ \A k \in 1 .. c - 1 : q.keys[k] = r.keys[k]
      /\ q.keys[c].subs = r.keys[c].subs /\ q.keys[c].key = r.keys[c].key
      /\ q.keys[c].uids = Append(r.keys[c].uids, uid)
  BY <1>1, AddUidFacts
<1> HIDE DEF q, c
<1>4. \A k \in 1 .. c : k = c \/ k \in 1 .. c - 1
  BY <1>2
<1>5. QED
  BY <1>1, <1>2, <1>3, <1>4 DEF q

LEMMA SetPart ==
  ASSUME NEW r \in KeyReaders, NEW line \in Nat, NEW field \in {"fpr", "grp"},
         Count(r) > 0, r.at <= Subs(r, Count(r))
  PROVE  LET q == SetOfCurrent(r, field, line)  c == Count(r)
         IN  /\ q \in KeyReaders /\ q.failed = r.failed /\ q.at = r.at /\ Count(q) = c
             /\ c \in 1 .. c /\ \A k \in 1 .. c : k # c => q.keys[k] = r.keys[k]
             /\ q.keys[c].uids = r.keys[c].uids /\ Subs(q, c) = Subs(r, c)
             /\ \A m \in 0 .. Subs(r, c) :
                  KeyAt(q, c, m) =
                    IF m = r.at THEN [KeyAt(r, c, m) EXCEPT ![field] = line] ELSE KeyAt(r, c, m)
<1> DEFINE q == SetOfCurrent(r, field, line)
           c == Len(r.keys)
<1>1. /\ c > 0 /\ Count(r) = c /\ Count(q) = Len(q.keys) /\ Subs(r, c) = Len(r.keys[c].subs)
      /\ Subs(q, c) = Len(q.keys[c].subs) /\ r.at <= Len(r.keys[c].subs)
  BY DEF Count, Subs
<1>2. c \in Nat /\ c \in 1 .. c
  BY <1>1, ReaderTyped
<1>3. /\ q \in KeyReaders /\ q.failed = r.failed /\ q.at = r.at /\ Len(q.keys) = c
      /\ \A k \in 1 .. c - 1 : q.keys[k] = r.keys[k]
      /\ q.keys[c].uids = r.keys[c].uids /\ Len(q.keys[c].subs) = Len(r.keys[c].subs)
      /\ \A m \in 0 .. Len(r.keys[c].subs) :
           KeyAt(q, c, m) =
             IF m = r.at THEN [KeyAt(r, c, m) EXCEPT ![field] = line] ELSE KeyAt(r, c, m)
  BY <1>1, SetFieldFacts
<1> HIDE DEF q, c
<1>4. \A k \in 1 .. c : k = c \/ k \in 1 .. c - 1
  BY <1>2
<1>5. QED
  BY <1>1, <1>2, <1>3, <1>4 DEF q

\* A secret key neither reader touches.
LEMMA SameStays ==
  ASSUME NEW p, NEW s, NEW k, SameSecret(p, s, k), NEW x, NEW y,
         x.keys[k] = p.keys[k], y.keys[k] = s.keys[k]
  PROVE  SameSecret(x, y, k)
BY DEF SameSecret, Subs, KeyAt

LEMMA AlikeSec ==
  ASSUME NEW p \in KeyReaders, NEW s \in KeyReaders, Alike(p, s),
         NEW a \in KeysRead, NEW b \in KeysRead, SameKey(a, b)
  PROVE  Alike(AddSec(p, a), AddSec(s, b))
<1> DEFINE x == AddSec(p, a)
           y == AddSec(s, b)
           c == Count(s)
<1>1. /\ Count(x) = c + 1 /\ x.at = 0 /\ \A k \in 1 .. c : x.keys[k] = p.keys[k]
      /\ Subs(x, c + 1) = 0 /\ KeyAt(x, c + 1, 0) = a /\ x.keys[c + 1].uids = <<>>
  BY AddedSec DEF Alike
<1>2. /\ Count(y) = c + 1 /\ y.at = 0 /\ \A k \in 1 .. c : y.keys[k] = s.keys[k] /\ c \in Nat
      /\ Subs(y, c + 1) = 0 /\ KeyAt(y, c + 1, 0) = b /\ y.keys[c + 1].uids = <<>>
  BY AddedSec
<1>3. c \in Nat
  BY ReaderTyped
<1> HIDE DEF x, y
<1>4. \A k \in 1 .. c : SameSecret(x, y, k)
  BY <1>1, <1>2, SameStays DEF Alike
<1>5. SameSecret(x, y, c + 1)
  <2>1. \A m \in 0 .. 0 : m = 0
    OBVIOUS
  <2>2. SameUids(<<>>, <<>>)
    BY DEF SameUids
  <2>3. QED
    BY <1>1, <1>2, <2>1, <2>2 DEF SameSecret
<1>6. \A k \in 1 .. c + 1 : k \in 1 .. c \/ k = c + 1
  BY <1>3
<1>7. QED
  BY <1>1, <1>2, <1>4, <1>5, <1>6 DEF Alike, x, y

LEMMA AlikeSsb ==
  ASSUME NEW p \in KeyReaders, NEW s \in KeyReaders, Alike(p, s), Count(s) > 0,
         NEW a \in KeysRead, NEW b \in KeysRead, SameKey(a, b)
  PROVE  Alike(AddSsb(p, a), AddSsb(s, b))
<1> DEFINE x == AddSsb(p, a)
           y == AddSsb(s, b)
           c == Count(s)
           n == Subs(s, c)
<1>1. Count(p) = c /\ c \in 1 .. c /\ n \in Nat
  BY AddedSsb DEF Alike
<1>2. Subs(p, c) = n /\ SameUids(p.keys[c].uids, s.keys[c].uids)
      /\ \A m \in 0 .. n : SameKey(KeyAt(p, c, m), KeyAt(s, c, m))
  BY <1>1 DEF Alike, SameSecret
<1>3. /\ Count(x) = c /\ x.at = n + 1 /\ \A k \in 1 .. c : k # c => x.keys[k] = p.keys[k]
      /\ x.keys[c].uids = p.keys[c].uids /\ Subs(x, c) = n + 1 /\ KeyAt(x, c, n + 1) = a
      /\ \A m \in 0 .. n : KeyAt(x, c, m) = KeyAt(p, c, m)
  BY <1>1, <1>2, AddedSsb
<1>4. /\ Count(y) = c /\ y.at = n + 1 /\ \A k \in 1 .. c : k # c => y.keys[k] = s.keys[k]
      /\ y.keys[c].uids = s.keys[c].uids /\ Subs(y, c) = n + 1 /\ KeyAt(y, c, n + 1) = b
      /\ \A m \in 0 .. n : KeyAt(y, c, m) = KeyAt(s, c, m)
  BY AddedSsb
<1> HIDE DEF x, y, c, n
<1>5. \A k \in 1 .. c : k # c => SameSecret(x, y, k)
  BY <1>3, <1>4, SameStays DEF Alike, c
<1>6. SameSecret(x, y, c)
  <2>1. \A m \in 0 .. n + 1 : m \in 0 .. n \/ m = n + 1
    BY <1>1
  <2>2. QED
    BY <1>2, <1>3, <1>4, <2>1 DEF SameSecret
<1>7. QED
  BY <1>3, <1>4, <1>5, <1>6 DEF Alike, x, y

LEMMA AlikeUid ==
  ASSUME NEW p \in KeyReaders, NEW s \in KeyReaders, Alike(p, s), Count(s) > 0,
         NEW a \in UidsRead, NEW b \in UidsRead, a.line = b.line, a = b <=> ~b.comment
  PROVE  Alike(AddUidTo(p, a), AddUidTo(s, b))
<1> DEFINE x == AddUidTo(p, a)
           y == AddUidTo(s, b)
           c == Count(s)
<1>1. Count(p) = c /\ c \in 1 .. c
  BY AddedUid DEF Alike
<1>2. SameSecret(p, s, c)
  BY <1>1 DEF Alike
<1>3. /\ Count(x) = c /\ x.at = p.at /\ \A k \in 1 .. c : k # c => x.keys[k] = p.keys[k]
      /\ x.keys[c].key = p.keys[c].key /\ x.keys[c].subs = p.keys[c].subs
      /\ x.keys[c].uids = Append(p.keys[c].uids, a) /\ p.keys[c].uids \in Seq(UidsRead)
  BY <1>1, AddedUid
<1>4. /\ Count(y) = c /\ y.at = s.at /\ \A k \in 1 .. c : k # c => y.keys[k] = s.keys[k]
      /\ y.keys[c].key = s.keys[c].key /\ y.keys[c].subs = s.keys[c].subs
      /\ y.keys[c].uids = Append(s.keys[c].uids, b) /\ s.keys[c].uids \in Seq(UidsRead)
  BY AddedUid
<1> HIDE DEF x, y, c
<1>5. \A k \in 1 .. c : k # c => SameSecret(x, y, k)
  BY <1>3, <1>4, SameStays DEF Alike, c
<1>6. SameUids(x.keys[c].uids, y.keys[c].uids)
  <2> DEFINE e == p.keys[c].uids
             f == s.keys[c].uids
  <2>1. SameUids(e, f) /\ e \in Seq(UidsRead) /\ f \in Seq(UidsRead)
    BY <1>2, <1>3, <1>4 DEF SameSecret
  <2> HIDE DEF e, f
  <2>2. SameUids(Append(e, a), Append(f, b))
    <3>1. /\ Len(Append(e, a)) = Len(e) + 1 /\ Len(Append(f, b)) = Len(f) + 1
          /\ Append(e, a)[Len(e) + 1] = a /\ Append(f, b)[Len(f) + 1] = b
          /\ \A i \in 1 .. Len(e) : Append(e, a)[i] = e[i]
          /\ \A i \in 1 .. Len(f) : Append(f, b)[i] = f[i]
          /\ \A i \in 1 .. Len(f) + 1 : i \in 1 .. Len(f) \/ i = Len(f) + 1
      BY <2>1
    <3>2. Len(e) = Len(f)
      BY <2>1 DEF SameUids
    <3>3. QED
      BY <2>1, <3>1, <3>2 DEF SameUids
  <2>3. QED
    BY <1>3, <1>4, <2>2 DEF e, f
<1>7. SameSecret(x, y, c)
  BY <1>2, <1>3, <1>4, <1>6 DEF SameSecret, Subs, KeyAt
<1>8. QED
  BY <1>3, <1>4, <1>5, <1>7 DEF Alike, x, y

LEMMA AlikePart ==
  ASSUME NEW p \in KeyReaders, NEW s \in KeyReaders, Alike(p, s), Count(s) > 0,
         s.at <= Subs(s, Count(s)), NEW line \in Nat, NEW field \in {"fpr", "grp"}
  PROVE  Alike(SetOfCurrent(p, field, line), SetOfCurrent(s, field, line))
<1> DEFINE x == SetOfCurrent(p, field, line)
           y == SetOfCurrent(s, field, line)
           c == Count(s)
           n == Subs(s, c)
<1>1. Count(p) = c /\ c \in 1 .. c /\ p.at = s.at
  BY SetPart DEF Alike
<1>2. /\ Subs(p, c) = n /\ SameUids(p.keys[c].uids, s.keys[c].uids)
      /\ \A m \in 0 .. n : SameKey(KeyAt(p, c, m), KeyAt(s, c, m))
  BY <1>1 DEF Alike, SameSecret
<1>3. /\ Count(x) = c /\ x.at = s.at /\ \A k \in 1 .. c : k # c => x.keys[k] = p.keys[k]
      /\ x.keys[c].uids = p.keys[c].uids /\ Subs(x, c) = n
      /\ \A m \in 0 .. n :
           KeyAt(x, c, m) =
             IF m = s.at THEN [KeyAt(p, c, m) EXCEPT ![field] = line] ELSE KeyAt(p, c, m)
  BY <1>1, <1>2, SetPart
<1>4. /\ Count(y) = c /\ y.at = s.at /\ \A k \in 1 .. c : k # c => y.keys[k] = s.keys[k]
      /\ y.keys[c].uids = s.keys[c].uids /\ Subs(y, c) = n
      /\ \A m \in 0 .. n :
           KeyAt(y, c, m) =
             IF m = s.at THEN [KeyAt(s, c, m) EXCEPT ![field] = line] ELSE KeyAt(s, c, m)
  BY SetPart
<1>5. \A m \in 0 .. n : KeyAt(p, c, m) \in KeysRead /\ KeyAt(s, c, m) \in KeysRead
  BY <1>1, <1>2, ReaderTyped
<1> HIDE DEF x, y, c, n
<1>6. \A k \in 1 .. c : k # c => SameSecret(x, y, k)
  BY <1>3, <1>4, SameStays DEF Alike, c
<1>7. ASSUME NEW a \in KeysRead, NEW b \in KeysRead, SameKey(a, b)
      PROVE  SameKey([a EXCEPT ![field] = line], [b EXCEPT ![field] = line])
  <2>1. CASE field = "fpr"
    BY <1>7, <2>1 DEF SameKey, KeysRead
  <2>2. CASE field = "grp"
    BY <1>7, <2>2 DEF SameKey, KeysRead
  <2>3. QED
    BY <2>1, <2>2
<1>8. SameSecret(x, y, c)
  BY <1>2, <1>3, <1>4, <1>5, <1>7 DEF SameSecret
<1>9. QED
  BY <1>3, <1>4, <1>6, <1>8 DEF Alike, x, y
-----------------------------------------------------------------------------
(* The keys at every line. *)

\* A reader that has seen a sec line has a key to put the rest to.
Ready(r, t) ==
  Tagged(t, {"sec"}) # {} => Count(r) > 0 /\ r.at <= Subs(r, Count(r))

KeysInv ==
  /\ text \in Seq(KeyTexts) /\ server \in KeyReaders /\ pam \in KeyReaders
  /\ Ready(pam, text)
  /\ server.failed <=> \E i \in Tagged(text, {"uid"}) : text[i].form = "bare"
  /\ ~server.failed => FiledInv(server, text) /\ Alike(pam, server)

LEMMA NoLinesFiled ==
  ASSUME KeysInit
  PROVE  KeysInv
<1>1. text = <<>> /\ server = NoKeys /\ pam = NoKeys
  BY DEF KeysInit
<1>2. /\ NoKeys.keys = <<>> /\ NoKeys.at = 0 /\ NoKeys.failed = FALSE /\ NoKeys \in KeyReaders
  BY DEF NoKeys, KeyReaders
<1>3. <<>> \in Seq(KeyTexts)
  OBVIOUS
<1>4. \A tags : Tagged(<<>>, tags) = {}
  BY DEF Tagged
<1>5. Count(NoKeys) = 0 /\ \A k \in 1 .. Count(NoKeys) : FALSE
  BY <1>2 DEF Count
<1>6. Current(NoKeys, <<>>)
  BY <1>4, <1>5 DEF Current
<1>7. Filed(NoKeys, <<>>)
  <2>1. InOrder({}) = <<>>
    BY FS_EmptySet DEF InOrder
  <2>2. [k \in 1 .. Count(NoKeys) |-> NoKeys.keys[k].key.line] = <<>>
    BY <1>5
  <2>3. QED
    BY <1>4, <1>5, <2>1, <2>2 DEF Filed
<1>8. Endless(NoKeys, <<>>)
  BY <1>4, <1>5 DEF Endless
<1>9. Alike(NoKeys, NoKeys)
  BY <1>5 DEF Alike
<1>10. Ready(NoKeys, <<>>)
  BY <1>4 DEF Ready
<1>11. QED
  BY <1>1, <1>2, <1>3, <1>4, <1>6, <1>7, <1>8, <1>9, <1>10 DEF KeysInv, FiledInv

\* A line with no form of a uid in it leaves the failure as it is.
LEMMA FailureStays ==
  ASSUME NEW t \in Seq(KeyTexts), NEW l \in KeyTexts, l.tag = "uid" => l.form # "bare"
  PROVE  (\E i \in Tagged(Append(t, l), {"uid"}) : Append(t, l)[i].form = "bare")
           <=> \E i \in Tagged(t, {"uid"}) : t[i].form = "bare"
<1> DEFINE u == Append(t, l)
           n == Len(t) + 1
<1>1. /\ u[n] = l /\ \A i \in DOMAIN t : u[i] = t[i]
      /\ Tagged(u, {"uid"}) = Tagged(t, {"uid"}) \cup (IF l.tag \in {"uid"} THEN {n} ELSE {})
  BY OneMoreLine
<1>2. Tagged(t, {"uid"}) \subseteq DOMAIN t
  BY DEF Tagged
<1> HIDE DEF u, n
<1>3. (\E i \in Tagged(u, {"uid"}) : u[i].form = "bare")
        <=> \E i \in Tagged(t, {"uid"}) : t[i].form = "bare"
  <2>1. CASE l.tag = "uid"
    BY <1>1, <1>2, <2>1
  <2>2. CASE l.tag # "uid"
    BY <1>1, <1>2, <2>2
  <2>3. QED
    BY <2>1, <2>2
<1>4. QED
  BY <1>3 DEF u

\* What both readers are left with after a line the server does not throw for.
LEMMA LineRead ==
  ASSUME KeysInv, NEW l \in KeyTexts, l.tag = "uid" => l.form # "bare",
         NEW s, NEW p, Reads(l, Survives(server, s), p), p \in KeyReaders,
         Ready(p, Append(text, l)),
         ~server.failed =>
           /\ s \in KeyReaders /\ s.failed = server.failed
           /\ FiledInv(s, Append(text, l)) /\ Alike(p, s)
  PROVE  KeysInv'
<1>1. /\ text' = Append(text, l) /\ text \in Seq(KeyTexts) /\ server \in KeyReaders
      /\ server' = (IF server.failed THEN server ELSE s) /\ pam' = p
  BY DEF Reads, Survives, KeysInv
<1>2. text' \in Seq(KeyTexts) /\ server' \in KeyReaders
  BY <1>1
<1>3. server'.failed <=> server.failed
  BY <1>1
<1>4. (\E i \in Tagged(text', {"uid"}) : text'[i].form = "bare")
        <=> \E i \in Tagged(text, {"uid"}) : text[i].form = "bare"
  BY <1>1, FailureStays
<1>5. server'.failed <=> \E i \in Tagged(text', {"uid"}) : text'[i].form = "bare"
  BY <1>3, <1>4 DEF KeysInv
<1>6. ~server'.failed => FiledInv(server', text') /\ Alike(pam', server')
  BY <1>1, <1>3
<1>7. QED
  BY <1>1, <1>2, <1>5, <1>6 DEF KeysInv

\* The numbers either reader makes of a key or a sub key.
LEMMA KeyMade ==
  ASSUME NEW n \in Nat, NEW given \in BOOLEAN
  PROVE  LET a == Key(n, PamNumber(given))  b == Key(n, ServerNumber(given))
         IN  a \in KeysRead /\ b \in KeysRead /\ SameKey(a, b)
BY DEF Key, KeysRead, PamNumber, ServerNumber, SameKey

LEMMA UidMade ==
  ASSUME NEW n \in Nat, NEW form \in Forms
  PROVE  LET a == PamUid(n, form)  b == ServerUid(n, form)
         IN  /\ a \in UidsRead /\ b \in UidsRead /\ a.line = n /\ b.line = n
             /\ form # "bare" => (a = b <=> ~b.comment)
<1>1. CASE form = "plain"
  BY <1>1 DEF PamUid, ServerUid, UidsRead
<1>2. CASE form = "comment"
  BY <1>2 DEF PamUid, ServerUid, UidsRead
<1>3. CASE form = "bare"
  BY <1>3 DEF PamUid, ServerUid, UidsRead
<1>4. QED
  BY <1>1, <1>2, <1>3 DEF Forms

\* With no failure so far, a key is there once a sec line is.
LEMMA KeyIsThere ==
  ASSUME KeysInv
  PROVE  /\ text \in Seq(KeyTexts) /\ server \in KeyReaders /\ pam \in KeyReaders
         /\ Next1 \in Nat /\ Next1 = Len(text) + 1
         /\ AfterSec <=> Tagged(text, {"sec"}) # {}
         /\ AfterSec => Count(pam) > 0 /\ pam.at <= Subs(pam, Count(pam))
         /\ ~server.failed =>
              /\ FiledInv(server, text) /\ Alike(pam, server)
              /\ AfterSec => Count(server) > 0 /\ server.at <= Subs(server, Count(server))
<1>1. /\ text \in Seq(KeyTexts) /\ server \in KeyReaders /\ pam \in KeyReaders
      /\ Next1 \in Nat /\ Next1 = Len(text) + 1
  BY DEF KeysInv, Next1
<1>2. AfterSec <=> Tagged(text, {"sec"}) # {}
  BY DEF AfterSec, LinesWith, Tagged
<1>3. ASSUME ~server.failed, AfterSec
      PROVE  Count(server) > 0 /\ server.at <= Subs(server, Count(server))
  <2>1. Current(server, text)
    BY <1>3 DEF KeysInv, FiledInv
  <2>2. Count(server) \in Nat /\ Count(server) # 0 /\ server.at \in Nat
    BY <1>1, <1>2, <1>3, <2>1, ReaderTyped DEF Current
  <2>3. Count(server) > 0
    BY <2>2
  <2>4. server.at = Subs(server, Count(server))
    BY <2>1, <2>3 DEF Current
  <2>5. QED
    BY <2>2, <2>3, <2>4
<1>4. QED
  BY <1>1, <1>2, <1>3 DEF KeysInv, Ready
\* The PAM module's reader has a key to put the next line to.
LEMMA StaysReady ==
  ASSUME KeysInv, NEW l \in KeyTexts, l.tag # "sec", NEW p \in KeyReaders,
         AfterSec => Count(p) > 0 /\ p.at <= Subs(p, Count(p))
  PROVE  Ready(p, Append(text, l))
<1>1. Tagged(Append(text, l), {"sec"}) = Tagged(text, {"sec"})
  <2>1. Tagged(Append(text, l), {"sec"})
          = Tagged(text, {"sec"}) \cup (IF l.tag \in {"sec"} THEN {Len(text) + 1} ELSE {})
    BY OneMoreLine DEF KeysInv
  <2>2. QED
    BY <2>1
<1>2. QED
  BY <1>1, KeyIsThere DEF Ready

LEMMA SecLineRead ==
  ASSUME KeysInv, NEW given \in BOOLEAN, SecLine(given)
  PROVE  KeysInv'
<1> DEFINE l == [tag |-> "sec", given |-> given]
           a == Key(Next1, PamNumber(given))
           b == Key(Next1, ServerNumber(given))
           s == AddSec(server, b)
           p == AddSec(pam, a)
<1>1. l \in KeyTexts /\ l.tag # "uid" /\ Reads(l, Survives(server, s), p)
  BY DEF SecLine, KeyTexts
<1>2. /\ text \in Seq(KeyTexts) /\ server \in KeyReaders /\ pam \in KeyReaders
      /\ Next1 \in Nat /\ Next1 = Len(text) + 1
      /\ ~server.failed => FiledInv(server, text) /\ Alike(pam, server)
  BY KeyIsThere
<1>3. a \in KeysRead /\ b \in KeysRead /\ SameKey(a, b)
  BY <1>2, KeyMade
<1>4. /\ p \in KeyReaders /\ p.at = 0 /\ Count(p) = Count(pam) + 1 /\ Count(pam) \in Nat
      /\ Subs(p, Count(pam) + 1) = 0
  BY <1>2, <1>3, AddedSec
<1>5. s \in KeyReaders /\ s.failed = server.failed
  BY <1>2, <1>3, AddedSec
<1>6. ~server.failed => FiledInv(s, Append(text, l)) /\ Alike(p, s)
  BY <1>2, <1>3, SecStep, AlikeSec
<1> HIDE DEF l, p, s
<1>7. Ready(p, Append(text, l))
  BY <1>4 DEF Ready
<1>8. QED
  BY <1>1, <1>4, <1>5, <1>6, <1>7, LineRead

LEMMA SsbLineRead ==
  ASSUME KeysInv, NEW given \in BOOLEAN, SsbLine(given)
  PROVE  KeysInv'
<1> DEFINE l == [tag |-> "ssb", given |-> given]
           a == Key(Next1, PamNumber(given))
           b == Key(Next1, ServerNumber(given))
           s == AddSsb(server, b)
           p == AddSsb(pam, a)
           c == Count(pam)
<1>1. /\ l \in KeyTexts /\ l.tag # "uid" /\ l.tag # "sec" /\ AfterSec
      /\ Reads(l, Survives(server, s), p)
  BY DEF SsbLine, KeyTexts
<1>2. /\ text \in Seq(KeyTexts) /\ server \in KeyReaders /\ pam \in KeyReaders
      /\ Next1 \in Nat /\ Next1 = Len(text) + 1 /\ Tagged(text, {"sec"}) # {} /\ c > 0
      /\ ~server.failed =>
           FiledInv(server, text) /\ Alike(pam, server) /\ Count(server) > 0
  BY <1>1, KeyIsThere
<1>3. a \in KeysRead /\ b \in KeysRead /\ SameKey(a, b)
  BY <1>2, KeyMade
<1>4. /\ p \in KeyReaders /\ p.at = Subs(pam, c) + 1 /\ Count(p) = c
      /\ Subs(p, c) = Subs(pam, c) + 1 /\ Subs(pam, c) \in Nat
  BY <1>2, <1>3, AddedSsb
<1>5. ~server.failed => s \in KeyReaders /\ s.failed = server.failed
  BY <1>2, <1>3, AddedSsb
<1>6. ~server.failed => FiledInv(s, Append(text, l)) /\ Alike(p, s)
  BY <1>2, <1>3, SsbStep, AlikeSsb
<1> HIDE DEF l, p, s
<1>7. p.at <= Subs(p, Count(p)) /\ Count(p) > 0
  BY <1>2, <1>4
<1>8. Ready(p, Append(text, l))
  BY <1>1, <1>4, <1>7, StaysReady
<1>9. QED
  BY <1>1, <1>4, <1>5, <1>6, <1>8, LineRead

\* A uid the server cannot read loses its list; any other is one of the last key's.
LEMMA UidLineRead ==
  ASSUME KeysInv, NEW form \in Forms, UidLine(form)
  PROVE  KeysInv'
<1> DEFINE l == [tag |-> "uid", form |-> form]
           a == PamUid(Next1, form)
           b == ServerUid(Next1, form)
           s == AddUidTo(server, b)
           p == AddUidTo(pam, a)
           c == Count(pam)
<1>1. /\ l \in KeyTexts /\ l.tag = "uid" /\ l.form = form /\ l.tag # "sec" /\ AfterSec
      /\ Reads(l, IF form = "bare" THEN [server EXCEPT !.failed = TRUE]
                  ELSE Survives(server, s), p)
  BY DEF UidLine, KeyTexts
<1>2. /\ text \in Seq(KeyTexts) /\ server \in KeyReaders /\ pam \in KeyReaders
      /\ Next1 \in Nat /\ Next1 = Len(text) + 1 /\ Tagged(text, {"sec"}) # {}
      /\ c > 0 /\ pam.at <= Subs(pam, c)
      /\ ~server.failed =>
           FiledInv(server, text) /\ Alike(pam, server) /\ Count(server) > 0
  BY <1>1, KeyIsThere
<1>3. /\ a \in UidsRead /\ b \in UidsRead /\ a.line = Next1 /\ b.line = Next1
      /\ form # "bare" => (a = b <=> ~b.comment)
  BY <1>2, UidMade
<1>4. /\ p \in KeyReaders /\ p.at = pam.at /\ Count(p) = c
      /\ p.keys[c].subs = pam.keys[c].subs
  BY <1>2, <1>3, AddedUid
<1>5. ~server.failed => s \in KeyReaders /\ s.failed = server.failed
  BY <1>2, <1>3, AddedUid
<1>6. ~server.failed => FiledInv(s, Append(text, l))
  BY <1>2, <1>3, UidStep
<1>7. ~server.failed /\ form # "bare" => Alike(p, s)
  <2>1. a.line = b.line
    BY <1>3
  <2> HIDE DEF a, b
  <2>2. QED
    BY <1>2, <1>3, <2>1, AlikeUid
<1> HIDE DEF l, p, s
<1>8. Ready(p, Append(text, l))
  <2>1. Subs(p, c) = Subs(pam, c)
    BY <1>4 DEF Subs
  <2>2. QED
    BY <1>1, <1>2, <1>4, <2>1, StaysReady
<1>9. CASE form # "bare"
  BY <1>1, <1>4, <1>5, <1>6, <1>7, <1>8, <1>9, LineRead
<1>10. CASE form = "bare"
  <2>1. /\ text' = Append(text, l) /\ server' = [server EXCEPT !.failed = TRUE] /\ pam' = p
    BY <1>1, <1>10 DEF Reads
  <2>2. text' \in Seq(KeyTexts) /\ server' \in KeyReaders /\ server'.failed = TRUE
    <3>1. text' \in Seq(KeyTexts)
      BY <1>1, <1>2, <2>1
    <3>2. [server EXCEPT !.failed = TRUE] \in KeyReaders /\ [server EXCEPT !.failed = TRUE].failed
      BY <1>2 DEF KeyReaders
    <3>3. QED
      BY <2>1, <3>1, <3>2
  <2>3. Len(text) + 1 \in Tagged(text', {"uid"}) /\ text'[Len(text) + 1].form = "bare"
    BY <1>1, <1>2, <1>10, <2>1 DEF Tagged
  <2>4. QED
    BY <1>4, <1>8, <2>1, <2>2, <2>3 DEF KeysInv
<1>11. QED
  BY <1>9, <1>10

LEMMA PartLineRead ==
  ASSUME KeysInv, NEW field \in {"fpr", "grp"}, AfterSec,
         Reads([tag |-> field], Survives(server, SetOfCurrent(server, field, Next1)),
               SetOfCurrent(pam, field, Next1))
  PROVE  KeysInv'
<1> DEFINE l == [tag |-> field]
           s == SetOfCurrent(server, field, Next1)
           p == SetOfCurrent(pam, field, Next1)
           c == Count(pam)
<1>1. l \in KeyTexts /\ l.tag # "uid" /\ l.tag # "sec" /\ Reads(l, Survives(server, s), p)
  BY DEF KeyTexts
<1>2. /\ text \in Seq(KeyTexts) /\ server \in KeyReaders /\ pam \in KeyReaders
      /\ Next1 \in Nat /\ Next1 = Len(text) + 1 /\ Tagged(text, {"sec"}) # {}
      /\ c > 0 /\ pam.at <= Subs(pam, c)
      /\ ~server.failed =>
           /\ FiledInv(server, text) /\ Alike(pam, server) /\ Count(server) > 0
           /\ server.at <= Subs(server, Count(server))
  BY KeyIsThere
<1>3. p \in KeyReaders /\ p.at = pam.at /\ Count(p) = c /\ Subs(p, c) = Subs(pam, c)
  BY <1>2, SetPart
<1>4. ~server.failed => s \in KeyReaders /\ s.failed = server.failed
  BY <1>2, SetPart
<1>5. ~server.failed => FiledInv(s, Append(text, l))
  BY <1>2, PartStep
<1>6. ~server.failed => Alike(p, s)
  BY <1>2, AlikePart
<1> HIDE DEF l, p, s
<1>7. Ready(p, Append(text, l))
  BY <1>1, <1>2, <1>3, StaysReady
<1>8. QED
  BY <1>1, <1>3, <1>4, <1>5, <1>6, <1>7, LineRead

LEMMA OtherLineRead ==
  ASSUME KeysInv, OtherLine
  PROVE  KeysInv'
<1> DEFINE l == [tag |-> "other"]
<1>1. l \in KeyTexts /\ l.tag # "uid" /\ l.tag # "sec" /\ Reads(l, Survives(server, server), pam)
  BY DEF OtherLine, KeyTexts, Survives
<1>2. /\ text \in Seq(KeyTexts) /\ server \in KeyReaders /\ pam \in KeyReaders
      /\ AfterSec => Count(pam) > 0 /\ pam.at <= Subs(pam, Count(pam))
      /\ ~server.failed => FiledInv(server, text) /\ Alike(pam, server)
  BY KeyIsThere
<1>3. ~server.failed => FiledInv(server, Append(text, l))
  BY <1>2, OtherStep
<1> HIDE DEF l
<1>4. Ready(pam, Append(text, l))
  BY <1>1, <1>2, StaysReady
<1>5. QED
  BY <1>1, <1>2, <1>3, <1>4, LineRead

LEMMA KeysStep ==
  ASSUME KeysInv, KeysNext
  PROVE  KeysInv'
<1>1. ASSUME NEW given \in BOOLEAN, SecLine(given) PROVE KeysInv'
  BY <1>1, SecLineRead
<1>2. ASSUME NEW given \in BOOLEAN, SsbLine(given) PROVE KeysInv'
  BY <1>2, SsbLineRead
<1>3. ASSUME NEW form \in Forms, UidLine(form) PROVE KeysInv'
  BY <1>3, UidLineRead
<1>4. CASE FprLine
  <2>1. AfterSec /\ Reads([tag |-> "fpr"], Survives(server, SetOfCurrent(server, "fpr", Next1)),
                          SetOfCurrent(pam, "fpr", Next1))
    BY <1>4 DEF FprLine
  <2>2. QED
    BY <2>1, PartLineRead
<1>5. CASE GrpLine
  <2>1. AfterSec /\ Reads([tag |-> "grp"], Survives(server, SetOfCurrent(server, "grp", Next1)),
                          SetOfCurrent(pam, "grp", Next1))
    BY <1>5 DEF GrpLine
  <2>2. QED
    BY <2>1, PartLineRead
<1>6. CASE OtherLine
  BY <1>6, OtherLineRead
<1>7. QED
  BY <1>1, <1>2, <1>3, <1>4, <1>5, <1>6 DEF KeysNext
\* The server has filed every line of a list of keys.
LEMMA KeysAreFiled ==
  ASSUME format = "keys", KeysInv
  PROVE  ServerReadsKeys
<1>1. \A tags : LinesWith(tags) = Tagged(text, tags)
  BY DEF LinesWith, Tagged
<1>2. \A i, tag : SectionOf(i, tag) = Section(text, i, tag, {"sec"})
  BY <1>1 DEF SectionOf, Before, Section, UpTo
<1>3. \A i, tag : PartOf(i, tag) = PartIn(text, i, tag)
  BY <1>1 DEF PartOf, Before, PartIn, Section, UpTo
<1>4. server.failed <=> \E i \in LinesWith({"uid"}) : text[i].form = "bare"
  BY <1>1 DEF KeysInv
<1>5. ASSUME ~server.failed
      PROVE  /\ [k \in DOMAIN server.keys |-> server.keys[k].key.line] = InOrder(LinesWith({"sec"}))
             /\ \A k \in DOMAIN server.keys :
                  LET s == server.keys[k]
                  IN  /\ LineNumbers(s.subs) = InOrder(SectionOf(s.key.line, "ssb"))
                      /\ LineNumbers(s.uids) = InOrder(SectionOf(s.key.line, "uid"))
                      /\ Belongs(s.key)
                      /\ \A i \in DOMAIN s.subs : Belongs(s.subs[i])
  <2>1. server \in KeyReaders /\ Filed(server, text)
    BY <1>5 DEF KeysInv, FiledInv
  <2>2. DOMAIN server.keys = 1 .. Count(server)
    BY <2>1, ReaderTyped
  <2>3. [k \in DOMAIN server.keys |-> server.keys[k].key.line] = InOrder(LinesWith({"sec"}))
    BY <1>1, <2>1, <2>2 DEF Filed
  <2>4. ASSUME NEW k \in DOMAIN server.keys
        PROVE  LET s == server.keys[k]
               IN  /\ LineNumbers(s.subs) = InOrder(SectionOf(s.key.line, "ssb"))
                   /\ LineNumbers(s.uids) = InOrder(SectionOf(s.key.line, "uid"))
                   /\ Belongs(s.key)
                   /\ \A i \in DOMAIN s.subs : Belongs(s.subs[i])
    <3> DEFINE s == server.keys[k]
    <3>1. FiledKey(text, s)
      BY <2>1, <2>2 DEF Filed
    <3>2. \A m \in 0 .. Subs(server, k) : BelongsIn(text, KeyAt(server, k, m))
      BY <2>1, <2>2 DEF Filed
    <3>3. DOMAIN s.subs = 1 .. Subs(server, k) /\ Subs(server, k) \in Nat
      BY <2>1, <2>2, ReaderTyped
    <3>4. \A key : BelongsIn(text, key) => Belongs(key)
      BY <1>3 DEF BelongsIn, Belongs
    <3>5. Belongs(s.key)
      <4>1. 0 \in 0 .. Subs(server, k) /\ KeyAt(server, k, 0) = s.key
        BY <3>3 DEF KeyAt
      <4>2. QED
        BY <3>2, <3>4, <4>1
    <3>6. ASSUME NEW i \in DOMAIN s.subs PROVE Belongs(s.subs[i])
      <4>1. i \in 0 .. Subs(server, k) /\ i # 0
        BY <3>3, <3>6
      <4>2. KeyAt(server, k, i) = s.subs[i]
        BY <4>1 DEF KeyAt
      <4>3. QED
        BY <3>2, <3>4, <4>1, <4>2
    <3>7. QED
      BY <1>2, <3>1, <3>5, <3>6 DEF FiledKey, Owned
  <2>5. QED
    BY <2>3, <2>4
<1>6. QED
  BY <1>4, <1>5 DEF ServerReadsKeys

\* Two polls with the same text differ in the keys without an expiry.
LEMMA KeysQuiet ==
  ASSUME format = "keys", KeysInv
  PROVE  QuietUnlessEndless
<1> SUFFICES ASSUME ~server.failed
             PROVE  KeysChanged(server.keys, server.keys)
                      <=> \E i \in LinesWith({"sec", "ssb"}) : ~text[i].given
  BY DEF QuietUnlessEndless
<1>1. server \in KeyReaders /\ Endless(server, text)
  BY DEF KeysInv, FiledInv
<1>2. \A tags : LinesWith(tags) = Tagged(text, tags)
  BY DEF LinesWith, Tagged
<1>3. /\ DOMAIN server.keys = 1 .. Count(server)
      /\ \A k \in 1 .. Count(server) :
           Subs(server, k) \in Nat /\ DOMAIN server.keys[k].subs = 1 .. Subs(server, k)
  BY <1>1, ReaderTyped
<1>4. ASSUME NEW k \in 1 .. Count(server)
      PROVE  ~SecretKeyEq(server.keys[k], server.keys[k])
               <=> \E m \in 0 .. Subs(server, k) : KeyAt(server, k, m).expires = "NaN"
  <2> DEFINE s == server.keys[k]
  <2>1. SecretKeyEq(s, s) <=>
          s.key.expires # "NaN" /\ \A i \in 1 .. Subs(server, k) : s.subs[i].expires # "NaN"
    BY <1>3 DEF SecretKeyEq, KeyEq
  <2>2. /\ KeyAt(server, k, 0) = s.key
        /\ \A i \in 1 .. Subs(server, k) : KeyAt(server, k, i) = s.subs[i]
    BY <1>3 DEF KeyAt
  <2>3. \A m : m \in 0 .. Subs(server, k) <=> m = 0 \/ m \in 1 .. Subs(server, k)
    BY <1>3
  <2> HIDE DEF s
  <2>4. SecretKeyEq(s, s) <=> \A m \in 0 .. Subs(server, k) : KeyAt(server, k, m).expires # "NaN"
    BY <2>1, <2>2, <2>3
  <2>5. QED
    BY <2>4 DEF s
<1>5. KeysChanged(server.keys, server.keys)
        <=> \E k \in 1 .. Count(server) :
              \E m \in 0 .. Subs(server, k) : KeyAt(server, k, m).expires = "NaN"
  BY <1>3, <1>4 DEF KeysChanged
<1>6. QED
  BY <1>1, <1>2, <1>5 DEF Endless

\* The PAM module has found what the server has.
LEMMA KeysAlike ==
  ASSUME format = "keys", KeysInv
  PROVE  PamFindsTheSameKeys
<1> SUFFICES ASSUME ~server.failed
             PROVE  /\ Len(pam.keys) = Len(server.keys)
                    /\ \A k \in DOMAIN pam.keys :
                         LET p == pam.keys[k]  s == server.keys[k]
                         IN  /\ WithoutNumber(p.key) = WithoutNumber(s.key)
                             /\ [i \in DOMAIN p.subs |-> WithoutNumber(p.subs[i])]
                                  = [i \in DOMAIN s.subs |-> WithoutNumber(s.subs[i])]
                             /\ LineNumbers(p.uids) = LineNumbers(s.uids)
                             /\ \A i \in DOMAIN p.uids : p.uids[i] = s.uids[i]
                                  <=> ~s.uids[i].comment
  BY DEF PamFindsTheSameKeys
<1>1. server \in KeyReaders /\ pam \in KeyReaders /\ Alike(pam, server)
  BY DEF KeysInv
<1>2. Len(pam.keys) = Len(server.keys)
  BY <1>1 DEF Alike, Count
<1>3. ASSUME NEW k \in DOMAIN pam.keys
      PROVE  LET p == pam.keys[k]  s == server.keys[k]
             IN  /\ WithoutNumber(p.key) = WithoutNumber(s.key)
                 /\ [i \in DOMAIN p.subs |-> WithoutNumber(p.subs[i])]
                      = [i \in DOMAIN s.subs |-> WithoutNumber(s.subs[i])]
                 /\ LineNumbers(p.uids) = LineNumbers(s.uids)
                 /\ \A i \in DOMAIN p.uids : p.uids[i] = s.uids[i] <=> ~s.uids[i].comment
  <2> DEFINE p == pam.keys[k]
             s == server.keys[k]
             n == Subs(server, k)
  <2>1. k \in 1 .. Count(server) /\ k \in 1 .. Count(pam)
    BY <1>1, ReaderTyped DEF Alike
  <2>2. /\ Subs(pam, k) = n /\ SameUids(p.uids, s.uids)
        /\ \A m \in 0 .. n : SameKey(KeyAt(pam, k, m), KeyAt(server, k, m))
    BY <1>1, <2>1 DEF Alike, SameSecret
  <2>3. /\ n \in Nat /\ DOMAIN p.subs = 1 .. n /\ DOMAIN s.subs = 1 .. n
        /\ p.uids \in Seq(UidsRead) /\ s.uids \in Seq(UidsRead)
    BY <1>1, <2>1, <2>2, ReaderTyped
  <2>4. \A a, b : SameKey(a, b) => WithoutNumber(a) = WithoutNumber(b)
    BY DEF SameKey, WithoutNumber
  <2>5. WithoutNumber(p.key) = WithoutNumber(s.key)
    <3>1. 0 \in 0 .. n /\ KeyAt(pam, k, 0) = p.key /\ KeyAt(server, k, 0) = s.key
      BY <2>3 DEF KeyAt
    <3>2. QED
      BY <2>2, <2>4, <3>1
  <2>6. \A i \in 1 .. n : WithoutNumber(p.subs[i]) = WithoutNumber(s.subs[i])
    <3>1. \A i \in 1 .. n :
            i \in 0 .. n /\ KeyAt(pam, k, i) = p.subs[i] /\ KeyAt(server, k, i) = s.subs[i]
      BY <2>3 DEF KeyAt
    <3>2. QED
      BY <2>2, <2>4, <3>1
  <2>7. DOMAIN p.uids = 1 .. Len(s.uids) /\ DOMAIN s.uids = 1 .. Len(s.uids)
    BY <2>2, <2>3 DEF SameUids
  <2>8. LineNumbers(p.uids) = LineNumbers(s.uids)
        /\ \A i \in DOMAIN p.uids : p.uids[i] = s.uids[i] <=> ~s.uids[i].comment
    BY <2>2, <2>7 DEF SameUids, LineNumbers
  <2>9. [i \in DOMAIN p.subs |-> WithoutNumber(p.subs[i])]
          = [i \in DOMAIN s.subs |-> WithoutNumber(s.subs[i])]
    BY <2>3, <2>6
  <2>10. QED
    BY <2>5, <2>8, <2>9
<1>4. QED
  BY <1>2, <1>3
-----------------------------------------------------------------------------
(* The cards: slots. *)

CardVals == {"", "0", "1", "7", "x", "NaN", "undefined", "plain", "one escape", "two escapes"}
SlotNames == {"attr", "maxpinlen", "pinretry", "fprtime", "fpr", "cafpr", "sigcount"}
SlotsRead ==
  [attr : CardVals, maxpinlen : CardVals, pinretry : CardVals, fprtime : CardVals,
   fpr : CardVals, cafpr : CardVals, sigcount : CardVals]
SlotMaps == UNION {[D -> SlotsRead] : D \in SUBSET (1 .. Slots)}
CardsRead ==
  [id : CardIds, blank : CardVals, text : CardVals, url : CardVals, sigcount : CardVals,
   cafpr : CardVals, slots : SlotMaps]
CardReaders == [done : Seq(CardsRead), open : BOOLEAN]

LEMMA FieldsOfSlots ==
  /\ SlotFields \subseteq SlotNames /\ Numbers \subseteq SlotFields
  /\ SlotNames = SlotFields \cup {"attr"} /\ "attr" \notin SlotFields
  /\ SlotFields = Numbers \cup {"fpr", "cafpr", "sigcount"}
  /\ "fpr" \notin Numbers /\ "cafpr" \notin Numbers /\ "sigcount" \notin Numbers
BY DEF SlotFields, Numbers, SlotNames

\* A slot with one field set.
LEMMA SlotWith ==
  ASSUME NEW x \in SlotsRead, NEW field \in SlotNames, NEW v \in CardVals
  PROVE  LET y == [x EXCEPT ![field] = v]
         IN  y \in SlotsRead /\ y[field] = v /\ \A g \in SlotNames : g # field => y[g] = x[g]
BY DEF SlotsRead, SlotNames

\* The fields of a slot before a line names it.
LEMMA BlankSlots ==
  /\ ServerSlot \in SlotsRead /\ PamSlot \in SlotsRead
  /\ ServerSlot["attr"] = "0" /\ PamSlot["attr"] = "0"
  /\ ServerSlot["sigcount"] = "0" /\ PamSlot["sigcount"] = "0"
  /\ ServerSlot["cafpr"] = "0" /\ ServerSlot["fpr"] = "undefined"
  /\ \A f \in Numbers : ServerSlot[f] # "NaN"
  /\ \A f \in Numbers \cup {"fpr"} : PamSlot[f] = ServerSlot[f] \/ ServerSlot[f] = "undefined"
BY DEF ServerSlot, PamSlot, SlotsRead, CardVals, Numbers

LEMMA SlotMapTyped ==
  ASSUME NEW m
  PROVE  m \in SlotMaps <=>
           /\ DOMAIN m \subseteq 1 .. Slots /\ m = [n \in DOMAIN m |-> m[n]]
           /\ \A n \in DOMAIN m : m[n] \in SlotsRead
<1>1. ASSUME m \in SlotMaps
      PROVE  /\ DOMAIN m \subseteq 1 .. Slots /\ m = [n \in DOMAIN m |-> m[n]]
             /\ \A n \in DOMAIN m : m[n] \in SlotsRead
  <2>1. PICK D \in SUBSET (1 .. Slots) : m \in [D -> SlotsRead]
    BY <1>1 DEF SlotMaps
  <2>2. QED
    BY <2>1
<1>2. ASSUME DOMAIN m \subseteq 1 .. Slots, m = [n \in DOMAIN m |-> m[n]],
             \A n \in DOMAIN m : m[n] \in SlotsRead
      PROVE  m \in SlotMaps
  <2>1. m \in [DOMAIN m -> SlotsRead]
    BY <1>2
  <2>2. QED
    BY <1>2, <2>1 DEF SlotMaps
<1>3. QED
  BY <1>1, <1>2

\* The slots a line names are there after it, at the PAM module with all before them.
LEMMA ServerAllocates ==
  ASSUME NEW m \in SlotMaps, NEW D \in SUBSET (1 .. Slots)
  PROVE  LET x == ServerAlloc(m, D)
         IN  /\ x \in SlotMaps /\ DOMAIN x = DOMAIN m \cup D
             /\ \A n \in DOMAIN x : x[n] = IF n \in DOMAIN m THEN m[n] ELSE ServerSlot
<1> DEFINE x == ServerAlloc(m, D)
           E == DOMAIN m \cup D
<1>1. x = [n \in E |-> IF n \in DOMAIN m THEN m[n] ELSE ServerSlot]
  BY DEF ServerAlloc
<1>2. E \subseteq 1 .. Slots /\ \A n \in DOMAIN m : m[n] \in SlotsRead
  BY SlotMapTyped
<1>3. ServerSlot \in SlotsRead
  BY BlankSlots
<1> HIDE DEF x
<1>4. DOMAIN x = E /\ \A n \in E : x[n] \in SlotsRead
  BY <1>1, <1>2, <1>3
<1>5. x = [n \in DOMAIN x |-> x[n]]
  BY <1>1
<1>6. x \in SlotMaps
  BY <1>2, <1>4, <1>5, SlotMapTyped
<1>7. QED
  BY <1>1, <1>4, <1>6 DEF x

LEMMA PamAllocates ==
  ASSUME NEW m \in SlotMaps, NEW D \in SUBSET (1 .. Slots)
  PROVE  LET x == PamAlloc(m, D)
         IN  /\ x \in SlotMaps /\ DOMAIN m \cup D \subseteq DOMAIN x
             /\ \A n \in DOMAIN x : x[n] = IF n \in DOMAIN m THEN m[n] ELSE PamSlot
<1> DEFINE x == PamAlloc(m, D)
           T == DOMAIN m \cup D \cup {0}
<1>1. x = [n \in 1 .. Max(T) |-> IF n \in DOMAIN m THEN m[n] ELSE PamSlot]
  BY DEF PamAlloc
<1>2. DOMAIN m \subseteq 1 .. Slots /\ \A n \in DOMAIN m : m[n] \in SlotsRead
  BY SlotMapTyped
<1>3. PamSlot \in SlotsRead
  BY BlankSlots
<1>4. /\ Slots \in Nat /\ 0 \in 0 .. Slots
      /\ \A n \in 1 .. Slots : n \in Nat /\ n >= 1 /\ n <= Slots /\ n \in 0 .. Slots
      /\ \A n \in 0 .. Slots : n \in Nat /\ n <= Slots
  <2>1. Slots \in Nat
    BY SlotsAssumption
  <2>2. QED
    BY <2>1
<1>5. /\ \A n \in T : n \in 0 .. Slots
      /\ T # {} /\ DOMAIN m \cup D \subseteq T
      /\ \A n \in DOMAIN m \cup D : n \in 1 .. Slots
  <2> HIDE DEF x
  <2>1. \A n \in DOMAIN m \cup D : n \in 1 .. Slots
    BY <1>2
  <2>2. QED
    BY <1>4, <2>1
<1>6. T \in SUBSET (0 .. Slots) /\ T \in SUBSET Nat
  <2> HIDE DEF x, T
  <2>1. T \in SUBSET (0 .. Slots)
    BY <1>5
  <2>2. QED
    BY <1>4, <1>5, <2>1
<1> HIDE DEF x, T
<1>7. Max(T) \in T /\ \A n \in T : n <= Max(T)
  <2>1. IsFiniteSet(0 .. Slots)
    <3>1. 0 \in Int /\ Slots \in Int
      BY <1>4
    <3>2. QED
      BY <3>1, FS_Interval
  <2>2. IsFiniteSet(T)
    BY <1>6, <2>1, FS_Subset
  <2>3. Latest(T) = Max(T)
    BY <1>5 DEF Latest
  <2>4. QED
    BY <1>5, <1>6, <2>2, <2>3, LatestIsLargest
<1>8. Max(T) \in Nat /\ Max(T) <= Slots
  BY <1>4, <1>5, <1>7
<1>9. DOMAIN x = 1 .. Max(T) /\ \A n \in 1 .. Max(T) : x[n] \in SlotsRead
  BY <1>1, <1>2, <1>3
<1>10. DOMAIN x \subseteq 1 .. Slots
  <2>1. \A n \in 1 .. Max(T) : n \in 1 .. Slots
    BY <1>4, <1>8
  <2>2. QED
    BY <1>9, <2>1
<1>11. DOMAIN m \cup D \subseteq DOMAIN x
  <2>1. \A n \in 1 .. Slots : n <= Max(T) => n \in 1 .. Max(T)
    BY <1>4, <1>8
  <2>2. QED
    BY <1>5, <1>7, <1>9, <2>1
<1>12. x = [n \in DOMAIN x |-> x[n]]
  BY <1>1
<1>13. x \in SlotMaps
  BY <1>9, <1>10, <1>12, SlotMapTyped
<1>14. QED
  BY <1>1, <1>9, <1>11, <1>13 DEF x

\* A field of some of the slots is set.
LEMMA SlotsSet ==
  ASSUME NEW m \in SlotMaps, NEW field \in SlotNames, NEW D \in SUBSET DOMAIN m,
         NEW valueOf \in [D -> CardVals]
  PROVE  LET x == SetSlots(m, field, valueOf)
         IN  /\ x \in SlotMaps /\ DOMAIN x = DOMAIN m
             /\ \A n \in DOMAIN m : x[n][field] = IF n \in D THEN valueOf[n] ELSE m[n][field]
             /\ \A n \in DOMAIN m : \A g \in SlotNames : g # field => x[n][g] = m[n][g]
             /\ \A n \in DOMAIN m : n \notin D => x[n] = m[n]
<1> DEFINE x == SetSlots(m, field, valueOf)
<1>1. x = [n \in DOMAIN m |-> IF n \in D THEN [m[n] EXCEPT ![field] = valueOf[n]] ELSE m[n]]
  BY DEF SetSlots
<1>2. DOMAIN m \subseteq 1 .. Slots /\ \A n \in DOMAIN m : m[n] \in SlotsRead
  BY SlotMapTyped
<1> HIDE DEF x
<1>3. DOMAIN x = DOMAIN m /\ x = [n \in DOMAIN x |-> x[n]]
  BY <1>1
<1>4. ASSUME NEW n \in DOMAIN m
      PROVE  /\ x[n] \in SlotsRead
             /\ x[n][field] = IF n \in D THEN valueOf[n] ELSE m[n][field]
             /\ \A g \in SlotNames : g # field => x[n][g] = m[n][g]
             /\ n \notin D => x[n] = m[n]
  <2>1. CASE n \in D
    <3>1. x[n] = [m[n] EXCEPT ![field] = valueOf[n]] /\ valueOf[n] \in CardVals
      BY <1>1, <2>1
    <3>2. QED
      BY <1>2, <2>1, <3>1, SlotWith
  <2>2. CASE n \notin D
    BY <1>1, <1>2, <2>2
  <2>3. QED
    BY <2>1, <2>2
<1>5. x \in SlotMaps
  BY <1>2, <1>3, <1>4, SlotMapTyped
<1>6. QED
  BY <1>3, <1>4, <1>5 DEF x
-----------------------------------------------------------------------------
(* The cards: the slots of the two readers keep in step. *)

SlotAlike(p, s) ==
  /\ p["attr"] = s["attr"] /\ p["sigcount"] = s["sigcount"]
  /\ \A f \in Numbers \cup {"fpr"} : p[f] = s[f] \/ s[f] \in {"NaN", "undefined"}

\* What one of them has and the other has not is as it was made, but for the CA's
\* fingerprint, which the PAM module has at the slot before.
SlotsAlike(P, S) ==
  /\ \A n \in DOMAIN P \cap DOMAIN S : SlotAlike(P[n], S[n])
  /\ \A n \in DOMAIN P : n \notin DOMAIN S => P[n] = PamSlot
  /\ \A n \in DOMAIN S : n \notin DOMAIN P =>
       \A g \in SlotNames : g # "cafpr" => S[n][g] = ServerSlot[g]
  /\ \A n \in DOMAIN S :
       \/ n = 1 \/ S[n]["cafpr"] = "0"
       \/ n - 1 \in DOMAIN P /\ P[n - 1]["cafpr"] = S[n]["cafpr"]

LEMMA BlankAlike ==
  ASSUME NEW s, \A g \in SlotNames : g # "cafpr" => s[g] = ServerSlot[g]
  PROVE  SlotAlike(PamSlot, s)
<1>1. \A g \in Numbers \cup {"fpr", "attr", "sigcount"} : g \in SlotNames /\ g # "cafpr"
  BY DEF SlotNames, Numbers
<1>2. QED
  BY <1>1, BlankSlots DEF SlotAlike

\* Slots that are made alike, whichever of them either makes.
LEMMA AllocatedAlike ==
  ASSUME NEW P \in SlotMaps, NEW S \in SlotMaps, SlotsAlike(P, S),
         NEW D \in SUBSET (1 .. Slots), NEW E \in SUBSET (1 .. Slots)
  PROVE  SlotsAlike(PamAlloc(P, D), ServerAlloc(S, E))
<1> DEFINE X == PamAlloc(P, D)
           Y == ServerAlloc(S, E)
<1>1. /\ DOMAIN P \subseteq DOMAIN X
      /\ \A n \in DOMAIN X : X[n] = IF n \in DOMAIN P THEN P[n] ELSE PamSlot
  BY PamAllocates
<1>2. /\ DOMAIN S \subseteq DOMAIN Y
      /\ \A n \in DOMAIN Y : Y[n] = IF n \in DOMAIN S THEN S[n] ELSE ServerSlot
  BY ServerAllocates
<1> HIDE DEF X, Y
<1>3. ASSUME NEW n \in DOMAIN X, n \in DOMAIN Y PROVE SlotAlike(X[n], Y[n])
  <2>1. CASE n \in DOMAIN P /\ n \in DOMAIN S
    BY <1>1, <1>2, <1>3, <2>1 DEF SlotsAlike
  <2>2. CASE n \notin DOMAIN P \/ n \notin DOMAIN S
    <3>1. X[n] = PamSlot
      BY <1>1, <2>2 DEF SlotsAlike
    <3>2. \A g \in SlotNames : g # "cafpr" => Y[n][g] = ServerSlot[g]
      BY <1>2, <1>3, <2>2 DEF SlotsAlike
    <3>3. QED
      BY <3>1, <3>2, BlankAlike
  <2>3. QED
    BY <2>1, <2>2
<1>4. ASSUME NEW n \in DOMAIN X, n \notin DOMAIN Y PROVE X[n] = PamSlot
  BY <1>1, <1>2, <1>4 DEF SlotsAlike
<1>5. ASSUME NEW n \in DOMAIN Y, n \notin DOMAIN X
      PROVE  \A g \in SlotNames : g # "cafpr" => Y[n][g] = ServerSlot[g]
  BY <1>1, <1>2, <1>5 DEF SlotsAlike
<1>6. ASSUME NEW n \in DOMAIN Y
      PROVE  \/ n = 1 \/ Y[n]["cafpr"] = "0"
             \/ n - 1 \in DOMAIN X /\ X[n - 1]["cafpr"] = Y[n]["cafpr"]
  <2>1. CASE n \in DOMAIN S
    <3>1. Y[n] = S[n]
      BY <1>2, <2>1
    <3>2. n - 1 \in DOMAIN P => n - 1 \in DOMAIN X /\ X[n - 1] = P[n - 1]
      BY <1>1
    <3>3. \/ n = 1 \/ S[n]["cafpr"] = "0"
          \/ n - 1 \in DOMAIN P /\ P[n - 1]["cafpr"] = S[n]["cafpr"]
      BY <2>1 DEF SlotsAlike
    <3>4. QED
      BY <3>1, <3>2, <3>3
  <2>2. CASE n \notin DOMAIN S
    BY <1>2, <2>2, BlankSlots
  <2>3. QED
    BY <2>1, <2>2
<1>7. SlotsAlike(X, Y)
  BY <1>3, <1>4, <1>5, <1>6 DEF SlotsAlike
<1>8. QED
  BY <1>7 DEF X, Y

\* Values of a field other than the CA's fingerprint, at slots that both have.
LEMMA SetAlike ==
  ASSUME NEW P \in SlotMaps, NEW S \in SlotMaps, SlotsAlike(P, S),
         NEW D \in SUBSET (DOMAIN P \cap DOMAIN S), NEW f \in SlotNames, f # "cafpr",
         NEW a \in [D -> CardVals], NEW b \in [D -> CardVals],
         \A n \in D : a[n] = b[n] \/ (f \in Numbers \cup {"fpr"} /\ b[n] \in {"NaN", "undefined"})
  PROVE  SlotsAlike(SetSlots(P, f, a), SetSlots(S, f, b))
<1> DEFINE X == SetSlots(P, f, a)
           Y == SetSlots(S, f, b)
<1>0. D \in SUBSET DOMAIN P /\ D \in SUBSET DOMAIN S
  OBVIOUS
<1>1. /\ DOMAIN X = DOMAIN P
      /\ \A n \in DOMAIN P : X[n][f] = IF n \in D THEN a[n] ELSE P[n][f]
      /\ \A n \in DOMAIN P : \A g \in SlotNames : g # f => X[n][g] = P[n][g]
      /\ \A n \in DOMAIN P : n \notin D => X[n] = P[n]
  BY <1>0, SlotsSet
<1>2. /\ DOMAIN Y = DOMAIN S
      /\ \A n \in DOMAIN S : Y[n][f] = IF n \in D THEN b[n] ELSE S[n][f]
      /\ \A n \in DOMAIN S : \A g \in SlotNames : g # f => Y[n][g] = S[n][g]
      /\ \A n \in DOMAIN S : n \notin D => Y[n] = S[n]
  BY SlotsSet
<1> HIDE DEF X, Y
<1>3. \A g \in Numbers \cup {"fpr", "attr", "sigcount"} : g \in SlotNames /\ g # "cafpr"
  BY DEF SlotNames, Numbers
<1>4. "attr" \notin Numbers \cup {"fpr"} /\ "sigcount" \notin Numbers \cup {"fpr"}
  BY DEF Numbers
<1>5. ASSUME NEW n \in DOMAIN P \cap DOMAIN S PROVE SlotAlike(X[n], Y[n])
  <2>1. SlotAlike(P[n], S[n])
    BY DEF SlotsAlike
  <2>2. CASE n \notin D
    BY <1>1, <1>2, <2>1, <2>2
  <2>3. CASE n \in D
    <3>1. X[n][f] = a[n] /\ Y[n][f] = b[n]
      BY <1>1, <1>2, <2>3
    <3>2. \A g \in SlotNames : g # f => X[n][g] = P[n][g] /\ Y[n][g] = S[n][g]
      BY <1>1, <1>2
    <3>3. a[n] = b[n] \/ (f \in Numbers \cup {"fpr"} /\ b[n] \in {"NaN", "undefined"})
      BY <2>3
    <3>4. X[n]["attr"] = Y[n]["attr"] /\ X[n]["sigcount"] = Y[n]["sigcount"]
      BY <1>3, <1>4, <2>1, <3>1, <3>2, <3>3 DEF SlotAlike
    <3>5. ASSUME NEW g \in Numbers \cup {"fpr"}
          PROVE  X[n][g] = Y[n][g] \/ Y[n][g] \in {"NaN", "undefined"}
      <4>1. CASE g = f
        BY <3>1, <3>3, <4>1
      <4>2. CASE g # f
        BY <1>3, <2>1, <3>2, <4>2 DEF SlotAlike
      <4>3. QED
        BY <4>1, <4>2
    <3>6. QED
      BY <3>4, <3>5 DEF SlotAlike
  <2>4. QED
    BY <2>2, <2>3
<1>6. \A n \in DOMAIN P : n \notin DOMAIN S => X[n] = PamSlot
  BY <1>1 DEF SlotsAlike
<1>7. \A n \in DOMAIN S : n \notin DOMAIN P =>
        \A g \in SlotNames : g # "cafpr" => Y[n][g] = ServerSlot[g]
  BY <1>2 DEF SlotsAlike
<1>8. "cafpr" \in SlotNames
  BY DEF SlotNames
<1>9. ASSUME NEW n \in DOMAIN S
      PROVE  \/ n = 1 \/ Y[n]["cafpr"] = "0"
             \/ n - 1 \in DOMAIN P /\ X[n - 1]["cafpr"] = Y[n]["cafpr"]
  <2>1. Y[n]["cafpr"] = S[n]["cafpr"]
    BY <1>2, <1>8
  <2>2. n - 1 \in DOMAIN P => X[n - 1]["cafpr"] = P[n - 1]["cafpr"]
    BY <1>1, <1>8
  <2>3. \/ n = 1 \/ S[n]["cafpr"] = "0"
        \/ n - 1 \in DOMAIN P /\ P[n - 1]["cafpr"] = S[n]["cafpr"]
    BY DEF SlotsAlike
  <2>4. QED
    BY <2>1, <2>2, <2>3
<1>10. SlotsAlike(X, Y)
  BY <1>1, <1>2, <1>5, <1>6, <1>7, <1>9 DEF SlotsAlike
<1>11. QED
  BY <1>10 DEF X, Y

\* The fingerprints of CAs, which the PAM module puts one slot further down.
OneDown(a, b) == \A n \in DOMAIN b : n # 1 => n - 1 \in DOMAIN a /\ a[n - 1] = b[n]

LEMMA CaSetAlike ==
  ASSUME NEW P \in SlotMaps, NEW S \in SlotMaps, SlotsAlike(P, S),
         DOMAIN P \subseteq DOMAIN S, NEW D \in SUBSET DOMAIN P,
         NEW a \in [D -> CardVals],
         NEW E \in SUBSET DOMAIN S, DOMAIN S \subseteq E, NEW b \in [E -> CardVals],
         OneDown(a, b)
  PROVE  SlotsAlike(SetSlots(P, "cafpr", a), SetSlots(S, "cafpr", b))
<1> DEFINE f == "cafpr"
           X == SetSlots(P, f, a)
           Y == SetSlots(S, f, b)
<1>1. f \in SlotNames
  BY DEF SlotNames
<1>2. /\ DOMAIN X = DOMAIN P
      /\ \A n \in DOMAIN P : X[n][f] = IF n \in D THEN a[n] ELSE P[n][f]
      /\ \A n \in DOMAIN P : \A g \in SlotNames : g # f => X[n][g] = P[n][g]
      /\ \A n \in DOMAIN P : n \notin D => X[n] = P[n]
  <2>1. ASSUME NEW h \in SlotNames
        PROVE  LET Z == SetSlots(P, h, a)
               IN  /\ DOMAIN Z = DOMAIN P
                   /\ \A n \in DOMAIN P : Z[n][h] = IF n \in D THEN a[n] ELSE P[n][h]
                   /\ \A n \in DOMAIN P : \A g \in SlotNames : g # h => Z[n][g] = P[n][g]
                   /\ \A n \in DOMAIN P : n \notin D => Z[n] = P[n]
    BY SlotsSet
  <2> HIDE DEF f
  <2>2. QED
    BY <1>1, <2>1
<1>3. /\ DOMAIN Y = DOMAIN S
      /\ \A n \in DOMAIN S : Y[n][f] = b[n]
      /\ \A n \in DOMAIN S : \A g \in SlotNames : g # f => Y[n][g] = S[n][g]
  <2>1. ASSUME NEW h \in SlotNames
        PROVE  LET Z == SetSlots(S, h, b)
               IN  /\ DOMAIN Z = DOMAIN S
                   /\ \A n \in DOMAIN S : Z[n][h] = IF n \in E THEN b[n] ELSE S[n][h]
                   /\ \A n \in DOMAIN S : \A g \in SlotNames : g # h => Z[n][g] = S[n][g]
    BY SlotsSet
  <2> HIDE DEF f
  <2>2. QED
    BY <1>1, <2>1
<1> HIDE DEF X, Y
<1>4. \A g \in Numbers \cup {"fpr", "attr", "sigcount"} : g \in SlotNames /\ g # "cafpr"
  BY DEF SlotNames, Numbers
<1>5. \A n \in DOMAIN P \cap DOMAIN S : SlotAlike(X[n], Y[n])
  BY <1>2, <1>3, <1>4 DEF SlotsAlike, SlotAlike
<1>6. \A n \in DOMAIN P : n \in DOMAIN S
  OBVIOUS
<1>7. ASSUME NEW n \in DOMAIN S
      PROVE  n = 1 \/ (n - 1 \in DOMAIN P /\ X[n - 1]["cafpr"] = Y[n]["cafpr"])
  <2>1. CASE n # 1
    <3>1. n - 1 \in D /\ a[n - 1] = b[n]
      BY <2>1 DEF OneDown
    <3>2. n - 1 \in DOMAIN P /\ X[n - 1][f] = a[n - 1] /\ Y[n][f] = b[n]
      BY <1>2, <1>3, <3>1
    <3>3. QED
      BY <3>1, <3>2
  <2>2. QED
    BY <2>1
<1>8. SlotsAlike(X, Y)
  BY <1>2, <1>3, <1>5, <1>6, <1>7 DEF SlotsAlike
<1>9. QED
  BY <1>8 DEF X, Y
-----------------------------------------------------------------------------
(* The cards: what is printed for a card, and a slot of it. *)

CardTexts ==
  [tag : {"Reader"}, form : {"short", "long", "noAid"}, id : CardIds]
    \cup [tag : {"text"}, val : {"x"}]
    \cup [tag : {"url"}, val : {"plain", "one escape", "two escapes"}]
    \cup [tag : {"keyattr"}, slot : 1 .. Slots, val : {"1"}]
    \cup [tag : SlotFields, vals : Vals] \cup [tag : {"other"}]

\* The last line with the tag that is printed for the card of line i.
Begin == {"Reader"}
LastIn(t, i, tag) == Latest(Section(t, i, tag, Begin))
IsSaid(t, i, tag) == LastIn(t, i, tag) # 0
Said(t, i, tag) == t[LastIn(t, i, tag)]

\* Where the value of slot n is in a line, and what the server makes of it.
Shift(f, n) == IF f = "sigcount" THEN n + 1 ELSE n
Parsed(f, v) ==
  IF f \in Numbers THEN ParseInt(v) ELSE IF f = "fpr" THEN v ELSE OrZero(v)
SlotIn(t, i, f, n) ==
  IF IsSaid(t, i, f) /\ Shift(f, n) \in 1 .. Slots
  THEN Parsed(f, Said(t, i, f).vals[Shift(f, n)]) ELSE ServerSlot[f]

\* The slots of the card of line i have what is printed for them, and are there if
\* something is.
SlotsFit(t, i, m) ==
  /\ \A n \in DOMAIN m : \A f \in SlotFields : m[n][f] = SlotIn(t, i, f, n)
  /\ \A n \in 1 .. Slots : \A f \in SlotFields :
       IsSaid(t, i, f) /\ Shift(f, n) \in 1 .. Slots => n \in DOMAIN m

CardFits(t, i, c) ==
  /\ c.id = t[i].id
  /\ c.text = (IF IsSaid(t, i, "text") THEN Said(t, i, "text").val ELSE "undefined")
  /\ c.url = (IF IsSaid(t, i, "url") THEN Decoded(Said(t, i, "url").val) ELSE "undefined")
  /\ SlotsFit(t, i, c.slots)

\* One more line.
LEMMA SaidNext ==
  ASSUME NEW t \in Seq(CardTexts), NEW l \in CardTexts, NEW tag, tag \notin Begin
  PROVE  LET u == Append(t, l)  n == Len(t) + 1
         IN  /\ ~IsSaid(u, n, tag)
             /\ \A i \in DOMAIN t :
                  /\ IsSaid(u, i, tag) <=> (l.tag = tag /\ NoneAfter(t, i, Begin))
                       \/ IsSaid(t, i, tag)
                  /\ l.tag = tag /\ NoneAfter(t, i, Begin) => Said(u, i, tag) = l
                  /\ IsSaid(t, i, tag) =>
                       /\ Said(t, i, tag) \in CardTexts /\ Said(t, i, tag).tag = tag
                       /\ ~(l.tag = tag /\ NoneAfter(t, i, Begin)) =>
                            Said(u, i, tag) = Said(t, i, tag)
<1> DEFINE u == Append(t, l)
           n == Len(t) + 1
<1>1. /\ u[n] = l /\ n \in Nat /\ n # 0 /\ \A i \in DOMAIN t : u[i] = t[i] /\ i # 0
      /\ \A i \in DOMAIN t : t[i] \in CardTexts
  OBVIOUS
<1>2. Section(u, n, tag, Begin) = {}
  BY SectionGrows
<1>3. LastIn(u, n, tag) = 0
  BY <1>2 DEF LastIn, Latest
<1>4. ASSUME NEW i \in DOMAIN t
      PROVE  LastIn(u, i, tag) =
               IF l.tag = tag /\ NoneAfter(t, i, Begin) THEN n ELSE LastIn(t, i, tag)
  BY SectionOrder DEF LastIn
<1>5. ASSUME NEW i \in DOMAIN t, IsSaid(t, i, tag)
      PROVE  LastIn(t, i, tag) \in DOMAIN t /\ t[LastIn(t, i, tag)].tag = tag
  <2> DEFINE S == Section(t, i, tag, Begin)
  <2>1. S \in SUBSET Tagged(t, {tag})
    BY DEF Section
  <2>2. Tagged(t, {tag}) \in SUBSET DOMAIN t /\ \A j \in Tagged(t, {tag}) : t[j].tag = tag
    BY DEF Tagged
  <2>3. S # {} /\ LastIn(t, i, tag) = Latest(S)
    BY <1>5 DEF IsSaid, LastIn, Latest
  <2> HIDE DEF S
  <2>4. S \in SUBSET Nat /\ IsFiniteSet(S)
    BY <2>1, <2>2, LinesOfText
  <2>5. Latest(S) \in S
    BY <2>3, <2>4, LatestIsLargest
  <2>6. QED
    BY <2>1, <2>2, <2>3, <2>5
<1> HIDE DEF u, n
<1>6. ASSUME NEW i \in DOMAIN t
      PROVE  /\ IsSaid(u, i, tag) <=> (l.tag = tag /\ NoneAfter(t, i, Begin)) \/ IsSaid(t, i, tag)
             /\ l.tag = tag /\ NoneAfter(t, i, Begin) => Said(u, i, tag) = l
             /\ IsSaid(t, i, tag) =>
                  /\ Said(t, i, tag) \in CardTexts /\ Said(t, i, tag).tag = tag
                  /\ ~(l.tag = tag /\ NoneAfter(t, i, Begin)) => Said(u, i, tag) = Said(t, i, tag)
  BY <1>1, <1>4, <1>5 DEF IsSaid, Said
<1>7. QED
  BY <1>3, <1>6 DEF IsSaid, u, n

\* What a line is for its tag.
LEMMA LinesOfCards ==
  ASSUME NEW l \in CardTexts
  PROVE  /\ l.tag \in SlotFields => l.vals \in Vals
         /\ l.tag = "text" => l.val = "x"
         /\ l.tag = "url" => l.val \in {"plain", "one escape", "two escapes"}
         /\ l.tag = "Reader" => l.id \in CardIds /\ l.form \in {"short", "long", "noAid"}
BY DEF CardTexts, SlotFields, Numbers

\* What is printed for a card that nothing is printed for is what it was.
LEMMA SlotsStay ==
  ASSUME NEW t \in Seq(CardTexts), NEW l \in CardTexts, NEW i \in DOMAIN t, NEW m,
           SlotsFit(t, i, m),
         l.tag \in SlotFields => ~NoneAfter(t, i, Begin)
  PROVE  SlotsFit(Append(t, l), i, m)
<1> DEFINE u == Append(t, l)
<1>1. ASSUME NEW f \in SlotFields
      PROVE  /\ IsSaid(u, i, f) <=> IsSaid(t, i, f)
             /\ IsSaid(t, i, f) => Said(u, i, f) = Said(t, i, f)
  <2>1. f \notin Begin /\ ~(l.tag = f /\ NoneAfter(t, i, Begin))
    BY DEF Begin, SlotFields, Numbers
  <2>2. QED
    BY <2>1, SaidNext
<1> HIDE DEF u
<1>2. \A f \in SlotFields : \A n : SlotIn(u, i, f, n) = SlotIn(t, i, f, n)
  BY <1>1 DEF SlotIn
<1>3. SlotsFit(u, i, m)
  BY <1>1, <1>2 DEF SlotsFit
<1>4. QED
  BY <1>3 DEF u

LEMMA CardStays ==
  ASSUME NEW t \in Seq(CardTexts), NEW l \in CardTexts, NEW i \in DOMAIN t, NEW c,
           CardFits(t, i, c),
         l.tag \in SlotFields \cup {"text", "url"} => ~NoneAfter(t, i, Begin)
  PROVE  CardFits(Append(t, l), i, c)
<1> DEFINE u == Append(t, l)
<1>1. ASSUME NEW tag \in {"text", "url"}
      PROVE  /\ IsSaid(u, i, tag) <=> IsSaid(t, i, tag)
             /\ IsSaid(t, i, tag) => Said(u, i, tag) = Said(t, i, tag)
  <2>1. tag \notin Begin /\ ~(l.tag = tag /\ NoneAfter(t, i, Begin))
    BY DEF Begin
  <2>2. QED
    BY <2>1, SaidNext
<1>2. SlotsFit(u, i, c.slots)
  BY SlotsStay DEF CardFits
<1>3. u[i] = t[i]
  OBVIOUS
<1> HIDE DEF u
<1>4. CardFits(u, i, c)
  BY <1>1, <1>2, <1>3 DEF CardFits
<1>5. QED
  BY <1>4 DEF u

\* A slot that is made has what is printed for it, which is nothing.
LEMMA MadeSlotsFit ==
  ASSUME NEW t, NEW i, NEW m \in SlotMaps, SlotsFit(t, i, m), NEW D \in SUBSET (1 .. Slots)
  PROVE  SlotsFit(t, i, ServerAlloc(m, D))
<1> DEFINE x == ServerAlloc(m, D)
<1>1. /\ DOMAIN x = DOMAIN m \cup D
      /\ \A n \in DOMAIN x : x[n] = IF n \in DOMAIN m THEN m[n] ELSE ServerSlot
  BY ServerAllocates
<1>2. DOMAIN m \subseteq 1 .. Slots
  BY SlotMapTyped
<1> HIDE DEF x
<1>3. ASSUME NEW n \in DOMAIN x, NEW f \in SlotFields PROVE x[n][f] = SlotIn(t, i, f, n)
  <2>1. CASE n \in DOMAIN m
    BY <1>1, <2>1 DEF SlotsFit
  <2>2. CASE n \notin DOMAIN m
    <3>1. n \in 1 .. Slots /\ x[n] = ServerSlot
      BY <1>1, <2>2
    <3>2. ~(IsSaid(t, i, f) /\ Shift(f, n) \in 1 .. Slots)
      BY <2>2, <3>1 DEF SlotsFit
    <3>3. QED
      BY <3>1, <3>2 DEF SlotIn
  <2>3. QED
    BY <2>1, <2>2
<1>4. \A n \in 1 .. Slots : \A f \in SlotFields :
        IsSaid(t, i, f) /\ Shift(f, n) \in 1 .. Slots => n \in DOMAIN x
  BY <1>1 DEF SlotsFit
<1>5. SlotsFit(t, i, x)
  BY <1>3, <1>4 DEF SlotsFit
<1>6. QED
  BY <1>5 DEF x

\* The slots a line names are made, and its field of them is set.
IsSet(x, y, f, D, valueOf) ==
  /\ x \in SlotMaps /\ DOMAIN x = DOMAIN y
  /\ \A n \in DOMAIN y : x[n][f] = IF n \in D THEN valueOf[n] ELSE y[n][f]
  /\ \A n \in DOMAIN y : \A g \in SlotNames : g # f => x[n][g] = y[n][g]

LEMMA IsSetBySetSlots ==
  \A y \in SlotMaps, f \in SlotNames : \A D \in SUBSET DOMAIN y : \A valueOf \in [D -> CardVals] :
    IsSet(SetSlots(y, f, valueOf), y, f, D, valueOf)
<1> SUFFICES ASSUME NEW y \in SlotMaps, NEW f \in SlotNames, NEW D \in SUBSET DOMAIN y,
                    NEW valueOf \in [D -> CardVals]
             PROVE  IsSet(SetSlots(y, f, valueOf), y, f, D, valueOf)
  OBVIOUS
<1> DEFINE x == SetSlots(y, f, valueOf)
<1>1. /\ x \in SlotMaps /\ DOMAIN x = DOMAIN y
      /\ \A n \in DOMAIN y : x[n][f] = IF n \in D THEN valueOf[n] ELSE y[n][f]
      /\ \A n \in DOMAIN y : \A g \in SlotNames : g # f => x[n][g] = y[n][g]
  BY SlotsSet
<1> HIDE DEF x
<1>2. IsSet(x, y, f, D, valueOf)
  BY <1>1 DEF IsSet
<1>3. QED
  BY <1>2 DEF x

LEMMA MadeAndSet ==
  ASSUME NEW m \in SlotMaps, NEW D \in SUBSET (1 .. Slots), NEW f \in SlotNames,
         NEW valueOf \in [D -> CardVals]
  PROVE  LET y == ServerAlloc(m, D)
         IN  /\ y \in SlotMaps /\ DOMAIN y = DOMAIN m \cup D
             /\ IsSet(SetSlots(y, f, valueOf), y, f, D, valueOf)
<1> DEFINE y == ServerAlloc(m, D)
<1>1. y \in SlotMaps /\ DOMAIN y = DOMAIN m \cup D
  BY ServerAllocates
<1> HIDE DEF y
<1>2. D \in SUBSET DOMAIN y
  BY <1>1
<1>3. IsSet(SetSlots(y, f, valueOf), y, f, D, valueOf)
  BY <1>1, <1>2, IsSetBySetSlots
<1>4. QED
  BY <1>1, <1>3 DEF y

\* A line with a value for every slot.
LEMMA FieldFits ==
  ASSUME NEW t \in Seq(CardTexts), NEW l \in CardTexts, NEW i \in DOMAIN t, NoneAfter(t, i, Begin),
         NEW m \in SlotMaps, SlotsFit(t, i, m), NEW f \in SlotFields, l.tag = f,
         NEW D \in SUBSET (1 .. Slots), \A n \in 1 .. Slots : n \in D
           <=> Shift(f, n) \in 1 .. Slots,
         NEW valueOf \in [D -> CardVals], \A n \in D : valueOf[n] = Parsed(f, l.vals[Shift(f, n)])
  PROVE  LET x == SetSlots(ServerAlloc(m, D), f, valueOf)
         IN  x \in SlotMaps /\ SlotsFit(Append(t, l), i, x)
<1> DEFINE u == Append(t, l)
           y == ServerAlloc(m, D)
           x == SetSlots(y, f, valueOf)
<1>1. y \in SlotMaps /\ DOMAIN y = DOMAIN m \cup D
  BY ServerAllocates
<1>2. SlotsFit(t, i, y)
  BY MadeSlotsFit
<1>3. f \in SlotNames /\ SlotFields \subseteq SlotNames
  BY FieldsOfSlots
<1>5. /\ x \in SlotMaps /\ DOMAIN x = DOMAIN y
      /\ \A n \in DOMAIN y : x[n][f] = IF n \in D THEN valueOf[n] ELSE y[n][f]
      /\ \A n \in DOMAIN y : \A g \in SlotNames : g # f => x[n][g] = y[n][g]
  <2>1. IsSet(x, y, f, D, valueOf)
    BY <1>3, MadeAndSet
  <2>2. QED
    BY <2>1 DEF IsSet
<1> HIDE DEF y
<1>6. \A n \in DOMAIN y : n \in 1 .. Slots
  BY <1>1, SlotMapTyped
<1> HIDE DEF x
<1>7. ASSUME NEW g \in SlotFields
      PROVE  /\ IsSaid(u, i, g) <=> g = f \/ IsSaid(t, i, g)
             /\ g = f => Said(u, i, g) = l
             /\ g # f /\ IsSaid(t, i, g) => Said(u, i, g) = Said(t, i, g)
  <2>1. g \notin Begin
    BY DEF Begin, SlotFields, Numbers
  <2>2. QED
    BY <2>1, SaidNext
<1> HIDE DEF u
<1>8. ASSUME NEW n \in DOMAIN x, NEW g \in SlotFields PROVE x[n][g] = SlotIn(u, i, g, n)
  <2>1. n \in DOMAIN y /\ n \in 1 .. Slots
    BY <1>5, <1>6
  <2>2. y[n][g] = SlotIn(t, i, g, n)
    BY <1>2, <2>1 DEF SlotsFit
  <2>3. CASE g # f
    BY <1>3, <1>5, <1>7, <2>1, <2>2, <2>3 DEF SlotIn
  <2>4. CASE g = f /\ n \in D
    <3>1. SlotIn(u, i, g, n) = Parsed(f, l.vals[Shift(f, n)])
      BY <1>7, <2>1, <2>4 DEF SlotIn
    <3>2. QED
      BY <1>5, <2>1, <2>4, <3>1
  <2>5. CASE g = f /\ n \notin D
    <3>1. Shift(f, n) \notin 1 .. Slots
      BY <2>1, <2>5
    <3>2. SlotIn(u, i, g, n) = ServerSlot[f] /\ SlotIn(t, i, g, n) = ServerSlot[f]
      BY <2>5, <3>1 DEF SlotIn
    <3>3. QED
      BY <1>5, <2>1, <2>2, <2>5, <3>2
  <2>6. QED
    BY <2>3, <2>4, <2>5
<1>9. ASSUME NEW n \in 1 .. Slots, NEW g \in SlotFields,
             IsSaid(u, i, g), Shift(g, n) \in 1 .. Slots
      PROVE  n \in DOMAIN x
  <2>1. CASE g = f
    BY <1>1, <1>5, <1>9, <2>1
  <2>2. CASE g # f
    BY <1>2, <1>5, <1>7, <1>9, <2>2 DEF SlotsFit
  <2>3. QED
    BY <2>1, <2>2
<1>10. SlotsFit(u, i, x)
  BY <1>8, <1>9 DEF SlotsFit
<1>11. QED
  BY <1>5, <1>10 DEF u, x, y

\* A line for one slot.
LEMMA AttrFits ==
  ASSUME NEW t \in Seq(CardTexts), NEW l \in CardTexts, NEW i \in DOMAIN t, l.tag = "keyattr",
         NEW m \in SlotMaps, SlotsFit(t, i, m), NEW D \in SUBSET (1 .. Slots),
         NEW valueOf \in [D -> CardVals]
  PROVE  LET x == SetSlots(ServerAlloc(m, D), "attr", valueOf)
         IN  x \in SlotMaps /\ SlotsFit(Append(t, l), i, x)
<1> DEFINE y == ServerAlloc(m, D)
           f == "attr"
           x == SetSlots(y, f, valueOf)
<1>1. y \in SlotMaps /\ DOMAIN y = DOMAIN m \cup D
  BY ServerAllocates
<1>2. SlotsFit(t, i, y)
  BY MadeSlotsFit
<1>3. f \in SlotNames /\ SlotFields \subseteq SlotNames /\ \A g \in SlotFields : g # f
  BY FieldsOfSlots
<1> HIDE DEF f
<1>5. /\ x \in SlotMaps /\ DOMAIN x = DOMAIN y
      /\ \A n \in DOMAIN y : \A g \in SlotNames : g # f => x[n][g] = y[n][g]
  <2>1. IsSet(x, y, f, D, valueOf)
    BY <1>3, MadeAndSet
  <2>2. QED
    BY <2>1 DEF IsSet
<1> HIDE DEF x, y
<1>6. SlotsFit(t, i, x)
  BY <1>2, <1>3, <1>5 DEF SlotsFit
<1>7. l.tag \notin SlotFields
  BY DEF SlotFields, Numbers
<1>8. SlotsFit(Append(t, l), i, x)
  BY <1>6, <1>7, SlotsStay
<1>9. QED
  BY <1>5, <1>8 DEF x, y, f
-----------------------------------------------------------------------------
(* The cards: the card lines go to is the last. *)

LastOf(r) == r.done[Len(r.done)]

\* Nothing but the card lines go to has changed.
Turned(r, q) ==
  /\ q \in CardReaders /\ q.open = r.open /\ Len(q.done) = Len(r.done)
  /\ \A k \in 1 .. Len(r.done) : k # Len(r.done) \/ ~r.open => q.done[k] = r.done[k]
  /\ ~r.open => q = r

LEMMA LastWith ==
  ASSUME NEW r \in CardReaders, r.open, Len(r.done) > 0, NEW d \in CardsRead
  PROVE  LET q == [r EXCEPT !.done[Len(r.done)] = d]
         IN  Turned(r, q) /\ LastOf(q) = d /\ LastOf(r) \in CardsRead
<1> DEFINE n == Len(r.done)
           s == r.done
           q == [r EXCEPT !.done[Len(r.done)] = d]
<1>1. s \in Seq(CardsRead) /\ r.open \in BOOLEAN
  BY DEF CardReaders
<1>2. n \in Nat /\ n \in 1 .. n /\ DOMAIN s = 1 .. n /\ s[n] \in CardsRead
  BY <1>1
<1>3. q.done = [s EXCEPT ![n] = d] /\ q.open = r.open
  BY DEF CardReaders
<1>4. /\ q.done \in Seq(CardsRead) /\ Len(q.done) = n /\ q.done[n] = d
      /\ \A k \in 1 .. n : k # n => q.done[k] = s[k]
  BY <1>1, <1>2, <1>3
<1>5. q \in CardReaders
  <2>1. q = [done |-> q.done, open |-> q.open]
    BY DEF CardReaders
  <2> HIDE DEF q
  <2>2. QED
    BY <1>1, <1>3, <1>4, <2>1 DEF CardReaders
<1>6. QED
  BY <1>2, <1>3, <1>4, <1>5 DEF Turned, LastOf

LEMMA TurnedTwice ==
  ASSUME NEW r, NEW q, NEW x, Turned(r, q), Turned(q, x)
  PROVE  Turned(r, x)
BY DEF Turned

LEMMA TurnedNot ==
  ASSUME NEW r \in CardReaders
  PROVE  Turned(r, r)
BY DEF Turned

\* A field of the card.
Filled(r, q, field, val) ==
  /\ Turned(r, q)
  /\ r.open =>
       /\ LastOf(q)[field] = val /\ LastOf(q).id = LastOf(r).id
       /\ \A g \in {"text", "url"} : g # field => LastOf(q)[g] = LastOf(r)[g]
       /\ LastOf(q).slots = LastOf(r).slots

LEMMA FillFacts ==
  ASSUME NEW r \in CardReaders, r.open => Len(r.done) > 0,
         NEW field \in CardFields, NEW val \in CardVals
  PROVE  Filled(r, Fill(r, field, val), field, val)
<1> DEFINE q == Fill(r, field, val)
           c == LastOf(r)
           d == [c EXCEPT ![field] = val]
<1>1. CASE ~r.open
  BY <1>1, TurnedNot DEF Fill, Filled
<1>2. CASE r.open
  <2>1. c \in CardsRead
    <3>1. r.done \in Seq(CardsRead)
      BY DEF CardReaders
    <3>2. QED
      BY <1>2, <3>1 DEF LastOf
  <2>2. /\ d \in CardsRead /\ d[field] = val /\ d.id = c.id /\ d.slots = c.slots
        /\ \A g \in {"text", "url"} : g # field => d[g] = c[g]
    <3> HIDE DEF c
    <3>1. QED
      BY <2>1 DEF CardsRead, CardFields
  <2>3. q = [r EXCEPT !.done[Len(r.done)] = d]
    BY <1>2 DEF Fill, LastOf
  <2> HIDE DEF d, c, q
  <2>4. Turned(r, q) /\ LastOf(q) = d
    BY <1>2, <2>2, <2>3, LastWith
  <2>5. Filled(r, q, field, val)
    BY <2>2, <2>4 DEF c, Filled
  <2>6. QED
    BY <2>5 DEF q
<1>3. QED
  BY <1>1, <1>2

\* The slots of the card.
LEMMA SlotsFacts ==
  ASSUME NEW r \in CardReaders, r.open, Len(r.done) > 0, NEW m \in SlotMaps
  PROVE  LET q == [r EXCEPT !.done[Len(r.done)].slots = m]
         IN  /\ Turned(r, q) /\ LastOf(q).slots = m /\ LastOf(q).id = LastOf(r).id
             /\ LastOf(q).text = LastOf(r).text /\ LastOf(q).url = LastOf(r).url
<1> DEFINE q == [r EXCEPT !.done[Len(r.done)].slots = m]
           c == LastOf(r)
           d == [c EXCEPT !.slots = m]
<1>1. c \in CardsRead
  <2>1. r.done \in Seq(CardsRead)
    BY DEF CardReaders
  <2>2. QED
    BY <2>1 DEF LastOf
<1>2. d \in CardsRead /\ d.slots = m /\ d.id = c.id /\ d.text = c.text /\ d.url = c.url
  <2> HIDE DEF c
  <2>1. QED
    BY <1>1 DEF CardsRead
<1>3. q = [r EXCEPT !.done[Len(r.done)] = d]
  BY DEF LastOf
<1> HIDE DEF d, c, q
<1>4. Turned(r, q) /\ LastOf(q) = d
  BY <1>2, <1>3, LastWith
<1>5. QED
  BY <1>2, <1>4 DEF q, c

\* A field of slots of the card.
SlotsTurned(r, q, slots) ==
  /\ Turned(r, q)
  /\ r.open => /\ LastOf(q).id = LastOf(r).id /\ LastOf(q).text = LastOf(r).text
               /\ LastOf(q).url = LastOf(r).url /\ LastOf(q).slots = slots

LEMMA ServerSlotsFacts ==
  ASSUME NEW r \in CardReaders, r.open => Len(r.done) > 0, NEW f \in SlotNames,
         NEW D \in SUBSET (1 .. Slots), NEW valueOf \in [D -> CardVals]
  PROVE  SlotsTurned(r, ServerSlots(r, f, valueOf),
           SetSlots(ServerAlloc(LastOf(r).slots, D), f, valueOf))
<1> DEFINE q == ServerSlots(r, f, valueOf)
           m == LastOf(r).slots
           y == ServerAlloc(m, D)
           x == SetSlots(y, f, valueOf)
<1>1. CASE ~r.open
  BY <1>1, TurnedNot DEF ServerSlots, SlotsTurned
<1>2. CASE r.open
  <2>1. m \in SlotMaps
    <3>1. r.done \in Seq(CardsRead)
      BY DEF CardReaders
    <3>2. LastOf(r) \in CardsRead
      BY <1>2, <3>1 DEF LastOf
    <3>3. QED
      BY <3>2 DEF CardsRead
  <2>2. q = [r EXCEPT !.done[Len(r.done)].slots = x]
    <3>1. DOMAIN valueOf = D
      OBVIOUS
    <3>2. QED
      BY <1>2, <3>1 DEF ServerSlots, LastOf
  <2> HIDE DEF m
  <2>3. IsSet(x, y, f, D, valueOf)
    BY <2>1, MadeAndSet
  <2>4. x \in SlotMaps
    BY <2>3 DEF IsSet
  <2> HIDE DEF x, q
  <2>5. /\ Turned(r, q) /\ LastOf(q).slots = x /\ LastOf(q).id = LastOf(r).id
        /\ LastOf(q).text = LastOf(r).text /\ LastOf(q).url = LastOf(r).url
    BY <1>2, <2>2, <2>4, SlotsFacts
  <2>6. SlotsTurned(r, q, x)
    BY <2>5 DEF SlotsTurned
  <2>7. QED
    BY <2>6 DEF q, x, m
<1>3. QED
  BY <1>1, <1>2

LEMMA PamSlotsFacts ==
  ASSUME NEW r \in CardReaders, r.open => Len(r.done) > 0, NEW f \in SlotNames,
         NEW D \in SUBSET (1 .. Slots), NEW valueOf \in [D -> CardVals]
  PROVE  SlotsTurned(r, PamSlots(r, f, valueOf), SetSlots(PamAlloc(LastOf(r).slots, D), f, valueOf))
<1> DEFINE q == PamSlots(r, f, valueOf)
           m == LastOf(r).slots
           y == PamAlloc(m, D)
           x == SetSlots(y, f, valueOf)
<1>1. CASE ~r.open
  BY <1>1, TurnedNot DEF PamSlots, SlotsTurned
<1>2. CASE r.open
  <2>1. m \in SlotMaps
    <3>1. r.done \in Seq(CardsRead)
      BY DEF CardReaders
    <3>2. LastOf(r) \in CardsRead
      BY <1>2, <3>1 DEF LastOf
    <3>3. QED
      BY <3>2 DEF CardsRead
  <2>2. q = [r EXCEPT !.done[Len(r.done)].slots = x]
    <3>1. DOMAIN valueOf = D
      OBVIOUS
    <3>2. QED
      BY <1>2, <3>1 DEF PamSlots, LastOf
  <2> HIDE DEF m
  <2>3. y \in SlotMaps /\ DOMAIN m \cup D \subseteq DOMAIN y
    BY <2>1, PamAllocates
  <2> HIDE DEF y
  <2>4. D \in SUBSET DOMAIN y
    BY <2>3
  <2>5. IsSet(x, y, f, D, valueOf)
    BY <2>3, <2>4, IsSetBySetSlots
  <2>6. x \in SlotMaps
    BY <2>5 DEF IsSet
  <2> HIDE DEF x, q
  <2>7. /\ Turned(r, q) /\ LastOf(q).slots = x /\ LastOf(q).id = LastOf(r).id
        /\ LastOf(q).text = LastOf(r).text /\ LastOf(q).url = LastOf(r).url
    BY <1>2, <2>2, <2>6, SlotsFacts
  <2>8. SlotsTurned(r, q, x)
    BY <2>7 DEF SlotsTurned
  <2>9. QED
    BY <2>8 DEF q, x, y, m
<1>3. QED
  BY <1>1, <1>2

-----------------------------------------------------------------------------
(* The cards: the invariant. *)

AcceptedIn(t) == {i \in Tagged(t, Begin) : t[i].form # "noAid"}
CardsOf(t) == InOrder(AcceptedIn(t))

\* The server has a card for every line that makes one, with what is printed for it,
\* and lines go to the last while nothing has ended it.
CardsFiled(t, s) ==
  /\ Len(s.done) = Len(CardsOf(t))
  /\ s.open => Len(s.done) > 0
  /\ \A k \in 1 .. Len(s.done) :
       /\ CardsOf(t)[k] \in DOMAIN t
       /\ CardFits(t, CardsOf(t)[k], s.done[k])
       /\ NoneAfter(t, CardsOf(t)[k], Begin) <=> s.open /\ k = Len(s.done)

CardAlike(p, s) ==
  /\ p.id = s.id
  /\ p.text = s.text \/ s.text = "undefined"
  /\ p.url \in {"one escape", "two escapes"} \/ p.url = s.url \/ s.url = "undefined"
  /\ SlotsAlike(p.slots, s.slots)

CardsAlike(p, s) ==
  /\ p.open = s.open /\ Len(p.done) = Len(s.done)
  /\ \A k \in 1 .. Len(s.done) : CardAlike(p.done[k], s.done[k])

CardsInv ==
  /\ text \in Seq(CardTexts) /\ server \in CardReaders /\ pam \in CardReaders
  /\ CardsFiled(text, server) /\ CardsAlike(pam, server)

\* Nothing has been printed.
LEMMA NoCardsFiled ==
  ASSUME CardsInit
  PROVE  CardsInv
<1>1. text = <<>> /\ server = NoCards /\ pam = NoCards
  BY DEF CardsInit
<1>2. NoCards \in CardReaders /\ Len(NoCards.done) = 0 /\ ~NoCards.open
  BY DEF NoCards, CardReaders
<1>3. text \in Seq(CardTexts)
  BY <1>1
<1>4. Len(CardsOf(<<>>)) = 0
  <2>1. AcceptedIn(<<>>) = {}
    BY DEF AcceptedIn, Tagged
  <2>2. InOrder({}) = <<>>
    BY FS_EmptySet DEF InOrder
  <2>3. QED
    BY <2>1, <2>2 DEF CardsOf
<1>5. CardsFiled(<<>>, NoCards) /\ CardsAlike(NoCards, NoCards)
  BY <1>2, <1>4 DEF CardsFiled, CardsAlike
<1>6. QED
  BY <1>1, <1>2, <1>3, <1>5 DEF CardsInv

\* A line that belongs to the card, if there is one.
LEMMA CardTurns ==
  ASSUME NEW t \in Seq(CardTexts), NEW l \in CardTexts, l.tag \notin Begin,
         NEW s \in CardReaders, CardsFiled(t, s), NEW q, Turned(s, q),
         s.open => CardFits(Append(t, l), CardsOf(t)[Len(s.done)], LastOf(q))
  PROVE  CardsFiled(Append(t, l), q)
<1> DEFINE u == Append(t, l)
<1>1. /\ DOMAIN t \subseteq DOMAIN u
      /\ \A i \in DOMAIN t : u[i] = t[i]
      /\ Tagged(u, Begin) = Tagged(t, Begin) /\ Tagged(t, Begin) \subseteq DOMAIN t
  <2>1. /\ DOMAIN u = DOMAIN t \cup {Len(t) + 1} /\ \A i \in DOMAIN t : u[i] = t[i]
        /\ Tagged(u, Begin) = Tagged(t, Begin) \cup (IF l.tag \in Begin THEN {Len(t) + 1} ELSE {})
    BY OneMoreLine
  <2> HIDE DEF u
  <2>2. QED
    BY <2>1 DEF Tagged
<1>2. AcceptedIn(u) = AcceptedIn(t)
  <2> HIDE DEF u
  <2>1. QED
    BY <1>1 DEF AcceptedIn
<1>3. CardsOf(u) = CardsOf(t) /\ \A i : NoneAfter(u, i, Begin) <=> NoneAfter(t, i, Begin)
  <2> HIDE DEF u
  <2>1. QED
    BY <1>1, <1>2 DEF CardsOf, NoneAfter
<1>4. q.open = s.open /\ Len(q.done) = Len(s.done)
  BY DEF Turned
<1>5. ASSUME NEW k \in 1 .. Len(s.done)
      PROVE  /\ CardsOf(u)[k] \in DOMAIN u
             /\ CardFits(u, CardsOf(u)[k], q.done[k])
             /\ NoneAfter(u, CardsOf(u)[k], Begin) <=> q.open /\ k = Len(q.done)
  <2> DEFINE i == CardsOf(t)[k]
  <2>1. /\ i \in DOMAIN t /\ CardFits(t, i, s.done[k])
        /\ NoneAfter(t, i, Begin) <=> s.open /\ k = Len(s.done)
    BY DEF CardsFiled
  <2>2. CASE s.open /\ k = Len(s.done)
    <3>1. CardFits(u, i, q.done[k])
      BY <1>4, <2>2 DEF LastOf
    <3>2. QED
      BY <1>1, <1>3, <1>4, <2>1, <3>1
  <2>3. CASE ~(s.open /\ k = Len(s.done))
    <3>1. q.done[k] = s.done[k]
      BY <2>3 DEF Turned
    <3>2. CardFits(u, i, s.done[k])
      <4> HIDE DEF i
      <4>1. QED
        BY <2>1, <2>3, CardStays
    <3>3. QED
      BY <1>1, <1>3, <1>4, <2>1, <2>3, <3>1, <3>2
  <2>4. QED
    BY <2>2, <2>3
<1> HIDE DEF u
<1>6. CardsFiled(u, q)
  BY <1>3, <1>4, <1>5 DEF CardsFiled
<1>7. QED
  BY <1>6 DEF u

LEMMA AlikeTurns ==
  ASSUME NEW p \in CardReaders, NEW s \in CardReaders, CardsAlike(p, s),
         NEW p2, Turned(p, p2), NEW s2, Turned(s, s2),
         s.open => CardAlike(LastOf(p2), LastOf(s2))
  PROVE  CardsAlike(p2, s2)
<1>1. /\ p.open = s.open /\ Len(p.done) = Len(s.done)
      /\ p2.open = p.open /\ s2.open = s.open
      /\ Len(p2.done) = Len(p.done) /\ Len(s2.done) = Len(s.done)
  BY DEF CardsAlike, Turned
<1>2. ASSUME NEW k \in 1 .. Len(s.done) PROVE CardAlike(p2.done[k], s2.done[k])
  <2>1. CASE s.open /\ k = Len(s.done)
    BY <1>1, <2>1 DEF LastOf
  <2>2. CASE ~(s.open /\ k = Len(s.done))
    <3>1. p2.done[k] = p.done[k] /\ s2.done[k] = s.done[k]
      BY <1>1, <2>2 DEF Turned
    <3>2. QED
      BY <3>1 DEF CardsAlike
  <2>3. QED
    BY <2>1, <2>2
<1>3. QED
  BY <1>1, <1>2 DEF CardsAlike

\* The card that lines go to, at either reader.
Here == CardsOf(text)[Len(server.done)]

LEMMA OpenCardIs ==
  ASSUME CardsInv
  PROVE  /\ text \in Seq(CardTexts) /\ server \in CardReaders /\ pam \in CardReaders
         /\ pam.open = server.open
         /\ server.open => Len(server.done) > 0
         /\ pam.open => Len(pam.done) > 0
         /\ server.open =>
              /\ Here \in DOMAIN text /\ NoneAfter(text, Here, Begin)
              /\ CardFits(text, Here, LastOf(server)) /\ CardAlike(LastOf(pam), LastOf(server))
              /\ LastOf(server).slots \in SlotMaps /\ LastOf(pam).slots \in SlotMaps
<1>1. /\ text \in Seq(CardTexts) /\ server \in CardReaders /\ pam \in CardReaders
      /\ pam.open = server.open /\ Len(pam.done) = Len(server.done)
      /\ server.open => Len(server.done) > 0
  BY DEF CardsInv, CardsAlike, CardsFiled
<1>2. ASSUME server.open
      PROVE  /\ Here \in DOMAIN text /\ NoneAfter(text, Here, Begin)
             /\ CardFits(text, Here, LastOf(server)) /\ CardAlike(LastOf(pam), LastOf(server))
             /\ LastOf(server).slots \in SlotMaps /\ LastOf(pam).slots \in SlotMaps
  <2>1. server.done \in Seq(CardsRead) /\ pam.done \in Seq(CardsRead)
    BY <1>1 DEF CardReaders
  <2>2. Len(server.done) \in 1 .. Len(server.done) /\ Len(server.done) = Len(pam.done)
    BY <1>1, <1>2, <2>1
  <2>3. /\ Here \in DOMAIN text /\ NoneAfter(text, Here, Begin)
        /\ CardFits(text, Here, LastOf(server))
    BY <1>2, <2>2 DEF CardsInv, CardsFiled, Here, LastOf
  <2>4. CardAlike(LastOf(pam), LastOf(server))
    BY <2>2 DEF CardsInv, CardsAlike, LastOf
  <2>5. LastOf(server) \in CardsRead /\ LastOf(pam) \in CardsRead
    BY <2>1, <2>2 DEF LastOf
  <2>6. QED
    BY <2>3, <2>4, <2>5 DEF CardsRead
<1>3. QED
  BY <1>1, <1>2

\* What both readers are left with after a line that belongs to the card.
LEMMA CardLineRead ==
  ASSUME CardsInv, NEW l \in CardTexts, l.tag \notin Begin, NEW s, NEW p, Reads(l, s, p),
         Turned(server, s), Turned(pam, p),
         server.open => CardFits(Append(text, l), Here, LastOf(s)),
         server.open => CardAlike(LastOf(p), LastOf(s))
  PROVE  CardsInv'
<1>1. text' = Append(text, l) /\ server' = s /\ pam' = p
  BY DEF Reads
<1>2. text \in Seq(CardTexts) /\ server \in CardReaders /\ pam \in CardReaders
  BY DEF CardsInv
<1>3. Append(text, l) \in Seq(CardTexts) /\ s \in CardReaders /\ p \in CardReaders
  BY <1>2 DEF Turned
<1>4. CardsFiled(Append(text, l), s)
  BY <1>2, CardTurns DEF CardsInv, Here
<1>5. CardsAlike(p, s)
  BY <1>2, AlikeTurns DEF CardsInv
<1>6. QED
  BY <1>1, <1>3, <1>4, <1>5 DEF CardsInv

\* What is said of the card in the line itself, and what is not.
LEMMA TextsFit ==
  ASSUME NEW t \in Seq(CardTexts), NEW l \in CardTexts, NEW i \in DOMAIN t, NoneAfter(t, i, Begin),
         l.tag \notin SlotFields, NEW c, CardFits(t, i, c), NEW d, d.id = c.id, d.slots = c.slots,
         d.text = (IF l.tag = "text" THEN l.val ELSE c.text),
         d.url = (IF l.tag = "url" THEN Decoded(l.val) ELSE c.url)
  PROVE  CardFits(Append(t, l), i, d)
<1> DEFINE u == Append(t, l)
<1>1. SlotsFit(u, i, d.slots)
  BY SlotsStay DEF CardFits
<1>2. ASSUME NEW tag \in {"text", "url"}
      PROVE  /\ IsSaid(u, i, tag) <=> l.tag = tag \/ IsSaid(t, i, tag)
             /\ l.tag = tag => Said(u, i, tag) = l
             /\ IsSaid(t, i, tag) /\ l.tag # tag => Said(u, i, tag) = Said(t, i, tag)
  <2>1. tag \notin Begin
    BY DEF Begin
  <2>2. QED
    BY <2>1, SaidNext
<1>3. u[i] = t[i]
  OBVIOUS
<1> HIDE DEF u
<1>4. d.text = (IF IsSaid(u, i, "text") THEN Said(u, i, "text").val ELSE "undefined")
  BY <1>2 DEF CardFits
<1>5. d.url = (IF IsSaid(u, i, "url") THEN Decoded(Said(u, i, "url").val) ELSE "undefined")
  BY <1>2 DEF CardFits
<1>6. CardFits(u, i, d)
  BY <1>1, <1>3, <1>4, <1>5 DEF CardFits
<1>7. QED
  BY <1>6 DEF u

LEMMA SlotsLineFits ==
  ASSUME NEW t \in Seq(CardTexts), NEW l \in CardTexts, NEW i \in DOMAIN t,
         l.tag \notin {"text", "url"}, NEW c, CardFits(t, i, c), NEW d, d.id = c.id,
         d.text = c.text, d.url = c.url, SlotsFit(Append(t, l), i, d.slots)
  PROVE  CardFits(Append(t, l), i, d)
<1> DEFINE u == Append(t, l)
<1>1. SlotsFit(u, i, d.slots)
  OBVIOUS
<1>2. ASSUME NEW tag \in {"text", "url"}
      PROVE  /\ IsSaid(u, i, tag) <=> IsSaid(t, i, tag)
             /\ IsSaid(t, i, tag) => Said(u, i, tag) = Said(t, i, tag)
  <2>1. tag \notin Begin /\ l.tag # tag
    BY DEF Begin
  <2>2. QED
    BY <2>1, SaidNext
<1>3. u[i] = t[i]
  OBVIOUS
<1> HIDE DEF u
<1>4. CardFits(u, i, d)
  BY <1>1, <1>2, <1>3 DEF CardFits
<1>5. QED
  BY <1>4 DEF u

\* Slots that are made and set alike.
LEMMA MadeAndSetAlike ==
  ASSUME NEW P \in SlotMaps, NEW S \in SlotMaps, SlotsAlike(P, S),
         NEW D \in SUBSET (1 .. Slots), NEW f \in SlotNames, f # "cafpr",
         NEW a \in [D -> CardVals], NEW b \in [D -> CardVals],
         \A n \in D : a[n] = b[n] \/ (f \in Numbers \cup {"fpr"} /\ b[n] \in {"NaN", "undefined"})
  PROVE  SlotsAlike(SetSlots(PamAlloc(P, D), f, a), SetSlots(ServerAlloc(S, D), f, b))
<1> DEFINE X == PamAlloc(P, D)
           Y == ServerAlloc(S, D)
<1>1. X \in SlotMaps /\ D \subseteq DOMAIN X
  BY PamAllocates
<1>2. Y \in SlotMaps /\ DOMAIN Y = DOMAIN S \cup D
  BY ServerAllocates
<1>3. SlotsAlike(X, Y)
  BY AllocatedAlike
<1> HIDE DEF X, Y
<1>4. D \in SUBSET (DOMAIN X \cap DOMAIN Y)
  BY <1>1, <1>2
<1>5. SlotsAlike(SetSlots(X, f, a), SetSlots(Y, f, b))
  BY <1>1, <1>2, <1>3, <1>4, SetAlike
<1>6. QED
  BY <1>5 DEF X, Y

LEMMA MadeAndCaSetAlike ==
  ASSUME NEW P \in SlotMaps, NEW S \in SlotMaps, SlotsAlike(P, S),
         NEW D \in SUBSET (1 .. Slots), NEW E, E = 1 .. Slots,
         NEW a \in [D -> CardVals], NEW b \in [E -> CardVals], OneDown(a, b)
  PROVE  SlotsAlike(SetSlots(PamAlloc(P, D), "cafpr", a), SetSlots(ServerAlloc(S, E), "cafpr", b))
<1> DEFINE X == PamAlloc(P, D)
           Y == ServerAlloc(S, E)
<1>1. X \in SlotMaps /\ D \subseteq DOMAIN X
  BY PamAllocates
<1>2. E \in SUBSET (1 .. Slots)
  OBVIOUS
<1>3. Y \in SlotMaps /\ DOMAIN Y = DOMAIN S \cup E
  BY <1>2, ServerAllocates
<1>4. SlotsAlike(X, Y)
  BY <1>2, AllocatedAlike
<1> HIDE DEF X, Y
<1>5. DOMAIN X \subseteq 1 .. Slots /\ DOMAIN Y \subseteq 1 .. Slots
  BY <1>1, <1>3, SlotMapTyped
<1>6. /\ DOMAIN X \subseteq DOMAIN Y /\ D \in SUBSET DOMAIN X
      /\ E \in SUBSET DOMAIN Y /\ DOMAIN Y \subseteq E
  BY <1>1, <1>3, <1>5
<1>7. SlotsAlike(SetSlots(X, "cafpr", a), SetSlots(Y, "cafpr", b))
  BY <1>1, <1>3, <1>4, <1>6, CaSetAlike
<1>8. QED
  BY <1>7 DEF X, Y

-----------------------------------------------------------------------------
(* The cards: every line keeps the invariant. *)

SameBut(c, d) == c.id = d.id /\ c.text = d.text /\ c.url = d.url /\ c.slots = d.slots

\* A line with values for slots, after what else it sets.
LEMMA SlotLineRead ==
  ASSUME CardsInv, NEW l \in CardTexts, l.tag \notin Begin, l.tag \notin {"text", "url"},
         NEW s, Turned(server, s), server.open => SameBut(LastOf(s), LastOf(server)),
         NEW p, Turned(pam, p), server.open => SameBut(LastOf(p), LastOf(pam)),
         NEW f \in SlotNames, NEW D \in SUBSET (1 .. Slots), NEW a \in [D -> CardVals],
         NEW E \in SUBSET (1 .. Slots), NEW b \in [E -> CardVals],
         Reads(l, ServerSlots(s, f, b), PamSlots(p, f, a)),
         server.open =>
           LET x == SetSlots(ServerAlloc(LastOf(server).slots, E), f, b)
               y == SetSlots(PamAlloc(LastOf(pam).slots, D), f, a)
           IN  SlotsFit(Append(text, l), Here, x) /\ SlotsAlike(y, x)
  PROVE  CardsInv'
<1> DEFINE s2 == ServerSlots(s, f, b)
           p2 == PamSlots(p, f, a)
           x == SetSlots(ServerAlloc(LastOf(server).slots, E), f, b)
           y == SetSlots(PamAlloc(LastOf(pam).slots, D), f, a)
<1>1. /\ text \in Seq(CardTexts) /\ server \in CardReaders /\ pam \in CardReaders
      /\ pam.open = server.open
      /\ server.open => Len(server.done) > 0
      /\ pam.open => Len(pam.done) > 0
      /\ server.open =>
           /\ Here \in DOMAIN text /\ NoneAfter(text, Here, Begin)
           /\ CardFits(text, Here, LastOf(server)) /\ CardAlike(LastOf(pam), LastOf(server))
  BY OpenCardIs
<1>2. /\ s \in CardReaders /\ s.open = server.open /\ (s.open => Len(s.done) > 0)
      /\ p \in CardReaders /\ p.open = pam.open /\ (p.open => Len(p.done) > 0)
  BY <1>1 DEF Turned
<1>3. SlotsTurned(s, s2, SetSlots(ServerAlloc(LastOf(s).slots, E), f, b))
  BY <1>2, ServerSlotsFacts
<1>4. SlotsTurned(p, p2, SetSlots(PamAlloc(LastOf(p).slots, D), f, a))
  BY <1>2, PamSlotsFacts
<1>5. server.open => SlotsFit(Append(text, l), Here, x) /\ SlotsAlike(y, x)
  OBVIOUS
<1>6. Reads(l, s2, p2)
  OBVIOUS
<1>7. server.open => LastOf(s2).slots = x /\ LastOf(p2).slots = y
  BY <1>1, <1>2, <1>3, <1>4 DEF SameBut, SlotsTurned
<1> HIDE DEF s2, p2, x, y
<1>8. Turned(server, s2) /\ Turned(pam, p2)
  BY <1>3, <1>4, TurnedTwice DEF SlotsTurned
<1>9. server.open =>
        /\ LastOf(s2).id = LastOf(server).id /\ LastOf(s2).text = LastOf(server).text
        /\ LastOf(s2).url = LastOf(server).url
        /\ LastOf(p2).id = LastOf(pam).id /\ LastOf(p2).text = LastOf(pam).text
        /\ LastOf(p2).url = LastOf(pam).url
  BY <1>1, <1>2, <1>3, <1>4 DEF SameBut, SlotsTurned
<1>10. server.open => CardFits(Append(text, l), Here, LastOf(s2))
  BY <1>1, <1>5, <1>7, <1>9, SlotsLineFits
<1>11. server.open => CardAlike(LastOf(p2), LastOf(s2))
  BY <1>1, <1>5, <1>7, <1>9 DEF CardAlike
<1>12. QED
  BY <1>6, <1>8, <1>10, <1>11, CardLineRead

\* A line of values is as long as there are slots.
LEMMA ValuesOfSlots ==
  ASSUME NEW vals \in Vals
  PROVE  /\ DOMAIN vals = 1 .. Slots /\ \A n \in 1 .. Slots : vals[n] \in {"", "7"}
         /\ <<vals[1]>> \o Tail(vals) = vals
         /\ DOMAIN Tail(vals) = 1 .. Slots - 1
         /\ \A n \in 1 .. Slots - 1 : Tail(vals)[n] = vals[n + 1] /\ n + 1 \in 1 .. Slots
<1>1. Slots \in Nat /\ Slots > 0
  BY SlotsAssumption
<1>2. vals \in [1 .. Slots -> {"", "7"}]
  BY DEF Vals
<1> DEFINE V == {"", "7"}
<1>3. vals \in [1 .. Slots -> V]
  BY <1>2
<1> HIDE DEF V
<1>4. vals \in Seq(V) /\ Len(vals) = Slots /\ vals[1] \in V
  BY <1>1, <1>3
<1>5. /\ Tail(vals) \in Seq(V) /\ Len(Tail(vals)) = Slots - 1
      /\ DOMAIN Tail(vals) = 1 .. Slots - 1
      /\ \A n \in 1 .. Slots - 1 : Tail(vals)[n] = vals[n + 1]
  BY <1>1, <1>4
<1>6. <<vals[1]>> \o Tail(vals) = vals
  <2> DEFINE w == <<vals[1]>> \o Tail(vals)
  <2>1. w \in Seq(V) /\ Len(w) = Slots
    BY <1>1, <1>4, <1>5
  <2>2. \A n \in 1 .. Slots : w[n] = vals[n]
    <3> SUFFICES ASSUME NEW n \in 1 .. Slots PROVE w[n] = vals[n]
      OBVIOUS
    <3>1. CASE n = 1
      BY <1>1, <1>4, <1>5, <3>1
    <3>2. CASE n # 1
      <4>1. n - 1 \in 1 .. Slots - 1 /\ (n - 1) + 1 = n
        BY <1>1, <3>2
      <4>2. w[n] = Tail(vals)[n - 1]
        BY <1>1, <1>4, <1>5, <3>2, <4>1
      <4>3. QED
        BY <1>5, <4>1, <4>2
    <3>3. QED
      BY <3>1, <3>2
  <2> HIDE DEF w
  <2>3. \A y \in Seq(V) : Len(y) = Slots => y = [n \in 1 .. Slots |-> y[n]]
    OBVIOUS
  <2>4. w = [n \in 1 .. Slots |-> w[n]] /\ vals = [n \in 1 .. Slots |-> vals[n]]
    BY <1>4, <2>1, <2>3
  <2>5. w = vals
    BY <2>2, <2>4
  <2>6. QED
    BY <2>5 DEF w
<1>7. \A n \in 1 .. Slots - 1 : n + 1 \in 1 .. Slots
  BY <1>1
<1>8. DOMAIN vals = 1 .. Slots /\ \A n \in 1 .. Slots : vals[n] \in {"", "7"}
  BY <1>2
<1>9. QED
  BY <1>5, <1>6, <1>7, <1>8

\* The values the readers make are values, and mean the same.
LEMMA ValuesParsed ==
  /\ \A v \in {"", "7"} : /\ ParseInt(v) \in CardVals /\ StrToUl(v) \in CardVals
                          /\ OrZero(v) \in CardVals /\ v \in CardVals
                          /\ StrToUl(v) = ParseInt(v) \/ ParseInt(v) = "NaN"
                          /\ StrToUl(v) = OrZero(v)
                          /\ ParseInt(v) = "NaN" <=> v = ""
  /\ \A v \in {"plain", "one escape", "two escapes"} :
       /\ v \in CardVals /\ Decoded(v) \in CardVals
       /\ v \in {"one escape", "two escapes"} \/ Decoded(v) = v
  /\ {"x", "1"} \subseteq CardVals
BY DEF ParseInt, StrToUl, OrZero, Decoded, CardVals

LEMMA KeyAttrLineRead ==
  ASSUME CardsInv, NEW slot \in 1 .. Slots, KeyAttrLine(slot, "1")
  PROVE  CardsInv'
<1> DEFINE l == [tag |-> "keyattr", slot |-> slot, val |-> "1"]
           a == [i \in {slot} |-> "1"]
           D == {slot}
           f == "attr"
<1>1. l \in CardTexts /\ l.tag = "keyattr" /\ l.tag \notin Begin /\ l.tag \notin {"text", "url"}
  BY DEF CardTexts, Begin
<1>2. Reads(l, ServerSlots(server, f, a), PamSlots(pam, f, a))
  BY DEF KeyAttrLine
<1>3. D \in SUBSET (1 .. Slots) /\ a \in [D -> CardVals]
  BY ValuesParsed
<1>4. f \in SlotNames /\ f # "cafpr"
  BY DEF SlotNames
<1> HIDE DEF l, a, D
<1>5. /\ text \in Seq(CardTexts) /\ server \in CardReaders /\ pam \in CardReaders
      /\ server.open =>
           /\ Here \in DOMAIN text
           /\ CardFits(text, Here, LastOf(server)) /\ CardAlike(LastOf(pam), LastOf(server))
           /\ LastOf(server).slots \in SlotMaps /\ LastOf(pam).slots \in SlotMaps
  BY OpenCardIs
<1>6. server.open => SlotsFit(Append(text, l), Here,
        SetSlots(ServerAlloc(LastOf(server).slots, D), f, a))
  BY <1>1, <1>3, <1>5, AttrFits DEF CardFits
<1>7. server.open => SlotsAlike(SetSlots(PamAlloc(LastOf(pam).slots, D), f, a),
                                SetSlots(ServerAlloc(LastOf(server).slots, D), f, a))
  BY <1>3, <1>4, <1>5, MadeAndSetAlike DEF CardAlike
<1>8. Turned(server, server) /\ Turned(pam, pam)
  BY <1>5, TurnedNot
<1>9. SameBut(LastOf(server), LastOf(server)) /\ SameBut(LastOf(pam), LastOf(pam))
  BY DEF SameBut
<1> HIDE DEF f
<1>10. QED
  BY <1>1, <1>2, <1>3, <1>4, <1>6, <1>7, <1>8, <1>9, SlotLineRead

\* A line with a value for each slot, all of which it names.
Names(l, f, D, a, b) ==
  /\ D \in SUBSET (1 .. Slots) /\ \A n \in 1 .. Slots : n \in D <=> Shift(f, n) \in 1 .. Slots
  /\ a \in [D -> CardVals] /\ b \in [D -> CardVals]
  /\ \A n \in D : b[n] = Parsed(f, l.vals[Shift(f, n)])
  /\ \A n \in D : a[n] = b[n] \/ (f \in Numbers \cup {"fpr"} /\ b[n] \in {"NaN", "undefined"})

LEMMA FieldLineRead ==
  ASSUME CardsInv, NEW f \in SlotFields, f # "cafpr", NEW l \in CardTexts, l.tag = f,
         NEW s, Turned(server, s), server.open => SameBut(LastOf(s), LastOf(server)),
         NEW p, Turned(pam, p), server.open => SameBut(LastOf(p), LastOf(pam)),
         NEW D, NEW a, NEW b, Names(l, f, D, a, b),
         Reads(l, ServerSlots(s, f, b), PamSlots(p, f, a))
  PROVE  CardsInv'
<1>1. l.tag \notin Begin /\ l.tag \notin {"text", "url"} /\ f \in SlotNames
  BY DEF SlotFields, Numbers, Begin, SlotNames
<1>2. /\ text \in Seq(CardTexts) /\ server \in CardReaders /\ pam \in CardReaders
      /\ server.open =>
           /\ Here \in DOMAIN text /\ NoneAfter(text, Here, Begin)
           /\ CardFits(text, Here, LastOf(server)) /\ CardAlike(LastOf(pam), LastOf(server))
           /\ LastOf(server).slots \in SlotMaps /\ LastOf(pam).slots \in SlotMaps
  BY OpenCardIs
<1>3. server.open => SlotsFit(Append(text, l), Here,
        SetSlots(ServerAlloc(LastOf(server).slots, D), f, b))
  BY <1>2, FieldFits DEF CardFits, Names
<1>4. server.open => SlotsAlike(SetSlots(PamAlloc(LastOf(pam).slots, D), f, a),
                                SetSlots(ServerAlloc(LastOf(server).slots, D), f, b))
  BY <1>1, <1>2, MadeAndSetAlike DEF CardAlike, Names
<1>5. /\ D \in SUBSET (1 .. Slots) /\ a \in [D -> CardVals] /\ b \in [D -> CardVals]
  BY DEF Names
<1>6. QED
  BY <1>1, <1>3, <1>4, <1>5, SlotLineRead

LEMMA NumbersLineRead ==
  ASSUME CardsInv, NEW f \in Numbers, NEW vals \in Vals, NumbersLine(f, vals)
  PROVE  CardsInv'
<1> DEFINE l == [tag |-> f, vals |-> vals]
           D == 1 .. Slots
           a == [n \in DOMAIN vals |-> StrToUl(vals[n])]
           b == [n \in DOMAIN vals |-> ParseInt(vals[n])]
<1>1. f \in SlotFields /\ f # "cafpr" /\ f # "sigcount"
  BY DEF SlotFields, Numbers
<1>2. l \in CardTexts /\ l.tag = f /\ l.vals = vals
  BY <1>1 DEF CardTexts
<1>3. Reads(l, ServerSlots(server, f, b), PamSlots(pam, f, a))
  BY DEF NumbersLine, EachOf
<1>4. DOMAIN vals = D /\ \A n \in D : vals[n] \in {"", "7"}
  BY ValuesOfSlots
<1>5. /\ a \in [D -> CardVals] /\ b \in [D -> CardVals]
      /\ \A n \in D : b[n] = ParseInt(vals[n]) /\ (a[n] = b[n] \/ b[n] = "NaN")
  BY <1>4, ValuesParsed
<1>6. \A n \in D : Shift(f, n) = n
  BY <1>1 DEF Shift
<1>7. \A n \in D : b[n] = Parsed(f, l.vals[Shift(f, n)])
  BY <1>2, <1>5, <1>6 DEF Parsed
<1>8. Turned(server, server) /\ Turned(pam, pam)
  BY OpenCardIs, TurnedNot
<1>9. SameBut(LastOf(server), LastOf(server)) /\ SameBut(LastOf(pam), LastOf(pam))
  BY DEF SameBut
<1>10. D \in SUBSET (1 .. Slots) /\ \A n \in 1 .. Slots : n \in D <=> Shift(f, n) \in 1 .. Slots
  BY <1>6
<1>11. \A n \in D : a[n] = b[n] \/ (f \in Numbers \cup {"fpr"} /\ b[n] \in {"NaN", "undefined"})
  BY <1>5
<1> HIDE DEF l, D, a, b
<1>12. Names(l, f, D, a, b)
  BY <1>5, <1>7, <1>10, <1>11 DEF Names
<1>13. QED
  BY <1>1, <1>2, <1>3, <1>8, <1>9, <1>12, FieldLineRead

LEMMA FprLineOfCardRead ==
  ASSUME CardsInv, NEW vals \in Vals, FprLineOfCard(vals)
  PROVE  CardsInv'
<1> DEFINE f == "fpr"
           l == [tag |-> f, vals |-> vals]
           D == 1 .. Slots
           a == vals
           b == vals
<1>1. f \in SlotFields /\ f # "cafpr" /\ f # "sigcount" /\ f \notin Numbers
  BY DEF SlotFields, Numbers
<1>2. l \in CardTexts /\ l.tag = f /\ l.vals = vals
  BY <1>1 DEF CardTexts
<1>3. Reads(l, ServerSlots(server, f, b), PamSlots(pam, f, a))
  BY DEF FprLineOfCard
<1>4. a \in [D -> CardVals] /\ b \in [D -> CardVals]
  <2>1. DOMAIN vals = D /\ \A n \in D : vals[n] \in {"", "7"}
    BY ValuesOfSlots
  <2>2. vals \in [D -> {"", "7"}]
    BY DEF Vals
  <2>3. QED
    BY <2>1, <2>2, ValuesParsed
<1>5. \A n \in D : Shift(f, n) = n
  BY <1>1 DEF Shift
<1>6. \A n \in D : b[n] = Parsed(f, l.vals[Shift(f, n)])
  BY <1>1, <1>2, <1>5 DEF Parsed
<1>7. Turned(server, server) /\ Turned(pam, pam)
  BY OpenCardIs, TurnedNot
<1>8. SameBut(LastOf(server), LastOf(server)) /\ SameBut(LastOf(pam), LastOf(pam))
  BY DEF SameBut
<1>9. D \in SUBSET (1 .. Slots) /\ \A n \in 1 .. Slots : n \in D <=> Shift(f, n) \in 1 .. Slots
  BY <1>5
<1>10. \A n \in D : a[n] = b[n] \/ (f \in Numbers \cup {"fpr"} /\ b[n] \in {"NaN", "undefined"})
  OBVIOUS
<1> HIDE DEF l, D, f, a, b
<1>11. Names(l, f, D, a, b)
  BY <1>4, <1>6, <1>9, <1>10 DEF Names
<1>12. QED
  BY <1>1, <1>2, <1>3, <1>7, <1>8, <1>11, FieldLineRead

LEMMA SigCountLineRead ==
  ASSUME CardsInv, NEW vals \in Vals, SigCountLine(vals[1], Tail(vals))
  PROVE  CardsInv'
<1> DEFINE f == "sigcount"
           l == [tag |-> f, vals |-> vals]
           w == Tail(vals)
           D == 1 .. Slots - 1
           a == [n \in DOMAIN w |-> StrToUl(w[n])]
           b == [n \in DOMAIN w |-> OrZero(w[n])]
           s == Fill(server, f, OrZero(vals[1]))
           p == Fill(pam, f, StrToUl(vals[1]))
<1>1. f \in SlotFields /\ f # "cafpr" /\ f \notin Numbers /\ f # "fpr"
  BY DEF SlotFields, Numbers
<1>2. l \in CardTexts /\ l.tag = f /\ l.vals = vals
  BY <1>1 DEF CardTexts
<1>3. /\ \A n \in 1 .. Slots : vals[n] \in {"", "7"}
      /\ <<vals[1]>> \o w = vals /\ DOMAIN w = D
      /\ \A n \in D : w[n] = vals[n + 1] /\ n + 1 \in 1 .. Slots
  BY ValuesOfSlots
<1>4. Slots \in Nat /\ 1 \in 1 .. Slots
  BY SlotsAssumption
<1>5. Reads(l, ServerSlots(s, f, b), PamSlots(p, f, a))
  <2>1. Reads([tag |-> f, vals |-> <<vals[1]>> \o w], ServerSlots(s, f, b), PamSlots(p, f, a))
    BY DEF SigCountLine, EachOf
  <2>2. QED
    BY <1>3, <2>1
<1>6. /\ a \in [D -> CardVals] /\ b \in [D -> CardVals]
      /\ \A n \in D : b[n] = OrZero(vals[n + 1]) /\ a[n] = b[n]
  <2> HIDE DEF w, D
  <2>1. \A n \in D : w[n] \in {"", "7"} /\ w[n] = vals[n + 1]
    BY <1>3
  <2>2. QED
    BY <1>3, <2>1, ValuesParsed
<1>7. \A n \in D : Shift(f, n) = n + 1
  BY DEF Shift
<1>8. \A n \in D : b[n] = Parsed(f, l.vals[Shift(f, n)])
  BY <1>1, <1>2, <1>6, <1>7 DEF Parsed
<1>9. OrZero(vals[1]) \in CardVals /\ StrToUl(vals[1]) \in CardVals
  BY <1>3, <1>4, ValuesParsed
<1>10. /\ Turned(server, s) /\ (server.open => SameBut(LastOf(s), LastOf(server)))
       /\ Turned(pam, p) /\ (server.open => SameBut(LastOf(p), LastOf(pam)))
  <2>1. /\ server \in CardReaders /\ pam \in CardReaders /\ pam.open = server.open
        /\ (server.open => Len(server.done) > 0) /\ (pam.open => Len(pam.done) > 0)
    BY OpenCardIs
  <2>2. f \in CardFields /\ f # "text" /\ f # "url"
    BY DEF CardFields
  <2> HIDE DEF f
  <2>3. /\ Turned(server, s)
        /\ server.open =>
             /\ LastOf(s).id = LastOf(server).id /\ LastOf(s).slots = LastOf(server).slots
             /\ \A g \in {"text", "url"} : g # f => LastOf(s)[g] = LastOf(server)[g]
    BY <1>9, <2>1, <2>2, FillFacts DEF Filled
  <2>4. /\ Turned(pam, p)
        /\ pam.open =>
             /\ LastOf(p).id = LastOf(pam).id /\ LastOf(p).slots = LastOf(pam).slots
             /\ \A g \in {"text", "url"} : g # f => LastOf(p)[g] = LastOf(pam)[g]
    BY <1>9, <2>1, <2>2, FillFacts DEF Filled
  <2> HIDE DEF s, p
  <2>5. QED
    BY <2>1, <2>2, <2>3, <2>4 DEF SameBut
<1>11. D \in SUBSET (1 .. Slots) /\ \A n \in 1 .. Slots : n \in D <=> Shift(f, n) \in 1 .. Slots
  BY <1>4 DEF Shift
<1>12. \A n \in D : a[n] = b[n] \/ (f \in Numbers \cup {"fpr"} /\ b[n] \in {"NaN", "undefined"})
  BY <1>6
<1> HIDE DEF l, D, f, a, b, w, s, p
<1>13. Names(l, f, D, a, b)
  BY <1>6, <1>8, <1>11, <1>12 DEF Names
<1>14. QED
  BY <1>1, <1>2, <1>5, <1>10, <1>13, FieldLineRead

LEMMA CaFprLineRead ==
  ASSUME CardsInv, NEW vals \in Vals, CaFprLine(vals)
  PROVE  CardsInv'
<1> DEFINE f == "cafpr"
           l == [tag |-> f, vals |-> vals]
           w == Tail(vals)
           D == 1 .. Slots - 1
           E == 1 .. Slots
           a == [n \in DOMAIN w |-> StrToUl(w[n])]
           b == [n \in DOMAIN vals |-> OrZero(vals[n])]
           p == Fill(pam, f, StrToUl(vals[1]))
<1>1. /\ f \in SlotFields /\ f \notin Numbers /\ f # "fpr" /\ f \in SlotNames /\ f # "sigcount"
      /\ f \notin Begin /\ f \notin {"text", "url"}
  BY DEF SlotFields, Numbers, SlotNames, Begin
<1>2. l \in CardTexts /\ l.tag = f /\ l.vals = vals
  BY <1>1 DEF CardTexts
<1>3. /\ DOMAIN vals = E /\ \A n \in E : vals[n] \in {"", "7"}
      /\ DOMAIN w = D /\ \A n \in D : w[n] = vals[n + 1] /\ n + 1 \in E
  BY ValuesOfSlots
<1>4. Slots \in Nat /\ 1 \in E
  BY SlotsAssumption
<1>5. Reads(l, ServerSlots(server, f, b), PamSlots(p, f, a))
  BY DEF CaFprLine, EachOf
<1>6. a \in [D -> CardVals] /\ \A n \in D : a[n] = StrToUl(w[n])
  <2> HIDE DEF w, D
  <2>1. \A n \in D : w[n] \in {"", "7"}
    BY <1>3
  <2>2. QED
    BY <1>3, <2>1, ValuesParsed
<1>7. b \in [E -> CardVals] /\ \A n \in E : b[n] = OrZero(vals[n])
  <2> HIDE DEF E
  <2>1. QED
    BY <1>3, ValuesParsed
<1>8. OneDown(a, b)
  <2> SUFFICES ASSUME NEW n \in E, n # 1 PROVE n - 1 \in D /\ a[n - 1] = b[n]
    BY <1>3, <1>6, <1>7 DEF OneDown
  <2>1. n - 1 \in D /\ (n - 1) + 1 = n
    BY <1>4
  <2>2. a[n - 1] = StrToUl(vals[n])
    BY <1>3, <1>6, <2>1
  <2>3. vals[n] \in {"", "7"}
    BY <1>3
  <2>4. QED
    BY <1>7, <2>1, <2>2, <2>3, ValuesParsed
<1>9. \A n \in E : b[n] = Parsed(f, l.vals[Shift(f, n)])
  BY <1>1, <1>2, <1>7 DEF Parsed, Shift
<1>10. /\ text \in Seq(CardTexts) /\ server \in CardReaders /\ pam \in CardReaders
       /\ pam.open = server.open /\ (pam.open => Len(pam.done) > 0)
       /\ server.open =>
            /\ Here \in DOMAIN text /\ NoneAfter(text, Here, Begin)
            /\ CardFits(text, Here, LastOf(server)) /\ CardAlike(LastOf(pam), LastOf(server))
            /\ LastOf(server).slots \in SlotMaps /\ LastOf(pam).slots \in SlotMaps
  BY OpenCardIs
<1>11. Turned(pam, p) /\ (server.open => SameBut(LastOf(p), LastOf(pam)))
  <2>1. f \in CardFields /\ f # "text" /\ f # "url"
    BY DEF CardFields
  <2>2. StrToUl(vals[1]) \in CardVals
    BY <1>3, <1>4, ValuesParsed
  <2> HIDE DEF f
  <2>3. /\ Turned(pam, p)
        /\ pam.open =>
             /\ LastOf(p).id = LastOf(pam).id /\ LastOf(p).slots = LastOf(pam).slots
             /\ \A g \in {"text", "url"} : g # f => LastOf(p)[g] = LastOf(pam)[g]
    BY <1>10, <2>1, <2>2, FillFacts DEF Filled
  <2> HIDE DEF p
  <2>4. QED
    BY <1>10, <2>1, <2>3 DEF SameBut
<1>12. Turned(server, server) /\ SameBut(LastOf(server), LastOf(server))
  BY <1>10, TurnedNot DEF SameBut
<1>13. /\ D \in SUBSET (1 .. Slots) /\ E \in SUBSET (1 .. Slots)
       /\ \A n \in 1 .. Slots : n \in E <=> Shift(f, n) \in 1 .. Slots
  BY <1>1, <1>4 DEF Shift
<1>14. E = 1 .. Slots
  OBVIOUS
<1> HIDE DEF l, D, E, a, b, w, p
<1>15. server.open => SlotsFit(Append(text, l), Here,
         SetSlots(ServerAlloc(LastOf(server).slots, E), f, b))
  <2> HIDE DEF f
  <2>1. QED
    BY <1>1, <1>2, <1>7, <1>9, <1>10, <1>13, FieldFits DEF CardFits
<1>16. server.open => SlotsAlike(SetSlots(PamAlloc(LastOf(pam).slots, D), f, a),
                                 SetSlots(ServerAlloc(LastOf(server).slots, E), f, b))
  BY <1>6, <1>7, <1>8, <1>10, <1>13, <1>14, MadeAndCaSetAlike DEF CardAlike
<1> HIDE DEF f
<1>17. QED
  BY <1>1, <1>2, <1>5, <1>6, <1>7, <1>11, <1>12, <1>13, <1>15, <1>16, SlotLineRead

LEMMA TextLineRead ==
  ASSUME CardsInv, TextLine("x")
  PROVE  CardsInv'
<1> DEFINE l == [tag |-> "text", val |-> "x"]
           f == "text"
           v == "x"
           s == Fill(server, f, v)
           p == Fill(pam, f, v)
<1>1. l \in CardTexts /\ l.tag = "text" /\ l.val = v /\ l.tag \notin Begin
        /\ l.tag \notin SlotFields
  BY DEF CardTexts, Begin, SlotFields, Numbers
<1>2. Reads(l, s, p)
  BY DEF TextLine
<1>3. f \in CardFields /\ f # "url" /\ v \in CardVals /\ f = "text"
  BY ValuesParsed DEF CardFields
<1> HIDE DEF l, f, v
<1>4. /\ text \in Seq(CardTexts) /\ server \in CardReaders /\ pam \in CardReaders
      /\ pam.open = server.open
      /\ (server.open => Len(server.done) > 0) /\ (pam.open => Len(pam.done) > 0)
      /\ server.open =>
           /\ Here \in DOMAIN text /\ NoneAfter(text, Here, Begin)
           /\ CardFits(text, Here, LastOf(server)) /\ CardAlike(LastOf(pam), LastOf(server))
  BY OpenCardIs
<1>5. /\ Turned(server, s)
      /\ server.open =>
           /\ LastOf(s)[f] = v /\ LastOf(s).id = LastOf(server).id
           /\ \A g \in {"text", "url"} : g # f => LastOf(s)[g] = LastOf(server)[g]
           /\ LastOf(s).slots = LastOf(server).slots
  <2>1. Filled(server, s, f, v)
    BY <1>3, <1>4, FillFacts
  <2>2. QED
    BY <2>1 DEF Filled
<1>6. /\ Turned(pam, p)
      /\ pam.open =>
           /\ LastOf(p)[f] = v /\ LastOf(p).id = LastOf(pam).id
           /\ \A g \in {"text", "url"} : g # f => LastOf(p)[g] = LastOf(pam)[g]
           /\ LastOf(p).slots = LastOf(pam).slots
  <2>1. Filled(pam, p, f, v)
    BY <1>3, <1>4, FillFacts
  <2>2. QED
    BY <2>1 DEF Filled
<1> HIDE DEF s, p
<1>7. server.open =>
        /\ LastOf(s).text = v /\ LastOf(s).url = LastOf(server).url
        /\ LastOf(p).text = v /\ LastOf(p).url = LastOf(pam).url
  BY <1>3, <1>4, <1>5, <1>6
<1>8. server.open => CardFits(Append(text, l), Here, LastOf(s))
  BY <1>1, <1>4, <1>5, <1>7, TextsFit
<1>9. server.open => CardAlike(LastOf(p), LastOf(s))
  BY <1>4, <1>5, <1>6, <1>7 DEF CardAlike
<1>10. QED
  BY <1>1, <1>2, <1>5, <1>6, <1>8, <1>9, CardLineRead

LEMMA UrlLineRead ==
  ASSUME CardsInv, NEW v \in {"plain", "one escape", "two escapes"}, UrlLine(v)
  PROVE  CardsInv'
<1> DEFINE l == [tag |-> "url", val |-> v]
           f == "url"
           s == Fill(server, f, Decoded(v))
           p == Fill(pam, f, v)
<1>1. l \in CardTexts /\ l.tag = "url" /\ l.val = v /\ l.tag \notin Begin /\ l.tag \notin SlotFields
  BY DEF CardTexts, Begin, SlotFields, Numbers
<1>2. Reads(l, s, p)
  BY DEF UrlLine
<1>3. /\ f \in CardFields /\ f # "text" /\ v \in CardVals /\ Decoded(v) \in CardVals /\ f = "url"
      /\ v \in {"one escape", "two escapes"} \/ Decoded(v) = v
  BY ValuesParsed DEF CardFields
<1> HIDE DEF l, f
<1>4. /\ text \in Seq(CardTexts) /\ server \in CardReaders /\ pam \in CardReaders
      /\ pam.open = server.open
      /\ (server.open => Len(server.done) > 0) /\ (pam.open => Len(pam.done) > 0)
      /\ server.open =>
           /\ Here \in DOMAIN text /\ NoneAfter(text, Here, Begin)
           /\ CardFits(text, Here, LastOf(server)) /\ CardAlike(LastOf(pam), LastOf(server))
  BY OpenCardIs
<1>5. /\ Turned(server, s)
      /\ server.open =>
           /\ LastOf(s)[f] = Decoded(v) /\ LastOf(s).id = LastOf(server).id
           /\ \A g \in {"text", "url"} : g # f => LastOf(s)[g] = LastOf(server)[g]
           /\ LastOf(s).slots = LastOf(server).slots
  <2>1. Filled(server, s, f, Decoded(v))
    BY <1>3, <1>4, FillFacts
  <2>2. QED
    BY <2>1 DEF Filled
<1>6. /\ Turned(pam, p)
      /\ pam.open =>
           /\ LastOf(p)[f] = v /\ LastOf(p).id = LastOf(pam).id
           /\ \A g \in {"text", "url"} : g # f => LastOf(p)[g] = LastOf(pam)[g]
           /\ LastOf(p).slots = LastOf(pam).slots
  <2>1. Filled(pam, p, f, v)
    BY <1>3, <1>4, FillFacts
  <2>2. QED
    BY <2>1 DEF Filled
<1> HIDE DEF s, p
<1>7. server.open =>
        /\ LastOf(s).url = Decoded(v) /\ LastOf(s).text = LastOf(server).text
        /\ LastOf(p).url = v /\ LastOf(p).text = LastOf(pam).text
  BY <1>3, <1>4, <1>5, <1>6
<1>8. server.open => CardFits(Append(text, l), Here, LastOf(s))
  BY <1>1, <1>4, <1>5, <1>7, TextsFit
<1>9. server.open => CardAlike(LastOf(p), LastOf(s))
  BY <1>3, <1>4, <1>5, <1>6, <1>7 DEF CardAlike
<1>10. QED
  BY <1>1, <1>2, <1>5, <1>6, <1>8, <1>9, CardLineRead

LEMMA UnknownLineRead ==
  ASSUME CardsInv, UnknownLine
  PROVE  CardsInv'
<1> DEFINE l == [tag |-> "other"]
<1>1. /\ l \in CardTexts /\ l.tag \notin Begin /\ l.tag \notin SlotFields
      /\ l.tag \notin {"text", "url"}
  BY DEF CardTexts, Begin, SlotFields, Numbers
<1>2. Reads(l, server, pam)
  BY DEF UnknownLine
<1> HIDE DEF l
<1>3. /\ text \in Seq(CardTexts) /\ server \in CardReaders /\ pam \in CardReaders
      /\ server.open =>
           /\ Here \in DOMAIN text
           /\ CardFits(text, Here, LastOf(server)) /\ CardAlike(LastOf(pam), LastOf(server))
  BY OpenCardIs
<1>4. Turned(server, server) /\ Turned(pam, pam)
  BY <1>3, TurnedNot
<1>5. server.open => CardFits(Append(text, l), Here, LastOf(server))
  BY <1>1, <1>3, CardStays
<1>6. QED
  BY <1>1, <1>2, <1>3, <1>4, <1>5, CardLineRead

\* A line that ends the card before it, and makes one or not.
LEMMA ReaderLineRead ==
  ASSUME CardsInv, NEW form \in {"short", "long", "noAid"}, NEW id \in CardIds, ReaderLine(form, id)
  PROVE  CardsInv'
<1> DEFINE l == [tag |-> "Reader", form |-> form, id |-> id]
           t == text
           u == Append(t, l)
           n == Len(t) + 1
           c == NewCard(id, "undefined")
           d == NewCard(id, "")
           s == OpenCard(server, form, c)
           p == OpenCard(pam, form, d)
<1>1. l \in CardTexts /\ l.tag \in Begin /\ l.form = form /\ l.id = id
  BY DEF CardTexts, Begin
<1>2. text' = u /\ server' = s /\ pam' = p
  BY DEF ReaderLine, Reads
<1>3. c \in CardsRead /\ d \in CardsRead
  <2>1. <<>> \in SlotMaps
    <3>1. <<>> \in [{} -> SlotsRead]
      OBVIOUS
    <3>2. QED
      BY <3>1 DEF SlotMaps
  <2>2. QED
    BY <2>1 DEF NewCard, CardsRead, CardVals
<1>4. CardAlike(d, c)
  <2>1. SlotsAlike(<<>>, <<>>)
    BY DEF SlotsAlike
  <2>2. QED
    BY <2>1 DEF CardAlike, NewCard
<1>5. c.id = id /\ c.text = "undefined" /\ c.url = "undefined" /\ c.slots = <<>>
  BY DEF NewCard
<1>6. /\ t \in Seq(CardTexts) /\ server \in CardReaders /\ pam \in CardReaders
      /\ CardsFiled(t, server) /\ CardsAlike(pam, server)
  BY DEF CardsInv
<1> HIDE DEF t
<1>7. /\ u \in Seq(CardTexts) /\ n \in Nat /\ u[n] = l
      /\ DOMAIN u = DOMAIN t \cup {n} /\ n \notin DOMAIN t
      /\ \A i \in DOMAIN t : i \in Nat /\ i < n /\ u[i] = t[i]
      /\ Tagged(u, Begin) = Tagged(t, Begin) \cup {n}
      /\ Tagged(t, Begin) \subseteq DOMAIN t
  <2>1. /\ u \in Seq(CardTexts) /\ n \in Nat /\ u[n] = l
        /\ DOMAIN u = DOMAIN t \cup {n} /\ n \notin DOMAIN t
        /\ \A i \in DOMAIN t : i \in Nat /\ i < n /\ u[i] = t[i]
        /\ \A tags : Tagged(u, tags) = Tagged(t, tags) \cup (IF l.tag \in tags THEN {n} ELSE {})
    BY <1>1, <1>6, OneMoreLine
  <2>2. QED
    BY <1>1, <2>1 DEF Tagged
<1>8. ASSUME NEW i \in DOMAIN t, NEW x, CardFits(t, i, x) PROVE CardFits(u, i, x)
  <2>1. l.tag \notin SlotFields \cup {"text", "url"}
    BY <1>1 DEF Begin, SlotFields, Numbers
  <2> HIDE DEF l
  <2>2. QED
    BY <1>1, <1>6, <1>8, <2>1, CardStays
<1>9. ASSUME NEW tag, tag \notin Begin PROVE ~IsSaid(u, n, tag)
  <2> HIDE DEF l
  <2>1. QED
    BY <1>1, <1>6, <1>9, SaidNext
<1> HIDE DEF u, n, l
<1>10. CardFits(u, n, c)
  <2>1. \A tag \in SlotFields \cup {"text", "url"} : ~IsSaid(u, n, tag)
    BY <1>9 DEF Begin, SlotFields, Numbers
  <2>2. SlotsFit(u, n, <<>>)
    BY <2>1 DEF SlotsFit
  <2> HIDE DEF c
  <2>3. QED
    BY <1>1, <1>5, <1>7, <2>1, <2>2 DEF CardFits
<1>11. \A i \in DOMAIN t : ~NoneAfter(u, i, Begin)
  BY <1>7 DEF NoneAfter
<1>12. NoneAfter(u, n, Begin)
  BY <1>7 DEF NoneAfter
<1>13. /\ AcceptedIn(t) \in SUBSET DOMAIN t
       /\ AcceptedIn(u) = IF form = "noAid" THEN AcceptedIn(t) ELSE AcceptedIn(t) \cup {n}
  BY <1>1, <1>7 DEF AcceptedIn
<1>14. CardsOf(u) = IF form = "noAid" THEN CardsOf(t) ELSE Append(CardsOf(t), n)
  <2>1. /\ AcceptedIn(t) \in SUBSET Nat /\ IsFiniteSet(AcceptedIn(t))
        /\ \A i \in AcceptedIn(t) : i < n
    BY <1>6, <1>7, <1>13, LinesOfText DEF n
  <2>2. InOrder(AcceptedIn(t) \cup {n}) = Append(InOrder(AcceptedIn(t)), n)
    BY <1>7, <2>1, OneMoreInOrder
  <2>3. QED
    BY <1>13, <2>2 DEF CardsOf
<1>15. CASE form = "noAid"
  <2> HIDE DEF c, d
  <2>1. s = [server EXCEPT !.open = FALSE] /\ p = [pam EXCEPT !.open = FALSE]
    BY <1>15 DEF OpenCard
  <2> HIDE DEF s, p
  <2>2. /\ s \in CardReaders /\ s.done = server.done /\ s.open = FALSE
        /\ p \in CardReaders /\ p.done = pam.done /\ p.open = FALSE
    BY <1>6, <2>1 DEF CardReaders
  <2>3. CardsFiled(u, s)
    <3>1. CardsOf(u) = CardsOf(t)
      BY <1>14, <1>15
    <3>2. ASSUME NEW k \in 1 .. Len(s.done)
          PROVE  /\ CardsOf(u)[k] \in DOMAIN u
                 /\ CardFits(u, CardsOf(u)[k], s.done[k])
                 /\ NoneAfter(u, CardsOf(u)[k], Begin) <=> s.open /\ k = Len(s.done)
      <4>1. CardsOf(t)[k] \in DOMAIN t /\ CardFits(t, CardsOf(t)[k], s.done[k])
        BY <1>6, <2>2 DEF CardsFiled
      <4>2. QED
        BY <1>7, <1>8, <1>11, <2>2, <3>1, <4>1
    <3>3. QED
      BY <1>6, <2>2, <3>1, <3>2 DEF CardsFiled
  <2>4. CardsAlike(p, s)
    BY <1>6, <2>2 DEF CardsAlike
  <2>5. QED
    BY <1>2, <1>7, <2>2, <2>3, <2>4 DEF CardsInv
<1>16. CASE form # "noAid"
  <2> HIDE DEF c, d
  <2>1. /\ s = [done |-> Append(server.done, c), open |-> TRUE]
        /\ p = [done |-> Append(pam.done, d), open |-> TRUE]
    BY <1>16 DEF OpenCard
  <2> HIDE DEF s, p
  <2> DEFINE m == Len(server.done)
  <2>2. server.done \in Seq(CardsRead) /\ pam.done \in Seq(CardsRead) /\ Len(pam.done) = m
    BY <1>6 DEF CardReaders, CardsAlike
  <2>3. /\ s \in CardReaders /\ s.open /\ Len(s.done) = m + 1 /\ s.done[m + 1] = c
        /\ \A k \in 1 .. m : s.done[k] = server.done[k]
        /\ p \in CardReaders /\ p.open /\ Len(p.done) = m + 1 /\ p.done[m + 1] = d
        /\ \A k \in 1 .. m : p.done[k] = pam.done[k]
    <3>1. /\ Append(server.done, c) \in Seq(CardsRead) /\ Append(pam.done, d) \in Seq(CardsRead)
          /\ Len(Append(server.done, c)) = m + 1 /\ Append(server.done, c)[m + 1] = c
          /\ \A k \in 1 .. m : Append(server.done, c)[k] = server.done[k]
          /\ Len(Append(pam.done, d)) = m + 1 /\ Append(pam.done, d)[m + 1] = d
          /\ \A k \in 1 .. m : Append(pam.done, d)[k] = pam.done[k]
      BY <1>3, <2>2
    <3>2. QED
      BY <2>1, <3>1 DEF CardReaders
  <2>4. m \in Nat /\ \A k \in 1 .. m + 1 : k = m + 1 \/ (k \in 1 .. m /\ k # m + 1)
    BY <2>2
  <2>5. /\ Len(CardsOf(t)) = m
        /\ \A k \in 1 .. m : CardsOf(t)[k] \in DOMAIN t
             /\ CardFits(t, CardsOf(t)[k], server.done[k])
    BY <1>6 DEF CardsFiled
  <2>6. /\ Len(CardsOf(u)) = m + 1 /\ CardsOf(u)[m + 1] = n
        /\ \A k \in 1 .. m : CardsOf(u)[k] = CardsOf(t)[k]
    <3>1. CardsOf(t) \in Seq(DOMAIN t)
      <4>1. CardsOf(t) = [k \in 1 .. m |-> CardsOf(t)[k]]
        <5> DEFINE S == AcceptedIn(t)
                   q == Cardinality(S)
                   g == [k \in 1 .. q |-> CHOOSE i \in S : Rank(S, i) = k]
        <5>1. CardsOf(t) = g
          BY DEF CardsOf, InOrder
        <5>2. q \in Nat
          BY <1>6, <1>13, LinesOfText, FS_CardinalityType
        <5> HIDE DEF q, S
        <5>3. Len(g) = q /\ g = [k \in 1 .. q |-> g[k]]
          BY <5>2
        <5>4. QED
          BY <2>5, <5>1, <5>3
      <4>2. QED
        BY <2>4, <2>5, <4>1
    <3>2. CardsOf(u) = Append(CardsOf(t), n)
      BY <1>14, <1>16
    <3>3. QED
      BY <1>7, <2>5, <3>1, <3>2
  <2> HIDE DEF m
  <2>7. ASSUME NEW k \in 1 .. m + 1
        PROVE  /\ CardsOf(u)[k] \in DOMAIN u
               /\ CardFits(u, CardsOf(u)[k], s.done[k])
               /\ NoneAfter(u, CardsOf(u)[k], Begin) <=> s.open /\ k = m + 1
               /\ CardAlike(p.done[k], s.done[k])
    <3>1. CASE k = m + 1
      BY <1>4, <1>7, <1>10, <1>12, <2>3, <2>6, <3>1
    <3>2. CASE k # m + 1
      <4>1. k \in 1 .. m
        BY <2>4, <3>2
      <4>2. CardsOf(t)[k] \in DOMAIN t /\ CardFits(u, CardsOf(t)[k], server.done[k])
        BY <1>8, <2>5, <4>1
      <4>3. CardAlike(pam.done[k], server.done[k])
        BY <1>6, <4>1 DEF CardsAlike, m
      <4>4. QED
        BY <1>7, <1>11, <2>3, <2>6, <3>2, <4>1, <4>2, <4>3
    <3>3. QED
      BY <3>1, <3>2
  <2>8. m + 1 > 0
    BY <2>4
  <2>9. CardsFiled(u, s) /\ CardsAlike(p, s)
    BY <2>3, <2>6, <2>7, <2>8 DEF CardsFiled, CardsAlike
  <2>10. QED
    BY <1>2, <1>7, <2>3, <2>9 DEF CardsInv
<1>17. QED
  BY <1>15, <1>16

LEMMA CardsStep ==
  ASSUME CardsInv, CardsNext
  PROVE  CardsInv'
<1>1. ASSUME NEW form \in {"short", "long", "noAid"}, NEW id \in CardIds, ReaderLine(form, id)
      PROVE  CardsInv'
  BY <1>1, ReaderLineRead
<1>2. CASE TextLine("x")
  BY <1>2, TextLineRead
<1>3. ASSUME NEW v \in {"plain", "one escape", "two escapes"}, UrlLine(v) PROVE CardsInv'
  BY <1>3, UrlLineRead
<1>4. ASSUME NEW slot \in 1 .. Slots, KeyAttrLine(slot, "1") PROVE CardsInv'
  BY <1>4, KeyAttrLineRead
<1>5. ASSUME NEW field \in Numbers, NEW vals \in Vals, NumbersLine(field, vals) PROVE CardsInv'
  BY <1>5, NumbersLineRead
<1>6. ASSUME NEW vals \in Vals, FprLineOfCard(vals) PROVE CardsInv'
  BY <1>6, FprLineOfCardRead
<1>7. ASSUME NEW vals \in Vals, CaFprLine(vals) PROVE CardsInv'
  BY <1>7, CaFprLineRead
<1>8. ASSUME NEW vals \in Vals, SigCountLine(vals[1], Tail(vals)) PROVE CardsInv'
  BY <1>8, SigCountLineRead
<1>9. CASE UnknownLine
  BY <1>9, UnknownLineRead
<1>10. QED
  BY <1>1, <1>2, <1>3, <1>4, <1>5, <1>6, <1>7, <1>8, <1>9 DEF CardsNext

-----------------------------------------------------------------------------
(* The cards: what is said of them. *)

LEMMA SaidOfCards ==
  /\ Accepted = CardsOf(text)
  /\ \A i, tag : LineOf(i, tag) = LastIn(text, i, tag)
<1>1. \A tags : LinesWith(tags) = Tagged(text, tags)
  BY DEF LinesWith, Tagged
<1>2. Accepted = CardsOf(text)
  BY <1>1 DEF Accepted, CardsOf, AcceptedIn, Begin
<1>3. \A i : CardLines(i) = UpTo(text, i, Begin)
  BY <1>1 DEF CardLines, UpTo, Begin
<1>4. \A i, tag : LinesWith({tag}) \cap CardLines(i) = Section(text, i, tag, Begin)
  BY <1>1, <1>3 DEF Section
<1>5. QED
  BY <1>2, <1>4 DEF LineOf, LastIn

\* A line that is there is one of the text's, with values for all slots.
LEMMA ValuesThere ==
  ASSUME CardsInv, NEW i \in DOMAIN text, NEW f \in SlotFields, IsSaid(text, i, f)
  PROVE  Said(text, i, f).vals \in Vals /\ DOMAIN Said(text, i, f).vals = 1 .. Slots
<1>1. text \in Seq(CardTexts) /\ [tag |-> "other"] \in CardTexts
  BY DEF CardsInv, CardTexts
<1>2. f \notin Begin
  BY DEF Begin, SlotFields, Numbers
<1>3. Said(text, i, f) \in CardTexts /\ Said(text, i, f).tag = f
  BY <1>1, <1>2, SaidNext
<1>4. Said(text, i, f).vals \in Vals
  BY <1>3, LinesOfCards
<1>5. QED
  BY <1>4, ValuesOfSlots

\* The server has filed every line of a list of cards.
LEMMA CardsAreFiled ==
  ASSUME format = "cards", CardsInv
  PROVE  ServerReadsCards
<1>1. /\ Accepted = CardsOf(text)
      /\ \A i, tag : LineOf(i, tag) = LastIn(text, i, tag)
  BY SaidOfCards
<1>2. server \in CardReaders /\ CardsFiled(text, server)
  BY DEF CardsInv
<1>3. server.done \in Seq(CardsRead) /\ DOMAIN server.done = 1 .. Len(server.done)
  BY <1>2 DEF CardReaders
<1>4. ASSUME NEW k \in DOMAIN server.done
      PROVE  LET c == server.done[k]  i == Accepted[k]
             IN  /\ c.id = text[i].id
                 /\ c.text = Given(i, "text", "undefined", Same)
                 /\ c.url = Given(i, "url", "undefined", Decoded)
                 /\ \A n \in DOMAIN c.slots :
                      /\ \A f \in Numbers :
                           c.slots[n][f] = SlotGiven(i, f, n, ServerSlot[f], ParseInt)
                      /\ c.slots[n].fpr = SlotGiven(i, "fpr", n, "undefined", Same)
                      /\ c.slots[n].cafpr = SlotGiven(i, "cafpr", n, "0", OrZero)
                      /\ c.slots[n].sigcount = SlotGiven(i, "sigcount", n + 1, "0", OrZero)
                 /\ LineOf(i, "maxpinlen") # 0 => DOMAIN c.slots = 1 .. Slots
  <2> DEFINE c == server.done[k]
             i == Accepted[k]
  <2>1. i \in DOMAIN text /\ CardFits(text, i, c)
    BY <1>1, <1>2, <1>3 DEF CardsFiled
  <2>2. c.slots \in SlotMaps
    <3>1. c \in CardsRead
      BY <1>3
    <3> HIDE DEF c
    <3>2. QED
      BY <3>1 DEF CardsRead
  <2>3. DOMAIN c.slots \subseteq 1 .. Slots /\ \A n \in DOMAIN c.slots : c.slots[n] \in SlotsRead
    BY <2>2, SlotMapTyped
  <2> HIDE DEF c, i
  <2>4. c.id = text[i].id /\ SlotsFit(text, i, c.slots)
    BY <2>1 DEF CardFits
  <2>5. c.text = Given(i, "text", "undefined", Same)
    BY <1>1, <2>1 DEF CardFits, Given, Same, IsSaid, Said
  <2>6. c.url = Given(i, "url", "undefined", Decoded)
    BY <1>1, <2>1 DEF CardFits, Given, IsSaid, Said
  <2>7. \A f \in SlotFields : IsSaid(text, i, f) => DOMAIN Said(text, i, f).vals = 1 .. Slots
    BY <2>1, ValuesThere
  <2>8. ASSUME NEW n \in DOMAIN c.slots
        PROVE  /\ \A f \in Numbers :
                    c.slots[n][f] = SlotGiven(i, f, n, ServerSlot[f], ParseInt)
               /\ c.slots[n].fpr = SlotGiven(i, "fpr", n, "undefined", Same)
               /\ c.slots[n].cafpr = SlotGiven(i, "cafpr", n, "0", OrZero)
               /\ c.slots[n].sigcount = SlotGiven(i, "sigcount", n + 1, "0", OrZero)
    <3>1. \A f \in SlotFields : c.slots[n][f] = SlotIn(text, i, f, n)
      BY <2>4 DEF SlotsFit
    <3>2. /\ Numbers \subseteq SlotFields /\ "fpr" \in SlotFields /\ "cafpr" \in SlotFields
          /\ "sigcount" \in SlotFields
      BY FieldsOfSlots
    <3>3. ASSUME NEW f \in Numbers PROVE c.slots[n][f] = SlotGiven(i, f, n, ServerSlot[f], ParseInt)
      <4>1. f # "sigcount" /\ f \in SlotFields
        BY FieldsOfSlots
      <4>2. QED
        BY <1>1, <2>7, <3>1, <4>1 DEF SlotIn, SlotGiven, Shift, Parsed, IsSaid, Said
    <3>4. c.slots[n].fpr = SlotGiven(i, "fpr", n, "undefined", Same)
      <4>1. "fpr" \notin Numbers /\ ServerSlot["fpr"] = "undefined"
        BY FieldsOfSlots, BlankSlots
      <4>2. QED
        BY <1>1, <2>7, <3>1, <3>2, <4>1 DEF SlotIn, SlotGiven, Shift, Parsed, IsSaid, Said, Same
    <3>5. c.slots[n].cafpr = SlotGiven(i, "cafpr", n, "0", OrZero)
      <4>1. "cafpr" \notin Numbers /\ ServerSlot["cafpr"] = "0"
        BY FieldsOfSlots, BlankSlots
      <4>2. QED
        BY <1>1, <2>7, <3>1, <3>2, <4>1 DEF SlotIn, SlotGiven, Shift, Parsed, IsSaid, Said
    <3>6. c.slots[n].sigcount = SlotGiven(i, "sigcount", n + 1, "0", OrZero)
      <4>1. "sigcount" \notin Numbers /\ ServerSlot["sigcount"] = "0"
        BY FieldsOfSlots, BlankSlots
      <4>2. QED
        BY <1>1, <2>7, <3>1, <3>2, <4>1 DEF SlotIn, SlotGiven, Shift, Parsed, IsSaid, Said
    <3>7. QED
      BY <3>3, <3>4, <3>5, <3>6
  <2>9. ASSUME LineOf(i, "maxpinlen") # 0 PROVE DOMAIN c.slots = 1 .. Slots
    <3>1. "maxpinlen" \in SlotFields /\ \A n : Shift("maxpinlen", n) = n
      BY DEF SlotFields, Numbers, Shift
    <3>2. IsSaid(text, i, "maxpinlen")
      BY <1>1, <2>9 DEF IsSaid
    <3>3. \A n \in 1 .. Slots : n \in DOMAIN c.slots
      BY <2>4, <3>1, <3>2 DEF SlotsFit
    <3>4. QED
      BY <2>3, <3>3
  <2>10. QED
    BY <2>4, <2>5, <2>6, <2>8, <2>9 DEF c, i
<1>5. QED
  BY <1>1, <1>2, <1>4 DEF ServerReadsCards, CardsFiled

\* Two polls with the same text differ in the numbers that are not there.
LEMMA CardsQuiet ==
  ASSUME format = "cards", CardsInv
  PROVE  CardsQuietUnlessEmpty
<1>1. /\ Accepted = CardsOf(text)
      /\ \A i, tag : LineOf(i, tag) = LastIn(text, i, tag)
  BY SaidOfCards
<1>2. server \in CardReaders /\ CardsFiled(text, server)
  BY DEF CardsInv
<1>3. /\ server.done \in Seq(CardsRead) /\ Len(server.done) = Len(Accepted)
      /\ DOMAIN server.done = 1 .. Len(server.done)
  BY <1>1, <1>2 DEF CardReaders, CardsFiled
<1>4. DOMAIN Accepted = 1 .. Len(server.done)
  <2> DEFINE S == AcceptedIn(text)
             q == Cardinality(S)
             g == [k \in 1 .. q |-> CHOOSE i \in S : Rank(S, i) = k]
  <2>1. Accepted = g
    BY <1>1 DEF CardsOf, InOrder
  <2>2. q \in Nat
    <3>1. text \in Seq(CardTexts) /\ S \in SUBSET DOMAIN text
      BY DEF CardsInv, AcceptedIn, Tagged
    <3> HIDE DEF S
    <3>2. QED
      BY <3>1, LinesOfText, FS_CardinalityType
  <2> HIDE DEF q, S
  <2>3. Len(g) = q /\ DOMAIN g = 1 .. q
    BY <2>2
  <2>4. QED
    BY <1>3, <2>1, <2>3
<1>5. ASSUME NEW k \in 1 .. Len(server.done)
      PROVE  ~CardEq(server.done[k], server.done[k])
               <=> \E f \in Numbers : \E n \in 1 .. Slots :
                     SlotGiven(Accepted[k], f, n, "0", Same) = ""
  <2> DEFINE c == server.done[k]
             i == Accepted[k]
  <2>1. i \in DOMAIN text /\ CardFits(text, i, c)
    BY <1>1, <1>2 DEF CardsFiled
  <2>2. c.slots \in SlotMaps
    <3>1. c \in CardsRead
      BY <1>3
    <3> HIDE DEF c
    <3>2. QED
      BY <3>1 DEF CardsRead
  <2>3. DOMAIN c.slots \subseteq 1 .. Slots
    BY <2>2, SlotMapTyped
  <2>4. CardEq(c, c) <=> \A n \in DOMAIN c.slots : \A f \in Numbers : c.slots[n][f] # "NaN"
    BY DEF CardEq, SlotEq
  <2> HIDE DEF c, i
  <2>5. SlotsFit(text, i, c.slots)
    BY <2>1 DEF CardFits
  <2>6. \A f \in SlotFields : IsSaid(text, i, f) =>
          Said(text, i, f).vals \in Vals /\ DOMAIN Said(text, i, f).vals = 1 .. Slots
    BY <2>1, ValuesThere
  <2>7. ASSUME NEW f \in Numbers, NEW n \in 1 .. Slots
        PROVE  /\ SlotIn(text, i, f, n) = "NaN" <=> SlotGiven(i, f, n, "0", Same) = ""
               /\ SlotGiven(i, f, n, "0", Same) = "" => n \in DOMAIN c.slots
    <3>1. f \in SlotFields /\ f # "sigcount"
      BY FieldsOfSlots
    <3>2. Shift(f, n) = n
      BY <3>1 DEF Shift
    <3>3. CASE ~IsSaid(text, i, f)
      <4>1. SlotIn(text, i, f, n) = ServerSlot[f] /\ ServerSlot[f] # "NaN"
        BY <3>3, BlankSlots DEF SlotIn
      <4>2. SlotGiven(i, f, n, "0", Same) = "0"
        BY <1>1, <3>3 DEF SlotGiven, IsSaid
      <4>3. QED
        BY <4>1, <4>2
    <3>4. CASE IsSaid(text, i, f)
      <4> DEFINE v == Said(text, i, f).vals[n]
      <4>1. SlotIn(text, i, f, n) = ParseInt(v)
        BY <3>2, <3>4 DEF SlotIn, Parsed
      <4>2. SlotGiven(i, f, n, "0", Same) = v
        BY <1>1, <2>6, <3>1, <3>4 DEF SlotGiven, IsSaid, Said, Same
      <4>3. v \in {"", "7"}
        BY <2>6, <3>1, <3>4, ValuesOfSlots
      <4>4. n \in DOMAIN c.slots
        BY <2>5, <3>1, <3>2, <3>4 DEF SlotsFit
      <4> HIDE DEF v
      <4>5. QED
        BY <4>1, <4>2, <4>3, <4>4, ValuesParsed
    <3>5. QED
      BY <3>3, <3>4
  <2>8. \A n \in DOMAIN c.slots : \A f \in Numbers : c.slots[n][f] = SlotIn(text, i, f, n)
    BY <2>5, FieldsOfSlots DEF SlotsFit
  <2>9. ~CardEq(c, c) <=> \E f \in Numbers : \E n \in 1 .. Slots : SlotGiven(i, f, n, "0", Same)
          = ""
    <3>1. ASSUME ~CardEq(c, c)
          PROVE  \E f \in Numbers : \E n \in 1 .. Slots : SlotGiven(i, f, n, "0", Same) = ""
      <4>1. PICK n \in DOMAIN c.slots, f \in Numbers : c.slots[n][f] = "NaN"
        BY <2>4, <3>1
      <4>2. n \in 1 .. Slots /\ SlotIn(text, i, f, n) = "NaN"
        BY <2>3, <2>8, <4>1
      <4>3. QED
        BY <2>7, <4>2
    <3>2. ASSUME NEW f \in Numbers, NEW n \in 1 .. Slots, SlotGiven(i, f, n, "0", Same) = ""
          PROVE  ~CardEq(c, c)
      <4>1. n \in DOMAIN c.slots /\ SlotIn(text, i, f, n) = "NaN"
        BY <2>7, <3>2
      <4>2. c.slots[n][f] = "NaN"
        BY <2>8, <4>1
      <4>3. QED
        BY <2>4, <4>1, <4>2
    <3>3. QED
      BY <3>1, <3>2
  <2>10. QED
    BY <2>9 DEF c, i
<1>6. CardsChanged(server.done, server.done)
        <=> \E k \in DOMAIN Accepted : \E f \in Numbers : \E n \in 1 .. Slots :
              SlotGiven(Accepted[k], f, n, "0", Same) = ""
  BY <1>3, <1>4, <1>5 DEF CardsChanged
<1>7. QED
  BY <1>6 DEF CardsQuietUnlessEmpty

\* The PAM module has found what the server has.
LEMMA CardsFoundAlike ==
  ASSUME format = "cards", CardsInv
  PROVE  PamFindsTheSameCards
<1>1. pam \in CardReaders /\ CardsAlike(pam, server)
  BY DEF CardsInv
<1>2. DOMAIN pam.done = 1 .. Len(server.done)
  BY <1>1 DEF CardReaders, CardsAlike
<1>3. ASSUME NEW k \in DOMAIN pam.done
      PROVE  LET p == pam.done[k]  s == server.done[k]
             IN  /\ p.id = s.id
                 /\ p.text = s.text \/ s.text = "undefined"
                 /\ p.url \in {"one escape", "two escapes"} \/ p.url = s.url \/ s.url = "undefined"
                 /\ \A n \in DOMAIN p.slots \cap DOMAIN s.slots :
                      /\ p.slots[n].attr = s.slots[n].attr
                      /\ p.slots[n].sigcount = s.slots[n].sigcount
                      /\ \A f \in Numbers \cup {"fpr"} :
                           p.slots[n][f] = s.slots[n][f]
                             \/ s.slots[n][f] \in {"NaN", "undefined"}
                 /\ \A n \in DOMAIN s.slots :
                      \/ n = 1 \/ s.slots[n].cafpr = "0"
                      \/ n - 1 \in DOMAIN p.slots /\ p.slots[n - 1].cafpr = s.slots[n].cafpr
  <2> DEFINE p == pam.done[k]
             s == server.done[k]
  <2>1. CardAlike(p, s)
    BY <1>1, <1>2 DEF CardsAlike
  <2> HIDE DEF p, s
  <2>2. SlotsAlike(p.slots, s.slots)
    BY <2>1 DEF CardAlike
  <2>3. \A n \in DOMAIN p.slots \cap DOMAIN s.slots :
          /\ p.slots[n].attr = s.slots[n].attr
          /\ p.slots[n].sigcount = s.slots[n].sigcount
          /\ \A f \in Numbers \cup {"fpr"} :
               p.slots[n][f] = s.slots[n][f] \/ s.slots[n][f] \in {"NaN", "undefined"}
    BY <2>2 DEF SlotsAlike, SlotAlike
  <2>4. \A n \in DOMAIN s.slots :
          \/ n = 1 \/ s.slots[n].cafpr = "0"
          \/ n - 1 \in DOMAIN p.slots /\ p.slots[n - 1].cafpr = s.slots[n].cafpr
    BY <2>2 DEF SlotsAlike
  <2>5. QED
    BY <2>1, <2>3, <2>4 DEF CardAlike, p, s
<1>4. QED
  BY <1>1, <1>3 DEF PamFindsTheSameCards, CardsAlike
-----------------------------------------------------------------------------
(* Either text. *)

ReadersInv ==
  /\ format \in {"keys", "cards"}
  /\ format = "keys" => KeysInv
  /\ format = "cards" => CardsInv

LEMMA ReadersStart ==
  ASSUME Init
  PROVE  ReadersInv
BY NoLinesFiled, NoCardsFiled DEF Init, ReadersInv

LEMMA ReadersStep ==
  ASSUME ReadersInv, [Next]_vars
  PROVE  ReadersInv'
<1>1. CASE format = "keys" /\ KeysNext
  <2>1. UNCHANGED format
    BY <1>1 DEF KeysNext, SecLine, SsbLine, UidLine, FprLine, GrpLine, OtherLine, Reads
  <2>2. KeysInv'
    BY <1>1, KeysStep DEF ReadersInv
  <2>3. QED
    BY <1>1, <2>1, <2>2 DEF ReadersInv
<1>2. CASE format = "cards" /\ CardsNext
  <2>1. UNCHANGED format
    BY <1>2 DEF CardsNext, ReaderLine, TextLine, UrlLine, KeyAttrLine, NumbersLine, FprLineOfCard,
                CaFprLine, SigCountLine, UnknownLine, Reads
  <2>2. CardsInv'
    BY <1>2, CardsStep DEF ReadersInv
  <2>3. QED
    BY <1>2, <2>1, <2>2 DEF ReadersInv
<1>3. CASE UNCHANGED vars
  <2>1. UNCHANGED <<format, text, server, pam>>
    BY <1>3 DEF vars
  <2>2. KeysInv => KeysInv'
    BY <2>1 DEF KeysInv
  <2>3. CardsInv => CardsInv'
    BY <2>1 DEF CardsInv
  <2>4. QED
    BY <2>1, <2>2, <2>3 DEF ReadersInv
<1>4. QED
  BY <1>1, <1>2, <1>3 DEF Next

LEMMA ReadersKeep == Spec => []ReadersInv
BY ReadersStart, ReadersStep, PTL DEF Spec

\* What gpg prints is filed by the server under the key, the card and the slot it was
\* printed for, whatever lines come in whatever number (ListSecretKeys.run and
\* Gpg2CardStatus.read).
THEOREM TextIsFiled == Spec => []ServerReadsText
<1>1. ReadersInv => ServerReadsText
  BY KeysAreFiled, CardsAreFiled DEF ReadersInv, ServerReadsText, ServerReadsKeys, ServerReadsCards
<1>2. QED
  BY <1>1, ReadersKeep, PTL

\* Two polls of gpg that print the same are the same to WssUpdate, but for keys that
\* never expire and numbers of a card that are not there (SecretKey.eq and
\* Gpg2CardStatus.eq).
THEOREM PollsAreQuiet == Spec => []QuietPolls
<1>1. ReadersInv => QuietPolls
  BY KeysQuiet, CardsQuiet DEF ReadersInv, QuietPolls, QuietUnlessEndless, CardsQuietUnlessEmpty
<1>2. QED
  BY <1>1, ReadersKeep, PTL

\* The PAM module's readers find in a text what the server's find in it, but for the
\* uids with a comment and the fingerprints of CAs (SecretKey and Gpg2CardStatus of
\* either program).
THEOREM PamAgrees == Spec => []PamFindsTheSame
<1>1. ReadersInv => PamFindsTheSame
  BY KeysAlike, CardsFoundAlike
     DEF ReadersInv, PamFindsTheSame, PamFindsTheSameKeys, PamFindsTheSameCards
<1>2. QED
  BY <1>1, ReadersKeep, PTL
=============================================================================
