------------------------------ MODULE ListProofs -----------------------------
(***************************************************************************)
(* Induction, in the form the provers can use: about sets of numbers, not  *)
(* about predicates.  What loops over lists compute follows from it.       *)
(***************************************************************************)
EXTENDS Lists, Integers, SequencesExt, FiniteSetTheorems, WellFoundedInduction, TLAPS

\* A set of numbers has a least one: 0..m is a minimal set of the 0..n.
LEMMA LeastNumber ==
  ASSUME NEW T, T \subseteq Nat, T # {}
  PROVE  \E m \in T : \A k \in T : m <= k
  <1>. DEFINE Upto == {0..n : n \in T}
              R == StrictSubsetOrdering(Nat)
  <1>1. IsWellFoundedOn(R, FiniteSubsetsOf(Nat))
    BY FS_StrictSubsetOrderingWellFounded
  <1>2. Upto \subseteq FiniteSubsetsOf(Nat)
    <2>1. ASSUME NEW n \in T PROVE IsFiniteSet(0..n) /\ 0..n \subseteq Nat
      <3>1. n \in Int  OBVIOUS
      <3>. QED  BY <3>1, FS_Interval
    <2>. QED  BY <2>1 DEF FiniteSubsetsOf
  <1>3. Upto # {}  OBVIOUS
  <1>4. \A x, y \in T : x < y => <<0..x, 0..y>> \in R
    BY DEF StrictSubsetOrdering
  <1>. HIDE DEF R, Upto
  <1>5. PICK least \in Upto : \A y \in Upto : ~(<<y, least>> \in R)
    BY <1>1, <1>2, <1>3, WFMin
  <1>6. PICK m \in T : least = 0..m
    BY <1>5 DEF Upto
  <1>7. ASSUME NEW k \in T PROVE ~(k < m)
    BY <1>4, <1>5, <1>6 DEF Upto
  <1>. QED  BY <1>7

\* Induction.
LEMMA AllNumbers ==
  ASSUME NEW T, 0 \in T, \A n \in Nat : n \in T => n + 1 \in T
  PROVE  Nat \subseteq T
  <1>. SUFFICES ASSUME Nat \ T # {} PROVE FALSE
    OBVIOUS
  <1>1. PICK m \in Nat \ T : \A k \in Nat \ T : m <= k
    <2>1. Nat \ T \subseteq Nat  OBVIOUS
    <2>. QED  BY <2>1, LeastNumber
  <1>2. m - 1 \in Nat  OBVIOUS
  <1>3. m - 1 \in T  BY <1>1, <1>2
  <1>. QED  BY <1>2, <1>3

\* A loop of N rounds has a state after each round.
IsRun(f, base, N, step) == f[0] = base /\ \A n \in 1..N : f[n] = step[f[n - 1]][n]

LEMMA Iteration ==
  \A S : \A base \in S : \A N \in Nat : \A step \in [S -> [1..N -> S]] :
    \E f \in [0..N -> S] : IsRun(f, base, N, step)
  <1>. SUFFICES ASSUME NEW S, NEW base \in S, NEW N \in Nat, NEW step \in [S -> [1..N -> S]]
               PROVE  \E f \in [0..N -> S] : IsRun(f, base, N, step)
    OBVIOUS
  <1>. DEFINE Upto(m) == \E f \in [0..m -> S] : f[0] = base /\ \A n \in 1..m : f[n] = step[f[n - 1]][n]
  <1>1. Upto(0)
    <2>. DEFINE f == [n \in 0..0 |-> base]
    <2>1. f \in [0..0 -> S] /\ f[0] = base  OBVIOUS
    <2>2. 1..0 = {}  OBVIOUS
    <2>. HIDE DEF f
    <2>. QED  BY <2>1, <2>2
  <1>2. ASSUME NEW m \in Nat, Upto(m), m + 1 <= N PROVE Upto(m + 1)
    <2>1. PICK f \in [0..m -> S] : f[0] = base /\ \A n \in 1..m : f[n] = step[f[n - 1]][n]
      BY <1>2
    <2>. DEFINE g == [n \in 0..(m + 1) |-> IF n = m + 1 THEN step[f[m]][m + 1] ELSE f[n]]
    <2>2. m \in 0..m /\ m + 1 \in 1..N  BY <1>2
    <2>3. step[f[m]][m + 1] \in S  BY <2>2
    <2>4. g \in [0..(m + 1) -> S]  BY <2>3
    <2>5. g[0] = base  BY <2>1
    <2>6. ASSUME NEW n \in 1..(m + 1) PROVE g[n] = step[g[n - 1]][n]
      <3>1. CASE n = m + 1
        <4>1. g[n] = step[f[m]][m + 1]  BY <3>1
        <4>2. g[n - 1] = f[m]  BY <3>1
        <4>. QED  BY <3>1, <4>1, <4>2
      <3>2. CASE n # m + 1
        <4>1. n \in 1..m /\ g[n] = f[n] /\ g[n - 1] = f[n - 1]  BY <3>2
        <4>. QED  BY <2>1, <4>1
      <3>. QED  BY <3>1, <3>2
    <2>. HIDE DEF g
    <2>. QED  BY <2>4, <2>5, <2>6
  <1>. HIDE DEF Upto
  <1>. DEFINE T == {m \in Nat : m <= N => Upto(m)}
  <1>3. 0 \in T  BY <1>1
  <1>4. ASSUME NEW m \in Nat, m \in T PROVE m + 1 \in T
    BY <1>2, <1>4
  <1>5. Nat \subseteq T
    <2>. HIDE DEF T
    <2>. QED  BY <1>3, <1>4, AllNumbers
  <1>6. Upto(N)  BY <1>5
  <1>. QED  BY <1>6 DEF Upto, IsRun

-----------------------------------------------------------------------------
(* Places in lists.                                                        *)

Places(S, N) == S \subseteq 1..N
Rank(S, i) == Cardinality({j \in S : j <= i})

LEMMA PlacesFinite ==
  ASSUME NEW N \in Nat, NEW S, Places(S, N)
  PROVE  IsFiniteSet(S) /\ Cardinality(S) \in Nat /\ Cardinality(S) <= N
  <1>1. IsFiniteSet(1..N) /\ Cardinality(1..N) = N  BY FS_Interval
  <1>. QED  BY <1>1, FS_Subset, FS_CardinalityType DEF Places

LEMMA RankIsNumber ==
  ASSUME NEW N \in Nat, NEW S, Places(S, N), NEW i
  PROVE  Rank(S, i) \in Nat /\ Rank(S, i) <= Cardinality(S)
  <1>1. {j \in S : j <= i} \subseteq S  OBVIOUS
  <1>2. IsFiniteSet(S)  BY PlacesFinite
  <1>. QED  BY <1>1, <1>2, FS_Subset, FS_CardinalityType DEF Rank

\* The rank grows from place to place.
LEMMA RankGrows ==
  ASSUME NEW N \in Nat, NEW S, Places(S, N), NEW i \in S, NEW k \in S, i < k
  PROVE  Rank(S, i) < Rank(S, k)
  <1>p. \A j \in S : j \in Int /\ 1 <= j /\ j <= N  BY DEF Places
  <1>. DEFINE A == {j \in S : j <= i}
              B == {j \in S : j <= k}
  <1>1. A \subseteq B /\ k \in B /\ k \notin A  BY <1>p
  <1>2. IsFiniteSet(B)  BY PlacesFinite, FS_Subset
  <1>. HIDE DEF A, B
  <1>3. Cardinality(A) <= Cardinality(B) /\ Cardinality(A) # Cardinality(B)
    BY <1>1, <1>2, FS_Subset
  <1>4. Cardinality(A) \in Nat /\ Cardinality(B) \in Nat
    BY <1>1, <1>2, FS_Subset, FS_CardinalityType
  <1>. QED  BY <1>3, <1>4 DEF A, B, Rank

\* Every number up to the size of the set is a rank.
LEMMA RankExists ==
  ASSUME NEW N \in Nat, NEW S, Places(S, N), NEW n \in 1..Cardinality(S)
  PROVE  \E i \in S : Rank(S, i) = n
  <1>p. \A j \in S : j \in Int /\ 1 <= j /\ j <= N  BY DEF Places
  <1>. DEFINE Below(m) == {j \in S : j <= m}
              Found(m) == \A k \in 1..Cardinality(Below(m)) : \E i \in Below(m) : Rank(S, i) = k
              T == {m \in Nat : Found(m)}
  <1>0. \A m : IsFiniteSet(Below(m)) /\ Cardinality(Below(m)) \in Nat
    BY PlacesFinite, FS_Subset, FS_CardinalityType
  <1>1. 0 \in T
    <2>1. Below(0) = {}  BY <1>p
    <2>2. Cardinality(Below(0)) = 0  BY <2>1, FS_EmptySet
    <2>. QED  BY <2>2
  <1>2. ASSUME NEW m \in Nat, m \in T PROVE m + 1 \in T
    <2>1. Found(m)  BY <1>2
    <2>2. CASE m + 1 \in S
      <3>1. Below(m + 1) = Below(m) \cup {m + 1} /\ m + 1 \notin Below(m)  BY <2>2, <1>p
      <3>2. Cardinality(Below(m + 1)) = Cardinality(Below(m)) + 1
        <4>. HIDE DEF Below
        <4>. QED  BY <1>0, <3>1, FS_AddElement
      <3>3. ASSUME NEW k \in 1..Cardinality(Below(m + 1)) PROVE \E i \in Below(m + 1) : Rank(S, i) = k
        <4>1. Rank(S, m + 1) = Cardinality(Below(m + 1))  BY DEF Rank
        <4>2. k \in 1..Cardinality(Below(m)) \/ k = Cardinality(Below(m + 1))
          <5>. HIDE DEF Below
          <5>. QED  BY <1>0, <3>2
        <4>. QED
          <5>. HIDE DEF Below
          <5>. QED  BY <2>1, <3>1, <4>1, <4>2
      <3>. QED  BY <3>3
    <2>3. CASE m + 1 \notin S
      <3>1. Below(m + 1) = Below(m)  BY <2>3, <1>p
      <3>. HIDE DEF Below
      <3>. QED  BY <2>1, <3>1
    <2>. QED  BY <2>2, <2>3
  <1>3. Nat \subseteq T
    <2>. HIDE DEF T
    <2>. QED  BY <1>1, <1>2, AllNumbers
  <1>4. Found(N)  BY <1>3
  <1>5. Below(N) = S  BY <1>p
  <1>. HIDE DEF Below
  <1>. QED  BY <1>4, <1>5

LEMMA NthPlace ==
  ASSUME NEW N \in Nat, NEW S, Places(S, N), NEW n \in 1..Cardinality(S)
  PROVE  NthOf(S, n) \in S /\ Rank(S, NthOf(S, n)) = n
  <1>1. NthOf(S, n) = CHOOSE i \in S : Rank(S, i) = n  BY DEF NthOf, Rank
  <1>2. \E i \in S : Rank(S, i) = n  BY RankExists
  <1>. QED  BY <1>1, <1>2

LEMMA NthIs ==
  ASSUME NEW N \in Nat, NEW S, Places(S, N), NEW i \in S
  PROVE  Rank(S, i) \in 1..Cardinality(S) /\ NthOf(S, Rank(S, i)) = i
  <1>p. \A j \in S : j \in Int /\ 1 <= j /\ j <= N  BY DEF Places
  <1>1. Rank(S, i) \in Nat /\ Rank(S, i) <= Cardinality(S) /\ Cardinality(S) \in Nat
    BY RankIsNumber, PlacesFinite
  <1>2. Rank(S, i) # 0
    <2>1. i \in {j \in S : j <= i}  BY <1>p
    <2>2. IsFiniteSet({j \in S : j <= i})  BY PlacesFinite, FS_Subset
    <2>. QED  BY <2>1, <2>2, FS_EmptySet DEF Rank
  <1>3. Rank(S, i) \in 1..Cardinality(S)  BY <1>1, <1>2
  <1>. DEFINE k == NthOf(S, Rank(S, i))
  <1>4. k \in S /\ Rank(S, k) = Rank(S, i)  BY <1>3, NthPlace
  <1>5. ~(i < k) /\ ~(k < i)
    <2>. HIDE DEF k
    <2>. QED  BY <1>1, <1>4, RankGrows
  <1>6. i = k
    <2>. HIDE DEF k
    <2>. QED  BY <1>4, <1>5, <1>p
  <1>. QED  BY <1>3, <1>6

LEMMA NthGrows ==
  ASSUME NEW N \in Nat, NEW S, Places(S, N), NEW n \in 1..Cardinality(S), NEW m \in 1..Cardinality(S), n < m
  PROVE  NthOf(S, n) < NthOf(S, m)
  <1>p. \A j \in S : j \in Int /\ 1 <= j /\ j <= N  BY DEF Places
  <1>. DEFINE i == NthOf(S, n)
              k == NthOf(S, m)
  <1>1. i \in S /\ k \in S /\ Rank(S, i) = n /\ Rank(S, k) = m  BY NthPlace
  <1>. HIDE DEF i, k
  <1>2. i # k  BY <1>1
  <1>3. ~(k < i)  BY <1>1, RankGrows
  <1>4. i < k  BY <1>1, <1>2, <1>3, <1>p
  <1>. QED  BY <1>4 DEF i, k

LEMMA GreatestPlace ==
  ASSUME NEW N \in Nat, NEW S, Places(S, N), S # {}
  PROVE  \E i \in S : \A j \in S : j <= i
  <1>1. IsFiniteSet(S) /\ Cardinality(S) \in Nat  BY PlacesFinite
  <1>2. Cardinality(S) \in 1..Cardinality(S)  BY <1>1, FS_EmptySet
  <1>3. PICK i \in S : Rank(S, i) = Cardinality(S)  BY <1>2, RankExists
  <1>. DEFINE below == {j \in S : j <= i}
  <1>4. below \in SUBSET S /\ Cardinality(below) = Cardinality(S)  BY <1>3 DEF Rank
  <1>5. below = S
    <2>. HIDE DEF below
    <2>. QED  BY <1>1, <1>4, FS_Subset
  <1>. QED  BY <1>5

LEMMA FiniteImage ==
  ASSUME NEW S, IsFiniteSet(S), NEW f
  PROVE  IsFiniteSet({f[i] : i \in S})
  <1>. DEFINE T == {f[i] : i \in S}
              g == [i \in S |-> f[i]]
  <1>1. g \in Surjection(S, T)  BY DEF Surjection
  <1>. HIDE DEF g, T
  <1>2. IsFiniteSet(T)  BY <1>1, FS_Surjection
  <1>. QED  BY <1>2 DEF T

LEMMA AList ==
  ASSUME NEW E, NEW n \in Nat, NEW f \in [1..n -> E]
  PROVE  f \in Seq(E) /\ Len(f) = n
  OBVIOUS

LEMMA ASublist ==
  ASSUME NEW E, NEW s \in Seq(E), NEW at, Places(at, Len(s))
  PROVE  /\ Sublist(s, at) \in Seq(E) /\ Len(Sublist(s, at)) = Cardinality(at) /\ Cardinality(at) \in Nat
         /\ \A n \in 1..Cardinality(at) : Sublist(s, at)[n] = s[NthOf(at, n)] /\ NthOf(at, n) \in at
  <1>1. Len(s) \in Nat /\ DOMAIN s = 1..Len(s) /\ \A i \in 1..Len(s) : s[i] \in E
    OBVIOUS
  <1>2. Cardinality(at) \in Nat  BY <1>1, PlacesFinite
  <1>3. \A n \in 1..Cardinality(at) : NthOf(at, n) \in at  BY <1>1, NthPlace
  <1>4. \A i \in at : i \in 1..Len(s)  BY DEF Places
  <1>5. Sublist(s, at) \in [1..Cardinality(at) -> E]  BY <1>1, <1>3, <1>4 DEF Sublist
  <1>. QED  BY <1>2, <1>3, <1>5 DEF Sublist

LEMMA Upto ==
  ASSUME NEW n \in Nat
  PROVE  IsFiniteSet(1..n) /\ Cardinality(1..n) = n
  BY FS_Interval

\* The places up to the n-th, when all of these are there.
LEMMA FullRank ==
  ASSUME NEW N \in Nat, NEW S, Places(S, N), NEW n \in Nat, n <= N, \A i \in 1..n : i \in S
  PROVE  Rank(S, n) = n
  <1>p. \A j \in S : j \in Int /\ 1 <= j /\ j <= N  BY DEF Places
  <1>1. \A j : j \in S /\ j <= n => j \in 1..n  BY <1>p
  <1>2. \A j : j \in 1..n => j \in S /\ j <= n  OBVIOUS
  <1>3. {j \in S : j <= n} = 1..n  BY <1>1, <1>2, Zenon
  <1>. QED  BY <1>3, Upto DEF Rank

\* A list is the part of it at all places.
LEMMA WholeList ==
  ASSUME NEW E, NEW s \in Seq(E)
  PROVE  Sublist(s, 1..Len(s)) = s
  <1>. DEFINE N == Len(s)
  <1>1. N \in Nat /\ s \in [1..N -> E]
    OBVIOUS
  <1>. HIDE DEF N
  <1>2. Places(1..N, N)  BY DEF Places
  <1>3. ASSUME NEW n \in 1..N PROVE NthOf(1..N, n) = n
    <2>1. n \in Nat /\ n <= N /\ \A i \in 1..n : i \in 1..N  BY <1>1
    <2>2. Rank(1..N, n) = n  BY <1>1, <1>2, <2>1, FullRank
    <2>. QED  BY <1>1, <1>2, <2>2, NthIs
  <1>4. Cardinality(1..N) = N  BY <1>1, Upto
  <1>5. Sublist(s, 1..N) = [n \in 1..N |-> s[n]]  BY <1>3, <1>4, Zenon DEF Sublist
  <1>6. s = [n \in 1..N |-> s[n]]  BY <1>1
  <1>. QED  BY <1>5, <1>6 DEF N

Inserted(t, p, e) == [i \in 1..(Len(t) + 1) |-> IF i < p THEN t[i] ELSE IF i = p THEN e ELSE t[i - 1]]

LEMMA AnInsertion ==
  ASSUME NEW E, NEW t \in Seq(E), NEW p \in 1..(Len(t) + 1), NEW e \in E
  PROVE  InsertAt(t, p, e) \in Seq(E) /\ InsertAt(t, p, e) = Inserted(t, p, e)
  <1>. DEFINE a == SubSeq(t, 1, p - 1)
              b == SubSeq(t, p, Len(t))
  <1>1. Len(t) \in Nat /\ t \in [1..Len(t) -> E]  OBVIOUS
  <1>2. a \in Seq(E) /\ Len(a) = p - 1 /\ \A i \in 1..(p - 1) : a[i] = t[i]  BY <1>1
  <1>3. b \in Seq(E) /\ Len(b) = Len(t) - p + 1 /\ \A i \in 1..(Len(t) - p + 1) : b[i] = t[p + i - 1]  BY <1>1
  <1>. HIDE DEF a, b
  <1>4. a \o <<e>> \in Seq(E) /\ Len(a \o <<e>>) = p
        /\ \A i \in 1..p : (a \o <<e>>)[i] = IF i < p THEN t[i] ELSE e
    BY <1>2
  <1>5. InsertAt(t, p, e) = (a \o <<e>>) \o b  BY DEF InsertAt, a, b
  <1>. DEFINE c == a \o <<e>>
  <1>. HIDE DEF c
  <1>6. c \in Seq(E) /\ Len(c) = p  BY <1>4 DEF c
  <1>. DEFINE x == c \o b
              f == [i \in 1..(Len(t) + 1) |-> IF i < p THEN t[i] ELSE IF i = p THEN e ELSE t[i - 1]]
  <1>7. x \in Seq(E) /\ Len(x) = Len(c) + Len(b)
    <2>1. b \in Seq(E) /\ c \in Seq(E)  BY <1>3, <1>6
    <2>. QED  BY <2>1
  <1>8. x \in [1..(Len(t) + 1) -> E]
    <2>1. Len(x) = Len(t) + 1  BY <1>1, <1>3, <1>6, <1>7
    <2>. HIDE DEF x
    <2>. QED  BY <1>7, <2>1
  <1>9. ASSUME NEW i \in 1..(Len(t) + 1) PROVE x[i] = f[i]
    <2>1. CASE i <= p
      <3>1. x[i] = c[i]  BY <1>3, <1>6, <2>1
      <3>2. c[i] = IF i < p THEN t[i] ELSE e  BY <1>4, <2>1 DEF c
      <3>. QED  BY <2>1, <3>1, <3>2
    <2>2. CASE i > p
      <3>1. x[i] = b[i - p]  BY <1>1, <1>3, <1>6, <2>2
      <3>2. i - p \in 1..(Len(t) - p + 1) /\ p + (i - p) - 1 = i - 1  BY <1>1, <2>2
      <3>3. b[i - p] = t[i - 1]  BY <1>3, <3>2
      <3>. QED  BY <2>2, <3>1, <3>3
    <2>3. i <= p \/ i > p  BY <1>1
    <2>. HIDE DEF x, f
    <2>. QED  BY <2>1, <2>2, <2>3
  <1>10. x = f
    <2>1. DOMAIN f = 1..(Len(t) + 1) /\ f = [i \in DOMAIN f |-> f[i]]  OBVIOUS
    <2>. HIDE DEF x, f
    <2>. QED  BY <1>8, <1>9, <2>1
  <1>. QED  BY <1>5, <1>7, <1>10 DEF c, Inserted

\* Adding a place before which all places are taken is an insertion there.
LEMMA OneMorePlace ==
  ASSUME NEW E, NEW s \in Seq(E), NEW at, Places(at, Len(s)),
         NEW p \in 1..Len(s), p \notin at, \A i \in 1..(p - 1) : i \in at
  PROVE  /\ p \in 1..(Cardinality(at) + 1)
         /\ Sublist(s, at \cup {p}) = InsertAt(Sublist(s, at), p, s[p])
  <1>. DEFINE N == Len(s)
              C == Cardinality(at)
              more == at \cup {p}
  <1>1. N \in Nat /\ s \in [1..N -> E] /\ p \in Nat  OBVIOUS
  <1>2. Places(more, N)  BY DEF Places
  <1>3. C \in Nat /\ Cardinality(more) = C + 1
    BY <1>1, PlacesFinite, FS_AddElement
  <1>p. \A j \in more : j \in Int /\ 1 <= j /\ j <= N  BY <1>1, <1>2 DEF Places
  <1>4. ASSUME NEW n \in 1..(p - 1) PROVE Rank(at, n) = n /\ Rank(more, n) = n /\ n \in at
    <2>1. n \in Nat /\ n <= N /\ n \in at /\ \A i \in 1..n : i \in 1..(p - 1)  BY <1>1
    <2>2. \A i \in 1..n : i \in at /\ i \in more  BY <2>1
    <2>. HIDE DEF more
    <2>. QED  BY <1>1, <1>2, <2>1, <2>2, FullRank
  <1>5. Rank(more, p) = p
    <2>1. \A i \in 1..p : i \in 1..(p - 1) \/ i = p  BY <1>1
    <2>2. \A i \in 1..p : i \in more  BY <2>1
    <2>. HIDE DEF more
    <2>. QED  BY <1>1, <1>2, <2>2, FullRank
  <1>6. p \in 1..(C + 1)
    <2>1. p \in more  OBVIOUS
    <2>. HIDE DEF more
    <2>. QED  BY <1>1, <1>2, <1>3, <1>5, <2>1, NthIs
  <1>7. ASSUME NEW n \in 1..(p - 1) PROVE NthOf(more, n) = n /\ NthOf(at, n) = n
    <2>1. n \in at /\ n \in more  BY <1>4
    <2>. HIDE DEF more
    <2>. QED  BY <1>1, <1>2, <1>4, <2>1, NthIs
  <1>8. NthOf(more, p) = p
    <2>1. p \in more  OBVIOUS
    <2>. HIDE DEF more
    <2>. QED  BY <1>1, <1>2, <1>5, <2>1, NthIs
  <1>9. ASSUME NEW n \in (p + 1)..(C + 1) PROVE NthOf(more, n) = NthOf(at, n - 1)
    <2>. DEFINE i == NthOf(at, n - 1)
    <2>1. n - 1 \in 1..C  BY <1>1, <1>3
    <2>2. i \in at /\ Rank(at, i) = n - 1  BY <1>1, <2>1, NthPlace
    <2>. HIDE DEF i
    <2>3. i > p
      <3>1. i \notin 1..(p - 1)  BY <1>4, <2>2
      <3>. QED  BY <1>p, <2>2, <3>1
    <2>4. {j \in more : j <= i} = {j \in at : j <= i} \cup {p} /\ p \notin {j \in at : j <= i}
      <3>1. p <= i  BY <1>p, <2>2, <2>3
      <3>2. \A j \in more : j <= i <=> (j \in at /\ j <= i) \/ j = p  BY <3>1, Zenon
      <3>. QED  BY <3>2, Zenon
    <2>5. IsFiniteSet({j \in at : j <= i})  BY <1>1, PlacesFinite, FS_Subset
    <2>6. Rank(more, i) = n
      <3>1. Rank(more, i) = Rank(at, i) + 1
        <4>. HIDE DEF more
        <4>. QED  BY <2>4, <2>5, FS_AddElement DEF Rank
      <3>. QED  BY <2>2, <3>1
    <2>7. i \in more  BY <2>2
    <2>8. NthOf(more, n) = i
      <3>. HIDE DEF more
      <3>. QED  BY <1>1, <1>2, <2>6, <2>7, NthIs
    <2>. QED  BY <2>8 DEF i
  <1>. DEFINE t == Sublist(s, at)
  <1>10. t \in Seq(E) /\ Len(t) = C /\ \A n \in 1..C : t[n] = s[NthOf(at, n)]
    BY ASublist
  <1>11. Sublist(s, more) = [n \in 1..(C + 1) |-> s[NthOf(more, n)]]
    BY <1>3 DEF Sublist
  <1>12. InsertAt(t, p, s[p]) = [i \in 1..(C + 1) |-> IF i < p THEN t[i] ELSE IF i = p THEN s[p] ELSE t[i - 1]]
    <2>1. s[p] \in E  BY <1>1
    <2>. HIDE DEF t, C
    <2>2. InsertAt(t, p, s[p]) = Inserted(t, p, s[p])  BY <1>6, <1>10, <2>1, AnInsertion
    <2>. QED  BY <1>10, <2>2 DEF Inserted
  <1>. HIDE DEF t, more, C
  <1>13. ASSUME NEW n \in 1..(C + 1)
         PROVE  s[NthOf(more, n)] = IF n < p THEN t[n] ELSE IF n = p THEN s[p] ELSE t[n - 1]
    <2>1. CASE n < p  BY <1>1, <1>3, <1>6, <1>7, <1>10, <2>1
    <2>2. CASE n = p  BY <1>8, <2>2
    <2>3. CASE n > p
      <3>1. n \in (p + 1)..(C + 1) /\ n - 1 \in 1..C  BY <1>1, <1>3, <2>3
      <3>. QED  BY <1>9, <1>10, <2>3, <3>1
    <2>. QED  BY <1>1, <1>3, <2>1, <2>2, <2>3
  <1>14. Sublist(s, more) = InsertAt(t, p, s[p])  BY <1>11, <1>12, <1>13
  <1>. QED  BY <1>6, <1>14 DEF t, more, C

-----------------------------------------------------------------------------
(* Lists compared and counted.                                             *)

LEMMA SameSize ==
  ASSUME NEW S, IsFiniteSet(S), NEW T, NEW f \in [S -> T],
         \A i, j \in S : f[i] = f[j] => i = j, \A k \in T : \E i \in S : f[i] = k
  PROVE  IsFiniteSet(T) /\ Cardinality(T) = Cardinality(S) /\ Cardinality(T) \in Nat
  <1>1. f \in Bijection(S, T)  BY DEF Bijection, Injection, Surjection, IsInjective
  <1>2. ExistsBijection(S, T)  BY <1>1 DEF ExistsBijection
  <1>3. IsFiniteSet(T) /\ Cardinality(T) = Cardinality(S)  BY <1>2, FS_Bijection
  <1>. QED  BY <1>3, FS_CardinalityType

\* The parts of two lists are the same when their places correspond in order.
LEMMA SameParts ==
  ASSUME NEW E, NEW s \in Seq(E), NEW t \in Seq(E), NEW p, Places(p, Len(s)), NEW q, Places(q, Len(t)),
         NEW f \in [p -> q], \A k \in q : \E i \in p : f[i] = k,
         \A i, j \in p : i < j => f[i] < f[j], \A i \in p : s[i] = t[f[i]]
  PROVE  Sublist(s, p) = Sublist(t, q)
  <1>1. Len(s) \in Nat /\ Len(t) \in Nat  OBVIOUS
  <1>p. /\ \A i \in p : i \in Int /\ i \in 1..Len(s)
        /\ \A i \in q : i \in Int /\ i \in 1..Len(t)
    BY DEF Places
  <1>2. \A i, j \in p : i <= j <=> f[i] <= f[j]  BY <1>p
  <1>3. \A i, j \in p : f[i] = f[j] => i = j  BY <1>p
  <1>4. IsFiniteSet(p) /\ Cardinality(p) \in Nat  BY <1>1, PlacesFinite
  <1>5. Cardinality(q) = Cardinality(p)  BY <1>3, <1>4, SameSize
  <1>6. ASSUME NEW i \in p PROVE Rank(q, f[i]) = Rank(p, i)
    <2>. DEFINE S == {j \in p : j <= i}
                T == {j \in q : j <= f[i]}
                g == [j \in S |-> f[j]]
    <2>1. IsFiniteSet(S)  BY <1>4, FS_Subset
    <2>2. g \in [S -> T]  BY <1>2
    <2>3. \A j, k \in S : g[j] = g[k] => j = k  BY <1>3
    <2>4. \A k \in T : \E j \in S : g[j] = k
      <3>1. SUFFICES ASSUME NEW k \in T PROVE \E j \in S : g[j] = k  OBVIOUS
      <3>2. PICK j \in p : f[j] = k  OBVIOUS
      <3>3. j \in S  BY <1>2, <3>2
      <3>. QED  BY <3>2, <3>3
    <2>. HIDE DEF S, T, g
    <2>5. Cardinality(T) = Cardinality(S)  BY <2>1, <2>2, <2>3, <2>4, SameSize
    <2>. QED  BY <2>5 DEF Rank, S, T
  <1>7. ASSUME NEW n \in 1..Cardinality(p) PROVE s[NthOf(p, n)] = t[NthOf(q, n)]
    <2>1. NthOf(p, n) \in p /\ Rank(p, NthOf(p, n)) = n  BY <1>1, NthPlace
    <2>. DEFINE i == NthOf(p, n)
    <2>. HIDE DEF i
    <2>2. i \in p /\ Rank(q, f[i]) = n /\ f[i] \in q  BY <1>6, <2>1 DEF i
    <2>3. NthOf(q, n) = f[i]  BY <1>1, <2>2, NthIs
    <2>. QED  BY <2>2, <2>3 DEF i
  <1>. QED  BY <1>5, <1>7 DEF Sublist

\* Counting up without gaps to the last number is counting.
CountsUp(f, N, M) ==
  /\ f \in [1..N -> 1..M] /\ \A i, j \in 1..N : i < j => f[i] < f[j]
  /\ \A k \in 1..M : \E i \in 1..N : f[i] = k

LEMMA CountingUp ==
  ASSUME NEW N \in Nat, NEW M \in Nat, NEW f, CountsUp(f, N, M)
  PROVE  N = M /\ \A i \in 1..N : f[i] = i
  <1>0. /\ f \in [1..N -> 1..M] /\ \A i, j \in 1..N : i < j => f[i] < f[j]
        /\ \A k \in 1..M : \E i \in 1..N : f[i] = k
    BY DEF CountsUp
  <1>1. \A i, j \in 1..N : (i <= j <=> f[i] <= f[j]) /\ (f[i] = f[j] => i = j)  BY <1>0
  <1>. DEFINE S == 1..N
              T == 1..M
  <1>2. IsFiniteSet(S)  BY FS_Interval
  <1>3. f \in [S -> T] /\ (\A i, j \in S : f[i] = f[j] => i = j) /\ (\A k \in T : \E i \in S : f[i] = k)
    BY <1>0, <1>1
  <1>4. N = M
    <2>. HIDE DEF S, T
    <2>1. Cardinality(T) = Cardinality(S)  BY <1>2, <1>3, SameSize
    <2>. QED  BY <2>1, Upto DEF S, T
  <1>5. ASSUME NEW i \in 1..N PROVE f[i] = i
    <2>. DEFINE g == [j \in 1..i |-> f[j]]
                k == f[i]
    <2>1. i \in Nat /\ k \in Nat /\ k <= M /\ 1..i \subseteq 1..N  BY <1>0
    <2>2. \A j \in 1..i : j <= i /\ f[j] \in 1..M /\ f[j] <= k  BY <1>0, <1>1, <2>1
    <2>3. g \in [1..i -> 1..k]  BY <2>1, <2>2
    <2>4. \A j, l \in 1..i : g[j] = g[l] => j = l  BY <1>1, <2>1
    <2>5. \A l \in 1..k : \E j \in 1..i : g[j] = l
      <3>1. SUFFICES ASSUME NEW l \in 1..k PROVE \E j \in 1..i : g[j] = l  OBVIOUS
      <3>2. l \in 1..M  BY <2>1
      <3>3. PICK j \in 1..N : f[j] = l  BY <1>0, <3>2
      <3>4. j \in 1..i  BY <1>1, <3>3
      <3>. QED  BY <3>3, <3>4
    <2>6. IsFiniteSet(1..i)  BY FS_Interval
    <2>. HIDE DEF g, k
    <2>7. Cardinality(1..k) = Cardinality(1..i)  BY <2>3, <2>4, <2>5, <2>6, SameSize
    <2>8. k = i  BY <2>1, <2>7, Upto
    <2>. QED  BY <2>8 DEF k
  <1>. QED  BY <1>4, <1>5

-----------------------------------------------------------------------------
(* How often a list has an element.                                        *)

LEMMA TimesIsNumber ==
  ASSUME NEW E, NEW s \in Seq(E), NEW e
  PROVE  IsFiniteSet({i \in DOMAIN s : s[i] = e}) /\ Times(s, e) \in Nat
  <1>1. Len(s) \in Nat /\ Places({i \in DOMAIN s : s[i] = e}, Len(s))  BY DEF Places
  <1>. QED  BY <1>1, PlacesFinite DEF Times

LEMMA Joined ==
  ASSUME NEW E, NEW s \in Seq(E), NEW t \in Seq(E)
  PROVE  /\ s \o t \in Seq(E) /\ Len(s \o t) = Len(s) + Len(t)
         /\ \A i \in 1..Len(s) : (s \o t)[i] = s[i]
         /\ \A i \in 1..Len(t) : (s \o t)[Len(s) + i] = t[i]
  OBVIOUS

LEMMA TimesJoined ==
  ASSUME NEW E, NEW s \in Seq(E), NEW t \in Seq(E), NEW e
  PROVE  Times(s \o t, e) = Times(s, e) + Times(t, e)
  <1>. DEFINE x == s \o t
              M == Len(s)
              S == {i \in DOMAIN s : s[i] = e}
              T == {i \in DOMAIN t : t[i] = e}
              U == {M + i : i \in T}
              X == {i \in DOMAIN x : x[i] = e}
              g == [i \in T |-> M + i]
  <1>1. M \in Nat /\ DOMAIN s = 1..M /\ Len(t) \in Nat /\ DOMAIN t = 1..Len(t)  OBVIOUS
  <1>2. /\ x \in Seq(E) /\ Len(x) = M + Len(t)
        /\ \A i \in 1..M : x[i] = s[i]
        /\ \A i \in 1..Len(t) : x[M + i] = t[i]
    BY Joined
  <1>3. IsFiniteSet(S) /\ IsFiniteSet(T)  BY TimesIsNumber
  <1>4. IsFiniteSet(U) /\ Cardinality(U) = Cardinality(T)
    <2>1. g \in [T -> U]  OBVIOUS
    <2>2. \A i, j \in T : g[i] = g[j] => i = j  BY <1>1
    <2>3. \A k \in U : \E i \in T : g[i] = k  OBVIOUS
    <2>. HIDE DEF g, T, U
    <2>. QED  BY <1>3, <2>1, <2>2, <2>3, SameSize
  <1>5. DOMAIN x = 1..(M + Len(t))
    <2>. HIDE DEF x
    <2>. QED  BY <1>2
  <1>6. X = S \cup U
    <2>. HIDE DEF x, M
    <2>1. ASSUME NEW i \in X PROVE i \in S \cup U
      <3>1. CASE i \in 1..M  BY <1>1, <1>2, <3>1
      <3>2. CASE i \notin 1..M
        <4>1. i - M \in 1..Len(t) /\ i = M + (i - M)  BY <1>1, <1>5, <3>2
        <4>2. t[i - M] = e  BY <1>2, <4>1
        <4>. QED  BY <1>1, <4>1, <4>2
      <3>. QED  BY <3>1, <3>2
    <2>2. S \subseteq X  BY <1>1, <1>2, <1>5
    <2>3. ASSUME NEW i \in T PROVE M + i \in X  BY <1>1, <1>2, <1>5
    <2>. QED  BY <2>1, <2>2, <2>3
  <1>7. S \cap U = {}  BY <1>1
  <1>. HIDE DEF S, U, X, T
  <1>8. Cardinality(S \cap U) = 0  BY <1>7, FS_EmptySet
  <1>0. Cardinality(S) \in Nat /\ Cardinality(T) \in Nat  BY <1>3, FS_CardinalityType
  <1>9. Cardinality(X) = Cardinality(S) + Cardinality(T)
    <2>1. Cardinality(S \cup U) = Cardinality(S) + Cardinality(U) - Cardinality(S \cap U)
      BY <1>3, <1>4, FS_Union
    <2>. QED  BY <2>1, <1>0, <1>4, <1>6, <1>8
  <1>. QED  BY <1>9 DEF Times, X, S, T

LEMMA TimesPicked ==
  ASSUME NEW E, NEW s \in Seq(E), NEW at, at \subseteq DOMAIN s, NEW e
  PROVE  Times(Sublist(s, at), e) = Cardinality({i \in at : s[i] = e})
  <1>. DEFINE x == Sublist(s, at)
              S == {n \in DOMAIN x : x[n] = e}
              T == {i \in at : s[i] = e}
              g == [n \in S |-> NthOf(at, n)]
  <1>1. Len(s) \in Nat /\ Places(at, Len(s))  BY DEF Places
  <1>2. x \in Seq(E) /\ Len(x) = Cardinality(at) /\ \A n \in 1..Cardinality(at) : x[n] = s[NthOf(at, n)]
    BY <1>1, ASublist
  <1>3. DOMAIN x = 1..Cardinality(at)  BY DEF Sublist
  <1>. HIDE DEF x
  <1>4. \A n \in S : NthOf(at, n) \in at /\ Rank(at, NthOf(at, n)) = n  BY <1>1, <1>3, NthPlace
  <1>5. g \in [S -> T]  BY <1>2, <1>3, <1>4
  <1>6. \A n, m \in S : g[n] = g[m] => n = m  BY <1>4
  <1>7. \A i \in T : \E n \in S : g[n] = i
    <2>1. SUFFICES ASSUME NEW i \in T PROVE \E n \in S : g[n] = i  OBVIOUS
    <2>2. Rank(at, i) \in 1..Cardinality(at) /\ NthOf(at, Rank(at, i)) = i  BY <1>1, NthIs
    <2>3. Rank(at, i) \in S  BY <1>2, <1>3, <2>2
    <2>. QED  BY <2>2, <2>3
  <1>8. IsFiniteSet(S)  BY <1>2, TimesIsNumber
  <1>. HIDE DEF S, T, g
  <1>9. Cardinality(T) = Cardinality(S)  BY <1>5, <1>6, <1>7, <1>8, SameSize
  <1>. QED  BY <1>9 DEF Times, S, T, x

-----------------------------------------------------------------------------
(* Lists that are merged: of "theirs" the places "at" are left, where all  *)
(* but those in "stay" have an edited element, and "rest" are the edits    *)
(* that found no place.                                                    *)

LEMMA Parted ==
  ASSUME NEW S, IsFiniteSet(S), NEW T, IsFiniteSet(T), S \cap T = {}
  PROVE  /\ IsFiniteSet(S \cup T) /\ Cardinality(S \cup T) = Cardinality(S) + Cardinality(T)
         /\ Cardinality(S) \in Nat /\ Cardinality(T) \in Nat
  <1>1. Cardinality(S) \in Nat /\ Cardinality(T) \in Nat  BY FS_CardinalityType
  <1>2. Cardinality(S \cup T) = Cardinality(S) + Cardinality(T) - Cardinality(S \cap T)  BY FS_Union
  <1>3. Cardinality(S \cap T) = 0  BY FS_EmptySet
  <1>. QED  BY <1>1, <1>2, <1>3, FS_Union

MergedPlaces(theirs, f, at, stay, edits, rest, w) ==
  /\ DOMAIN f = DOMAIN theirs /\ at \subseteq DOMAIN theirs /\ stay \subseteq at /\ rest \subseteq DOMAIN edits
  /\ w \in [at \ stay -> DOMAIN edits \ rest]
  /\ \A i, j \in at \ stay : w[i] = w[j] => i = j
  /\ \A k \in DOMAIN edits \ rest : \E i \in at \ stay : w[i] = k
  /\ \A i \in stay : f[i] = theirs[i]
  /\ \A i \in at \ stay : f[i] = edits[w[i]]

LEMMA MergedTimes ==
  ASSUME NEW E, NEW theirs \in Seq(E), NEW f \in Seq(E), NEW at, NEW stay, NEW edits \in Seq(E), NEW rest, NEW w,
         MergedPlaces(theirs, f, at, stay, edits, rest, w), NEW e
  PROVE  Times(Sublist(f, at), e) + Times(Sublist(edits, rest), e) = Times(Sublist(theirs, stay), e) + Times(edits, e)
  <1>. DEFINE S == {i \in stay : theirs[i] = e}
              W == {i \in at \ stay : f[i] = e}
              R == {k \in rest : edits[k] = e}
              Q == {k \in DOMAIN edits \ rest : edits[k] = e}
              g == [i \in W |-> w[i]]
  <1>. USE DEF MergedPlaces
  <1>1. {i \in at : f[i] = e} = S \cup W /\ S \cap W = {}  OBVIOUS
  <1>2. {k \in DOMAIN edits : edits[k] = e} = R \cup Q /\ R \cap Q = {}  OBVIOUS
  <1>3. IsFiniteSet(DOMAIN theirs) /\ IsFiniteSet(DOMAIN edits)
    <2>1. DOMAIN theirs = 1..Len(theirs) /\ Len(theirs) \in Nat  OBVIOUS
    <2>2. DOMAIN edits = 1..Len(edits) /\ Len(edits) \in Nat  OBVIOUS
    <2>. QED  BY <2>1, <2>2, Upto
  <1>4. S \subseteq DOMAIN theirs /\ W \subseteq DOMAIN theirs /\ R \subseteq DOMAIN edits /\ Q \subseteq DOMAIN edits
    OBVIOUS
  <1>5. IsFiniteSet(S) /\ IsFiniteSet(W) /\ IsFiniteSet(R) /\ IsFiniteSet(Q)
    <2>. HIDE DEF S, W, R, Q
    <2>. QED  BY <1>3, <1>4, FS_Subset
  <1>6. Cardinality(Q) = Cardinality(W)
    <2>1. g \in [W -> Q]  OBVIOUS
    <2>2. \A i, j \in W : g[i] = g[j] => i = j  OBVIOUS
    <2>3. ASSUME NEW k \in Q PROVE \E i \in W : g[i] = k
      <3>1. PICK i \in at \ stay : w[i] = k  OBVIOUS
      <3>2. i \in W  BY <3>1
      <3>. QED  BY <3>1, <3>2
    <2>. HIDE DEF W, Q, g
    <2>. QED  BY <1>5, <2>1, <2>2, <2>3, SameSize
  <1>7. /\ Times(Sublist(f, at), e) = Cardinality(S \cup W)
        /\ Times(Sublist(theirs, stay), e) = Cardinality(S)
        /\ Times(Sublist(edits, rest), e) = Cardinality(R)
        /\ Times(edits, e) = Cardinality(R \cup Q)
    <2>1. at \subseteq DOMAIN f /\ stay \subseteq DOMAIN theirs /\ rest \subseteq DOMAIN edits  OBVIOUS
    <2>2. Times(Sublist(f, at), e) = Cardinality(S \cup W)  BY <1>1, <2>1, TimesPicked
    <2>3. Times(Sublist(theirs, stay), e) = Cardinality(S)  BY <2>1, TimesPicked
    <2>4. Times(Sublist(edits, rest), e) = Cardinality(R)  BY <2>1, TimesPicked
    <2>5. Times(edits, e) = Cardinality(R \cup Q)  BY <1>2 DEF Times
    <2>. QED  BY <2>2, <2>3, <2>4, <2>5
  <1>. HIDE DEF S, W, R, Q
  <1>8. Cardinality(S \cup W) = Cardinality(S) + Cardinality(W) /\ Cardinality(S) \in Nat /\ Cardinality(W) \in Nat
    BY <1>1, <1>5, Parted
  <1>9. Cardinality(R \cup Q) = Cardinality(R) + Cardinality(Q) /\ Cardinality(R) \in Nat
    BY <1>2, <1>5, Parted
  <1>. QED  BY <1>6, <1>7, <1>8, <1>9

MergedLists(E, theirs, f, at, stay, edits, rest, w) ==
  /\ theirs \in Seq(E) /\ f \in Seq(E) /\ edits \in Seq(E)
  /\ MergedPlaces(theirs, f, at, stay, edits, rest, w)
NoneIn(s, O) == \A k \in DOMAIN s : s[k] \notin O

LEMMA MergedAmong ==
  ASSUME NEW E, NEW theirs, NEW f, NEW at, NEW stay, NEW edits, NEW rest, NEW w,
         MergedLists(E, theirs, f, at, stay, edits, rest, w), NEW t \in Seq(E),
         NEW O, NoneIn(edits, O), NoneIn(t, O)
  PROVE  Among(Sublist(f, at) \o t, O) = Among(Sublist(theirs, stay), O)
  <1>. USE DEF MergedLists, NoneIn
  <1>. DEFINE x == Sublist(theirs, stay)
              k == Sublist(f, at)
              y == k \o t
              p == {n \in DOMAIN x : x[n] \in O}
              q == {n \in DOMAIN y : y[n] \in O}
              g == [n \in p |-> Rank(at, NthOf(stay, n))]
  <1>1. /\ Len(theirs) \in Nat /\ Len(f) \in Nat
        /\ Places(stay, Len(theirs)) /\ Places(at, Len(f)) /\ Places(at, Len(theirs)) /\ stay \subseteq at
    BY DEF MergedPlaces, Places
  <1>2. /\ x \in Seq(E) /\ DOMAIN x = 1..Cardinality(stay) /\ Len(x) = Cardinality(stay) /\ Len(x) \in Nat
        /\ \A n \in DOMAIN x : x[n] = theirs[NthOf(stay, n)] /\ NthOf(stay, n) \in stay /\ Rank(stay, NthOf(stay, n)) = n
    BY <1>1, ASublist, NthPlace DEF Sublist
  <1>3. /\ k \in Seq(E) /\ DOMAIN k = 1..Cardinality(at) /\ Len(k) = Cardinality(at) /\ Len(k) \in Nat
        /\ \A n \in DOMAIN k : k[n] = f[NthOf(at, n)] /\ NthOf(at, n) \in at /\ Rank(at, NthOf(at, n)) = n
    BY <1>1, ASublist, NthPlace DEF Sublist
  <1>. HIDE DEF x, k
  <1>4. /\ y \in Seq(E) /\ Len(y) = Len(k) + Len(t) /\ Len(t) \in Nat /\ DOMAIN t = 1..Len(t)
        /\ \A n \in 1..Len(k) : y[n] = k[n]
        /\ \A n \in 1..Len(t) : y[Len(k) + n] = t[n]
    <2>1. k \in Seq(E)  BY <1>3
    <2>2. /\ y \in Seq(E) /\ Len(y) = Len(k) + Len(t)
          /\ \A n \in 1..Len(k) : y[n] = k[n]
          /\ \A n \in 1..Len(t) : y[Len(k) + n] = t[n]
      BY <2>1, Joined
    <2>3. Len(t) \in Nat /\ DOMAIN t = 1..Len(t)  OBVIOUS
    <2>. QED  BY <2>2, <2>3
  <1>5. DOMAIN y = 1..(Len(k) + Len(t))
    <2>. HIDE DEF y
    <2>. QED  BY <1>4
  <1>. HIDE DEF y
  <1>6. ASSUME NEW n \in p
        PROVE  g[n] \in q /\ NthOf(at, g[n]) = NthOf(stay, n) /\ x[n] = y[g[n]] /\ NthOf(stay, n) \in stay
    <2>. DEFINE i == NthOf(stay, n)
    <2>1. i \in stay /\ i \in at /\ x[n] = theirs[i] /\ x[n] \in O /\ f[i] = theirs[i]
      BY <1>1, <1>2 DEF MergedPlaces
    <2>. HIDE DEF i
    <2>2. Rank(at, i) \in 1..Cardinality(at) /\ NthOf(at, Rank(at, i)) = i  BY <1>1, <2>1, NthIs
    <2>3. y[Rank(at, i)] = f[i]  BY <1>3, <1>4, <2>2
    <2>4. Rank(at, i) \in DOMAIN y  BY <1>3, <1>4, <1>5, <2>2
    <2>. QED  BY <2>1, <2>2, <2>3, <2>4 DEF i
  <1>7. g \in [p -> q] /\ \A n \in p : x[n] = y[g[n]]  BY <1>6
  <1>8. ASSUME NEW n \in q PROVE \E m \in p : g[m] = n
    <2>1. n \in 1..Len(k)
      <3>1. SUFFICES ASSUME n \notin 1..Len(k) PROVE FALSE  OBVIOUS
      <3>2. n - Len(k) \in 1..Len(t) /\ n = Len(k) + (n - Len(k))  BY <1>3, <1>4, <1>5, <3>1
      <3>. QED  BY <1>4, <3>2
    <2>. DEFINE i == NthOf(at, n)
    <2>2. y[n] = f[i] /\ i \in at /\ Rank(at, i) = n /\ f[i] \in O  BY <1>3, <1>4, <2>1
    <2>. HIDE DEF i
    <2>3. i \in stay  BY <2>2 DEF MergedPlaces
    <2>4. Rank(stay, i) \in DOMAIN x /\ NthOf(stay, Rank(stay, i)) = i  BY <1>1, <1>2, <2>3, NthIs
    <2>5. Rank(stay, i) \in p  BY <1>2, <2>2, <2>3, <2>4 DEF MergedPlaces
    <2>. QED  BY <2>2, <2>4, <2>5
  <1>9. ASSUME NEW m \in p, NEW n \in p, m < n PROVE g[m] < g[n]
    <2>1. m \in 1..Cardinality(stay) /\ n \in 1..Cardinality(stay)  BY <1>2
    <2>2. NthOf(stay, m) < NthOf(stay, n)  BY <1>1, <1>9, <2>1, NthGrows
    <2>3. NthOf(stay, m) \in at /\ NthOf(stay, n) \in at  BY <1>1, <1>6
    <2>4. Rank(at, NthOf(stay, m)) < Rank(at, NthOf(stay, n))  BY <1>1, <2>2, <2>3, RankGrows
    <2>. QED  BY <2>4
  <1>10. Places(p, Len(x)) /\ Places(q, Len(y))
    <2>1. DOMAIN x = 1..Len(x) /\ DOMAIN y = 1..Len(y)  BY <1>2, <1>4
    <2>. QED  BY <2>1 DEF Places
  <1>. HIDE DEF p, q, g
  <1>11. Sublist(x, p) = Sublist(y, q)
    <2>1. x \in Seq(E) /\ y \in Seq(E)  BY <1>2, <1>4
    <2>2. \A n \in q : \E m \in p : g[m] = n  BY <1>8
    <2>3. \A m, n \in p : m < n => g[m] < g[n]  BY <1>9
    <2>. QED  BY <2>1, <2>2, <2>3, <1>7, <1>10, SameParts
  <1>. QED  BY <1>11 DEF Among, p, q, x, y, k

-----------------------------------------------------------------------------
(* The elements of a list that are in a set.                               *)

LEMMA AmongPicked ==
  ASSUME NEW E, NEW s \in Seq(E), NEW at, at \subseteq DOMAIN s, NEW S
  PROVE  Among(Sublist(s, at), S) = Sublist(s, {i \in at : s[i] \in S})
  <1>. DEFINE x == Sublist(s, at)
              p == {n \in DOMAIN x : x[n] \in S}
              q == {i \in at : s[i] \in S}
              f == [n \in p |-> NthOf(at, n)]
  <1>1. Len(s) \in Nat /\ Places(at, Len(s)) /\ Places(q, Len(s))  BY DEF Places
  <1>2. /\ x \in Seq(E) /\ DOMAIN x = 1..Cardinality(at) /\ Len(x) = Cardinality(at) /\ Len(x) \in Nat
        /\ \A n \in DOMAIN x : x[n] = s[NthOf(at, n)] /\ NthOf(at, n) \in at
    BY <1>1, ASublist DEF Sublist
  <1>. HIDE DEF x
  <1>3. Places(p, Len(x))  BY <1>2 DEF Places
  <1>4. \A n \in p : f[n] \in q /\ x[n] = s[f[n]]  BY <1>2
  <1>5. ASSUME NEW i \in q PROVE \E n \in p : f[n] = i
    <2>1. Rank(at, i) \in 1..Cardinality(at) /\ NthOf(at, Rank(at, i)) = i  BY <1>1, NthIs
    <2>2. Rank(at, i) \in p  BY <1>2, <2>1
    <2>. QED  BY <2>1, <2>2
  <1>6. ASSUME NEW n \in p, NEW m \in p, n < m PROVE f[n] < f[m]
    BY <1>1, <1>2, <1>6, NthGrows
  <1>7. f \in [p -> q]  BY <1>4
  <1>. HIDE DEF p, q, f
  <1>8. Sublist(x, p) = Sublist(s, q)
    <2>1. x \in Seq(E) /\ s \in Seq(E) /\ Places(p, Len(x)) /\ Places(q, Len(s))  BY <1>1, <1>2, <1>3
    <2>2. \A i \in q : \E n \in p : f[n] = i  BY <1>5
    <2>3. \A n, m \in p : n < m => f[n] < f[m]  BY <1>6
    <2>4. \A n \in p : x[n] = s[f[n]]  BY <1>4
    <2>. QED  BY ONLY <2>1, <2>2, <2>3, <2>4, <1>7, SameParts
  <1>. QED  BY <1>8 DEF Among, p, q, x

LEMMA AmongJoined ==
  ASSUME NEW E, NEW s \in Seq(E), NEW t \in Seq(E), NEW S, \A i \in DOMAIN t : t[i] \notin S
  PROVE  Among(s \o t, S) = Among(s, S)
  <1>. DEFINE all == 1..Len(s)
              none == [i \in {} |-> 0]
  <1>1. Len(s) \in Nat /\ DOMAIN s = all  OBVIOUS
  <1>2. Sublist(s, all) = s  BY WholeList
  <1>3. <<>> \in Seq(E) /\ DOMAIN <<>> = {}  OBVIOUS
  <1>4. MergedPlaces(s, s, all, all, <<>>, {}, none)  BY <1>1, <1>3 DEF MergedPlaces
  <1>. HIDE DEF all, none
  <1>5. Among(Sublist(s, all) \o t, S) = Among(Sublist(s, all), S)
    <2>1. \A k \in DOMAIN <<>> : <<>>[k] \notin S  BY <1>3
    <2>. DEFINE edits == <<>>
    <2>2. MergedLists(E, s, s, all, all, edits, {}, none) /\ NoneIn(edits, S) /\ NoneIn(t, S)
      BY <1>3, <1>4, <2>1 DEF MergedLists, NoneIn
    <2>. HIDE DEF edits
    <2>. QED  BY <2>2, MergedAmong
  <1>. QED  BY <1>2, <1>5

LEMMA AmongInserted ==
  ASSUME NEW E, NEW t \in Seq(E), NEW p \in 1..(Len(t) + 1), NEW e \in E, NEW S, e \notin S
  PROVE  Among(Inserted(t, p, e), S) = Among(t, S)
  <1>. DEFINE N == Len(t)
              x == Inserted(t, p, e)
              a == {i \in DOMAIN t : t[i] \in S}
              b == {i \in DOMAIN x : x[i] \in S}
              f == [i \in a |-> IF i < p THEN i ELSE i + 1]
  <1>1. N \in Nat /\ DOMAIN t = 1..N /\ p \in Nat /\ \A i \in 1..N : t[i] \in E  OBVIOUS
  <1>2. DOMAIN x = 1..(N + 1)  BY DEF Inserted
  <1>3. \A i \in 1..(N + 1) : x[i] = IF i < p THEN t[i] ELSE IF i = p THEN e ELSE t[i - 1]
    BY DEF Inserted
  <1>4. x = [i \in 1..(N + 1) |-> x[i]]  BY DEF Inserted
  <1>. HIDE DEF x
  <1>5. \A i \in 1..(N + 1) : x[i] \in E
    <2>1. SUFFICES ASSUME NEW i \in 1..(N + 1) PROVE x[i] \in E  OBVIOUS
    <2>2. i < p => i \in 1..N  BY <1>1
    <2>3. i > p => i - 1 \in 1..N  BY <1>1
    <2>4. i < p \/ i = p \/ i > p  BY <1>1
    <2>. QED  BY <1>1, <1>3, <2>2, <2>3, <2>4
  <1>6. x \in Seq(E) /\ Len(x) = N + 1
    <2>1. x \in [1..(N + 1) -> E]  BY <1>4, <1>5
    <2>2. N + 1 \in Nat  BY <1>1
    <2>. HIDE DEF N
    <2>. QED  BY <2>1, <2>2, AList
  <1>. HIDE DEF N
  <1>7. Places(a, Len(t)) /\ Places(b, Len(x))  BY <1>1, <1>2, <1>6 DEF Places, N
  <1>8. \A i \in a : f[i] \in b /\ t[i] = x[f[i]]
    <2>1. SUFFICES ASSUME NEW i \in a PROVE f[i] \in b /\ t[i] = x[f[i]]  OBVIOUS
    <2>2. i \in 1..N /\ i \in Nat  BY <1>1
    <2>3. CASE i < p
      <3>1. f[i] = i /\ i \in 1..(N + 1)  BY <1>1, <2>2, <2>3
      <3>. QED  BY <1>2, <1>3, <2>3, <3>1
    <2>4. CASE ~(i < p)
      <3>1. f[i] = i + 1 /\ i + 1 \in 1..(N + 1) /\ ~(i + 1 < p) /\ i + 1 # p /\ (i + 1) - 1 = i
        BY <1>1, <2>2, <2>4
      <3>. QED  BY <1>2, <1>3, <3>1
    <2>. QED  BY <2>3, <2>4
  <1>9. ASSUME NEW k \in b PROVE \E i \in a : f[i] = k
    <2>1. k \in 1..(N + 1) /\ k \in Nat /\ x[k] \in S  BY <1>1, <1>2
    <2>2. CASE k < p
      <3>1. k \in 1..N /\ x[k] = t[k]  BY <1>1, <1>3, <2>1, <2>2
      <3>. QED  BY <1>1, <2>1, <2>2, <3>1
    <2>3. CASE k > p
      <3>1. k - 1 \in 1..N /\ ~(k - 1 < p) /\ (k - 1) + 1 = k /\ ~(k < p) /\ k # p  BY <1>1, <2>1, <2>3
      <3>2. x[k] = t[k - 1]  BY <1>3, <2>1, <3>1
      <3>. QED  BY <1>1, <2>1, <3>1, <3>2
    <2>4. k # p  BY <1>1, <1>3, <2>1
    <2>. QED  BY <1>1, <2>1, <2>2, <2>3, <2>4
  <1>10. ASSUME NEW i \in a, NEW j \in a, i < j PROVE f[i] < f[j]
    <2>1. i \in Nat /\ j \in Nat  BY <1>1
    <2>. QED  BY <1>1, <1>10, <2>1
  <1>11. f \in [a -> b]  BY <1>8
  <1>. HIDE DEF a, b, f
  <1>12. Sublist(t, a) = Sublist(x, b)  BY <1>6, <1>7, <1>8, <1>9, <1>10, <1>11, SameParts
  <1>. QED  BY <1>12 DEF Among, a, b, x
=============================================================================
