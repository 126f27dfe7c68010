---------------------------- MODULE PatcherProofs ----------------------------
(***************************************************************************)
(* The patch of a policy, for documents of any size.  The tables of lcs    *)
(* hold longest common subsequences; the operations of each section apply  *)
(* one after the other and make of it what was asked for, whatever was     *)
(* done to the other sections, so the whole plan does.  The invariant is   *)
(* that what is left of the plan leads to such a document.                 *)
(***************************************************************************)
EXTENDS Patcher, ListProofs

-----------------------------------------------------------------------------
(* The tables of lcs: a cell depends on those below and beside it.         *)

Grid(m, n) == (1..m + 1) \X (1..n + 1)
Outside(m, n, c) == c[1] > m \/ c[2] > n
Left(m, n, c) == (m + 1 - c[1]) + (n + 1 - c[2])
CellOf(f, m, n, base, step, c) ==
  IF Outside(m, n, c) THEN base ELSE step[c][f[Both(c)]][f[Below(c)]][f[Beside(c)]]

LEMMA CellsAre ==
  ASSUME NEW m \in Nat, NEW n \in Nat, NEW c \in Grid(m, n)
  PROVE  /\ c = <<c[1], c[2]>> /\ c[1] \in 1..(m + 1) /\ c[2] \in 1..(n + 1)
         /\ Left(m, n, c) \in Nat /\ Left(m, n, c) <= m + n
         /\ Left(m, n, c) = 0 => Outside(m, n, c)
         /\ ~Outside(m, n, c) =>
              /\ Both(c) \in Grid(m, n) /\ Below(c) \in Grid(m, n) /\ Beside(c) \in Grid(m, n)
              /\ Left(m, n, Both(c)) < Left(m, n, c)
              /\ Left(m, n, Below(c)) < Left(m, n, c)
              /\ Left(m, n, Beside(c)) < Left(m, n, c)
  <1>1. c = <<c[1], c[2]>> /\ c[1] \in 1..(m + 1) /\ c[2] \in 1..(n + 1)  BY DEF Grid
  <1>. QED  BY <1>1 DEF Grid, Left, Outside, Both, Below, Beside

Steps(m, n, S) == [Grid(m, n) -> [S -> [S -> [S -> S]]]]
IsTable(f, m, n, base, step) == \A c \in Grid(m, n) : f[c] = CellOf(f, m, n, base, step, c)
HasTable(m, n, S, base, step) == \E f \in [Grid(m, n) -> S] : IsTable(f, m, n, base, step)

\* Such a table exists.
LEMMA GridRun ==
  ASSUME NEW m \in Nat, NEW n \in Nat, NEW S, NEW base \in S,
         NEW step \in Steps(m, n, S)
  PROVE  HasTable(m, n, S, base, step)
  <1>. DEFINE G == Grid(m, n)
              L(c) == Left(m, n, c)
              Filled(r) == \E f \in [G -> S] : \A c \in G : L(c) <= r => f[c] = CellOf(f, m, n, base, step, c)
              T == {r \in Nat : Filled(r)}
  <1>1. 0 \in T
    <2>. DEFINE f == [c \in G |-> base]
    <2>1. ASSUME NEW c \in G, L(c) <= 0 PROVE f[c] = CellOf(f, m, n, base, step, c)
      <3>1. Outside(m, n, c)  BY <2>1, CellsAre
      <3>. QED  BY <3>1 DEF CellOf
    <2>2. f \in [G -> S]  OBVIOUS
    <2>. HIDE DEF f, G, L
    <2>. QED  BY <2>1, <2>2
  <1>2. ASSUME NEW r \in Nat, r \in T PROVE r + 1 \in T
    <2>1. PICK f \in [G -> S] : \A c \in G : L(c) <= r => f[c] = CellOf(f, m, n, base, step, c)
      BY <1>2
    <2>. DEFINE g == [c \in G |-> IF L(c) <= r THEN f[c] ELSE CellOf(f, m, n, base, step, c)]
    <2>2. ASSUME NEW c \in G PROVE CellOf(f, m, n, base, step, c) \in S
      <3>1. CASE Outside(m, n, c)  BY <3>1 DEF CellOf
      <3>2. CASE ~Outside(m, n, c)
        <4>1. Both(c) \in G /\ Below(c) \in G /\ Beside(c) \in G  BY <3>2, CellsAre
        <4>. HIDE DEF G
        <4>2. f[Both(c)] \in S /\ f[Below(c)] \in S /\ f[Beside(c)] \in S  BY <4>1
        <4>3. step[c] \in [S -> [S -> [S -> S]]]  BY DEF G, Steps
        <4>. QED  BY <3>2, <4>2, <4>3 DEF CellOf
      <3>. QED  BY <3>1, <3>2
    <2>3. g \in [G -> S]
      <3>. HIDE DEF G, L
      <3>. QED  BY <2>2
    <2>4. ASSUME NEW c \in G, L(c) <= r + 1 PROVE g[c] = CellOf(g, m, n, base, step, c)
      <3>1. CASE Outside(m, n, c)
        <4>1. CellOf(f, m, n, base, step, c) = base /\ CellOf(g, m, n, base, step, c) = base  BY <3>1 DEF CellOf
        <4>. QED  BY <2>1, <4>1
      <3>2. CASE ~Outside(m, n, c)
        <4>1. /\ Both(c) \in G /\ Below(c) \in G /\ Beside(c) \in G
              /\ L(Both(c)) < L(c) /\ L(Below(c)) < L(c) /\ L(Beside(c)) < L(c)
              /\ L(Both(c)) \in Nat /\ L(Below(c)) \in Nat /\ L(Beside(c)) \in Nat /\ L(c) \in Nat
          BY <3>2, CellsAre
        <4>. HIDE DEF G, L
        <4>2. g[Both(c)] = f[Both(c)] /\ g[Below(c)] = f[Below(c)] /\ g[Beside(c)] = f[Beside(c)]
          BY <2>4, <4>1
        <4>. HIDE DEF g
        <4>3. CellOf(g, m, n, base, step, c) = CellOf(f, m, n, base, step, c)  BY <3>2, <4>2 DEF CellOf
        <4>4. g[c] = IF L(c) <= r THEN f[c] ELSE CellOf(f, m, n, base, step, c)  BY <2>4 DEF g
        <4>. QED  BY <2>1, <2>4, <4>3, <4>4
      <3>. QED  BY <3>1, <3>2
    <2>. HIDE DEF g, G, L
    <2>. QED  BY <2>3, <2>4
  <1>3. Nat \subseteq T
    <2>. HIDE DEF T
    <2>. QED  BY <1>1, <1>2, AllNumbers
  <1>4. m + n \in T
    <2>. HIDE DEF T
    <2>. QED  BY <1>3
  <1>5. PICK f \in [G -> S] : \A c \in G : L(c) <= m + n => f[c] = CellOf(f, m, n, base, step, c)
    BY <1>4
  <1>. QED  BY <1>5, CellsAre DEF HasTable, IsTable

LongerOf(x, y) == IF x >= y THEN x ELSE y

LengthsFor(dp, a, b) ==
  \A c \in Grid(Len(a), Len(b)) :
    dp[c] = IF Outside(Len(a), Len(b), c) THEN 0
            ELSE IF a[c[1]] = b[c[2]] THEN dp[Both(c)] + 1 ELSE LongerOf(dp[Below(c)], dp[Beside(c)])

PairsFor(kept, dp, a, b) ==
  \A c \in Grid(Len(a), Len(b)) :
    kept[c] = IF Outside(Len(a), Len(b), c) THEN {}
              ELSE IF a[c[1]] = b[c[2]] THEN {c} \cup kept[Both(c)]
              ELSE IF dp[Below(c)] >= dp[Beside(c)] THEN kept[Below(c)] ELSE kept[Beside(c)]

LEMMA LengthsAre ==
  ASSUME NEW a, Len(a) \in Nat, NEW b, Len(b) \in Nat
  PROVE  LengthsFor(Lengths(a, b), a, b)
  <1>. DEFINE m == Len(a)
              n == Len(b)
              step == [c \in Grid(m, n) |-> [x \in Nat |-> [y \in Nat |-> [z \in Nat |->
                         IF a[c[1]] = b[c[2]] THEN x + 1 ELSE LongerOf(y, z)]]]]
              Table(dp) == dp = [c \in Cells(a, b) |->
                                  IF AtEnd(a, b, c) THEN 0
                                  ELSE IF a[c[1]] = b[c[2]] THEN dp[Both(c)] + 1
                                  ELSE IF dp[Below(c)] >= dp[Beside(c)] THEN dp[Below(c)] ELSE dp[Beside(c)]]
  <1>1. Cells(a, b) = Grid(m, n) /\ \A c : AtEnd(a, b, c) <=> Outside(m, n, c)
    BY DEF Cells, Grid, AtEnd, Outside
  <1>2. step \in Steps(m, n, Nat)
    <2>1. \A x, y, z \in Nat : x + 1 \in Nat /\ LongerOf(y, z) \in Nat  BY DEF LongerOf
    <2>. QED  BY <2>1 DEF Steps
  <1>3. \A c \in Grid(m, n) : \A x, y, z \in Nat :
          step[c][x][y][z] = IF a[c[1]] = b[c[2]] THEN x + 1 ELSE LongerOf(y, z)
    OBVIOUS
  <1>. HIDE DEF m, n, step
  <1>4. m \in Nat /\ n \in Nat  BY DEF m, n
  <1>5. PICK f \in [Grid(m, n) -> Nat] : \A c \in Grid(m, n) : f[c] = CellOf(f, m, n, 0, step, c)
    <2>1. 0 \in Nat  OBVIOUS
    <2>2. HasTable(m, n, Nat, 0, step)  BY ONLY <1>2, <1>4, <2>1, GridRun
    <2>. QED  BY <2>2 DEF HasTable, IsTable
  <1>6. ASSUME NEW c \in Grid(m, n)
        PROVE  f[c] = IF AtEnd(a, b, c) THEN 0
                      ELSE IF a[c[1]] = b[c[2]] THEN f[Both(c)] + 1
                      ELSE IF f[Below(c)] >= f[Beside(c)] THEN f[Below(c)] ELSE f[Beside(c)]
    <2>1. CASE Outside(m, n, c)  BY <1>1, <1>5, <2>1 DEF CellOf
    <2>2. CASE ~Outside(m, n, c)
      <3>1. Both(c) \in Grid(m, n) /\ Below(c) \in Grid(m, n) /\ Beside(c) \in Grid(m, n)
        BY <1>4, <2>2, CellsAre
      <3>2. f[Both(c)] \in Nat /\ f[Below(c)] \in Nat /\ f[Beside(c)] \in Nat  BY <3>1
      <3>3. f[c] = step[c][f[Both(c)]][f[Below(c)]][f[Beside(c)]]  BY <1>5, <2>2 DEF CellOf
      <3>4. f[c] = IF a[c[1]] = b[c[2]] THEN f[Both(c)] + 1 ELSE LongerOf(f[Below(c)], f[Beside(c)])
        BY <1>3, <3>2, <3>3
      <3>. QED  BY <1>1, <2>2, <3>4 DEF LongerOf
    <2>. QED  BY <2>1, <2>2
  <1>7. Table(f)  BY <1>1, <1>6
  <1>8. Lengths(a, b) = CHOOSE dp : Table(dp)  BY Zenon DEF Lengths
  <1>9. Table(Lengths(a, b))
    <2>. HIDE DEF Table
    <2>. QED  BY <1>7, <1>8
  <1>. DEFINE dp == Lengths(a, b)
  <1>10. \A c \in Cells(a, b) : dp[c] = IF AtEnd(a, b, c) THEN 0
                                ELSE IF a[c[1]] = b[c[2]] THEN dp[Both(c)] + 1
                                ELSE IF dp[Below(c)] >= dp[Beside(c)] THEN dp[Below(c)] ELSE dp[Beside(c)]
    <2>. HIDE DEF dp
    <2>1. Table(dp)  BY <1>9 DEF dp
    <2>. QED  BY <2>1
  <1>. HIDE DEF dp, Table
  <1>. QED  BY <1>1, <1>10 DEF LengthsFor, LongerOf, m, n, dp

LEMMA PairsAre ==
  ASSUME NEW a, Len(a) \in Nat, NEW b, Len(b) \in Nat
  PROVE  \E kept : PairsFor(kept, Lengths(a, b), a, b) /\ Lcs(a, b) = kept[<<1, 1>>]
  <1>. DEFINE m == Len(a)
              n == Len(b)
              dp == Lengths(a, b)
              S == SUBSET Grid(m, n)
              step == [c \in Grid(m, n) |-> [x \in S |-> [y \in S |-> [z \in S |->
                         IF a[c[1]] = b[c[2]] THEN {c} \cup x ELSE IF dp[Below(c)] >= dp[Beside(c)] THEN y ELSE z]]]]
              Table(kept) == kept = [c \in Cells(a, b) |->
                                  IF AtEnd(a, b, c) THEN {}
                                  ELSE IF a[c[1]] = b[c[2]] THEN {c} \cup kept[Both(c)]
                                  ELSE IF dp[Below(c)] >= dp[Beside(c)] THEN kept[Below(c)] ELSE kept[Beside(c)]]
  <1>1. Cells(a, b) = Grid(m, n) /\ \A c : AtEnd(a, b, c) <=> Outside(m, n, c)
    BY DEF Cells, Grid, AtEnd, Outside
  <1>2. {} \in S  OBVIOUS
  <1>3. step \in Steps(m, n, S)  BY DEF Steps
  <1>4. \A c \in Grid(m, n) : \A x, y, z \in S :
          step[c][x][y][z] = IF a[c[1]] = b[c[2]] THEN {c} \cup x
                             ELSE IF dp[Below(c)] >= dp[Beside(c)] THEN y ELSE z
    OBVIOUS
  <1>. HIDE DEF m, n, S, step, dp
  <1>5. m \in Nat /\ n \in Nat  BY DEF m, n
  <1>6. PICK f \in [Grid(m, n) -> S] : \A c \in Grid(m, n) : f[c] = CellOf(f, m, n, {}, step, c)
    <2>1. HasTable(m, n, S, {}, step)  BY ONLY <1>2, <1>3, <1>5, GridRun
    <2>. QED  BY <2>1 DEF HasTable, IsTable
  <1>7. ASSUME NEW c \in Grid(m, n)
        PROVE  f[c] = IF AtEnd(a, b, c) THEN {}
                      ELSE IF a[c[1]] = b[c[2]] THEN {c} \cup f[Both(c)]
                      ELSE IF dp[Below(c)] >= dp[Beside(c)] THEN f[Below(c)] ELSE f[Beside(c)]
    <2>1. CASE Outside(m, n, c)  BY <1>1, <1>6, <2>1 DEF CellOf
    <2>2. CASE ~Outside(m, n, c)
      <3>1. Both(c) \in Grid(m, n) /\ Below(c) \in Grid(m, n) /\ Beside(c) \in Grid(m, n)
        BY <1>5, <2>2, CellsAre
      <3>2. f[Both(c)] \in S /\ f[Below(c)] \in S /\ f[Beside(c)] \in S  BY <3>1
      <3>3. f[c] = step[c][f[Both(c)]][f[Below(c)]][f[Beside(c)]]  BY <1>6, <2>2 DEF CellOf
      <3>4. f[c] = IF a[c[1]] = b[c[2]] THEN {c} \cup f[Both(c)]
                   ELSE IF dp[Below(c)] >= dp[Beside(c)] THEN f[Below(c)] ELSE f[Beside(c)]
        <4>1. step[c][f[Both(c)]][f[Below(c)]][f[Beside(c)]]
              = IF a[c[1]] = b[c[2]] THEN {c} \cup f[Both(c)]
                ELSE IF dp[Below(c)] >= dp[Beside(c)] THEN f[Below(c)] ELSE f[Beside(c)]
          BY ONLY <1>4, <3>2, c \in Grid(m, n), Zenon
        <4>. QED  BY ONLY <3>3, <4>1
      <3>. QED  BY <1>1, <2>2, <3>4
    <2>. QED  BY <2>1, <2>2
  <1>8. Table(f)  BY <1>1, <1>7
  <1>. DEFINE kept == CHOOSE kept : Table(kept)
  <1>9. Lcs(a, b) = kept[<<1, 1>>]  BY Zenon DEF Lcs, dp
  <1>10. Table(kept)
    <2>. HIDE DEF Table
    <2>. QED  BY <1>8
  <1>. HIDE DEF kept
  <1>11. \A c \in Cells(a, b) : kept[c] = IF AtEnd(a, b, c) THEN {}
                                  ELSE IF a[c[1]] = b[c[2]] THEN {c} \cup kept[Both(c)]
                                  ELSE IF dp[Below(c)] >= dp[Beside(c)] THEN kept[Below(c)] ELSE kept[Beside(c)]
    BY <1>10
  <1>. HIDE DEF Table
  <1>12. PairsFor(kept, dp, a, b)  BY <1>1, <1>11 DEF PairsFor, m, n
  <1>. QED  BY <1>9, <1>12 DEF dp

-----------------------------------------------------------------------------
(* A longest common subsequence.                                           *)

\* Pairs of indices of equal elements, in the order of both lists.
Chain(a, b, K) ==
  /\ IsFiniteSet(K) /\ K \subseteq (1..Len(a)) \X (1..Len(b))
  /\ \A p \in K : a[p[1]] = b[p[2]]
  /\ \A p, q \in K : p = q \/ (p[1] < q[1] /\ p[2] < q[2]) \/ (q[1] < p[1] /\ q[2] < p[2])
From(K, c) == \A p \in K : c[1] <= p[1] /\ c[2] <= p[2]

\* The elements of a at these places are there in b, in the same order.
Common(a, b, at, to, c) ==
  /\ at \subseteq c[1]..Len(a) /\ to \in [at -> c[2]..Len(b)]
  /\ \A i \in at : a[i] = b[to[i]]
  /\ \A i, j \in at : i < j => to[i] < to[j]
NoneLonger(a, b, l, c) == \A at : \A to : Common(a, b, at, to, c) => IsFiniteSet(at) /\ Cardinality(at) <= l

Best(a, b, c, l, K) ==
  l \in Nat /\ Chain(a, b, K) /\ From(K, c) /\ Cardinality(K) = l /\ NoneLonger(a, b, l, c)

LEMMA BestAtEnd ==
  ASSUME NEW a, NEW b, Len(a) \in Nat, Len(b) \in Nat, NEW c \in Grid(Len(a), Len(b)), Outside(Len(a), Len(b), c)
  PROVE  Best(a, b, c, 0, {})
  <1>1. c[1] \in Nat /\ c[2] \in Nat  BY DEF Grid
  <1>2. IsFiniteSet({}) /\ Cardinality({}) = 0  BY FS_EmptySet
  <1>3. NoneLonger(a, b, 0, c)
    <2>1. SUFFICES ASSUME NEW at, NEW to, Common(a, b, at, to, c) PROVE at = {}
      BY <1>2 DEF NoneLonger
    <2>2. c[1]..Len(a) = {} \/ c[2]..Len(b) = {}  BY <1>1 DEF Outside
    <2>. QED  BY <2>1, <2>2 DEF Common
  <1>. QED  BY <1>2, <1>3 DEF Best, Chain, From

LEMMA BestBoth ==
  ASSUME NEW a, NEW b, Len(a) \in Nat, Len(b) \in Nat, NEW c \in Grid(Len(a), Len(b)), ~Outside(Len(a), Len(b), c),
         a[c[1]] = b[c[2]], NEW l, NEW K, Best(a, b, Both(c), l, K)
  PROVE  Best(a, b, c, l + 1, {c} \cup K)
  <1>1. /\ c = <<c[1], c[2]>> /\ c[1] \in 1..Len(a) /\ c[2] \in 1..Len(b)
        /\ Both(c)[1] = c[1] + 1 /\ Both(c)[2] = c[2] + 1
    BY DEF Grid, Outside, Both
  <1>2. /\ l \in Nat /\ Chain(a, b, K) /\ From(K, Both(c)) /\ Cardinality(K) = l
        /\ NoneLonger(a, b, l, Both(c))
    BY DEF Best
  <1>3. \A p \in K : p[1] \in 1..Len(a) /\ p[2] \in 1..Len(b) /\ c[1] < p[1] /\ c[2] < p[2]
    BY <1>1, <1>2 DEF Chain, From
  <1>4. c \notin K  BY <1>1, <1>3
  <1>5. IsFiniteSet({c} \cup K) /\ Cardinality({c} \cup K) = l + 1
    <2>1. IsFiniteSet(K \cup {c}) /\ Cardinality(K \cup {c}) = Cardinality(K) + 1
      BY <1>2, <1>4, FS_AddElement DEF Chain
    <2>. QED  BY <1>2, <2>1
  <1>6. Chain(a, b, {c} \cup K)
    <2>1. {c} \cup K \subseteq (1..Len(a)) \X (1..Len(b))  BY <1>1, <1>2 DEF Chain
    <2>2. \A p \in {c} \cup K : a[p[1]] = b[p[2]]  BY <1>2 DEF Chain
    <2>3. \A p, q \in {c} \cup K : p = q \/ (p[1] < q[1] /\ p[2] < q[2]) \/ (q[1] < p[1] /\ q[2] < p[2])
      BY <1>2, <1>3 DEF Chain
    <2>. QED  BY <1>5, <2>1, <2>2, <2>3 DEF Chain
  <1>7. From({c} \cup K, c)  BY <1>1, <1>3 DEF From
  <1>8. NoneLonger(a, b, l + 1, c)
    <2>1. SUFFICES ASSUME NEW at, NEW to, Common(a, b, at, to, c)
                   PROVE  IsFiniteSet(at) /\ Cardinality(at) <= l + 1
      BY DEF NoneLonger
    <2>2. at \subseteq c[1]..Len(a) /\ at \subseteq 1..Len(a)  BY <1>1, <2>1 DEF Common
    <2>3. IsFiniteSet(at) /\ Cardinality(at) \in Nat  BY <2>2, PlacesFinite DEF Places
    <2>4. CASE at = {}  BY <1>2, <2>3, <2>4, FS_EmptySet
    <2>5. CASE at # {}
      <3>1. PICK x \in at : \A i \in at : x <= i
        <4>1. at \subseteq Nat  BY <2>2
        <4>. QED  BY <2>5, <4>1, LeastNumber
      <3>. DEFINE less == at \ {x}
                  two == [i \in less |-> to[i]]
      <3>2. Common(a, b, less, two, Both(c))
        <4>1. \A i \in less : x < i /\ i \in (c[1] + 1)..Len(a)  BY <1>1, <2>2, <3>1
        <4>2. \A i \in less : two[i] = to[i] /\ to[i] \in (c[2] + 1)..Len(b)
          BY <1>1, <2>1, <3>1, <4>1 DEF Common
        <4>3. two \in [less -> (c[2] + 1)..Len(b)]  BY <4>2
        <4>4. \A i \in less : a[i] = b[two[i]]  BY <2>1, <4>2 DEF Common
        <4>5. \A i, j \in less : i < j => two[i] < two[j]  BY <2>1, <4>2 DEF Common
        <4>. HIDE DEF less, two
        <4>. QED  BY <1>1, <4>1, <4>3, <4>4, <4>5 DEF Common
      <3>3. Cardinality(less) <= l
        <4>. HIDE DEF less, two
        <4>. QED  BY <1>2, <3>2 DEF NoneLonger
      <3>4. Cardinality(at \ {x}) = Cardinality(at) - 1  BY <2>3, <3>1, FS_RemoveElement
      <3>. QED  BY <1>2, <2>3, <3>3, <3>4
    <2>. QED  BY <2>4, <2>5
  <1>. QED  BY <1>2, <1>5, <1>6, <1>7, <1>8 DEF Best

LEMMA BestSkip ==
  ASSUME NEW a, NEW b, Len(a) \in Nat, Len(b) \in Nat, NEW c \in Grid(Len(a), Len(b)), ~Outside(Len(a), Len(b), c),
         a[c[1]] # b[c[2]], NEW l, NEW K, Best(a, b, Below(c), l, K), NEW k, NEW J, Best(a, b, Beside(c), k, J)
  PROVE  Best(a, b, c, LongerOf(l, k), IF l >= k THEN K ELSE J)
  <1>. DEFINE u == LongerOf(l, k)
              U == IF l >= k THEN K ELSE J
  <1>1. /\ c[1] \in 1..Len(a) /\ c[2] \in 1..Len(b)
        /\ Below(c)[1] = c[1] + 1 /\ Below(c)[2] = c[2] /\ Beside(c)[1] = c[1] /\ Beside(c)[2] = c[2] + 1
    BY DEF Grid, Outside, Below, Beside
  <1>2. /\ l \in Nat /\ Chain(a, b, K) /\ From(K, Below(c)) /\ Cardinality(K) = l /\ NoneLonger(a, b, l, Below(c))
        /\ k \in Nat /\ Chain(a, b, J) /\ From(J, Beside(c)) /\ Cardinality(J) = k /\ NoneLonger(a, b, k, Beside(c))
    BY DEF Best
  <1>3. u \in Nat /\ u >= l /\ u >= k /\ Cardinality(U) = u /\ Chain(a, b, U)  BY <1>2 DEF LongerOf
  <1>4. From(K, c) /\ From(J, c)
    <2>1. \A p \in K : p[1] \in Nat /\ p[2] \in Nat  BY <1>2 DEF Chain
    <2>2. \A p \in J : p[1] \in Nat /\ p[2] \in Nat  BY <1>2 DEF Chain
    <2>. QED  BY <1>1, <1>2, <2>1, <2>2 DEF From
  <1>. HIDE DEF u
  <1>5. NoneLonger(a, b, u, c)
    <2>1. SUFFICES ASSUME NEW at, NEW to, Common(a, b, at, to, c)
                   PROVE  IsFiniteSet(at) /\ Cardinality(at) <= u
      BY DEF NoneLonger
    <2>2. at \subseteq c[1]..Len(a) /\ at \subseteq 1..Len(a)  BY <1>1, <2>1 DEF Common
    <2>3. IsFiniteSet(at) /\ Cardinality(at) \in Nat  BY <2>2, PlacesFinite DEF Places
    <2>4. CASE c[1] \notin at
      <3>1. at \subseteq (c[1] + 1)..Len(a)  BY <1>1, <2>2, <2>4
      <3>2. Common(a, b, at, to, Below(c))  BY <1>1, <2>1, <3>1 DEF Common
      <3>3. Cardinality(at) <= l  BY <1>2, <3>2 DEF NoneLonger
      <3>. QED  BY <1>2, <1>3, <2>3, <3>3
    <2>5. CASE c[1] \in at
      <3>1. \A i \in at : to[i] \in c[2]..Len(b) /\ a[i] = b[to[i]]  BY <2>1 DEF Common
      <3>2. to[c[1]] > c[2]  BY <1>1, <2>5, <3>1
      <3>3. \A i \in at : to[i] \in (c[2] + 1)..Len(b)
        <4>1. SUFFICES ASSUME NEW i \in at PROVE to[i] \in (c[2] + 1)..Len(b)  OBVIOUS
        <4>2. i = c[1] \/ c[1] < i  BY <1>1, <2>2
        <4>3. c[1] < i => to[c[1]] < to[i]  BY <2>1, <2>5 DEF Common
        <4>. QED  BY <1>1, <2>5, <3>1, <3>2, <4>2, <4>3
      <3>4. to \in [at -> (c[2] + 1)..Len(b)]  BY <2>1, <3>3 DEF Common
      <3>5. Common(a, b, at, to, Beside(c))  BY <1>1, <2>1, <3>4 DEF Common
      <3>6. Cardinality(at) <= k  BY <1>2, <3>5 DEF NoneLonger
      <3>. QED  BY <1>2, <1>3, <2>3, <3>6
    <2>. QED  BY <2>4, <2>5
  <1>6. From(U, c)  BY <1>4
  <1>. HIDE DEF U
  <1>7. Best(a, b, c, u, U)  BY <1>3, <1>5, <1>6 DEF Best
  <1>. QED  BY <1>7 DEF u, U

\* lcs returns pairs of equal elements in the order of both lists, and no common
\* subsequence of the lists is longer: each cell of its tables holds the best of
\* the rests of both lists.
THEOREM LcsIsLongest ==
  ASSUME NEW a, NEW b, Len(a) \in Nat, Len(b) \in Nat
  PROVE  \E l : Best(a, b, <<1, 1>>, l, Lcs(a, b))
  <1>. DEFINE m == Len(a)
              n == Len(b)
              dp == Lengths(a, b)
              G == Grid(m, n)
  <1>0. m \in Nat /\ n \in Nat  OBVIOUS
  <1>1. PICK kept : PairsFor(kept, dp, a, b) /\ Lcs(a, b) = kept[<<1, 1>>]  BY PairsAre
  <1>2. LengthsFor(dp, a, b)  BY LengthsAre
  <1>. DEFINE T == {r \in Nat : \A c \in G : Left(m, n, c) <= r => Best(a, b, c, dp[c], kept[c])}
  <1>. HIDE DEF dp
  <1>3. ASSUME NEW c \in G, Outside(m, n, c) PROVE Best(a, b, c, dp[c], kept[c])
    <2>1. dp[c] = 0 /\ kept[c] = {}  BY <1>1, <1>2, <1>3 DEF LengthsFor, PairsFor
    <2>. QED  BY <1>3, <2>1, BestAtEnd
  <1>4. 0 \in T
    <2>1. SUFFICES ASSUME NEW c \in G, Left(m, n, c) <= 0 PROVE Best(a, b, c, dp[c], kept[c])  OBVIOUS
    <2>2. Outside(m, n, c)  BY <1>0, <2>1, CellsAre
    <2>. QED  BY <1>3, <2>2
  <1>5. ASSUME NEW r \in Nat, r \in T PROVE r + 1 \in T
    <2>1. SUFFICES ASSUME NEW c \in G, Left(m, n, c) <= r + 1 PROVE Best(a, b, c, dp[c], kept[c])  OBVIOUS
    <2>2. CASE Outside(m, n, c)  BY <1>3, <2>2
    <2>3. CASE ~Outside(m, n, c)
      <3>1. Best(a, b, Both(c), dp[Both(c)], kept[Both(c)])
            /\ Best(a, b, Below(c), dp[Below(c)], kept[Below(c)])
            /\ Best(a, b, Beside(c), dp[Beside(c)], kept[Beside(c)])
        <4>1. /\ Both(c) \in G /\ Below(c) \in G /\ Beside(c) \in G
              /\ Left(m, n, Both(c)) < Left(m, n, c) /\ Left(m, n, Below(c)) < Left(m, n, c)
              /\ Left(m, n, Beside(c)) < Left(m, n, c) /\ Left(m, n, c) \in Nat
          BY <1>0, <2>3, CellsAre
        <4>2. Left(m, n, Both(c)) \in Nat /\ Left(m, n, Below(c)) \in Nat /\ Left(m, n, Beside(c)) \in Nat
          BY <1>0, <4>1, CellsAre
        <4>. HIDE DEF G, m, n
        <4>. QED  BY <1>5, <2>1, <4>1, <4>2
      <3>2. CASE a[c[1]] = b[c[2]]
        <4>1. dp[c] = dp[Both(c)] + 1 /\ kept[c] = {c} \cup kept[Both(c)]
          BY <1>1, <1>2, <2>3, <3>2 DEF LengthsFor, PairsFor
        <4>2. Best(a, b, c, dp[Both(c)] + 1, {c} \cup kept[Both(c)])  BY <2>3, <3>1, <3>2, BestBoth
        <4>. QED  BY <4>1, <4>2
      <3>3. CASE a[c[1]] # b[c[2]]
        <4>1. /\ dp[c] = LongerOf(dp[Below(c)], dp[Beside(c)])
              /\ kept[c] = IF dp[Below(c)] >= dp[Beside(c)] THEN kept[Below(c)] ELSE kept[Beside(c)]
          BY <1>1, <1>2, <2>3, <3>3 DEF LengthsFor, PairsFor
        <4>2. Best(a, b, c, LongerOf(dp[Below(c)], dp[Beside(c)]),
                   IF dp[Below(c)] >= dp[Beside(c)] THEN kept[Below(c)] ELSE kept[Beside(c)])
          BY <2>3, <3>1, <3>3, BestSkip
        <4>. QED  BY <4>1, <4>2
      <3>. QED  BY <3>2, <3>3
    <2>. QED  BY <2>2, <2>3
  <1>6. m + n \in T
    <2>. HIDE DEF T
    <2>1. Nat \subseteq T  BY <1>4, <1>5, AllNumbers
    <2>. QED  BY <1>0, <2>1
  <1>7. <<1, 1>> \in G /\ Left(m, n, <<1, 1>>) <= m + n  BY <1>0 DEF Grid, Left
  <1>8. Best(a, b, <<1, 1>>, dp[<<1, 1>>], kept[<<1, 1>>])  BY <1>6, <1>7
  <1>. QED  BY <1>1, <1>8

-----------------------------------------------------------------------------
(* Carrying out a plan.                                                    *)

IsList(s) == s = [n \in 1..Len(s) |-> s[n]] /\ Len(s) \in Nat

\* The operations lead from one document to the other, each where it applies.
IsTrace(f, d, ops, e) ==
  /\ f[0] = d /\ f[Len(ops)] = e
  /\ \A n \in 1..Len(ops) : Applicable(f[n - 1], ops[n]) /\ f[n] = Applied(f[n - 1], ops[n])
Runs(d, ops, e) == IsList(ops) /\ \E f : IsTrace(f, d, ops, e)

LEMMA ListHas ==
  ASSUME NEW s
  PROVE  IsList(s) <=> \E E : s \in Seq(E)
  <1>1. ASSUME IsList(s) PROVE \E E : s \in Seq(E)
    <2>. DEFINE E == {s[n] : n \in 1..Len(s)}
                N == Len(s)
    <2>1. N \in Nat /\ s = [n \in 1..N |-> s[n]]  BY <1>1 DEF IsList
    <2>. HIDE DEF N
    <2>2. s \in [1..N -> E]  BY <2>1 DEF N
    <2>. HIDE DEF E
    <2>3. s \in Seq(E)  BY <2>1, <2>2, AList
    <2>. QED  BY <2>3
  <1>2. ASSUME NEW E, s \in Seq(E) PROVE IsList(s)
    BY <1>2 DEF IsList
  <1>. QED  BY <1>1, <1>2

\* An empty plan leaves the document; the first operation of a plan applies and
\* leaves the rest of it; plans may follow one another.
LEMMA RunEmpty ==
  ASSUME NEW d, NEW e
  PROVE  Runs(d, <<>>, d) /\ (Runs(d, <<>>, e) => e = d)
  <1>1. Len(<<>>) = 0  OBVIOUS
  <1>2. IsList(<<>>)
    <2>1. <<>> \in Seq({0})  OBVIOUS
    <2>. QED  BY <2>1, ListHas
  <1>3. IsTrace([n \in {0} |-> d], d, <<>>, d)  BY <1>1 DEF IsTrace
  <1>4. ASSUME Runs(d, <<>>, e) PROVE e = d  BY <1>1, <1>4 DEF Runs, IsTrace
  <1>. QED  BY <1>2, <1>3, <1>4 DEF Runs

LEMMA RunOne ==
  ASSUME NEW d, NEW o, Applicable(d, o)
  PROVE  Runs(d, <<o>>, Applied(d, o))
  <1>. DEFINE f == [n \in {0, 1} |-> IF n = 0 THEN d ELSE Applied(d, o)]
  <1>1. <<o>> \in Seq({o}) /\ Len(<<o>>) = 1 /\ <<o>>[1] = o  OBVIOUS
  <1>2. f[0] = d /\ f[1] = Applied(d, o)  OBVIOUS
  <1>. HIDE DEF f
  <1>3. IsTrace(f, d, <<o>>, Applied(d, o))
    <2>1. \A n \in 1..1 : n = 1 /\ n - 1 = 0  OBVIOUS
    <2>. QED  BY <1>1, <1>2, <2>1 DEF IsTrace
  <1>. QED  BY <1>1, <1>3, ListHas DEF Runs

LEMMA RunJoined ==
  ASSUME NEW d, NEW s, NEW e, NEW t, NEW g, Runs(d, s, e), Runs(e, t, g)
  PROVE  Runs(d, s \o t, g)
  <1>1. PICK E : s \in Seq(E)  BY ListHas DEF Runs
  <1>2. PICK F : t \in Seq(F)  BY ListHas DEF Runs
  <1>3. s \in Seq(E \cup F)  BY <1>1
  <1>4. t \in Seq(E \cup F)  BY <1>2
  <1>. DEFINE M == Len(s)
              N == Len(t)
              st == s \o t
  <1>5. /\ st \in Seq(E \cup F) /\ Len(st) = M + N
        /\ \A i \in 1..M : st[i] = s[i]
        /\ \A i \in 1..N : st[M + i] = t[i]
    BY <1>3, <1>4, Joined
  <1>6. M \in Nat /\ N \in Nat  BY <1>1, <1>2
  <1>7. PICK f : IsTrace(f, d, s, e)  BY DEF Runs
  <1>8. PICK h : IsTrace(h, e, t, g)  BY DEF Runs
  <1>. DEFINE r == [n \in 0..(M + N) |-> IF n <= M THEN f[n] ELSE h[n - M]]
  <1>. HIDE DEF st
  <1>9. /\ f[0] = d /\ f[M] = e /\ \A n \in 1..M : Applicable(f[n - 1], s[n]) /\ f[n] = Applied(f[n - 1], s[n])
        /\ h[0] = e /\ h[N] = g /\ \A n \in 1..N : Applicable(h[n - 1], t[n]) /\ h[n] = Applied(h[n - 1], t[n])
    BY <1>7, <1>8 DEF IsTrace
  <1>. HIDE DEF M, N
  <1>10. r[0] = d /\ r[M + N] = g
    <2>1. N = 0 => M + N = M /\ g = e  BY <1>6, <1>9
    <2>2. N # 0 => ~(M + N <= M) /\ M + N - M = N  BY <1>6
    <2>. QED  BY <1>6, <1>9, <2>1, <2>2
  <1>11. ASSUME NEW n \in 1..(M + N) PROVE Applicable(r[n - 1], st[n]) /\ r[n] = Applied(r[n - 1], st[n])
    <2>1. CASE n <= M
      <3>1. n \in 1..M /\ r[n - 1] = f[n - 1] /\ r[n] = f[n]  BY <1>6, <2>1
      <3>. HIDE DEF r
      <3>. QED  BY <1>5, <1>9, <3>1
    <2>2. CASE ~(n <= M)
      <3>. DEFINE i == n - M
      <3>1. i \in 1..N /\ M + i = n  BY <1>6, <2>2
      <3>2. r[n] = h[i]  BY <1>6, <2>2
      <3>3. r[n - 1] = h[i - 1]
        <4>1. CASE i = 1
          <5>1. n - 1 = M /\ M \in 0..(M + N) /\ M <= M  BY <1>6, <4>1
          <5>2. r[M] = f[M]  BY <5>1
          <5>. QED  BY <1>9, <4>1, <5>1, <5>2
        <4>2. CASE i # 1
          <5>1. n - 1 \in 0..(M + N) /\ ~(n - 1 <= M) /\ n - 1 - M = i - 1  BY <1>6, <3>1, <4>2
          <5>. QED  BY <5>1
        <4>. QED  BY <4>1, <4>2
      <3>. HIDE DEF r, i
      <3>. QED  BY <1>5, <1>9, <3>1, <3>2, <3>3
    <2>. QED  BY <2>1, <2>2
  <1>12. Len(st) = M + N  BY <1>5 DEF M, N
  <1>. HIDE DEF r
  <1>13. IsTrace(r, d, st, g)  BY <1>10, <1>11, <1>12 DEF IsTrace
  <1>14. IsList(st)  BY <1>5, ListHas
  <1>15. Runs(d, st, g)  BY <1>13, <1>14 DEF Runs
  <1>. QED  BY <1>15 DEF st

LEMMA RunHead ==
  ASSUME NEW d, NEW ops, NEW e, Runs(d, ops, e), ops # <<>>
  PROVE  Applicable(d, Head(ops)) /\ Runs(Applied(d, Head(ops)), Tail(ops), e)
  <1>1. PICK E : ops \in Seq(E)  BY ListHas DEF Runs
  <1>2. PICK f : IsTrace(f, d, ops, e)  BY DEF Runs
  <1>. DEFINE N == Len(ops)
              t == Tail(ops)
              g == [n \in 0..(N - 1) |-> f[n + 1]]
  <1>3. N \in Nat /\ N >= 1 /\ Head(ops) = ops[1]  BY <1>1
  <1>4. t \in Seq(E) /\ Len(t) = N - 1 /\ \A n \in 1..(N - 1) : t[n] = ops[n + 1]  BY <1>1
  <1>5. f[0] = d /\ f[N] = e /\ \A n \in 1..N : Applicable(f[n - 1], ops[n]) /\ f[n] = Applied(f[n - 1], ops[n])
    BY <1>2 DEF IsTrace
  <1>. HIDE DEF N, t
  <1>6. 1 \in 1..N /\ 1 - 1 = 0  BY <1>3
  <1>7. Applicable(d, Head(ops)) /\ f[1] = Applied(d, Head(ops))  BY <1>3, <1>5, <1>6
  <1>8. g[0] = f[1] /\ g[N - 1] = f[N]
    <2>1. 0 \in 0..(N - 1) /\ N - 1 \in 0..(N - 1) /\ 0 + 1 = 1 /\ (N - 1) + 1 = N  BY <1>3
    <2>. QED  BY <2>1
  <1>9. ASSUME NEW n \in 1..(N - 1) PROVE Applicable(g[n - 1], t[n]) /\ g[n] = Applied(g[n - 1], t[n])
    <2>1. n \in 0..(N - 1) /\ n - 1 \in 0..(N - 1) /\ (n - 1) + 1 = n /\ n + 1 \in 1..N /\ (n + 1) - 1 = n  BY <1>3
    <2>2. g[n] = f[n + 1] /\ g[n - 1] = f[n]  BY <2>1
    <2>. HIDE DEF g
    <2>3. Applicable(f[n], ops[n + 1]) /\ f[n + 1] = Applied(f[n], ops[n + 1])  BY <1>5, <2>1
    <2>. QED  BY <1>4, <2>2, <2>3
  <1>. HIDE DEF g
  <1>10. IsTrace(g, Applied(d, Head(ops)), t, e)  BY <1>4, <1>5, <1>7, <1>8, <1>9 DEF IsTrace
  <1>11. IsList(t)  BY <1>4, ListHas
  <1>. QED  BY <1>7, <1>10, <1>11 DEF Runs, t

-----------------------------------------------------------------------------
(* The operations of one section.                                          *)

IsDoc(x) == x = [k \in DOMAIN x |-> x[k]]

\* What an operation on a part of a section does to the value of that section.
Fits(k, v, o) ==
  IF k = "acls" THEN o.path[2] \in 1..(Len(v) + (IF o.do = "add" THEN 1 ELSE 0))
  ELSE o.do # "add" => o.path[2] \in DOMAIN v
Edited(k, v, o) ==
  IF k = "acls"
  THEN IF o.do = "remove" THEN RemoveAt(v, o.path[2]) ELSE InsertAt(v, o.path[2], o.value)
  ELSE IF o.do = "remove" THEN PtWithout(v, o.path[2]) ELSE PtWith(v, o.path[2], o.value)

IsEdits(v, k, ops) ==
  \A n \in 1..Len(ops) :
    /\ \E p : ops[n].path = <<k, p>>
    /\ v[n - 1] # PtNull /\ Fits(k, v[n - 1], ops[n]) /\ v[n] = Edited(k, v[n - 1], ops[n])

\* Edits of a section are seen in that section only.
LEMMA SectionRun ==
  ASSUME NEW x, IsDoc(x), NEW k \in DOMAIN x, NEW ops, IsList(ops), NEW v, v[0] = x[k], IsEdits(v, k, ops)
  PROVE  Runs(x, ops, PtWith(x, k, v[Len(ops)]))
  <1>. DEFINE N == Len(ops)
              f == [n \in 0..N |-> PtWith(x, k, v[n])]
  <1>1. N \in Nat  BY DEF IsList
  <1>2. PtWith(x, k, v[0]) = x
    <2>1. DOMAIN x \cup {k} = DOMAIN x  OBVIOUS
    <2>2. PtWith(x, k, v[0]) = [y \in DOMAIN x |-> x[y]]  BY <2>1 DEF PtWith
    <2>. QED  BY <2>2 DEF IsDoc
  <1>3. \A w : /\ DOMAIN PtWith(x, k, w) = DOMAIN x /\ PtWith(x, k, w)[k] = w
               /\ \A u : [PtWith(x, k, w) EXCEPT ![k] = u] = PtWith(x, k, u)
    BY DEF PtWith
  <1>4. f[0] = x /\ f[N] = PtWith(x, k, v[N])  BY <1>1, <1>2
  <1>5. ASSUME NEW n \in 1..N PROVE Applicable(f[n - 1], ops[n]) /\ f[n] = Applied(f[n - 1], ops[n])
    <2>. DEFINE w == v[n - 1]
                y == PtWith(x, k, w)
                o == ops[n]
    <2>1. PICK p : o.path = <<k, p>>  BY DEF IsEdits
    <2>2. w # PtNull /\ Fits(k, w, o) /\ v[n] = Edited(k, w, o)  BY DEF IsEdits
    <2>3. f[n - 1] = y /\ f[n] = PtWith(x, k, v[n])  BY <1>1
    <2>4. DOMAIN y = DOMAIN x /\ y[k] = w  BY <1>3
    <2>5. Len(o.path) = 2 /\ o.path[1] = k  BY <2>1
    <2>. HIDE DEF f, o
    <2>. DEFINE u == Edited(k, w, o)
    <2>6. [y EXCEPT ![k] = u] = PtWith(x, k, u)  BY <1>3
    <2>. HIDE DEF y, w
    <2>7. Applied(y, o) = [y EXCEPT ![k] = u]
      BY <2>4, <2>5 DEF Applied, Edited
    <2>8. Applicable(y, o)
      <3>1. PtHas(y, k)  BY <2>2, <2>4 DEF PtHas
      <3>2. CASE k = "acls"  BY <2>2, <2>4, <2>5, <3>1, <3>2 DEF Applicable, Fits
      <3>3. CASE k # "acls"  BY <2>2, <2>4, <2>5, <3>1, <3>3 DEF Applicable, Fits
      <3>. QED  BY <3>2, <3>3
    <2>. QED  BY <2>2, <2>3, <2>6, <2>7, <2>8 DEF y, w, o
  <1>. HIDE DEF f
  <1>6. IsTrace(f, x, ops, PtWith(x, k, v[N]))  BY <1>4, <1>5 DEF IsTrace
  <1>. QED  BY <1>6 DEF Runs

-----------------------------------------------------------------------------
(* Elements come and go one by one.                                        *)

\* The places of a list of which the first r of S are there, besides the others.
Partly(N, S, r) == {i \in 1..N : i \in S => Rank(S, i) <= r}

LEMMA PartlyEnds ==
  ASSUME NEW N \in Nat, NEW S, Places(S, N)
  PROVE  Partly(N, S, 0) = (1..N) \ S /\ Partly(N, S, Cardinality(S)) = 1..N
  <1>1. \A i \in S : Rank(S, i) \in 1..Cardinality(S)  BY NthIs
  <1>2. Cardinality(S) \in Nat  BY PlacesFinite
  <1>. QED  BY <1>1, <1>2 DEF Partly

\* The r-th place of S comes back where all places before it are there.
LEMMA NextPlace ==
  ASSUME NEW N \in Nat, NEW S, Places(S, N), NEW r \in 1..Cardinality(S)
  PROVE  LET p == NthOf(S, r)
         IN  /\ p \in 1..N /\ p \in S /\ p \notin Partly(N, S, r - 1)
             /\ Partly(N, S, r) = Partly(N, S, r - 1) \cup {p}
             /\ \A i \in 1..(p - 1) : i \in Partly(N, S, r - 1)
  <1>. DEFINE p == NthOf(S, r)
  <1>1. p \in S /\ Rank(S, p) = r  BY NthPlace
  <1>2. \A i \in S : Rank(S, i) \in Nat /\ NthOf(S, Rank(S, i)) = i  BY NthIs
  <1>3. \A i \in S : i < p => Rank(S, i) < r  BY <1>1, RankGrows
  <1>4. r \in Nat  BY PlacesFinite
  <1>. HIDE DEF p
  <1>5. p \in 1..N  BY <1>1 DEF Places
  <1>6. p \notin Partly(N, S, r - 1)  BY <1>1, <1>4 DEF Partly
  <1>7. ASSUME NEW i \in 1..N PROVE i \in Partly(N, S, r) <=> i \in Partly(N, S, r - 1) \/ i = p
    <2>1. CASE i \in S
      <3>1. Rank(S, i) \in Nat /\ (Rank(S, i) = r => i = p)  BY <1>2, <2>1 DEF p
      <3>. QED  BY <1>1, <1>4, <2>1, <3>1 DEF Partly
    <2>2. CASE i \notin S  BY <1>1, <2>2 DEF Partly
    <2>. QED  BY <2>1, <2>2
  <1>8. Partly(N, S, r) = Partly(N, S, r - 1) \cup {p}
    <2>1. Partly(N, S, r) \subseteq 1..N /\ Partly(N, S, r - 1) \subseteq 1..N  BY DEF Partly
    <2>. QED  BY <1>5, <1>7, <2>1
  <1>9. \A i \in 1..(p - 1) : i \in Partly(N, S, r - 1)
    <2>1. SUFFICES ASSUME NEW i \in 1..(p - 1) PROVE i \in Partly(N, S, r - 1)  OBVIOUS
    <2>2. i \in 1..N /\ i < p  BY <1>5
    <2>3. i \in S => Rank(S, i) <= r - 1  BY <1>2, <1>3, <1>4, <2>2
    <2>. QED  BY <2>2, <2>3 DEF Partly
  <1>10. /\ p \in 1..N /\ p \in S /\ p \notin Partly(N, S, r - 1)
         /\ Partly(N, S, r) = Partly(N, S, r - 1) \cup {p}
         /\ \A i \in 1..(p - 1) : i \in Partly(N, S, r - 1)
    BY <1>1, <1>5, <1>6, <1>8, <1>9
  <1>. QED  BY <1>10 DEF p

LEMMA InsertRemoved ==
  ASSUME NEW E, NEW t \in Seq(E), NEW p \in 1..(Len(t) + 1), NEW e \in E
  PROVE  RemoveAt(InsertAt(t, p, e), p) = t
  <1>. DEFINE x == InsertAt(t, p, e)
              N == Len(t)
  <1>1. x \in Seq(E) /\ x = Inserted(t, p, e)  BY AnInsertion
  <1>2. N \in Nat /\ t \in [1..N -> E] /\ p \in Nat /\ DOMAIN t = 1..N  OBVIOUS
  <1>. HIDE DEF x
  <1>3. Len(x) = N + 1 /\ \A i \in 1..(N + 1) : x[i] = IF i < p THEN t[i] ELSE IF i = p THEN e ELSE t[i - 1]
    <2>1. DOMAIN x = 1..(N + 1)  BY <1>1 DEF Inserted
    <2>2. Len(x) \in Nat /\ DOMAIN x = 1..Len(x)  BY <1>1
    <2>3. Len(x) = N + 1  BY <1>2, <2>1, <2>2
    <2>. QED  BY <1>1, <2>3 DEF Inserted
  <1>. HIDE DEF N
  <1>4. p \in 1..(N + 1)  BY DEF N
  <1>. DEFINE a == SubSeq(x, 1, p - 1)
              b == SubSeq(x, p + 1, Len(x))
  <1>5. a \in Seq(E) /\ Len(a) = p - 1 /\ \A i \in 1..(p - 1) : a[i] = x[i]  BY <1>1, <1>2, <1>3, <1>4
  <1>6. b \in Seq(E) /\ Len(b) = N + 1 - p /\ \A i \in 1..(N + 1 - p) : b[i] = x[p + i]  BY <1>1, <1>2, <1>3, <1>4
  <1>7. RemoveAt(x, p) = a \o b  BY DEF RemoveAt
  <1>. HIDE DEF a, b
  <1>. DEFINE y == a \o b
  <1>8. y \in Seq(E) /\ Len(y) = N  BY <1>2, <1>4, <1>5, <1>6, Joined
  <1>9. ASSUME NEW i \in 1..N PROVE y[i] = t[i]
    <2>1. CASE i < p
      <3>1. i \in 1..Len(a)  BY <1>2, <1>4, <1>5, <2>1
      <3>2. y[i] = a[i]  BY <1>5, <1>6, <3>1, Joined
      <3>. QED  BY <1>2, <1>3, <1>4, <1>5, <2>1, <3>2
    <2>2. CASE ~(i < p)
      <3>. DEFINE j == i - (p - 1)
      <3>1. j \in 1..Len(b) /\ Len(a) + j = i /\ p + j = i + 1  BY <1>2, <1>4, <1>5, <1>6, <2>2
      <3>. HIDE DEF j
      <3>2. y[i] = b[j]  BY <1>5, <1>6, <3>1, Joined
      <3>3. y[i] = x[i + 1]  BY <1>6, <3>1, <3>2
      <3>4. i + 1 \in 1..(N + 1) /\ ~(i + 1 < p) /\ i + 1 # p /\ (i + 1) - 1 = i  BY <1>2, <1>4, <2>2
      <3>. QED  BY <1>3, <3>3, <3>4
    <2>. QED  BY <2>1, <2>2
  <1>. HIDE DEF y
  <1>10. y = t
    <2>1. y \in [1..N -> E]  BY <1>8
    <2>. QED  BY <1>2, <1>9, <2>1
  <1>. QED  BY <1>7, <1>10 DEF x, y

\* Removing from the end and adding from the front, indices fit and name the
\* right element.
LEMMA OneStep ==
  ASSUME NEW E, NEW s \in Seq(E), NEW S, Places(S, Len(s)), NEW r \in 1..Cardinality(S)
  PROVE  LET p == NthOf(S, r)
             less == Sublist(s, Partly(Len(s), S, r - 1))
             more == Sublist(s, Partly(Len(s), S, r))
         IN  /\ less \in Seq(E) /\ more \in Seq(E)
             /\ p \in 1..(Len(less) + 1) /\ p \in 1..Len(more) /\ p \in S
             /\ more = InsertAt(less, p, s[p]) /\ less = RemoveAt(more, p)
  <1>. DEFINE N == Len(s)
              p == NthOf(S, r)
              at == Partly(N, S, r - 1)
              less == Sublist(s, at)
              more == Sublist(s, Partly(N, S, r))
  <1>1. N \in Nat /\ \A i \in 1..N : s[i] \in E  OBVIOUS
  <1>2. /\ p \in 1..N /\ p \in S /\ p \notin at
        /\ Partly(N, S, r) = at \cup {p} /\ \A i \in 1..(p - 1) : i \in at
    BY <1>1, NextPlace
  <1>3. Places(at, N) /\ Places(Partly(N, S, r), N)  BY DEF Places, Partly
  <1>. HIDE DEF p, at
  <1>4. p \in 1..(Cardinality(at) + 1) /\ Sublist(s, at \cup {p}) = InsertAt(Sublist(s, at), p, s[p])
    BY <1>2, <1>3, OneMorePlace
  <1>5. less \in Seq(E) /\ Len(less) = Cardinality(at) /\ Cardinality(at) \in Nat  BY <1>3, ASublist
  <1>6. more = InsertAt(less, p, s[p])  BY <1>2, <1>4
  <1>. HIDE DEF less, more
  <1>7. s[p] \in E /\ p \in 1..(Len(less) + 1)  BY <1>1, <1>2, <1>4, <1>5
  <1>8. more \in Seq(E) /\ more = Inserted(less, p, s[p])  BY <1>5, <1>6, <1>7, AnInsertion
  <1>9. less = RemoveAt(more, p)  BY <1>5, <1>6, <1>7, InsertRemoved
  <1>10. Len(more) = Len(less) + 1
    <2>1. Len(less) \in Nat /\ DOMAIN less = 1..Len(less)  BY <1>5
    <2>2. DOMAIN more = 1..(Len(less) + 1)  BY <1>8, <2>1 DEF Inserted
    <2>3. DOMAIN more = 1..Len(more) /\ Len(more) \in Nat  BY <1>8
    <2>. QED  BY <2>1, <2>2, <2>3
  <1>11. /\ less \in Seq(E) /\ more \in Seq(E)
         /\ p \in 1..(Len(less) + 1) /\ p \in 1..Len(more) /\ p \in S
         /\ more = InsertAt(less, p, s[p]) /\ less = RemoveAt(more, p)
    BY <1>2, <1>5, <1>6, <1>7, <1>8, <1>9, <1>10
  <1>. QED  BY <1>11 DEF p, less, more, at

RuleNodes == PtNodes(PtRules)

LEMMA RuleLists == \A s \in Seq(RuleNodes) : s # PtNull
  <1>1. PtNull \notin PtValues("acls")  BY PatcherAssumption DEF PtKeys
  <1>2. PtValues("acls") = Seq(RuleNodes)  BY DEF PtValues, RuleNodes
  <1>. QED  BY <1>1, <1>2

IsWith(x, k, v, e) ==
  /\ DOMAIN e = DOMAIN x \cup {k} /\ e[k] = v /\ IsDoc(e)
  /\ \A z \in DOMAIN x \ {k} : e[z] = x[z]

LEMMA WithIs ==
  ASSUME NEW x, NEW k, NEW v
  PROVE  IsWith(x, k, v, PtWith(x, k, v))
  BY DEF PtWith, IsDoc, IsWith

LEMMA WithTwice ==
  ASSUME NEW x, NEW k, NEW v, NEW w
  PROVE  PtWith(PtWith(x, k, v), k, w) = PtWith(x, k, w)
  <1>. DEFINE y == PtWith(x, k, v)
  <1>1. IsWith(x, k, v, y)  BY WithIs
  <1>. HIDE DEF y
  <1>2. DOMAIN y \cup {k} = DOMAIN x \cup {k}  BY <1>1 DEF IsWith
  <1>3. \A z \in DOMAIN x \cup {k} : z # k => y[z] = x[z]  BY <1>1 DEF IsWith
  <1>4. PtWith(y, k, w) = PtWith(x, k, w)  BY <1>2, <1>3 DEF PtWith
  <1>. QED  BY <1>4 DEF y

\* The removals leave the elements that stay.
LEMMA Removed ==
  ASSUME NEW x, IsDoc(x), "acls" \in DOMAIN x, x["acls"] \in Seq(RuleNodes),
         NEW gone, Places(gone, Len(x["acls"]))
  PROVE  Runs(x, RemoveOps("acls", gone), PtWith(x, "acls", Sublist(x["acls"], (1..Len(x["acls"])) \ gone)))
  <1>. DEFINE s == x["acls"]
              N == Len(s)
              C == Cardinality(gone)
              ops == RemoveOps("acls", gone)
              v == [n \in 0..C |-> Sublist(s, Partly(N, gone, C - n))]
  <1>1. N \in Nat /\ C \in Nat  BY PlacesFinite
  <1>2. /\ ops = [n \in 1..C |-> Op("remove", <<"acls", NthOf(gone, C + 1 - n)>>, <<>>)]
        /\ IsList(ops) /\ Len(ops) = C
    <2>1. ops = [n \in 1..C |-> Op("remove", <<"acls", NthOf(gone, C + 1 - n)>>, <<>>)]  BY DEF RemoveOps
    <2>. HIDE DEF ops, C
    <2>. DEFINE F == {ops[n] : n \in 1..C}
    <2>2. ops \in [1..C -> F]  BY <2>1
    <2>. HIDE DEF F
    <2>3. ops \in Seq(F) /\ Len(ops) = C  BY <1>1, <2>2, AList
    <2>. QED  BY <2>1, <2>3, ListHas
  <1>. HIDE DEF ops
  <1>3. v[0] = s
    <2>1. 0 \in 0..C /\ C - 0 = C  BY <1>1
    <2>2. Partly(N, gone, C) = 1..N  BY <1>1, PartlyEnds
    <2>3. Sublist(s, 1..N) = s  BY WholeList
    <2>. QED  BY <2>1, <2>2, <2>3
  <1>4. v[C] = Sublist(s, (1..N) \ gone)
    <2>1. C \in 0..C /\ C - C = 0  BY <1>1
    <2>2. Partly(N, gone, 0) = (1..N) \ gone  BY <1>1, PartlyEnds
    <2>. QED  BY <2>1, <2>2
  <1>5. ASSUME NEW n \in 1..C
        PROVE  /\ \E p : ops[n].path = <<"acls", p>>
               /\ v[n - 1] # PtNull /\ Fits("acls", v[n - 1], ops[n]) /\ v[n] = Edited("acls", v[n - 1], ops[n])
    <2>. DEFINE r == C + 1 - n
                p == NthOf(gone, r)
                less == Sublist(s, Partly(N, gone, r - 1))
                more == Sublist(s, Partly(N, gone, r))
    <2>1. r \in 1..C  BY <1>1
    <2>2. ops[n] = Op("remove", <<"acls", p>>, <<>>)  BY <1>2
    <2>3. v[n - 1] = more /\ v[n] = less
      <3>1. n - 1 \in 0..C /\ n \in 0..C /\ C - (n - 1) = r /\ C - n = r - 1  BY <1>1
      <3>. QED  BY <3>1
    <2>4. more \in Seq(RuleNodes) /\ p \in 1..Len(more) /\ less = RemoveAt(more, p)
      <3>. HIDE DEF v, r, p, less, more
      <3>1. LET pp == NthOf(gone, r)
                ll == Sublist(s, Partly(Len(s), gone, r - 1))
                mm == Sublist(s, Partly(Len(s), gone, r))
            IN  /\ ll \in Seq(RuleNodes) /\ mm \in Seq(RuleNodes)
                /\ pp \in 1..(Len(ll) + 1) /\ pp \in 1..Len(mm) /\ pp \in gone
                /\ mm = InsertAt(ll, pp, s[pp]) /\ ll = RemoveAt(mm, pp)
        BY <2>1, OneStep
      <3>. QED  BY <3>1 DEF p, less, more
    <2>. HIDE DEF v, r, p, less, more
    <2>5. ops[n].path = <<"acls", p>> /\ ops[n].do = "remove" /\ ops[n].path[2] = p  BY <2>2 DEF Op
    <2>6. Fits("acls", more, ops[n])
      <3>1. p \in 1..(Len(more) + 0)  BY <2>4
      <3>. QED  BY <2>5, <3>1 DEF Fits
    <2>7. less = Edited("acls", more, ops[n])  BY <2>4, <2>5 DEF Edited
    <2>. QED  BY <2>3, <2>4, <2>5, <2>6, <2>7, RuleLists
  <1>6. IsEdits(v, "acls", ops)
    <2>. HIDE DEF v, C
    <2>. QED  BY <1>2, <1>5 DEF IsEdits
  <1>. HIDE DEF v, C, N
  <1>7. Runs(x, ops, PtWith(x, "acls", v[Len(ops)]))  BY <1>2, <1>3, <1>6, SectionRun
  <1>. QED  BY <1>2, <1>4, <1>7 DEF ops, N

\* The additions complete the list that was asked for.
LEMMA Added ==
  ASSUME NEW x, IsDoc(x), "acls" \in DOMAIN x, NEW T \in Seq(RuleNodes),
         NEW fresh, Places(fresh, Len(T)), x["acls"] = Sublist(T, (1..Len(T)) \ fresh),
         NEW new, \A j \in fresh : T[j] = Node(new[j])
  PROVE  Runs(x, AddOps("acls", fresh, new), PtWith(x, "acls", T))
  <1>. DEFINE N == Len(T)
              C == Cardinality(fresh)
              ops == AddOps("acls", fresh, new)
              v == [n \in 0..C |-> Sublist(T, Partly(N, fresh, n))]
  <1>1. N \in Nat /\ C \in Nat  BY PlacesFinite
  <1>2. /\ ops = [n \in 1..C |-> Op("add", <<"acls", NthOf(fresh, n)>>, Node(new[NthOf(fresh, n)]))]
        /\ IsList(ops) /\ Len(ops) = C
    <2>1. ops = [n \in 1..C |-> Op("add", <<"acls", NthOf(fresh, n)>>, Node(new[NthOf(fresh, n)]))]  BY DEF AddOps
    <2>. HIDE DEF ops, C
    <2>. DEFINE F == {ops[n] : n \in 1..C}
    <2>2. ops \in [1..C -> F]  BY <2>1
    <2>. HIDE DEF F
    <2>3. ops \in Seq(F) /\ Len(ops) = C  BY <1>1, <2>2, AList
    <2>. QED  BY <2>1, <2>3, ListHas
  <1>. HIDE DEF ops
  <1>3. v[0] = x["acls"]
    <2>1. 0 \in 0..C  BY <1>1
    <2>2. Partly(N, fresh, 0) = (1..N) \ fresh  BY <1>1, PartlyEnds
    <2>. QED  BY <2>1, <2>2
  <1>4. v[C] = T
    <2>1. C \in 0..C  BY <1>1
    <2>2. Partly(N, fresh, C) = 1..N  BY <1>1, PartlyEnds
    <2>3. Sublist(T, 1..N) = T  BY WholeList
    <2>. QED  BY <2>1, <2>2, <2>3
  <1>5. ASSUME NEW n \in 1..C
        PROVE  /\ \E p : ops[n].path = <<"acls", p>>
               /\ v[n - 1] # PtNull /\ Fits("acls", v[n - 1], ops[n]) /\ v[n] = Edited("acls", v[n - 1], ops[n])
    <2>. DEFINE p == NthOf(fresh, n)
                less == Sublist(T, Partly(N, fresh, n - 1))
                more == Sublist(T, Partly(N, fresh, n))
    <2>2. ops[n] = Op("add", <<"acls", p>>, Node(new[p]))  BY <1>2
    <2>3. v[n - 1] = less /\ v[n] = more
      <3>1. n - 1 \in 0..C /\ n \in 0..C  BY <1>1
      <3>. QED  BY <3>1
    <2>4. less \in Seq(RuleNodes) /\ p \in 1..(Len(less) + 1) /\ p \in fresh /\ more = InsertAt(less, p, T[p])
      <3>. HIDE DEF v, p, less, more
      <3>1. LET pp == NthOf(fresh, n)
                ll == Sublist(T, Partly(Len(T), fresh, n - 1))
                mm == Sublist(T, Partly(Len(T), fresh, n))
            IN  /\ ll \in Seq(RuleNodes) /\ mm \in Seq(RuleNodes)
                /\ pp \in 1..(Len(ll) + 1) /\ pp \in 1..Len(mm) /\ pp \in fresh
                /\ mm = InsertAt(ll, pp, T[pp]) /\ ll = RemoveAt(mm, pp)
        BY OneStep
      <3>. QED  BY <3>1 DEF p, less, more
    <2>. HIDE DEF v, p, less, more
    <2>5. ops[n].path = <<"acls", p>> /\ ops[n].do = "add" /\ ops[n].path[2] = p /\ ops[n].value = T[p]
      BY <2>2, <2>4 DEF Op
    <2>6. Fits("acls", less, ops[n])  BY <2>4, <2>5 DEF Fits
    <2>7. more = Edited("acls", less, ops[n])  BY <2>4, <2>5 DEF Edited
    <2>. QED  BY <2>3, <2>4, <2>5, <2>6, <2>7, RuleLists
  <1>6. IsEdits(v, "acls", ops)
    <2>. HIDE DEF v, C
    <2>. QED  BY <1>2, <1>5 DEF IsEdits
  <1>. HIDE DEF v, C, N
  <1>7. Runs(x, ops, PtWith(x, "acls", v[Len(ops)]))  BY <1>2, <1>3, <1>6, SectionRun
  <1>. QED  BY <1>2, <1>4, <1>7 DEF ops

-----------------------------------------------------------------------------
(* The list that diffSeq aims at.                                          *)

Gone(N, K) == {i \in 1..N : \A p \in K : p[1] # i}
Fresh(N, K) == {j \in 1..N : \A p \in K : p[2] # j}

\* As many elements stay as can stay.
MostStay(a, new, t) ==
  \A at \in SUBSET DOMAIN a : CouldStay(a, new, at) => Cardinality(at) <= Cardinality({j \in DOMAIN t : t[j].old})

LEMMA IsOfNodes ==
  ASSUME NEW S, NEW s \in Seq(PtNodes(S))
  PROVE  /\ PtIs(s) \in Seq(S) /\ Len(PtIs(s)) = Len(s) /\ DOMAIN PtIs(s) = 1..Len(s) /\ Len(s) \in Nat
         /\ \A i \in 1..Len(s) : PtIs(s)[i] = s[i].is /\ s[i].is \in S /\ s[i].old \in BOOLEAN
  <1>. DEFINE N == Len(s)
              a == PtIs(s)
  <1>1. N \in Nat /\ DOMAIN s = 1..N /\ \A i \in 1..N : s[i] \in PtNodes(S)  OBVIOUS
  <1>2. \A i \in 1..N : s[i].is \in S /\ s[i].old \in BOOLEAN  BY <1>1 DEF PtNodes
  <1>3. a = [i \in 1..N |-> s[i].is]  BY <1>1 DEF PtIs
  <1>. HIDE DEF a, N
  <1>4. a \in [1..N -> S]  BY <1>2, <1>3
  <1>5. a \in Seq(S) /\ Len(a) = N  BY <1>1, <1>4, AList
  <1>6. \A i \in 1..N : a[i] = s[i].is  BY <1>3
  <1>7. DOMAIN a = 1..N  BY <1>3
  <1>. QED  BY <1>1, <1>2, <1>5, <1>6, <1>7 DEF a, N

AllOld(s) == \A i \in DOMAIN s : s[i].old
IsTarget(T, s, new, K) ==
  /\ T \in Seq(RuleNodes) /\ Len(T) = Len(new) /\ PtIs(T) = new
  /\ Sublist(s, (1..Len(s)) \ Gone(Len(s), K)) = Sublist(T, (1..Len(new)) \ Fresh(Len(new), K))
  /\ \A j \in Fresh(Len(new), K) : T[j] = Node(new[j])
  /\ MostStay(PtIs(s), new, T)

\* There is a list that says what was sent, with the old elements of a longest
\* common subsequence in it.
LEMMA Target ==
  ASSUME NEW s \in Seq(RuleNodes), AllOld(s), NEW new \in Seq(PtRules),
         NEW l, NEW K, Best(PtIs(s), new, <<1, 1>>, l, K)
  PROVE  \E T : IsTarget(T, s, new, K)
  <1>. DEFINE a == PtIs(s)
              M == Len(s)
              N == Len(new)
              gone == Gone(M, K)
              fresh == Fresh(N, K)
              P == (1..M) \ gone
              Q == (1..N) \ fresh
              from == [j \in 1..N |-> CHOOSE i \in 1..M : <<i, j>> \in K]
              T == [j \in 1..N |-> IF j \in fresh THEN Node(new[j]) ELSE s[from[j]]]
  <1>1. /\ a \in Seq(PtRules) /\ Len(a) = M /\ DOMAIN a = 1..M /\ M \in Nat
        /\ \A i \in 1..M : a[i] = s[i].is /\ s[i].is \in PtRules /\ s[i].old \in BOOLEAN
    <2>1. s \in Seq(PtNodes(PtRules))  BY DEF RuleNodes
    <2>. QED  BY <2>1, IsOfNodes
  <1>2. N \in Nat /\ DOMAIN new = 1..N /\ DOMAIN s = 1..M /\ (\A j \in 1..N : new[j] \in PtRules)
        /\ \A i \in 1..M : s[i] \in RuleNodes
    OBVIOUS
  <1>3. /\ l \in Nat /\ IsFiniteSet(K) /\ Cardinality(K) = l /\ K \subseteq (1..M) \X (1..N)
        /\ \A p \in K : a[p[1]] = new[p[2]]
        /\ \A p, q \in K : p = q \/ (p[1] < q[1] /\ p[2] < q[2]) \/ (q[1] < p[1] /\ q[2] < p[2])
        /\ NoneLonger(a, new, l, <<1, 1>>)
    BY <1>1 DEF Best, Chain
  <1>. HIDE DEF a, M, N
  <1>4. \A p \in K : p = <<p[1], p[2]>> /\ p[1] \in 1..M /\ p[2] \in 1..N  BY <1>3
  <1>5. P = {p[1] : p \in K} /\ Q = {p[2] : p \in K}
    <2>1. P = {p[1] : p \in K}  BY <1>4 DEF Gone
    <2>2. Q = {p[2] : p \in K}  BY <1>4 DEF Fresh
    <2>. QED  BY <2>1, <2>2
  <1>6. ASSUME NEW p \in K PROVE from[p[2]] = p[1]
    <2>1. p[2] \in 1..N /\ <<p[1], p[2]>> \in K /\ p[1] \in 1..M  BY <1>4
    <2>2. from[p[2]] = CHOOSE i \in 1..M : <<i, p[2]>> \in K  BY <2>1
    <2>. DEFINE i == CHOOSE i \in 1..M : <<i, p[2]>> \in K
    <2>3. i \in 1..M /\ <<i, p[2]>> \in K  BY <2>1
    <2>. HIDE DEF i
    <2>. DEFINE q == <<i, p[2]>>
    <2>4. q \in K /\ q[1] = i /\ q[2] = p[2]  BY <2>3
    <2>. HIDE DEF q
    <2>5. q = p  BY <1>3, <1>4, <2>1, <2>4
    <2>6. i = p[1]  BY <2>4, <2>5
    <2>. QED  BY <2>2, <2>6 DEF i
  <1>7. \A j \in 1..N : new[j] \in PtRules /\ Node(new[j]) \in RuleNodes /\ Node(new[j]).is = new[j] /\ ~Node(new[j]).old
    BY <1>2 DEF Node, RuleNodes, PtNodes
  <1>8. \A i \in 1..M : s[i] \in RuleNodes /\ s[i].old
    BY <1>2 DEF AllOld
  <1>9. ASSUME NEW j \in 1..N, j \notin fresh
        PROVE  from[j] \in 1..M /\ a[from[j]] = new[j] /\ \E p \in K : p[2] = j /\ p[1] = from[j]
    <2>1. PICK p \in K : p[2] = j  BY <1>9 DEF Fresh
    <2>2. from[j] = p[1]  BY <1>6, <2>1
    <2>. HIDE DEF from
    <2>. QED  BY <1>3, <1>4, <2>1, <2>2
  <1>10. ASSUME NEW j \in 1..N
         PROVE  /\ T[j] = IF j \in fresh THEN Node(new[j]) ELSE s[from[j]]
                /\ T[j] \in RuleNodes /\ T[j].is = new[j] /\ (T[j].old <=> j \notin fresh)
    <2>1. T[j] = IF j \in fresh THEN Node(new[j]) ELSE s[from[j]]  OBVIOUS
    <2>. HIDE DEF T, from, fresh
    <2>2. CASE j \in fresh  BY <1>7, <2>1, <2>2
    <2>3. CASE j \notin fresh
      <3>1. from[j] \in 1..M /\ a[from[j]] = new[j]  BY <1>9, <2>3
      <3>2. s[from[j]] \in RuleNodes /\ s[from[j]].old /\ s[from[j]].is = new[j]  BY <1>1, <1>8, <3>1 DEF M, a
      <3>. QED  BY <2>1, <2>3, <3>2
    <2>. QED  BY <2>2, <2>3
  <1>11. T \in Seq(RuleNodes) /\ Len(T) = N /\ DOMAIN T = 1..N
    <2>1. DOMAIN T = 1..N /\ T = [j \in 1..N |-> T[j]]  OBVIOUS
    <2>. HIDE DEF T
    <2>2. T \in [1..N -> RuleNodes]  BY <1>10, <2>1
    <2>. QED  BY <1>2, <2>1, <2>2, AList
  <1>. HIDE DEF T, from, gone, fresh
  <1>12. PtIs(T) = new
    <2>1. PtIs(T) = [j \in 1..N |-> new[j]]  BY <1>10, <1>11 DEF PtIs
    <2>2. new = [j \in 1..N |-> new[j]]  BY <1>2
    <2>. QED  BY <2>1, <2>2
  <1>13. Sublist(s, P) = Sublist(T, Q)
    <2>. DEFINE to(i) == CHOOSE j \in 1..N : <<i, j>> \in K
                f == [i \in P |-> to(i)]
    <2>1. ASSUME NEW p \in K PROVE f[p[1]] = p[2]
      <3>1. p[1] \in P /\ p[2] \in 1..N /\ <<p[1], p[2]>> \in K /\ p[1] \in 1..M  BY <1>4, <1>5
      <3>2. f[p[1]] = CHOOSE j \in 1..N : <<p[1], j>> \in K
        <4>. HIDE DEF P
        <4>. QED  BY <3>1
      <3>. DEFINE j == CHOOSE j \in 1..N : <<p[1], j>> \in K
      <3>3. j \in 1..N /\ <<p[1], j>> \in K  BY <3>1
      <3>. HIDE DEF j
      <3>. DEFINE q == <<p[1], j>>
      <3>4. q \in K /\ q[2] = j /\ q[1] = p[1]  BY <3>3
      <3>. HIDE DEF q
      <3>5. q = p  BY <1>3, <1>4, <3>1, <3>4
      <3>6. j = p[2]  BY <3>4, <3>5
      <3>. QED  BY <3>2, <3>6 DEF j
    <2>2. DOMAIN f = P /\ f = [i \in P |-> f[i]]
      <3>. HIDE DEF P, to
      <3>. QED  OBVIOUS
    <2>. HIDE DEF f, P, Q
    <2>3. \A i \in P : \E p \in K : p[1] = i /\ f[i] = p[2]  BY <1>5, <2>1
    <2>4. f \in [P -> Q]
      <3>1. \A i \in P : f[i] \in Q  BY <1>5, <2>3
      <3>. QED  BY <2>2, <3>1
    <2>5. \A k \in Q : \E i \in P : f[i] = k  BY <1>5, <2>1
    <2>6. \A i, j \in P : i < j => f[i] < f[j]
      <3>1. SUFFICES ASSUME NEW i \in P, NEW j \in P, i < j PROVE f[i] < f[j]  OBVIOUS
      <3>2. PICK p \in K : p[1] = i /\ f[i] = p[2]  BY <2>3
      <3>3. PICK q \in K : q[1] = j /\ f[j] = q[2]  BY <2>3
      <3>4. p[1] \in Nat /\ q[1] \in Nat /\ p[2] \in Nat /\ q[2] \in Nat  BY <1>4
      <3>. QED  BY <1>3, <3>1, <3>2, <3>3, <3>4
    <2>7. \A i \in P : s[i] = T[f[i]]
      <3>1. SUFFICES ASSUME NEW i \in P PROVE s[i] = T[f[i]]  OBVIOUS
      <3>2. PICK p \in K : p[1] = i /\ f[i] = p[2]  BY <2>3
      <3>3. p[2] \in 1..N /\ p[2] \notin fresh  BY <1>4, <3>2 DEF fresh, Fresh
      <3>. QED  BY <1>6, <1>10, <3>2, <3>3
    <2>8. Places(P, Len(s)) /\ Places(Q, Len(T))  BY <1>11 DEF Places, P, Q, M
    <2>. QED  BY <1>11, <2>4, <2>5, <2>6, <2>7, <2>8, SameParts
  <1>14. Cardinality({j \in DOMAIN T : T[j].old}) = l
    <2>1. {j \in DOMAIN T : T[j].old} = Q  BY <1>10, <1>11
    <2>. DEFINE g == [p \in K |-> p[2]]
    <2>. HIDE DEF Q
    <2>2. g \in [K -> Q]  BY <1>5
    <2>3. \A p, q \in K : g[p] = g[q] => p = q
      <3>1. SUFFICES ASSUME NEW p \in K, NEW q \in K, p[2] = q[2] PROVE p = q  OBVIOUS
      <3>2. p[2] \in Nat /\ q[2] \in Nat  BY <1>4
      <3>. QED  BY <1>3, <3>1, <3>2
    <2>4. \A k \in Q : \E p \in K : g[p] = k  BY <1>5
    <2>. HIDE DEF g
    <2>5. Cardinality(Q) = Cardinality(K)  BY <1>3, <2>2, <2>3, <2>4, SameSize
    <2>. QED  BY <1>3, <2>1, <2>5
  <1>15. MostStay(a, new, T)
    <2>1. SUFFICES ASSUME NEW at \in SUBSET DOMAIN a, CouldStay(a, new, at) PROVE Cardinality(at) <= l
      BY <1>14 DEF MostStay
    <2>2. PICK to \in [at -> DOMAIN new] :
            (\A i \in at : new[to[i]] = a[i]) /\ \A i, j \in at : i < j => to[i] < to[j]
      BY <2>1 DEF CouldStay
    <2>3. at \subseteq 1..M  BY <1>1
    <2>4. Common(a, new, at, to, <<1, 1>>)
      <3>1. <<1, 1>>[1] = 1 /\ <<1, 1>>[2] = 1  OBVIOUS
      <3>2. to \in [at -> 1..Len(new)]  BY <1>2, <2>2 DEF N
      <3>3. at \subseteq 1..Len(a)  BY <1>1, <2>3
      <3>. QED  BY <2>2, <3>1, <3>2, <3>3 DEF Common
    <2>. QED  BY <1>3, <2>4 DEF NoneLonger
  <1>16. \A j \in fresh : T[j] = Node(new[j])
    <2>1. fresh \subseteq 1..N  BY DEF fresh, Fresh
    <2>. QED  BY <1>10, <2>1
  <1>17. IsTarget(T, s, new, K)  BY <1>11, <1>12, <1>13, <1>15, <1>16 DEF IsTarget, a, M, N, gone, fresh
  <1>. QED  BY <1>17

-----------------------------------------------------------------------------
(* Removals, then additions.                                               *)

NewRules(d, e, new) ==
  /\ PtModel(e).acls = new
  /\ PtHas(d, "acls") => PtHas(e, "acls") /\ MostStay(PtIs(d["acls"]), new, e["acls"])

ChangedIn(d, e, K) ==
  /\ DOMAIN e \ K = DOMAIN d \ K
  /\ \A k \in DOMAIN d \ K : e[k] = d[k]
SameIn(d, x, K) ==
  /\ DOMAIN x \cap K = DOMAIN d \cap K
  /\ \A k \in DOMAIN d \cap K : x[k] = d[k]

\* diffSeq, in a document whose other sections may have changed.
LEMMA DiffSeqRuns ==
  ASSUME NEW d, PtDocument(d), PtAllOld(d), NEW new \in Seq(PtRules), NEW x, IsDoc(x), SameIn(d, x, {"acls"})
  PROVE  \E e : IsDoc(e) /\ Runs(x, DiffSeq("acls", d, new), e) /\ ChangedIn(x, e, {"acls"}) /\ NewRules(d, e, new)
  <1>. DEFINE ops == DiffSeq("acls", d, new)
  <1>1. CASE ~PtHas(d, "acls") /\ new = <<>>
    <2>1. ops = <<>>  BY <1>1 DEF DiffSeq
    <2>2. ~PtHas(x, "acls")  BY <1>1 DEF SameIn, PtHas
    <2>3. PtModel(x).acls = new  BY <1>1, <2>2 DEF PtModel
    <2>4. Runs(x, ops, x)  BY <2>1, RunEmpty
    <2>. QED  BY <1>1, <2>3, <2>4 DEF NewRules, ChangedIn
  <1>2. CASE ~PtHas(d, "acls") /\ new # <<>>
    <2>. DEFINE v == [j \in DOMAIN new |-> Node(new[j])]
                o == Op("add", <<"acls">>, v)
                e == PtWith(x, "acls", v)
    <2>1. ops = <<o>>  BY <1>2 DEF DiffSeq
    <2>2. o.path = <<"acls">> /\ Len(o.path) = 1 /\ o.path[1] = "acls" /\ o.do = "add" /\ o.value = v  BY DEF Op
    <2>3. v \in Seq(RuleNodes) /\ PtIs(v) = new
      <3>1. DOMAIN new = 1..Len(new) /\ Len(new) \in Nat /\ \A j \in 1..Len(new) : new[j] \in PtRules  OBVIOUS
      <3>2. \A j \in 1..Len(new) : Node(new[j]) \in RuleNodes /\ Node(new[j]).is = new[j]
        BY <3>1 DEF Node, RuleNodes, PtNodes
      <3>3. v \in [1..Len(new) -> RuleNodes] /\ \A j \in 1..Len(new) : v[j].is = new[j]  BY <3>1, <3>2
      <3>. HIDE DEF v
      <3>4. v \in Seq(RuleNodes)  BY <3>1, <3>3, AList
      <3>5. PtIs(v) = [j \in 1..Len(new) |-> new[j]]  BY <3>3 DEF PtIs
      <3>. QED  BY <3>1, <3>4, <3>5
    <2>. HIDE DEF v, o
    <2>4. Applicable(x, o) /\ Applied(x, o) = e  BY <2>2 DEF Applicable, Applied
    <2>5. Runs(x, ops, e)  BY <2>1, <2>4, RunOne
    <2>6. IsWith(x, "acls", v, e)  BY WithIs
    <2>. HIDE DEF e
    <2>7. PtModel(e).acls = new
      <3>1. PtHas(e, "acls")  BY <2>3, <2>6, RuleLists DEF PtHas, IsWith
      <3>. QED  BY <2>3, <2>6, <3>1 DEF PtModel, IsWith
    <2>8. ChangedIn(x, e, {"acls"})  BY <2>6 DEF ChangedIn, IsWith
    <2>. QED  BY <1>2, <2>5, <2>6, <2>7, <2>8 DEF NewRules, IsWith
  <1>3. CASE PtHas(d, "acls")
    <2>. DEFINE s == d["acls"]
                a == PtIs(s)
                K == Lcs(a, new)
                gone == Gone(Len(s), K)
                fresh == Fresh(Len(new), K)
    <2>1. s \in Seq(RuleNodes) /\ AllOld(s)
      <3>1. s \in PtValues("acls")  BY <1>3 DEF PtDocument, PtHas
      <3>2. s \in Seq(RuleNodes)  BY <3>1 DEF PtValues, RuleNodes
      <3>3. AllOld(s)  BY <1>3 DEF PtAllOld, AllOld
      <3>. QED  BY <3>2, <3>3
    <2>2. "acls" \in DOMAIN x /\ x["acls"] = s  BY <1>3 DEF PtHas, SameIn
    <2>3. DOMAIN s = 1..Len(s) /\ Len(s) \in Nat /\ DOMAIN new = 1..Len(new) /\ Len(new) \in Nat  BY <2>1
    <2>4. ops = RemoveOps("acls", gone) \o AddOps("acls", fresh, new)
      <3>1. d.acls = s  OBVIOUS
      <3>. QED  BY <1>3, <2>3 DEF DiffSeq, Gone, Fresh
    <2>5. PICK l : Best(a, new, <<1, 1>>, l, K)
      <3>1. Len(a) \in Nat  BY <2>1, IsOfNodes DEF RuleNodes
      <3>. QED  BY <2>3, <3>1, LcsIsLongest
    <2>. HIDE DEF K, s
    <2>6. PICK T : IsTarget(T, s, new, K)  BY <2>1, <2>5, Target
    <2>7. /\ T \in Seq(RuleNodes) /\ Len(T) = Len(new) /\ PtIs(T) = new
          /\ Sublist(s, (1..Len(s)) \ gone) = Sublist(T, (1..Len(new)) \ fresh)
          /\ \A j \in fresh : T[j] = Node(new[j])
          /\ MostStay(PtIs(s), new, T)
      BY <2>6 DEF IsTarget
    <2>17. Places(gone, Len(s)) /\ Places(fresh, Len(T))  BY <2>7 DEF Places, Gone, Fresh
    <2>. DEFINE y == PtWith(x, "acls", Sublist(s, (1..Len(s)) \ gone))
                e == PtWith(x, "acls", T)
    <2>. HIDE DEF gone, fresh
    <2>8. Runs(x, RemoveOps("acls", gone), y)  BY <2>1, <2>2, <2>17, Removed
    <2>9. "acls" \in DOMAIN y /\ y["acls"] = Sublist(s, (1..Len(s)) \ gone) /\ IsDoc(y) /\ PtWith(y, "acls", T) = e
      <3>1. IsWith(x, "acls", Sublist(s, (1..Len(s)) \ gone), y)  BY WithIs
      <3>2. PtWith(y, "acls", T) = e  BY WithTwice
      <3>. HIDE DEF y, e
      <3>. QED  BY <3>1, <3>2 DEF IsWith
    <2>. HIDE DEF y
    <2>10. Runs(y, AddOps("acls", fresh, new), PtWith(y, "acls", T))
      <3>1. y["acls"] = Sublist(T, (1..Len(T)) \ fresh)  BY <2>7, <2>9
      <3>. QED  BY <2>7, <2>17, <2>9, <3>1, Added
    <2>11. Runs(x, ops, e)  BY <2>4, <2>8, <2>9, <2>10, RunJoined
    <2>12. IsWith(x, "acls", T, e)  BY WithIs
    <2>. HIDE DEF e, ops
    <2>13. PtModel(e).acls = new /\ PtHas(e, "acls")
      <3>1. PtHas(e, "acls")  BY <2>7, <2>12, RuleLists DEF PtHas, IsWith
      <3>. QED  BY <2>7, <2>12, <3>1 DEF PtModel, IsWith
    <2>14. ChangedIn(x, e, {"acls"})  BY <2>12 DEF ChangedIn, IsWith
    <2>15. NewRules(d, e, new)  BY <2>7, <2>12, <2>13 DEF NewRules, IsWith, s
    <2>. QED  BY <2>11, <2>12, <2>14, <2>15 DEF ops, IsWith
  <1>. QED  BY <1>1, <1>2, <1>3

-----------------------------------------------------------------------------
(* Maps.                                                                   *)

\* A list of all elements of a set.
Enumerates(q, S) ==
  /\ q = [i \in 1..Len(q) |-> q[i]] /\ Len(q) \in Nat
  /\ \A i \in 1..Len(q) : q[i] \in S
  /\ \A i, j \in 1..Len(q) : q[i] = q[j] => i = j
  /\ \A y \in S : \E i \in 1..Len(q) : q[i] = y

LEMMA SetListed ==
  ASSUME NEW S, IsFiniteSet(S)
  PROVE  Enumerates(SetToSeq(S), S)
  <1>. DEFINE C == Cardinality(S)
              q == SetToSeq(S)
              OneToOne(f) == f \in [1..C -> S] /\ IsInjective(f)
  <1>1. C \in Nat /\ ExistsBijection(1..C, S)  BY FS_CardinalityType
  <1>2. \E f : OneToOne(f)  BY <1>1 DEF ExistsBijection, Bijection, Injection
  <1>3. OneToOne(q)
    <2>1. q = CHOOSE f \in [1..C -> S] : IsInjective(f)  BY DEF SetToSeq
    <2>2. \E f \in [1..C -> S] : IsInjective(f)  BY <1>2
    <2>. HIDE DEF C, q
    <2>. QED  BY <2>1, <2>2
  <1>. HIDE DEF C, q
  <1>4. q \in Seq(S) /\ Len(q) = C  BY <1>1, <1>3, AList
  <1>5. \A i, j \in 1..C : q[i] = q[j] => i = j  BY <1>3 DEF IsInjective
  <1>6. \A i \in 1..C : q[i] \in S  BY <1>3
  <1>7. \A y \in S : \E i \in 1..C : q[i] = y
    <2>. DEFINE I == {q[i] : i \in 1..C}
                U == 1..C
    <2>1. IsFiniteSet(U) /\ Cardinality(U) = C  BY <1>1, Upto
    <2>2. q \in [U -> I] /\ \A y \in I : \E i \in U : q[i] = y  BY <1>3
    <2>3. I \subseteq S  BY <1>6
    <2>4. \A i, j \in U : q[i] = q[j] => i = j  BY <1>5
    <2>. HIDE DEF I, U
    <2>5. Cardinality(I) = C  BY <2>1, <2>2, <2>4, SameSize
    <2>6. I = S  BY <2>3, <2>5, FS_Subset DEF C
    <2>. QED  BY <2>2, <2>6 DEF U
  <1>8. q = [i \in 1..C |-> q[i]]  BY <1>3
  <1>9. Enumerates(q, S)  BY <1>1, <1>4, <1>5, <1>6, <1>7, <1>8 DEF Enumerates
  <1>. QED  BY <1>9 DEF q

OwnerNodes == PtNodes(PtOwners)
IsOwnerMap(k) == k \in {"groups", "routes"}

LEMMA MapsNotNull ==
  ASSUME NEW k, IsOwnerMap(k), NEW names, names \subseteq PtNames, NEW v \in [names -> OwnerNodes]
  PROVE  v # PtNull
  <1>1. PtNull \notin PtValues(k)  BY PatcherAssumption DEF PtKeys, IsOwnerMap
  <1>2. PtValues(k) = PtMaps(OwnerNodes)  BY DEF PtValues, OwnerNodes, IsOwnerMap
  <1>3. v \in PtMaps(OwnerNodes)  BY DEF PtMaps
  <1>. QED  BY <1>1, <1>2, <1>3

\* The entries that are not wanted go, in any order.
LEMMA MapRemoved ==
  ASSUME NEW x, IsDoc(x), NEW k, IsOwnerMap(k), k \in DOMAIN x,
         NEW names, names \subseteq PtNames, x[k] \in [names -> OwnerNodes],
         NEW S, S \subseteq names, NEW q, Enumerates(q, S)
  PROVE  Runs(x, [i \in DOMAIN q |-> Op("remove", <<k, q[i]>>, <<>>)],
              PtWith(x, k, [n \in names \ S |-> x[k][n]]))
  <1>. DEFINE u == x[k]
              N == Len(q)
              ops == [i \in DOMAIN q |-> Op("remove", <<k, q[i]>>, <<>>)]
              Taken(r) == {q[i] : i \in 1..r}
              v == [r \in 0..N |-> [n \in names \ Taken(r) |-> u[n]]]
  <1>1. /\ q = [i \in 1..N |-> q[i]] /\ N \in Nat
        /\ \A i \in 1..N : q[i] \in S
        /\ \A i, j \in 1..N : q[i] = q[j] => i = j
        /\ \A y \in S : \E i \in 1..N : q[i] = y
    BY DEF Enumerates
  <1>. HIDE DEF N
  <1>2. DOMAIN q = 1..N  BY <1>1
  <1>3. IsList(ops) /\ Len(ops) = N /\ \A n \in 1..N : ops[n] = Op("remove", <<k, q[n]>>, <<>>)
    <2>1. ops = [n \in 1..N |-> Op("remove", <<k, q[n]>>, <<>>)]  BY <1>2
    <2>. HIDE DEF ops
    <2>. DEFINE F == {ops[n] : n \in 1..N}
    <2>2. ops \in [1..N -> F]  BY <2>1
    <2>. HIDE DEF F
    <2>3. ops \in Seq(F) /\ Len(ops) = N  BY <1>1, <2>2, AList
    <2>. QED  BY <2>1, <2>3, ListHas
  <1>4. Taken(0) = {} /\ Taken(N) = S
    <2>1. 1..0 = {}  OBVIOUS
    <2>. QED  BY <1>1, <2>1
  <1>5. ASSUME NEW r \in 1..N
        PROVE  Taken(r) = Taken(r - 1) \cup {q[r]} /\ q[r] \in names \ Taken(r - 1)
    <2>1. 1..r = (1..(r - 1)) \cup {r}  BY <1>1
    <2>2. Taken(r) = Taken(r - 1) \cup {q[r]}  BY <2>1
    <2>3. \A i \in 1..(r - 1) : i \in 1..N /\ i # r  BY <1>1
    <2>4. q[r] \notin Taken(r - 1)  BY <1>1, <2>3
    <2>. QED  BY <1>1, <2>2, <2>4
  <1>. HIDE DEF ops, Taken
  <1>6. u \in [names -> OwnerNodes]  OBVIOUS
  <1>7. v[0] = u
    <2>1. 0 \in 0..N  BY <1>1
    <2>2. v[0] = [n \in names |-> u[n]]  BY <1>4, <2>1
    <2>. QED  BY <1>6, <2>2
  <1>8. v[N] = [n \in names \ S |-> u[n]]
    <2>1. N \in 0..N  BY <1>1
    <2>. QED  BY <1>4, <2>1
  <1>. HIDE DEF u
  <1>9. ASSUME NEW n \in 1..N
        PROVE  /\ \E p : ops[n].path = <<k, p>>
               /\ v[n - 1] # PtNull /\ Fits(k, v[n - 1], ops[n]) /\ v[n] = Edited(k, v[n - 1], ops[n])
    <2>. DEFINE w == [y \in names \ Taken(n - 1) |-> u[y]]
    <2>1. v[n - 1] = w /\ v[n] = [y \in names \ Taken(n) |-> u[y]]
      <3>1. n - 1 \in 0..N /\ n \in 0..N  BY <1>1
      <3>. QED  BY <3>1
    <2>2. ops[n].path = <<k, q[n]>> /\ ops[n].do = "remove" /\ ops[n].path[2] = q[n]  BY <1>3 DEF Op
    <2>3. DOMAIN w = names \ Taken(n - 1) /\ w \in [names \ Taken(n - 1) -> OwnerNodes]
      BY <1>6
    <2>4. w # PtNull
      <3>1. names \ Taken(n - 1) \subseteq PtNames  OBVIOUS
      <3>. HIDE DEF w
      <3>. QED  BY <2>3, <3>1, MapsNotNull
    <2>5. PtWithout(w, q[n]) = [y \in names \ Taken(n) |-> u[y]]
      <3>1. DOMAIN w \ {q[n]} = names \ Taken(n)  BY <1>5, <2>3
      <3>2. \A y \in names \ Taken(n) : w[y] = u[y]  BY <1>5
      <3>. HIDE DEF w
      <3>. QED  BY <3>1, <3>2 DEF PtWithout
    <2>6. q[n] \in DOMAIN w  BY <1>5, <2>3
    <2>. HIDE DEF v, w
    <2>7. k # "acls"  BY DEF IsOwnerMap
    <2>8. Fits(k, w, ops[n])  BY <2>2, <2>6, <2>7 DEF Fits
    <2>9. Edited(k, w, ops[n]) = PtWithout(w, q[n])  BY <2>2, <2>7 DEF Edited
    <2>. QED  BY <2>1, <2>2, <2>4, <2>5, <2>8, <2>9
  <1>10. IsEdits(v, k, ops)
    <2>. HIDE DEF v
    <2>. QED  BY <1>3, <1>9 DEF IsEdits
  <1>. HIDE DEF v
  <1>11. Runs(x, ops, PtWith(x, k, v[Len(ops)]))  BY <1>3, <1>7, <1>10, SectionRun DEF u
  <1>. QED  BY <1>3, <1>8, <1>11 DEF ops, u

Overlaid(u, S, new) == [n \in DOMAIN u \cup S |-> IF n \in S THEN Node(new[n]) ELSE u[n]]

SetOps(k, q, was, new) ==
  [i \in DOMAIN q |-> Op(IF q[i] \in was THEN "replace" ELSE "add", <<k, q[i]>>, Node(new[q[i]]))]

\* The others are added and replaced, in any order.
LEMMA MapSet ==
  ASSUME NEW x, IsDoc(x), NEW k, IsOwnerMap(k), k \in DOMAIN x,
         NEW names, names \subseteq PtNames, x[k] \in [names -> OwnerNodes],
         NEW S, S \subseteq PtNames, NEW q, Enumerates(q, S), NEW was, S \cap was \subseteq names,
         NEW new, \A y \in S : new[y] \in PtOwners
  PROVE  Runs(x, SetOps(k, q, was, new), PtWith(x, k, Overlaid(x[k], S, new)))
  <1>. DEFINE u == x[k]
              N == Len(q)
              ops == SetOps(k, q, was, new)
              Done(r) == {q[i] : i \in 1..r}
              v == [r \in 0..N |-> Overlaid(u, Done(r), new)]
  <1>1. /\ q = [i \in 1..N |-> q[i]] /\ N \in Nat
        /\ \A i \in 1..N : q[i] \in S
        /\ \A y \in S : \E i \in 1..N : q[i] = y
    BY DEF Enumerates
  <1>. HIDE DEF N
  <1>2. DOMAIN q = 1..N  BY <1>1
  <1>3. IsList(ops) /\ Len(ops) = N
        /\ \A n \in 1..N : ops[n] = Op(IF q[n] \in was THEN "replace" ELSE "add", <<k, q[n]>>, Node(new[q[n]]))
    <2>1. ops = [n \in 1..N |-> Op(IF q[n] \in was THEN "replace" ELSE "add", <<k, q[n]>>, Node(new[q[n]]))]
      BY <1>2 DEF SetOps
    <2>. HIDE DEF ops
    <2>. DEFINE F == {ops[n] : n \in 1..N}
    <2>2. ops \in [1..N -> F]  BY <2>1
    <2>. HIDE DEF F
    <2>3. ops \in Seq(F) /\ Len(ops) = N  BY <1>1, <2>2, AList
    <2>. QED  BY <2>1, <2>3, ListHas
  <1>4. Done(0) = {} /\ Done(N) = S
    <2>1. 1..0 = {}  OBVIOUS
    <2>. QED  BY <1>1, <2>1
  <1>5. ASSUME NEW r \in 1..N PROVE Done(r) = Done(r - 1) \cup {q[r]}
    <2>1. 1..r = (1..(r - 1)) \cup {r}  BY <1>1
    <2>. QED  BY <2>1
  <1>5a. ASSUME NEW r \in 0..N PROVE Done(r) \subseteq S
    <2>1. \A i \in 1..r : i \in 1..N  BY <1>1
    <2>. QED  BY <1>1, <2>1
  <1>. HIDE DEF ops, Done
  <1>6. u \in [names -> OwnerNodes] /\ DOMAIN u = names  OBVIOUS
  <1>. HIDE DEF u
  <1>7. v[0] = u
    <2>1. 0 \in 0..N  BY <1>1
    <2>2. v[0] = Overlaid(u, {}, new)  BY <1>4, <2>1
    <2>3. Overlaid(u, {}, new) = [n \in names |-> u[n]]  BY <1>6 DEF Overlaid
    <2>. QED  BY <1>6, <2>2, <2>3
  <1>8. v[N] = Overlaid(u, S, new)
    <2>1. N \in 0..N  BY <1>1
    <2>. QED  BY <1>4, <2>1
  <1>9. ASSUME NEW n \in 1..N
        PROVE  /\ \E p : ops[n].path = <<k, p>>
               /\ v[n - 1] # PtNull /\ Fits(k, v[n - 1], ops[n]) /\ v[n] = Edited(k, v[n - 1], ops[n])
    <2>. DEFINE D == Done(n - 1)
                w == Overlaid(u, D, new)
                y == q[n]
    <2>1. v[n - 1] = w /\ v[n] = Overlaid(u, Done(n), new)
      <3>1. n - 1 \in 0..N /\ n \in 0..N  BY <1>1
      <3>. QED  BY <3>1
    <2>2. /\ ops[n].path = <<k, y>> /\ ops[n].path[2] = y /\ ops[n].value = Node(new[y])
          /\ ops[n].do = IF y \in was THEN "replace" ELSE "add"
      BY <1>3 DEF Op
    <2>3. D \subseteq S /\ y \in S
      <3>1. n - 1 \in 0..N  BY <1>1
      <3>. QED  BY <1>1, <1>5a, <3>1
    <2>. HIDE DEF D, v, y
    <2>4. DOMAIN w = names \cup D /\ w \in [names \cup D -> OwnerNodes]
      <3>1. \A z \in D : Node(new[z]) \in OwnerNodes  BY <2>3 DEF Node, OwnerNodes, PtNodes
      <3>. QED  BY <1>6, <3>1 DEF Overlaid
    <2>5. w # PtNull
      <3>1. names \cup D \subseteq PtNames  BY <2>3
      <3>. HIDE DEF w
      <3>. QED  BY <2>4, <3>1, MapsNotNull
    <2>6. PtWith(w, y, Node(new[y])) = Overlaid(u, Done(n), new)
      <3>1. Done(n) = D \cup {y}  BY <1>5 DEF D, y
      <3>2. DOMAIN w \cup {y} = DOMAIN u \cup (D \cup {y})  BY <1>6, <2>4
      <3>3. \A z \in DOMAIN u \cup (D \cup {y}) : z # y => w[z] = IF z \in D \cup {y} THEN Node(new[z]) ELSE u[z]
        BY DEF Overlaid
      <3>. HIDE DEF w
      <3>4. PtWith(w, y, Node(new[y])) = Overlaid(u, D \cup {y}, new)  BY <3>2, <3>3 DEF PtWith, Overlaid
      <3>. QED  BY <3>1, <3>4
    <2>. HIDE DEF w
    <2>7. k # "acls"  BY DEF IsOwnerMap
    <2>8. Fits(k, w, ops[n])
      <3>1. y \in was => y \in DOMAIN w  BY <2>3, <2>4
      <3>. QED  BY <2>2, <2>7, <3>1 DEF Fits
    <2>9. Edited(k, w, ops[n]) = PtWith(w, y, Node(new[y]))  BY <2>2, <2>7 DEF Edited
    <2>. QED  BY <2>1, <2>2, <2>5, <2>6, <2>8, <2>9
  <1>10. IsEdits(v, k, ops)
    <2>. HIDE DEF v
    <2>. QED  BY <1>3, <1>9 DEF IsEdits
  <1>. HIDE DEF v
  <1>11. Runs(x, ops, PtWith(x, k, v[Len(ops)]))  BY <1>3, <1>7, <1>10, SectionRun DEF u
  <1>. QED  BY <1>3, <1>8, <1>11 DEF ops, u

\* What is in a map afterwards: what was asked for, and the entries that said it
\* already as they were.
NewMap(d, e, k, new) ==
  /\ (IF PtHas(e, k) THEN PtIs(e[k]) ELSE <<>>) = new
  /\ PtHas(d, k) => PtHas(e, k) /\ \A n \in DOMAIN d[k] \cap DOMAIN new : d[k][n].is = new[n] => e[k][n] = d[k][n]

LEMMA WholeMap ==
  ASSUME NEW k, IsOwnerMap(k), NEW new \in PtMaps(PtOwners)
  PROVE  LET v == [n \in DOMAIN new |-> Node(new[n])]
         IN  v # PtNull /\ PtIs(v) = new
  <1>. DEFINE v == [n \in DOMAIN new |-> Node(new[n])]
  <1>1. PICK names \in SUBSET PtNames : new \in [names -> PtOwners]  BY DEF PtMaps
  <1>2. DOMAIN new = names /\ new = [n \in names |-> new[n]] /\ \A n \in names : new[n] \in PtOwners  BY <1>1
  <1>3. \A n \in names : Node(new[n]) \in OwnerNodes /\ Node(new[n]).is = new[n]
    BY <1>2 DEF Node, OwnerNodes, PtNodes
  <1>4. v \in [names -> OwnerNodes] /\ DOMAIN v = names /\ \A n \in names : v[n].is = new[n]  BY <1>2, <1>3
  <1>. HIDE DEF v
  <1>5. v # PtNull  BY <1>4, MapsNotNull
  <1>6. PtIs(v) = new  BY <1>2, <1>4 DEF PtIs
  <1>7. v # PtNull /\ PtIs(v) = new  BY <1>5, <1>6
  <1>. QED  BY <1>7 DEF v

LEMMA EmptyMap ==
  ASSUME NEW new \in PtMaps(PtOwners), DOMAIN new = {}
  PROVE  new = <<>>
  <1>1. PICK names \in SUBSET PtNames : new \in [names -> PtOwners]  BY DEF PtMaps
  <1>2. names = {}  BY <1>1
  <1>3. new = [n \in {} |-> new[n]]  BY <1>1, <1>2
  <1>4. 1..0 = {} /\ <<>> \in Seq(PtOwners) /\ Len(<<>>) = 0  OBVIOUS
  <1>5. <<>> \in [1..0 -> PtOwners]  BY <1>4
  <1>. QED  BY <1>1, <1>2, <1>4, <1>5

\* A section is added or replaced as a whole.
LEMMA AddedWhole ==
  ASSUME NEW x, NEW k, k # "autoApprovers", NEW v, k \in {"routes", "exitNode"} => PtHas(x, "autoApprovers")
  PROVE  Runs(x, <<Op("add", <<k>>, v)>>, PtWith(x, k, v))
  <1>. DEFINE o == Op("add", <<k>>, v)
  <1>1. o.path = <<k>> /\ Len(o.path) = 1 /\ o.path[1] = k /\ o.do = "add" /\ o.value = v  BY DEF Op
  <1>. HIDE DEF o
  <1>2. Applicable(x, o) /\ Applied(x, o) = PtWith(x, k, v)  BY <1>1 DEF Applicable, Applied
  <1>3. Runs(x, <<o>>, PtWith(x, k, v))  BY <1>2, RunOne
  <1>. QED  BY <1>3 DEF o

LEMMA ReplacedWhole ==
  ASSUME NEW x, NEW k \in DOMAIN x, k # "autoApprovers", NEW v, k \in {"routes", "exitNode"} => PtHas(x, "autoApprovers")
  PROVE  Runs(x, <<Op("replace", <<k>>, v)>>, PtWith(x, k, v))
  <1>. DEFINE o == Op("replace", <<k>>, v)
  <1>1. o.path = <<k>> /\ Len(o.path) = 1 /\ o.path[1] = k /\ o.do = "replace" /\ o.value = v  BY DEF Op
  <1>. HIDE DEF o
  <1>2. Applicable(x, o) /\ Applied(x, o) = PtWith(x, k, v)  BY <1>1 DEF Applicable, Applied
  <1>3. Runs(x, <<o>>, PtWith(x, k, v))  BY <1>2, RunOne
  <1>. QED  BY <1>3 DEF o

LEMMA WithChanges ==
  ASSUME NEW x, NEW k, NEW v, NEW e, IsWith(x, k, v, e)
  PROVE  IsDoc(e) /\ ChangedIn(x, e, {k}) /\ (v # PtNull => PtHas(e, k)) /\ e[k] = v
  BY DEF IsWith, ChangedIn, PtHas

\* diffListMap and diffStringMap.
LEMMA DiffMapRuns ==
  ASSUME NEW d, PtDocument(d), NEW k, IsOwnerMap(k), NEW new \in PtMaps(PtOwners),
         NEW x, IsDoc(x), SameIn(d, x, {k}), k = "routes" => PtHas(x, "autoApprovers")
  PROVE  \E e : IsDoc(e) /\ Runs(x, DiffMap(k, d, new), e) /\ ChangedIn(x, e, {k}) /\ NewMap(d, e, k, new)
  <1>. DEFINE ops == DiffMap(k, d, new)
  <1>0. k # "autoApprovers" /\ k # "exitNode"  BY DEF IsOwnerMap
  <1>1. CASE ~PtHas(d, k) /\ DOMAIN new = {}
    <2>1. ops = <<>>  BY <1>1 DEF DiffMap
    <2>2. ~PtHas(x, k)  BY <1>1 DEF SameIn, PtHas
    <2>3. new = <<>>  BY <1>1, EmptyMap
    <2>4. NewMap(d, x, k, new)  BY <1>1, <2>2, <2>3 DEF NewMap
    <2>5. Runs(x, ops, x)  BY <2>1, RunEmpty
    <2>. QED  BY <2>4, <2>5 DEF ChangedIn
  <1>2. CASE ~PtHas(d, k) /\ DOMAIN new # {}
    <2>. DEFINE v == [n \in DOMAIN new |-> Node(new[n])]
                e == PtWith(x, k, v)
    <2>1. ops = <<Op("add", <<k>>, v)>>  BY <1>2 DEF DiffMap
    <2>2. v # PtNull /\ PtIs(v) = new  BY WholeMap
    <2>. HIDE DEF v
    <2>3. Runs(x, ops, e)  BY <1>0, <2>1, AddedWhole
    <2>4. IsWith(x, k, v, e)  BY WithIs
    <2>. HIDE DEF e, ops
    <2>5. IsDoc(e) /\ ChangedIn(x, e, {k}) /\ PtHas(e, k) /\ e[k] = v  BY <2>2, <2>4, WithChanges
    <2>6. NewMap(d, e, k, new)  BY <1>2, <2>2, <2>5 DEF NewMap
    <2>. QED  BY <2>3, <2>5, <2>6 DEF ops
  <1>3. CASE PtHas(d, k)
    <2>. DEFINE u == d[k]
                G == DOMAIN u \ DOMAIN new
                H == {n \in DOMAIN new : n \in DOMAIN u => u[n].is # new[n]}
                first == [i \in DOMAIN SetToSeq(G) |-> Op("remove", <<k, SetToSeq(G)[i]>>, <<>>)]
                second == SetOps(k, SetToSeq(H), DOMAIN u, new)
                less == [n \in DOMAIN u \ G |-> u[n]]
                y == PtWith(x, k, less)
                e == PtWith(x, k, Overlaid(less, H, new))
    <2>1. PICK names \in SUBSET PtNames : u \in [names -> OwnerNodes]
      <3>1. u \in PtValues(k)  BY <1>3 DEF PtDocument, PtHas
      <3>2. u \in PtMaps(OwnerNodes)  BY <3>1 DEF PtValues, OwnerNodes, IsOwnerMap
      <3>. QED  BY <3>2 DEF PtMaps
    <2>2. PICK others \in SUBSET PtNames : new \in [others -> PtOwners]  BY DEF PtMaps
    <2>3. k \in DOMAIN x /\ x[k] = u  BY <1>3 DEF SameIn, PtHas
    <2>4. ops = first \o second
      <3>. HIDE DEF G
      <3>. DEFINE q == SetToSeq(H)
      <3>1. second = [i \in DOMAIN q |-> Op(IF q[i] \in DOMAIN u THEN "replace" ELSE "add", <<k, q[i]>>, Node(new[q[i]]))]
        BY DEF SetOps
      <3>. QED  BY <1>3, <3>1 DEF DiffMap, G
    <2>. HIDE DEF u
    <2>5. DOMAIN u = names /\ DOMAIN new = others /\ \A n \in names : u[n] \in OwnerNodes  BY <2>1, <2>2
    <2>6. G \subseteq names /\ H \subseteq PtNames /\ H \subseteq others /\ IsFiniteSet(G) /\ IsFiniteSet(H)
      <3>1. IsFiniteSet(PtNames)  BY PatcherAssumption
      <3>2. G \subseteq names /\ G \subseteq PtNames /\ H \subseteq PtNames /\ H \subseteq others  BY <2>5
      <3>. HIDE DEF G, H
      <3>. QED  BY <3>1, <3>2, FS_Subset
    <2>7. \A n \in others : new[n] \in PtOwners  BY <2>2
    <2>8. Enumerates(SetToSeq(G), G) /\ Enumerates(SetToSeq(H), H)
      <3>. HIDE DEF G, H
      <3>. QED  BY <2>6, SetListed
    <2>9. H \cap names \subseteq names \ G  BY <2>5
    <2>10. \A n \in others : n \notin H => n \in names /\ n \notin G /\ u[n].is = new[n]  BY <2>5
    <2>11. \A n \in names : n \notin G => n \in others  BY <2>5
    <2>12. \A n \in names : n \in others /\ u[n].is = new[n] => n \notin H /\ n \notin G  BY <2>5
    <2>. HIDE DEF G, H, ops
    <2>13. Runs(x, first, y)
      <3>. DEFINE q == SetToSeq(G)
      <3>1. x[k] \in [names -> OwnerNodes]  BY <2>1, <2>3
      <3>2. Enumerates(q, G) BY <2>8
      <3>. HIDE DEF q
      <3>3. Runs(x, [i \in DOMAIN q |-> Op("remove", <<k, q[i]>>, <<>>)],
                 PtWith(x, k, [n \in names \ G |-> x[k][n]]))
        BY <2>3, <2>6, <3>1, <3>2, MapRemoved
      <3>. QED  BY <2>3, <2>5, <3>3 DEF q
    <2>14. IsWith(x, k, less, y)  BY WithIs
    <2>15. less \in [names \ G -> OwnerNodes] /\ DOMAIN less = names \ G  BY <2>5
    <2>16. PtWith(y, k, Overlaid(less, H, new)) = e  BY WithTwice
    <2>17. \A n \in names \ G : less[n] = u[n]  BY <2>5
    <2>. HIDE DEF y, first, second, less
    <2>18. k \in DOMAIN y /\ y[k] = less /\ IsDoc(y)  BY <2>14 DEF IsWith
    <2>19. Runs(y, second, PtWith(y, k, Overlaid(less, H, new)))
      <3>. DEFINE q == SetToSeq(H)
      <3>1. y[k] \in [names \ G -> OwnerNodes] /\ names \ G \subseteq PtNames  BY <2>15, <2>18
      <3>2. Enumerates(q, H)  BY <2>8
      <3>3. \A n \in H : new[n] \in PtOwners  BY <2>6, <2>7
      <3>4. H \cap DOMAIN u \subseteq names \ G  BY <2>5, <2>9
      <3>. HIDE DEF q
      <3>. DEFINE rest == names \ G
      <3>5. rest \subseteq PtNames /\ y[k] \in [rest -> OwnerNodes] /\ H \cap DOMAIN u \subseteq rest
        BY <3>1, <3>4
      <3>. HIDE DEF rest
      <3>6. Runs(y, SetOps(k, q, DOMAIN u, new), PtWith(y, k, Overlaid(y[k], H, new)))
        BY <2>6, <2>18, <3>2, <3>3, <3>5, MapSet
      <3>. QED  BY <2>18, <3>6 DEF q, second
    <2>20. Runs(x, ops, e)  BY <2>4, <2>13, <2>16, <2>19, RunJoined
    <2>. DEFINE w == Overlaid(less, H, new)
    <2>21. /\ DOMAIN w = others
           /\ w \in [others -> OwnerNodes]
           /\ \A n \in others : w[n].is = new[n]
           /\ \A n \in names \cap others : u[n].is = new[n] => w[n] = u[n]
      <3>1. DOMAIN w = (names \ G) \cup H  BY <2>15 DEF Overlaid
      <3>2. (names \ G) \cup H = others  BY <2>6, <2>10, <2>11
      <3>3. \A n \in others : w[n] = IF n \in H THEN Node(new[n]) ELSE less[n]  BY <3>1, <3>2 DEF Overlaid
      <3>4. w = [n \in others |-> w[n]]  BY <3>1, <3>2 DEF Overlaid
      <3>5. \A n \in others : Node(new[n]) \in OwnerNodes /\ Node(new[n]).is = new[n]
        BY <2>7 DEF Node, OwnerNodes, PtNodes
      <3>. HIDE DEF w
      <3>6. \A n \in others : w[n] \in OwnerNodes /\ w[n].is = new[n]
        <4>1. SUFFICES ASSUME NEW n \in others PROVE w[n] \in OwnerNodes /\ w[n].is = new[n]  OBVIOUS
        <4>2. CASE n \in H  BY <3>3, <3>5, <4>2
        <4>3. CASE n \notin H
          <5>1. w[n] = u[n] /\ n \in names /\ u[n].is = new[n]  BY <2>10, <2>17, <3>3, <4>3
          <5>. QED  BY <2>5, <5>1
        <4>. QED  BY <4>2, <4>3
      <3>7. \A n \in names \cap others : u[n].is = new[n] => w[n] = u[n]  BY <2>12, <2>17, <3>3
      <3>. QED  BY <3>1, <3>2, <3>4, <3>6, <3>7
    <2>22. IsWith(x, k, w, e)  BY WithIs
    <2>. HIDE DEF w, e
    <2>23. w # PtNull  BY <2>21, MapsNotNull
    <2>24. IsDoc(e) /\ ChangedIn(x, e, {k}) /\ PtHas(e, k) /\ e[k] = w  BY <2>22, <2>23, WithChanges
    <2>25. PtIs(w) = new
      <3>1. PtIs(w) = [n \in others |-> new[n]]  BY <2>21 DEF PtIs
      <3>. QED  BY <2>2, <3>1
    <2>26. NewMap(d, e, k, new)  BY <2>5, <2>21, <2>24, <2>25 DEF NewMap, u
    <2>. QED  BY <2>20, <2>24, <2>26 DEF ops
  <1>. QED  BY <1>1, <1>2, <1>3

-----------------------------------------------------------------------------
(* The approvers and the flag.                                             *)

NewExit(d, e, new) ==
  /\ (IF PtHas(e, "exitNode") THEN e["exitNode"].is ELSE {}) = new
  /\ PtHas(d, "exitNode") => PtHas(e, "exitNode") /\ (d["exitNode"].is = new => e["exitNode"] = d["exitNode"])
NewApprovers(d, e, new) == NewMap(d, e, "routes", new.routes) /\ NewExit(d, e, new.exitNode)

LEMMA KeptMap ==
  ASSUME NEW d, NEW y, NEW e, NEW k, NEW K, k \notin K, ChangedIn(y, e, K), NEW new, NewMap(d, y, k, new)
  PROVE  NewMap(d, e, k, new)
  <1>1. (k \in DOMAIN e <=> k \in DOMAIN y) /\ (k \in DOMAIN y => e[k] = y[k])  BY DEF ChangedIn
  <1>2. PtHas(e, k) <=> PtHas(y, k)  BY <1>1 DEF PtHas
  <1>3. PtHas(y, k) => e[k] = y[k]  BY <1>1 DEF PtHas
  <1>. QED  BY <1>2, <1>3 DEF NewMap

LEMMA ChangedTwice ==
  ASSUME NEW x, NEW y, NEW e, NEW K, NEW J, NEW L, ChangedIn(x, y, K), ChangedIn(y, e, J), K \subseteq L, J \subseteq L
  PROVE  ChangedIn(x, e, L)
  <1>1. /\ DOMAIN y \ K = DOMAIN x \ K /\ \A k \in DOMAIN x \ K : y[k] = x[k]
        /\ DOMAIN e \ J = DOMAIN y \ J /\ \A k \in DOMAIN y \ J : e[k] = y[k]
    BY DEF ChangedIn
  <1>2. DOMAIN e \ L = DOMAIN x \ L  BY <1>1
  <1>3. \A k \in DOMAIN x \ L : k \in DOMAIN y \ J /\ k \in DOMAIN x \ K  BY <1>1
  <1>4. \A k \in DOMAIN x \ L : e[k] = x[k]  BY <1>1, <1>3
  <1>. QED  BY <1>2, <1>4 DEF ChangedIn

LEMMA ExitNotNull == \A new \in PtOwners : Node(new) # PtNull /\ Node(new).is = new
  <1>1. PtNull \notin PtValues("exitNode")  BY PatcherAssumption DEF PtKeys
  <1>2. PtValues("exitNode") = PtNodes(PtOwners)  BY DEF PtValues
  <1>. QED  BY <1>1, <1>2 DEF Node, PtNodes

LEMMA RoutesRun ==
  ASSUME NEW d, PtDocument(d), NEW new \in PtMaps(PtOwners), NEW x, IsDoc(x), SameIn(d, x, {"routes"}),
         PtHas(x, "autoApprovers")
  PROVE  LET ops == IF "routes" \in DOMAIN d /\ d["routes"] = PtNull /\ DOMAIN new # {}
                    THEN <<Op("replace", <<"routes">>, [n \in DOMAIN new |-> Node(new[n])])>>
                    ELSE DiffMap("routes", d, new)
         IN  \E y : IsDoc(y) /\ Runs(x, ops, y) /\ ChangedIn(x, y, {"routes"}) /\ NewMap(d, y, "routes", new)
  <1>1. CASE "routes" \in DOMAIN d /\ d["routes"] = PtNull /\ DOMAIN new # {}
    <2>. DEFINE v == [n \in DOMAIN new |-> Node(new[n])]
                y == PtWith(x, "routes", v)
    <2>1. v # PtNull /\ PtIs(v) = new
      <3>1. IsOwnerMap("routes")  BY DEF IsOwnerMap
      <3>. QED  BY <3>1, WholeMap
    <2>. HIDE DEF v
    <2>2. "routes" \in DOMAIN x  BY <1>1 DEF SameIn
    <2>3. Runs(x, <<Op("replace", <<"routes">>, v)>>, y)  BY <2>2, ReplacedWhole
    <2>4. IsWith(x, "routes", v, y)  BY WithIs
    <2>. HIDE DEF y
    <2>5. IsDoc(y) /\ ChangedIn(x, y, {"routes"}) /\ PtHas(y, "routes") /\ y["routes"] = v
      BY <2>1, <2>4, WithChanges
    <2>6. NewMap(d, y, "routes", new)  BY <1>1, <2>1, <2>5 DEF NewMap, PtHas
    <2>. QED  BY <1>1, <2>3, <2>5, <2>6 DEF v
  <1>2. CASE ~("routes" \in DOMAIN d /\ d["routes"] = PtNull /\ DOMAIN new # {})
    <2>1. IsOwnerMap("routes")  BY DEF IsOwnerMap
    <2>2. \E e : /\ IsDoc(e) /\ Runs(x, DiffMap("routes", d, new), e) /\ ChangedIn(x, e, {"routes"})
                 /\ NewMap(d, e, "routes", new)
      BY <2>1, DiffMapRuns
    <2>. QED  BY <1>2, <2>2
  <1>. QED  BY <1>1, <1>2

ExitOps(d, new) ==
  IF "exitNode" \in DOMAIN d
  THEN IF (IF PtHas(d, "exitNode") THEN d["exitNode"].is ELSE {}) # new
       THEN <<Op("replace", <<"exitNode">>, Node(new))>> ELSE <<>>
  ELSE IF new # {} THEN <<Op("add", <<"exitNode">>, Node(new))>> ELSE <<>>

LEMMA ExitRun ==
  ASSUME NEW d, NEW new \in PtOwners, NEW x, IsDoc(x), SameIn(d, x, {"exitNode"}), PtHas(x, "autoApprovers")
  PROVE  \E e : IsDoc(e) /\ Runs(x, ExitOps(d, new), e) /\ ChangedIn(x, e, {"exitNode"}) /\ NewExit(d, e, new)
  <1>. DEFINE v == Node(new)
              e == PtWith(x, "exitNode", v)
              was == IF PtHas(d, "exitNode") THEN d["exitNode"].is ELSE {}
  <1>1. v # PtNull /\ v.is = new  BY ExitNotNull
  <1>. HIDE DEF v
  <1>2. IsWith(x, "exitNode", v, e)  BY WithIs
  <1>. HIDE DEF e
  <1>3. IsDoc(e) /\ ChangedIn(x, e, {"exitNode"}) /\ PtHas(e, "exitNode") /\ e["exitNode"] = v
    BY <1>1, <1>2, WithChanges
  <1>4. ("exitNode" \in DOMAIN x <=> "exitNode" \in DOMAIN d) /\ ("exitNode" \in DOMAIN d => x["exitNode"] = d["exitNode"])
    BY DEF SameIn
  <1>5. PtHas(x, "exitNode") <=> PtHas(d, "exitNode")  BY <1>4 DEF PtHas
  <1>6. CASE was # new
    <2>1. NewExit(d, e, new)  BY <1>1, <1>3, <1>6 DEF NewExit
    <2>2. CASE "exitNode" \in DOMAIN d
      <3>1. Runs(x, <<Op("replace", <<"exitNode">>, v)>>, e)  BY <1>4, <2>2, ReplacedWhole DEF e
      <3>2. ExitOps(d, new) = <<Op("replace", <<"exitNode">>, v)>>  BY <1>6, <2>2 DEF ExitOps, v
      <3>. QED  BY <1>3, <2>1, <3>1, <3>2
    <2>3. CASE "exitNode" \notin DOMAIN d
      <3>1. Runs(x, <<Op("add", <<"exitNode">>, v)>>, e)  BY AddedWhole DEF e
      <3>2. new # {}  BY <1>6, <2>3 DEF PtHas
      <3>3. ExitOps(d, new) = <<Op("add", <<"exitNode">>, v)>>  BY <2>3, <3>2 DEF ExitOps, v
      <3>. QED  BY <1>3, <2>1, <3>1, <3>3
    <2>. QED  BY <2>2, <2>3
  <1>7. CASE was = new
    <2>1. ExitOps(d, new) = <<>>
      <3>1. "exitNode" \notin DOMAIN d => new = {}  BY <1>7 DEF PtHas
      <3>. QED  BY <1>7, <3>1 DEF ExitOps
    <2>2. NewExit(d, x, new)  BY <1>4, <1>5, <1>7 DEF NewExit, PtHas
    <2>3. Runs(x, <<>>, x)  BY RunEmpty
    <2>. QED  BY <2>1, <2>2, <2>3 DEF ChangedIn
  <1>. QED  BY <1>6, <1>7

ApproverKeys == {"autoApprovers", "routes", "exitNode"}

\* diffAutoApprovers.
LEMMA ApproversRun ==
  ASSUME NEW d, PtDocument(d), NEW new \in [routes : PtMaps(PtOwners), exitNode : PtOwners],
         NEW x, IsDoc(x), SameIn(d, x, ApproverKeys)
  PROVE  \E e : IsDoc(e) /\ Runs(x, DiffApprovers(d, new), e) /\ ChangedIn(x, e, ApproverKeys) /\ NewApprovers(d, e, new)
  <1>. DEFINE routes == new.routes
              exit == new.exitNode
              members == (IF DOMAIN routes = {} THEN {} ELSE {"routes"}) \cup (IF exit = {} THEN {} ELSE {"exitNode"})
              R == [n \in DOMAIN routes |-> Node(routes[n])]
              fresh == [k \in members |-> IF k = "exitNode" THEN Node(exit) ELSE R]
              ops == DiffApprovers(d, new)
  <1>1. routes \in PtMaps(PtOwners) /\ exit \in PtOwners  OBVIOUS
  <1>2. SameIn(d, x, {"routes"}) /\ SameIn(d, x, {"exitNode"})  BY DEF SameIn, ApproverKeys
  <1>3. PtHas(x, "autoApprovers") <=> PtHas(d, "autoApprovers")  BY DEF SameIn, PtHas, ApproverKeys
  <1>m. /\ "routes" \in members <=> DOMAIN routes # {}
        /\ "exitNode" \in members <=> exit # {}
        /\ members \subseteq {"routes", "exitNode"}
    OBVIOUS
  <1>4. CASE ~PtHas(d, "autoApprovers") /\ members = {}
    <2>1. ops = <<>>
      <3>. HIDE DEF routes, exit
      <3>. QED  BY <1>4 DEF DiffApprovers, routes, exit
    <2>2. "routes" \notin DOMAIN d /\ "exitNode" \notin DOMAIN d  BY <1>4 DEF PtDocument
    <2>3. ~PtHas(x, "routes") /\ ~PtHas(x, "exitNode")  BY <1>2, <2>2 DEF SameIn, PtHas
    <2>4. routes = <<>> /\ exit = {}
      <3>1. DOMAIN routes = {} /\ exit = {}  BY <1>4, <1>m
      <3>. HIDE DEF routes, exit
      <3>. QED  BY <1>1, <3>1, EmptyMap
    <2>5. NewApprovers(d, x, new)  BY <2>2, <2>3, <2>4 DEF NewApprovers, NewMap, NewExit, PtHas
    <2>6. Runs(x, ops, x)  BY <2>1, RunEmpty
    <2>. QED  BY <2>5, <2>6 DEF ChangedIn
  <1>5. CASE ~PtHas(d, "autoApprovers") /\ members # {}
    <2>. DEFINE o == Op("add", <<"autoApprovers">>, fresh)
                e == [z \in DOMAIN x \cup {"autoApprovers"} \cup DOMAIN fresh |->
                        IF z = "autoApprovers" THEN <<>> ELSE IF z \in DOMAIN fresh THEN fresh[z] ELSE x[z]]
    <2>1. ops = <<o>>
      <3>. HIDE DEF o
      <3>. QED  BY <1>5 DEF DiffApprovers, o
    <2>2. DOMAIN fresh = members /\ \A k \in members : fresh[k] = IF k = "exitNode" THEN Node(exit) ELSE R
      OBVIOUS
    <2>3. R # PtNull /\ PtIs(R) = routes
      <3>1. IsOwnerMap("routes")  BY DEF IsOwnerMap
      <3>. HIDE DEF routes
      <3>. QED  BY <1>1, <3>1, WholeMap
    <2>4. Node(exit) # PtNull /\ Node(exit).is = exit  BY <1>1, ExitNotNull
    <2>5. "routes" \notin DOMAIN d /\ "exitNode" \notin DOMAIN d /\ "routes" \notin DOMAIN x /\ "exitNode" \notin DOMAIN x
      <3>1. "routes" \notin DOMAIN d /\ "exitNode" \notin DOMAIN d  BY <1>5 DEF PtDocument
      <3>. QED  BY <1>2, <3>1 DEF SameIn
    <2>6. o.path = <<"autoApprovers">> /\ Len(o.path) = 1 /\ o.path[1] = "autoApprovers" /\ o.do = "add" /\ o.value = fresh
      <3>. HIDE DEF fresh
      <3>. QED  BY DEF Op
    <2>. HIDE DEF o, fresh
    <2>7. Applicable(x, o)  BY <2>6 DEF Applicable
    <2>8. Applied(x, o) = e  BY <2>6 DEF Applied
    <2>9. Runs(x, ops, e)  BY <2>1, <2>7, <2>8, RunOne
    <2>. HIDE DEF members, R, routes, exit, ops
    <2>10. /\ IsDoc(e) /\ DOMAIN e = DOMAIN x \cup {"autoApprovers"} \cup members
           /\ \A z \in members : e[z] = fresh[z]
           /\ \A z \in DOMAIN x \ ApproverKeys : e[z] = x[z]
      <3>1. DOMAIN e = DOMAIN x \cup {"autoApprovers"} \cup members  BY <2>2
      <3>2. \A z \in DOMAIN e : e[z] = IF z = "autoApprovers" THEN <<>> ELSE IF z \in members THEN fresh[z] ELSE x[z]
        BY <2>2
      <3>3. IsDoc(e)  BY DEF IsDoc
      <3>. HIDE DEF e
      <3>4. "autoApprovers" \notin members  BY <1>m
      <3>5. \A z \in DOMAIN x \ ApproverKeys : z \notin members /\ z # "autoApprovers"  BY <1>m DEF ApproverKeys
      <3>. QED  BY <3>1, <3>2, <3>3, <3>4, <3>5
    <2>. HIDE DEF e
    <2>11. ChangedIn(x, e, ApproverKeys)
      <3>1. members \subseteq ApproverKeys  BY <1>m DEF ApproverKeys
      <3>2. "autoApprovers" \in ApproverKeys  BY DEF ApproverKeys
      <3>. QED  BY <2>10, <3>1, <3>2 DEF ChangedIn
    <2>12. NewMap(d, e, "routes", routes)
      <3>1. ~PtHas(d, "routes")  BY <2>5 DEF PtHas
      <3>2. CASE "routes" \in members
        <4>1. "routes" \in DOMAIN e /\ e["routes"] = R  BY <2>2, <2>10, <3>2
        <4>. QED  BY <2>3, <3>1, <4>1 DEF NewMap, PtHas
      <3>3. CASE "routes" \notin members
        <4>1. "routes" \notin DOMAIN e  BY <2>5, <2>10, <3>3
        <4>2. routes = <<>>  BY <1>1, <1>m, <3>3, EmptyMap
        <4>. QED  BY <3>1, <4>1, <4>2 DEF NewMap, PtHas
      <3>. QED  BY <3>2, <3>3
    <2>13. NewExit(d, e, exit)
      <3>1. ~PtHas(d, "exitNode")  BY <2>5 DEF PtHas
      <3>2. CASE "exitNode" \in members
        <4>1. "exitNode" \in DOMAIN e /\ e["exitNode"] = Node(exit)  BY <2>2, <2>10, <3>2
        <4>. QED  BY <2>4, <3>1, <4>1 DEF NewExit, PtHas
      <3>3. CASE "exitNode" \notin members
        <4>1. "exitNode" \notin DOMAIN e  BY <2>5, <2>10, <3>3
        <4>2. exit = {}  BY <1>m, <3>3
        <4>. QED  BY <3>1, <4>1, <4>2 DEF NewExit, PtHas
      <3>. QED  BY <3>2, <3>3
    <2>14. NewApprovers(d, e, new)  BY <2>12, <2>13 DEF NewApprovers, routes, exit
    <2>. QED  BY <2>9, <2>10, <2>11, <2>14 DEF ops
  <1>6. CASE PtHas(d, "autoApprovers")
    <2>. DEFINE first == IF "routes" \in DOMAIN d /\ d["routes"] = PtNull /\ DOMAIN routes # {}
                         THEN <<Op("replace", <<"routes">>, [n \in DOMAIN routes |-> Node(routes[n])])>>
                         ELSE DiffMap("routes", d, routes)
                second == ExitOps(d, exit)
    <2>1. ops = first \o second
      <3>. DEFINE w == IF PtHas(d, "exitNode") THEN d["exitNode"].is ELSE {}
      <3>1. ops = (IF "routes" \in DOMAIN d /\ d["routes"] = PtNull /\ "routes" \in members
                   THEN <<Op("replace", <<"routes">>, fresh.routes)>>
                   ELSE DiffMap("routes", d, routes))
                  \o (IF "exitNode" \in DOMAIN d
                      THEN IF w # exit THEN <<Op("replace", <<"exitNode">>, Node(exit))>> ELSE <<>>
                      ELSE IF "exitNode" \in members THEN <<Op("add", <<"exitNode">>, Node(exit))>> ELSE <<>>)
        BY <1>6 DEF DiffApprovers
      <3>2. "routes" \in members => fresh.routes = R  OBVIOUS
      <3>. HIDE DEF members, fresh, ops
      <3>3. first = IF "routes" \in DOMAIN d /\ d["routes"] = PtNull /\ "routes" \in members
                    THEN <<Op("replace", <<"routes">>, fresh.routes)>>
                    ELSE DiffMap("routes", d, routes)
        BY <1>m, <3>2
      <3>4. second = IF "exitNode" \in DOMAIN d
                     THEN IF w # exit THEN <<Op("replace", <<"exitNode">>, Node(exit))>> ELSE <<>>
                     ELSE IF "exitNode" \in members THEN <<Op("add", <<"exitNode">>, Node(exit))>> ELSE <<>>
        BY <1>m DEF ExitOps
      <3>. HIDE DEF first, second, w, routes, exit
      <3>. QED  BY <3>1, <3>3, <3>4
    <2>. HIDE DEF ops, members, fresh, routes, exit
    <2>2. PtHas(x, "autoApprovers")  BY <1>3, <1>6
    <2>3. PICK y : IsDoc(y) /\ Runs(x, first, y) /\ ChangedIn(x, y, {"routes"}) /\ NewMap(d, y, "routes", routes)
      BY <1>1, <1>2, <2>2, RoutesRun
    <2>. HIDE DEF first, second
    <2>4. SameIn(d, y, {"exitNode"}) /\ PtHas(y, "autoApprovers")
      BY <1>2, <2>2, <2>3 DEF SameIn, ChangedIn, PtHas
    <2>5. PICK e : IsDoc(e) /\ Runs(y, second, e) /\ ChangedIn(y, e, {"exitNode"}) /\ NewExit(d, e, exit)
      BY <1>1, <2>3, <2>4, ExitRun DEF second
    <2>6. Runs(x, ops, e)  BY <2>1, <2>3, <2>5, RunJoined
    <2>7. ChangedIn(x, e, ApproverKeys)
      <3>1. {"routes"} \subseteq ApproverKeys /\ {"exitNode"} \subseteq ApproverKeys  BY DEF ApproverKeys
      <3>. QED  BY <2>3, <2>5, <3>1, ChangedTwice
    <2>8. NewMap(d, e, "routes", routes)
      <3>1. "routes" \notin {"exitNode"}  OBVIOUS
      <3>. QED  BY <2>3, <2>5, <3>1, KeptMap
    <2>9. NewApprovers(d, e, new)  BY <2>5, <2>8 DEF NewApprovers, routes, exit
    <2>. QED  BY <2>5, <2>6, <2>7, <2>9 DEF ops
  <1>. QED  BY <1>4, <1>5, <1>6

NewFlag(e, want) == PtHas(e, "randomize") /\ e["randomize"].is <=> want

\* The operation on randomizeClientPort.
LEMMA FlagRun ==
  ASSUME NEW d, PtDocument(d), NEW want \in BOOLEAN, NEW x, IsDoc(x), SameIn(d, x, {"randomize"})
  PROVE  \E e : IsDoc(e) /\ Runs(x, DiffRandomize(d, want), e) /\ ChangedIn(x, e, {"randomize"}) /\ NewFlag(e, want)
  <1>. DEFINE k == "randomize"
              v == Node(TRUE)
              e == PtWith(x, k, v)
              g == PtWithout(x, k)
              ops == DiffRandomize(d, want)
  <1>1. v # PtNull /\ v.is
    <2>1. PtNull \notin PtValues(k)  BY PatcherAssumption DEF PtKeys
    <2>2. PtValues(k) = PtNodes(BOOLEAN)  BY DEF PtValues
    <2>. QED  BY <2>1, <2>2 DEF Node, PtNodes
  <1>. HIDE DEF v
  <1>2. IsWith(x, k, v, e)  BY WithIs
  <1>. HIDE DEF e
  <1>3. IsDoc(e) /\ ChangedIn(x, e, {k}) /\ PtHas(e, k) /\ e[k] = v  BY <1>1, <1>2, WithChanges
  <1>4. NewFlag(e, TRUE)  BY <1>1, <1>3 DEF NewFlag
  <1>5. (k \in DOMAIN x <=> k \in DOMAIN d) /\ (k \in DOMAIN d => x[k] = d[k])  BY DEF SameIn
  <1>6. (PtHas(x, k) <=> PtHas(d, k)) /\ (PtHas(d, k) => x[k] = d[k])  BY <1>5 DEF PtHas
  <1>7. Runs(x, <<>>, x)  BY RunEmpty
  <1>8. CASE want /\ ~PtHas(d, k)
    <2>1. ops = <<Op("add", <<k>>, v)>>  BY <1>8 DEF DiffRandomize, v
    <2>2. Runs(x, ops, e)  BY <2>1, AddedWhole DEF e
    <2>. QED  BY <1>3, <1>4, <1>8, <2>2 DEF NewFlag
  <1>9. CASE want /\ PtHas(d, k) /\ d[k].is
    <2>1. ops = <<>>  BY <1>9 DEF DiffRandomize
    <2>2. NewFlag(x, want)  BY <1>6, <1>9 DEF NewFlag
    <2>. QED  BY <1>7, <2>1, <2>2 DEF ChangedIn
  <1>10. CASE want /\ PtHas(d, k) /\ ~d[k].is
    <2>1. ops = <<Op("replace", <<k>>, v)>>  BY <1>10 DEF DiffRandomize, v
    <2>2. k \in DOMAIN x  BY <1>5, <1>10 DEF PtHas
    <2>3. Runs(x, ops, e)  BY <2>1, <2>2, ReplacedWhole DEF e
    <2>. QED  BY <1>3, <1>4, <1>10, <2>3 DEF NewFlag
  <1>11. CASE ~want /\ ~PtHas(d, k)
    <2>1. ops = <<>>  BY <1>11 DEF DiffRandomize
    <2>2. NewFlag(x, want)  BY <1>6, <1>11 DEF NewFlag
    <2>. QED  BY <1>7, <2>1, <2>2 DEF ChangedIn
  <1>12. CASE ~want /\ PtHas(d, k)
    <2>. DEFINE o == Op("remove", <<k>>, <<>>)
    <2>1. ops = <<o>>  BY <1>12 DEF DiffRandomize
    <2>2. o.path = <<k>> /\ Len(o.path) = 1 /\ o.path[1] = k /\ o.do = "remove"  BY DEF Op
    <2>3. k \in DOMAIN x  BY <1>5, <1>12 DEF PtHas
    <2>. HIDE DEF o
    <2>4. Applicable(x, o) /\ Applied(x, o) = g  BY <2>2, <2>3 DEF Applicable, Applied
    <2>5. Runs(x, ops, g)  BY <2>1, <2>4, RunOne
    <2>6. DOMAIN g = DOMAIN x \ {k} /\ IsDoc(g) /\ \A z \in DOMAIN x \ {k} : g[z] = x[z]
      BY DEF PtWithout, IsDoc
    <2>7. ChangedIn(x, g, {k})  BY <2>6 DEF ChangedIn
    <2>8. NewFlag(g, want)  BY <1>12, <2>6 DEF NewFlag, PtHas
    <2>. QED  BY <2>5, <2>6, <2>7, <2>8
  <1>. QED  BY <1>8, <1>9, <1>10, <1>11, <1>12

-----------------------------------------------------------------------------
(* The whole plan.                                                         *)

RulesDone(d, in, e) ==
  IF in.rules = <<>> THEN SameIn(d, e, {"acls"}) ELSE NewRules(d, e, PtEnabled(in.rules[1]))
GroupsDone(d, in, e) ==
  IF in.groups = <<>> THEN SameIn(d, e, {"groups"}) ELSE NewMap(d, e, "groups", in.groups[1])
ApproversDone(d, in, e) ==
  IF in.approvers = <<>> THEN SameIn(d, e, ApproverKeys) ELSE NewApprovers(d, e, in.approvers[1])
FlagDone(d, in, e) ==
  IF in.randomize = <<>> THEN SameIn(d, e, {"randomize"}) ELSE NewFlag(e, in.randomize[1])

LEMMA SameKept ==
  ASSUME NEW d, NEW x, NEW e, NEW K, NEW J, ChangedIn(x, e, J), J \cap K = {}, SameIn(d, x, K)
  PROVE  SameIn(d, e, K)
  <1>1. /\ DOMAIN e \ J = DOMAIN x \ J /\ \A k \in DOMAIN x \ J : e[k] = x[k]
        /\ DOMAIN x \cap K = DOMAIN d \cap K /\ \A k \in DOMAIN d \cap K : x[k] = d[k]
    BY DEF ChangedIn, SameIn
  <1>2. DOMAIN e \cap K = DOMAIN d \cap K  BY <1>1
  <1>3. \A k \in DOMAIN d \cap K : k \in DOMAIN x \ J  BY <1>1
  <1>. QED  BY <1>1, <1>2, <1>3 DEF SameIn

LEMMA KeyKept ==
  ASSUME NEW x, NEW e, NEW K, ChangedIn(x, e, K), NEW k, k \notin K
  PROVE  (PtHas(e, k) <=> PtHas(x, k)) /\ (PtHas(x, k) => e[k] = x[k])
  <1>1. (k \in DOMAIN e <=> k \in DOMAIN x) /\ (k \in DOMAIN x => e[k] = x[k])  BY DEF ChangedIn
  <1>. QED  BY <1>1 DEF PtHas

LEMMA RulesKept ==
  ASSUME NEW d, NEW in, NEW x, RulesDone(d, in, x), NEW e, NEW K, ChangedIn(x, e, K), "acls" \notin K
  PROVE  RulesDone(d, in, e)
  <1>1. CASE in.rules = <<>>
    <2>1. K \cap {"acls"} = {}  OBVIOUS
    <2>2. SameIn(d, x, {"acls"})  BY <1>1 DEF RulesDone
    <2>3. SameIn(d, e, {"acls"})  BY <2>1, <2>2, SameKept
    <2>. QED  BY <1>1, <2>3 DEF RulesDone
  <1>2. CASE in.rules # <<>>
    <2>. DEFINE new == PtEnabled(in.rules[1])
    <2>1. NewRules(d, x, new)  BY <1>2 DEF RulesDone
    <2>2. (PtHas(e, "acls") <=> PtHas(x, "acls")) /\ (PtHas(x, "acls") => e["acls"] = x["acls"])  BY KeyKept
    <2>3. PtModel(e).acls = PtModel(x).acls  BY <2>2 DEF PtModel
    <2>. HIDE DEF new
    <2>4. NewRules(d, e, new)  BY <2>1, <2>2, <2>3 DEF NewRules
    <2>. QED  BY <1>2, <2>4 DEF RulesDone, new
  <1>. QED  BY <1>1, <1>2

LEMMA GroupsKept ==
  ASSUME NEW d, NEW in, NEW x, GroupsDone(d, in, x), NEW e, NEW K, ChangedIn(x, e, K), "groups" \notin K
  PROVE  GroupsDone(d, in, e)
  <1>1. CASE in.groups = <<>>
    <2>1. K \cap {"groups"} = {}  OBVIOUS
    <2>2. SameIn(d, x, {"groups"})  BY <1>1 DEF GroupsDone
    <2>3. SameIn(d, e, {"groups"})  BY <2>1, <2>2, SameKept
    <2>. QED  BY <1>1, <2>3 DEF GroupsDone
  <1>2. CASE in.groups # <<>>
    <2>1. NewMap(d, x, "groups", in.groups[1])  BY <1>2 DEF GroupsDone
    <2>2. NewMap(d, e, "groups", in.groups[1])  BY <2>1, KeptMap
    <2>. QED  BY <1>2, <2>2 DEF GroupsDone
  <1>. QED  BY <1>1, <1>2

LEMMA ApproversKept ==
  ASSUME NEW d, NEW in, NEW x, ApproversDone(d, in, x), NEW e, NEW K, ChangedIn(x, e, K), ApproverKeys \cap K = {}
  PROVE  ApproversDone(d, in, e)
  <1>1. CASE in.approvers = <<>>
    <2>1. K \cap ApproverKeys = {}  OBVIOUS
    <2>2. SameIn(d, x, ApproverKeys)  BY <1>1 DEF ApproversDone
    <2>3. SameIn(d, e, ApproverKeys)  BY <2>1, <2>2, SameKept
    <2>. QED  BY <1>1, <2>3 DEF ApproversDone
  <1>2. CASE in.approvers # <<>>
    <2>. DEFINE new == in.approvers[1]
    <2>1. NewMap(d, x, "routes", new.routes) /\ NewExit(d, x, new.exitNode)
      BY <1>2 DEF ApproversDone, NewApprovers
    <2>2. "routes" \notin K /\ "exitNode" \notin K  BY DEF ApproverKeys
    <2>. HIDE DEF new
    <2>3. NewMap(d, e, "routes", new.routes)  BY <2>1, <2>2, KeptMap
    <2>4. (PtHas(e, "exitNode") <=> PtHas(x, "exitNode")) /\ (PtHas(x, "exitNode") => e["exitNode"] = x["exitNode"])
      BY <2>2, KeyKept
    <2>5. NewExit(d, e, new.exitNode)  BY <2>1, <2>4 DEF NewExit
    <2>. QED  BY <1>2, <2>3, <2>5 DEF ApproversDone, NewApprovers, new
  <1>. QED  BY <1>1, <1>2

LEMMA EnabledAreRules ==
  ASSUME NEW rules \in Seq([is : PtRules, enabled : BOOLEAN])
  PROVE  PtEnabled(rules) \in Seq(PtRules)
  <1>. DEFINE F == [is : PtRules, enabled : BOOLEAN]
              at == {i \in DOMAIN rules : rules[i].enabled}
              s == Sublist(rules, at)
  <1>1. DOMAIN rules = 1..Len(rules)  OBVIOUS
  <1>2. Places(at, Len(rules))  BY <1>1 DEF Places
  <1>. HIDE DEF at
  <1>3. s \in Seq(F)  BY <1>2, ASublist
  <1>. HIDE DEF s
  <1>4. Len(s) \in Nat /\ DOMAIN s = 1..Len(s) /\ \A i \in 1..Len(s) : s[i] \in F
    <2>. HIDE DEF F
    <2>. QED  BY <1>3
  <1>5. \A i \in 1..Len(s) : s[i].is \in PtRules  BY <1>4
  <1>6. PtIs(s) \in [1..Len(s) -> PtRules]  BY <1>4, <1>5 DEF PtIs
  <1>7. PtIs(s) \in Seq(PtRules)  BY <1>4, <1>6, AList
  <1>. QED  BY <1>7 DEF PtEnabled, s, at

AllDone(d, in, e) == RulesDone(d, in, e) /\ GroupsDone(d, in, e) /\ ApproversDone(d, in, e) /\ FlagDone(d, in, e)

\* The plan leads to a document with every section done.
LEMMA PlanRuns ==
  ASSUME NEW d, PtDocument(d), PtAllOld(d), NEW in, PtInput(in)
  PROVE  \E e : Runs(d, Plan(d, in), e) /\ AllDone(d, in, e)
  <1>. DEFINE p1 == IF in.groups = <<>> THEN <<>> ELSE DiffMap("groups", d, in.groups[1])
              p2 == IF in.rules = <<>> THEN <<>> ELSE DiffSeq("acls", d, PtEnabled(in.rules[1]))
              p3 == IF in.approvers = <<>> THEN <<>> ELSE DiffApprovers(d, in.approvers[1])
              p4 == IF in.randomize = <<>> THEN <<>> ELSE DiffRandomize(d, in.randomize[1])
  <1>0. IsDoc(d) /\ \A K : SameIn(d, d, K)  BY DEF PtDocument, IsDoc, SameIn
  <1>n. \A x : Runs(x, <<>>, x) /\ \A K : ChangedIn(x, x, K)
    <2>1. \A x : Runs(x, <<>>, x)  BY RunEmpty
    <2>. QED  BY <2>1 DEF ChangedIn
  <1>1. PICK x : IsDoc(x) /\ Runs(d, p1, x) /\ ChangedIn(d, x, {"groups"}) /\ GroupsDone(d, in, x)
    <2>1. CASE in.groups = <<>>  BY <1>0, <1>n, <2>1 DEF GroupsDone
    <2>2. CASE in.groups # <<>>
      <3>1. in.groups[1] \in PtMaps(PtOwners)  BY <2>2 DEF PtInput
      <3>2. IsOwnerMap("groups") /\ "groups" # "routes"  BY DEF IsOwnerMap
      <3>3. PICK x : IsDoc(x) /\ Runs(d, DiffMap("groups", d, in.groups[1]), x) /\ ChangedIn(d, x, {"groups"})
                     /\ NewMap(d, x, "groups", in.groups[1])
        BY <1>0, <3>1, <3>2, DiffMapRuns
      <3>. QED  BY <2>2, <3>3 DEF GroupsDone
    <2>. QED  BY <2>1, <2>2
  <1>2. PICK y : IsDoc(y) /\ Runs(x, p2, y) /\ ChangedIn(x, y, {"acls"}) /\ RulesDone(d, in, y)
    <2>0. SameIn(d, x, {"acls"})
      <3>1. {"groups"} \cap {"acls"} = {}  OBVIOUS
      <3>. QED  BY <1>0, <1>1, <3>1, SameKept
    <2>1. CASE in.rules = <<>>  BY <1>1, <1>n, <2>0, <2>1 DEF RulesDone
    <2>2. CASE in.rules # <<>>
      <3>. DEFINE new == PtEnabled(in.rules[1])
      <3>1. new \in Seq(PtRules)
        <4>1. in.rules[1] \in Seq([is : PtRules, enabled : BOOLEAN])  BY <2>2 DEF PtInput
        <4>. QED  BY <4>1, EnabledAreRules
      <3>. HIDE DEF new
      <3>2. PICK y : IsDoc(y) /\ Runs(x, DiffSeq("acls", d, new), y) /\ ChangedIn(x, y, {"acls"}) /\ NewRules(d, y, new)
        BY <1>1, <2>0, <3>1, DiffSeqRuns
      <3>. QED  BY <2>2, <3>2 DEF RulesDone, new
    <2>. QED  BY <2>1, <2>2
  <1>3. PICK z : IsDoc(z) /\ Runs(y, p3, z) /\ ChangedIn(y, z, ApproverKeys) /\ ApproversDone(d, in, z)
    <2>0. SameIn(d, y, ApproverKeys)
      <3>1. {"groups"} \cap ApproverKeys = {} /\ {"acls"} \cap ApproverKeys = {}  BY DEF ApproverKeys
      <3>2. SameIn(d, x, ApproverKeys)  BY <1>0, <1>1, <3>1, SameKept
      <3>. QED  BY <1>2, <3>1, <3>2, SameKept
    <2>1. CASE in.approvers = <<>>  BY <1>2, <1>n, <2>0, <2>1 DEF ApproversDone
    <2>2. CASE in.approvers # <<>>
      <3>1. in.approvers[1] \in [routes : PtMaps(PtOwners), exitNode : PtOwners]  BY <2>2 DEF PtInput
      <3>2. PICK z : IsDoc(z) /\ Runs(y, DiffApprovers(d, in.approvers[1]), z) /\ ChangedIn(y, z, ApproverKeys)
                     /\ NewApprovers(d, z, in.approvers[1])
        BY <1>2, <2>0, <3>1, ApproversRun
      <3>. QED  BY <2>2, <3>2 DEF ApproversDone
    <2>. QED  BY <2>1, <2>2
  <1>4. PICK e : IsDoc(e) /\ Runs(z, p4, e) /\ ChangedIn(z, e, {"randomize"}) /\ FlagDone(d, in, e)
    <2>0. SameIn(d, z, {"randomize"})
      <3>1. /\ {"groups"} \cap {"randomize"} = {} /\ {"acls"} \cap {"randomize"} = {}
            /\ ApproverKeys \cap {"randomize"} = {}
        BY DEF ApproverKeys
      <3>2. SameIn(d, x, {"randomize"})  BY <1>0, <1>1, <3>1, SameKept
      <3>3. SameIn(d, y, {"randomize"})  BY <1>2, <3>1, <3>2, SameKept
      <3>. QED  BY <1>3, <3>1, <3>3, SameKept
    <2>1. CASE in.randomize = <<>>  BY <1>3, <1>n, <2>0, <2>1 DEF FlagDone
    <2>2. CASE in.randomize # <<>>
      <3>1. in.randomize[1] \in BOOLEAN  BY <2>2 DEF PtInput
      <3>2. PICK e : IsDoc(e) /\ Runs(z, DiffRandomize(d, in.randomize[1]), e) /\ ChangedIn(z, e, {"randomize"})
                     /\ NewFlag(e, in.randomize[1])
        BY <1>3, <2>0, <3>1, FlagRun
      <3>. QED  BY <2>2, <3>2 DEF FlagDone
    <2>. QED  BY <2>1, <2>2
  <1>5. Plan(d, in) = p1 \o p2 \o p3 \o p4  BY DEF Plan
  <1>. HIDE DEF p1, p2, p3, p4
  <1>6. Runs(d, Plan(d, in), e)
    <2>1. Runs(d, p1 \o p2, y)  BY <1>1, <1>2, RunJoined
    <2>2. Runs(d, p1 \o p2 \o p3, z)  BY <1>3, <2>1, RunJoined
    <2>3. Runs(d, p1 \o p2 \o p3 \o p4, e)  BY <1>4, <2>2, RunJoined
    <2>. QED  BY <1>5, <2>3
  <1>7. GroupsDone(d, in, e)
    <2>1. "groups" \notin {"acls"} /\ "groups" \notin ApproverKeys /\ "groups" \notin {"randomize"}  BY DEF ApproverKeys
    <2>2. GroupsDone(d, in, y)  BY <1>1, <1>2, <2>1, GroupsKept
    <2>3. GroupsDone(d, in, z)  BY <1>3, <2>1, <2>2, GroupsKept
    <2>. QED  BY <1>4, <2>1, <2>3, GroupsKept
  <1>8. RulesDone(d, in, e)
    <2>1. "acls" \notin ApproverKeys /\ "acls" \notin {"randomize"}  BY DEF ApproverKeys
    <2>2. RulesDone(d, in, z)  BY <1>2, <1>3, <2>1, RulesKept
    <2>. QED  BY <1>4, <2>1, <2>2, RulesKept
  <1>9. ApproversDone(d, in, e)
    <2>1. ApproverKeys \cap {"randomize"} = {}  BY DEF ApproverKeys
    <2>. QED  BY <1>3, <1>4, <2>1, ApproversKept
  <1>. QED  BY <1>4, <1>6, <1>7, <1>8, <1>9 DEF AllDone

LEMMA GivesRequest ==
  ASSUME NEW d, NEW in, PtInput(in), NEW e, AllDone(d, in, e)
  PROVE  PtModel(e) = PtRequested(d, in)
  <1>. DEFINE m == PtModel(e)
              w == PtModel(d)
              r == PtRequested(d, in)
  <1>1. /\ m = [acls |-> m.acls, groups |-> m.groups, routes |-> m.routes, exitNode |-> m.exitNode, randomize |-> m.randomize]
        /\ m.acls = (IF PtHas(e, "acls") THEN PtIs(e["acls"]) ELSE <<>>)
        /\ m.groups = (IF PtHas(e, "groups") THEN PtIs(e["groups"]) ELSE <<>>)
        /\ m.routes = (IF PtHas(e, "routes") THEN PtIs(e["routes"]) ELSE <<>>)
        /\ m.exitNode = (IF PtHas(e, "exitNode") THEN e["exitNode"].is ELSE {})
        /\ m.randomize = (PtHas(e, "randomize") /\ e["randomize"].is)
    BY DEF PtModel
  <1>2. /\ w.acls = (IF PtHas(d, "acls") THEN PtIs(d["acls"]) ELSE <<>>)
        /\ w.groups = (IF PtHas(d, "groups") THEN PtIs(d["groups"]) ELSE <<>>)
        /\ w.routes = (IF PtHas(d, "routes") THEN PtIs(d["routes"]) ELSE <<>>)
        /\ w.exitNode = (IF PtHas(d, "exitNode") THEN d["exitNode"].is ELSE {})
        /\ w.randomize = (PtHas(d, "randomize") /\ d["randomize"].is)
    BY DEF PtModel
  <1>3. /\ r = [acls |-> r.acls, groups |-> r.groups, routes |-> r.routes, exitNode |-> r.exitNode, randomize |-> r.randomize]
        /\ r.acls = (IF in.rules # <<>> THEN PtEnabled(in.rules[1]) ELSE w.acls)
        /\ r.groups = (IF in.groups # <<>> THEN in.groups[1] ELSE w.groups)
        /\ r.routes = (IF in.approvers # <<>> THEN in.approvers[1].routes ELSE w.routes)
        /\ r.exitNode = (IF in.approvers # <<>> THEN in.approvers[1].exitNode ELSE w.exitNode)
        /\ r.randomize = (IF in.randomize # <<>> THEN in.randomize[1] ELSE w.randomize)
    <2>. HIDE DEF w
    <2>. QED  BY DEF PtRequested, w
  <1>. HIDE DEF m, w, r
  <1>4. ASSUME NEW k, NEW K, k \in K, SameIn(d, e, K)
        PROVE  (PtHas(e, k) <=> PtHas(d, k)) /\ (PtHas(d, k) => e[k] = d[k])
    BY <1>4 DEF SameIn, PtHas
  <1>5. m.acls = r.acls
    <2>1. CASE in.rules = <<>>
      <3>1. SameIn(d, e, {"acls"})  BY <2>1 DEF AllDone, RulesDone
      <3>. QED  BY <1>1, <1>2, <1>3, <1>4, <2>1, <3>1
    <2>2. CASE in.rules # <<>>  BY <1>3, <2>2 DEF AllDone, RulesDone, NewRules, m
    <2>. QED  BY <2>1, <2>2
  <1>6. m.groups = r.groups
    <2>1. CASE in.groups = <<>>
      <3>1. SameIn(d, e, {"groups"})  BY <2>1 DEF AllDone, GroupsDone
      <3>. QED  BY <1>1, <1>2, <1>3, <1>4, <2>1, <3>1
    <2>2. CASE in.groups # <<>>  BY <1>1, <1>3, <2>2 DEF AllDone, GroupsDone, NewMap
    <2>. QED  BY <2>1, <2>2
  <1>7. m.routes = r.routes /\ m.exitNode = r.exitNode
    <2>1. CASE in.approvers = <<>>
      <3>1. SameIn(d, e, ApproverKeys)  BY <2>1 DEF AllDone, ApproversDone
      <3>2. "routes" \in ApproverKeys /\ "exitNode" \in ApproverKeys  BY DEF ApproverKeys
      <3>3. (PtHas(e, "routes") <=> PtHas(d, "routes")) /\ (PtHas(d, "routes") => e["routes"] = d["routes"])
        BY <1>4, <3>1, <3>2
      <3>4. (PtHas(e, "exitNode") <=> PtHas(d, "exitNode")) /\ (PtHas(d, "exitNode") => e["exitNode"] = d["exitNode"])
        BY <1>4, <3>1, <3>2
      <3>. QED  BY <1>1, <1>2, <1>3, <2>1, <3>3, <3>4
    <2>2. CASE in.approvers # <<>>
      <3>1. NewMap(d, e, "routes", in.approvers[1].routes) /\ NewExit(d, e, in.approvers[1].exitNode)
        BY <2>2 DEF AllDone, ApproversDone, NewApprovers
      <3>. QED  BY <1>1, <1>3, <2>2, <3>1 DEF NewMap, NewExit
    <2>. QED  BY <2>1, <2>2
  <1>8. m.randomize = r.randomize
    <2>1. CASE in.randomize = <<>>
      <3>1. SameIn(d, e, {"randomize"})  BY <2>1 DEF AllDone, FlagDone
      <3>2. (PtHas(e, "randomize") <=> PtHas(d, "randomize")) /\ (PtHas(d, "randomize") => e["randomize"] = d["randomize"])
        BY <1>4, <3>1
      <3>3. (PtHas(e, "randomize") /\ e["randomize"].is) <=> (PtHas(d, "randomize") /\ d["randomize"].is)
        BY ONLY <3>2
      <3>. QED  BY <1>1, <1>2, <1>3, <2>1, <3>3
    <2>2. CASE in.randomize # <<>>
      <3>1. NewFlag(e, in.randomize[1])  BY <2>2 DEF AllDone, FlagDone
      <3>2. in.randomize[1] \in BOOLEAN  BY <2>2 DEF PtInput
      <3>. QED  BY <1>1, <1>3, <2>2, <3>1, <3>2 DEF NewFlag
    <2>. QED  BY <2>1, <2>2
  <1>9. m = r  BY ONLY <1>1, <1>3, <1>5, <1>6, <1>7, <1>8
  <1>. QED  BY <1>9 DEF m, r

\* What UntouchedStays says of the document in the end.
Untouched(was, in, doc) ==
  LET want == PtRequested(was, in)
      staying == {i \in DOMAIN doc.acls : doc.acls[i].old}
  IN  /\ \A k \in {"groups", "routes"} : PtHas(was, k) =>
           \A n \in DOMAIN was[k] \cap DOMAIN want[k] : was[k][n].is = want[k][n] => doc[k][n] = was[k][n]
      /\ PtHas(was, "exitNode") /\ was.exitNode.is = want.exitNode => doc.exitNode = was.exitNode
      /\ PtHas(was, "acls") =>
           \A at \in SUBSET DOMAIN was.acls :
             CouldStay(PtIs(was.acls), want.acls, at) => Cardinality(at) <= Cardinality(staying)
      /\ in.rules = <<>> /\ "acls" \in DOMAIN was => doc.acls = was.acls
      /\ in.groups = <<>> /\ "groups" \in DOMAIN was => doc.groups = was.groups

LEMMA LeavesUntouched ==
  ASSUME NEW d, PtDocument(d), PtAllOld(d), NEW in, PtInput(in), NEW e, AllDone(d, in, e)
  PROVE  Untouched(d, in, e)
  <1>. DEFINE want == PtRequested(d, in)
              staying == {i \in DOMAIN e["acls"] : e["acls"][i].old}
  <1>0. ASSUME NEW k, NEW K, k \in K, SameIn(d, e, K), k \in DOMAIN d PROVE e[k] = d[k]  BY <1>0 DEF SameIn
  <1>1. /\ in.groups # <<>> => want["groups"] = in.groups[1]
        /\ in.approvers # <<>> => want["routes"] = in.approvers[1].routes /\ want["exitNode"] = in.approvers[1].exitNode
        /\ in.rules # <<>> => want["acls"] = PtEnabled(in.rules[1])
        /\ in.rules = <<>> /\ PtHas(d, "acls") => want["acls"] = PtIs(d["acls"])
    BY DEF PtRequested, PtModel
  <1>. HIDE DEF want
  <1>2. ASSUME PtHas(d, "groups"), NEW n \in DOMAIN d["groups"] \cap DOMAIN want["groups"],
               d["groups"][n].is = want["groups"][n]
        PROVE  e["groups"][n] = d["groups"][n]
    <2>1. CASE in.groups = <<>>
      <3>1. SameIn(d, e, {"groups"})  BY <2>1 DEF AllDone, GroupsDone
      <3>. QED  BY <1>0, <1>2, <3>1 DEF PtHas
    <2>2. CASE in.groups # <<>>
      <3>1. NewMap(d, e, "groups", want["groups"])  BY <1>1, <2>2 DEF AllDone, GroupsDone
      <3>. QED  BY <1>2, <3>1 DEF NewMap
    <2>. QED  BY <2>1, <2>2
  <1>3. ASSUME PtHas(d, "routes"), NEW n \in DOMAIN d["routes"] \cap DOMAIN want["routes"],
               d["routes"][n].is = want["routes"][n]
        PROVE  e["routes"][n] = d["routes"][n]
    <2>1. CASE in.approvers = <<>>
      <3>1. SameIn(d, e, ApproverKeys) /\ "routes" \in ApproverKeys  BY <2>1 DEF AllDone, ApproversDone, ApproverKeys
      <3>. QED  BY <1>0, <1>3, <3>1 DEF PtHas
    <2>2. CASE in.approvers # <<>>
      <3>1. NewMap(d, e, "routes", want["routes"])  BY <1>1, <2>2 DEF AllDone, ApproversDone, NewApprovers
      <3>. QED  BY <1>3, <3>1 DEF NewMap
    <2>. QED  BY <2>1, <2>2
  <1>4. ASSUME PtHas(d, "exitNode"), d["exitNode"].is = want["exitNode"] PROVE e["exitNode"] = d["exitNode"]
    <2>1. CASE in.approvers = <<>>
      <3>1. SameIn(d, e, ApproverKeys) /\ "exitNode" \in ApproverKeys  BY <2>1 DEF AllDone, ApproversDone, ApproverKeys
      <3>. QED  BY <1>0, <1>4, <3>1 DEF PtHas
    <2>2. CASE in.approvers # <<>>
      <3>1. NewExit(d, e, want["exitNode"])  BY <1>1, <2>2 DEF AllDone, ApproversDone, NewApprovers
      <3>. QED  BY <1>4, <3>1 DEF NewExit
    <2>. QED  BY <2>1, <2>2
  <1>5. ASSUME PtHas(d, "acls"), NEW at \in SUBSET DOMAIN d["acls"], CouldStay(PtIs(d["acls"]), want["acls"], at)
        PROVE  Cardinality(at) <= Cardinality(staying)
    <2>. DEFINE s == d["acls"]
    <2>1. s \in Seq(RuleNodes) /\ \A i \in DOMAIN s : s[i].old
      <3>1. s \in PtValues("acls")  BY <1>5 DEF PtDocument, PtHas
      <3>2. s \in Seq(RuleNodes)  BY <3>1 DEF PtValues, RuleNodes
      <3>3. \A i \in DOMAIN s : s[i].old  BY <1>5 DEF PtAllOld
      <3>. QED  BY <3>2, <3>3
    <2>2. DOMAIN s = 1..Len(s) /\ Len(s) \in Nat  BY <2>1
    <2>3. CASE in.rules = <<>>
      <3>1. SameIn(d, e, {"acls"})  BY <2>3 DEF AllDone, RulesDone
      <3>2. e["acls"] = s  BY <1>0, <1>5, <3>1 DEF PtHas
      <3>. HIDE DEF s
      <3>3. staying = 1..Len(s)  BY <2>1, <2>2, <3>2
      <3>4. at \subseteq 1..Len(s)  BY <1>5, <2>2 DEF s
      <3>. QED  BY <2>2, <3>3, <3>4, Upto, FS_Subset
    <2>4. CASE in.rules # <<>>
      <3>1. MostStay(PtIs(s), want["acls"], e["acls"])  BY <1>1, <1>5, <2>4 DEF AllDone, RulesDone, NewRules
      <3>2. DOMAIN PtIs(s) = DOMAIN s  BY <2>1, IsOfNodes DEF RuleNodes
      <3>. QED  BY <1>5, <3>1, <3>2 DEF MostStay
    <2>. QED  BY <2>3, <2>4
  <1>6. ASSUME in.rules = <<>>, "acls" \in DOMAIN d PROVE e["acls"] = d["acls"]
    <2>1. SameIn(d, e, {"acls"})  BY <1>6 DEF AllDone, RulesDone
    <2>. QED  BY <1>0, <1>6, <2>1
  <1>7. ASSUME in.groups = <<>>, "groups" \in DOMAIN d PROVE e["groups"] = d["groups"]
    <2>1. SameIn(d, e, {"groups"})  BY <1>7 DEF AllDone, GroupsDone
    <2>. QED  BY <1>0, <1>7, <2>1
  <1>. HIDE DEF staying
  <1>8. \A k \in {"groups", "routes"} : PtHas(d, k) =>
           \A n \in DOMAIN d[k] \cap DOMAIN want[k] : d[k][n].is = want[k][n] => e[k][n] = d[k][n]
    BY <1>2, <1>3
  <1>. QED  BY <1>4, <1>5, <1>6, <1>7, <1>8 DEF Untouched, want, staying

-----------------------------------------------------------------------------
(* The plan is carried out to its end.                                     *)

\* What is left of the plan leads to a document that is what was asked for.
PtLeads(s) ==
  \E e : Runs(s.doc, s.ops, e) /\ PtModel(e) = PtRequested(s.was, s.in) /\ Untouched(s.was, s.in, e)
PtInv ==
  ptSave # <<>> =>
    \E s : ptSave = <<s>> /\ s = [was |-> s.was, in |-> s.in, doc |-> s.doc, ops |-> s.ops] /\ PtLeads(s)

LEMMA PtInvInit == PtInit => PtInv
  BY DEF PtInit, PtInv

LEMMA PtInvNext == PtInv /\ [PtNext]_ptSave => PtInv'
  <1>. SUFFICES ASSUME PtInv, [PtNext]_ptSave PROVE PtInv'  OBVIOUS
  <1>1. CASE PtPlan
    <2>1. PICK c \in PtCases : ptSave' = <<[was |-> c.doc, in |-> c.in, doc |-> c.doc, ops |-> Plan(c.doc, c.in)]>>
      BY <1>1 DEF PtPlan
    <2>. DEFINE s == [was |-> c.doc, in |-> c.in, doc |-> c.doc, ops |-> Plan(c.doc, c.in)]
    <2>2. PtDocument(c.doc) /\ PtAllOld(c.doc) /\ PtInput(c.in)  BY PatcherAssumption
    <2>3. PICK e : Runs(c.doc, Plan(c.doc, c.in), e) /\ AllDone(c.doc, c.in, e)  BY <2>2, PlanRuns
    <2>4. PtModel(e) = PtRequested(c.doc, c.in) /\ Untouched(c.doc, c.in, e)
      BY <2>2, <2>3, GivesRequest, LeavesUntouched
    <2>5. s.was = c.doc /\ s.in = c.in /\ s.doc = c.doc /\ s.ops = Plan(c.doc, c.in)
          /\ s = [was |-> s.was, in |-> s.in, doc |-> s.doc, ops |-> s.ops]
      OBVIOUS
    <2>6. ptSave' = <<s>>  BY <2>1
    <2>. HIDE DEF s
    <2>7. PtLeads(s)  BY <2>3, <2>4, <2>5 DEF PtLeads
    <2>. QED  BY <2>5, <2>6, <2>7 DEF PtInv
  <1>2. CASE PtApply
    <2>1. PICK s : ptSave = <<s>> /\ s = [was |-> s.was, in |-> s.in, doc |-> s.doc, ops |-> s.ops] /\ PtLeads(s)
      BY <1>2 DEF PtApply, PtInv
    <2>2. PICK e : Runs(s.doc, s.ops, e) /\ PtModel(e) = PtRequested(s.was, s.in) /\ Untouched(s.was, s.in, e)
      BY <2>1 DEF PtLeads
    <2>. DEFINE t == [s EXCEPT !.doc = Applied(@, Head(s.ops)), !.ops = Tail(@)]
    <2>3. ptSave[1] = s  BY <2>1
    <2>4. s.ops # <<>> /\ ptSave' = <<t>>  BY <1>2, <2>3 DEF PtApply
    <2>5. t.was = s.was /\ t.in = s.in /\ t.doc = Applied(s.doc, Head(s.ops)) /\ t.ops = Tail(s.ops)
          /\ t = [was |-> t.was, in |-> t.in, doc |-> t.doc, ops |-> t.ops]
      <3>. DEFINE w == s.was
                  i == s.in
                  d == s.doc
                  o == s.ops
                  d2 == Applied(s.doc, Head(s.ops))
                  o2 == Tail(s.ops)
      <3>1. s = [was |-> w, in |-> i, doc |-> d, ops |-> o]  BY <2>1
      <3>2. t = [s EXCEPT !.doc = d2, !.ops = o2]  OBVIOUS
      <3>. HIDE DEF w, i, d, o, d2, o2, t
      <3>3. t = [was |-> w, in |-> i, doc |-> d2, ops |-> o2]  BY ONLY <3>1, <3>2
      <3>4. t.was = w /\ t.in = i /\ t.doc = d2 /\ t.ops = o2  BY ONLY <3>3
      <3>5. t = [was |-> t.was, in |-> t.in, doc |-> t.doc, ops |-> t.ops]  BY ONLY <3>3, <3>4
      <3>. QED  BY <3>4, <3>5 DEF w, i, d2, o2
    <2>. HIDE DEF t
    <2>6. Runs(t.doc, t.ops, e)  BY <2>2, <2>4, <2>5, RunHead
    <2>7. PtLeads(t)  BY <2>2, <2>5, <2>6 DEF PtLeads
    <2>. QED  BY <2>4, <2>5, <2>7 DEF PtInv
  <1>3. CASE PtDone  BY <1>3 DEF PtDone, PtInv
  <1>4. CASE UNCHANGED ptSave  BY <1>4 DEF PtInv
  <1>. QED  BY <1>1, <1>2, <1>3, <1>4 DEF PtNext

LEMMA PtInvShows == PtInv => PatchGivesRequest /\ UntouchedStays
  <1>. SUFFICES ASSUME PtInv, ptSave # <<>> PROVE PatchGivesRequest /\ UntouchedStays
    BY DEF PatchGivesRequest, UntouchedStays
  <1>1. PICK s : ptSave = <<s>> /\ PtLeads(s)  BY DEF PtInv
  <1>2. ptSave[1] = s  BY <1>1
  <1>3. PICK e : Runs(s.doc, s.ops, e) /\ PtModel(e) = PtRequested(s.was, s.in) /\ Untouched(s.was, s.in, e)
    BY <1>1 DEF PtLeads
  <1>4. s.ops # <<>> => Applicable(s.doc, Head(s.ops))  BY <1>3, RunHead
  <1>5. s.ops = <<>> => e = s.doc  BY <1>3, RunEmpty
  <1>6. PatchGivesRequest  BY <1>2, <1>3, <1>4, <1>5 DEF PatchGivesRequest
  <1>7. UntouchedStays
    <2>1. SUFFICES ASSUME s.ops = <<>>
                   PROVE  Untouched(s.was, s.in, s.doc)
      BY <1>2 DEF UntouchedStays, Untouched
    <2>. QED  BY <1>3, <1>5, <2>1
  <1>. QED  BY <1>6, <1>7

\* For any documents and requests, and any order of the keys of a map: every
\* operation Plan lists applies where Apply gets to it, and the patched document
\* has the model that ModelFromInput asked for.
THEOREM PatchesGiveTheRequest == PtSpec => []PatchGivesRequest
  BY PtInvInit, PtInvNext, PtInvShows, PTL DEF PtSpec

\* For any documents and requests, the patch leaves alone what it can: of a list
\* as many elements as can stay in any way, entries with the same value, and the
\* sections that were not sent.
THEOREM PatchesStaySmall == PtSpec => []UntouchedStays
  BY PtInvInit, PtInvNext, PtInvShows, PTL DEF PtSpec
=============================================================================
