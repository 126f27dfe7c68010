--------------------------- MODULE DraftListProofs ----------------------------
(***************************************************************************)
(* The lists of a draft and their elements, for any policies and any       *)
(* number of edits: a rule is edited by its key, and one key is one rule;  *)
(* what came from the server keeps the server's order (KeysInv).           *)
(* Re-applying a draft after a 409 is a three-way merge of the rules and   *)
(* of the other elements too, and a save changes lists only where changes  *)
(* were reviewed (SaveInv).                                                *)
(***************************************************************************)
EXTENDS DraftProofs

-----------------------------------------------------------------------------
(* The keys of rules.                                                      *)

Twinless(base) == AllDifferent([i \in DOMAIN base[1].rules |-> base[1].rules[i].uses])

\* A rule of the model has its fingerprint as a key, and only it; any other
\* rule has a number.
KeyedRule(r, base) ==
  \/ r.key = <<"id", r.serverId>> /\ base # <<>> /\ r.serverId \in Ids(base[1])
  \/ r.key[1] = "new" /\ r.serverId = {}

\* Only equal rules of the model share a key.
MayShare(key, base) == key[1] = "id" /\ ~Twinless(base)
KeyedRules(rules, base) ==
  /\ \A i \in DOMAIN rules : KeyedRule(rules[i], base)
  /\ \A i, j \in DOMAIN rules : rules[i].key = rules[j].key => i = j \/ MayShare(rules[i].key, base)

\* What an edit may do to the list.
OneRule(before, after) ==
  CASE Len(after) = Len(before) -> Cardinality({i \in DOMAIN before : before[i] # after[i]}) <= 1
    [] OTHER -> Len(after) \in {Len(before) - 1, Len(before) + 1}

LEMMA AtMostOneMember ==
  ASSUME NEW S, \A x, y \in S : x = y
  PROVE  IsFiniteSet(S) /\ Cardinality(S) \in Nat /\ Cardinality(S) <= 1
  <1>1. CASE S = {}  BY <1>1, FS_EmptySet
  <1>2. CASE S # {}
    <2>1. PICK x : x \in S  BY <1>2
    <2>2. S = {x}  BY <2>1
    <2>. QED  BY <2>2, FS_Singleton
  <1>. QED  BY <1>1, <1>2

LEMMA SameRules ==
  ASSUME NEW rules
  PROVE  OneRule(rules, rules)
  <1>1. {i \in DOMAIN rules : rules[i] # rules[i]} = {}  OBVIOUS
  <1>. QED  BY <1>1, FS_EmptySet DEF OneRule

\* Rules that keep their keys and fingerprints.
LEMMA KeysStay ==
  ASSUME NEW rules, NEW base, KeyedRules(rules, base), NEW f, DOMAIN f = DOMAIN rules,
         \A i \in DOMAIN rules : f[i].key = rules[i].key /\ f[i].serverId = rules[i].serverId
  PROVE  KeyedRules(f, base)
  BY DEF KeyedRules, KeyedRule

LEMMA PickedOnce ==
  ASSUME NEW rules \in Seq(DraftRule), NEW at, at \subseteq DOMAIN rules, NEW x, x = Sublist(rules, at)
  PROVE  /\ x \in Seq(DraftRule) /\ Len(x) = Cardinality(at) /\ DOMAIN x = 1..Len(x)
         /\ \A n \in DOMAIN x : NthOf(at, n) \in at /\ x[n] = rules[NthOf(at, n)]
         /\ \A n, m \in DOMAIN x : NthOf(at, n) = NthOf(at, m) => n = m
  <1>1. Len(rules) \in Nat /\ Places(at, Len(rules))  BY DEF Places
  <1>2. /\ x \in Seq(DraftRule) /\ Len(x) = Cardinality(at) /\ Cardinality(at) \in Nat
        /\ \A n \in 1..Cardinality(at) : x[n] = rules[NthOf(at, n)] /\ NthOf(at, n) \in at
    BY <1>1, ASublist
  <1>3. DOMAIN x = 1..Len(x)  BY <1>2
  <1>4. \A n \in 1..Cardinality(at) : Rank(at, NthOf(at, n)) = n  BY <1>1, NthPlace
  <1>. QED  BY <1>2, <1>3, <1>4

LEMMA KeysPicked ==
  ASSUME NEW rules \in Seq(DraftRule), NEW base, KeyedRules(rules, base), NEW at, at \subseteq DOMAIN rules
  PROVE  KeyedRules(Sublist(rules, at), base)
  <1>. DEFINE x == Sublist(rules, at)
  <1>1. /\ \A n \in DOMAIN x : NthOf(at, n) \in DOMAIN rules /\ x[n] = rules[NthOf(at, n)]
        /\ \A n, m \in DOMAIN x : NthOf(at, n) = NthOf(at, m) => n = m
    BY PickedOnce
  <1>. HIDE DEF x
  <1>2. \A n \in DOMAIN x : KeyedRule(x[n], base)  BY <1>1 DEF KeyedRules
  <1>3. ASSUME NEW n \in DOMAIN x, NEW m \in DOMAIN x, x[n].key = x[m].key
        PROVE  n = m \/ MayShare(x[n].key, base)
    <2>1. rules[NthOf(at, n)].key = rules[NthOf(at, m)].key  BY <1>1, <1>3
    <2>2. NthOf(at, n) = NthOf(at, m) \/ MayShare(x[n].key, base)  BY <1>1, <2>1 DEF KeyedRules
    <2>. QED  BY <1>1, <2>2
  <1>4. KeyedRules(x, base)  BY <1>2, <1>3 DEF KeyedRules
  <1>. QED  BY <1>4 DEF x

\* A number that no rule has.
LEMMA NumberIsNew ==
  ASSUME NEW rules \in Seq(DraftRule), NEW held, IsFiniteSet(held)
  PROVE  LET key == <<"new", NewKey(Numbers(rules) \cup held, 1)>>
         IN  \A i \in DOMAIN rules : rules[i].key # key
  <1>1. IsFiniteSet(Numbers(rules) \cup held)  BY NumbersFinite, FS_Union
  <1>2. NewKey(Numbers(rules) \cup held, 1) \notin Numbers(rules)  BY <1>1, NewKeyIsFree
  <1>. DEFINE n == NewKey(Numbers(rules) \cup held, 1)
  <1>. HIDE DEF n
  <1>3. ASSUME NEW i \in DOMAIN rules, rules[i].key = <<"new", n>> PROVE n \in Numbers(rules)
    BY <1>3 DEF Numbers
  <1>. QED  BY <1>2, <1>3 DEF n

LEMMA KeyInserted ==
  ASSUME NEW rules \in Seq(DraftRule), NEW base, KeyedRules(rules, base),
         NEW p \in 1..(Len(rules) + 1), NEW r, KeyedRule(r, base),
         \A i \in DOMAIN rules : rules[i].key # r.key
  PROVE  KeyedRules(Inserted(rules, p, r), base) /\ Len(Inserted(rules, p, r)) = Len(rules) + 1
  <1>. DEFINE x == Inserted(rules, p, r)
              N == Len(rules)
  <1>1. N \in Nat /\ DOMAIN rules = 1..N /\ p \in Nat  OBVIOUS
  <1>2. x = [i \in 1..(N + 1) |-> IF i < p THEN rules[i] ELSE IF i = p THEN r ELSE rules[i - 1]]
    BY DEF Inserted
  <1>3. DOMAIN x = 1..(N + 1) /\ Len(x) = N + 1  BY <1>1, <1>2
  <1>4. \A i \in 1..(N + 1) :
          \/ i < p /\ i \in 1..N /\ x[i] = rules[i]
          \/ i = p /\ x[i] = r
          \/ i > p /\ i - 1 \in 1..N /\ x[i] = rules[i - 1]
    BY <1>1, <1>2
  <1>. HIDE DEF x, N
  <1>5. \A i \in 1..(N + 1) : KeyedRule(x[i], base)  BY <1>1, <1>4 DEF KeyedRules
  <1>6. ASSUME NEW i \in 1..(N + 1), NEW j \in 1..(N + 1), x[i].key = x[j].key
        PROVE  i = j \/ MayShare(x[i].key, base)
    <2>1. \A k, l \in 1..N : rules[k].key = rules[l].key => k = l \/ MayShare(rules[k].key, base)
      BY <1>1 DEF KeyedRules
    <2>2. \A k \in 1..N : rules[k].key # r.key  BY <1>1
    <2>3. i \in Nat /\ j \in Nat  OBVIOUS
    <2>4. CASE i = p /\ x[i] = r  BY <1>4, <1>6, <2>2, <2>3, <2>4
    <2>5. CASE i < p /\ i \in 1..N /\ x[i] = rules[i]
      <3>1. CASE j < p /\ j \in 1..N /\ x[j] = rules[j]  BY <1>6, <2>1, <2>5, <3>1
      <3>2. CASE j > p /\ j - 1 \in 1..N /\ x[j] = rules[j - 1]
        <4>1. i # j - 1  BY <1>1, <2>3, <2>5, <3>2
        <4>. QED  BY <1>6, <2>1, <2>5, <3>2, <4>1
      <3>. QED  BY <1>4, <1>6, <2>2, <2>5, <3>1, <3>2
    <2>6. CASE i > p /\ i - 1 \in 1..N /\ x[i] = rules[i - 1]
      <3>1. CASE j < p /\ j \in 1..N /\ x[j] = rules[j]
        <4>1. i - 1 # j  BY <1>1, <2>3, <2>6, <3>1
        <4>. QED  BY <1>6, <2>1, <2>6, <3>1, <4>1
      <3>2. CASE j > p /\ j - 1 \in 1..N /\ x[j] = rules[j - 1]
        <4>1. i - 1 = j - 1 => i = j  BY <2>3
        <4>. QED  BY <1>6, <2>1, <2>6, <3>2, <4>1
      <3>. QED  BY <1>4, <1>6, <2>2, <2>6, <3>1, <3>2
    <2>. QED  BY <1>4, <2>4, <2>5, <2>6
  <1>7. KeyedRules(x, base)  BY <1>3, <1>5, <1>6 DEF KeyedRules
  <1>. QED  BY <1>3, <1>7 DEF x, N

LEMMA KeysJoined ==
  ASSUME NEW a \in Seq(DraftRule), NEW b \in Seq(DraftRule), NEW base,
         KeyedRules(a, base), KeyedRules(b, base),
         \A i \in DOMAIN a : \A j \in DOMAIN b : a[i].key # b[j].key
  PROVE  KeyedRules(a \o b, base)
  <1>. DEFINE x == a \o b
              M == Len(a)
              N == Len(b)
  <1>1. /\ M \in Nat /\ DOMAIN a = 1..M
        /\ N \in Nat /\ DOMAIN b = 1..N
    OBVIOUS
  <1>2. /\ x \in Seq(DraftRule) /\ Len(x) = M + N
        /\ \A i \in 1..M : x[i] = a[i]
        /\ \A i \in 1..N : x[M + i] = b[i]
    BY Joined
  <1>. HIDE DEF x
  <1>3. DOMAIN x = 1..(M + N)  BY <1>2
  <1>. HIDE DEF M, N
  <1>4. \A i \in 1..(M + N) :
          \/ i \in 1..M /\ x[i] = a[i]
          \/ i - M \in 1..N /\ x[i] = b[i - M]
    <2>1. SUFFICES ASSUME NEW i \in 1..(M + N), i \notin 1..M PROVE i - M \in 1..N /\ x[i] = b[i - M]
      BY <1>2
    <2>2. i - M \in 1..N /\ i = M + (i - M)  BY <1>1, <2>1
    <2>. QED  BY <1>2, <2>2
  <1>5. \A i \in 1..(M + N) : KeyedRule(x[i], base)  BY <1>1, <1>4 DEF KeyedRules
  <1>6. ASSUME NEW i \in 1..(M + N), NEW j \in 1..(M + N), x[i].key = x[j].key
        PROVE  i = j \/ MayShare(x[i].key, base)
    <2>1. \A k, l \in 1..M : a[k].key = a[l].key => k = l \/ MayShare(a[k].key, base)
      BY <1>1 DEF KeyedRules
    <2>2. \A k, l \in 1..N : b[k].key = b[l].key => k = l \/ MayShare(b[k].key, base)
      BY <1>1 DEF KeyedRules
    <2>3. \A k \in 1..M, l \in 1..N : a[k].key # b[l].key  BY <1>1
    <2>4. i \in Nat /\ j \in Nat  BY <1>1
    <2>5. CASE i \in 1..M /\ x[i] = a[i]
      <3>1. CASE j \in 1..M /\ x[j] = a[j]  BY <1>6, <2>1, <2>5, <3>1
      <3>2. CASE j - M \in 1..N /\ x[j] = b[j - M]  BY <1>6, <2>3, <2>5, <3>2
      <3>. QED  BY <1>4, <3>1, <3>2
    <2>6. CASE i - M \in 1..N /\ x[i] = b[i - M]
      <3>1. CASE j \in 1..M /\ x[j] = a[j]  BY <1>6, <2>3, <2>6, <3>1
      <3>2. CASE j - M \in 1..N /\ x[j] = b[j - M]
        <4>1. i - M = j - M => i = j  BY <1>1, <2>4
        <4>. QED  BY <1>6, <2>2, <2>6, <3>2, <4>1
      <3>. QED  BY <1>4, <3>1, <3>2
    <2>. QED  BY <1>4, <2>5, <2>6
  <1>7. KeyedRules(x, base)  BY <1>3, <1>5, <1>6 DEF KeyedRules
  <1>. QED  BY <1>7 DEF x
-----------------------------------------------------------------------------
(* The order of a draft: what came from the server is in the server's      *)
(* order, with the user's additions in between.                            *)

ServerIds(rules) == [i \in DOMAIN rules |-> rules[i].serverId]
UsesOf(rules) == [i \in DOMAIN rules |-> rules[i].uses]

\* The rules with a fingerprint are those of the model that are left.
Follows(rules, base) ==
  Among(ServerIds(rules), Element) = Among(UsesOf(base[1].rules), Values(ServerIds(rules)))

Ordered(items) ==
  \A i, j \in DOMAIN items :
    i < j /\ items[i].origin # 0 /\ items[j].origin # 0 => items[i].origin < items[j].origin

InOrder(d) == d.base # <<>> => Follows(d.rules, d.base) /\ Ordered(d.extras)
KeepsOrder(d, n) == InOrder(d) => InOrder(n)

LEMMA ServerIdsAre ==
  ASSUME NEW rules \in Seq(DraftRule)
  PROVE  /\ ServerIds(rules) \in Seq(SUBSET Selectors) /\ Len(ServerIds(rules)) = Len(rules)
         /\ DOMAIN ServerIds(rules) = DOMAIN rules /\ \A i \in DOMAIN rules : ServerIds(rules)[i] = rules[i].serverId
  <1>1. Len(rules) \in Nat /\ DOMAIN rules = 1..Len(rules) /\ \A i \in DOMAIN rules : rules[i] \in DraftRule  OBVIOUS
  <1>2. \A i \in DOMAIN rules : rules[i].serverId \in SUBSET Selectors  BY <1>1 DEF DraftRule
  <1>3. ServerIds(rules) \in [1..Len(rules) -> SUBSET Selectors]  BY <1>1, <1>2 DEF ServerIds
  <1>4. DOMAIN ServerIds(rules) = DOMAIN rules /\ \A i \in DOMAIN rules : ServerIds(rules)[i] = rules[i].serverId
    BY DEF ServerIds
  <1>. HIDE DEF ServerIds
  <1>. QED  BY <1>1, <1>3, <1>4, AList

LEMMA UsesAre ==
  ASSUME NEW rules \in Seq(ShownRule)
  PROVE  /\ UsesOf(rules) \in Seq(SUBSET Selectors) /\ Len(UsesOf(rules)) = Len(rules)
         /\ DOMAIN UsesOf(rules) = DOMAIN rules
         /\ \A i \in DOMAIN rules : UsesOf(rules)[i] = rules[i].uses /\ rules[i].uses \in Element
  <1>1. Len(rules) \in Nat /\ DOMAIN rules = 1..Len(rules) /\ \A i \in DOMAIN rules : rules[i] \in ShownRule  OBVIOUS
  <1>2. \A i \in DOMAIN rules : rules[i].uses \in Element  BY <1>1 DEF ShownRule
  <1>3. UsesOf(rules) \in [1..Len(rules) -> SUBSET Selectors]  BY <1>1, <1>2 DEF UsesOf, Element
  <1>4. DOMAIN UsesOf(rules) = DOMAIN rules /\ \A i \in DOMAIN rules : UsesOf(rules)[i] = rules[i].uses
    BY DEF UsesOf
  <1>. HIDE DEF UsesOf
  <1>. QED  BY <1>1, <1>2, <1>3, <1>4, AList

LEMMA AmongSame ==
  ASSUME NEW s, NEW S, NEW T, \A i \in DOMAIN s : s[i] \in S <=> s[i] \in T
  PROVE  Among(s, S) = Among(s, T)
  <1>1. {i \in DOMAIN s : s[i] \in S} = {i \in DOMAIN s : s[i] \in T}  OBVIOUS
  <1>. QED  BY <1>1 DEF Among

LEMMA AmongAmong ==
  ASSUME NEW E, NEW s \in Seq(E), NEW S, NEW T
  PROVE  Among(Among(s, S), T) = Among(s, S \cap T)
  <1>. DEFINE at == {i \in DOMAIN s : s[i] \in S}
  <1>1. {i \in at : s[i] \in T} = {i \in DOMAIN s : s[i] \in S \cap T}  OBVIOUS
  <1>2. at \subseteq DOMAIN s  OBVIOUS
  <1>. HIDE DEF at
  <1>3. Among(Sublist(s, at), T) = Sublist(s, {i \in at : s[i] \in T})  BY <1>2, AmongPicked
  <1>. QED  BY <1>1, <1>3 DEF Among, at

LEMMA ValuesPicked ==
  ASSUME NEW E, NEW s \in Seq(E), NEW at, at \subseteq DOMAIN s
  PROVE  Values(Sublist(s, at)) = {s[i] : i \in at}
  <1>. DEFINE x == Sublist(s, at)
  <1>1. Len(s) \in Nat /\ Places(at, Len(s))  BY DEF Places
  <1>2. \A n \in 1..Cardinality(at) : x[n] = s[NthOf(at, n)] /\ NthOf(at, n) \in at  BY <1>1, ASublist
  <1>3. DOMAIN x = 1..Cardinality(at)  BY DEF Sublist
  <1>. HIDE DEF x
  <1>4. ASSUME NEW i \in at PROVE s[i] \in Values(x)
    <2>1. Rank(at, i) \in 1..Cardinality(at) /\ NthOf(at, Rank(at, i)) = i  BY <1>1, NthIs
    <2>2. x[Rank(at, i)] = s[i]  BY <1>2, <2>1
    <2>. QED  BY <1>3, <2>1, <2>2 DEF Values
  <1>5. Values(x) \subseteq {s[i] : i \in at}  BY <1>2, <1>3 DEF Values
  <1>. QED  BY <1>4, <1>5 DEF x

LEMMA FollowsStays ==
  ASSUME NEW rules, NEW base, Follows(rules, base), NEW f, DOMAIN f = DOMAIN rules,
         \A i \in DOMAIN rules : f[i].serverId = rules[i].serverId
  PROVE  Follows(f, base)
  <1>1. ServerIds(f) = ServerIds(rules)  BY DEF ServerIds
  <1>. QED  BY <1>1 DEF Follows

\* Of the rules with a fingerprint all stay, or all but those with some
\* fingerprints.
LEMMA FollowsPicked ==
  ASSUME NEW rules \in Seq(DraftRule), NEW base, base[1].rules \in Seq(ShownRule), Follows(rules, base),
         NEW at, at \subseteq DOMAIN rules, NEW X,
         \A i \in DOMAIN rules : rules[i].serverId \in Element => (i \in at <=> rules[i].serverId \notin X)
  PROVE  Follows(Sublist(rules, at), base)
  <1>. DEFINE ids == ServerIds(rules)
              x == Sublist(rules, at)
              y == Sublist(ids, at)
              U == UsesOf(base[1].rules)
              V == Values(ids)
              A == SUBSET Selectors
  <1>1. /\ ids \in Seq(A) /\ DOMAIN ids = DOMAIN rules /\ Len(ids) = Len(rules)
        /\ \A i \in DOMAIN rules : ids[i] = rules[i].serverId
    BY ServerIdsAre
  <1>2. U \in Seq(A) /\ \A i \in DOMAIN U : U[i] \in Element  BY UsesAre
  <1>3. Among(ids, Element) = Among(U, V)  BY DEF Follows
  <1>4. ServerIds(x) = y
    <2>1. Cardinality(at) \in Nat /\ \A n \in 1..Cardinality(at) : NthOf(at, n) \in at
      <3>1. Len(rules) \in Nat /\ Places(at, Len(rules))  BY DEF Places
      <3>. QED  BY <3>1, PlacesFinite, NthPlace
    <2>2. \A n \in 1..Cardinality(at) : rules[NthOf(at, n)].serverId = ids[NthOf(at, n)]  BY <1>1, <2>1
    <2>. HIDE DEF ids
    <2>. QED  BY <2>2 DEF ServerIds, Sublist
  <1>5. Values(y) = {ids[i] : i \in at}
    <2>1. at \subseteq DOMAIN ids /\ ids \in Seq(A)  BY <1>1
    <2>. HIDE DEF ids, A
    <2>. QED  BY <2>1, ValuesPicked
  <1>. HIDE DEF ids, x, y, U, V, A
  <1>6. Among(y, Element) = Among(ids, Element \ X)
    <2>1. Among(y, Element) = Sublist(ids, {i \in at : ids[i] \in Element})  BY <1>1, AmongPicked DEF y
    <2>2. {i \in at : ids[i] \in Element} = {i \in DOMAIN ids : ids[i] \in Element \ X}  BY <1>1
    <2>. QED  BY <2>1, <2>2 DEF Among
  <1>7. Among(ids, Element \ X) = Among(Among(ids, Element), Element \ X)
    <2>1. Element \ X = Element \cap (Element \ X)  OBVIOUS
    <2>. QED  BY <1>1, <2>1, AmongAmong
  <1>8. Among(Among(U, V), Element \ X) = Among(U, V \cap (Element \ X))  BY <1>2, AmongAmong
  <1>9. Among(U, V \cap (Element \ X)) = Among(U, Values(y))
    <2>1. ASSUME NEW v \in Element PROVE v \in V \cap (Element \ X) <=> v \in Values(y)
      <3>1. v \in V <=> \E i \in DOMAIN rules : v = ids[i]  BY <1>1 DEF V, Values
      <3>. QED  BY <1>1, <1>5, <3>1
    <2>2. \A i \in DOMAIN U : U[i] \in V \cap (Element \ X) <=> U[i] \in Values(y)  BY <1>2, <2>1
    <2>. QED  BY <2>2, AmongSame
  <1>. QED  BY <1>3, <1>4, <1>6, <1>7, <1>8, <1>9 DEF Follows, U, x

\* Additions change nothing.
LEMMA FollowsInserted ==
  ASSUME NEW rules \in Seq(DraftRule), NEW base, base[1].rules \in Seq(ShownRule), Follows(rules, base),
         NEW p \in 1..(Len(rules) + 1), NEW r \in DraftRule, r.serverId = {}
  PROVE  Follows(Inserted(rules, p, r), base)
  <1>. DEFINE ids == ServerIds(rules)
              x == Inserted(rules, p, r)
              y == Inserted(ids, p, {})
              U == UsesOf(base[1].rules)
              A == SUBSET Selectors
              N == Len(rules)
  <1>1. /\ ids \in Seq(A) /\ DOMAIN ids = DOMAIN rules /\ Len(ids) = N
        /\ \A i \in DOMAIN rules : ids[i] = rules[i].serverId
    BY ServerIdsAre
  <1>2. \A i \in DOMAIN U : U[i] \in Element  BY UsesAre
  <1>3. N \in Nat /\ p \in Nat /\ DOMAIN rules = 1..N  OBVIOUS
  <1>4. Among(ids, Element) = Among(U, Values(ids))  BY DEF Follows
  <1>5. {} \in A /\ {} \notin Element  BY DEF Element
  <1>6. ServerIds(x) = y
    <2>1. \A i \in 1..(N + 1) : ~(i < p) /\ i # p => i - 1 \in 1..N  BY <1>3
    <2>2. \A i \in 1..(N + 1) : i < p => i \in 1..N  BY <1>3
    <2>. HIDE DEF ids, N
    <2>. QED  BY <1>1, <1>3, <2>1, <2>2 DEF ServerIds, Inserted, N
  <1>. HIDE DEF ids, A
  <1>7. Among(y, Element) = Among(ids, Element)
    <2>1. p \in 1..(Len(ids) + 1)  BY <1>1 DEF N
    <2>. QED  BY <1>1, <1>5, <2>1, AmongInserted
  <1>8. Among(U, Values(ids)) = Among(U, Values(y))
    <2>1. DOMAIN y = 1..(N + 1)  BY <1>1 DEF Inserted
    <2>2. \A i \in 1..(N + 1) : y[i] = IF i < p THEN ids[i] ELSE IF i = p THEN {} ELSE ids[i - 1]
      BY <1>1 DEF Inserted
    <2>. HIDE DEF y, N
    <2>3. ASSUME NEW v \in Element, v \in Values(ids) PROVE v \in Values(y)
      <3>1. PICK i \in 1..N : v = ids[i]  BY <1>1, <1>3, <2>3 DEF Values, N
      <3>2. CASE i < p
        <4>1. i \in 1..(N + 1) /\ y[i] = v  BY <1>3, <2>2, <3>1, <3>2 DEF N
        <4>. QED  BY <2>1, <4>1 DEF Values
      <3>3. CASE ~(i < p)
        <4>1. i + 1 \in 1..(N + 1) /\ ~(i + 1 < p) /\ i + 1 # p /\ (i + 1) - 1 = i  BY <1>3, <3>1, <3>3 DEF N
        <4>2. y[i + 1] = v  BY <2>2, <3>1, <4>1
        <4>. QED  BY <2>1, <4>1, <4>2 DEF Values
      <3>. QED  BY <3>2, <3>3
    <2>4. ASSUME NEW v \in Element, v \in Values(y) PROVE v \in Values(ids)
      <3>1. PICK i \in 1..(N + 1) : v = y[i]  BY <2>1, <2>4 DEF Values
      <3>2. i # p  BY <1>5, <2>2, <3>1
      <3>3. CASE i < p
        <4>1. i \in 1..N  BY <1>3, <3>1, <3>3 DEF N
        <4>. QED  BY <1>1, <1>3, <2>2, <3>1, <3>3, <4>1 DEF Values, N
      <3>4. CASE i > p
        <4>1. i - 1 \in 1..N /\ ~(i < p)  BY <1>3, <3>1, <3>4 DEF N
        <4>. QED  BY <1>1, <1>3, <2>2, <3>1, <3>2, <4>1 DEF Values, N
      <3>. QED  BY <1>3, <3>1, <3>2, <3>3, <3>4
    <2>5. \A i \in DOMAIN U : U[i] \in Values(ids) <=> U[i] \in Values(y)  BY <1>2, <2>3, <2>4
    <2>. QED  BY <2>5, AmongSame
  <1>. QED  BY <1>4, <1>6, <1>7, <1>8 DEF Follows, x, U

LEMMA FollowsJoined ==
  ASSUME NEW a \in Seq(DraftRule), NEW b \in Seq(DraftRule), NEW base, base[1].rules \in Seq(ShownRule),
         Follows(a, base), \A i \in DOMAIN b : b[i].serverId = {}
  PROVE  Follows(a \o b, base)
  <1>. DEFINE s == ServerIds(a)
              t == ServerIds(b)
              U == UsesOf(base[1].rules)
              A == SUBSET Selectors
              M == Len(a)
              N == Len(b)
  <1>1. /\ s \in Seq(A) /\ Len(s) = M /\ DOMAIN s = DOMAIN a /\ \A i \in DOMAIN a : s[i] = a[i].serverId
        /\ t \in Seq(A) /\ Len(t) = N /\ DOMAIN t = DOMAIN b /\ \A i \in DOMAIN b : t[i] = b[i].serverId
    BY ServerIdsAre
  <1>2. \A i \in DOMAIN U : U[i] \in Element  BY UsesAre
  <1>3. M \in Nat /\ N \in Nat /\ DOMAIN a = 1..M /\ DOMAIN b = 1..N  OBVIOUS
  <1>4. Among(s, Element) = Among(U, Values(s))  BY DEF Follows
  <1>5. \A i \in DOMAIN t : t[i] = {} /\ t[i] \notin Element  BY <1>1 DEF Element
  <1>6. /\ a \o b \in Seq(DraftRule) /\ Len(a \o b) = M + N
        /\ \A i \in 1..M : (a \o b)[i] = a[i]
        /\ \A i \in 1..N : (a \o b)[M + i] = b[i]
    BY Joined
  <1>. DEFINE x == a \o b
              y == ServerIds(x)
              z == s \o t
  <1>7. y \in Seq(A) /\ DOMAIN y = 1..(M + N) /\ \A i \in 1..(M + N) : y[i] = x[i].serverId
    <2>1. x \in Seq(DraftRule) /\ Len(x) = M + N  BY <1>6
    <2>2. DOMAIN x = 1..(M + N)
      <3>. HIDE DEF x, M, N
      <3>. QED  BY <2>1
    <2>. HIDE DEF x
    <2>. QED  BY <2>1, <2>2, ServerIdsAre
  <1>. HIDE DEF s, t, A
  <1>8. /\ z \in Seq(A) /\ Len(z) = M + N
        /\ \A i \in 1..M : z[i] = s[i]
        /\ \A i \in 1..N : z[M + i] = t[i]
    <2>1. s \in Seq(A) /\ t \in Seq(A)  BY <1>1
    <2>2. /\ z \in Seq(A) /\ Len(z) = Len(s) + Len(t)
          /\ \A i \in 1..Len(s) : z[i] = s[i]
          /\ \A i \in 1..Len(t) : z[Len(s) + i] = t[i]
      BY ONLY <2>1, Joined
    <2>. QED  BY <1>1, <2>2
  <1>. HIDE DEF x, y, z, M, N
  <1>9. DOMAIN z = 1..(M + N)  BY <1>8
  <1>10. ASSUME NEW i \in 1..(M + N) PROVE y[i] = z[i]
    <2>1. CASE i \in 1..M
      <3>1. x[i] = a[i] /\ z[i] = s[i]  BY <1>6, <1>8, <2>1 DEF x
      <3>2. s[i] = a[i].serverId  BY <1>1, <1>3, <2>1
      <3>. QED  BY <1>7, <3>1, <3>2
    <2>2. CASE i \notin 1..M
      <3>1. i - M \in 1..N /\ i = M + (i - M)  BY <1>3, <2>2
      <3>2. x[i] = b[i - M] /\ z[i] = t[i - M]  BY <1>6, <1>8, <3>1 DEF x
      <3>. QED  BY <1>1, <1>3, <1>7, <3>1, <3>2
    <2>. QED  BY <2>1, <2>2
  <1>11. y = z
    <2>1. y = [i \in 1..(M + N) |-> y[i]] /\ z = [i \in 1..(M + N) |-> z[i]]  BY <1>7, <1>8, <1>9
    <2>. QED  BY <1>10, <2>1
  <1>12. Among(z, Element) = Among(s, Element)
    <2>1. s \in Seq(A) /\ t \in Seq(A) /\ \A i \in DOMAIN t : t[i] \notin Element  BY <1>1, <1>5
    <2>. QED  BY ONLY <2>1, AmongJoined DEF z
  <1>13. ASSUME NEW v \in Element PROVE v \in Values(s) <=> v \in Values(z)
    <2>1. v \in Values(s) => v \in Values(z)
      <3>1. \A i \in 1..M : i \in 1..(M + N)  BY <1>3
      <3>. QED  BY <1>1, <1>3, <1>8, <1>9, <3>1 DEF Values
    <2>2. ASSUME v \in Values(z) PROVE v \in Values(s)
      <3>1. PICK i \in 1..(M + N) : v = z[i]  BY <1>9, <2>2 DEF Values
      <3>2. i \in 1..M
        <4>1. SUFFICES ASSUME i \notin 1..M PROVE FALSE  OBVIOUS
        <4>2. i - M \in 1..N /\ i = M + (i - M)  BY <1>3, <4>1
        <4>. QED  BY <1>1, <1>3, <1>5, <1>8, <3>1, <4>2
      <3>. QED  BY <1>1, <1>3, <1>8, <3>1, <3>2 DEF Values
    <2>. QED  BY <2>1, <2>2
  <1>14. Among(U, Values(s)) = Among(U, Values(z))
    <2>1. \A i \in DOMAIN U : U[i] \in Values(s) <=> U[i] \in Values(z)  BY <1>2, <1>13
    <2>. QED  BY <2>1, AmongSame
  <1>. QED  BY <1>4, <1>11, <1>12, <1>14 DEF Follows, U, y, x, s
\* The rules of a model, and what a merge makes of them.
LEMMA FollowsFresh ==
  ASSUME NEW m, ListedModel(m)
  PROVE  Follows(DraftRules(m), <<m>>)
  <1>. DEFINE x == DraftRules(m)
              U == UsesOf(m.rules)
  <1>1. m.rules \in Seq(ShownRule)  BY DEF ListedModel
  <1>2. ServerIds(x) = U  BY DEF ServerIds, UsesOf, DraftRules
  <1>3. DOMAIN U = DOMAIN m.rules /\ \A i \in DOMAIN U : U[i] \in Element  BY <1>1, UsesAre
  <1>4. \A i \in DOMAIN U : U[i] \in Element <=> U[i] \in Values(U)  BY <1>3 DEF Values
  <1>5. Among(U, Element) = Among(U, Values(U))  BY <1>4, AmongSame
  <1>6. <<m>>[1] = m  OBVIOUS
  <1>. QED  BY <1>2, <1>5, <1>6 DEF Follows

LEMMA FollowsMerged ==
  ASSUME NEW m, ListedModel(m), NEW sum, sum.rules.changed \in Seq(DraftRule), sum.rules.added \in Seq(DraftRule),
         NEW held, IsFiniteSet(held)
  PROVE  Follows(RebaseRules(DraftRules(m), sum, held), <<m>>)
  <1>. DEFINE fresh == DraftRules(m)
              base == <<m>>
              orphans == OrphanedRules(fresh, sum)
              taken == held \cup Numbers(sum.rules.added)
              k == KeptRules(fresh, sum)
              g == Renumbered(orphans, taken)
              h == Additions(sum.rules.added)
  <1>0. {} \in SUBSET Selectors  OBVIOUS
  <1>1. base[1].rules \in Seq(ShownRule)  BY DEF ListedModel
  <1>2. fresh \in Seq(DraftRule)
    <2>1. IsFiniteSet({})  BY FS_EmptySet
    <2>. QED  BY <2>1, DraftedLists
  <1>3. Follows(fresh, base)  BY FollowsFresh
  <1>4. RebaseRules(fresh, sum, held) = k \o g \o h  BY DEF RebaseRules, Renumbered, Additions
  <1>. HIDE DEF fresh, base
  <1>5. PICK f \in Seq(DraftRule), at \in SUBSET DOMAIN fresh :
               /\ k = Sublist(f, at) /\ KeyKept(f, fresh)
               /\ at = {i \in DOMAIN fresh : fresh[i].serverId \notin sum.rules.removed}
    BY <1>2, KeptRulesAre
  <1>6. DOMAIN f = DOMAIN fresh /\ \A i \in DOMAIN fresh : f[i].serverId = fresh[i].serverId  BY <1>5 DEF KeyKept
  <1>7. Follows(f, base)  BY <1>3, <1>6, FollowsStays
  <1>. HIDE DEF k
  <1>8. k \in Seq(DraftRule) /\ Follows(k, base)
    <2>1. at \subseteq DOMAIN f
          /\ \A i \in DOMAIN f : f[i].serverId \in Element => (i \in at <=> f[i].serverId \notin sum.rules.removed)
      BY <1>5, <1>6
    <2>. QED  BY <1>1, <1>5, <1>7, <2>1, FollowsPicked, RulesPicked
  <1>9. g \in Seq(DraftRule) /\ \A i \in DOMAIN g : g[i].serverId = {}
    <2>1. IsFiniteSet(taken) /\ orphans \in Seq(DraftRule)  BY <1>2, NumbersFinite, FS_Union, OrphanedRulesListed
    <2>. HIDE DEF orphans, taken
    <2>. QED  BY <2>1, RenumberedAre
  <1>10. h \in Seq(DraftRule) /\ \A i \in DOMAIN h : h[i].serverId = {}  BY AdditionsAre
  <1>. HIDE DEF g, h
  <1>11. k \o g \in Seq(DraftRule) /\ Follows(k \o g, base)
    <2>1. k \o g \in Seq(DraftRule)  BY <1>8, <1>9
    <2>2. Follows(k \o g, base)  BY <1>1, <1>8, <1>9, FollowsJoined
    <2>. QED  BY <2>1, <2>2
  <1>. DEFINE y == k \o g
  <1>12. y \in Seq(DraftRule) /\ Follows(y, base)  BY <1>11
  <1>. HIDE DEF y
  <1>13. Follows(y \o h, base)  BY <1>1, <1>10, <1>12, FollowsJoined
  <1>. QED  BY <1>4, <1>13 DEF y, fresh, base

\* Elements that keep their origins, some of them, and new ones behind them.
LEMMA OrderedStay ==
  ASSUME NEW items, Ordered(items), NEW f, DOMAIN f = DOMAIN items,
         \A i \in DOMAIN items : f[i].origin = items[i].origin
  PROVE  Ordered(f)
  BY DEF Ordered

LEMMA OrderedPicked ==
  ASSUME NEW E, NEW items \in Seq(E), Ordered(items), NEW at, at \subseteq DOMAIN items
  PROVE  Ordered(Sublist(items, at))
  <1>. DEFINE x == Sublist(items, at)
  <1>1. Len(items) \in Nat /\ Places(at, Len(items))  BY DEF Places
  <1>2. DOMAIN x = 1..Cardinality(at)  BY DEF Sublist
  <1>3. \A n \in 1..Cardinality(at) : x[n] = items[NthOf(at, n)] /\ NthOf(at, n) \in at  BY <1>1, ASublist
  <1>. HIDE DEF x
  <1>4. SUFFICES ASSUME NEW n \in 1..Cardinality(at), NEW k \in 1..Cardinality(at), n < k,
                        x[n].origin # 0, x[k].origin # 0
                 PROVE  x[n].origin < x[k].origin
    BY <1>2 DEF Ordered, x
  <1>5. NthOf(at, n) < NthOf(at, k)  BY <1>1, <1>4, NthGrows
  <1>. QED  BY <1>3, <1>4, <1>5 DEF Ordered

LEMMA OrderedJoined ==
  ASSUME NEW E, NEW a \in Seq(E), NEW b \in Seq(E), Ordered(a), \A i \in DOMAIN b : b[i].origin = 0
  PROVE  Ordered(a \o b)
  <1>. DEFINE x == a \o b
              M == Len(a)
              N == Len(b)
  <1>1. M \in Nat /\ N \in Nat /\ DOMAIN a = 1..M /\ DOMAIN b = 1..N  OBVIOUS
  <1>2. /\ x \in Seq(E) /\ Len(x) = M + N
        /\ \A i \in 1..M : x[i] = a[i]
        /\ \A i \in 1..N : x[M + i] = b[i]
    BY Joined
  <1>. HIDE DEF x, M, N
  <1>3. DOMAIN x = 1..(M + N)  BY <1>2
  <1>4. ASSUME NEW i \in 1..(M + N), x[i].origin # 0 PROVE i \in 1..M
    <2>1. SUFFICES ASSUME i \notin 1..M PROVE FALSE  OBVIOUS
    <2>2. i - M \in 1..N /\ i = M + (i - M)  BY <1>1, <2>1
    <2>. QED  BY <1>1, <1>2, <1>4, <2>2
  <1>5. SUFFICES ASSUME NEW i \in DOMAIN x, NEW j \in DOMAIN x, i < j, x[i].origin # 0, x[j].origin # 0
                 PROVE  x[i].origin < x[j].origin
    BY DEF Ordered, x
  <1>6. i \in 1..M /\ j \in 1..M  BY <1>3, <1>4, <1>5
  <1>7. x[i] = a[i] /\ x[j] = a[j]  BY <1>2, <1>6
  <1>. QED  BY <1>1, <1>5, <1>6, <1>7 DEF Ordered

\* The elements of a model, and what a merge makes of them: an element of the
\* server has its place for an origin.
StaysAt(base, items, theirs) == {j \in DOMAIN theirs : Nth(theirs, j) > Drops(base, items, theirs[j])}
TakenOver(base, items, theirs, j) ==
  [origin |-> j, value |-> IF TakesEdit(base, items, theirs, j) THEN LastEdit(base, items, theirs[j]) ELSE theirs[j]]
Updated(base, items, theirs) == [j \in DOMAIN theirs |-> TakenOver(base, items, theirs, j)]

LEMMA KeptElementsAre ==
  ASSUME NEW base, NEW items \in Seq(Item), NEW theirs \in Seq(Element)
  PROVE  /\ Updated(base, items, theirs) \in Seq(MergedItem)
         /\ DOMAIN Updated(base, items, theirs) = DOMAIN theirs
         /\ \A j \in DOMAIN theirs : Updated(base, items, theirs)[j] = TakenOver(base, items, theirs, j)
         /\ StaysAt(base, items, theirs) \subseteq DOMAIN theirs
         /\ KeptElements(base, items, theirs) = Sublist(Updated(base, items, theirs), StaysAt(base, items, theirs))
  <1>. DEFINE L == Len(theirs)
              f == Updated(base, items, theirs)
  <1>1. L \in Nat /\ DOMAIN theirs = 1..L /\ \A j \in 1..L : theirs[j] \in Element  OBVIOUS
  <1>2. ASSUME NEW j \in 1..L PROVE TakenOver(base, items, theirs, j) \in MergedItem
    <2>1. TakesEdit(base, items, theirs, j) => LastEdit(base, items, theirs[j]) \in Element
      BY LastEditIs DEF TakesEdit
    <2>2. (IF TakesEdit(base, items, theirs, j) THEN LastEdit(base, items, theirs[j]) ELSE theirs[j]) \in Element
      BY <1>1, <2>1
    <2>. QED  BY <2>2 DEF MergedItem, TakenOver
  <1>3. DOMAIN f = DOMAIN theirs /\ \A j \in DOMAIN theirs : f[j] = TakenOver(base, items, theirs, j)
    BY DEF Updated
  <1>4. f \in [1..L -> MergedItem]  BY <1>1, <1>2 DEF Updated
  <1>5. KeptElements(base, items, theirs) = Sublist(f, StaysAt(base, items, theirs))
    BY Zenon DEF KeptElements, Updated, TakenOver, StaysAt
  <1>. HIDE DEF f
  <1>6. f \in Seq(MergedItem)  BY <1>1, <1>4, AList
  <1>. QED  BY <1>3, <1>5, <1>6 DEF f, StaysAt

LEMMA OrphansAreNew ==
  ASSUME NEW base, NEW items \in Seq(Item), NEW theirs \in Seq(Element),
         NEW i \in DOMAIN OrphanedElements(base, items, theirs)
  PROVE  OrphanedElements(base, items, theirs)[i].origin = 0
  <1>. DEFINE orphan(n) ==
                /\ IsEdited(base, items[n])
                /\ \A j \in Edits(base, items, base[items[n].origin]) : n <= j
                /\ \A j \in DOMAIN theirs : theirs[j] = base[items[n].origin] => ~TakesEdit(base, items, theirs, j)
              f == [n \in DOMAIN items |->
                      [origin |-> 0, value |-> IF orphan(n) THEN LastEdit(base, items, base[items[n].origin]) ELSE {}]]
              at == {n \in DOMAIN items : orphan(n)}
  <1>1. OrphanedElements(base, items, theirs) = Sublist(f, at)  BY Zenon DEF OrphanedElements
  <1>2. Len(items) \in Nat /\ DOMAIN items = 1..Len(items)  OBVIOUS
  <1>3. Places(at, Len(items))  BY <1>2 DEF Places
  <1>4. \A n \in at : f[n].origin = 0  OBVIOUS
  <1>. HIDE DEF at, f
  <1>5. \A n \in 1..Cardinality(at) : NthOf(at, n) \in at  BY <1>2, <1>3, NthPlace
  <1>. QED  BY <1>1, <1>4, <1>5 DEF Sublist

LEMMA OrderedMerged ==
  ASSUME NEW base, NEW items, ListedItems(items), NEW theirs \in Seq(Element), NEW held, IsFiniteSet(held)
  PROVE  Ordered(RebaseExtras(base, items, theirs, held))
  <1>. DEFINE k == KeptElements(base, items, theirs)
              o == OrphanedElements(base, items, theirs)
              merged == k \o o
              at == {i \in DOMAIN items : IsNew(base, items[i])}
              added == Sublist(items, at)
              taken == {added[i].key : i \in DOMAIN added} \cup held
              g == [i \in DOMAIN merged |-> [key |-> NewKey(taken, i), origin |-> merged[i].origin, value |-> merged[i].value]]
              h == [i \in DOMAIN added |-> [added[i] EXCEPT !.origin = 0]]
  <1>0. items \in Seq(Item)  BY DEF ListedItems
  <1>1. k \in Seq(MergedItem) /\ o \in Seq(MergedItem)  BY <1>0, KeptElementsListed, OrphanedElementsListed
  <1>2. Ordered(k)
    <2>. DEFINE f == Updated(base, items, theirs)
                p == StaysAt(base, items, theirs)
    <2>1. f \in Seq(MergedItem) /\ p \subseteq DOMAIN f /\ k = Sublist(f, p)
          /\ \A j \in DOMAIN f : f[j] = TakenOver(base, items, theirs, j)
      BY <1>0, KeptElementsAre
    <2>2. \A j \in DOMAIN f : f[j].origin = j  BY <2>1 DEF TakenOver
    <2>. HIDE DEF f, p, k
    <2>3. Ordered(f)  BY <2>2 DEF Ordered
    <2>. QED  BY <2>1, <2>3, OrderedPicked
  <1>3. \A i \in DOMAIN o : o[i].origin = 0  BY <1>0, OrphansAreNew
  <1>4. RebaseExtras(base, items, theirs, held) = g \o h  BY Zenon DEF RebaseExtras
  <1>. HIDE DEF k, o
  <1>5. merged \in Seq(MergedItem) /\ Ordered(merged)
    <2>1. Ordered(k \o o)  BY <1>1, <1>2, <1>3, OrderedJoined
    <2>. QED  BY <1>1, <2>1
  <1>6. added \in Seq(Item)
    <2>1. Places(at, Len(items))  BY <1>0 DEF Places
    <2>. HIDE DEF at
    <2>. QED  BY <1>0, <2>1, ASublist
  <1>. HIDE DEF merged, added
  <1>7. Ordered(g)
    <2>1. DOMAIN g = DOMAIN merged /\ \A i \in DOMAIN merged : g[i].origin = merged[i].origin  OBVIOUS
    <2>. HIDE DEF g
    <2>. QED  BY <1>5, <2>1, OrderedStay
  <1>8. \A i \in DOMAIN h : h[i].origin = 0
    <2>1. \A i \in DOMAIN added : added[i] \in Item  BY <1>6
    <2>2. \A it \in Item : [it EXCEPT !.origin = 0].origin = 0  BY DEF Item
    <2>. QED  BY <2>1, <2>2
  <1>. DEFINE E == {g[i] : i \in DOMAIN g} \cup {h[i] : i \in DOMAIN h}
  <1>9. g \in Seq(E) /\ h \in Seq(E)
    <2>1. Len(merged) \in Nat /\ DOMAIN merged = 1..Len(merged)  BY <1>5
    <2>2. Len(added) \in Nat /\ DOMAIN added = 1..Len(added)  BY <1>6
    <2>3. g \in [1..Len(merged) -> E]  BY <2>1
    <2>4. h \in [1..Len(added) -> E]  BY <2>2
    <2>. HIDE DEF g, h, E
    <2>. QED  BY <2>1, <2>2, <2>3, <2>4, AList
  <1>. HIDE DEF g, h, E
  <1>. QED  BY <1>4, <1>7, <1>8, <1>9, OrderedJoined

LEMMA FreshInOrder ==
  ASSUME NEW m, ListedModel(m), NEW held
  PROVE  InOrder(DraftFromModel(m, held)) /\ Ordered(DraftExtras(m, held))
  <1>1. Follows(DraftRules(m), <<m>>)  BY FollowsFresh
  <1>2. Ordered(DraftExtras(m, held))  BY DEF Ordered, DraftExtras
  <1>3. /\ DraftFromModel(m, held).rules = DraftRules(m) /\ DraftFromModel(m, held).extras = DraftExtras(m, held)
        /\ DraftFromModel(m, held).base = <<m>>
    BY DEF DraftFromModel
  <1>. QED  BY <1>1, <1>2, <1>3 DEF InOrder

LEMMA MergedInOrder ==
  ASSUME NEW d, Listed(d), d.base # <<>>, NEW m, ListedModel(m), NEW sum, sum = DiffDraft(d.base[1], d),
         NEW held, IsFiniteSet(held)
  PROVE  InOrder(RebaseDraft(d, m, sum, held))
  <1>. DEFINE n == RebaseDraft(d, m, sum, held)
              rules == RebaseRules(DraftRules(m), sum, held)
              extras == IF Touched(sum.extras) = {} THEN DraftExtras(m, held)
                        ELSE RebaseExtras(d.base[1].extras, d.extras, m.extras, held)
  <1>1. n.base = <<m>> /\ n.rules = rules /\ n.extras = extras  BY DEF RebaseDraft
  <1>2. sum.rules.added \in Seq(DraftRule) /\ sum.rules.changed \in Seq(DraftRule)
    <2>. DEFINE a == {i \in DOMAIN d.rules : IsAdded(d.base[1], d.rules[i])}
                c == {i \in DOMAIN d.rules : IsChanged(d.base[1], d.rules[i])}
    <2>1. sum.rules.added = Sublist(d.rules, a) /\ sum.rules.changed = Sublist(d.rules, c)
      BY DEF DiffDraft, DiffRules
    <2>2. a \subseteq DOMAIN d.rules /\ c \subseteq DOMAIN d.rules /\ d.rules \in Seq(DraftRule)  BY DEF Listed
    <2>. HIDE DEF a, c
    <2>. QED  BY <2>1, <2>2, RulesPicked
  <1>3. Follows(rules, <<m>>)  BY <1>2, FollowsMerged
  <1>4. Ordered(extras)
    <2>1. ListedItems(d.extras) /\ m.extras \in Seq(Element)  BY DEF Listed, ListedModel
    <2>. QED  BY <2>1, FreshInOrder, OrderedMerged
  <1>. HIDE DEF n, rules, extras
  <1>. QED  BY <1>1, <1>3, <1>4 DEF InOrder, n

LEMMA RulesKeepOrder ==
  ASSUME NEW d, Drafted(d), NEW x, d.base # <<>> /\ Follows(d.rules, d.base) => Follows(x, d.base)
  PROVE  KeepsOrder(d, [d EXCEPT !.rules = x])
  <1>. DEFINE n == [d EXCEPT !.rules = x]
  <1>1. n.rules = x /\ n.base = d.base /\ n.extras = d.extras  BY DEF Drafted
  <1>. HIDE DEF n
  <1>2. KeepsOrder(d, n)  BY <1>1 DEF KeepsOrder, InOrder
  <1>. QED  BY <1>2 DEF n

-----------------------------------------------------------------------------
(* Edits of rules, one at a time.                                          *)

\* An edit keeps the keys what they are, keeps the order and touches one rule.
OneEdit(d, n) ==
  /\ n.base = d.base /\ KeyedRules(n.rules, d.base) /\ KeepsOrder(d, n)
  /\ Twinless(d.base) => OneRule(d.rules, n.rules)

Alters(f, rules, key) ==
  /\ DOMAIN f = DOMAIN rules
  /\ \A i \in DOMAIN rules : /\ f[i].key = rules[i].key /\ f[i].serverId = rules[i].serverId
                             /\ rules[i].key # key => f[i] = rules[i]

LEMMA OneMapped ==
  ASSUME NEW d, Drafted(d), Listed(d), KeyedRules(d.rules, d.base), NEW f \in Seq(DraftRule), NEW key,
         Alters(f, d.rules, key)
  PROVE  OneEdit(d, [d EXCEPT !.rules = f])
  <1>. DEFINE n == [d EXCEPT !.rules = f]
              S == {i \in DOMAIN d.rules : d.rules[i] # f[i]}
  <1>1. n.rules = f /\ n.base = d.base  BY DEF Drafted
  <1>2. KeyedRules(f, d.base)  BY KeysStay DEF Alters
  <1>3. ASSUME Twinless(d.base) PROVE OneRule(d.rules, f)
    <2>1. \A i, j \in S : i = j  BY <1>3 DEF KeyedRules, MayShare, Alters
    <2>2. Cardinality(S) <= 1
      <3>. HIDE DEF S
      <3>. QED  BY <2>1, AtMostOneMember
    <2>3. d.rules \in Seq(DraftRule)  BY DEF Listed
    <2>4. Len(f) = Len(d.rules)  BY <2>3 DEF Alters
    <2>. QED  BY <2>2, <2>4 DEF OneRule
  <1>5. KeepsOrder(d, n)
    <2>1. Follows(d.rules, d.base) => Follows(f, d.base)  BY FollowsStays DEF Alters
    <2>. QED  BY <2>1, RulesKeepOrder
  <1>. HIDE DEF n
  <1>4. OneEdit(d, n)  BY <1>1, <1>2, <1>3, <1>5 DEF OneEdit
  <1>. QED  BY <1>4 DEF n

LEMMA UpdateRuleKeys ==
  ASSUME NEW d, Drafted(d), Listed(d), KeyedRules(d.rules, d.base), NEW key,
         NEW rule, rule.uses \in Element, rule.label \in LabelsOrNone, rule.enabled \in BOOLEAN
  PROVE  OneEdit(d, UpdateRule(d, key, rule))
  <1>. DEFINE next(r) == [r EXCEPT !.uses = rule.uses, !.label = rule.label, !.enabled = rule.enabled]
              f == [i \in DOMAIN d.rules |-> IF d.rules[i].key = key THEN next(d.rules[i]) ELSE d.rules[i]]
  <1>1. d.rules \in Seq(DraftRule)  BY DEF Listed
  <1>2. \A r \in DraftRule : next(r) \in DraftRule  BY RuleFields
  <1>3. \A r \in DraftRule : next(r).key = r.key /\ next(r).serverId = r.serverId  BY DEF DraftRule
  <1>4. UpdateRule(d, key, rule) = [d EXCEPT !.rules = f]  BY DEF UpdateRule, Drafted
  <1>. HIDE DEF next
  <1>5. \A i \in DOMAIN d.rules : d.rules[i] \in DraftRule  BY <1>1
  <1>6. \A i \in DOMAIN d.rules :
          /\ f[i] \in DraftRule /\ f[i].key = d.rules[i].key /\ f[i].serverId = d.rules[i].serverId
          /\ d.rules[i].key # key => f[i] = d.rules[i]
    BY <1>2, <1>3, <1>5
  <1>7. f = [i \in DOMAIN d.rules |-> f[i]] /\ DOMAIN f = DOMAIN d.rules  OBVIOUS
  <1>. HIDE DEF f
  <1>8. f \in Seq(DraftRule)  BY <1>1, <1>6, <1>7, RulesMapped
  <1>9. Alters(f, d.rules, key)  BY <1>6, <1>7 DEF Alters
  <1>10. OneEdit(d, [d EXCEPT !.rules = f])  BY <1>8, <1>9, OneMapped
  <1>. QED  BY <1>4, <1>10

LEMMA ToggleRuleKeys ==
  ASSUME NEW d, Drafted(d), Listed(d), KeyedRules(d.rules, d.base), NEW key
  PROVE  OneEdit(d, ToggleRule(d, key))
  <1>. DEFINE next(r) == [r EXCEPT !.enabled = ~r.enabled]
              f == [i \in DOMAIN d.rules |-> IF d.rules[i].key = key THEN next(d.rules[i]) ELSE d.rules[i]]
  <1>1. d.rules \in Seq(DraftRule)  BY DEF Listed
  <1>2. \A r \in DraftRule : next(r) \in DraftRule /\ next(r).key = r.key /\ next(r).serverId = r.serverId
    BY DEF DraftRule
  <1>3. ToggleRule(d, key) = [d EXCEPT !.rules = f]  BY DEF ToggleRule, Drafted
  <1>. HIDE DEF next
  <1>4. \A i \in DOMAIN d.rules : d.rules[i] \in DraftRule  BY <1>1
  <1>5. \A i \in DOMAIN d.rules :
          /\ f[i] \in DraftRule /\ f[i].key = d.rules[i].key /\ f[i].serverId = d.rules[i].serverId
          /\ d.rules[i].key # key => f[i] = d.rules[i]
    BY <1>2, <1>4
  <1>6. f = [i \in DOMAIN d.rules |-> f[i]] /\ DOMAIN f = DOMAIN d.rules  OBVIOUS
  <1>. HIDE DEF f
  <1>7. f \in Seq(DraftRule)  BY <1>1, <1>5, <1>6, RulesMapped
  <1>9. Alters(f, d.rules, key)  BY <1>5, <1>6 DEF Alters
  <1>10. OneEdit(d, [d EXCEPT !.rules = f])  BY <1>7, <1>9, OneMapped
  <1>. QED  BY <1>3, <1>10

LEMMA DeleteRuleKeys ==
  ASSUME NEW d, Drafted(d), Listed(d), KeyedRules(d.rules, d.base), NEW key
  PROVE  OneEdit(d, DeleteRule(d, key))
  <1>. DEFINE at == {i \in DOMAIN d.rules : d.rules[i].key # key}
              x == Sublist(d.rules, at)
              n == [d EXCEPT !.rules = x]
              N == Len(d.rules)
  <1>1. d.rules \in Seq(DraftRule) /\ at \subseteq DOMAIN d.rules  BY DEF Listed
  <1>2. N \in Nat /\ DOMAIN d.rules = 1..N  BY <1>1
  <1>3. DeleteRule(d, key) = n  BY DEF DeleteRule, Drafted
  <1>4. n.rules = x /\ n.base = d.base  BY DEF Drafted
  <1>5. KeyedRules(x, d.base)
    <2>. HIDE DEF at
    <2>. QED  BY <1>1, KeysPicked
  <1>6. ASSUME Twinless(d.base) PROVE OneRule(d.rules, x)
    <2>1. CASE \A i \in 1..N : d.rules[i].key # key
      <3>1. at = 1..N  BY <1>2, <2>1
      <3>2. x = d.rules
        <4>. HIDE DEF at
        <4>. QED  BY <1>1, <3>1, WholeList
      <3>. QED  BY <3>2, SameRules
    <2>2. CASE \E i \in 1..N : d.rules[i].key = key
      <3>1. PICK i \in 1..N : d.rules[i].key = key  BY <2>2
      <3>2. \A j \in 1..N : d.rules[j].key = key => j = i  BY <1>2, <1>6, <3>1 DEF KeyedRules, MayShare
      <3>3. at = (1..N) \ {i}  BY <1>2, <3>1, <3>2
      <3>4. Cardinality(at) = N - 1
        <4>1. IsFiniteSet(1..N) /\ Cardinality(1..N) = N  BY <1>2, Upto
        <4>. HIDE DEF at, N
        <4>. QED  BY <3>1, <3>3, <4>1, FS_RemoveElement
      <3>5. Len(x) = Cardinality(at)
        <4>. HIDE DEF at
        <4>. QED  BY <1>1, PickedOnce
      <3>6. Len(x) = N - 1  BY <3>4, <3>5
      <3>. HIDE DEF x
      <3>. QED  BY <1>2, <3>6 DEF OneRule
    <2>. QED  BY <2>1, <2>2
  <1>7. KeepsOrder(d, n)
    <2>. DEFINE X == {v \in Element : key = <<"id", v>>}
    <2>1. \A i \in DOMAIN d.rules : d.rules[i].serverId \in Element => (i \in at <=> d.rules[i].serverId \notin X)
      <3>1. {} \notin Element  BY DEF Element
      <3>2. \A i \in DOMAIN d.rules : d.rules[i].serverId \in Element => d.rules[i].key = <<"id", d.rules[i].serverId>>
        BY <3>1 DEF KeyedRules, KeyedRule
      <3>. QED  BY <3>2
    <2>2. d.base # <<>> => d.base[1].rules \in Seq(ShownRule)  BY DEF Listed, NoneOrListed, ListedModel
    <2>. HIDE DEF at, X
    <2>3. d.base # <<>> /\ Follows(d.rules, d.base) => Follows(x, d.base)  BY <1>1, <2>1, <2>2, FollowsPicked
    <2>. HIDE DEF x
    <2>. QED  BY <2>3, RulesKeepOrder
  <1>. HIDE DEF n, x
  <1>. QED  BY <1>3, <1>4, <1>5, <1>6, <1>7 DEF OneEdit

LEMMA AddRuleKeys ==
  ASSUME NEW d, Drafted(d), Listed(d), KeyedRules(d.rules, d.base), NEW held, IsFiniteSet(held),
         NEW rule, rule.uses \in Element, rule.label \in LabelsOrNone, rule.enabled \in BOOLEAN
  PROVE  OneEdit(d, AddRule(d, rule, held))
  <1>. DEFINE key == <<"new", NewKey(Numbers(d.rules) \cup held, 1)>>
              r == [key |-> key, serverId |-> {}, uses |-> rule.uses, label |-> rule.label, enabled |-> rule.enabled]
              x == Append(d.rules, r)
              N == Len(d.rules)
              n == [d EXCEPT !.rules = x]
  <1>1. d.rules \in Seq(DraftRule) /\ N \in Nat  BY DEF Listed
  <1>2. r \in DraftRule  BY <1>1, NewRuleKey DEF DraftRule
  <1>3. \A i \in DOMAIN d.rules : d.rules[i].key # key  BY <1>1, NumberIsNew
  <1>4. r.key = key /\ key[1] = "new" /\ r.serverId = {}  OBVIOUS
  <1>5. KeyedRule(r, d.base)  BY <1>4 DEF KeyedRule
  <1>6. AddRule(d, rule, held) = n  BY DEF AddRule
  <1>7. n.rules = x /\ n.base = d.base  BY DEF Drafted
  <1>. HIDE DEF r, key, n
  <1>8. x = Inserted(d.rules, N + 1, r)
    <2>1. x \in Seq(DraftRule) /\ Len(x) = N + 1  BY <1>1, <1>2
    <2>2. \A i \in 1..(N + 1) : x[i] = IF i < N + 1 THEN d.rules[i] ELSE r  BY <1>1, <1>2
    <2>3. DOMAIN x = 1..(N + 1) /\ x = [i \in DOMAIN x |-> x[i]]  BY <2>1
    <2>. HIDE DEF x
    <2>. QED  BY <1>1, <2>2, <2>3 DEF Inserted
  <1>9. N + 1 \in 1..(Len(d.rules) + 1)  BY <1>1
  <1>. HIDE DEF x
  <1>10. KeyedRules(x, d.base) /\ Len(x) = N + 1
    <2>. HIDE DEF N
    <2>. QED  BY <1>1, <1>3, <1>4, <1>5, <1>8, <1>9, KeyInserted DEF N
  <1>11. OneRule(d.rules, x)  BY <1>1, <1>10 DEF OneRule
  <1>12. KeepsOrder(d, n)
    <2>1. d.base # <<>> => d.base[1].rules \in Seq(ShownRule)  BY DEF Listed, NoneOrListed, ListedModel
    <2>2. d.base # <<>> /\ Follows(d.rules, d.base) => Follows(x, d.base)
      BY <1>1, <1>2, <1>4, <1>8, <1>9, <2>1, FollowsInserted
    <2>. QED  BY <2>2, RulesKeepOrder DEF n
  <1>. QED  BY <1>6, <1>7, <1>10, <1>11, <1>12 DEF OneEdit

LEMMA CopiedRule ==
  ASSUME NEW rule \in DraftRule, NEW k \in RuleKeys, NEW copied \in LabelsOrNone
  PROVE  [rule EXCEPT !.key = k, !.serverId = {}, !.label = IF @ = NoLabel THEN NoLabel ELSE copied] \in DraftRule
  <1>. DEFINE a == [rule EXCEPT !.key = k]
              b == [a EXCEPT !.serverId = {}]
              label == IF rule.label = NoLabel THEN NoLabel ELSE copied
  <1>1. a \in DraftRule /\ a.label = rule.label  BY DEF DraftRule
  <1>2. b \in DraftRule /\ b.label = rule.label
    <2>. HIDE DEF a
    <2>. QED  BY <1>1 DEF DraftRule
  <1>3. label \in LabelsOrNone  BY DEF LabelsOrNone
  <1>4. [rule EXCEPT !.key = k, !.serverId = {}, !.label = IF @ = NoLabel THEN NoLabel ELSE copied] = [b EXCEPT !.label = label]
    BY DEF DraftRule
  <1>. HIDE DEF b, label
  <1>. QED  BY <1>2, <1>3, <1>4 DEF DraftRule

LEMMA DuplicateRuleKeys ==
  ASSUME NEW d, Drafted(d), Listed(d), KeyedRules(d.rules, d.base), NEW key, NEW copied \in LabelsOrNone,
         NEW held, IsFiniteSet(held)
  PROVE  OneEdit(d, DuplicateRule(d, key, copied, held))
  <1>. DEFINE hits == {i \in DOMAIN d.rules : d.rules[i].key = key}
              at == CHOOSE i \in hits : \A j \in hits : i <= j
              k == <<"new", NewKey(Numbers(d.rules) \cup held, 1)>>
              copy == [d.rules[at] EXCEPT !.key = k, !.serverId = {},
                                          !.label = IF @ = NoLabel THEN NoLabel ELSE copied]
              x == InsertAt(d.rules, at + 1, copy)
              n == [d EXCEPT !.rules = x]
              N == Len(d.rules)
  <1>1. d.rules \in Seq(DraftRule) /\ N \in Nat /\ DOMAIN d.rules = 1..N  BY DEF Listed
  <1>2. CASE hits = {}
    <2>1. DuplicateRule(d, key, copied, held) = d  BY <1>2 DEF DuplicateRule
    <2>. QED  BY <2>1, SameRules DEF OneEdit, KeepsOrder
  <1>3. CASE hits # {}
    <2>1. at \in 1..N
      <3>1. hits \subseteq Nat /\ hits \subseteq 1..N  BY <1>1
      <3>. HIDE DEF hits
      <3>. QED  BY <1>3, <3>1, LeastNumber
    <2>2. DuplicateRule(d, key, copied, held) = n  BY <1>3 DEF DuplicateRule, Drafted
    <2>3. n.rules = x /\ n.base = d.base  BY DEF Drafted
    <2>4. d.rules[at] \in DraftRule
      <3>. HIDE DEF at
      <3>. QED  BY <1>1, <2>1
    <2>. HIDE DEF at, n, hits
    <2>5. copy.key = k /\ copy.serverId = {} /\ k[1] = "new"  BY <2>4 DEF DraftRule
    <2>6. copy \in DraftRule  BY <1>1, <2>4, NewRuleKey, CopiedRule
    <2>7. \A i \in DOMAIN d.rules : d.rules[i].key # k  BY <1>1, NumberIsNew
    <2>8. KeyedRule(copy, d.base)  BY <2>5 DEF KeyedRule
    <2>. HIDE DEF copy, k
    <2>9. at + 1 \in 1..(Len(d.rules) + 1)  BY <1>1, <2>1
    <2>10. x = Inserted(d.rules, at + 1, copy)  BY <1>1, <2>6, <2>9, AnInsertion
    <2>. HIDE DEF x
    <2>11. KeyedRules(x, d.base) /\ Len(x) = Len(d.rules) + 1
      BY <1>1, <2>5, <2>7, <2>8, <2>9, <2>10, KeyInserted
    <2>12. OneRule(d.rules, x)  BY <1>1, <2>11 DEF OneRule
    <2>13. KeepsOrder(d, n)
      <3>1. d.base # <<>> => d.base[1].rules \in Seq(ShownRule)  BY DEF Listed, NoneOrListed, ListedModel
      <3>2. d.base # <<>> /\ Follows(d.rules, d.base) => Follows(x, d.base)
        BY <1>1, <2>5, <2>6, <2>9, <2>10, <3>1, FollowsInserted
      <3>. QED  BY <3>2, RulesKeepOrder DEF n
    <2>. QED  BY <2>2, <2>3, <2>11, <2>12, <2>13 DEF OneEdit
  <1>. QED  BY <1>2, <1>3
-----------------------------------------------------------------------------
(* Keys in a new draft and after a merge.                                  *)

LEMMA FreshKeys ==
  ASSUME NEW m, ListedModel(m), NEW held
  PROVE  /\ KeyedRules(DraftRules(m), <<m>>)
         /\ \A i \in DOMAIN DraftRules(m) : DraftRules(m)[i].key[1] = "id"
         /\ KeyedRules(DraftFromModel(m, held).rules, DraftFromModel(m, held).base)
  <1>. DEFINE x == DraftRules(m)
              base == <<m>>
  <1>1. DOMAIN x = DOMAIN m.rules /\ base # <<>> /\ base[1] = m  BY DEF DraftRules
  <1>2. \A i \in DOMAIN m.rules : x[i].key = <<"id", m.rules[i].uses>> /\ x[i].serverId = m.rules[i].uses
    BY DEF DraftRules
  <1>3. DraftFromModel(m, held).rules = x /\ DraftFromModel(m, held).base = base  BY DEF DraftFromModel
  <1>. HIDE DEF x, base
  <1>4. \A i \in DOMAIN x : KeyedRule(x[i], base)  BY <1>1, <1>2 DEF KeyedRule, Ids
  <1>5. ASSUME NEW i \in DOMAIN x, NEW j \in DOMAIN x, x[i].key = x[j].key
        PROVE  i = j \/ MayShare(x[i].key, base)
    <2>1. m.rules[i].uses = m.rules[j].uses  BY <1>1, <1>2, <1>5
    <2>2. CASE Twinless(base)  BY <1>1, <2>1, <2>2 DEF Twinless, AllDifferent
    <2>3. CASE ~Twinless(base)  BY <1>1, <1>2, <2>3 DEF MayShare
    <2>. QED  BY <2>2, <2>3
  <1>6. KeyedRules(x, base)  BY <1>4, <1>5 DEF KeyedRules
  <1>. QED  BY <1>1, <1>2, <1>3, <1>6 DEF x, base

LEMMA RebaseKeys ==
  ASSUME NEW fresh \in Seq(DraftRule), NEW base, KeyedRules(fresh, base),
         \A i \in DOMAIN fresh : fresh[i].key[1] = "id",
         NEW sum, sum.rules.changed \in Seq(DraftRule), sum.rules.added \in Seq(DraftRule),
         \A i \in DOMAIN sum.rules.added : sum.rules.added[i].key[1] = "new",
         DistinctKeys(sum.rules.added), NEW held, IsFiniteSet(held)
  PROVE  KeyedRules(RebaseRules(fresh, sum, held), base)
  <1>. DEFINE orphans == OrphanedRules(fresh, sum)
              added == sum.rules.added
              taken == held \cup Numbers(added)
              k == KeptRules(fresh, sum)
              g == Renumbered(orphans, taken)
              h == Additions(added)
  <1>1. PICK f \in Seq(DraftRule), at \in SUBSET DOMAIN fresh : k = Sublist(f, at) /\ KeyKept(f, fresh)
    BY KeptRulesAre
  <1>2. KeyedRules(f, base)  BY <1>1, KeysStay DEF KeyKept
  <1>3. k \in Seq(DraftRule) /\ KeyedRules(k, base) /\ \A i \in DOMAIN k : k[i].key[1] = "id"
    <2>1. at \subseteq DOMAIN f  BY <1>1 DEF KeyKept
    <2>. HIDE DEF k
    <2>2. k \in Seq(DraftRule) /\ \A n \in DOMAIN k : NthOf(at, n) \in at /\ k[n] = f[NthOf(at, n)]
      BY <1>1, <2>1, PickedOnce
    <2>3. KeyedRules(k, base)  BY <1>1, <1>2, <2>1, KeysPicked
    <2>. QED  BY <1>1, <2>2, <2>3 DEF KeyKept
  <1>4. IsFiniteSet(taken) /\ orphans \in Seq(DraftRule)  BY NumbersFinite, FS_Union, OrphanedRulesListed
  <1>5. /\ g \in Seq(DraftRule) /\ DOMAIN g \subseteq Nat \ {0}
        /\ \A i \in DOMAIN g : g[i].key = <<"new", NewKey(taken, i)>> /\ g[i].serverId = {}
    <2>. HIDE DEF orphans, taken
    <2>. QED  BY <1>4, RenumberedAre
  <1>6. /\ h \in Seq(DraftRule) /\ DOMAIN h = DOMAIN added
        /\ \A i \in DOMAIN added : h[i].key = added[i].key /\ h[i].serverId = {}
    BY AdditionsAre
  <1>7. RebaseRules(fresh, sum, held) = k \o g \o h  BY DEF RebaseRules, Renumbered, Additions
  <1>8. \A i \in DOMAIN h : h[i].key[2] \in Numbers(added) /\ h[i].key[1] = "new"
    <2>1. \A i \in DOMAIN added : added[i].key[2] \in Numbers(added)  BY DEF Numbers
    <2>. QED  BY <1>6, <2>1
  <1>9. \A n \in Nat \ {0} : NewKey(taken, n) \in Nat /\ NewKey(taken, n) \notin Numbers(added)
    <2>1. \A n \in Nat \ {0} : NewKey(taken, n) \in Nat /\ NewKey(taken, n) \notin taken
      <3>. HIDE DEF taken
      <3>. QED  BY <1>4, NewKeyIsFree
    <2>. QED  BY <2>1
  <1>10. \A n, m \in Nat \ {0} : NewKey(taken, n) = NewKey(taken, m) => n = m
    <2>. HIDE DEF taken
    <2>1. SUFFICES ASSUME NEW n \in Nat \ {0}, NEW m \in Nat \ {0}, NewKey(taken, n) = NewKey(taken, m) PROVE n = m
      OBVIOUS
    <2>2. ~(n < m) /\ ~(m < n)  BY <1>4, <1>9, <2>1, NewKeysGrow
    <2>. QED  BY <2>2
  <1>. HIDE DEF k, g, h, taken, orphans
  <1>11. KeyedRules(g, base)
    <2>1. \A i \in DOMAIN g : KeyedRule(g[i], base)  BY <1>5 DEF KeyedRule
    <2>2. \A i, j \in DOMAIN g : g[i].key = g[j].key => i = j  BY <1>5, <1>10
    <2>. QED  BY <2>1, <2>2 DEF KeyedRules
  <1>12. KeyedRules(h, base)
    <2>1. \A i \in DOMAIN h : KeyedRule(h[i], base)  BY <1>6, <1>8 DEF KeyedRule
    <2>2. \A i, j \in DOMAIN h : h[i].key = h[j].key => i = j  BY <1>6 DEF DistinctKeys
    <2>. QED  BY <2>1, <2>2 DEF KeyedRules
  <1>13. g \o h \in Seq(DraftRule) /\ \A i \in DOMAIN (g \o h) : (g \o h)[i].key[1] = "new"
    <2>1. /\ g \o h \in Seq(DraftRule) /\ Len(g \o h) = Len(g) + Len(h)
          /\ \A i \in 1..Len(g) : (g \o h)[i] = g[i]
          /\ \A i \in 1..Len(h) : (g \o h)[Len(g) + i] = h[i]
      BY <1>5, <1>6, Joined
    <2>2. Len(g) \in Nat /\ DOMAIN g = 1..Len(g) /\ Len(h) \in Nat /\ DOMAIN h = 1..Len(h)  BY <1>5, <1>6
    <2>. DEFINE x == g \o h
    <2>3. DOMAIN x = 1..(Len(g) + Len(h))
      <3>. HIDE DEF x
      <3>. QED  BY <2>1 DEF x
    <2>4. \A i \in 1..Len(g) : x[i].key[1] = "new"  BY <1>5, <2>1, <2>2
    <2>5. \A i \in 1..Len(h) : x[Len(g) + i].key[1] = "new"  BY <1>8, <2>1, <2>2
    <2>6. ASSUME NEW i \in 1..(Len(g) + Len(h)) PROVE x[i].key[1] = "new"
      <3>. HIDE DEF x
      <3>1. CASE i \in 1..Len(g)  BY <2>4, <3>1
      <3>2. CASE i \notin 1..Len(g)
        <4>1. i - Len(g) \in 1..Len(h) /\ i = Len(g) + (i - Len(g))  BY <2>2, <3>2
        <4>. QED  BY <2>5, <4>1
      <3>. QED  BY <3>1, <3>2
    <2>. QED  BY <2>1, <2>3, <2>6
  <1>14. \A i \in DOMAIN g : \A j \in DOMAIN h : g[i].key # h[j].key  BY <1>5, <1>8, <1>9
  <1>15. KeyedRules(g \o h, base)  BY <1>5, <1>6, <1>11, <1>12, <1>14, KeysJoined
  <1>16. \A i \in DOMAIN k : \A j \in DOMAIN (g \o h) : k[i].key # (g \o h)[j].key  BY <1>3, <1>13
  <1>17. KeyedRules(k \o (g \o h), base)  BY <1>3, <1>13, <1>15, <1>16, KeysJoined
  <1>18. k \o g \o h = k \o (g \o h)  BY <1>3, <1>5, <1>6
  <1>. QED  BY <1>7, <1>17, <1>18
\* What the user has added has numbers for keys: the rest has its twin in the
\* base.
LEMMA AddedKeys ==
  ASSUME Listed(draft), draft.base # <<>>, KeyedRules(draft.rules, draft.base)
  PROVE  LET sum == DiffDraft(draft.base[1], draft)
         IN  /\ sum.rules.added \in Seq(DraftRule) /\ sum.rules.changed \in Seq(DraftRule)
             /\ DistinctKeys(sum.rules.added)
             /\ \A i \in DOMAIN sum.rules.added : sum.rules.added[i].key[1] = "new"
  <1>. DEFINE a == {i \in DOMAIN draft.rules : IsAdded(draft.base[1], draft.rules[i])}
              c == {i \in DOMAIN draft.rules : IsChanged(draft.base[1], draft.rules[i])}
              sum == DiffDraft(draft.base[1], draft)
              x == sum.rules.added
  <1>1. x = Sublist(draft.rules, a) /\ sum.rules.changed = Sublist(draft.rules, c)
    BY DEF DiffDraft, DiffRules
  <1>2. a \subseteq DOMAIN draft.rules /\ c \subseteq DOMAIN draft.rules /\ draft.rules \in Seq(DraftRule)
    BY DEF Listed
  <1>3. \A i \in a : draft.rules[i].key[1] = "new"  BY DEF IsAdded, KeyedRules, KeyedRule
  <1>. HIDE DEF a, c, sum
  <1>4. x \in Seq(DraftRule) /\ sum.rules.changed \in Seq(DraftRule)  BY <1>1, <1>2, RulesPicked
  <1>5. KeyedRules(x, draft.base)  BY <1>1, <1>2, KeysPicked
  <1>6. \A i \in DOMAIN x : x[i].key[1] = "new"
    <2>1. \A i \in DOMAIN x : NthOf(a, i) \in a /\ x[i] = draft.rules[NthOf(a, i)]  BY <1>1, <1>2, PickedOnce
    <2>. QED  BY <1>3, <2>1
  <1>7. DistinctKeys(x)  BY <1>5, <1>6 DEF KeyedRules, MayShare, DistinctKeys
  <1>. QED  BY <1>4, <1>6, <1>7 DEF sum

LEMMA MergedRuleKeys ==
  ASSUME EditorInv, ListsInv, KeyedRules(draft.rules, draft.base), conflict # <<>>, draft.base # <<>>
  PROVE  KeyedRules(Rebased.rules, Rebased.base)
  <1>. DEFINE m == conflict[1]
              sum == DiffDraft(draft.base[1], draft)
              fresh == DraftRules(m)
  <1>1. ListedModel(m) /\ Listed(draft)  BY DEF ListsInv, NoneOrListed
  <1>2. fresh \in Seq(DraftRule) /\ IsFiniteSet(Held)  BY <1>1, HeldIsFinite, DraftedLists
  <1>3. KeyedRules(fresh, <<m>>) /\ \A i \in DOMAIN fresh : fresh[i].key[1] = "id"  BY <1>1, FreshKeys
  <1>4. /\ sum.rules.added \in Seq(DraftRule) /\ sum.rules.changed \in Seq(DraftRule)
        /\ DistinctKeys(sum.rules.added)
        /\ \A i \in DOMAIN sum.rules.added : sum.rules.added[i].key[1] = "new"
    BY <1>1, AddedKeys
  <1>5. Rebased.rules = RebaseRules(fresh, sum, Held) /\ Rebased.base = <<m>>
    BY DEF Rebased, RebaseDraft
  <1>. HIDE DEF m, sum, fresh
  <1>. QED  BY <1>2, <1>3, <1>4, <1>5, RebaseKeys

-----------------------------------------------------------------------------
(* The invariant of the keys.                                              *)

Keyed(d) == KeyedRules(d.rules, d.base) /\ InOrder(d)
KeysInv == Keyed(draft)

LEMMA ShownIsKeyed ==
  ASSUME NEW d, Keyed(d), NEW c, NoneOrListed(c)
  PROVE  Keyed(Show(d, c))
  <1>1. c # <<>> => Keyed(DraftFromModel(c[1], Held))  BY FreshKeys, FreshInOrder DEF NoneOrListed, Keyed
  <1>. QED  BY <1>1 DEF Show

\* An edit of anything but the rules.
LEMMA RulesAlone ==
  ASSUME NEW d, NEW n, KeyedRules(d.rules, d.base), n.rules = d.rules, n.base = d.base,
         Ordered(d.extras) => Ordered(n.extras)
  PROVE  OneEdit(d, n)
  BY SameRules DEF OneEdit, KeepsOrder, InOrder

\* What an action of a tab does; the dialog of an entry may rename it in all
\* rules.
OneRuleEdited == \E d : OneEdit(draft, d) /\ Change(d)
EntrySubmitted ==
  /\ dialog # <<>> /\ dialog[1].kind = "entry"
  /\ \E d : d.base = draft.base /\ KeyedRules(d.rules, d.base) /\ KeepsOrder(draft, d) /\ Change(d)

LEMMA RulesTabEdits ==
  ASSUME EditorInv, ListsInv, KeysInv, RulesTab
  PROVE  OneRuleEdited \/ UNCHANGED draft
  <1>0. /\ Drafted(draft) /\ Listed(draft) /\ IsFiniteSet(Held)
        /\ KeyedRules(draft.rules, draft.base)
    BY HeldIsFinite DEF EditorInv, ListsInv, KeysInv, Keyed
  <1>a. NoLabel \in LabelsOrNone /\ Labels \subseteq LabelsOrNone  BY DEF LabelsOrNone
  <1>d. \A key : OneEdit(draft, DeleteRule(draft, key))  BY <1>0, DeleteRuleKeys
  <1>1. CASE ClickAddRule
    <2>1. PICK body, label : /\ body \in Bodies /\ label \in Labels \cup {NoLabel}
                             /\ Change(AddRule(draft, [uses |-> body, label |-> label, enabled |-> TRUE], Held))
      BY <1>1 DEF ClickAddRule
    <2>. DEFINE rule == [uses |-> body, label |-> label, enabled |-> TRUE]
    <2>2. rule.uses \in Element /\ rule.label \in LabelsOrNone /\ rule.enabled \in BOOLEAN
      BY <2>1, EditorAssumption DEF LabelsOrNone
    <2>3. Change(AddRule(draft, rule, Held))  BY <2>1
    <2>. HIDE DEF rule
    <2>4. OneEdit(draft, AddRule(draft, rule, Held))  BY <1>0, <2>2, AddRuleKeys
    <2>. QED  BY <2>3, <2>4 DEF OneRuleEdited
  <1>2. CASE ClickToggle  BY <1>0, <1>2, ToggleRuleKeys DEF ClickToggle, OneRuleEdited
  <1>3. CASE ClickDuplicate
    <2>1. PICK i, copied : copied \in Labels /\ Change(DuplicateRule(draft, draft.rules[i].key, copied, Held))
      BY <1>3 DEF ClickDuplicate
    <2>2. OneEdit(draft, DuplicateRule(draft, draft.rules[i].key, copied, Held))
      BY <1>0, <1>a, <2>1, DuplicateRuleKeys
    <2>. QED  BY <2>1, <2>2 DEF OneRuleEdited
  <1>4. CASE ClickDeleteRule
    <2>1. PICK i : (\/ Change(DeleteRule(draft, draft.rules[i].key))
                    \/ OpenDelete("deleteRule", "", draft.rules[i].key))
      BY <1>4 DEF ClickDeleteRule
    <2>. QED  BY <1>d, <2>1 DEF OneRuleEdited, OpenDelete, Open
  <1>5. CASE ClickEditRule  BY <1>5 DEF ClickEditRule, Open
  <1>6. CASE SubmitRule
    <2>. DEFINE was == [uses |-> dialog[1].uses, label |-> dialog[1].label, enabled |-> dialog[1].enabled]
    <2>1. was.uses \in Element /\ was.label \in LabelsOrNone /\ was.enabled \in BOOLEAN
      BY <1>6 DEF SubmitRule, InDialog, ListsInv, DialogLists, ListedDialog
    <2>2. PICK r : /\ r \in {[was EXCEPT !.uses = body] : body \in Bodies}
                            \cup {[was EXCEPT !.label = label] : label \in Labels \cup {NoLabel}}
                            \cup {[was EXCEPT !.enabled = ~@]}
                   /\ Change(UpdateRule(draft, dialog[1].key, r))
      BY <1>6, Zenon DEF SubmitRule
    <2>3. r.uses \in Element /\ r.label \in LabelsOrNone /\ r.enabled \in BOOLEAN
      BY <2>1, <2>2, EditorAssumption DEF LabelsOrNone
    <2>4. OneEdit(draft, UpdateRule(draft, dialog[1].key, r))  BY <1>0, <2>3, UpdateRuleKeys
    <2>. QED  BY <2>2, <2>4 DEF OneRuleEdited
  <1>7. CASE ConfirmDeleteRule  BY <1>d, <1>7 DEF ConfirmDeleteRule, OneRuleEdited
  <1>. QED  BY <1>1, <1>2, <1>3, <1>4, <1>5, <1>6, <1>7 DEF RulesTab

\* Elements, entries, approvers and the port are no rules.
LEMMA OtherEdits ==
  ASSUME Drafted(draft), Listed(draft), KeysInv, NEW s, NEW name, NEW members, NEW key, NEW value
  PROVE  /\ OneEdit(draft, AddExtra(draft, value, Held)) /\ OneEdit(draft, SetExtra(draft, key, value))
         /\ OneEdit(draft, DeleteExtra(draft, key)) /\ OneEdit(draft, SetEntry(draft, s, name, members))
         /\ OneEdit(draft, DeleteKey(draft, s, name)) /\ OneEdit(draft, SetRoute(draft, key, name, members))
         /\ OneEdit(draft, [draft EXCEPT !.exitNode = members])
         /\ OneEdit(draft, [draft EXCEPT !.randomize = members])
  <1>0. KeyedRules(draft.rules, draft.base) /\ draft.extras \in Seq(Item)  BY DEF KeysInv, Keyed, Listed, ListedItems
  <1>1. \A x : /\ OneEdit(draft, [draft EXCEPT !.keyed = x]) /\ OneEdit(draft, [draft EXCEPT !.exitNode = x])
               /\ OneEdit(draft, [draft EXCEPT !.randomize = x])
    BY <1>0, RulesAlone DEF Drafted
  <1>x. ASSUME NEW x, Ordered(draft.extras) => Ordered(x) PROVE OneEdit(draft, [draft EXCEPT !.extras = x])
    <2>. DEFINE n == [draft EXCEPT !.extras = x]
    <2>1. n.rules = draft.rules /\ n.base = draft.base /\ n.extras = x  BY DEF Drafted
    <2>. HIDE DEF n
    <2>2. OneEdit(draft, n)  BY <1>0, <1>x, <2>1, RulesAlone
    <2>. QED  BY <2>2 DEF n
  <1>2. \A t, f : [draft EXCEPT !.keyed[t] = f] = [draft EXCEPT !.keyed = [draft.keyed EXCEPT ![t] = f]]  OBVIOUS
  <1>3. \A t, f : OneEdit(draft, [draft EXCEPT !.keyed[t] = f])  BY <1>1, <1>2
  <1>4. OneEdit(draft, AddExtra(draft, value, Held))
    <2>. DEFINE it == [key |-> NewKey(ExtraKeys(draft) \cup Held, 1), origin |-> 0, value |-> value]
                one == <<it>>
                E == Item \cup {it}
    <2>1. it.origin = 0 /\ it \in E  OBVIOUS
    <2>. HIDE DEF it
    <2>2. one \in Seq(E) /\ draft.extras \in Seq(E) /\ \A i \in DOMAIN one : one[i].origin = 0  BY <1>0, <2>1
    <2>3. Append(draft.extras, it) = draft.extras \o one  BY <1>0
    <2>. HIDE DEF one, E
    <2>4. Ordered(draft.extras) => Ordered(Append(draft.extras, it))  BY <2>2, <2>3, OrderedJoined
    <2>. QED  BY <1>x, <2>4 DEF AddExtra, it
  <1>5. OneEdit(draft, SetExtra(draft, key, value))
    <2>. DEFINE f == [i \in DOMAIN draft.extras |->
                        IF draft.extras[i].key = key THEN [draft.extras[i] EXCEPT !.value = value] ELSE draft.extras[i]]
    <2>1. \A i \in DOMAIN draft.extras : draft.extras[i] \in Item  BY <1>0
    <2>2. \A it \in Item : [it EXCEPT !.value = value].origin = it.origin  BY DEF Item
    <2>3. DOMAIN f = DOMAIN draft.extras /\ \A i \in DOMAIN draft.extras : f[i].origin = draft.extras[i].origin
      BY <2>1, <2>2
    <2>. HIDE DEF f
    <2>4. Ordered(draft.extras) => Ordered(f)  BY <2>3, OrderedStay
    <2>. QED  BY <1>x, <2>4 DEF SetExtra, f
  <1>6. OneEdit(draft, DeleteExtra(draft, key))
    <2>. DEFINE at == {i \in DOMAIN draft.extras : draft.extras[i].key # key}
    <2>1. at \subseteq DOMAIN draft.extras  OBVIOUS
    <2>. HIDE DEF at
    <2>2. Ordered(draft.extras) => Ordered(Sublist(draft.extras, at))  BY <1>0, <2>1, OrderedPicked
    <2>. QED  BY <1>x, <2>2 DEF DeleteExtra, at
  <1>7. OneEdit(draft, SetEntry(draft, s, name, members))  BY <1>3 DEF SetEntry
  <1>8. OneEdit(draft, DeleteKey(draft, s, name))  BY <1>3 DEF DeleteKey
  <1>9. OneEdit(draft, SetRoute(draft, key, name, members))  BY <1>3 DEF SetRoute
  <1>. QED  BY <1>1, <1>4, <1>5, <1>6, <1>7, <1>8, <1>9

\* Renaming and setting an entry leave the keys of rules alone.
LEMMA SubmittedKeys ==
  ASSUME Drafted(draft), KeysInv, NEW s \in Sections, NEW from, NEW to \in Names[s], NEW members
  PROVE  LET d == SetEntry(RenameKey(draft, s, from, to), s, to, members)
         IN  d.base = draft.base /\ KeyedRules(d.rules, d.base) /\ KeepsOrder(draft, d)
  <1>. DEFINE f == [i \in DOMAIN draft.rules |-> RenameInRule(draft.rules[i], from, to)]
              e == [i \in DOMAIN draft.extras |-> RenameInElement(draft.extras[i], from, to)]
              n == RenameKey(draft, s, from, to)
              d == SetEntry(n, s, to, members)
  <1>0. KeyedRules(draft.rules, draft.base)  BY DEF KeysInv, Keyed
  <1>1. KeyedRules(f, draft.base) /\ (Follows(draft.rules, draft.base) => Follows(f, draft.base))
    <2>1. DOMAIN f = DOMAIN draft.rules  OBVIOUS
    <2>2. \A i \in DOMAIN draft.rules : f[i].key = draft.rules[i].key /\ f[i].serverId = draft.rules[i].serverId
      BY DEF RenameInRule
    <2>. HIDE DEF f
    <2>. QED  BY <1>0, <2>1, <2>2, KeysStay, FollowsStays
  <1>2. Ordered(draft.extras) => Ordered(e)
    <2>1. DOMAIN e = DOMAIN draft.extras  OBVIOUS
    <2>2. \A i \in DOMAIN draft.extras : e[i].origin = draft.extras[i].origin  BY DEF RenameInElement
    <2>. HIDE DEF e
    <2>. QED  BY <2>1, <2>2, OrderedStay
  <1>3. n = draft \/ (n.rules = f /\ n.extras = e /\ n.base = draft.base)  BY DEF RenameKey, Drafted
  <1>4. Drafted(n)  BY RenameKeyEdits DEF EditOf
  <1>. HIDE DEF n, f, e
  <1>5. d.rules = n.rules /\ d.base = n.base /\ d.extras = n.extras  BY <1>4 DEF SetEntry, Drafted
  <1>. HIDE DEF d
  <1>6. d.base = draft.base /\ KeyedRules(d.rules, d.base)  BY <1>0, <1>1, <1>3, <1>5
  <1>7. KeepsOrder(draft, d)  BY <1>1, <1>2, <1>3, <1>5 DEF KeepsOrder, InOrder
  <1>. QED  BY <1>6, <1>7 DEF d, n

LEMMA OtherTabEdits ==
  ASSUME EditorInv, ListsInv, KeysInv,
         \/ ListSection \/ AutoApprovers \/ ClickRandomize
         \/ \E s \in Named : EntryTab(s)
  PROVE  OneRuleEdited \/ EntrySubmitted \/ UNCHANGED draft
  <1>0. Drafted(draft) /\ Listed(draft)  BY DEF EditorInv, ListsInv
  <1>1. CASE ListSection
    <2>1. (\E d : OneEdit(draft, d) /\ Change(d)) \/ UNCHANGED draft
      BY <1>0, <1>1, OtherEdits DEF ListSection, ClickAddExtra, ClickDeleteExtra, ClickEditExtra, SubmitExtra,
         ConfirmDeleteExtra, OpenDelete, Open
    <2>. QED  BY <2>1 DEF OneRuleEdited
  <1>2. CASE AutoApprovers \/ ClickRandomize
    <2>1. (\E d : OneEdit(draft, d) /\ Change(d)) \/ UNCHANGED draft
      BY <1>0, <1>2, OtherEdits DEF AutoApprovers, ClickAddEntry, ClickEditEntry, ClickDeleteRoute, SubmitRoute,
         EditExitNode, ClickRandomize, Open
    <2>. QED  BY <2>1 DEF OneRuleEdited
  <1>3. ASSUME NEW s \in Named, EntryTab(s) PROVE OneRuleEdited \/ EntrySubmitted \/ UNCHANGED draft
    <2>1. CASE SubmitNamed(s)
      <3>1. PICK e \in Submittable(s) :
              Change(SetEntry(RenameKey(draft, s, dialog[1].key[2], e[1]), s, e[1], e[2]))
        BY <2>1 DEF SubmitNamed
      <3>2. s \in Sections /\ dialog # <<>> /\ dialog[1].kind = "entry" /\ InEntry("entry", s)
        BY <2>1 DEF SubmitNamed, InEntry, InDialog, Named
      <3>3. e[1] \in Names[s]  BY <3>2, SubmittedNames
      <3>. QED  BY <1>0, <3>1, <3>2, <3>3, SubmittedKeys DEF EntrySubmitted
    <2>2. CASE ~SubmitNamed(s)
      <3>1. (\E d : OneEdit(draft, d) /\ Change(d)) \/ UNCHANGED draft
        BY <1>0, <1>3, <2>2, OtherEdits DEF EntryTab, ClickAddEntry, ClickEditEntry, ClickDeleteEntry,
           ConfirmDeleteEntry, OpenDelete, Open
      <3>. QED  BY <3>1 DEF OneRuleEdited
    <2>. QED  BY <2>1, <2>2
  <1>. QED  BY <1>1, <1>2, <1>3

Tabs == RulesTab \/ PolicySections \/ GroupsTab \/ TagOwnersTab \/ HostsTab

LEMMA TabEdits ==
  ASSUME EditorInv, ListsInv, KeysInv, Tabs
  PROVE  OneRuleEdited \/ EntrySubmitted \/ UNCHANGED draft
  <1>1. {"groups", "tagOwners", "hosts"} \subseteq Named  BY SectionsAre DEF Named
  <1>. QED  BY <1>1, RulesTabEdits, OtherTabEdits DEF Tabs, PolicySections, GroupsTab, TagOwnersTab, HostsTab

LEMMA KeysStep == EditorInv /\ ListsInv /\ KeysInv /\ [EditorNext]_editorVars => KeysInv'
  <1>. SUFFICES ASSUME EditorInv, ListsInv, KeysInv, [EditorNext]_editorVars PROVE KeysInv'
    OBVIOUS
  <1>0. NoneOrListed(cache) /\ NoneOrListed(conflict) /\ Keyed(draft)
    BY DEF ListsInv, KeysInv
  <1>a. \A c : NoneOrListed(c) /\ c # <<>> => Keyed(DraftFromModel(c[1], Held))
    BY FreshKeys, FreshInOrder DEF NoneOrListed, Keyed
  <1>1. CASE UNCHANGED draft  BY <1>1 DEF KeysInv
  <1>2. CASE Tabs
    <2>1. CASE OneRuleEdited \/ EntrySubmitted
      <3>1. PICK d : /\ d.base = draft.base /\ KeyedRules(d.rules, d.base) /\ KeepsOrder(draft, d)
                     /\ draft' = Show(d, cache)
        BY <2>1 DEF OneRuleEdited, EntrySubmitted, OneEdit, Change
      <3>2. Keyed(d)  BY <1>0, <3>1 DEF Keyed, KeepsOrder
      <3>. QED  BY <1>0, <3>1, <3>2, ShownIsKeyed DEF KeysInv
    <2>. QED  BY <1>1, <1>2, <2>1, TabEdits
  <1>3. CASE FetchArrives
    <2>1. NoneOrListed(cache') /\ cache' # <<>>  BY <1>3 DEF FetchArrives, ListsInv
    <2>2. draft' = Show(IF flight[1].saved THEN DraftFromModel(cache'[1], Held) ELSE draft, cache')
      BY <1>3 DEF FetchArrives
    <2>. DEFINE d == IF flight[1].saved THEN DraftFromModel(cache'[1], Held) ELSE draft
    <2>3. Keyed(d)  BY <1>0, <1>a, <2>1
    <2>. HIDE DEF d
    <2>. QED  BY <2>1, <2>2, <2>3, ShownIsKeyed DEF KeysInv, d
  <1>4. CASE FetchFails
    <2>1. flight[1].saved => cache # <<>>  BY <1>4 DEF FetchFails, EditorInv, NeedsModel
    <2>. QED  BY <1>0, <1>a, <1>4, <2>1 DEF FetchFails, KeysInv
  <1>5. CASE Discard
    BY <1>0, <1>a, <1>5 DEF Discard, PageFree, Uncovered, KeysInv
  <1>6. CASE SaveAnswered
    <2>1. cache # <<>>  BY <1>6 DEF SaveAnswered, EditorInv, NeedsModel
    <2>. QED  BY <1>0, <1>a, <1>6, <2>1 DEF SaveAnswered, KeysInv
  <1>7. CASE ReloadAfterConflict
    BY <1>0, <1>a, <1>7, ShownIsKeyed DEF ReloadAfterConflict, KeysInv
  <1>8. CASE RebaseAfterConflict
    <2>1. conflict # <<>> /\ draft.base # <<>>  BY <1>8 DEF RebaseAfterConflict, EditorInv, NeedsModel
    <2>2. KeyedRules(Rebased.rules, Rebased.base)  BY <1>0, <2>1, MergedRuleKeys DEF Keyed
    <2>3. InOrder(Rebased)
      BY <2>1, HeldIsFinite, MergedInOrder DEF Rebased, ListsInv, NoneOrListed
    <2>4. Keyed(Rebased)  BY <2>2, <2>3 DEF Keyed
    <2>. QED  BY <1>0, <1>8, <2>4, ShownIsKeyed DEF RebaseAfterConflict, KeysInv
  <1>9. CASE EditorNext /\ ~Tabs /\ ~FetchArrives /\ ~FetchFails /\ ~Discard /\ ~SaveAnswered
             /\ ~ReloadAfterConflict /\ ~RebaseAfterConflict
    <2>1. StartFetch \/ ServeFetch \/ CloseDialog \/ OpenSave \/ CloseSave \/ DoSave \/ ServeSave \/ OtherSave
      BY <1>9 DEF EditorNext, Tabs
    <2>2. UNCHANGED draft
      BY <2>1 DEF StartFetch, ServeFetch, CloseDialog, OpenSave, CloseSave, DoSave, ServeSave, OtherSave, page
    <2>. QED  BY <1>1, <2>2
  <1>10. CASE UNCHANGED editorVars  BY <1>1, <1>10 DEF editorVars, page
  <1>. QED  BY <1>2, <1>3, <1>4, <1>5, <1>6, <1>7, <1>8, <1>9, <1>10

LEMMA KeysInvariance == EditorSpec => [](EditorInv /\ ListsInv /\ KeysInv)
  <1>1. EditorInit => KeysInv
    <2>1. EditorInit => draft.rules = <<>> /\ draft.base = <<>>  BY DEF EditorInit, EmptyDraft
    <2>. QED  BY <2>1 DEF KeysInv, Keyed, KeyedRules, InOrder
  <1>2. EditorInv /\ ListsInv /\ KeysInv /\ [EditorNext]_editorVars => KeysInv'  BY KeysStep
  <1>. QED  BY <1>1, <1>2, ListsInvariance, PTL DEF EditorSpec

\* A rule is edited, removed, copied or switched alone, as long as the server
\* has no two equal rules: the key by which an edit finds its rule belongs to
\* one rule, whatever was polled, merged, copied and added before (newKey,
\* draftReducer, rebaseDraft).
THEOREM RulesAreEditedAlone == EditorSpec => EditsOneRule
  <1>. DEFINE Edit == /\ draft'.base = draft.base /\ used'.edits # used.edits
                      /\ dialog = <<>> \/ dialog[1].kind # "entry"
                      /\ Twinless(draft.base)
              Alone == OneRule(draft.rules, draft'.rules)
  <1>1. ASSUME EditorInv, ListsInv, KeysInv, EditorNext, Edit PROVE Alone
    <2>1. UsedOK  BY <1>1 DEF EditorInv
    <2>2. CASE Tabs
      <3>1. CASE UNCHANGED draft  BY <3>1, SameRules
      <3>2. CASE OneRuleEdited
        <4>1. PICK d : OneEdit(draft, d) /\ draft' = Show(d, cache)  BY <3>2 DEF OneRuleEdited, Change
        <4>2. OneRule(draft.rules, d.rules) /\ d.base = draft.base  BY <1>1, <4>1 DEF OneEdit
        <4>3. draft' = d
          <5>1. \/ draft' = d
                \/ /\ draft' = DraftFromModel(cache[1], Held)
                   /\ d.base = <<>> \/ d.base[1].hash # cache[1].hash
            BY <4>1 DEF Show
          <5>2. DraftFromModel(cache[1], Held).base = <<cache[1]>>  BY DEF DraftFromModel
          <5>. QED  BY <1>1, <4>2, <5>1, <5>2
        <4>. QED  BY <4>2, <4>3
      <3>3. ~EntrySubmitted  BY <1>1 DEF EntrySubmitted
      <3>. QED  BY <1>1, <2>2, <3>1, <3>2, <3>3, TabEdits
    <2>3. CASE ~Tabs
      <3>1. ~(\/ StartFetch \/ ServeFetch \/ FetchArrives \/ FetchFails \/ CloseDialog \/ Discard \/ OpenSave
              \/ CloseSave \/ ServeSave \/ SaveAnswered \/ ReloadAfterConflict \/ RebaseAfterConflict)
        BY <1>1 DEF StartFetch, ServeFetch, FetchArrives, FetchFails, CloseDialog, Discard, OpenSave, CloseSave,
                    ServeSave, SaveAnswered, ReloadAfterConflict, RebaseAfterConflict
      <3>2. ~(DoSave \/ OtherSave)  BY <1>1, <2>1 DEF DoSave, OtherSave, Use, UsedOK
      <3>. QED  BY <1>1, <2>3, <3>1, <3>2 DEF EditorNext, Tabs
    <2>. QED  BY <2>2, <2>3
  <1>2. EditorInv /\ ListsInv /\ KeysInv /\ [EditorNext]_editorVars => [Edit => Alone]_editorVars
    BY <1>1
  <1>3. EditsOneRule <=> [][Edit => Alone]_editorVars
    BY PTL DEF EditsOneRule, Twinless, OneRule
  <1>. QED  BY <1>2, <1>3, KeysInvariance, PTL DEF EditorSpec

-----------------------------------------------------------------------------
(* What rules say: their content.                                          *)

Face(r) == [uses |-> r.uses, label |-> r.label, enabled |-> r.enabled]

LEMMA ContentIs ==
  ASSUME NEW s \in Seq(DraftRule)
  PROVE  /\ Content(s) \in Seq(ShownRule) /\ DOMAIN Content(s) = DOMAIN s
         /\ \A i \in DOMAIN s : Content(s)[i] = Face(s[i])
  <1>. DEFINE c == Content(s)
  <1>1. DOMAIN c = DOMAIN s /\ \A i \in DOMAIN s : c[i] = Face(s[i])  BY DEF Content, Face
  <1>2. Len(s) \in Nat /\ DOMAIN s = 1..Len(s) /\ \A i \in DOMAIN s : s[i] \in DraftRule  OBVIOUS
  <1>3. c = [i \in 1..Len(s) |-> c[i]]  BY <1>2 DEF Content
  <1>4. \A r \in DraftRule : Face(r) \in ShownRule  BY DEF Face, DraftRule, ShownRule
  <1>. HIDE DEF c
  <1>5. c \in [1..Len(s) -> ShownRule]  BY <1>1, <1>2, <1>3, <1>4
  <1>6. c \in Seq(ShownRule)  BY <1>2, <1>5, AList
  <1>. QED  BY <1>1, <1>6 DEF c

LEMMA ContentPicked ==
  ASSUME NEW s \in Seq(DraftRule), NEW at, at \subseteq DOMAIN s
  PROVE  Content(Sublist(s, at)) = Sublist(Content(s), at)
  <1>. DEFINE x == Sublist(s, at)
  <1>1. x \in Seq(DraftRule) /\ \A n \in DOMAIN x : NthOf(at, n) \in at /\ x[n] = s[NthOf(at, n)]  BY PickedOnce
  <1>2. DOMAIN x = 1..Cardinality(at)  BY DEF Sublist
  <1>. HIDE DEF x
  <1>3. \A n \in DOMAIN x : Face(x[n]) = Content(s)[NthOf(at, n)]  BY <1>1, ContentIs
  <1>4. Content(x) = [n \in DOMAIN x |-> Face(x[n])]  BY DEF Content, Face
  <1>5. Content(x) = [n \in 1..Cardinality(at) |-> Content(s)[NthOf(at, n)]]  BY <1>2, <1>3, <1>4
  <1>. QED  BY <1>5 DEF Sublist, x

LEMMA ContentJoined ==
  ASSUME NEW s \in Seq(DraftRule), NEW t \in Seq(DraftRule)
  PROVE  Content(s \o t) = Content(s) \o Content(t)
  <1>. DEFINE x == s \o t
              c == Content(s)
              d == Content(t)
              e == Content(x)
  <1>1. /\ x \in Seq(DraftRule) /\ Len(x) = Len(s) + Len(t)
        /\ \A i \in 1..Len(s) : x[i] = s[i]
        /\ \A i \in 1..Len(t) : x[Len(s) + i] = t[i]
    BY Joined
  <1>2. Len(s) \in Nat /\ DOMAIN s = 1..Len(s) /\ Len(t) \in Nat /\ DOMAIN t = 1..Len(t)  OBVIOUS
  <1>. HIDE DEF x
  <1>3. DOMAIN x = 1..(Len(s) + Len(t))  BY <1>1
  <1>4. /\ c \in Seq(ShownRule) /\ d \in Seq(ShownRule) /\ e \in Seq(ShownRule)
        /\ DOMAIN c = 1..Len(s) /\ DOMAIN d = 1..Len(t) /\ DOMAIN e = 1..(Len(s) + Len(t))
        /\ \A i \in 1..Len(s) : c[i] = Face(s[i])
        /\ \A i \in 1..Len(t) : d[i] = Face(t[i])
        /\ \A i \in 1..(Len(s) + Len(t)) : e[i] = Face(x[i])
    BY <1>1, <1>2, <1>3, ContentIs
  <1>. HIDE DEF c, d, e
  <1>5. Len(c) = Len(s) /\ Len(d) = Len(t) /\ Len(e) = Len(s) + Len(t)  BY <1>2, <1>4
  <1>6. /\ c \o d \in Seq(ShownRule) /\ Len(c \o d) = Len(s) + Len(t)
        /\ \A i \in 1..Len(s) : (c \o d)[i] = c[i]
        /\ \A i \in 1..Len(t) : (c \o d)[Len(s) + i] = d[i]
    <2>1. c \in Seq(ShownRule) /\ d \in Seq(ShownRule)  BY <1>4
    <2>2. /\ c \o d \in Seq(ShownRule) /\ Len(c \o d) = Len(c) + Len(d)
          /\ \A i \in 1..Len(c) : (c \o d)[i] = c[i]
          /\ \A i \in 1..Len(d) : (c \o d)[Len(c) + i] = d[i]
      BY ONLY <2>1, Joined
    <2>. QED  BY ONLY <1>5, <2>2
  <1>. DEFINE y == c \o d
  <1>7. \A i \in 1..(Len(s) + Len(t)) : e[i] = y[i]
    <2>1. SUFFICES ASSUME NEW i \in 1..(Len(s) + Len(t)) PROVE e[i] = y[i]  OBVIOUS
    <2>. HIDE DEF y
    <2>2. CASE i \in 1..Len(s)  BY <1>1, <1>4, <1>6, <2>2 DEF y
    <2>3. CASE i \notin 1..Len(s)
      <3>1. i - Len(s) \in 1..Len(t) /\ i = Len(s) + (i - Len(s))  BY <1>2, <2>3
      <3>2. e[i] = Face(x[i]) /\ d[i - Len(s)] = Face(t[i - Len(s)])  BY <1>4, <3>1
      <3>3. x[i] = t[i - Len(s)]  BY <1>1, <3>1
      <3>4. y[i] = d[i - Len(s)]  BY <1>6, <3>1 DEF y
      <3>. QED  BY <3>2, <3>3, <3>4
    <2>. QED  BY <2>2, <2>3
  <1>8. y \in Seq(ShownRule) /\ Len(y) = Len(e)  BY <1>5, <1>6
  <1>. HIDE DEF y
  <1>9. e = y  BY <1>4, <1>5, <1>7, <1>8
  <1>. QED  BY <1>9 DEF c, d, e, x, y

-----------------------------------------------------------------------------
(* The merge of the rules.                                                 *)

UniqueIds(rules) == \A i, j \in DOMAIN rules : rules[i].serverId = rules[j].serverId => i = j

\* With one edit per rule, the edit of a rule is the one with its fingerprint.
LEMMA TheEditedRule ==
  ASSUME NEW sum, sum.rules.changed \in Seq(DraftRule), UniqueIds(sum.rules.changed),
         NEW i \in DOMAIN sum.rules.changed
  PROVE  LET id == sum.rules.changed[i].serverId
         IN  After(sum, id) = {i} /\ EditedRule(sum, id) = sum.rules.changed[i]
  <1>. DEFINE id == sum.rules.changed[i].serverId
  <1>1. After(sum, id) = {i}  BY DEF After, UniqueIds
  <1>2. DOMAIN sum.rules.changed = 1..Len(sum.rules.changed)  OBVIOUS
  <1>3. i <= i  BY <1>2
  <1>. HIDE DEF id
  <1>. QED  BY <1>1, <1>3 DEF EditedRule, id

WithoutTwin(fresh, changed) ==
  {i \in DOMAIN changed : changed[i].serverId \notin {fresh[j].serverId : j \in DOMAIN fresh}}

LEMMA OrphanedRulesAre ==
  ASSUME NEW fresh, NEW sum, sum.rules.changed \in Seq(DraftRule), UniqueIds(sum.rules.changed)
  PROVE  OrphanedRules(fresh, sum) = Sublist(sum.rules.changed, WithoutTwin(fresh, sum.rules.changed))
  <1>. DEFINE changed == sum.rules.changed
              f == [i \in DOMAIN changed |-> EditedRule(sum, changed[i].serverId)]
              ids == {fresh[i].serverId : i \in DOMAIN fresh}
              at == {i \in DOMAIN changed : /\ changed[i].serverId \notin ids
                                           /\ \A j \in After(sum, changed[i].serverId) : i <= j}
              only == {i \in DOMAIN changed : changed[i].serverId \notin ids}
  <1>1. OrphanedRules(fresh, sum) = Sublist(f, at)  BY Zenon DEF OrphanedRules
  <1>2. \A i \in DOMAIN changed : After(sum, changed[i].serverId) = {i} /\ EditedRule(sum, changed[i].serverId) = changed[i]
    BY TheEditedRule
  <1>3. DOMAIN changed = 1..Len(changed) /\ Len(changed) \in Nat  OBVIOUS
  <1>4. changed = [i \in DOMAIN changed |-> changed[i]]  OBVIOUS
  <1>. HIDE DEF changed, ids
  <1>5. f = changed  BY <1>2, <1>4
  <1>6. \A i \in DOMAIN changed : \A j \in {i} : i <= j  BY <1>3
  <1>7. at = only  BY <1>2, <1>6
  <1>. QED  BY <1>1, <1>5, <1>7 DEF changed, ids, WithoutTwin

StayPlaces(m, sum) ==
  {i \in DOMAIN m.rules : m.rules[i].uses \notin
     {sum.rules.changed[j].serverId : j \in DOMAIN sum.rules.changed} \cup sum.rules.removed}

MergeOf(m, sum, after) ==
  \E f, at, rest, w :
    /\ f \in Seq(ShownRule)
    /\ MergedPlaces(m.rules, f, at, StayPlaces(m, sum), Content(sum.rules.changed), rest, w)
    /\ after = Sublist(f, at) \o (Sublist(Content(sum.rules.changed), rest) \o Content(sum.rules.added))

\* Their content: kept rules have the content of the edit or of the server.
LEMMA RebasedContent ==
  ASSUME NEW m, ListedModel(m), NEW base, base[1] = m, Twinless(base),
         NEW sum, sum.rules.changed \in Seq(DraftRule), UniqueIds(sum.rules.changed),
         sum.rules.added \in Seq(DraftRule), NEW held, IsFiniteSet(held),
         \A i \in DOMAIN sum.rules.changed : sum.rules.changed[i].serverId \notin sum.rules.removed
  PROVE  MergeOf(m, sum, Content(RebaseRules(DraftRules(m), sum, held)))
  <1>. DEFINE fresh == DraftRules(m)
              changed == sum.rules.changed
              added == sum.rules.added
              edits == Content(changed)
              ids == {changed[i].serverId : i \in DOMAIN changed}
              stay == {i \in DOMAIN m.rules : m.rules[i].uses \notin ids \cup sum.rules.removed}
              orphans == OrphanedRules(fresh, sum)
              taken == held \cup Numbers(added)
              k == KeptRules(fresh, sum)
              g == Renumbered(orphans, taken)
              h == Additions(added)
              rest == {i \in DOMAIN changed : changed[i].serverId \notin {fresh[j].serverId : j \in DOMAIN fresh}}
              twin(i) == CHOOSE j \in DOMAIN changed : changed[j].serverId = m.rules[i].uses
  <1>1. /\ fresh \in Seq(DraftRule) /\ DOMAIN fresh = DOMAIN m.rules
        /\ \A i \in DOMAIN m.rules : fresh[i].serverId = m.rules[i].uses /\ Face(fresh[i]) = m.rules[i]
    <2>1. fresh \in Seq(DraftRule)  BY FS_EmptySet, DraftedLists
    <2>2. m.rules \in Seq(ShownRule)  BY DEF ListedModel
    <2>3. \A i \in DOMAIN m.rules : m.rules[i] \in ShownRule  BY <2>2
    <2>4. \A r \in ShownRule : r = [uses |-> r.uses, label |-> r.label, enabled |-> r.enabled]  BY DEF ShownRule
    <2>5. \A i \in DOMAIN m.rules :
            /\ fresh[i].serverId = m.rules[i].uses /\ fresh[i].uses = m.rules[i].uses
            /\ fresh[i].label = m.rules[i].label /\ fresh[i].enabled = m.rules[i].enabled
      BY DEF DraftRules
    <2>6. \A i \in DOMAIN m.rules : Face(fresh[i]) = m.rules[i]  BY <2>3, <2>4, <2>5 DEF Face
    <2>7. DOMAIN fresh = DOMAIN m.rules  BY DEF DraftRules
    <2>. QED  BY <2>1, <2>5, <2>6, <2>7
  <1>. HIDE DEF fresh
  <1>0. \A i, j \in DOMAIN m.rules : m.rules[i].uses = m.rules[j].uses => i = j  BY DEF Twinless, AllDifferent
  <1>2. PICK q \in Seq(DraftRule), at \in SUBSET DOMAIN fresh :
           /\ k = Sublist(q, at) /\ KeyKept(q, fresh)
           /\ at = {i \in DOMAIN fresh : fresh[i].serverId \notin sum.rules.removed}
           /\ \A i \in DOMAIN fresh :
                q[i] = IF TakesEditOf(fresh, sum, i)
                       THEN Rekeyed(EditedRule(sum, fresh[i].serverId), fresh[i].key, fresh[i].serverId)
                       ELSE fresh[i]
    BY <1>1, KeptRulesAre
  <1>3. stay \subseteq at /\ at \subseteq DOMAIN m.rules /\ DOMAIN q = DOMAIN m.rules
    BY <1>1, <1>2 DEF KeyKept
  <1>4. ASSUME NEW i \in stay PROVE Face(q[i]) = m.rules[i]
    <2>1. After(sum, fresh[i].serverId) = {}  BY <1>1 DEF After
    <2>. QED  BY <1>1, <1>2, <2>1 DEF TakesEditOf
  <1>5. ASSUME NEW i \in at \ stay
        PROVE  /\ twin(i) \in DOMAIN changed /\ changed[twin(i)].serverId = m.rules[i].uses
               /\ Face(q[i]) = Face(changed[twin(i)])
    <2>. DEFINE j == twin(i)
    <2>1. i \in DOMAIN m.rules /\ m.rules[i].uses \in ids  BY <1>1, <1>2
    <2>2. j \in DOMAIN changed /\ changed[j].serverId = m.rules[i].uses  BY <2>1
    <2>. HIDE DEF j, twin
    <2>3. After(sum, fresh[i].serverId) # {} /\ EditedRule(sum, fresh[i].serverId) = changed[j]
      <3>1. After(sum, changed[j].serverId) = {j} /\ EditedRule(sum, changed[j].serverId) = changed[j]
        BY <2>2, TheEditedRule
      <3>. QED  BY <1>1, <2>1, <2>2, <3>1
    <2>4. \A n \in 1..(i - 1) : fresh[n].serverId # fresh[i].serverId
      <3>1. m.rules \in Seq(ShownRule)  BY DEF ListedModel
      <3>2. i \in 1..Len(m.rules) /\ DOMAIN m.rules = 1..Len(m.rules) /\ Len(m.rules) \in Nat  BY <2>1, <3>1
      <3>3. \A n \in 1..(i - 1) : n \in DOMAIN m.rules /\ n # i  BY <3>2
      <3>. QED  BY <1>0, <1>1, <2>1, <3>3
    <2>5. q[i] = Rekeyed(changed[j], fresh[i].key, fresh[i].serverId)
      BY <1>1, <1>2, <2>1, <2>3, <2>4 DEF TakesEditOf
    <2>6. changed[j] \in DraftRule  BY <2>2
    <2>7. \A r \in DraftRule : \A key, id : Face(Rekeyed(r, key, id)) = Face(r)  BY DEF Face, Rekeyed, DraftRule
    <2>8. Face(q[i]) = Face(changed[j])  BY <2>5, <2>6, <2>7
    <2>. QED  BY <2>2, <2>8 DEF j
  <1>6. edits \in Seq(ShownRule) /\ DOMAIN edits = DOMAIN changed /\ \A i \in DOMAIN changed : edits[i] = Face(changed[i])
    BY ContentIs
  <1>7. Content(q) \in Seq(ShownRule) /\ DOMAIN Content(q) = DOMAIN q /\ \A i \in DOMAIN q : Content(q)[i] = Face(q[i])
    BY ContentIs
  <1>8. MergedPlaces(m.rules, Content(q), at, stay, edits, rest, [i \in at \ stay |-> twin(i)])
    <2>. HIDE DEF twin
    <2>. DEFINE v == [i \in at \ stay |-> twin(i)]
    <2>0. DOMAIN v = at \ stay /\ v = [i \in at \ stay |-> v[i]] /\ \A i \in at \ stay : v[i] = twin(i)  OBVIOUS
    <2>. HIDE DEF v
    <2>a. \A i \in at \ stay :
            /\ v[i] \in DOMAIN changed /\ changed[v[i]].serverId = m.rules[i].uses
            /\ Face(q[i]) = Face(changed[v[i]]) /\ i \in DOMAIN m.rules
      <3>. HIDE DEF stay, changed
      <3>. QED  BY <1>3, <1>5, <2>0
    <2>1. \A i \in at \ stay : v[i] \in DOMAIN edits \ rest
      <3>. HIDE DEF stay, edits
      <3>1. SUFFICES ASSUME NEW i \in at \ stay PROVE v[i] \in DOMAIN edits /\ v[i] \notin rest  OBVIOUS
      <3>2. changed[v[i]].serverId = fresh[i].serverId /\ i \in DOMAIN fresh  BY <1>1, <2>a
      <3>3. v[i] \notin rest  BY <3>2
      <3>. HIDE DEF rest, changed
      <3>. QED  BY <1>6, <2>a, <3>3
    <2>2. \A i, j \in at \ stay : v[i] = v[j] => i = j
      <3>1. SUFFICES ASSUME NEW i \in at \ stay, NEW j \in at \ stay, v[i] = v[j] PROVE i = j  OBVIOUS
      <3>2. m.rules[i].uses = m.rules[j].uses /\ i \in DOMAIN m.rules /\ j \in DOMAIN m.rules  BY <2>a, <3>1
      <3>. QED  BY <1>0, <3>2
    <2>3. \A n \in DOMAIN edits \ rest : \E i \in at \ stay : v[i] = n
      <3>1. SUFFICES ASSUME NEW n \in DOMAIN edits \ rest PROVE \E i \in at \ stay : v[i] = n  OBVIOUS
      <3>2. PICK i \in DOMAIN m.rules : changed[n].serverId = m.rules[i].uses  BY <1>1, <1>6, <3>1
      <3>3. i \in at \ stay  BY <1>1, <1>2, <1>6, <3>1, <3>2
      <3>4. v[i] = n  BY <1>5, <1>6, <2>0, <3>1, <3>2, <3>3 DEF UniqueIds
      <3>. QED  BY <3>3, <3>4
    <2>4. \A i \in stay : Content(q)[i] = m.rules[i]  BY <1>3, <1>4, <1>7
    <2>5. \A i \in at \ stay : Content(q)[i] = edits[v[i]]
      <3>. HIDE DEF stay, changed, edits
      <3>. QED  BY <1>3, <1>6, <1>7, <2>a
    <2>6. rest \subseteq DOMAIN edits /\ DOMAIN Content(q) = DOMAIN m.rules  BY <1>3, <1>6, <1>7
    <2>. HIDE DEF stay, rest, edits
    <2>7. v \in [at \ stay -> DOMAIN edits \ rest]  BY <2>0, <2>1
    <2>. QED  BY <1>3, <2>2, <2>3, <2>4, <2>5, <2>6, <2>7 DEF MergedPlaces, v
  <1>9. Content(RebaseRules(fresh, sum, held)) = Sublist(Content(q), at) \o (Sublist(edits, rest) \o Content(added))
    <2>1. RebaseRules(fresh, sum, held) = k \o g \o h  BY DEF RebaseRules, Renumbered, Additions
    <2>2. k \in Seq(DraftRule) /\ Content(k) = Sublist(Content(q), at)  BY <1>1, <1>2, <1>3, RulesPicked, ContentPicked
    <2>3. orphans = Sublist(changed, rest)
      <3>1. rest = WithoutTwin(fresh, changed)  BY DEF WithoutTwin
      <3>. HIDE DEF rest
      <3>. QED  BY <3>1, OrphanedRulesAre
    <2>4. orphans \in Seq(DraftRule) /\ Content(orphans) = Sublist(edits, rest)  BY <2>3, RulesPicked, ContentPicked
    <2>5. g \in Seq(DraftRule) /\ Content(g) = Content(orphans)
      <3>1. IsFiniteSet(taken)  BY NumbersFinite, FS_Union
      <3>. HIDE DEF taken, orphans
      <3>2. g \in Seq(DraftRule) /\ DOMAIN g = DOMAIN orphans  BY <2>4, <3>1, RenumberedAre
      <3>3. \A i \in DOMAIN orphans : Face(g[i]) = Face(orphans[i])
        <4>1. \A r \in DraftRule : \A key, id : Face([r EXCEPT !.key = key, !.serverId = id]) = Face(r)
          BY DEF Face, DraftRule
        <4>2. \A i \in DOMAIN orphans : orphans[i] \in DraftRule  BY <2>4
        <4>. QED  BY <4>1, <4>2 DEF Renumbered
      <3>. QED  BY <3>2, <3>3 DEF Content, Face
    <2>6. h \in Seq(DraftRule) /\ Content(h) = Content(added)
      <3>1. h \in Seq(DraftRule) /\ DOMAIN h = DOMAIN added  BY AdditionsAre
      <3>2. \A i \in DOMAIN added : Face(h[i]) = Face(added[i])
        <4>1. \A r \in DraftRule : Face([r EXCEPT !.serverId = {}]) = Face(r)  BY DEF Face, DraftRule
        <4>2. \A i \in DOMAIN added : added[i] \in DraftRule  OBVIOUS
        <4>. QED  BY <4>1, <4>2 DEF Additions
      <3>. QED  BY <3>1, <3>2 DEF Content, Face
    <2>. HIDE DEF k, g, h, orphans, rest, edits, added
    <2>7. k \o g \in Seq(DraftRule)  BY <2>2, <2>5
    <2>8. Content(k \o g \o h) = (Content(k) \o Content(g)) \o Content(h)  BY <2>2, <2>5, <2>6, <2>7, ContentJoined
    <2>9. Content(k) \in Seq(ShownRule) /\ Content(g) \in Seq(ShownRule) /\ Content(h) \in Seq(ShownRule)
      BY <2>2, <2>5, <2>6, ContentIs
    <2>10. (Content(k) \o Content(g)) \o Content(h) = Content(k) \o (Content(g) \o Content(h))  BY <2>9
    <2>. QED  BY <2>1, <2>2, <2>4, <2>5, <2>6, <2>8, <2>10
  <1>10. stay = StayPlaces(m, sum)  BY DEF StayPlaces
  <1>. HIDE DEF stay
  <1>. QED  BY <1>7, <1>8, <1>9, <1>10 DEF fresh, MergeOf

\* What the user added and what the user changed, apart and together.
AddedPlaces(d) == {i \in DOMAIN d.rules : IsAdded(d.base[1], d.rules[i])}
ChangedPlaces(d) == {i \in DOMAIN d.rules : IsChanged(d.base[1], d.rules[i])}
MinePlaces(d) == {i \in DOMAIN d.rules : IsAdded(d.base[1], d.rules[i]) \/ IsChanged(d.base[1], d.rules[i])}

LEMMA MineAre ==
  ASSUME NEW d, Listed(d), d.base # <<>>, KeyedRules(d.rules, d.base), Twinless(d.base)
  PROVE  LET mine == Sublist(d.rules, MinePlaces(d))
             sum == DiffDraft(d.base[1], d)
             added == sum.rules.added
             changed == sum.rules.changed
         IN  /\ mine \in Seq(DraftRule) /\ added \in Seq(DraftRule) /\ changed \in Seq(DraftRule)
             /\ UniqueIds(changed)
             /\ \A i \in DOMAIN changed : changed[i].serverId \notin sum.rules.removed
             /\ \A id \in Element : id \in {mine[i].serverId : i \in DOMAIN mine} <=>
                                   id \in {changed[i].serverId : i \in DOMAIN changed}
             /\ \A r : Times(Content(mine), r) = Times(Content(changed), r) + Times(Content(added), r)
             /\ \A i \in DOMAIN changed : Content(changed)[i] \in Values(Content(mine))
             /\ \A i \in DOMAIN added : Content(added)[i] \in Values(Content(mine))
  <1>. DEFINE rules == d.rules
              a == AddedPlaces(d)
              c == ChangedPlaces(d)
              p == MinePlaces(d)
              mine == Sublist(rules, p)
              sum == DiffDraft(d.base[1], d)
              added == sum.rules.added
              changed == sum.rules.changed
              z == Content(rules)
  <1>1. /\ added = Sublist(rules, a) /\ changed = Sublist(rules, c)
        /\ sum.rules.removed = Ids(d.base[1]) \ {rules[i].serverId : i \in DOMAIN rules}
    BY DEF DiffDraft, DiffRules, AddedPlaces, ChangedPlaces
  <1>2. p = c \cup a /\ c \cap a = {} /\ p \subseteq DOMAIN rules
    BY DEF MinePlaces, AddedPlaces, ChangedPlaces, IsChanged
  <1>3. rules \in Seq(DraftRule) /\ IsFiniteSet(DOMAIN rules)
    <2>1. rules \in Seq(DraftRule)  BY DEF Listed
    <2>2. DOMAIN rules = 1..Len(rules) /\ Len(rules) \in Nat  BY <2>1
    <2>. QED  BY <2>1, <2>2, Upto
  <1>4. \A i \in a : rules[i].serverId = {}
    BY DEF AddedPlaces, IsAdded, KeyedRules, KeyedRule
  <1>5. \A i \in c : rules[i].key = <<"id", rules[i].serverId>>
    <2>1. \A i \in c : rules[i].serverId \in Ids(d.base[1])  BY DEF ChangedPlaces, IsChanged, IsAdded
    <2>2. {} \notin Ids(d.base[1])
      <3>1. d.base[1].rules \in Seq(ShownRule)  BY DEF Listed, NoneOrListed, ListedModel
      <3>2. \A i \in DOMAIN d.base[1].rules : d.base[1].rules[i] \in ShownRule  BY <3>1
      <3>. QED  BY <3>2 DEF Ids, ShownRule, Element
    <2>. QED  BY <1>2, <2>1, <2>2 DEF KeyedRules, KeyedRule
  <1>. HIDE DEF a, c, p, sum, rules
  <1>6. /\ changed \in Seq(DraftRule) /\ added \in Seq(DraftRule) /\ mine \in Seq(DraftRule)
    BY <1>1, <1>2, <1>3, RulesPicked
  <1>7. /\ \A n \in DOMAIN changed : NthOf(c, n) \in c /\ changed[n] = rules[NthOf(c, n)]
        /\ \A n, m \in DOMAIN changed : NthOf(c, n) = NthOf(c, m) => n = m
    BY <1>1, <1>2, <1>3, PickedOnce
  <1>8. UniqueIds(changed)
    <2>1. SUFFICES ASSUME NEW n \in DOMAIN changed, NEW m \in DOMAIN changed, changed[n].serverId = changed[m].serverId
                   PROVE  n = m
      BY DEF UniqueIds
    <2>2. rules[NthOf(c, n)].key = rules[NthOf(c, m)].key  BY <1>5, <1>7, <2>1
    <2>3. NthOf(c, n) \in DOMAIN rules /\ NthOf(c, m) \in DOMAIN rules  BY <1>2, <1>7, <2>1
    <2>4. NthOf(c, n) = NthOf(c, m)  BY <2>2, <2>3 DEF KeyedRules, MayShare, rules
    <2>. QED  BY <1>7, <2>4
  <1>9. \A i \in DOMAIN changed : changed[i].serverId \notin sum.rules.removed  BY <1>1, <1>2, <1>7
  <1>10. /\ z \in Seq(ShownRule) /\ DOMAIN z = DOMAIN rules
         /\ Content(mine) = Sublist(z, p) /\ Content(changed) = Sublist(z, c) /\ Content(added) = Sublist(z, a)
    BY <1>1, <1>2, <1>3, ContentIs, ContentPicked
  <1>11. ASSUME NEW id \in Element
         PROVE  id \in {mine[i].serverId : i \in DOMAIN mine} <=> id \in {changed[i].serverId : i \in DOMAIN changed}
    <2>. DEFINE x == mine
                y == changed
    <2>1. Values(x) = {rules[i] : i \in p} /\ Values(y) = {rules[i] : i \in c}  BY <1>1, <1>2, <1>3, ValuesPicked
    <2>. HIDE DEF x, y
    <2>2. id \in {x[i].serverId : i \in DOMAIN x} <=> \E r \in Values(x) : r.serverId = id  BY DEF Values
    <2>3. id \in {y[i].serverId : i \in DOMAIN y} <=> \E r \in Values(y) : r.serverId = id  BY DEF Values
    <2>4. id # {}  BY DEF Element
    <2>5. (\E i \in p : rules[i].serverId = id) <=> (\E i \in c : rules[i].serverId = id)  BY <1>2, <1>4, <2>4
    <2>6. id \in {x[i].serverId : i \in DOMAIN x} <=> id \in {y[i].serverId : i \in DOMAIN y}
      BY <2>1, <2>2, <2>3, <2>5
    <2>. QED  BY <2>6 DEF x, y
  <1>12. ASSUME NEW r PROVE Times(Content(mine), r) = Times(Content(changed), r) + Times(Content(added), r)
    <2>. DEFINE S == {i \in c : z[i] = r}
                T == {i \in a : z[i] = r}
    <2>1. /\ Times(Content(mine), r) = Cardinality({i \in p : z[i] = r})
          /\ Times(Content(changed), r) = Cardinality(S) /\ Times(Content(added), r) = Cardinality(T)
      <3>. HIDE DEF z
      <3>. QED  BY <1>2, <1>10, TimesPicked
    <2>2. {i \in p : z[i] = r} = S \cup T /\ S \cap T = {}  BY <1>2
    <2>3. IsFiniteSet(S) /\ IsFiniteSet(T)
      <3>1. S \subseteq DOMAIN rules /\ T \subseteq DOMAIN rules  BY <1>2
      <3>. HIDE DEF S, T
      <3>. QED  BY <1>3, <3>1, FS_Subset
    <2>. HIDE DEF S, T
    <2>4. Cardinality(S \cup T) = Cardinality(S) + Cardinality(T)  BY <2>2, <2>3, Parted
    <2>5. Cardinality({i \in p : z[i] = r}) = Cardinality(S \cup T)  BY <2>2
    <2>. HIDE DEF mine, z
    <2>. QED  BY <2>1, <2>4, <2>5
  <1>13. Values(Content(changed)) \subseteq Values(Content(mine)) /\ Values(Content(added)) \subseteq Values(Content(mine))
    <2>. HIDE DEF z
    <2>1. /\ Values(Content(mine)) = {z[i] : i \in p} /\ Values(Content(changed)) = {z[i] : i \in c}
          /\ Values(Content(added)) = {z[i] : i \in a}
      BY <1>2, <1>10, ValuesPicked
    <2>. QED  BY <1>2, <2>1
  <1>14. DOMAIN Content(changed) = DOMAIN changed /\ DOMAIN Content(added) = DOMAIN added  BY <1>6, ContentIs
  <1>15. \A i \in DOMAIN changed : Content(changed)[i] \in Values(Content(mine))  BY <1>13, <1>14 DEF Values
  <1>16. \A i \in DOMAIN added : Content(added)[i] \in Values(Content(mine))  BY <1>13, <1>14 DEF Values
  <1>. QED  BY <1>6, <1>8, <1>9, <1>11, <1>12, <1>15, <1>16 DEF sum, rules, p

TogetherTimes(x, y, z) == \A r : Times(x, r) = Times(y, r) + Times(z, r)

Others(theirs, mine) == Values(theirs) \ Values(mine)

LEMMA MergedRules ==
  ASSUME NEW m, m.rules \in Seq(ShownRule), NEW sum,
         sum.rules.changed \in Seq(DraftRule), sum.rules.added \in Seq(DraftRule),
         NEW mine \in Seq(ShownRule), NEW after, MergeOf(m, sum, after),
         NEW theirs, theirs = Sublist(m.rules, StayPlaces(m, sum)),
         TogetherTimes(mine, Content(sum.rules.changed), Content(sum.rules.added)),
         \A i \in DOMAIN Content(sum.rules.changed) : Content(sum.rules.changed)[i] \in Values(mine),
         \A i \in DOMAIN Content(sum.rules.added) : Content(sum.rules.added)[i] \in Values(mine)
  PROVE  /\ TogetherTimes(after, mine, theirs)
         /\ Among(after, Others(theirs, mine)) = Among(theirs, Others(theirs, mine))
  <1>. DEFINE edits == Content(sum.rules.changed)
              more == Content(sum.rules.added)
              stay == StayPlaces(m, sum)
              others == Others(theirs, mine)
  <1>10. m.rules \in Seq(ShownRule)  OBVIOUS
  <1>11. edits \in Seq(ShownRule) /\ more \in Seq(ShownRule)  BY ContentIs
  <1>12. PICK f, at, rest, w :
           /\ f \in Seq(ShownRule)
           /\ MergedPlaces(m.rules, f, at, stay, edits, rest, w)
           /\ after = Sublist(f, at) \o (Sublist(edits, rest) \o more)
    BY Zenon DEF MergeOf
  <1>. HIDE DEF edits, more, stay
  <1>. DEFINE x == Sublist(f, at)
              y == Sublist(edits, rest)
  <1>13. x \in Seq(ShownRule) /\ y \in Seq(ShownRule) /\ \A i \in DOMAIN y : \E k \in DOMAIN edits : y[i] = edits[k]
    <2>1. Places(at, Len(f)) /\ Places(rest, Len(edits))
      <3>1. DOMAIN f = 1..Len(f) /\ DOMAIN edits = 1..Len(edits)  BY <1>11
      <3>. QED  BY <1>12, <3>1 DEF MergedPlaces, Places
    <2>2. x \in Seq(ShownRule) /\ y \in Seq(ShownRule)  BY <1>11, <1>12, <2>1, ASublist
    <2>3. \A i \in 1..Cardinality(rest) : y[i] = edits[NthOf(rest, i)] /\ NthOf(rest, i) \in rest
      BY <1>11, <2>1, ASublist
    <2>4. DOMAIN y = 1..Cardinality(rest) /\ rest \subseteq DOMAIN edits  BY <1>12 DEF Sublist, MergedPlaces
    <2>. QED  BY <2>2, <2>3, <2>4
  <1>0. after = x \o (y \o more)  BY <1>12 DEF more, edits
  <1>. HIDE DEF x, y
  <1>14. theirs = Sublist(m.rules, stay)  BY DEF stay
  <1>15. ASSUME NEW r PROVE Times(after, r) = Times(mine, r) + Times(theirs, r)
    <2>1. y \o more \in Seq(ShownRule)  BY <1>11, <1>13, Joined
    <2>2. Times(after, r) = Times(x, r) + Times(y \o more, r)  BY <1>0, <1>13, <2>1, TimesJoined
    <2>3. Times(y \o more, r) = Times(y, r) + Times(more, r)  BY <1>11, <1>13, TimesJoined
    <2>4. Times(x, r) + Times(y, r) = Times(theirs, r) + Times(edits, r)
      BY <1>10, <1>11, <1>12, <1>14, MergedTimes DEF x, y
    <2>5. Times(x, r) \in Nat /\ Times(y, r) \in Nat /\ Times(more, r) \in Nat /\ Times(edits, r) \in Nat
      BY <1>11, <1>13, TimesIsNumber
    <2>6. Times(theirs, r) \in Nat
      <3>1. Places(stay, Len(m.rules))  BY <1>10 DEF Places, stay, StayPlaces
      <3>2. theirs \in Seq(ShownRule)  BY <1>10, <1>14, <3>1, ASublist
      <3>. QED  BY <3>2, TimesIsNumber
    <2>7. Times(mine, r) = Times(edits, r) + Times(more, r)  BY DEF edits, more, TogetherTimes
    <2>. QED  BY ONLY <2>2, <2>3, <2>4, <2>5, <2>6, <2>7
  <1>16. Among(after, others) = Among(theirs, others)
    <2>. DEFINE t == y \o more
    <2>1. \A k \in DOMAIN edits : edits[k] \notin others  BY DEF edits, Others
    <2>2. \A k \in DOMAIN more : more[k] \notin others  BY DEF more, Others
    <2>3. \A k \in DOMAIN y : y[k] \notin others  BY <1>13, <2>1
    <2>4. /\ t \in Seq(ShownRule) /\ Len(t) = Len(y) + Len(more)
          /\ \A i \in 1..Len(y) : t[i] = y[i]
          /\ \A i \in 1..Len(more) : t[Len(y) + i] = more[i]
      BY <1>11, <1>13, Joined
    <2>5. /\ Len(y) \in Nat /\ DOMAIN y = 1..Len(y)
          /\ Len(more) \in Nat /\ DOMAIN more = 1..Len(more)
      BY <1>11, <1>13
    <2>. HIDE DEF others, t
    <2>6. \A k \in DOMAIN t : t[k] \notin others
      <3>1. DOMAIN t = 1..(Len(y) + Len(more))  BY <2>4
      <3>2. SUFFICES ASSUME NEW k \in 1..(Len(y) + Len(more)) PROVE t[k] \notin others  BY <3>1
      <3>3. CASE k \in 1..Len(y)  BY <2>3, <2>4, <2>5, <3>3
      <3>4. CASE k \notin 1..Len(y)
        <4>1. k - Len(y) \in 1..Len(more) /\ k = Len(y) + (k - Len(y))  BY <2>5, <3>4
        <4>. QED  BY <2>2, <2>4, <2>5, <4>1
      <3>. QED  BY <3>3, <3>4
    <2>7. Among(x \o t, others) = Among(Sublist(m.rules, stay), others)
      <3>1. MergedLists(ShownRule, m.rules, f, at, stay, edits, rest, w)  BY <1>10, <1>11, <1>12 DEF MergedLists
      <3>2. NoneIn(edits, others) /\ NoneIn(t, others) /\ t \in Seq(ShownRule)  BY <2>1, <2>4, <2>6 DEF NoneIn
      <3>3. Among(Sublist(f, at) \o t, others) = Among(Sublist(m.rules, stay), others)
        BY ONLY <3>1, <3>2, MergedAmong
      <3>. QED  BY <3>3 DEF x
    <2>. QED  BY <1>0, <1>14, <2>7 DEF t
  <1>. QED  BY <1>15, <1>16 DEF TogetherTimes

\* The rules after a 409, as long as the server has no two equal ones: what
\* the user removed stays away, what the user edited or added is there with
\* the user's content, as often as the draft had it, and the rest is the
\* server's in the server's order (rebaseDraft).
THEOREM ReapplyingMergesRules == EditorSpec => RebaseMergesRules
  <1>. DEFINE was == draft.base[1]
              Both == Twinless(draft.base) /\ Twinless(conflict)
              mine == Sublist(draft.rules, MinePlaces(draft))
              edited == {mine[i].serverId : i \in DOMAIN mine} \cup Reviewed.rules.removed
              left == {i \in DOMAIN conflict[1].rules : conflict[1].rules[i].uses \notin edited}
              theirs == Sublist(conflict[1].rules, left)
              after == Content(draft'.rules)
              others == Values(theirs) \ Values(Content(mine))
              Merged == /\ \A r \in Values(after) \cup Values(Content(mine)) \cup Values(theirs) :
                             Times(after, r) = Times(Content(mine), r) + Times(theirs, r)
                        /\ Among(after, others) = Among(theirs, others)
  <1>1. ASSUME EditorInv, ListsInv, KeysInv, [EditorNext]_editorVars, Reapplies, Both PROVE Merged
    <2>. DEFINE m == conflict[1]
                sum == Reviewed
                added == sum.rules.added
                changed == sum.rules.changed
                ids == {changed[i].serverId : i \in DOMAIN changed}
                stay == StayPlaces(m, sum)
                edits == Content(changed)
                more == Content(added)
    <2>1. EditorNext  BY <1>1 DEF Reapplies, editorVars, page
    <2>2. draft' = Rebased  BY <1>1, <2>1, OnlyRebaseReapplies, ReappliedIsShown
    <2>3. conflict # <<>> /\ draft.base # <<>>  BY <1>1 DEF Reapplies, EditorInv, NeedsModel
    <2>4. ListedModel(m) /\ Listed(draft) /\ KeyedRules(draft.rules, draft.base)
      BY <1>1, <2>3 DEF ListsInv, NoneOrListed, KeysInv, Keyed
    <2>5. /\ mine \in Seq(DraftRule) /\ added \in Seq(DraftRule) /\ changed \in Seq(DraftRule) /\ UniqueIds(changed)
          /\ \A i \in DOMAIN changed : changed[i].serverId \notin sum.rules.removed
          /\ \A id \in Element : id \in {mine[i].serverId : i \in DOMAIN mine} <=> id \in ids
          /\ \A r : Times(Content(mine), r) = Times(edits, r) + Times(more, r)
          /\ \A i \in DOMAIN changed : edits[i] \in Values(Content(mine))
          /\ \A i \in DOMAIN added : more[i] \in Values(Content(mine))
      BY <1>1, <2>3, <2>4, MineAre DEF Reviewed
    <2>6. left = stay
      <3>1. m.rules \in Seq(ShownRule)  BY <2>4 DEF ListedModel
      <3>2. \A i \in DOMAIN m.rules : m.rules[i].uses \in Element
        <4>1. \A i \in DOMAIN m.rules : m.rules[i] \in ShownRule  BY <3>1
        <4>. QED  BY <4>1 DEF ShownRule
      <3>3. stay = {i \in DOMAIN m.rules : m.rules[i].uses \notin ids \cup sum.rules.removed}
        BY DEF StayPlaces
      <3>. HIDE DEF mine, ids, stay
      <3>. QED  BY <2>5, <3>2, <3>3
    <2>7. IsFiniteSet(Held)  BY HeldIsFinite
    <2>8. draft'.rules = RebaseRules(DraftRules(m), sum, Held)  BY <2>2 DEF Rebased, RebaseDraft, Reviewed
    <2>9. conflict[1] = m /\ Twinless(conflict)  BY <1>1
    <2>10. m.rules \in Seq(ShownRule)  BY <2>4 DEF ListedModel
    <2>11. edits \in Seq(ShownRule) /\ more \in Seq(ShownRule)
           /\ DOMAIN edits = DOMAIN changed /\ DOMAIN more = DOMAIN added
      BY <2>5, ContentIs
    <2>. HIDE DEF m, sum, mine
    <2>12. theirs = Sublist(m.rules, stay)  BY <2>6 DEF m
    <2>13. MergeOf(m, sum, after)
      <3>1. MergeOf(m, sum, Content(RebaseRules(DraftRules(m), sum, Held)))
        BY <2>4, <2>5, <2>7, <2>9, RebasedContent
      <3>. QED  BY <2>8, <3>1
    <2>14. Content(mine) \in Seq(ShownRule)  BY <2>5, ContentIs
    <2>15. \A i \in DOMAIN edits : edits[i] \in Values(Content(mine))  BY <2>5, <2>11
    <2>16. \A i \in DOMAIN more : more[i] \in Values(Content(mine))  BY <2>5, <2>11
    <2>17. TogetherTimes(Content(mine), edits, more)  BY <2>5 DEF TogetherTimes
    <2>18. TogetherTimes(after, Content(mine), theirs) /\ Among(after, others) = Among(theirs, others)
      <3>. HIDE DEF theirs, after
      <3>1. changed \in Seq(DraftRule) /\ added \in Seq(DraftRule)  BY <2>5
      <3>2. others = Others(theirs, Content(mine))  BY DEF Others
      <3>. HIDE DEF others
      <3>. QED  BY ONLY <3>1, <3>2, <2>10, <2>12, <2>13, <2>14, <2>15, <2>16, <2>17, MergedRules
    <2>. QED  BY <2>18 DEF TogetherTimes
  <1>2. EditorInv /\ ListsInv /\ KeysInv /\ [EditorNext]_editorVars => [Reapplies /\ Both => Merged]_editorVars
    BY <1>1
  <1>3. RebaseMergesRules <=> [][Reapplies /\ Both => Merged]_editorVars
    BY PTL DEF RebaseMergesRules, Twinless, MinePlaces
  <1>. QED  BY <1>2, <1>3, KeysInvariance, PTL DEF EditorSpec

-----------------------------------------------------------------------------
(* The merge of the other elements.                                        *)

\* Lists of records with an element in each.
HaveValues(E) == \A it \in E : it.value \in Element

LEMMA ItemsHaveValues == HaveValues(Item) /\ HaveValues(MergedItem)
  BY DEF HaveValues, Item, MergedItem

LEMMA ContentsAre ==
  ASSUME NEW E, HaveValues(E), NEW s \in Seq(E)
  PROVE  /\ Contents(s) \in Seq(Element) /\ Len(Contents(s)) = Len(s) /\ DOMAIN Contents(s) = DOMAIN s
         /\ \A i \in DOMAIN s : Contents(s)[i] = s[i].value
  <1>. DEFINE c == Contents(s)
  <1>1. DOMAIN c = DOMAIN s /\ \A i \in DOMAIN s : c[i] = s[i].value  BY DEF Contents
  <1>2. Len(s) \in Nat /\ DOMAIN s = 1..Len(s) /\ \A i \in DOMAIN s : s[i] \in E  OBVIOUS
  <1>3. c = [i \in 1..Len(s) |-> c[i]]  BY <1>2 DEF Contents
  <1>. HIDE DEF c
  <1>4. c \in [1..Len(s) -> Element]  BY <1>1, <1>2, <1>3 DEF HaveValues
  <1>5. c \in Seq(Element) /\ Len(c) = Len(s)  BY <1>2, <1>4, AList
  <1>. QED  BY <1>1, <1>5 DEF c

LEMMA ContentsPicked ==
  ASSUME NEW E, HaveValues(E), NEW s \in Seq(E), NEW at, at \subseteq DOMAIN s
  PROVE  Contents(Sublist(s, at)) = Sublist(Contents(s), at)
  <1>. DEFINE x == Sublist(s, at)
  <1>1. DOMAIN x = 1..Cardinality(at)  BY DEF Sublist
  <1>2. Places(at, Len(s))  BY DEF Places
  <1>3. \A n \in 1..Cardinality(at) : x[n] = s[NthOf(at, n)] /\ NthOf(at, n) \in at  BY <1>2, ASublist
  <1>. HIDE DEF x
  <1>4. \A n \in 1..Cardinality(at) : x[n].value = Contents(s)[NthOf(at, n)]  BY <1>3, ContentsAre
  <1>5. Contents(x) = [n \in 1..Cardinality(at) |-> Contents(s)[NthOf(at, n)]]  BY <1>1, <1>4 DEF Contents
  <1>. QED  BY <1>5 DEF Sublist, x

LEMMA SameContents ==
  ASSUME NEW s, NEW t, DOMAIN s = DOMAIN t, \A i \in DOMAIN s : s[i].value = t[i].value
  PROVE  Contents(s) = Contents(t)
  BY DEF Contents

LEMMA ContentsJoined ==
  ASSUME NEW E, HaveValues(E), NEW s \in Seq(E), NEW t \in Seq(E), NEW v
  PROVE  Times(Contents(s \o t), v) = Times(Contents(s), v) + Times(Contents(t), v)
  <1>. DEFINE x == s \o t
              e == Contents(x)
              y == Contents(s) \o Contents(t)
              N == Len(s) + Len(t)
  <1>1. /\ x \in Seq(E) /\ Len(x) = N
        /\ \A i \in 1..Len(s) : x[i] = s[i]
        /\ \A i \in 1..Len(t) : x[Len(s) + i] = t[i]
    BY Joined
  <1>2. Len(s) \in Nat /\ DOMAIN s = 1..Len(s) /\ Len(t) \in Nat /\ DOMAIN t = 1..Len(t)  OBVIOUS
  <1>3. /\ Contents(s) \in Seq(Element) /\ Len(Contents(s)) = Len(s)
        /\ \A i \in 1..Len(s) : Contents(s)[i] = s[i].value
    BY <1>2, ContentsAre
  <1>4. /\ Contents(t) \in Seq(Element) /\ Len(Contents(t)) = Len(t)
        /\ \A i \in 1..Len(t) : Contents(t)[i] = t[i].value
    BY <1>2, ContentsAre
  <1>. HIDE DEF x
  <1>5. e \in Seq(Element) /\ Len(e) = N /\ \A i \in DOMAIN x : e[i] = x[i].value
    BY <1>1, ContentsAre
  <1>6. /\ y \in Seq(Element) /\ Len(y) = Len(Contents(s)) + Len(Contents(t))
        /\ \A i \in 1..Len(Contents(s)) : y[i] = Contents(s)[i]
        /\ \A i \in 1..Len(Contents(t)) : y[Len(Contents(s)) + i] = Contents(t)[i]
    <2>1. Contents(s) \in Seq(Element) /\ Contents(t) \in Seq(Element)  BY <1>3, <1>4
    <2>. QED  BY ONLY <2>1, Joined
  <1>7. Times(y, v) = Times(Contents(s), v) + Times(Contents(t), v)
    <2>1. Contents(s) \in Seq(Element) /\ Contents(t) \in Seq(Element)  BY <1>3, <1>4
    <2>. QED  BY ONLY <2>1, TimesJoined
  <1>. HIDE DEF e, y, N
  <1>8. DOMAIN x = 1..N /\ N \in Nat /\ N = Len(s) + Len(t)  BY <1>1, <1>2 DEF N
  <1>9. \A i \in 1..N : e[i] = y[i]
    <2>1. SUFFICES ASSUME NEW i \in 1..N PROVE e[i] = y[i]  OBVIOUS
    <2>2. CASE i \in 1..Len(s)  BY <1>1, <1>3, <1>5, <1>6, <1>8, <2>2
    <2>3. CASE i \notin 1..Len(s)
      <3>1. i - Len(s) \in 1..Len(t) /\ i = Len(s) + (i - Len(s))  BY <1>2, <1>8, <2>3
      <3>2. e[i] = x[i].value /\ x[i] = t[i - Len(s)]  BY <1>1, <1>5, <1>8, <3>1
      <3>3. y[i] = Contents(t)[i - Len(s)]  BY <1>3, <1>4, <1>6, <3>1
      <3>. QED  BY <1>4, <3>1, <3>2, <3>3
    <2>. QED  BY <2>2, <2>3
  <1>10. Len(y) = N  BY <1>3, <1>4, <1>6, <1>8
  <1>11. e = y  BY <1>5, <1>6, <1>9, <1>10
  <1>. QED  BY <1>7, <1>11 DEF e, x

\* How often an element is among those of some places.
ValuedAt(items, at, v) == {i \in at : items[i].value = v}

LEMMA TimesOfPicked ==
  ASSUME NEW E, HaveValues(E), NEW s \in Seq(E), NEW at, at \subseteq DOMAIN s, NEW v
  PROVE  Times(Contents(Sublist(s, at)), v) = Cardinality(ValuedAt(s, at, v))
  <1>1. Contents(s) \in Seq(Element) /\ at \subseteq DOMAIN Contents(s)
        /\ \A i \in DOMAIN s : Contents(s)[i] = s[i].value
    BY ContentsAre
  <1>2. Times(Sublist(Contents(s), at), v) = Cardinality({i \in at : Contents(s)[i] = v})  BY <1>1, TimesPicked
  <1>3. {i \in at : Contents(s)[i] = v} = ValuedAt(s, at, v)  BY <1>1 DEF ValuedAt
  <1>. QED  BY <1>2, <1>3, ContentsPicked

\* Of the base, what is no longer in the draft, and what is edited in it.
EditedPlaces(base, items) == {i \in DOMAIN items : IsEdited(base, items[i])}
NewPlaces(base, items) == {i \in DOMAIN items : IsNew(base, items[i])}
Removed(base, items) == {base[i] : i \in {j \in DOMAIN base : ~\E k \in DOMAIN items : items[k].origin = j}}
Gone(base, items) == Removed(base, items) \cup {base[items[i].origin] : i \in EditedPlaces(base, items)}

\* A base without twins, and a draft made from it.
FromBase(base, items) ==
  base \in Seq(Element) /\ items \in Seq(Item) /\ Ordered(items) /\ AllDifferent(base)

LEMMA OneEditEach ==
  ASSUME NEW base, NEW items, FromBase(base, items), NEW v, NEW i \in Edits(base, items, v)
  PROVE  /\ i \in EditedPlaces(base, items) /\ base[items[i].origin] = v
         /\ \A k \in Edits(base, items, v) : k = i
         /\ LastEdit(base, items, v) = items[i].value
         /\ v \notin Removed(base, items)
  <1>0. /\ base \in Seq(Element) /\ items \in Seq(Item) /\ Ordered(items)
        /\ \A j, k \in DOMAIN base : base[j] = base[k] => j = k
    BY DEF FromBase, AllDifferent
  <1>1. \A k \in Edits(base, items, v) : k \in DOMAIN items /\ k \in Nat
                                         /\ items[k].origin \in DOMAIN base /\ base[items[k].origin] = v
    BY <1>0 DEF Edits, IsEdited
  <1>2. \A k \in DOMAIN base : k # 0  BY <1>0
  <1>3. \A k \in Edits(base, items, v) : k = i
    <2>1. SUFFICES ASSUME NEW k \in Edits(base, items, v) PROVE k = i  OBVIOUS
    <2>2. items[k].origin = items[i].origin /\ items[i].origin # 0  BY <1>0, <1>1, <1>2
    <2>3. items[i].origin \in Nat  BY <1>0, <1>1 DEF Item
    <2>4. ~(k < i) /\ ~(i < k)  BY <1>0, <1>1, <2>2, <2>3 DEF Ordered
    <2>. QED  BY <1>1, <2>4
  <1>4. i \in EditedPlaces(base, items)  BY DEF EditedPlaces, Edits
  <1>5. LastEdit(base, items, v) = items[i].value
    <2>. DEFINE S == Edits(base, items, v)
                k == CHOOSE k \in S : \A j \in S : j <= k
    <2>1. \A j \in S : j <= i  BY <1>1, <1>3
    <2>2. k \in S  BY <2>1
    <2>3. k = i  BY <1>3, <2>2
    <2>4. LastEdit(base, items, v) = items[k].value  BY DEF LastEdit
    <2>. QED  BY <2>3, <2>4
  <1>6. v \notin Removed(base, items)
    <2>1. SUFFICES ASSUME NEW j \in DOMAIN base, \A k \in DOMAIN items : items[k].origin # j, base[j] = v PROVE FALSE
      BY DEF Removed
    <2>. QED  BY <1>0, <1>1, <2>1
  <1>. QED  BY <1>1, <1>3, <1>4, <1>5, <1>6

LEMMA DropsAre ==
  ASSUME NEW base, NEW items, FromBase(base, items), NEW v
  PROVE  Drops(base, items, v) = IF v \in Removed(base, items) THEN 1 ELSE 0
  <1>. DEFINE D == {i \in DOMAIN base : base[i] = v /\ \A j \in DOMAIN items : items[j].origin # i}
  <1>0. \A j, k \in DOMAIN base : base[j] = base[k] => j = k  BY DEF FromBase, AllDifferent
  <1>1. Drops(base, items, v) = Cardinality(D)  BY DEF Drops
  <1>2. CASE v \in Removed(base, items)
    <2>1. PICK i \in DOMAIN base : (\A k \in DOMAIN items : items[k].origin # i) /\ base[i] = v  BY <1>2 DEF Removed
    <2>2. D = {i}  BY <1>0, <2>1
    <2>. HIDE DEF D
    <2>. QED  BY <1>1, <1>2, <2>2, FS_Singleton
  <1>3. CASE v \notin Removed(base, items)
    <2>1. D = {}  BY <1>3 DEF Removed
    <2>. HIDE DEF D
    <2>. QED  BY <1>1, <1>3, <2>1, FS_EmptySet
  <1>. QED  BY <1>2, <1>3

PlacesOf(theirs, v) == {j \in DOMAIN theirs : theirs[j] = v}

LEMMA NthIsRank ==
  ASSUME NEW theirs \in Seq(Element), NEW v, NEW j \in PlacesOf(theirs, v)
  PROVE  Nth(theirs, j) = Rank(PlacesOf(theirs, v), j) /\ Places(PlacesOf(theirs, v), Len(theirs))
  <1>1. DOMAIN theirs = 1..Len(theirs) /\ Len(theirs) \in Nat  OBVIOUS
  <1>2. theirs[j] = v /\ j \in 1..Len(theirs)  BY <1>1 DEF PlacesOf
  <1>3. {i \in 1..j : theirs[i] = theirs[j]} = {i \in PlacesOf(theirs, v) : i <= j}
    BY <1>1, <1>2 DEF PlacesOf
  <1>. QED  BY <1>1, <1>3 DEF Nth, Rank, PlacesOf, Places

\* Which elements of the server take an edit, and which it does not touch.
Takers(base, items, theirs) == {j \in DOMAIN theirs : TakesEdit(base, items, theirs, j)}
Untaken(base, items, theirs) == StaysAt(base, items, theirs) \ Takers(base, items, theirs)

\* Where an element of the base is gone, the server's first one is taken.
LEMMA FirstIsTaken ==
  ASSUME NEW base, NEW items, FromBase(base, items), NEW theirs \in Seq(Element), NEW v, NEW j \in PlacesOf(theirs, v)
  PROVE  j \in Untaken(base, items, theirs) <=> v \notin Gone(base, items) \/ Nth(theirs, j) # 1
  <1>1. j \in DOMAIN theirs /\ theirs[j] = v  BY DEF PlacesOf
  <1>2. Nth(theirs, j) \in Nat /\ Nth(theirs, j) >= 1
    <2>1. Places(PlacesOf(theirs, v), Len(theirs)) /\ Nth(theirs, j) = Rank(PlacesOf(theirs, v), j)  BY NthIsRank
    <2>2. Rank(PlacesOf(theirs, v), j) \in 1..Cardinality(PlacesOf(theirs, v))
      BY <2>1, NthIs
    <2>3. Cardinality(PlacesOf(theirs, v)) \in Nat  BY <2>1, PlacesFinite
    <2>. QED  BY <2>1, <2>2, <2>3
  <1>3. j \in Untaken(base, items, theirs) <=>
          /\ Nth(theirs, j) > Drops(base, items, v)
          /\ ~(Edits(base, items, v) # {} /\ Nth(theirs, j) = Drops(base, items, v) + 1)
    BY <1>1 DEF Untaken, StaysAt, Takers, TakesEdit
  <1>4. Edits(base, items, v) # {} => v \notin Removed(base, items) /\ v \in Gone(base, items)
    <2>1. SUFFICES ASSUME NEW i \in Edits(base, items, v)
                   PROVE  v \notin Removed(base, items) /\ v \in Gone(base, items)
      OBVIOUS
    <2>2. i \in EditedPlaces(base, items) /\ base[items[i].origin] = v /\ v \notin Removed(base, items)
      BY OneEditEach
    <2>. QED  BY <2>2 DEF Gone
  <1>5. v \in Gone(base, items) => v \in Removed(base, items) \/ Edits(base, items, v) # {}
    <2>1. SUFFICES ASSUME NEW i \in EditedPlaces(base, items), base[items[i].origin] = v
                   PROVE  Edits(base, items, v) # {}
      BY DEF Gone
    <2>2. i \in Edits(base, items, v)  BY <2>1 DEF EditedPlaces, Edits
    <2>. QED  BY <2>2
  <1>6. v \in Removed(base, items) => v \in Gone(base, items)  BY DEF Gone
  <1>7. Drops(base, items, v) = IF v \in Removed(base, items) THEN 1 ELSE 0  BY DropsAre
  <1>. QED  BY ONLY <1>2, <1>3, <1>4, <1>5, <1>6, <1>7

LessOf(base, items, theirs, v) == IF v \in Gone(base, items) /\ Times(theirs, v) > 0 THEN 1 ELSE 0

LEMMA UntakenTimes ==
  ASSUME NEW base, NEW items, FromBase(base, items), NEW theirs \in Seq(Element), NEW v
  PROVE  Cardinality(Untaken(base, items, theirs) \cap PlacesOf(theirs, v))
         = Times(theirs, v) - LessOf(base, items, theirs, v)
  <1>. DEFINE P == PlacesOf(theirs, v)
              U == Untaken(base, items, theirs) \cap P
              N == Len(theirs)
  <1>1. N \in Nat /\ Places(P, N)  BY DEF Places, PlacesOf
  <1>2. IsFiniteSet(P) /\ Cardinality(P) \in Nat  BY <1>1, PlacesFinite
  <1>3. Times(theirs, v) = Cardinality(P)  BY DEF Times, PlacesOf
  <1>4. \A j \in P : (j \in U <=> v \notin Gone(base, items) \/ Nth(theirs, j) # 1) /\ Nth(theirs, j) = Rank(P, j)
    BY FirstIsTaken, NthIsRank
  <1>5. U \subseteq P  OBVIOUS
  <1>. HIDE DEF P, U, N
  <1>6. ASSUME v \notin Gone(base, items) \/ P = {} PROVE Cardinality(U) = Times(theirs, v) - LessOf(base, items, theirs, v)
    <2>1. U = P  BY <1>4, <1>5, <1>6
    <2>2. P = {} => Cardinality(P) = 0  BY FS_EmptySet
    <2>3. ~(v \in Gone(base, items) /\ Times(theirs, v) > 0)  BY <1>3, <1>6, <2>2
    <2>4. LessOf(base, items, theirs, v) = 0  BY <2>3 DEF LessOf
    <2>. QED  BY <1>2, <1>3, <2>1, <2>4
  <1>7. ASSUME v \in Gone(base, items), P # {} PROVE Cardinality(U) = Times(theirs, v) - LessOf(base, items, theirs, v)
    <2>1. Cardinality(P) # 0  BY <1>2, <1>7, FS_EmptySet
    <2>2. 1 \in 1..Cardinality(P)  BY <1>2, <2>1
    <2>. DEFINE a == NthOf(P, 1)
    <2>3. a \in P /\ Rank(P, a) = 1  BY <1>1, <2>2, NthPlace
    <2>4. \A j \in P : Rank(P, j) = 1 => j = a  BY <1>1, NthIs
    <2>. HIDE DEF a
    <2>5. U = P \ {a}  BY <1>4, <1>5, <1>7, <2>3, <2>4
    <2>6. Cardinality(P \ {a}) = Cardinality(P) - 1  BY <1>2, <2>3, FS_RemoveElement
    <2>7. Times(theirs, v) > 0  BY <1>2, <1>3, <2>1
    <2>8. LessOf(base, items, theirs, v) = 1  BY <1>7, <2>7 DEF LessOf
    <2>. QED  BY <1>3, <2>5, <2>6, <2>8
  <1>8. Cardinality(U) = Times(theirs, v) - LessOf(base, items, theirs, v)  BY <1>6, <1>7
  <1>. QED  BY <1>8 DEF U, P

\* The elements that stay or take an edit, those whose edit has no element
\* left to go to, and the edits and additions of the user.
TakenTo(base, items, theirs, v) == {j \in Takers(base, items, theirs) : LastEdit(base, items, theirs[j]) = v}
Orphans(base, items, theirs) ==
  {i \in EditedPlaces(base, items) :
     \A j \in DOMAIN theirs : theirs[j] = base[items[i].origin] => ~TakesEdit(base, items, theirs, j)}

LEMMA TakersStay ==
  ASSUME NEW base, NEW items, FromBase(base, items), NEW theirs \in Seq(Element)
  PROVE  Takers(base, items, theirs) \subseteq StaysAt(base, items, theirs)
  <1>1. SUFFICES ASSUME NEW j \in DOMAIN theirs, Nth(theirs, j) = Drops(base, items, theirs[j]) + 1
                 PROVE  Nth(theirs, j) > Drops(base, items, theirs[j])
    BY DEF Takers, TakesEdit, StaysAt
  <1>2. Drops(base, items, theirs[j]) \in Nat  BY DropsAre
  <1>. QED  BY <1>1, <1>2

LEMMA KeptTimes ==
  ASSUME NEW base, NEW items, FromBase(base, items), NEW theirs \in Seq(Element), NEW v
  PROVE  /\ Times(Contents(KeptElements(base, items, theirs)), v)
            = Cardinality(Untaken(base, items, theirs) \cap PlacesOf(theirs, v))
              + Cardinality(TakenTo(base, items, theirs, v))
         /\ Cardinality(Untaken(base, items, theirs) \cap PlacesOf(theirs, v)) \in Nat
         /\ Cardinality(TakenTo(base, items, theirs, v)) \in Nat
  <1>. DEFINE f == Updated(base, items, theirs)
              at == StaysAt(base, items, theirs)
              U == Untaken(base, items, theirs) \cap PlacesOf(theirs, v)
              T == TakenTo(base, items, theirs, v)
              N == Len(theirs)
  <1>1. items \in Seq(Item)  BY DEF FromBase
  <1>2. /\ f \in Seq(MergedItem) /\ DOMAIN f = DOMAIN theirs
        /\ \A j \in DOMAIN theirs : f[j] = TakenOver(base, items, theirs, j)
        /\ at \subseteq DOMAIN theirs /\ KeptElements(base, items, theirs) = Sublist(f, at)
    BY <1>1, KeptElementsAre
  <1>3. \A j \in DOMAIN theirs : f[j].value = IF j \in Takers(base, items, theirs)
                                             THEN LastEdit(base, items, theirs[j]) ELSE theirs[j]
    BY <1>2 DEF TakenOver, Takers
  <1>4. Takers(base, items, theirs) \subseteq at  BY TakersStay
  <1>5. ValuedAt(f, at, v) = U \cup T /\ U \cap T = {}
    BY <1>2, <1>3, <1>4 DEF ValuedAt, Untaken, PlacesOf, TakenTo
  <1>6. Places(U, N) /\ Places(T, N) /\ N \in Nat  BY <1>2, <1>4 DEF Places, Untaken, TakenTo
  <1>. HIDE DEF f, at, U, T, N
  <1>7. Times(Contents(Sublist(f, at)), v) = Cardinality(ValuedAt(f, at, v))
    BY <1>2, ItemsHaveValues, TimesOfPicked
  <1>8. IsFiniteSet(U) /\ IsFiniteSet(T)  BY <1>6, PlacesFinite
  <1>9. Cardinality(U \cup T) = Cardinality(U) + Cardinality(T) /\ Cardinality(U) \in Nat /\ Cardinality(T) \in Nat
    BY <1>5, <1>8, Parted
  <1>. QED  BY <1>2, <1>5, <1>7, <1>9 DEF U, T

LEMMA OrphansAre ==
  ASSUME NEW base, NEW items, FromBase(base, items), NEW theirs
  PROVE  /\ Orphans(base, items, theirs) \subseteq DOMAIN items
         /\ OrphanedElements(base, items, theirs)
            = Sublist([i \in DOMAIN items |-> [origin |-> 0, value |-> items[i].value]], Orphans(base, items, theirs))
  <1>. DEFINE orphan(i) ==
                /\ IsEdited(base, items[i])
                /\ \A j \in Edits(base, items, base[items[i].origin]) : i <= j
                /\ \A j \in DOMAIN theirs : theirs[j] = base[items[i].origin] => ~TakesEdit(base, items, theirs, j)
              f == [i \in DOMAIN items |->
                      [origin |-> 0, value |-> IF orphan(i) THEN LastEdit(base, items, base[items[i].origin]) ELSE {}]]
              at == {i \in DOMAIN items : orphan(i)}
              g == [i \in DOMAIN items |-> [origin |-> 0, value |-> items[i].value]]
              N == Len(items)
  <1>0. N \in Nat /\ DOMAIN items = 1..N  BY DEF FromBase
  <1>1. OrphanedElements(base, items, theirs) = Sublist(f, at)  BY Zenon DEF OrphanedElements
  <1>2. ASSUME NEW i \in EditedPlaces(base, items)
        PROVE  /\ i \in DOMAIN items /\ IsEdited(base, items[i])
               /\ \A j \in Edits(base, items, base[items[i].origin]) : i <= j
               /\ LastEdit(base, items, base[items[i].origin]) = items[i].value
    <2>1. i \in DOMAIN items /\ IsEdited(base, items[i])  BY DEF EditedPlaces
    <2>2. i \in Edits(base, items, base[items[i].origin])  BY <2>1 DEF Edits
    <2>3. /\ \A j \in Edits(base, items, base[items[i].origin]) : j = i
          /\ LastEdit(base, items, base[items[i].origin]) = items[i].value
      BY <2>2, OneEditEach
    <2>. QED  BY <1>0, <2>1, <2>3
  <1>3. at = Orphans(base, items, theirs)
    <2>1. ASSUME NEW i \in at PROVE i \in Orphans(base, items, theirs)  BY DEF Orphans, EditedPlaces
    <2>2. ASSUME NEW i \in Orphans(base, items, theirs) PROVE i \in at
      <3>1. i \in EditedPlaces(base, items)  BY DEF Orphans
      <3>. QED  BY <1>2, <3>1 DEF Orphans
    <2>. QED  BY <2>1, <2>2
  <1>4. \A i \in at : f[i] = g[i]
    <2>1. SUFFICES ASSUME NEW i \in at PROVE f[i] = g[i]  OBVIOUS
    <2>2. i \in EditedPlaces(base, items) /\ orphan(i)  BY <1>3 DEF Orphans
    <2>3. LastEdit(base, items, base[items[i].origin]) = items[i].value /\ i \in DOMAIN items  BY <1>2, <2>2
    <2>. HIDE DEF orphan
    <2>. QED  BY <2>2, <2>3
  <1>5. at \subseteq DOMAIN items  OBVIOUS
  <1>. HIDE DEF f, g, at, N
  <1>6. Sublist(f, at) = Sublist(g, at)
    <2>1. Places(at, N)  BY <1>0, <1>5 DEF Places
    <2>2. \A n \in 1..Cardinality(at) : NthOf(at, n) \in at  BY <1>0, <2>1, NthPlace
    <2>. QED  BY <1>4, <2>2 DEF Sublist
  <1>. QED  BY <1>1, <1>3, <1>5, <1>6 DEF g

LEMMA OrphanTimes ==
  ASSUME NEW base, NEW items, FromBase(base, items), NEW theirs, NEW v
  PROVE  Times(Contents(OrphanedElements(base, items, theirs)), v)
         = Cardinality(ValuedAt(items, Orphans(base, items, theirs), v))
  <1>. DEFINE g == [i \in DOMAIN items |-> [origin |-> 0, value |-> items[i].value]]
              at == Orphans(base, items, theirs)
  <1>1. items \in Seq(Item) /\ Len(items) \in Nat /\ DOMAIN items = 1..Len(items)  BY DEF FromBase
  <1>2. g \in [1..Len(items) -> MergedItem]
    <2>1. \A i \in DOMAIN items : items[i] \in Item  BY <1>1
    <2>2. \A i \in DOMAIN items : items[i].value \in Element  BY <2>1 DEF Item
    <2>. QED  BY <1>1, <2>2 DEF MergedItem
  <1>3. \A i \in DOMAIN items : g[i].value = items[i].value  OBVIOUS
  <1>4. OrphanedElements(base, items, theirs) = Sublist(g, at) /\ at \subseteq DOMAIN items  BY OrphansAre
  <1>5. DOMAIN g = DOMAIN items  OBVIOUS
  <1>. HIDE DEF g, at
  <1>6. g \in Seq(MergedItem)  BY <1>1, <1>2, AList
  <1>7. Times(Contents(Sublist(g, at)), v) = Cardinality(ValuedAt(g, at, v))
    BY <1>4, <1>5, <1>6, ItemsHaveValues, TimesOfPicked
  <1>8. ValuedAt(g, at, v) = ValuedAt(items, at, v)  BY <1>3, <1>4 DEF ValuedAt
  <1>. QED  BY <1>4, <1>7, <1>8 DEF at

\* Each edit goes to one element of the server or is an orphan.
LEMMA EditsGoSomewhere ==
  ASSUME NEW base, NEW items, FromBase(base, items), NEW theirs \in Seq(Element), NEW v
  PROVE  Cardinality(ValuedAt(items, EditedPlaces(base, items), v))
         = Cardinality(TakenTo(base, items, theirs, v)) + Cardinality(ValuedAt(items, Orphans(base, items, theirs), v))
  <1>. DEFINE T == TakenTo(base, items, theirs, v)
              R == ValuedAt(items, Orphans(base, items, theirs), v)
              Q == ValuedAt(items, EditedPlaces(base, items) \ Orphans(base, items, theirs), v)
              edit(j) == CHOOSE i \in Edits(base, items, theirs[j]) : TRUE
              g == [j \in T |-> edit(j)]
              N == Len(theirs)
              L == Len(items)
  <1>0. N \in Nat /\ DOMAIN theirs = 1..N /\ L \in Nat /\ DOMAIN items = 1..L  BY DEF FromBase
  <1>1. Q \cup R = ValuedAt(items, EditedPlaces(base, items), v) /\ Q \cap R = {}
    BY DEF ValuedAt, Orphans
  <1>2. Places(Q, L) /\ Places(R, L) /\ Places(T, N)
    BY <1>0 DEF Places, ValuedAt, Orphans, EditedPlaces, TakenTo, Takers
  <1>3. IsFiniteSet(Q) /\ IsFiniteSet(R) /\ IsFiniteSet(T)
    <2>. HIDE DEF Q, R, T, L, N
    <2>. QED  BY <1>0, <1>2, PlacesFinite
  <1>4. ASSUME NEW j \in T
        PROVE  /\ edit(j) \in Q /\ edit(j) \in Edits(base, items, theirs[j])
               /\ j \in PlacesOf(theirs, theirs[j]) /\ Nth(theirs, j) = Drops(base, items, theirs[j]) + 1
    <2>1. j \in DOMAIN theirs /\ TakesEdit(base, items, theirs, j) /\ LastEdit(base, items, theirs[j]) = v
      BY DEF TakenTo, Takers
    <2>2. edit(j) \in Edits(base, items, theirs[j]) /\ Nth(theirs, j) = Drops(base, items, theirs[j]) + 1
      BY <2>1 DEF TakesEdit
    <2>. HIDE DEF edit
    <2>3. /\ edit(j) \in EditedPlaces(base, items) /\ base[items[edit(j)].origin] = theirs[j]
          /\ items[edit(j)].value = v
      BY <2>1, <2>2, OneEditEach
    <2>4. edit(j) \notin Orphans(base, items, theirs)  BY <2>1, <2>3 DEF Orphans
    <2>. QED  BY <2>1, <2>2, <2>3, <2>4 DEF ValuedAt, PlacesOf
  <1>5. ASSUME NEW i \in T, NEW j \in T, edit(i) = edit(j) PROVE i = j
    <2>. HIDE DEF T, edit, Q
    <2>1. edit(i) \in Edits(base, items, theirs[i]) /\ edit(j) \in Edits(base, items, theirs[j])  BY <1>4
    <2>2. theirs[i] = theirs[j]  BY <1>5, <2>1 DEF Edits
    <2>. DEFINE P == PlacesOf(theirs, theirs[j])
    <2>3. i \in P /\ j \in P /\ Nth(theirs, i) = Nth(theirs, j)  BY <1>4, <2>2
    <2>4. Places(P, N) /\ Nth(theirs, i) = Rank(P, i) /\ Nth(theirs, j) = Rank(P, j)  BY <2>3, NthIsRank
    <2>. HIDE DEF P
    <2>5. NthOf(P, Rank(P, i)) = i /\ NthOf(P, Rank(P, j)) = j
      <3>1. N \in Nat  BY <1>0
      <3>. QED  BY ONLY <2>3, <2>4, <3>1, NthIs
    <2>. QED  BY ONLY <2>3, <2>4, <2>5
  <1>6. ASSUME NEW k \in Q PROVE \E j \in T : edit(j) = k
    <2>1. k \in EditedPlaces(base, items) /\ k \notin Orphans(base, items, theirs) /\ items[k].value = v
      BY DEF ValuedAt
    <2>2. PICK j \in DOMAIN theirs : theirs[j] = base[items[k].origin] /\ TakesEdit(base, items, theirs, j)
      BY <2>1 DEF Orphans
    <2>3. k \in Edits(base, items, theirs[j])  BY <2>1, <2>2 DEF Edits, EditedPlaces
    <2>4. LastEdit(base, items, theirs[j]) = v /\ \A i \in Edits(base, items, theirs[j]) : i = k
      BY <2>1, <2>3, OneEditEach
    <2>5. j \in T  BY <2>2, <2>4 DEF TakenTo, Takers
    <2>6. edit(j) \in Edits(base, items, theirs[j])  BY <1>4, <2>5
    <2>. QED  BY <2>4, <2>5, <2>6
  <1>7. Cardinality(Q) = Cardinality(T)
    <2>. HIDE DEF T, Q, edit
    <2>1. g \in [T -> Q]  BY <1>4
    <2>2. \A i \in T : g[i] = edit(i)  OBVIOUS
    <2>. HIDE DEF g
    <2>3. \A i, j \in T : g[i] = g[j] => i = j  BY <1>5, <2>2
    <2>4. \A k \in Q : \E i \in T : g[i] = k  BY <1>6, <2>2
    <2>. QED  BY <1>3, <2>1, <2>3, <2>4, SameSize
  <1>. HIDE DEF T, Q, R
  <1>8. Cardinality(Q \cup R) = Cardinality(Q) + Cardinality(R)  BY <1>1, <1>3, Parted
  <1>. QED  BY <1>1, <1>7, <1>8 DEF T, R

\* The user's part of a draft, and all of it after the merge.
MineOf(base, items) == {i \in DOMAIN items : IsNew(base, items[i]) \/ IsEdited(base, items[i])}

LEMMA MineTimes ==
  ASSUME NEW base, NEW items, FromBase(base, items), NEW v
  PROVE  /\ Times(Contents(Sublist(items, MineOf(base, items))), v)
            = Cardinality(ValuedAt(items, EditedPlaces(base, items), v))
              + Cardinality(ValuedAt(items, NewPlaces(base, items), v))
         /\ Times(Contents(Sublist(items, NewPlaces(base, items))), v)
            = Cardinality(ValuedAt(items, NewPlaces(base, items), v))
         /\ Cardinality(ValuedAt(items, NewPlaces(base, items), v)) \in Nat
         /\ Cardinality(ValuedAt(items, EditedPlaces(base, items), v)) \in Nat
  <1>. DEFINE A == ValuedAt(items, EditedPlaces(base, items), v)
              B == ValuedAt(items, NewPlaces(base, items), v)
  <1>1. items \in Seq(Item) /\ Len(items) \in Nat /\ DOMAIN items = 1..Len(items)  BY DEF FromBase
  <1>2. ValuedAt(items, MineOf(base, items), v) = A \cup B /\ A \cap B = {}
    BY DEF ValuedAt, MineOf, EditedPlaces, NewPlaces, IsNew, IsEdited
  <1>3. MineOf(base, items) \subseteq DOMAIN items /\ NewPlaces(base, items) \subseteq DOMAIN items
    BY DEF MineOf, NewPlaces
  <1>4. Places(A, Len(items)) /\ Places(B, Len(items))
    BY <1>1 DEF Places, ValuedAt, EditedPlaces, NewPlaces
  <1>5. /\ Times(Contents(Sublist(items, MineOf(base, items))), v) = Cardinality(ValuedAt(items, MineOf(base, items), v))
        /\ Times(Contents(Sublist(items, NewPlaces(base, items))), v) = Cardinality(B)
    BY <1>1, <1>3, ItemsHaveValues, TimesOfPicked
  <1>. HIDE DEF A, B
  <1>6. IsFiniteSet(A) /\ IsFiniteSet(B)  BY <1>1, <1>4, PlacesFinite
  <1>7. Cardinality(A \cup B) = Cardinality(A) + Cardinality(B) /\ Cardinality(A) \in Nat /\ Cardinality(B) \in Nat
    BY <1>2, <1>6, Parted
  <1>. QED  BY <1>2, <1>5, <1>7 DEF A, B

LEMMA RebasedTimes ==
  ASSUME NEW base, NEW items, FromBase(base, items), NEW theirs \in Seq(Element), NEW held, IsFiniteSet(held), NEW v
  PROVE  Times(Contents(RebaseExtras(base, items, theirs, held)), v)
         = Times(theirs, v) - LessOf(base, items, theirs, v)
           + Times(Contents(Sublist(items, MineOf(base, items))), v)
  <1>. DEFINE k == KeptElements(base, items, theirs)
              o == OrphanedElements(base, items, theirs)
              merged == k \o o
              at == {i \in DOMAIN items : IsNew(base, items[i])}
              added == Sublist(items, at)
              taken == {added[i].key : i \in DOMAIN added} \cup held
              g == [i \in DOMAIN merged |-> [key |-> NewKey(taken, i), origin |-> merged[i].origin, value |-> merged[i].value]]
              h == [i \in DOMAIN added |-> [added[i] EXCEPT !.origin = 0]]
              E == {g[i] : i \in DOMAIN g} \cup {h[i] : i \in DOMAIN h}
  <1>0. items \in Seq(Item)  BY DEF FromBase
  <1>1. k \in Seq(MergedItem) /\ o \in Seq(MergedItem)  BY <1>0, KeptElementsListed, OrphanedElementsListed
  <1>2. RebaseExtras(base, items, theirs, held) = g \o h  BY Zenon DEF RebaseExtras
  <1>3. at = NewPlaces(base, items) /\ at \subseteq DOMAIN items  BY DEF NewPlaces
  <1>4. added \in Seq(Item)
    <2>1. Places(at, Len(items))  BY <1>0 DEF Places
    <2>. HIDE DEF at
    <2>. QED  BY <1>0, <2>1, ASublist
  <1>5. merged \in Seq(MergedItem) /\ Times(Contents(merged), v) = Times(Contents(k), v) + Times(Contents(o), v)
    <2>. HIDE DEF k, o
    <2>1. Times(Contents(k \o o), v) = Times(Contents(k), v) + Times(Contents(o), v)
      BY <1>1, ItemsHaveValues, ContentsJoined
    <2>. QED  BY <1>1, <2>1
  <1>6. Times(Contents(k), v) = Cardinality(Untaken(base, items, theirs) \cap PlacesOf(theirs, v))
                                + Cardinality(TakenTo(base, items, theirs, v))
        /\ Cardinality(Untaken(base, items, theirs) \cap PlacesOf(theirs, v)) \in Nat
        /\ Cardinality(TakenTo(base, items, theirs, v)) \in Nat
    BY KeptTimes
  <1>7. Times(Contents(o), v) = Cardinality(ValuedAt(items, Orphans(base, items, theirs), v))  BY OrphanTimes
  <1>. HIDE DEF k, o, merged, at, added
  <1>8. DOMAIN g = DOMAIN merged /\ \A i \in DOMAIN merged : g[i].value = merged[i].value  OBVIOUS
  <1>9. DOMAIN h = DOMAIN added /\ \A i \in DOMAIN added : h[i].value = added[i].value
    <2>1. \A i \in DOMAIN added : added[i] \in Item  BY <1>4
    <2>2. \A it \in Item : [it EXCEPT !.origin = 0].value = it.value  BY DEF Item
    <2>. QED  BY <2>1, <2>2
  <1>10. g \in Seq(E) /\ h \in Seq(E)
    <2>1. Len(merged) \in Nat /\ DOMAIN merged = 1..Len(merged)  BY <1>5
    <2>2. Len(added) \in Nat /\ DOMAIN added = 1..Len(added)  BY <1>4
    <2>3. g \in [1..Len(merged) -> E]  BY <2>1
    <2>4. h \in [1..Len(added) -> E]  BY <2>2
    <2>. HIDE DEF g, h, E
    <2>. QED  BY <2>1, <2>2, <2>3, <2>4, AList
  <1>11. HaveValues(E)
    <2>1. \A i \in DOMAIN merged : merged[i] \in MergedItem  BY <1>5
    <2>2. \A i \in DOMAIN added : added[i] \in Item  BY <1>4
    <2>3. \A i \in DOMAIN g : g[i].value \in Element  BY <1>8, <2>1, ItemsHaveValues DEF HaveValues
    <2>4. \A i \in DOMAIN h : h[i].value \in Element  BY <1>9, <2>2, ItemsHaveValues DEF HaveValues
    <2>. HIDE DEF g, h
    <2>. QED  BY <2>3, <2>4 DEF HaveValues
  <1>. HIDE DEF g, h, E
  <1>12. Times(Contents(g \o h), v) = Times(Contents(g), v) + Times(Contents(h), v)
    BY <1>10, <1>11, ContentsJoined
  <1>13. Contents(g) = Contents(merged) /\ Contents(h) = Contents(added)  BY <1>8, <1>9, SameContents
  <1>14. Times(Contents(added), v) = Cardinality(ValuedAt(items, NewPlaces(base, items), v))
         /\ Times(Contents(Sublist(items, MineOf(base, items))), v)
            = Cardinality(ValuedAt(items, EditedPlaces(base, items), v))
              + Cardinality(ValuedAt(items, NewPlaces(base, items), v))
         /\ Cardinality(ValuedAt(items, NewPlaces(base, items), v)) \in Nat
         /\ Cardinality(ValuedAt(items, EditedPlaces(base, items), v)) \in Nat
    BY <1>3, MineTimes DEF added
  <1>15. Cardinality(ValuedAt(items, EditedPlaces(base, items), v))
         = Cardinality(TakenTo(base, items, theirs, v)) + Cardinality(ValuedAt(items, Orphans(base, items, theirs), v))
    BY EditsGoSomewhere
  <1>16. Cardinality(Untaken(base, items, theirs) \cap PlacesOf(theirs, v))
         = Times(theirs, v) - LessOf(base, items, theirs, v)
    BY UntakenTimes
  <1>17. Cardinality(ValuedAt(items, Orphans(base, items, theirs), v)) \in Nat
    <2>1. Places(ValuedAt(items, Orphans(base, items, theirs), v), Len(items)) /\ Len(items) \in Nat
      BY <1>0 DEF Places, ValuedAt, Orphans, EditedPlaces
    <2>. QED  BY <2>1, PlacesFinite
  <1>. QED  BY ONLY <1>2, <1>5, <1>6, <1>7, <1>12, <1>13, <1>14, <1>15, <1>16, <1>17

\* Without changes the new list is the server's.
LEMMA FreshTimes ==
  ASSUME NEW base, NEW items, FromBase(base, items), Touched(DiffExtras(base, items)) = {},
         NEW m, m.extras \in Seq(Element), NEW held, NEW v
  PROVE  Times(Contents(DraftExtras(m, held)), v)
         = Times(m.extras, v) - LessOf(base, items, m.extras, v)
           + Times(Contents(Sublist(items, MineOf(base, items))), v)
  <1>. DEFINE c == Contents(DraftExtras(m, held))
  <1>1. c = m.extras
    <2>1. DOMAIN m.extras = 1..Len(m.extras)  OBVIOUS
    <2>2. DOMAIN c = DOMAIN m.extras /\ \A i \in DOMAIN m.extras : c[i] = m.extras[i]  BY DEF Contents, DraftExtras
    <2>3. c = [i \in DOMAIN m.extras |-> c[i]]  BY DEF Contents, DraftExtras
    <2>4. m.extras = [i \in DOMAIN m.extras |-> m.extras[i]]  OBVIOUS
    <2>. HIDE DEF c
    <2>. QED  BY <2>2, <2>3, <2>4
  <1>2. /\ EditedPlaces(base, items) = {} /\ NewPlaces(base, items) = {}
        /\ \A j \in DOMAIN base : \E k \in DOMAIN items : items[k].origin = j
    BY DEF Touched, DiffExtras, EditedPlaces, NewPlaces
  <1>3. Gone(base, items) = {}  BY <1>2 DEF Gone, Removed
  <1>4. LessOf(base, items, m.extras, v) = 0  BY <1>3 DEF LessOf
  <1>5. Times(Contents(Sublist(items, MineOf(base, items))), v) = 0
    <2>1. ValuedAt(items, EditedPlaces(base, items), v) = {} /\ ValuedAt(items, NewPlaces(base, items), v) = {}
      BY <1>2 DEF ValuedAt
    <2>2. Times(Contents(Sublist(items, MineOf(base, items))), v) = Cardinality({}) + Cardinality({})
      BY <2>1, MineTimes
    <2>. QED  BY <2>2, FS_EmptySet
  <1>6. Times(m.extras, v) \in Nat  BY TimesIsNumber
  <1>. HIDE DEF c
  <1>7. Times(c, v) = Times(m.extras, v) - 0 + 0  BY <1>1, <1>6
  <1>. QED  BY <1>4, <1>5, <1>7 DEF c

\* What is gone of the base, told from the user's part of the draft.
LEMMA GoneIs ==
  ASSUME NEW base, NEW items, FromBase(base, items), NEW mine, mine = Sublist(items, MineOf(base, items))
  PROVE  Gone(base, items)
         = {base[i] : i \in {j \in DOMAIN base : ~\E k \in DOMAIN items : items[k].origin = j}}
           \cup {base[mine[i].origin] : i \in {j \in DOMAIN mine : IsEdited(base, mine[j])}}
  <1>. DEFINE at == MineOf(base, items)
              S == {base[mine[i].origin] : i \in {j \in DOMAIN mine : IsEdited(base, mine[j])}}
              T == {base[items[i].origin] : i \in EditedPlaces(base, items)}
  <1>1. items \in Seq(Item) /\ Len(items) \in Nat /\ Places(at, Len(items))  BY DEF FromBase, MineOf, Places
  <1>2. \A n \in 1..Cardinality(at) : mine[n] = items[NthOf(at, n)] /\ NthOf(at, n) \in at  BY <1>1, ASublist
  <1>3. DOMAIN mine = 1..Cardinality(at)  BY DEF Sublist
  <1>4. \A i \in at : Rank(at, i) \in 1..Cardinality(at) /\ NthOf(at, Rank(at, i)) = i  BY <1>1, NthIs
  <1>5. EditedPlaces(base, items) \subseteq at /\ at \subseteq DOMAIN items  BY DEF EditedPlaces, MineOf
  <1>. HIDE DEF at
  <1>6. S \subseteq T
    <2>1. SUFFICES ASSUME NEW n \in DOMAIN mine, IsEdited(base, mine[n]) PROVE base[mine[n].origin] \in T  OBVIOUS
    <2>2. NthOf(at, n) \in EditedPlaces(base, items) /\ mine[n] = items[NthOf(at, n)]
      BY <1>2, <1>3, <1>5, <2>1 DEF EditedPlaces
    <2>. QED  BY <2>2
  <1>7. T \subseteq S
    <2>1. SUFFICES ASSUME NEW i \in EditedPlaces(base, items) PROVE base[items[i].origin] \in S  OBVIOUS
    <2>. DEFINE n == Rank(at, i)
    <2>2. n \in DOMAIN mine /\ mine[n] = items[i]  BY <1>2, <1>3, <1>4, <1>5
    <2>3. IsEdited(base, items[i])  BY DEF EditedPlaces
    <2>. HIDE DEF n
    <2>. QED  BY <2>2, <2>3
  <1>8. S = T  BY <1>6, <1>7
  <1>. QED  BY <1>8 DEF Gone, Removed

\* The other elements after a 409, as long as the base lists none twice: an
\* element that the user removed or edited is there once less than the server
\* has it, an edit or addition once more, and all others as often as the
\* server has them (rebaseExtras).
THEOREM ReapplyingMergesElements == EditorSpec => RebaseMergesElements
  <1>. DEFINE base == draft.base[1].extras
              items == draft.extras
              mine == Sublist(items, {i \in DOMAIN items : IsNew(base, items[i]) \/ IsEdited(base, items[i])})
              gone == {base[i] : i \in {j \in DOMAIN base : ~\E k \in DOMAIN items : items[k].origin = j}}
                      \cup {base[mine[i].origin] : i \in {j \in DOMAIN mine : IsEdited(base, mine[j])}}
              theirs == conflict[1].extras
              Less(v) == IF v \in gone /\ Times(theirs, v) > 0 THEN 1 ELSE 0
              after == Contents(draft'.extras)
              Merged == \A v \in Element : Times(after, v) = Times(theirs, v) - Less(v) + Times(Contents(mine), v)
  <1>1. ASSUME EditorInv, ListsInv, KeysInv, [EditorNext]_editorVars, Reapplies, AllDifferent(base) PROVE Merged
    <2>. DEFINE m == conflict[1]
                sum == Reviewed
    <2>1. EditorNext  BY <1>1 DEF Reapplies, editorVars, page
    <2>2. draft' = Rebased  BY <1>1, <2>1, OnlyRebaseReapplies, ReappliedIsShown
    <2>3. conflict # <<>> /\ draft.base # <<>>  BY <1>1 DEF Reapplies, EditorInv, NeedsModel
    <2>4. ListedModel(m) /\ Listed(draft) /\ ListedModel(draft.base[1]) /\ Ordered(items)
      BY <1>1, <2>3 DEF ListsInv, Listed, NoneOrListed, KeysInv, Keyed, InOrder
    <2>5. FromBase(base, items) /\ theirs \in Seq(Element)
      BY <1>1, <2>4 DEF FromBase, ListedModel, Listed, ListedItems
    <2>6. draft'.extras = IF Touched(DiffExtras(base, items)) = {} THEN DraftExtras(m, Held)
                          ELSE RebaseExtras(base, items, theirs, Held)
      BY <2>2 DEF Rebased, RebaseDraft, Reviewed, DiffDraft
    <2>7. IsFiniteSet(Held)  BY HeldIsFinite
    <2>8. mine = Sublist(items, MineOf(base, items))  BY DEF MineOf
    <2>. HIDE DEF mine
    <2>9. gone = Gone(base, items)  BY <2>5, <2>8, GoneIs
    <2>. HIDE DEF gone
    <2>10. SUFFICES ASSUME NEW v \in Element
                    PROVE  Times(after, v) = Times(theirs, v) - Less(v) + Times(Contents(mine), v)
      OBVIOUS
    <2>11. Less(v) = LessOf(base, items, theirs, v)  BY <2>9 DEF LessOf
    <2>. HIDE DEF Less, base, items
    <2>12. CASE Touched(DiffExtras(base, items)) = {}
      <3>1. Times(Contents(DraftExtras(m, Held)), v)
            = Times(m.extras, v) - LessOf(base, items, m.extras, v)
              + Times(Contents(Sublist(items, MineOf(base, items))), v)
        BY <2>5, <2>12, FreshTimes
      <3>. QED  BY <2>6, <2>8, <2>11, <2>12, <3>1
    <2>13. CASE Touched(DiffExtras(base, items)) # {}
      <3>1. Times(Contents(RebaseExtras(base, items, theirs, Held)), v)
            = Times(theirs, v) - LessOf(base, items, theirs, v)
              + Times(Contents(Sublist(items, MineOf(base, items))), v)
        BY <2>5, <2>7, RebasedTimes
      <3>. QED  BY <2>6, <2>8, <2>11, <2>13, <3>1
    <2>. QED  BY <2>12, <2>13
  <1>2. EditorInv /\ ListsInv /\ KeysInv /\ [EditorNext]_editorVars
        => [Reapplies /\ AllDifferent(base) => Merged]_editorVars
    BY <1>1
  <1>3. RebaseMergesElements <=> [][Reapplies /\ AllDifferent(base) => Merged]_editorVars
    BY PTL DEF RebaseMergesElements
  <1>. QED  BY <1>2, <1>3, KeysInvariance, PTL DEF EditorSpec

-----------------------------------------------------------------------------
(* What a save carries, and what was reviewed.                             *)

LEMMA NothingPicked ==
  ASSUME NEW N \in Nat, NEW s, NEW at, at \subseteq 1..N, Sublist(s, at) = <<>>
  PROVE  at = {}
  <1>1. IsFiniteSet(at) /\ Cardinality(at) \in Nat  BY PlacesFinite DEF Places
  <1>2. DOMAIN Sublist(s, at) = 1..Cardinality(at)  BY DEF Sublist
  <1>3. DOMAIN <<>> = {}  OBVIOUS
  <1>4. 1..Cardinality(at) = {}  BY <1>2, <1>3
  <1>5. Cardinality(at) = 0
    <2>1. Cardinality(at) # 0 => 1 \in 1..Cardinality(at)  BY <1>1
    <2>. QED  BY <1>4, <2>1
  <1>. QED  BY <1>1, <1>5, FS_EmptySet

NoRuleListed(rules) == rules.added = <<>> /\ rules.changed = <<>> /\ rules.removed = {}

\* Of the rules with one fingerprint byId has one.
LEMMA TheRuleById ==
  ASSUME NEW m, ListedModel(m), NEW id \in Ids(m)
  PROVE  ById(m, id).uses = id /\ (ById(m, id).enabled <=> id \in Values(m.hash.rules))
  <1>. DEFINE S == {i \in DOMAIN m.rules : m.rules[i].uses = id}
  <1>1. m.rules \in Seq(ShownRule) /\ ShowsLive(m.rules, m.hash.rules)  BY DEF ListedModel
  <1>2. Len(m.rules) \in Nat /\ DOMAIN m.rules = 1..Len(m.rules)  BY <1>1
  <1>3. S # {}  BY DEF Ids
  <1>4. S \subseteq DOMAIN m.rules  OBVIOUS
  <1>. HIDE DEF S
  <1>5. \E i \in S : \A j \in S : j <= i
    <2>1. Places(S, Len(m.rules))  BY <1>2, <1>4 DEF Places
    <2>. QED  BY <1>2, <1>3, <2>1, GreatestPlace
  <1>6. \E i \in DOMAIN m.rules : m.rules[i].uses = id /\ \A j \in DOMAIN m.rules : m.rules[j].uses = id => j <= i
    BY <1>5 DEF S
  <1>7. PICK i \in DOMAIN m.rules : m.rules[i].uses = id /\ ById(m, id) = m.rules[i]  BY <1>6 DEF ById
  <1>. QED  BY <1>1, <1>7 DEF ShowsLive

LEMMA UntouchedIds ==
  ASSUME NEW d, Listed(d), d.base # <<>>, InOrder(d), NoRuleListed(DiffRules(d.base[1], d))
  PROVE  LET m == d.base[1]
         IN  /\ DOMAIN d.rules = DOMAIN m.rules
             /\ \A i \in DOMAIN d.rules :
                  /\ d.rules[i].serverId = m.rules[i].uses /\ d.rules[i].serverId \in Ids(m)
                  /\ SameRule(ById(m, d.rules[i].serverId), d.rules[i])
  <1>. DEFINE m == d.base[1]
              N == Len(d.rules)
              a == {i \in DOMAIN d.rules : IsAdded(m, d.rules[i])}
              c == {i \in DOMAIN d.rules : IsChanged(m, d.rules[i])}
              ids == ServerIds(d.rules)
              U == UsesOf(m.rules)
              A == SUBSET Selectors
  <1>1. d.rules \in Seq(DraftRule) /\ ListedModel(m) /\ m.rules \in Seq(ShownRule)
    BY DEF Listed, NoneOrListed, ListedModel
  <1>2. N \in Nat /\ DOMAIN d.rules = 1..N  BY <1>1
  <1>3. a = {} /\ c = {}
    <2>1. Sublist(d.rules, a) = <<>> /\ Sublist(d.rules, c) = <<>>  BY DEF NoRuleListed, DiffRules
    <2>2. a \subseteq 1..N /\ c \subseteq 1..N  BY <1>2
    <2>. HIDE DEF a, c, N
    <2>. QED  BY <1>2, <2>1, <2>2, NothingPicked
  <1>4. \A i \in DOMAIN d.rules : d.rules[i].serverId \in Ids(m) /\ SameRule(ById(m, d.rules[i].serverId), d.rules[i])
    <2>1. \A i \in DOMAIN d.rules : ~IsAdded(m, d.rules[i]) /\ ~IsChanged(m, d.rules[i])  BY <1>3
    <2>. QED  BY <2>1 DEF IsAdded, IsChanged
  <1>5. Ids(m) \subseteq {d.rules[i].serverId : i \in DOMAIN d.rules}  BY DEF NoRuleListed, DiffRules
  <1>6. Follows(d.rules, d.base)  BY DEF InOrder
  <1>7. /\ ids \in Seq(A) /\ DOMAIN ids = DOMAIN d.rules /\ DOMAIN ids = 1..Len(ids)
        /\ \A i \in DOMAIN d.rules : ids[i] = d.rules[i].serverId
    BY <1>1, <1>2, ServerIdsAre
  <1>8. /\ U \in Seq(A) /\ DOMAIN U = DOMAIN m.rules /\ DOMAIN U = 1..Len(U)
        /\ \A i \in DOMAIN m.rules : U[i] = m.rules[i].uses /\ m.rules[i].uses \in Element
    <2>1. Len(m.rules) \in Nat /\ DOMAIN m.rules = 1..Len(m.rules)  BY <1>1
    <2>. QED  BY <1>1, <2>1, UsesAre
  <1>9. Ids(m) = {U[i] : i \in DOMAIN U}  BY <1>8 DEF Ids
  <1>. HIDE DEF ids, U, A, m
  <1>10. Among(ids, Element) = ids
    <2>1. \A i \in DOMAIN ids : ids[i] \in Element  BY <1>4, <1>7, <1>8 DEF Ids
    <2>2. {i \in DOMAIN ids : ids[i] \in Element} = 1..Len(ids)  BY <1>7, <2>1
    <2>. QED  BY <1>7, <2>2, WholeList DEF Among
  <1>11. Among(U, Values(ids)) = U
    <2>1. \A i \in DOMAIN U : U[i] \in Values(ids)
      <3>1. \A i \in DOMAIN U : \E j \in DOMAIN d.rules : U[i] = ids[j]  BY <1>5, <1>7, <1>9
      <3>. QED  BY <1>7, <3>1 DEF Values
    <2>2. {i \in DOMAIN U : U[i] \in Values(ids)} = 1..Len(U)  BY <1>8, <2>1
    <2>. QED  BY <1>8, <2>2, WholeList DEF Among
  <1>12. ids = U  BY <1>6, <1>10, <1>11 DEF Follows, ids, U, m
  <1>. QED  BY <1>4, <1>7, <1>8, <1>12 DEF m

LEMMA UntouchedRules ==
  ASSUME NEW d, Listed(d), d.base # <<>>, InOrder(d), NoRuleListed(DiffRules(d.base[1], d))
  PROVE  LiveRules(d.rules) = d.base[1].hash.rules
  <1>. DEFINE m == d.base[1]
              live == m.hash.rules
              on == {i \in DOMAIN d.rules : d.rules[i].enabled}
              shown == {i \in DOMAIN m.rules : m.rules[i].enabled}
  <1>1. d.rules \in Seq(DraftRule) /\ ListedModel(m) /\ ShowsLive(m.rules, live)
    BY DEF Listed, NoneOrListed, ListedModel
  <1>2. /\ DOMAIN d.rules = DOMAIN m.rules
        /\ \A i \in DOMAIN d.rules :
             /\ d.rules[i].serverId = m.rules[i].uses /\ d.rules[i].serverId \in Ids(m)
             /\ SameRule(ById(m, d.rules[i].serverId), d.rules[i])
    BY UntouchedIds
  <1>. HIDE DEF m, live
  <1>3. \A i \in DOMAIN d.rules : d.rules[i].uses = m.rules[i].uses /\ (d.rules[i].enabled <=> m.rules[i].enabled)
    <2>1. SUFFICES ASSUME NEW i \in DOMAIN d.rules
                   PROVE  d.rules[i].uses = m.rules[i].uses /\ (d.rules[i].enabled <=> m.rules[i].enabled)
      OBVIOUS
    <2>. DEFINE id == d.rules[i].serverId
    <2>2. id \in Ids(m) /\ SameRule(ById(m, id), d.rules[i]) /\ id = m.rules[i].uses  BY <1>2
    <2>. HIDE DEF id
    <2>3. ById(m, id).uses = id /\ (ById(m, id).enabled <=> id \in Values(live))  BY <1>1, <2>2, TheRuleById DEF live
    <2>4. m.rules[i].enabled <=> m.rules[i].uses \in Values(live)  BY <1>1, <1>2 DEF ShowsLive
    <2>. QED  BY <2>2, <2>3, <2>4 DEF SameRule
  <1>4. on = shown  BY <1>2, <1>3
  <1>5. on \subseteq DOMAIN d.rules  OBVIOUS
  <1>6. \A n \in 1..Cardinality(on) : NthOf(on, n) \in on
    <2>1. Len(d.rules) \in Nat /\ Places(on, Len(d.rules))  BY <1>1 DEF Places
    <2>. HIDE DEF on
    <2>. QED  BY <2>1, NthPlace
  <1>7. LiveRules(d.rules) = [n \in 1..Cardinality(on) |-> d.rules[NthOf(on, n)].uses]
    BY DEF LiveRules, Sublist
  <1>8. LiveRules(m.rules) = [n \in 1..Cardinality(shown) |-> m.rules[NthOf(shown, n)].uses]
    BY DEF LiveRules, Sublist
  <1>9. LiveRules(m.rules) = live  BY <1>1 DEF ShowsLive
  <1>. HIDE DEF on, shown
  <1>10. \A n \in 1..Cardinality(on) : d.rules[NthOf(on, n)].uses = m.rules[NthOf(on, n)].uses
    BY <1>3, <1>5, <1>6
  <1>. QED  BY <1>4, <1>7, <1>8, <1>9, <1>10 DEF m, live

LEMMA UntouchedElements ==
  ASSUME NEW d, Listed(d), d.base # <<>>, InOrder(d), Touched(DiffExtras(d.base[1].extras, d.extras)) = {}
  PROVE  [i \in DOMAIN d.extras |-> d.extras[i].value] = d.base[1].hash.extras
  <1>. DEFINE base == d.base[1].extras
              N == Len(d.extras)
              M == Len(base)
              f == [i \in 1..N |-> d.extras[i].origin]
  <1>1. d.extras \in Seq(Item) /\ base \in Seq(Element) /\ base = d.base[1].hash.extras
    BY DEF Listed, ListedItems, NoneOrListed, ListedModel
  <1>2. N \in Nat /\ DOMAIN d.extras = 1..N /\ M \in Nat /\ DOMAIN base = 1..M  BY <1>1
  <1>3. /\ \A i \in 1..N : d.extras[i].origin \in 1..M /\ d.extras[i].value = base[d.extras[i].origin]
        /\ \A k \in 1..M : \E i \in 1..N : d.extras[i].origin = k
    <2>1. \A i \in DOMAIN d.extras : ~IsNew(base, d.extras[i]) /\ ~IsEdited(base, d.extras[i])
      BY DEF Touched, DiffExtras
    <2>2. DOMAIN base \subseteq {d.extras[i].origin : i \in DOMAIN d.extras}  BY DEF Touched, DiffExtras
    <2>. HIDE DEF base
    <2>. QED  BY <1>2, <2>1, <2>2 DEF IsNew, IsEdited
  <1>4. Ordered(d.extras)  BY DEF InOrder
  <1>. HIDE DEF base, N, M
  <1>5. \A i, j \in 1..N : i < j => f[i] < f[j]
    <2>1. \A i \in 1..N : d.extras[i].origin # 0  BY <1>2, <1>3
    <2>. QED  BY <1>2, <1>4, <2>1 DEF Ordered
  <1>6. f \in [1..N -> 1..M]  BY <1>3
  <1>10. \A k \in 1..M : \E i \in 1..N : f[i] = k  BY <1>3
  <1>7. \A i \in 1..N : f[i] = d.extras[i].origin  OBVIOUS
  <1>. HIDE DEF f
  <1>8. N = M /\ \A i \in 1..N : f[i] = i
    <2>1. N \in Nat /\ M \in Nat  BY <1>2
    <2>2. CountsUp(f, N, M)  BY <1>5, <1>6, <1>10 DEF CountsUp
    <2>. QED  BY ONLY <2>1, <2>2, CountingUp
  <1>9. \A i \in 1..N : d.extras[i].value = base[i]  BY <1>3, <1>7, <1>8
  <1>11. base = [i \in 1..N |-> base[i]]  BY <1>1, <1>2, <1>8
  <1>. QED  BY <1>1, <1>2, <1>9, <1>11

\* What a save under way carries: nothing but its base, where its summary
\* lists nothing.
ReviewedLists(save) ==
  /\ NoRuleListed(save.summary.rules) => save.body.text.rules = save.body.base.rules
  /\ Touched(save.summary.extras) = {} => save.body.text.extras = save.body.base.extras
SaveInv == saving # <<>> => ReviewedLists(saving[1])

LEMMA SentAsReviewed == ASSUME EditorInv, ListsInv, KeysInv, DoSave PROVE SaveInv'
  <1>. DEFINE m == draft.base[1]
              body == ToSaveBody(draft)
              summary == DiffDraft(m, draft)
              save == [body |-> body, rules |-> draft.rules, summary |-> summary, answer |-> "none", current |-> <<>>]
  <1>1. saving' = <<save>>  BY DEF DoSave
  <1>2. Listed(draft) /\ InOrder(draft) /\ draft.base # <<>>
    BY DEF ListsInv, KeysInv, Keyed, DoSave, EditorInv, NeedsModel
  <1>3. /\ body.base = m.hash /\ body.text.rules = LiveRules(draft.rules)
        /\ body.text.extras = [i \in DOMAIN draft.extras |-> draft.extras[i].value]
    BY DEF ToSaveBody, SavedText
  <1>4. summary.rules = DiffRules(m, draft) /\ summary.extras = DiffExtras(m.extras, draft.extras)  BY DEF DiffDraft
  <1>5. saving'[1] = save /\ save.body = body /\ save.summary = summary  BY <1>1
  <1>6. NoRuleListed(summary.rules) => body.text.rules = body.base.rules  BY <1>2, <1>3, <1>4, UntouchedRules
  <1>7. Touched(summary.extras) = {} => body.text.extras = body.base.extras  BY <1>2, <1>3, <1>4, UntouchedElements
  <1>. HIDE DEF m, body, summary, save
  <1>8. ReviewedLists(save)  BY <1>5, <1>6, <1>7 DEF ReviewedLists
  <1>. QED  BY <1>5, <1>8 DEF SaveInv

LEMMA SaveStep == EditorInv /\ ListsInv /\ KeysInv /\ SaveInv /\ [EditorNext]_editorVars => SaveInv'
  <1>. SUFFICES ASSUME EditorInv, ListsInv, KeysInv, SaveInv, [EditorNext]_editorVars PROVE SaveInv'
    OBVIOUS
  <1>1. CASE UNCHANGED saving  BY <1>1 DEF SaveInv
  <1>2. CASE DoSave  BY <1>2, SentAsReviewed
  <1>3. CASE ServeSave
    <2>1. PICK save : /\ saving = <<save>>
                      /\ save = [body |-> save.body, rules |-> save.rules, summary |-> save.summary,
                                 answer |-> save.answer, current |-> save.current]
      BY <1>3 DEF ServeSave, EditorInv, SavingOK
    <2>2. PICK a, current : Answer(a, current)  BY <1>3 DEF ServeSave
    <2>3. saving' = <<[save EXCEPT !.answer = a, !.current = current]>>  BY <2>1, <2>2 DEF Answer
    <2>4. [save EXCEPT !.answer = a, !.current = current] =
            [body |-> save.body, rules |-> save.rules, summary |-> save.summary, answer |-> a, current |-> current]
      BY <2>1, AnsweredSave
    <2>5. saving'[1].body = save.body /\ saving'[1].summary = save.summary  BY <2>3, <2>4
    <2>6. ReviewedLists(save)  BY <2>1 DEF SaveInv
    <2>. QED  BY <2>5, <2>6 DEF SaveInv, ReviewedLists
  <1>4. CASE SaveAnswered  BY <1>4 DEF SaveAnswered, SaveInv
  <1>5. CASE Tabs
    <2>1. (\E d : Change(d)) \/ Opens
      <3>1. {"groups", "tagOwners", "hosts"} \subseteq Named  BY SectionsAre DEF Named
      <3>2. Edited \/ Opens
        BY <1>5, <3>1, RulesTabSteps, ListSectionSteps, EntryTabSteps, AutoApproversSteps, SectionsAre
           DEF Tabs, PolicySections, GroupsTab, TagOwnersTab, HostsTab
      <3>. QED  BY <3>2 DEF Edited
    <2>2. UNCHANGED saving  BY <2>1 DEF Change, Opens, Open
    <2>. QED  BY <1>1, <2>2
  <1>6. CASE EditorNext /\ ~Tabs /\ ~DoSave /\ ~ServeSave /\ ~SaveAnswered
    <2>1. \/ StartFetch \/ ServeFetch \/ FetchArrives \/ FetchFails \/ CloseDialog \/ Discard \/ OpenSave
          \/ CloseSave \/ ReloadAfterConflict \/ RebaseAfterConflict \/ OtherSave
      BY <1>6 DEF EditorNext, Tabs
    <2>2. UNCHANGED saving
      BY <2>1 DEF StartFetch, ServeFetch, FetchArrives, FetchFails, CloseDialog, Discard, OpenSave, CloseSave,
                  ReloadAfterConflict, RebaseAfterConflict, OtherSave, page
    <2>. QED  BY <1>1, <2>2
  <1>7. CASE UNCHANGED editorVars  BY <1>1, <1>7 DEF editorVars
  <1>. QED  BY <1>2, <1>3, <1>4, <1>5, <1>6, <1>7

\* A save that the server applies changes the policy by exactly what the
\* dialog listed for review, although polls, saves of others and edits went on
\* in between: the summary was taken against the base whose hash the server
\* compares, a draft keeps the order of its base, and the enabled rules of a
\* model are those of its policy (toSaveBody, diffDraft, modelState, SaveModel).
THEOREM ReviewedIsSaved == EditorSpec => SavesWhatWasReviewed
  <1>. DEFINE AsReviewed ==
         LET sum == saving[1].summary
         IN  /\ \A s \in Sections : DiffKeys(text.keyed[s], text'.keyed[s]) = sum.keyed[s]
             /\ sum.exitNode = (text'.exitNode # text.exitNode)
             /\ sum.randomize = (text'.randomize # text.randomize)
             /\ text'.rules # text.rules =>
                  sum.rules.added # <<>> \/ sum.rules.changed # <<>> \/ sum.rules.removed # {}
             /\ text'.extras # text.extras => Touched(sum.extras) # {}
  <1>1. ASSUME EditorInv, SaveInv, [EditorNext]_editorVars, AppliesSave PROVE AsReviewed
    <2>1. text = saving[1].body.base /\ text' = saving[1].body.text /\ Reviewing(saving[1])
      BY <1>1, AppliedSave
    <2>2. ReviewedLists(saving[1])  BY <1>1 DEF SaveInv, AppliesSave
    <2>. QED  BY <2>1, <2>2 DEF Reviewing, ReviewedLists, NoRuleListed
  <1>2. EditorInv /\ ListsInv /\ KeysInv /\ SaveInv /\ [EditorNext]_editorVars => [AppliesSave => AsReviewed]_editorVars
    BY <1>1
  <1>3. EditorInit => SaveInv  BY DEF EditorInit, SaveInv
  <1>4. EditorSpec => [](EditorInv /\ ListsInv /\ KeysInv /\ SaveInv)
    BY <1>3, SaveStep, KeysInvariance, PTL DEF EditorSpec
  <1>5. SavesWhatWasReviewed <=> [][AppliesSave => AsReviewed]_editorVars
    BY PTL DEF SavesWhatWasReviewed, AppliesSave
  <1>. QED  BY <1>2, <1>4, <1>5, PTL DEF EditorSpec
=============================================================================
