------------------------ MODULE SessionHistoryProofs ------------------------
(***************************************************************************)
(* That the history of a session in memory and the one in its rows stay    *)
(* together, for any number of turns, objects, messages, compactions,      *)
(* merges, faults and restarts: the types, the order of the rows, that the *)
(* cached history is the one in the database and message_count its length, *)
(* that no saved message is dropped and that none taken out comes back.    *)
(*                                                                         *)
(* The invariants, each standing on those before it:                       *)
(*   DataTypes, BoundTypes  every variable is in its set;                  *)
(*   OrderInv    all histories - the rows, every Session object, and what  *)
(*               the compact endpoint holds over its await - are in the    *)
(*               order their messages were sent, and not too long;         *)
(*   HeldInv     a turn holds the cached object, unless the model says     *)
(*               that it does not (detached);                              *)
(*   RowIds      no two rows have the same id;                             *)
(*   SyncInv     the cached history is the rows, entry by entry;           *)
(*   NamesInv    an id of the cached history is that of one entry and of   *)
(*               one row at most, and both have the same text - even       *)
(*               after commits that failed;                                *)
(*   KeepInv     what was saved and not taken out is in the rows, in the   *)
(*               cached history, and in what the compact endpoint holds;   *)
(*   RemovedInv  what was taken out is in none of these.                   *)
(*                                                                         *)
(* Nearly every step makes its histories of parts of histories there were; *)
(* Within says so, and Texts, order and length follow.                     *)
(***************************************************************************)
EXTENDS SessionHistory, FiniteSetTheorems, SequenceTheorems, WellFoundedInduction, TLAPS

\* A set of numbers has a least one.
LEMMA Least ==
  ASSUME NEW T \in SUBSET Nat, T # {}
  PROVE  \E x \in T : \A y \in T : x <= y
<1>. DEFINE R == {ss \in Nat \X Nat : ss[1] < ss[2]}
<1>1. IsWellFoundedOn(R, Nat)
  BY NatLessThanWellFounded DEF OpToRel
<1>. HIDE DEF R
<1>2. PICK x \in T : \A y \in T : <<y, x>> \notin R
  BY <1>1, WFMin
<1>3. \A y \in T : ~(y < x)
  BY <1>2 DEF R
<1>. QED  BY <1>3

\* A bounded one has a greatest.
LEMMA Greatest ==
  ASSUME NEW n \in Nat, NEW S \in SUBSET (1..n), S # {}
  PROVE  Max(S) \in S /\ \A y \in S : y <= Max(S)
<1>. DEFINE T == {x \in 0..n : n - x \in S}
<1>1. PICK s \in S : TRUE
  OBVIOUS
<1>2. n - s \in T /\ T \in SUBSET Nat
  BY <1>1
<1>3. PICK x \in T : \A y \in T : x <= y
  BY <1>2, Least
<1>4. n - x \in S /\ x \in Nat
  BY <1>3
<1>5. ASSUME NEW y \in S PROVE n - x >= y
  <2>1. n - y \in T
    BY <1>5
  <2>2. x <= n - y
    BY <1>3, <2>1
  <2>. QED  BY <2>2, <1>4
<1>. QED  BY <1>4, <1>5 DEF Max

LEMMA OfTwo ==
  ASSUME NEW a \in Int, NEW b \in Int
  PROVE  /\ Min({a, b}) = IF a <= b THEN a ELSE b
         /\ Max({a, b}) = IF a >= b THEN a ELSE b
<1>1. Min({a, b}) \in {a, b} /\ Min({a, b}) <= a /\ Min({a, b}) <= b
  <2>1. \E x \in {a, b} : \A y \in {a, b} : x <= y
    OBVIOUS
  <2>. QED  BY <2>1 DEF Min
<1>2. Max({a, b}) \in {a, b} /\ Max({a, b}) >= a /\ Max({a, b}) >= b
  <2>1. \E x \in {a, b} : \A y \in {a, b} : x >= y
    OBVIOUS
  <2>. QED  BY <2>1 DEF Max
<1>. QED  BY <1>1, <1>2

-----------------------------------------------------------------------------
(* The entries at some positions.                                          *)

Below(K, k) == {j \in K : j <= k}

LEMMA Ranks ==
  ASSUME NEW n \in Nat, NEW K \in SUBSET (1..n)
  PROVE  /\ Cardinality(K) \in 0..n
         /\ \A k \in K : Cardinality(Below(K, k)) \in 1..Cardinality(K)
         /\ \A j, k \in K : j < k => Cardinality(Below(K, j)) < Cardinality(Below(K, k))
         /\ \A i \in 1..Cardinality(K) : \E k \in K : Cardinality(Below(K, k)) = i
<1>1. IsFiniteSet(1..n) /\ Cardinality(1..n) = n
  BY FS_Interval
<1>0. \A k \in K : k \in Nat
  OBVIOUS
<1>2. IsFiniteSet(K) /\ Cardinality(K) \in 0..n
  <2>1. IsFiniteSet(K) /\ Cardinality(K) <= n
    BY <1>1, FS_Subset
  <2>. QED  BY <2>1, FS_CardinalityType
<1>3. \A k \in K : IsFiniteSet(Below(K, k)) /\ Cardinality(Below(K, k)) \in Nat
  BY <1>2, FS_Subset, FS_CardinalityType DEF Below
<1>4. ASSUME NEW k \in K PROVE Cardinality(Below(K, k)) \in 1..Cardinality(K)
  <2>1. Cardinality(Below(K, k)) <= Cardinality(K)
    BY <1>2, FS_Subset DEF Below
  <2>2. Below(K, k) # {}
    BY DEF Below
  <2>3. Cardinality(Below(K, k)) # 0
    BY <1>3, <2>2, FS_EmptySet
  <2>. QED  BY <1>2, <1>3, <2>1, <2>3
<1>5. ASSUME NEW j \in K, NEW k \in K, j < k
      PROVE  Cardinality(Below(K, j)) < Cardinality(Below(K, k))
  <2>1. Below(K, j) \in SUBSET Below(K, k)
    <3>. SUFFICES ASSUME NEW x \in Below(K, j) PROVE x \in Below(K, k)
      OBVIOUS
    <3>1. x \in K /\ x <= j
      BY DEF Below
    <3>. QED  BY <3>1, <1>0, <1>5 DEF Below
  <2>2. k \in Below(K, k) /\ k \notin Below(K, j)
    BY <1>0, <1>5 DEF Below
  <2>3. Cardinality(Below(K, j)) <= Cardinality(Below(K, k)) /\ Cardinality(Below(K, j)) # Cardinality(Below(K, k))
    BY <1>3, <2>1, <2>2, FS_Subset
  <2>. QED  BY <1>3, <2>3
<1>6. ASSUME NEW i \in 1..Cardinality(K) PROVE \E k \in K : Cardinality(Below(K, k)) = i
  <2>. DEFINE f == [k \in K |-> Cardinality(Below(K, k))]
  <2>1. f \in [K -> 1..Cardinality(K)]
    BY <1>4
  <2>2. \A j, k \in K : f[j] = f[k] => j = k
    <3>. SUFFICES ASSUME NEW j \in K, NEW k \in K, j # k PROVE f[j] # f[k]
      OBVIOUS
    <3>1. j < k \/ k < j
      OBVIOUS
    <3>. QED  BY <3>1, <1>3, <1>5
  <2>3. f \in Injection(K, 1..Cardinality(K))
    BY <2>1, <2>2, Zenon DEF Injection, IsInjective
  <2>4. IsFiniteSet(1..Cardinality(K)) /\ Cardinality(1..Cardinality(K)) = Cardinality(K)
    BY <1>2, FS_Interval
  <2>5. f \in Surjection(K, 1..Cardinality(K))
    BY <2>3, <2>4, FS_Injection
  <2>6. \E k \in K : f[k] = i
    BY <2>5, <1>6 DEF Surjection
  <2>. QED  BY <2>6
<1>. QED  BY <1>2, <1>4, <1>5, <1>6

LEMMA Positions ==
  ASSUME NEW n \in Nat, NEW K \in SUBSET (1..n)
  PROVE  /\ Cardinality(K) \in 0..n
         /\ \A i \in 1..Cardinality(K) : Position(K, i) \in K
         /\ \A i, j \in 1..Cardinality(K) : i < j => Position(K, i) < Position(K, j)
         /\ \A k \in K : \E i \in 1..Cardinality(K) : Position(K, i) = k
<1>0. (\A k \in K : k \in Nat) /\ Cardinality(K) \in 0..n
  BY Ranks
<1>1. ASSUME NEW i \in 1..Cardinality(K)
      PROVE  Position(K, i) \in K /\ Cardinality(Below(K, Position(K, i))) = i
  <2>1. PICK k \in K : Cardinality(Below(K, k)) = i
    BY Ranks
  <2>. QED  BY <2>1 DEF Position, Below
<1>4. \A k \in K : Cardinality(Below(K, k)) \in 1..Cardinality(K)
  BY Ranks
<1>5. \A j, k \in K : j < k => Cardinality(Below(K, j)) < Cardinality(Below(K, k))
  BY Ranks
<1>2. ASSUME NEW i \in 1..Cardinality(K), NEW j \in 1..Cardinality(K), i < j
      PROVE  Position(K, i) < Position(K, j)
  <2>. DEFINE p == Position(K, i)
            q == Position(K, j)
  <2>1. p \in K /\ q \in K /\ Cardinality(Below(K, p)) = i /\ Cardinality(Below(K, q)) = j
    BY <1>1
  <2>2. q < p => Cardinality(Below(K, q)) < Cardinality(Below(K, p))
    BY <1>5, <2>1
  <2>. HIDE DEF p, q
  <2>3. i \in Int /\ j \in Int /\ i < j /\ p \in Nat /\ q \in Nat
    <3>1. p \in Nat /\ q \in Nat
      BY <1>0, <2>1
    <3>2. i \in Int /\ j \in Int
      BY <1>0
    <3>. QED  BY <1>2, <3>1, <3>2
  <2>4. p # q /\ ~(q < p)
    BY <2>1, <2>2, <2>3
  <2>5. p < q
    BY <2>3, <2>4
  <2>. QED  BY <2>5 DEF p, q
<1>3. ASSUME NEW k \in K PROVE \E i \in 1..Cardinality(K) : Position(K, i) = k
  <2>. DEFINE i == Cardinality(Below(K, k))
            q == Position(K, i)
  <2>1. i \in 1..Cardinality(K)
    BY <1>4
  <2>2. q \in K /\ Cardinality(Below(K, q)) = i /\ Cardinality(Below(K, k)) = i
    BY <1>1, <2>1
  <2>3. /\ q < k => Cardinality(Below(K, q)) < Cardinality(Below(K, k))
        /\ k < q => Cardinality(Below(K, k)) < Cardinality(Below(K, q))
    BY <1>5, <2>2
  <2>. HIDE DEF q, i
  <2>4. i \in Int /\ q \in Nat /\ k \in Nat
    <3>1. q \in Nat /\ k \in Nat
      BY <1>0, <2>2
    <3>2. i \in Int
      BY <1>0, <2>1
    <3>. QED  BY <3>1, <3>2
  <2>5. ~(q < k) /\ ~(k < q)
    BY <2>2, <2>3, <2>4
  <2>6. q = k
    BY <2>4, <2>5
  <2>. QED  BY <2>1, <2>6 DEF q, i
<1>. QED  BY <1>1, <1>2, <1>3, Ranks

-----------------------------------------------------------------------------
(* Subsequences.                                                           *)

\* The entries of u are entries of s, in the same order, whatever their ids.
Within(u, s) ==
  \E g \in [DOMAIN u -> DOMAIN s] :
    /\ \A i, j \in DOMAIN u : i < j => g[i] < g[j]
    /\ \A i \in DOMAIN u : u[i].text = s[g[i]].text /\ u[i].kind = s[g[i]].kind

\* The entries of the kinds K are in the order their messages were sent.
Ordered(s, K) ==
  \A i, j \in DOMAIN s : i < j /\ s[i].kind \in K /\ s[j].kind \in K =>
    \A a \in s[i].text, b \in s[j].text : a < b

LEMMA WithinKeeps ==
  ASSUME NEW u, NEW s, Within(u, s)
  PROVE  /\ Texts(u) \subseteq Texts(s)
         /\ \A K : Ordered(s, K) => Ordered(u, K)
<1>. PICK g \in [DOMAIN u -> DOMAIN s] :
       /\ \A i, j \in DOMAIN u : i < j => g[i] < g[j]
       /\ \A i \in DOMAIN u : u[i].text = s[g[i]].text /\ u[i].kind = s[g[i]].kind
  BY DEF Within
<1>1. Texts(u) \subseteq Texts(s)
  BY DEF Texts
<1>2. ASSUME NEW K, Ordered(s, K) PROVE Ordered(u, K)
  <2>. SUFFICES ASSUME NEW i \in DOMAIN u, NEW j \in DOMAIN u, i < j, u[i].kind \in K, u[j].kind \in K,
                       NEW a \in u[i].text, NEW b \in u[j].text
                PROVE  a < b
    BY DEF Ordered
  <2>1. g[i] \in DOMAIN s /\ g[j] \in DOMAIN s /\ g[i] < g[j]
    OBVIOUS
  <2>2. s[g[i]].kind \in K /\ s[g[j]].kind \in K /\ a \in s[g[i]].text /\ b \in s[g[j]].text
    OBVIOUS
  <2>. QED  BY <1>2, <2>1, <2>2 DEF Ordered
<1>. QED  BY <1>1, <1>2

LEMMA WithinLen ==
  ASSUME NEW S, NEW T, NEW u \in Seq(S), NEW s \in Seq(T), Within(u, s)
  PROVE  Len(u) <= Len(s)
<1>. PICK g \in [DOMAIN u -> DOMAIN s] : \A i, j \in DOMAIN u : i < j => g[i] < g[j]
  BY DEF Within
<1>1. /\ DOMAIN u = 1..Len(u) /\ Len(u) \in Nat
      /\ DOMAIN s = 1..Len(s) /\ Len(s) \in Nat
  OBVIOUS
<1>2. \A i, j \in 1..Len(u) : g[i] = g[j] => i = j
  <2>. SUFFICES ASSUME NEW i \in 1..Len(u), NEW j \in 1..Len(u), i # j PROVE g[i] # g[j]
    OBVIOUS
  <2>1. g[i] \in Nat /\ g[j] \in Nat
    BY <1>1
  <2>2. i < j \/ j < i
    BY <1>1
  <2>. QED  BY <1>1, <2>1, <2>2
<1>3. g \in Injection(1..Len(u), 1..Len(s))
  BY <1>1, <1>2, Zenon DEF Injection, IsInjective
<1>4. \A n \in Nat : IsFiniteSet(1..n) /\ Cardinality(1..n) = n
  BY FS_Interval
<1>5. IsFiniteSet(1..Len(s)) /\ Cardinality(1..Len(s)) = Len(s) /\ Cardinality(1..Len(u)) = Len(u)
  BY <1>1, <1>4
<1>. QED  BY <1>3, <1>5, FS_Injection

LEMMA WithinSelf == ASSUME NEW s PROVE Within(s, s)
<1>. DEFINE g == [i \in DOMAIN s |-> i]
<1>. g \in [DOMAIN s -> DOMAIN s] /\ \A i \in DOMAIN s : g[i] = i
  OBVIOUS
<1>. QED  BY DEF Within

LEMMA WithinEmpty == ASSUME NEW s PROVE Within(<<>>, s)
<1>. DOMAIN <<>> = {}
  OBVIOUS
<1>. DEFINE g == [i \in {} |-> i]
<1>. g \in [{} -> DOMAIN s]
  OBVIOUS
<1>. QED  BY DEF Within

LEMMA WithinWithin ==
  ASSUME NEW u, NEW v, NEW s, Within(u, v), Within(v, s)
  PROVE  Within(u, s)
<1>. PICK f \in [DOMAIN u -> DOMAIN v] :
       /\ \A i, j \in DOMAIN u : i < j => f[i] < f[j]
       /\ \A i \in DOMAIN u : u[i].text = v[f[i]].text /\ u[i].kind = v[f[i]].kind
  BY DEF Within
<1>. PICK g \in [DOMAIN v -> DOMAIN s] :
       /\ \A i, j \in DOMAIN v : i < j => g[i] < g[j]
       /\ \A i \in DOMAIN v : v[i].text = s[g[i]].text /\ v[i].kind = s[g[i]].kind
  BY DEF Within
<1>. DEFINE h == [i \in DOMAIN u |-> g[f[i]]]
<1>1. h \in [DOMAIN u -> DOMAIN s] /\ \A i \in DOMAIN u : h[i] = g[f[i]] /\ f[i] \in DOMAIN v
  OBVIOUS
<1>. HIDE DEF h
<1>2. \A i, j \in DOMAIN u : i < j => h[i] < h[j]
  BY <1>1
<1>3. \A i \in DOMAIN u : u[i].text = s[h[i]].text /\ u[i].kind = s[h[i]].kind
  BY <1>1
<1>. QED  BY <1>1, <1>2, <1>3 DEF Within

\* The same entries but for their ids.
LEMMA WithinSame ==
  ASSUME NEW u, NEW s, DOMAIN u = DOMAIN s,
         \A i \in DOMAIN s : u[i].text = s[i].text /\ u[i].kind = s[i].kind
  PROVE  Within(u, s) /\ Within(s, u)
<1>. DEFINE g == [i \in DOMAIN s |-> i]
<1>. g \in [DOMAIN s -> DOMAIN s] /\ \A i \in DOMAIN s : g[i] = i
  OBVIOUS
<1>. HIDE DEF g
<1>. QED  BY DEF Within

LEMMA ChosenWithin ==
  ASSUME NEW S, NEW s \in Seq(S), NEW K \in SUBSET DOMAIN s
  PROVE  /\ Chosen(s, K) \in Seq(S)
         /\ DOMAIN Chosen(s, K) = 1..Cardinality(K) /\ Len(Chosen(s, K)) = Cardinality(K)
         /\ Cardinality(K) \in 0..Len(s)
         /\ \A i \in 1..Cardinality(K) : Position(K, i) \in K /\ Chosen(s, K)[i] = s[Position(K, i)]
         /\ Within(Chosen(s, K), s)
<1>1. DOMAIN s = 1..Len(s) /\ Len(s) \in Nat
  OBVIOUS
<1>2. /\ Cardinality(K) \in 0..Len(s)
      /\ \A i \in 1..Cardinality(K) : Position(K, i) \in K
      /\ \A i, j \in 1..Cardinality(K) : i < j => Position(K, i) < Position(K, j)
  BY <1>1, Positions
<1>3. Chosen(s, K) = [i \in 1..Cardinality(K) |-> s[Position(K, i)]]
  BY DEF Chosen
<1>4. \A i \in 1..Cardinality(K) : s[Position(K, i)] \in S
  BY <1>1, <1>2
<1>5. Chosen(s, K) \in Seq(S) /\ Len(Chosen(s, K)) = Cardinality(K)
  BY <1>2, <1>3, <1>4
<1>6. Within(Chosen(s, K), s)
  <2>. DEFINE g == [i \in 1..Cardinality(K) |-> Position(K, i)]
  <2>1. g \in [1..Cardinality(K) -> DOMAIN s] /\ \A i \in 1..Cardinality(K) : g[i] = Position(K, i)
    BY <1>2
  <2>2. DOMAIN Chosen(s, K) = 1..Cardinality(K) /\ \A i \in 1..Cardinality(K) : Chosen(s, K)[i] = s[g[i]]
    BY <1>3, <2>1
  <2>. HIDE DEF g
  <2>. QED  BY <1>2, <2>1, <2>2 DEF Within
<1>. QED  BY <1>2, <1>3, <1>5, <1>6

\* Nothing is left out but the entries at other positions.
LEMMA ChosenTexts ==
  ASSUME NEW S, NEW s \in Seq(S), NEW K \in SUBSET DOMAIN s
  PROVE  Texts(Chosen(s, K)) = UNION {s[k].text : k \in K}
<1>1. /\ DOMAIN Chosen(s, K) = 1..Cardinality(K)
      /\ \A i \in 1..Cardinality(K) : Position(K, i) \in K /\ Chosen(s, K)[i] = s[Position(K, i)]
  BY ChosenWithin
<1>2. \A k \in K : \E i \in 1..Cardinality(K) : Position(K, i) = k
  <2>. DOMAIN s = 1..Len(s) /\ Len(s) \in Nat
    OBVIOUS
  <2>. QED  BY Positions
<1>. QED  BY <1>1, <1>2 DEF Texts

LEMMA PartWithin ==
  ASSUME NEW S, NEW s \in Seq(S), NEW a \in Int, NEW b \in Int, 1 <= a, b <= Len(s)
  PROVE  /\ SubSeq(s, a, b) \in Seq(S)
         /\ Len(SubSeq(s, a, b)) = IF a <= b THEN b - a + 1 ELSE 0
         /\ \A i \in 1..Len(SubSeq(s, a, b)) : SubSeq(s, a, b)[i] = s[a + i - 1] /\ a + i - 1 \in DOMAIN s
         /\ Within(SubSeq(s, a, b), s)
<1>. DEFINE u == SubSeq(s, a, b)
<1>0. DOMAIN s = 1..Len(s) /\ Len(s) \in Nat
  OBVIOUS
<1>1. u \in Seq(S) /\ Len(u) = IF a <= b THEN b - a + 1 ELSE 0
  BY <1>0
<1>2. \A i \in 1..Len(u) : u[i] = s[a + i - 1] /\ a + i - 1 \in DOMAIN s
  BY <1>0, <1>1
<1>3. Within(u, s)
  <2>. DEFINE g == [i \in 1..Len(u) |-> a + i - 1]
  <2>1. DOMAIN u = 1..Len(u) /\ Len(u) \in Nat
    BY <1>1
  <2>. HIDE DEF u
  <2>2. g \in [1..Len(u) -> DOMAIN s] /\ \A i \in 1..Len(u) : g[i] = a + i - 1
    BY <1>2
  <2>3. \A i, j \in 1..Len(u) : i < j => g[i] < g[j]
    BY <2>1, <2>2
  <2>. HIDE DEF g
  <2>. QED  BY <1>2, <2>1, <2>2, <2>3 DEF Within
<1>. QED  BY <1>1, <1>2, <1>3

LEMMA FirstWithin ==
  ASSUME NEW S, NEW s \in Seq(S), NEW n \in Nat
  PROVE  /\ First(s, n) \in Seq(S)
         /\ Len(First(s, n)) = IF n <= Len(s) THEN n ELSE Len(s)
         /\ \A i \in 1..Len(First(s, n)) : First(s, n)[i] = s[i] /\ i \in DOMAIN s
         /\ Within(First(s, n), s)
<1>1. Len(s) \in Nat
  OBVIOUS
<1>2. Min({n, Len(s)}) = IF n <= Len(s) THEN n ELSE Len(s)
  BY <1>1, OfTwo
<1>3. /\ Min({n, Len(s)}) \in Nat /\ Min({n, Len(s)}) <= Len(s)
  BY <1>1, <1>2
<1>. DEFINE b == Min({n, Len(s)})
<1>4. First(s, n) = SubSeq(s, 1, b)
  BY DEF First
<1>. HIDE DEF b
<1>5. b \in Nat /\ b <= Len(s)
  BY <1>3 DEF b
<1>6. /\ SubSeq(s, 1, b) \in Seq(S)
      /\ Len(SubSeq(s, 1, b)) = IF 1 <= b THEN b - 1 + 1 ELSE 0
      /\ \A i \in 1..Len(SubSeq(s, 1, b)) : SubSeq(s, 1, b)[i] = s[1 + i - 1] /\ 1 + i - 1 \in DOMAIN s
      /\ Within(SubSeq(s, 1, b), s)
  BY <1>5, PartWithin
<1>7. Len(SubSeq(s, 1, b)) = b
  BY <1>5, <1>6
<1>8. \A i \in 1..b : 1 + i - 1 = i
  BY <1>5
<1>. QED  BY <1>2, <1>4, <1>6, <1>7, <1>8 DEF b

LEMMA AfterWithin ==
  ASSUME NEW S, NEW s \in Seq(S), NEW n \in Nat
  PROVE  /\ After(s, n) \in Seq(S)
         /\ Len(After(s, n)) = IF n <= Len(s) THEN Len(s) - n ELSE 0
         /\ \A i \in 1..Len(After(s, n)) : After(s, n)[i] = s[n + i] /\ n + i \in DOMAIN s
         /\ Within(After(s, n), s)
<1>1. Len(s) \in Nat /\ n + 1 \in Int /\ 1 <= n + 1
  OBVIOUS
<1>2. After(s, n) = SubSeq(s, n + 1, Len(s))
  BY DEF After
<1>. DEFINE u == SubSeq(s, n + 1, Len(s))
<1>3. /\ u \in Seq(S)
      /\ Len(u) = IF n + 1 <= Len(s) THEN Len(s) - (n + 1) + 1 ELSE 0
      /\ \A i \in 1..Len(u) : u[i] = s[(n + 1) + i - 1] /\ (n + 1) + i - 1 \in DOMAIN s
      /\ Within(u, s)
  BY <1>1, PartWithin
<1>. HIDE DEF u
<1>4. \A i \in 1..Len(u) : (n + 1) + i - 1 = n + i
  BY <1>1, <1>3
<1>5. Len(u) = IF n <= Len(s) THEN Len(s) - n ELSE 0
  BY <1>1, <1>3
<1>. QED  BY <1>2, <1>3, <1>4, <1>5 DEF u

LEMMA FirstAndAfter ==
  ASSUME NEW S, NEW s \in Seq(S), NEW n \in Nat
  PROVE  Texts(s) \subseteq Texts(First(s, n)) \cup Texts(After(s, n))
<1>. SUFFICES ASSUME NEW k \in DOMAIN s
              PROVE  s[k].text \subseteq Texts(First(s, n)) \cup Texts(After(s, n))
  BY DEF Texts
<1>1. k \in 1..Len(s) /\ Len(s) \in Nat
  OBVIOUS
<1>2. CASE k <= n
  <2>1. /\ First(s, n) \in Seq(S) /\ k \in 1..Len(First(s, n))
        /\ First(s, n)[k] = s[k]
    BY <1>1, <1>2, FirstWithin
  <2>2. k \in DOMAIN First(s, n)
    BY <2>1
  <2>. QED  BY <2>1, <2>2 DEF Texts
<1>3. CASE k > n
  <2>1. /\ After(s, n) \in Seq(S) /\ k - n \in 1..Len(After(s, n))
        /\ After(s, n)[k - n] = s[n + (k - n)]
    BY <1>1, <1>3, AfterWithin
  <2>2. k - n \in DOMAIN After(s, n) /\ n + (k - n) = k
    BY <1>1, <2>1
  <2>. QED  BY <2>1, <2>2 DEF Texts
<1>. QED  BY <1>1, <1>2, <1>3

LEMMA RemoveWithin ==
  ASSUME NEW S, NEW s \in Seq(S), NEW k \in DOMAIN s
  PROVE  /\ RemoveAt(s, k) \in Seq(S)
         /\ Len(RemoveAt(s, k)) = Len(s) - 1
         /\ \A i \in 1..Len(s) - 1 : RemoveAt(s, k)[i] = IF i < k THEN s[i] ELSE s[i + 1]
<1>. DEFINE a == SubSeq(s, 1, k - 1)
            b == SubSeq(s, k + 1, Len(s))
<1>1. k \in 1..Len(s) /\ Len(s) \in Nat
  OBVIOUS
<1>2. a \in Seq(S) /\ b \in Seq(S)
  BY <1>1, PartWithin
<1>3. Len(a) = k - 1 /\ \A i \in 1..k - 1 : a[i] = s[i]
  BY <1>1
<1>4. Len(b) = Len(s) - k /\ \A i \in 1..Len(s) - k : b[i] = s[k + i]
  BY <1>1
<1>5. RemoveAt(s, k) = a \o b
  BY DEF RemoveAt
<1>. HIDE DEF a, b
<1>6. /\ a \o b \in Seq(S) /\ Len(a \o b) = Len(a) + Len(b)
      /\ \A i \in 1..Len(a) + Len(b) : (a \o b)[i] = IF i <= Len(a) THEN a[i] ELSE b[i - Len(a)]
  BY <1>2, ConcatProperties
<1>7. Len(a) + Len(b) = Len(s) - 1
  BY <1>1, <1>3, <1>4
<1>8. \A i \in 1..Len(s) - 1 : i < k => (a \o b)[i] = s[i]
  BY <1>1, <1>3, <1>6, <1>7
<1>9. ASSUME NEW i \in 1..Len(s) - 1, ~(i < k) PROVE (a \o b)[i] = s[i + 1]
  <2>1. (a \o b)[i] = b[i - (k - 1)]
    <3>1. i \in 1..Len(a) + Len(b) /\ ~(i <= Len(a)) /\ Len(a) = k - 1
      BY <1>1, <1>3, <1>7, <1>9
    <3>. QED  BY ONLY <1>6, <3>1
  <2>2. i - (k - 1) \in 1..Len(s) - k /\ k + (i - (k - 1)) = i + 1
    BY <1>1, <1>9
  <2>3. b[i - (k - 1)] = s[k + (i - (k - 1))]
    BY <1>4, <2>2
  <2>. QED  BY <2>1, <2>2, <2>3
<1>. QED  BY <1>5, <1>6, <1>7, <1>8, <1>9

LEMMA AppendFacts ==
  ASSUME NEW S, NEW s \in Seq(S), NEW e \in S
  PROVE  /\ Append(s, e) \in Seq(S) /\ Len(Append(s, e)) = Len(s) + 1
         /\ DOMAIN Append(s, e) = 1..Len(s) + 1
         /\ \A i \in DOMAIN s : Append(s, e)[i] = s[i]
         /\ Append(s, e)[Len(s) + 1] = e
         /\ Texts(Append(s, e)) = Texts(s) \cup e.text
<1>1. /\ Append(s, e) \in Seq(S) /\ Len(Append(s, e)) = Len(s) + 1
      /\ DOMAIN s = 1..Len(s) /\ Len(s) \in Nat
      /\ DOMAIN Append(s, e) = 1..Len(s) + 1
  OBVIOUS
<1>2. \A i \in DOMAIN s : Append(s, e)[i] = s[i]
  BY <1>1
<1>3. Append(s, e)[Len(s) + 1] = e
  BY <1>1
<1>4. \A i \in 1..Len(s) + 1 : i \in DOMAIN s \/ i = Len(s) + 1
  BY <1>1
<1>5. (\A i \in DOMAIN s : i \in 1..Len(s) + 1) /\ Len(s) + 1 \in 1..Len(s) + 1
  BY <1>1
<1>. DEFINE u == Append(s, e)
            n == Len(s) + 1
<1>. HIDE DEF u, n
<1>6. Texts(u) = Texts(s) \cup e.text
  <2>1. /\ DOMAIN u = 1..n /\ (\A i \in DOMAIN s : u[i] = s[i]) /\ u[n] = e
        /\ (\A i \in 1..n : i \in DOMAIN s \/ i = n) /\ (\A i \in DOMAIN s : i \in 1..n) /\ n \in 1..n
    BY <1>1, <1>2, <1>3, <1>4, <1>5 DEF u, n
  <2>2. Texts(u) \subseteq Texts(s) \cup e.text
    BY <2>1 DEF Texts
  <2>3. Texts(s) \cup e.text \subseteq Texts(u)
    <3>1. Texts(s) \subseteq Texts(u)
      BY <2>1 DEF Texts
    <3>2. e.text \subseteq Texts(u)
      BY <2>1 DEF Texts
    <3>. QED  BY <3>1, <3>2
  <2>. QED  BY <2>2, <2>3
<1>. QED  BY <1>1, <1>2, <1>3, <1>6 DEF u

-----------------------------------------------------------------------------
(* Types.                                                                  *)

\* Ids up to l, and messages up to n.
Entries(l, n) == [id : -l..l, text : SUBSET (1..n), kind : Kind]
RowsOf(l, n) == [id : 1..l, text : SUBSET (1..n), kind : Kind, stamped : BOOLEAN]
Mems(l, n) == [cache : Obj \cup {NoObj}, hist : [Obj -> Seq(Entries(l, n))], known : [Obj -> Nat]]
TurnSet(n) == [pc   : {"idle", "open", "compact", "run"},
               sess : Obj \cup {NoObj},
               cut  : [sys : Nat, split : Nat, older : SUBSET (1..n)]]
CompSet(l, n) == [pc : {"idle", "await"}, recent : Seq(Entries(l, n)), older : SUBSET (1..n)]

Compacting(tt) == {t \in Turn : tt[t].pc = "compact"}
Holding(tt) == \A t \in Turn : tt[t].pc # "idle" => tt[t].sess \in Obj

DataTypes ==
  /\ session \in {"stored", "deleting", "deleted"}
  /\ rows \in Seq(RowsOf(lastId, sent)) /\ count \in Nat
  /\ mem \in Mems(lastId, sent)
  /\ turn \in [Turn -> TurnSet(sent)] /\ Holding(turn)
  /\ comp \in CompSet(lastId, sent)
  /\ lastId \in Nat /\ sent \in 0..MaxMsgs
  /\ saved \subseteq 1..sent /\ removed \subseteq 1..sent /\ behind \subseteq 1..sent
  /\ missed \in BOOLEAN /\ detached \in BOOLEAN

BoundTypes ==
  /\ autos \in Nat /\ autos + Cardinality(Compacting(turn)) <= MaxAutos
  /\ merges \in 0..MaxMerges /\ faults \in 0..MaxFaults /\ restarts \in 0..MaxRestarts

\* Texts and ids stay known.
LEMMA Wider ==
  ASSUME NEW l \in Nat, NEW k \in Nat, NEW n \in Nat, NEW q \in Nat, l <= k, n <= q
  PROVE  /\ SUBSET (1..n) \subseteq SUBSET (1..q)
         /\ Seq(Entries(l, n)) \subseteq Seq(Entries(k, q))
         /\ Seq(RowsOf(l, n)) \subseteq Seq(RowsOf(k, q))
         /\ Mems(l, n) \subseteq Mems(k, q)
         /\ [Turn -> TurnSet(n)] \subseteq [Turn -> TurnSet(q)]
         /\ CompSet(l, n) \subseteq CompSet(k, q)
<1>1. \A x \in SUBSET (1..n) : x \in SUBSET (1..q)
  OBVIOUS
<1>2. -l..l \subseteq -k..k /\ 1..l \subseteq 1..k
  OBVIOUS
<1>3. Entries(l, n) \subseteq Entries(k, q)
  BY <1>1, <1>2 DEF Entries
<1>4. RowsOf(l, n) \subseteq RowsOf(k, q)
  BY <1>1, <1>2 DEF RowsOf
<1>5. /\ \A s \in Seq(Entries(l, n)) : s \in Seq(Entries(k, q))
      /\ \A s \in Seq(RowsOf(l, n)) : s \in Seq(RowsOf(k, q))
  BY <1>3, <1>4, SeqMonotonic
<1>6. Mems(l, n) \subseteq Mems(k, q)
  <2>1. [Obj -> Seq(Entries(l, n))] \subseteq [Obj -> Seq(Entries(k, q))]
    BY <1>5
  <2>. QED  BY <2>1 DEF Mems
<1>7. TurnSet(n) \subseteq TurnSet(q)
  BY <1>1 DEF TurnSet
<1>8. CompSet(l, n) \subseteq CompSet(k, q)
  BY <1>1, <1>5 DEF CompSet
<1>. QED  BY <1>1, <1>5, <1>6, <1>7, <1>8

\* Become() changes nothing of the objects that somebody holds.
LEMMA BecomeFacts ==
  ASSUME NEW l \in Nat, NEW n \in Nat, NEW m \in Mems(l, n), NEW tt \in [Turn -> TurnSet(n)],
         Become(m, tt), detached \in BOOLEAN
  PROVE  /\ mem' \in Mems(l, n) /\ turn' = tt /\ detached' \in BOOLEAN
         /\ mem'.cache = m.cache
         /\ \A o \in Obj : o = m.cache \/ (\E t \in Turn : tt[t].sess = o) =>
              mem'.hist[o] = m.hist[o] /\ mem'.known[o] = m.known[o]
         /\ \A o \in Obj : mem'.hist[o] \in {m.hist[o], <<>>}
         /\ detached => detached'
         /\ ~detached' => \A t \in Turn : tt[t].pc # "idle" => tt[t].sess = m.cache
<1>. DEFINE held == {m.cache} \cup {tt[t].sess : t \in Turn}
<1>1. /\ mem' = [cache |-> m.cache,
                 hist  |-> [o \in Obj |-> IF o \in held THEN m.hist[o] ELSE <<>>],
                 known |-> [o \in Obj |-> IF o \in held THEN m.known[o] ELSE 0]]
      /\ turn' = tt
      /\ detached' = (detached \/ \E t \in Turn : tt[t].pc # "idle" /\ tt[t].sess # m.cache)
  BY DEF Become
<1>2. /\ m.cache \in Obj \cup {NoObj} /\ m.hist \in [Obj -> Seq(Entries(l, n))] /\ m.known \in [Obj -> Nat]
  BY DEF Mems
<1>3. <<>> \in Seq(Entries(l, n))
  OBVIOUS
<1>. HIDE DEF held
<1>4. /\ [o \in Obj |-> IF o \in held THEN m.hist[o] ELSE <<>>] \in [Obj -> Seq(Entries(l, n))]
      /\ [o \in Obj |-> IF o \in held THEN m.known[o] ELSE 0] \in [Obj -> Nat]
  BY <1>2, <1>3
<1>5. mem' \in Mems(l, n)
  BY <1>1, <1>2, <1>4 DEF Mems
<1>6. detached' \in BOOLEAN
  BY <1>1
<1>7. \A o \in Obj : o = m.cache \/ (\E t \in Turn : tt[t].sess = o) => o \in held
  BY DEF held
<1>8. \A o \in Obj : /\ mem'.hist[o] = IF o \in held THEN m.hist[o] ELSE <<>>
                     /\ mem'.known[o] = IF o \in held THEN m.known[o] ELSE 0
  BY <1>1
<1>9. mem'.cache = m.cache
  BY <1>1
<1>. QED  BY <1>1, <1>5, <1>6, <1>7, <1>8, <1>9

LEMMA MemExcept ==
  ASSUME NEW l \in Nat, NEW n \in Nat, NEW m \in Mems(l, n), NEW o \in Obj,
         NEW h \in Seq(Entries(l, n)), NEW k \in Nat
  PROVE  /\ [m EXCEPT !.hist[o] = h, !.known[o] = k] \in Mems(l, n)
         /\ [m EXCEPT !.hist[o] = h] \in Mems(l, n)
         /\ [m EXCEPT !.known[o] = k] \in Mems(l, n)
         /\ [m EXCEPT !.hist[o] = h, !.known[o] = k].cache = m.cache
         /\ [m EXCEPT !.hist[o] = h, !.known[o] = k].hist = [m.hist EXCEPT ![o] = h]
         /\ [m EXCEPT !.hist[o] = h, !.known[o] = k].known = [m.known EXCEPT ![o] = k]
         /\ [m EXCEPT !.hist[o] = h].cache = m.cache
         /\ [m EXCEPT !.hist[o] = h].hist = [m.hist EXCEPT ![o] = h]
         /\ [m EXCEPT !.hist[o] = h].known = m.known
         /\ [m EXCEPT !.known[o] = k].cache = m.cache
         /\ [m EXCEPT !.known[o] = k].hist = m.hist
         /\ [m EXCEPT !.known[o] = k].known = [m.known EXCEPT ![o] = k]
BY DEF Mems

LEMMA NewIsFree ==
  ASSUME DataTypes
  PROVE  New \in Obj /\ New # mem.cache /\ \A t \in Turn : turn[t].sess # New
<1>. DEFINE H == {turn[t].sess : t \in Turn}
<1>1. IsFiniteSet(H) /\ Cardinality(H) <= Cardinality(Turn)
  <2>. DEFINE f == [t \in Turn |-> turn[t].sess]
  <2>1. f \in Surjection(Turn, H)
    BY DEF Surjection
  <2>. QED  BY <2>1, FS_Surjection, ObjAssumption
<1>. HIDE DEF H
<1>2. /\ IsFiniteSet(H \cup {mem.cache})
      /\ Cardinality(H \cup {mem.cache}) = IF mem.cache \in H THEN Cardinality(H) ELSE Cardinality(H) + 1
  BY <1>1, FS_AddElement
<1>3. Cardinality(Turn) \in Nat /\ Cardinality(H) \in Nat /\ Cardinality(Obj) \in Nat
  BY <1>1, ObjAssumption, FS_CardinalityType
<1>4. Cardinality(H \cup {mem.cache}) < Cardinality(Obj)
  BY <1>1, <1>2, <1>3, ObjAssumption
<1>5. ~(Obj \subseteq H \cup {mem.cache})
  <2>. SUFFICES ASSUME Obj \in SUBSET (H \cup {mem.cache}) PROVE FALSE
    OBVIOUS
  <2>1. Cardinality(Obj) <= Cardinality(H \cup {mem.cache})
    BY <1>2, FS_Subset
  <2>. QED  BY <1>2, <1>3, <1>4, <2>1
<1>6. \E o \in Obj : o # mem.cache /\ \A t \in Turn : turn[t].sess # o
  BY <1>5 DEF H
<1>. QED  BY <1>6 DEF New

LEMMA LoadedFacts ==
  ASSUME NEW l \in Nat, NEW n \in Nat, NEW s \in Seq(RowsOf(l, n))
  PROVE  /\ Loaded(s) \in Seq(Entries(l, n)) /\ Len(Loaded(s)) = Len(s) /\ DOMAIN Loaded(s) = DOMAIN s
         /\ \A i \in DOMAIN s : Loaded(s)[i].id = s[i].id /\ Loaded(s)[i].text = s[i].text
                                /\ Loaded(s)[i].kind = s[i].kind
         /\ Within(Loaded(s), s) /\ Within(s, Loaded(s))
<1>1. DOMAIN s = 1..Len(s) /\ Len(s) \in Nat
  OBVIOUS
<1>2. ASSUME NEW i \in DOMAIN s
      PROVE  [id |-> s[i].id, text |-> s[i].text, kind |-> s[i].kind] \in Entries(l, n)
  <2>1. s[i] \in RowsOf(l, n)
    BY <1>1
  <2>. QED  BY <2>1 DEF Entries, RowsOf
<1>3. /\ Loaded(s) = [i \in DOMAIN s |-> [id |-> s[i].id, text |-> s[i].text, kind |-> s[i].kind]]
  BY DEF Loaded
<1>4. Loaded(s) \in Seq(Entries(l, n)) /\ Len(Loaded(s)) = Len(s)
  BY <1>1, <1>2, <1>3
<1>5. DOMAIN Loaded(s) = DOMAIN s /\ \A i \in DOMAIN s : /\ Loaded(s)[i].id = s[i].id
                                                        /\ Loaded(s)[i].text = s[i].text
                                                        /\ Loaded(s)[i].kind = s[i].kind
  BY <1>3
<1>. QED  BY <1>4, <1>5, WithinSame

LEMMA GotFacts ==
  ASSUME DataTypes, NEW o \in Obj, Found
  PROVE  /\ Got(o) \in Mems(lastId, sent) /\ Got(o).cache \in Obj
         /\ Hydrates(mem) => /\ Stored /\ Got(o).cache = o
                             /\ Got(o).hist = [mem.hist EXCEPT ![o] = Loaded(rows)]
         /\ ~Hydrates(mem) => /\ mem.cache \in Obj /\ Got(o).cache = mem.cache /\ Got(o).hist = mem.hist
         /\ Shown(Got(o)) = Got(o).hist[Got(o).cache]
         /\ Shown(Got(o)) = IF Hydrates(mem) THEN Loaded(rows) ELSE mem.hist[mem.cache]
         /\ Shown(Got(o)) \in Seq(Entries(lastId, sent))
<1>. DEFINE m == IF Hydrates(mem)
                 THEN [mem EXCEPT !.cache = o, !.hist[o] = Loaded(rows), !.known[o] = count]
                 ELSE mem
<1>1. Got(o) = IF Stored THEN [m EXCEPT !.known[m.cache] = count] ELSE m
  BY DEF Got
<1>2. /\ mem \in Mems(lastId, sent) /\ lastId \in Nat /\ sent \in Nat /\ count \in Nat
      /\ Loaded(rows) \in Seq(Entries(lastId, sent))
  BY LoadedFacts DEF DataTypes
<1>3. /\ m \in Mems(lastId, sent)
      /\ Hydrates(mem) => m.cache = o /\ m.hist = [mem.hist EXCEPT ![o] = Loaded(rows)]
      /\ ~Hydrates(mem) => m = mem
  BY <1>2 DEF Mems
<1>4. ~Hydrates(mem) => mem.cache \in Obj
  BY <1>2 DEF Hydrates, Mems
<1>5. m.cache \in Obj
  BY <1>3, <1>4
<1>. HIDE DEF m
<1>6. /\ [m EXCEPT !.known[m.cache] = count] \in Mems(lastId, sent)
      /\ [m EXCEPT !.known[m.cache] = count].cache = m.cache
      /\ [m EXCEPT !.known[m.cache] = count].hist = m.hist
  BY <1>2, <1>3, <1>5 DEF Mems
<1>7. Got(o) \in Mems(lastId, sent) /\ Got(o).cache = m.cache /\ Got(o).hist = m.hist
  BY <1>1, <1>3, <1>6
<1>8. Hydrates(mem) => Stored
  BY DEF Found
<1>9. m.hist \in [Obj -> Seq(Entries(lastId, sent))] /\ mem.hist \in [Obj -> Seq(Entries(lastId, sent))]
  BY <1>2, <1>3 DEF Mems
<1>10. NoObj \notin Obj
  BY ObjAssumption
<1>11. Shown(Got(o)) = Got(o).hist[Got(o).cache]
  BY <1>5, <1>7, <1>10 DEF Shown
<1>12. m.hist[m.cache] = IF Hydrates(mem) THEN Loaded(rows) ELSE mem.hist[mem.cache]
  BY <1>3, <1>9
<1>. QED  BY <1>3, <1>4, <1>5, <1>7, <1>8, <1>9, <1>11, <1>12

-----------------------------------------------------------------------------
(* Every action keeps the types.                                           *)

\* The message sent next, on the object o.
Plus(m, o, id, kind) ==
  [m EXCEPT !.hist[o] = Append(@, [[id |-> 0, text |-> {sent + 1}, kind |-> kind] EXCEPT !.id = id]),
            !.known[o] = Len(m.hist[o]) + 1]
Newest(id, kind) == [id |-> id, text |-> {sent + 1}, kind |-> kind]
Longer(m, o, e) == [m.hist EXCEPT ![o] = Append(m.hist[o], e)]
NewestRow(kind) == [id |-> lastId + 1, text |-> {sent + 1}, kind |-> kind, stamped |-> FALSE]

AddCommits(m, o, kind, tt) ==
  /\ Stored /\ faults' = faults
  /\ Become(Plus(m, o, lastId + 1, kind), tt)
  /\ rows' = Append(rows, NewestRow(kind))
  /\ count' = Len(Shown(mem')) /\ lastId' = lastId + 1 /\ saved' = saved \cup {sent + 1}
  /\ Behind({sent + 1})
AddRollsBack(m, o, kind, tt) ==
  /\ Stored /\ Fault
  /\ Become(Plus(m, o, 0, kind), tt)
  /\ UNCHANGED <<rows, count, lastId, saved, behind>>
AddDrops(m, o, kind, tt) ==
  /\ ~Stored
  /\ Become([Plus(m, o, 0, kind) EXCEPT !.cache = NoObj], tt)
  /\ UNCHANGED <<rows, count, lastId, saved, behind, faults>>

LEMMA AddCases ==
  ASSUME NEW m, NEW o, NEW kind, NEW tt, AddMessage(m, o, kind, tt)
  PROVE  /\ Unlocked /\ sent < MaxMsgs /\ sent' = sent + 1
         /\ AddCommits(m, o, kind, tt) \/ AddRollsBack(m, o, kind, tt) \/ AddDrops(m, o, kind, tt)
         /\ UNCHANGED <<session, comp, autos, merges, restarts, removed, missed>>
BY DEF AddMessage, AddCommits, AddRollsBack, AddDrops, Plus, NewestRow

PlusOk(m, o, id, kind, l) ==
  /\ Plus(m, o, id, kind) \in Mems(l, sent + 1)
  /\ Plus(m, o, id, kind).cache = m.cache
  /\ Plus(m, o, id, kind).hist = Longer(m, o, Newest(id, kind))
  /\ Plus(m, o, id, kind).known = [m.known EXCEPT ![o] = Len(m.hist[o]) + 1]
  /\ [Plus(m, o, id, kind) EXCEPT !.cache = NoObj] \in Mems(l, sent + 1)
  /\ [Plus(m, o, id, kind) EXCEPT !.cache = NoObj].cache = NoObj
  /\ [Plus(m, o, id, kind) EXCEPT !.cache = NoObj].hist = Plus(m, o, id, kind).hist
  /\ [Plus(m, o, id, kind) EXCEPT !.cache = NoObj].known = Plus(m, o, id, kind).known

LEMMA PlusFacts ==
  ASSUME DataTypes, NEW m \in Mems(lastId, sent), NEW o \in Obj, NEW kind \in Kind,
         NEW id \in {0, lastId + 1}, NEW l \in {lastId, lastId + 1}, id <= l
  PROVE  PlusOk(m, o, id, kind, l)
<1>. DEFINE e == [id |-> id, text |-> {sent + 1}, kind |-> kind]
<1>1. /\ lastId \in Nat /\ sent \in Nat /\ l \in Nat /\ lastId <= l /\ sent <= sent + 1
  BY DEF DataTypes
<1>2. m \in Mems(l, sent + 1)
  BY <1>1, Wider
<1>3. e \in Entries(l, sent + 1)
  BY <1>1 DEF Entries
<1>4. m.hist \in [Obj -> Seq(Entries(l, sent + 1))] /\ m.known \in [Obj -> Nat]
  BY <1>2 DEF Mems
<1>5. /\ Append(m.hist[o], e) \in Seq(Entries(l, sent + 1)) /\ Len(m.hist[o]) + 1 \in Nat
  BY <1>3, <1>4
<1>6. Plus(m, o, id, kind) = [m EXCEPT !.hist[o] = Append(m.hist[o], e), !.known[o] = Len(m.hist[o]) + 1]
  <2>1. [[id |-> 0, text |-> {sent + 1}, kind |-> kind] EXCEPT !.id = id] = e
    OBVIOUS
  <2>. HIDE DEF e
  <2>2. Plus(m, o, id, kind) = [m EXCEPT !.hist[o] = Append(@, e), !.known[o] = Len(m.hist[o]) + 1]
    BY <2>1 DEF Plus
  <2>. QED  BY <1>2, <1>4, <2>2 DEF Mems
<1>. HIDE DEF e
<1>7. /\ Plus(m, o, id, kind) \in Mems(l, sent + 1)
      /\ Plus(m, o, id, kind).cache = m.cache
      /\ Plus(m, o, id, kind).hist = [m.hist EXCEPT ![o] = Append(m.hist[o], e)]
      /\ Plus(m, o, id, kind).known = [m.known EXCEPT ![o] = Len(m.hist[o]) + 1]
  <2>. DEFINE h == Append(m.hist[o], e)
            k == Len(m.hist[o]) + 1
  <2>1. h \in Seq(Entries(l, sent + 1)) /\ k \in Nat /\ l \in Nat /\ sent + 1 \in Nat
        /\ Plus(m, o, id, kind) = [m EXCEPT !.hist[o] = h, !.known[o] = k]
    BY <1>1, <1>5, <1>6
  <2>. HIDE DEF h, k
  <2>2. /\ [m EXCEPT !.hist[o] = h, !.known[o] = k] \in Mems(l, sent + 1)
        /\ [m EXCEPT !.hist[o] = h, !.known[o] = k].cache = m.cache
        /\ [m EXCEPT !.hist[o] = h, !.known[o] = k].hist = [m.hist EXCEPT ![o] = h]
        /\ [m EXCEPT !.hist[o] = h, !.known[o] = k].known = [m.known EXCEPT ![o] = k]
    BY <1>2, <2>1 DEF Mems
  <2>. QED  BY <2>1, <2>2 DEF h, k
<1>. DEFINE p == Plus(m, o, id, kind)
<1>. HIDE DEF p
<1>8. p \in Mems(l, sent + 1)
  BY <1>7 DEF p
<1>9. /\ [p EXCEPT !.cache = NoObj] \in Mems(l, sent + 1)
      /\ [p EXCEPT !.cache = NoObj].cache = NoObj
      /\ [p EXCEPT !.cache = NoObj].hist = p.hist /\ [p EXCEPT !.cache = NoObj].known = p.known
  BY <1>8 DEF Mems
<1>. QED  BY <1>7, <1>9 DEF p, e, Longer, Newest, PlusOk

LEMMA ShownType ==
  ASSUME NEW l, NEW n, NEW m \in Mems(l, n)
  PROVE  Shown(m) \in Seq(Entries(l, n))
<1>1. <<>> \in Seq(Entries(l, n))
  OBVIOUS
<1>2. m.cache \in Obj \cup {NoObj} /\ m.hist \in [Obj -> Seq(Entries(l, n))]
  BY DEF Mems
<1>. QED  BY <1>1, <1>2 DEF Shown

LEMMA AddType ==
  ASSUME DataTypes, NEW m \in Mems(lastId, sent), NEW o \in Obj, NEW kind \in Kind,
         NEW tt \in [Turn -> TurnSet(sent + 1)], Holding(tt), AddMessage(m, o, kind, tt)
  PROVE  DataTypes'
<1>1. /\ lastId \in Nat /\ sent \in Nat /\ sent < MaxMsgs /\ sent' = sent + 1 /\ MaxMsgs \in Nat
      /\ detached \in BOOLEAN
      /\ UNCHANGED <<session, comp, autos, merges, restarts, removed, missed>>
  BY AddCases, LimitAssumption DEF DataTypes
<1>2. /\ saved \subseteq 1..sent + 1 /\ removed \subseteq 1..sent + 1 /\ behind \subseteq 1..sent + 1
      /\ {sent + 1} \subseteq 1..sent + 1
  BY <1>1 DEF DataTypes
<1>3. CASE AddCommits(m, o, kind, tt)
  <2>. DEFINE p == Plus(m, o, lastId + 1, kind)
  <2>1. p \in Mems(lastId + 1, sent + 1)
    <3>1. lastId + 1 \in {0, lastId + 1} /\ lastId + 1 \in {lastId, lastId + 1} /\ lastId + 1 <= lastId + 1
      BY <1>1
    <3>2. PlusOk(m, o, lastId + 1, kind, lastId + 1)
      BY <3>1, PlusFacts, Zenon
    <3>. QED  BY <3>2 DEF PlusOk
  <2>2. Become(p, tt) /\ lastId' = lastId + 1 /\ count' = Len(Shown(mem')) /\ saved' = saved \cup {sent + 1}
    BY <1>3 DEF AddCommits
  <2>. HIDE DEF p
  <2>3. mem' \in Mems(lastId + 1, sent + 1) /\ turn' = tt /\ detached' \in BOOLEAN
    BY <1>1, <2>1, <2>2, BecomeFacts
  <2>4. rows' \in Seq(RowsOf(lastId + 1, sent + 1))
    <3>1. rows \in Seq(RowsOf(lastId + 1, sent + 1))
      BY <1>1, Wider DEF DataTypes
    <3>2. NewestRow(kind) \in RowsOf(lastId + 1, sent + 1)
      BY <1>1 DEF NewestRow, RowsOf
    <3>. QED  BY <1>3, <3>1, <3>2 DEF AddCommits
  <2>5. count' \in Nat
    <3>1. Shown(mem') \in Seq(Entries(lastId + 1, sent + 1))
      BY <2>3, ShownType
    <3>. QED  BY <2>2, <3>1
  <2>6. comp' \in CompSet(lastId + 1, sent + 1)
    BY <1>1, Wider DEF DataTypes
  <2>7. behind' \subseteq 1..sent + 1 /\ saved' \subseteq 1..sent + 1 /\ removed' \subseteq 1..sent + 1
    BY <1>1, <1>2, <1>3 DEF AddCommits, Behind
  <2>8. session' \in {"stored", "deleting", "deleted"} /\ missed' \in BOOLEAN /\ sent + 1 \in 0..MaxMsgs /\ lastId + 1 \in Nat
    BY <1>1 DEF DataTypes
  <2>. QED  BY <1>1, <2>2, <2>3, <2>4, <2>5, <2>6, <2>7, <2>8 DEF DataTypes, Holding
<1>4. CASE AddRollsBack(m, o, kind, tt) \/ AddDrops(m, o, kind, tt)
  <2>0. /\ Plus(m, o, 0, kind) \in Mems(lastId, sent + 1)
        /\ [Plus(m, o, 0, kind) EXCEPT !.cache = NoObj] \in Mems(lastId, sent + 1)
    <3>1. 0 \in {0, lastId + 1} /\ lastId \in {lastId, lastId + 1} /\ 0 <= lastId
      BY <1>1
    <3>2. PlusOk(m, o, 0, kind, lastId)
      BY <3>1, PlusFacts, Zenon
    <3>. QED  BY <3>2 DEF PlusOk
  <2>1. PICK p \in Mems(lastId, sent + 1) : Become(p, tt)
    BY <1>4, <2>0, Zenon DEF AddRollsBack, AddDrops
  <2>2. mem' \in Mems(lastId, sent + 1) /\ turn' = tt /\ detached' \in BOOLEAN
    BY <1>1, <2>1, BecomeFacts
  <2>3. UNCHANGED <<rows, count, lastId, saved, behind>>
    BY <1>4 DEF AddRollsBack, AddDrops
  <2>4. rows' \in Seq(RowsOf(lastId, sent + 1)) /\ comp' \in CompSet(lastId, sent + 1)
    BY <1>1, <2>3, Wider DEF DataTypes
  <2>5. session' \in {"stored", "deleting", "deleted"} /\ missed' \in BOOLEAN /\ sent + 1 \in 0..MaxMsgs /\ count' \in Nat
    BY <1>1, <2>3 DEF DataTypes
  <2>. QED  BY <1>1, <1>2, <2>2, <2>3, <2>4, <2>5 DEF DataTypes, Holding
<1>. QED  BY <1>3, <1>4, AddCases

\* A step that sends nothing, and only looks at the rows.
LEMMA LookType ==
  ASSUME DataTypes, NEW m \in Mems(lastId, sent), NEW tt \in [Turn -> TurnSet(sent)], Holding(tt), Become(m, tt),
         UNCHANGED <<dbVars, lastId, sent, saved, removed, behind, missed>>, comp' \in CompSet(lastId, sent)
  PROVE  DataTypes'
<1>1. /\ mem' \in Mems(lastId, sent) /\ turn' = tt /\ detached' \in BOOLEAN
  BY BecomeFacts DEF DataTypes
<1>. QED  BY <1>1 DEF DataTypes, dbVars, Holding

LEMMA WriterType == ASSUME DataTypes, NEW kind \in WriterKind, OtherWriter(New, kind) PROVE DataTypes'
<1>1. /\ Got(New) \in Mems(lastId, sent) /\ Got(New).cache \in Obj
      /\ AddMessage(Got(New), Got(New).cache, kind, turn)
  BY NewIsFree, GotFacts DEF OtherWriter
<1>2. kind \in Kind
  BY KindAssumption DEF Kind
<1>3. turn \in [Turn -> TurnSet(sent + 1)] /\ Holding(turn)
  BY Wider DEF DataTypes
<1>. QED  BY <1>1, <1>2, <1>3, AddType

LEMMA OpensType == ASSUME DataTypes, NEW t \in Turn, TurnOpens(t, New) PROVE DataTypes'
<1>. DEFINE tt == [turn EXCEPT ![t] = [Idle EXCEPT !.pc = "open", !.sess = Got(New).cache]]
<1>1. Got(New) \in Mems(lastId, sent) /\ Got(New).cache \in Obj
  BY NewIsFree, GotFacts DEF TurnOpens
<1>2. [Idle EXCEPT !.pc = "open", !.sess = Got(New).cache] \in TurnSet(sent)
  BY <1>1 DEF TurnSet, Idle
<1>3. tt \in [Turn -> TurnSet(sent)] /\ Holding(tt)
  BY <1>1, <1>2 DEF DataTypes, Holding, Idle
<1>4. Become(Got(New), tt) /\ UNCHANGED <<dbVars, comp, lastId, sent, saved, removed, behind, missed>>
  BY DEF TurnOpens
<1>. HIDE DEF tt
<1>. QED  BY <1>1, <1>3, <1>4, LookType DEF DataTypes

\* A turn that goes on, or ends.
LEMMA TurnMoves ==
  ASSUME NEW n \in Nat, NEW tt \in [Turn -> TurnSet(n)], Holding(tt), NEW t \in Turn
  PROVE  /\ \A pc \in {"open", "run", "compact"} : tt[t].pc # "idle" =>
              [tt EXCEPT ![t].pc = pc] \in [Turn -> TurnSet(n)] /\ Holding([tt EXCEPT ![t].pc = pc])
         /\ [tt EXCEPT ![t] = Idle] \in [Turn -> TurnSet(n)] /\ Holding([tt EXCEPT ![t] = Idle])
         /\ \A pc \in {"run", "compact"}, c \in [sys : Nat, split : Nat, older : SUBSET (1..n)] : tt[t].pc # "idle" =>
              /\ [tt EXCEPT ![t].pc = pc, ![t].cut = c] \in [Turn -> TurnSet(n)]
              /\ Holding([tt EXCEPT ![t].pc = pc, ![t].cut = c])
<1>1. tt[t] \in TurnSet(n)
  OBVIOUS
<1>2. ASSUME NEW pc \in {"open", "run", "compact"}, tt[t].pc # "idle"
      PROVE  [tt EXCEPT ![t].pc = pc] \in [Turn -> TurnSet(n)] /\ Holding([tt EXCEPT ![t].pc = pc])
  <2>1. [tt[t] EXCEPT !.pc = pc] \in TurnSet(n) /\ [tt[t] EXCEPT !.pc = pc].sess = tt[t].sess
    BY <1>1 DEF TurnSet
  <2>2. [tt EXCEPT ![t].pc = pc] = [tt EXCEPT ![t] = [tt[t] EXCEPT !.pc = pc]]
    OBVIOUS
  <2>. QED  BY <1>2, <2>1, <2>2 DEF Holding
<1>3. [tt EXCEPT ![t] = Idle] \in [Turn -> TurnSet(n)] /\ Holding([tt EXCEPT ![t] = Idle])
  <2>1. Idle \in TurnSet(n) /\ Idle.pc = "idle"
    BY DEF Idle, TurnSet
  <2>. QED  BY <2>1 DEF Holding
<1>4. ASSUME NEW pc \in {"run", "compact"}, NEW c \in [sys : Nat, split : Nat, older : SUBSET (1..n)], tt[t].pc # "idle"
      PROVE  /\ [tt EXCEPT ![t].pc = pc, ![t].cut = c] \in [Turn -> TurnSet(n)]
             /\ Holding([tt EXCEPT ![t].pc = pc, ![t].cut = c])
  <2>1. [tt[t] EXCEPT !.pc = pc, !.cut = c] \in TurnSet(n) /\ [tt[t] EXCEPT !.pc = pc, !.cut = c].sess = tt[t].sess
    BY <1>1 DEF TurnSet
  <2>2. [tt EXCEPT ![t].pc = pc, ![t].cut = c] = [tt EXCEPT ![t] = [tt[t] EXCEPT !.pc = pc, !.cut = c]]
    BY <1>1 DEF TurnSet
  <2>. QED  BY <1>4, <2>1, <2>2 DEF Holding
<1>. QED  BY <1>2, <1>3, <1>4

LEMMA SendsType == ASSUME DataTypes, NEW t \in Turn, NEW kind \in TurnKind, TurnSends(t, kind) PROVE DataTypes'
<1>0. turn \in [Turn -> TurnSet(sent + 1)]
  BY Wider DEF DataTypes
<1>1. /\ turn \in [Turn -> TurnSet(sent + 1)] /\ Holding(turn) /\ mem \in Mems(lastId, sent) /\ sent + 1 \in Nat
      /\ turn[t].pc = "open" /\ AddMessage(mem, turn[t].sess, kind, [turn EXCEPT ![t].pc = "run"])
  BY <1>0 DEF DataTypes, TurnSends
<1>2. kind \in Kind /\ turn[t].sess \in Obj
  BY <1>1, KindAssumption DEF Kind, Holding
<1>3. [turn EXCEPT ![t].pc = "run"] \in [Turn -> TurnSet(sent + 1)] /\ Holding([turn EXCEPT ![t].pc = "run"])
  BY <1>1, TurnMoves
<1>. QED  BY <1>1, <1>2, <1>3, AddType

LEMMA RepliesType == ASSUME DataTypes, NEW t \in Turn, TurnReplies(t) PROVE DataTypes'
<1>0. turn \in [Turn -> TurnSet(sent + 1)]
  BY Wider DEF DataTypes
<1>1. /\ turn \in [Turn -> TurnSet(sent + 1)] /\ Holding(turn) /\ mem \in Mems(lastId, sent) /\ sent + 1 \in Nat
      /\ turn[t].pc = "run" /\ AddMessage(mem, turn[t].sess, "assistant", [turn EXCEPT ![t] = Idle])
  BY <1>0 DEF DataTypes, TurnReplies
<1>2. "assistant" \in Kind /\ turn[t].sess \in Obj
  BY <1>1 DEF Kind, Holding
<1>3. [turn EXCEPT ![t] = Idle] \in [Turn -> TurnSet(sent + 1)] /\ Holding([turn EXCEPT ![t] = Idle])
  BY <1>1, TurnMoves
<1>. QED  BY <1>1, <1>2, <1>3, AddType

LEMMA FailsType == ASSUME DataTypes, NEW t \in Turn, TurnFails(t) PROVE DataTypes'
<1>0. sent \in Nat /\ turn \in [Turn -> TurnSet(sent)] /\ Holding(turn)
  BY DEF DataTypes
<1>1. /\ [turn EXCEPT ![t] = Idle] \in [Turn -> TurnSet(sent)] /\ Holding([turn EXCEPT ![t] = Idle])
  BY <1>0, TurnMoves
<1>2. Become(mem, [turn EXCEPT ![t] = Idle]) /\ UNCHANGED <<dbVars, comp, lastId, sent, saved, removed, behind, missed>>
  BY DEF TurnFails
<1>. QED  BY <1>1, <1>2, LookType DEF DataTypes

LEMMA SkippedType == ASSUME DataTypes, NEW t \in Turn, AutoCompactSkipped(t) PROVE DataTypes'
<1>. DEFINE tt == [turn EXCEPT ![t].pc = "run", ![t].cut = Idle.cut]
<1>1. Idle.cut \in [sys : Nat, split : Nat, older : SUBSET (1..sent)]
  BY DEF Idle
<1>0. sent \in Nat /\ turn \in [Turn -> TurnSet(sent)] /\ Holding(turn) /\ turn[t].pc # "idle"
  BY DEF DataTypes, AutoCompactSkipped
<1>2. tt \in [Turn -> TurnSet(sent)] /\ Holding(tt)
  BY <1>0, <1>1, TurnMoves
<1>3. Become(mem, tt) /\ UNCHANGED <<dbVars, comp, lastId, sent, saved, removed, behind, missed>>
  BY DEF AutoCompactSkipped
<1>. HIDE DEF tt
<1>. QED  BY <1>2, <1>3, LookType DEF DataTypes

LEMMA TextsType ==
  ASSUME NEW l, NEW n, NEW s \in Seq(Entries(l, n))
  PROVE  Texts(s) \subseteq 1..n
<1>1. \A i \in DOMAIN s : s[i] \in Entries(l, n)
  OBVIOUS
<1>2. \A i \in DOMAIN s : s[i].text \subseteq 1..n
  BY <1>1 DEF Entries
<1>. QED  BY <1>2 DEF Texts

LEMMA RowTextsType ==
  ASSUME NEW l, NEW n, NEW s \in Seq(RowsOf(l, n))
  PROVE  Texts(s) \subseteq 1..n
<1>1. \A i \in DOMAIN s : s[i] \in RowsOf(l, n)
  OBVIOUS
<1>2. \A i \in DOMAIN s : s[i].text \subseteq 1..n
  BY <1>1 DEF RowsOf
<1>. QED  BY <1>2 DEF Texts

LEMMA SummaryType ==
  ASSUME NEW l \in Nat, NEW n, NEW x \in SUBSET (1..n)
  PROVE  Summary(x) \in Entries(l, n) /\ Summary(x).kind = "system" /\ Summary(x).text = x
BY DEF Summary, Entries, Kind

LEMMA CutType ==
  ASSUME NEW l \in Nat, NEW n \in Nat, NEW h \in Seq(Entries(l, n)), NEW p \in Preface
  PROVE  CutOf(h, p) \in [sys : Nat, split : Nat, older : SUBSET (1..n)]
<1>. DEFINE convo == Chosen(h, Conversation(h))
            half == (p.untrusted + Len(convo) + p.dated) \div 2
            said == {i \in DOMAIN h : ~Spoken(h[i])}
<1>1. p.system \in Nat /\ p.untrusted \in Nat /\ p.dated \in {0, 1}
  BY PrefaceAssumption
<1>2. convo \in Seq(Entries(l, n)) /\ Len(convo) \in Nat
  <2>1. Conversation(h) \in SUBSET DOMAIN h
    BY DEF Conversation
  <2>2. convo \in Seq(Entries(l, n))
    BY <2>1, ChosenWithin
  <2>. QED  BY <2>2
<1>3. Cardinality(said) \in Nat
  <2>1. DOMAIN h = 1..Len(h) /\ Len(h) \in Nat /\ said \in SUBSET DOMAIN h
    OBVIOUS
  <2>. HIDE DEF said
  <2>. QED  BY <2>1, Positions
<1>4. CutOf(h, p) = [sys |-> p.system + Cardinality(said), split |-> half,
                     older |-> Texts(SubSeq(convo, 1, half - p.untrusted))]
  BY DEF CutOf
<1>. HIDE DEF convo, said
<1>5. half \in Nat /\ half - p.untrusted \in Int /\ half - p.untrusted <= Len(convo)
  <2>. DEFINE u == p.untrusted
              d == p.dated
              n0 == Len(convo)
  <2>1. u \in Nat /\ n0 \in Nat /\ (d = 0 \/ d = 1)
    BY <1>1, <1>2
  <2>. HIDE DEF u, d, n0
  <2>2. /\ (u + n0 + d) \div 2 \in Nat
        /\ (u + n0 + d) \div 2 - u <= n0
    BY <2>1
  <2>. QED  BY <2>1, <2>2 DEF u, d, n0
<1>. HIDE DEF half
<1>6. SubSeq(convo, 1, half - p.untrusted) \in Seq(Entries(l, n))
  BY <1>2, <1>5, PartWithin
<1>7. Texts(SubSeq(convo, 1, half - p.untrusted)) \subseteq 1..n
  BY <1>6, TextsType
<1>8. p.system + Cardinality(said) \in Nat
  BY <1>1, <1>3
<1>. QED  BY <1>4, <1>5, <1>7, <1>8

LEMMA FullType == ASSUME DataTypes, NEW t \in Turn, NEW p \in Preface, TurnSendsFull(t, p) PROVE DataTypes'
<1>. DEFINE h == Append(mem.hist[turn[t].sess], [id |-> 0, text |-> {sent + 1}, kind |-> "user"])
            c == CutOf(h, p)
<1>0. /\ turn \in [Turn -> TurnSet(sent + 1)] /\ mem \in Mems(lastId, sent + 1)
  BY Wider DEF DataTypes
<1>1. /\ Holding(turn) /\ mem \in Mems(lastId, sent) /\ sent + 1 \in Nat /\ lastId \in Nat
      /\ turn[t].pc = "open"
      /\ AddMessage(mem, turn[t].sess, "user", [turn EXCEPT ![t].pc = "compact", ![t].cut = c])
  BY DEF DataTypes, TurnSendsFull
<1>2. "user" \in Kind /\ turn[t].sess \in Obj
  BY <1>1 DEF Kind, Holding
<1>3. c \in [sys : Nat, split : Nat, older : SUBSET (1..sent + 1)]
  <2>1. [id |-> 0, text |-> {sent + 1}, kind |-> "user"] \in Entries(lastId, sent + 1)
    <3>1. 0 \in -lastId..lastId /\ {sent + 1} \in SUBSET (1..sent + 1)
      BY <1>1 DEF DataTypes
    <3>. QED  BY <1>2, <3>1 DEF Entries
  <2>2. mem.hist[turn[t].sess] \in Seq(Entries(lastId, sent + 1))
    BY <1>0, <1>2 DEF Mems
  <2>3. h \in Seq(Entries(lastId, sent + 1))
    BY <2>1, <2>2
  <2>. HIDE DEF h
  <2>. QED  BY <1>1, <2>3, CutType
<1>. HIDE DEF c
<1>4. /\ [turn EXCEPT ![t].pc = "compact", ![t].cut = c] \in [Turn -> TurnSet(sent + 1)]
      /\ Holding([turn EXCEPT ![t].pc = "compact", ![t].cut = c])
  BY <1>0, <1>1, <1>3, TurnMoves
<1>. QED  BY <1>1, <1>2, <1>4, AddType

\* Rows written anew.
LEMMA RewrittenFacts ==
  ASSUME DataTypes, NEW n \in Nat, NEW s \in Seq(Entries(lastId, n))
  PROVE  /\ Rewritten(s) \in Seq(RowsOf(lastId + Len(s), n)) /\ Len(Rewritten(s)) = Len(s)
         /\ DOMAIN Rewritten(s) = DOMAIN s
         /\ \A i \in DOMAIN s : /\ Rewritten(s)[i].id = lastId + i
                                /\ Rewritten(s)[i].text = s[i].text /\ Rewritten(s)[i].kind = s[i].kind
         /\ Within(Rewritten(s), s) /\ Within(s, Rewritten(s))
         /\ lastId + Len(s) \in Nat /\ lastId <= lastId + Len(s)
<1>1. DOMAIN s = 1..Len(s) /\ Len(s) \in Nat /\ lastId \in Nat
  BY DEF DataTypes
<1>2. /\ Rewritten(s) = [i \in DOMAIN s |-> [id |-> lastId + i, text |-> s[i].text, kind |-> s[i].kind,
                                             stamped |-> s[i].id # 0]]
  BY DEF Rewritten, NewRow
<1>3. ASSUME NEW i \in DOMAIN s
      PROVE  [id |-> lastId + i, text |-> s[i].text, kind |-> s[i].kind, stamped |-> s[i].id # 0]
                \in RowsOf(lastId + Len(s), n)
  <2>1. s[i] \in Entries(lastId, n)
    BY <1>1
  <2>2. lastId + i \in 1..(lastId + Len(s)) /\ (s[i].id # 0) \in BOOLEAN
    BY <1>1
  <2>. QED  BY <2>1, <2>2 DEF Entries, RowsOf
<1>4. Rewritten(s) \in Seq(RowsOf(lastId + Len(s), n)) /\ Len(Rewritten(s)) = Len(s)
  BY <1>1, <1>2, <1>3
<1>5. /\ DOMAIN Rewritten(s) = DOMAIN s
      /\ \A i \in DOMAIN s : /\ Rewritten(s)[i].id = lastId + i
                             /\ Rewritten(s)[i].text = s[i].text /\ Rewritten(s)[i].kind = s[i].kind
  BY <1>2
<1>6. Within(Rewritten(s), s) /\ Within(s, Rewritten(s))
  <2>. DEFINE u == Rewritten(s)
  <2>1. DOMAIN u = DOMAIN s /\ \A i \in DOMAIN s : u[i].text = s[i].text /\ u[i].kind = s[i].kind
    BY <1>5
  <2>. HIDE DEF u
  <2>2. Within(u, s) /\ Within(s, u)
    BY ONLY <2>1, WithinSame
  <2>. QED  BY ONLY <2>2 DEF u
<1>7. lastId + Len(s) \in Nat /\ lastId <= lastId + Len(s)
  BY <1>1
<1>. QED  BY ONLY <1>4, <1>5, <1>6, <1>7

LEMMA ReplaceType ==
  ASSUME DataTypes, NEW m \in Mems(lastId, sent), m.cache \in Obj, NEW new \in Seq(Entries(lastId, sent)),
         NEW tt \in [Turn -> TurnSet(sent)], Holding(tt), Replace(m, new, tt),
         UNCHANGED <<session, sent, saved, removed, behind, missed>>, comp' \in CompSet(lastId, sent)
  PROVE  DataTypes'
<1>. DEFINE l == lastId + Len(new)
            h == Loaded(Rewritten(new))
            k == Len(new)
            p == [m EXCEPT !.hist[m.cache] = h, !.known[m.cache] = k]
<1>1. /\ sent \in Nat /\ lastId \in Nat /\ l \in Nat /\ lastId <= l /\ k \in Nat
      /\ Rewritten(new) \in Seq(RowsOf(l, sent))
  BY RewrittenFacts DEF DataTypes
<1>2. h \in Seq(Entries(l, sent))
  BY <1>1, LoadedFacts
<1>3. m \in Mems(l, sent)
  BY <1>1, Wider
<1>4. rows' = Rewritten(new) /\ count' = k /\ lastId' = l /\ Become(p, tt)
  BY DEF Replace
<1>. HIDE DEF l, h, k
<1>5. p \in Mems(l, sent)
  BY <1>1, <1>2, <1>3, MemExcept
<1>. HIDE DEF p
<1>6. mem' \in Mems(l, sent) /\ turn' = tt /\ detached' \in BOOLEAN
  BY <1>1, <1>4, <1>5, BecomeFacts DEF DataTypes
<1>7. comp' \in CompSet(l, sent)
  BY <1>1, Wider
<1>. QED  BY <1>1, <1>4, <1>6, <1>7 DEF DataTypes, Holding

\* A summary in the place of what stood between.
Folded(a, x, b) == a \o <<Summary(x)>> \o b

\* What that sequence is, entry by entry.
IsFolded(s, S, a, x, b) ==
  /\ s \in Seq(S) /\ Len(s) = Len(a) + 1 + Len(b)
  /\ \A i \in 1..Len(s) :
       /\ i <= Len(a) => s[i] = a[i]
       /\ i = Len(a) + 1 => s[i] = Summary(x)
       /\ i > Len(a) + 1 => s[i] = b[i - (Len(a) + 1)]

LEMMA FoldedFacts ==
  ASSUME NEW l \in Nat, NEW n \in Nat, NEW a \in Seq(Entries(l, n)), NEW x \in SUBSET (1..n),
         NEW b \in Seq(Entries(l, n))
  PROVE  IsFolded(Folded(a, x, b), Entries(l, n), a, x, b)
<1>1. Summary(x) \in Entries(l, n)
  BY SummaryType
<1>. DEFINE S == Entries(l, n)
            e == Summary(x)
<1>. HIDE DEF S, e
<1>2. a \in Seq(S) /\ b \in Seq(S) /\ <<e>> \in Seq(S) /\ Len(<<e>>) = 1 /\ <<e>>[1] = e
  BY <1>1 DEF S, e
<1>3. Len(a) \in Nat /\ Len(b) \in Nat
  BY <1>2
<1>4. /\ a \o <<e>> \in Seq(S) /\ Len(a \o <<e>>) = Len(a) + 1
      /\ \A i \in 1..Len(a) + 1 : (a \o <<e>>)[i] = IF i <= Len(a) THEN a[i] ELSE <<e>>[i - Len(a)]
  BY <1>2, ConcatProperties
<1>. DEFINE c == a \o <<e>>
<1>5. c[Len(a) + 1] = e /\ \A i \in 1..Len(a) : c[i] = a[i]
  BY <1>2, <1>3, <1>4
<1>. HIDE DEF c
<1>6. c \in Seq(S) /\ Len(c) = Len(a) + 1
  BY <1>4 DEF c
<1>7. /\ c \o b \in Seq(S) /\ Len(c \o b) = Len(c) + Len(b)
      /\ \A i \in 1..Len(c) + Len(b) : (c \o b)[i] = IF i <= Len(c) THEN c[i] ELSE b[i - Len(c)]
  <2>1. c \in Seq(S) /\ b \in Seq(S)
    BY <1>2, <1>6
  <2>. QED  BY ONLY <2>1, ConcatProperties
<1>8. Folded(a, x, b) = c \o b
  BY DEF Folded, c, e
<1>9. /\ Len(c \o b) = Len(a) + 1 + Len(b)
      /\ \A i \in 1..Len(c \o b) :
              /\ i <= Len(a) => (c \o b)[i] = a[i]
              /\ i = Len(a) + 1 => (c \o b)[i] = e
              /\ i > Len(a) + 1 => (c \o b)[i] = b[i - (Len(a) + 1)]
  BY <1>3, <1>5, <1>6, <1>7
<1>. QED  BY <1>7, <1>8, <1>9 DEF S, e, IsFolded

\* What automatic compaction makes of the history h.
CompactedBy(h, cut) == Folded(SubSeq(h, 1, cut.sys), cut.older, SubSeq(h, cut.sys + cut.split + 1, Len(h)))

LEMMA CompactedType ==
  ASSUME NEW l \in Nat, NEW n \in Nat, NEW h \in Seq(Entries(l, n)),
         NEW cut \in [sys : Nat, split : Nat, older : SUBSET (1..n)], cut.sys + cut.split < Len(h)
  PROVE  /\ CompactedBy(h, cut) \in Seq(Entries(l, n))
         /\ SubSeq(h, 1, cut.sys) \in Seq(Entries(l, n))
         /\ SubSeq(h, cut.sys + cut.split + 1, Len(h)) \in Seq(Entries(l, n))
<1>1. cut.sys \in Nat /\ cut.split \in Nat /\ cut.older \in SUBSET (1..n) /\ Len(h) \in Nat
  OBVIOUS
<1>2. SubSeq(h, 1, cut.sys) \in Seq(Entries(l, n))
  BY <1>1, PartWithin
<1>3. SubSeq(h, cut.sys + cut.split + 1, Len(h)) \in Seq(Entries(l, n))
  BY <1>1, PartWithin
<1>. QED  BY <1>1, <1>2, <1>3, FoldedFacts DEF CompactedBy, IsFolded

\* Ids of rows that are not there.
LEMMA DanglingType ==
  ASSUME NEW l \in Nat, NEW n \in Nat, NEW e \in Entries(l, n)
  PROVE  /\ Dangling(e) \in Entries(l, n) /\ Dangling(e).text = e.text /\ Dangling(e).kind = e.kind
         /\ Dangling(e).id <= 0
BY DEF Dangling, Entries

AutoCompacted(t) == CompactedBy(mem.hist[turn[t].sess], turn[t].cut)
TurnRuns(t) == [turn EXCEPT ![t].pc = "run", ![t].cut = Idle.cut]
AllDangling(s) == [i \in DOMAIN s |-> Dangling(Loaded(Rewritten(s))[i])]

LEMMA AutoCompactCases ==
  ASSUME NEW t, NEW o, AutoCompact(t, o)
  PROVE  /\ turn[t].pc = "compact" /\ Unlocked /\ Found
         /\ turn[t].cut.sys + turn[t].cut.split < Len(mem.hist[turn[t].sess])
         /\ \/ Replace(Got(o), AutoCompacted(t), TurnRuns(t)) /\ UNCHANGED faults
            \/ /\ ReplaceFails
               /\ Become([Got(o) EXCEPT !.hist[turn[t].sess] = AllDangling(AutoCompacted(t))], TurnRuns(t))
               /\ lastId' = lastId + Len(AutoCompacted(t))
               /\ UNCHANGED <<rows, count>>
         /\ autos' = autos + 1
         /\ UNCHANGED <<session, comp, sent, merges, restarts, saved, removed, behind, missed>>
BY DEF AutoCompact, AutoCompacted, TurnRuns, AllDangling, CompactedBy, Folded

LEMMA AutoCompactedFacts ==
  ASSUME DataTypes, NEW t \in Turn, turn[t].pc = "compact",
         turn[t].cut.sys + turn[t].cut.split < Len(mem.hist[turn[t].sess])
  PROVE  /\ turn[t].sess \in Obj
         /\ mem.hist[turn[t].sess] \in Seq(Entries(lastId, sent))
         /\ turn[t].cut \in [sys : Nat, split : Nat, older : SUBSET (1..sent)]
         /\ AutoCompacted(t) \in Seq(Entries(lastId, sent))
         /\ TurnRuns(t) \in [Turn -> TurnSet(sent)] /\ Holding(TurnRuns(t))
<1>1. turn[t] \in TurnSet(sent) /\ turn[t].sess \in Obj /\ sent \in Nat /\ lastId \in Nat
  BY DEF DataTypes, Holding
<1>2. turn[t].cut \in [sys : Nat, split : Nat, older : SUBSET (1..sent)]
  BY <1>1 DEF TurnSet
<1>3. mem.hist[turn[t].sess] \in Seq(Entries(lastId, sent))
  BY <1>1 DEF DataTypes, Mems
<1>4. AutoCompacted(t) \in Seq(Entries(lastId, sent))
  BY <1>1, <1>2, <1>3, CompactedType DEF AutoCompacted
<1>5. Idle.cut \in [sys : Nat, split : Nat, older : SUBSET (1..sent)]
  BY DEF Idle
<1>6. TurnRuns(t) \in [Turn -> TurnSet(sent)] /\ Holding(TurnRuns(t))
  BY <1>1, <1>5, TurnMoves DEF DataTypes, TurnRuns
<1>. QED  BY <1>1, <1>2, <1>3, <1>4, <1>6

LEMMA AllDanglingFacts ==
  ASSUME DataTypes, NEW s \in Seq(Entries(lastId, sent))
  PROVE  /\ AllDangling(s) \in Seq(Entries(lastId + Len(s), sent))
         /\ lastId + Len(s) \in Nat /\ lastId <= lastId + Len(s)
         /\ Within(AllDangling(s), s)
<1>1. /\ Loaded(Rewritten(s)) \in Seq(Entries(lastId + Len(s), sent))
      /\ lastId + Len(s) \in Nat /\ lastId <= lastId + Len(s) /\ sent \in Nat
      /\ DOMAIN Loaded(Rewritten(s)) = DOMAIN s
      /\ Within(Loaded(Rewritten(s)), s)
  <2>1. /\ Rewritten(s) \in Seq(RowsOf(lastId + Len(s), sent)) /\ DOMAIN Rewritten(s) = DOMAIN s
        /\ lastId + Len(s) \in Nat /\ lastId <= lastId + Len(s) /\ sent \in Nat
        /\ Within(Rewritten(s), s)
    BY RewrittenFacts DEF DataTypes
  <2>2. /\ Loaded(Rewritten(s)) \in Seq(Entries(lastId + Len(s), sent))
        /\ DOMAIN Loaded(Rewritten(s)) = DOMAIN Rewritten(s)
        /\ Within(Loaded(Rewritten(s)), Rewritten(s))
    BY <2>1, LoadedFacts
  <2>. QED  BY <2>1, <2>2, WithinWithin
<1>. DEFINE l == lastId + Len(s)
            u == Loaded(Rewritten(s))
            v == [i \in DOMAIN u |-> Dangling(u[i])]
<1>2. AllDangling(s) = v
  BY <1>1 DEF AllDangling
<1>. HIDE DEF l, u
<1>3. u \in Seq(Entries(l, sent)) /\ l \in Nat /\ sent \in Nat /\ DOMAIN u = 1..Len(u) /\ Len(u) \in Nat
  BY <1>1 DEF l, u
<1>4. \A i \in DOMAIN u : /\ Dangling(u[i]) \in Entries(l, sent)
                          /\ Dangling(u[i]).text = u[i].text /\ Dangling(u[i]).kind = u[i].kind
  BY <1>3, DanglingType
<1>5. v \in Seq(Entries(l, sent))
  BY <1>3, <1>4
<1>6. Within(v, u)
  BY <1>4, WithinSame
<1>. QED  BY <1>1, <1>2, <1>5, <1>6, WithinWithin DEF l, u

LEMMA AutoCompactType == ASSUME DataTypes, NEW t \in Turn, AutoCompact(t, New) PROVE DataTypes'
<1>1. /\ turn[t].pc = "compact" /\ Found
      /\ turn[t].cut.sys + turn[t].cut.split < Len(mem.hist[turn[t].sess])
      /\ UNCHANGED <<session, comp, sent, saved, removed, behind, missed>>
  BY AutoCompactCases
<1>2. /\ turn[t].sess \in Obj /\ AutoCompacted(t) \in Seq(Entries(lastId, sent))
      /\ TurnRuns(t) \in [Turn -> TurnSet(sent)] /\ Holding(TurnRuns(t))
      /\ sent \in Nat /\ lastId \in Nat /\ comp \in CompSet(lastId, sent)
  BY <1>1, AutoCompactedFacts DEF DataTypes
<1>3. Got(New) \in Mems(lastId, sent) /\ Got(New).cache \in Obj
  BY <1>1, NewIsFree, GotFacts
<1>4. CASE Replace(Got(New), AutoCompacted(t), TurnRuns(t))
  BY <1>1, <1>2, <1>3, <1>4, ReplaceType
<1>5. CASE /\ Become([Got(New) EXCEPT !.hist[turn[t].sess] = AllDangling(AutoCompacted(t))], TurnRuns(t))
           /\ lastId' = lastId + Len(AutoCompacted(t))
           /\ UNCHANGED <<rows, count>>
  <2>. DEFINE s == AutoCompacted(t)
              l == lastId + Len(s)
              h == AllDangling(s)
              m == Got(New)
              o == turn[t].sess
  <2>. HIDE DEF s, m
  <2>1. h \in Seq(Entries(l, sent)) /\ l \in Nat /\ lastId <= l
    BY <1>2, AllDanglingFacts DEF s
  <2>. HIDE DEF h, o
  <2>2. m \in Mems(l, sent) /\ rows \in Seq(RowsOf(l, sent)) /\ comp' \in CompSet(l, sent)
    BY <1>1, <1>2, <1>3, <2>1, Wider DEF m, DataTypes
  <2>3. [m EXCEPT !.hist[o] = h] \in Mems(l, sent)
    BY <1>2, <2>1, <2>2 DEF Mems, o
  <2>4. Become([m EXCEPT !.hist[o] = h], TurnRuns(t)) /\ lastId' = l
    BY <1>5 DEF m, o, h, s
  <2>. HIDE DEF l
  <2>5. mem' \in Mems(l, sent) /\ turn' = TurnRuns(t) /\ detached' \in BOOLEAN
    BY <1>2, <2>1, <2>3, <2>4, BecomeFacts DEF DataTypes
  <2>. QED  BY <1>1, <1>2, <1>5, <2>1, <2>2, <2>4, <2>5 DEF DataTypes, Holding
<1>. QED  BY <1>4, <1>5, AutoCompactCases

\* A step that edits the cached history, and perhaps the rows.
LEMMA EditType ==
  ASSUME DataTypes, NEW m \in Mems(lastId, sent), m.cache \in Obj, NEW h \in Seq(Entries(lastId, sent)),
         NEW k \in Nat,
         \/ Become([m EXCEPT !.hist[m.cache] = h, !.known[m.cache] = k], turn)
         \/ Become([m EXCEPT !.hist[m.cache] = h], turn)
         \/ Become(m, turn),
         rows' \in Seq(RowsOf(lastId, sent)), count' \in Nat, removed' \subseteq 1..sent,
         behind' \subseteq 1..sent,
         missed' \in BOOLEAN, comp' \in CompSet(lastId, sent), UNCHANGED <<session, lastId, sent, saved>>
  PROVE  DataTypes'
<1>1. /\ sent \in Nat /\ lastId \in Nat /\ turn \in [Turn -> TurnSet(sent)] /\ detached \in BOOLEAN /\ Holding(turn)
  BY DEF DataTypes
<1>2. /\ [m EXCEPT !.hist[m.cache] = h, !.known[m.cache] = k] \in Mems(lastId, sent)
      /\ [m EXCEPT !.hist[m.cache] = h] \in Mems(lastId, sent)
  BY DEF Mems
<1>3. PICK p \in Mems(lastId, sent) : Become(p, turn)
  BY <1>2, Zenon
<1>4. mem' \in Mems(lastId, sent) /\ turn' = turn /\ detached' \in BOOLEAN
  BY <1>1, <1>3, BecomeFacts
<1>. QED  BY <1>1, <1>4 DEF DataTypes, Holding

LEMMA BehindType ==
  ASSUME DataTypes, NEW texts \in SUBSET (1..sent), Behind(texts)
  PROVE  behind' \subseteq 1..sent
BY DEF DataTypes, Behind

LEMMA TruncateType ==
  ASSUME DataTypes, NEW keep \in Nat, NEW meant \in Nat, Truncate(New, keep, meant)
  PROVE  DataTypes'
<1>. DEFINE m == Got(New)
            gone == Texts(After(rows, meant)) \cup Texts(After(Shown(m), meant))
            h == First(m.hist[m.cache], keep)
<1>1. /\ Found /\ UNCHANGED <<session, comp, lastId, sent, saved, missed>>
      /\ \/ /\ Become([m EXCEPT !.hist[m.cache] = First(@, keep)], turn)
            /\ rows' = First(rows, keep) /\ count' = NewCount(keep)
            /\ removed' = removed \cup gone /\ Behind(gone)
         \/ Become(m, turn) /\ UNCHANGED <<rows, count, removed, behind>>
  BY DEF Truncate
<1>2. /\ m \in Mems(lastId, sent) /\ m.cache \in Obj /\ Shown(m) \in Seq(Entries(lastId, sent))
      /\ Shown(m) = m.hist[m.cache]
  BY <1>1, NewIsFree, GotFacts
<1>. HIDE DEF m
<1>3. h \in Seq(Entries(lastId, sent))
  BY <1>2, FirstWithin
<1>. HIDE DEF h
<1>4. [m EXCEPT !.hist[m.cache] = First(@, keep)] = [m EXCEPT !.hist[m.cache] = h]
  BY <1>2 DEF h, Mems
<1>5. gone \in SUBSET (1..sent)
  <2>1. After(rows, meant) \in Seq(RowsOf(lastId, sent)) /\ After(Shown(m), meant) \in Seq(Entries(lastId, sent))
    BY <1>2, AfterWithin DEF DataTypes
  <2>. QED  BY <2>1, TextsType, RowTextsType
<1>. HIDE DEF gone
<1>6. /\ rows \in Seq(RowsOf(lastId, sent)) /\ count \in Nat /\ comp \in CompSet(lastId, sent) /\ missed \in BOOLEAN
      /\ removed \subseteq 1..sent /\ behind \subseteq 1..sent
  BY DEF DataTypes
<1>7. First(rows, keep) \in Seq(RowsOf(lastId, sent)) /\ NewCount(keep) \in Nat
  <2>1. Len(rows) \in Nat /\ Min({keep, Len(rows)}) = IF keep <= Len(rows) THEN keep ELSE Len(rows)
    BY <1>6, OfTwo
  <2>. QED  BY <1>6, <2>1, FirstWithin DEF NewCount
<1>8. CASE /\ Become([m EXCEPT !.hist[m.cache] = First(@, keep)], turn)
           /\ rows' = First(rows, keep) /\ count' = NewCount(keep)
           /\ removed' = removed \cup gone /\ Behind(gone)
  <2>1. behind' \subseteq 1..sent
    BY <1>5, <1>8, BehindType
  <2>. QED  BY <1>1, <1>2, <1>3, <1>4, <1>5, <1>6, <1>7, <1>8, <2>1, EditType
<1>9. CASE Become(m, turn) /\ UNCHANGED <<rows, count, removed, behind>>
  BY <1>1, <1>2, <1>3, <1>6, <1>9, EditType
<1>. QED  BY <1>1, <1>8, <1>9

LEMMA ToolType == ASSUME DataTypes, NEW keep \in 0..MaxMsgs, ToolTruncates(New, keep) PROVE DataTypes'
<1>. keep \in Nat
  BY LimitAssumption
<1>. QED  BY TruncateType DEF ToolTruncates

\* Where the page begins.
LEMMA PageFacts ==
  ASSUME DataTypes
  PROVE  /\ PageStart \in Nat /\ PageStart <= Len(rows)
         /\ Len(rows) <= PageLimit => PageStart = 0
<1>1. Len(rows) \in Nat /\ PageLimit \in Nat \ {0}
  BY LimitAssumption DEF DataTypes
<1>. DEFINE x == Len(rows) - PageLimit
<1>2. x \in Int /\ PageStart = Max({0, x})
  BY <1>1 DEF PageStart
<1>. HIDE DEF x
<1>3. PageStart = IF 0 >= x THEN 0 ELSE x
  BY <1>2, OfTwo
<1>. QED  BY <1>1, <1>3 DEF x

LEMMA RegenerateType == ASSUME DataTypes, NEW p \in 1..MaxMsgs, Regenerate(New, p) PROVE DataTypes'
<1>1. PageStart \in Nat /\ PageStart <= Len(rows) /\ Len(rows) \in Nat
  BY PageFacts DEF DataTypes
<1>2. p \in (PageStart + 1)..Len(rows) /\ Truncate(New, p - 1 - PageStart, p - 1)
  BY DEF Regenerate
<1>3. p - 1 - PageStart \in Nat /\ p - 1 \in Nat
  BY <1>1, <1>2
<1>. QED  BY <1>2, <1>3, TruncateType

\* What delete-messages leaves of s.
Without(s, id) == Chosen(s, {j \in DOMAIN s : s[j].id # id})

LEMMA WithoutWithin ==
  ASSUME NEW S, NEW s \in Seq(S), NEW id
  PROVE  Without(s, id) \in Seq(S) /\ Len(Without(s, id)) \in Nat /\ Within(Without(s, id), s)
<1>1. {j \in DOMAIN s : s[j].id # id} \in SUBSET DOMAIN s
  OBVIOUS
<1>2. Without(s, id) \in Seq(S) /\ Within(Without(s, id), s)
  BY <1>1, ChosenWithin DEF Without
<1>. QED  BY <1>2

LEMMA DeleteCases ==
  ASSUME NEW o, NEW i, DeleteMessage(o, i)
  PROVE  LET m == Got(o)
             h == Shown(m)
         IN /\ Unlocked /\ Found /\ i \in DOMAIN h /\ h[i].id # 0
            /\ Become([m EXCEPT !.hist[m.cache] = Without(@, h[i].id), !.known[m.cache] = Len(Without(h, h[i].id))], turn)
            /\ \/ /\ rows' = Without(rows, h[i].id)
                  /\ count' = IF Stored THEN Len(Without(h, h[i].id)) ELSE count
                  /\ Behind(h[i].text)
                  /\ missed' = (missed \/ ~Among(rows, h[i]))
                  /\ UNCHANGED faults
               \/ Fault /\ UNCHANGED <<rows, count, behind, missed>>
            /\ removed' = removed \cup h[i].text
            /\ UNCHANGED <<session, comp, lastId, sent, autos, merges, restarts, saved>>
BY DEF DeleteMessage, Without

LEMMA DeleteType == ASSUME DataTypes, NEW i \in 1..MaxMsgs, DeleteMessage(New, i) PROVE DataTypes'
<1>. DEFINE m == Got(New)
            h == Shown(m)
            x == h[i].text
            id == h[i].id
            u == Without(h, id)
            k == Len(u)
<1>1. /\ Found /\ i \in DOMAIN h
      /\ Become([m EXCEPT !.hist[m.cache] = Without(@, id), !.known[m.cache] = k], turn)
      /\ \/ /\ rows' = Without(rows, id) /\ count' = IF Stored THEN k ELSE count
            /\ Behind(x) /\ missed' = (missed \/ ~Among(rows, h[i]))
         \/ UNCHANGED <<rows, count, behind, missed>>
      /\ removed' = removed \cup x
      /\ UNCHANGED <<session, comp, lastId, sent, saved>>
  BY DeleteCases
<1>2. /\ m \in Mems(lastId, sent) /\ m.cache \in Obj /\ h \in Seq(Entries(lastId, sent))
      /\ h = m.hist[m.cache]
  BY <1>1, NewIsFree, GotFacts
<1>. HIDE DEF m, h, id
<1>3. u \in Seq(Entries(lastId, sent)) /\ k \in Nat
  BY <1>2, WithoutWithin
<1>4. [m EXCEPT !.hist[m.cache] = Without(@, id), !.known[m.cache] = k]
        = [m EXCEPT !.hist[m.cache] = u, !.known[m.cache] = k]
  <2>. HIDE DEF k
  <2>. QED  BY <1>2 DEF Mems
<1>5. x \in SUBSET (1..sent)
  <2>1. x \subseteq Texts(h)
    BY <1>1 DEF Texts
  <2>. QED  BY <1>2, <2>1, TextsType
<1>. HIDE DEF u, k, x
<1>6. /\ rows \in Seq(RowsOf(lastId, sent)) /\ count \in Nat /\ comp \in CompSet(lastId, sent) /\ missed \in BOOLEAN
      /\ removed \subseteq 1..sent /\ behind \subseteq 1..sent
  BY DEF DataTypes
<1>7. rows' \in Seq(RowsOf(lastId, sent)) /\ count' \in Nat /\ missed' \in BOOLEAN /\ removed' \subseteq 1..sent
  <2>1. Without(rows, id) \in Seq(RowsOf(lastId, sent))
    BY <1>6, WithoutWithin
  <2>. QED  BY <1>1, <1>3, <1>5, <1>6, <2>1
<1>8. behind' \subseteq 1..sent
  BY <1>1, <1>5, <1>6, BehindType
<1>. QED  BY <1>1, <1>2, <1>3, <1>4, <1>6, <1>7, <1>8, EditType

\* The two replies that are merged.
LEMMA ReplyFacts ==
  ASSUME NEW S, NEW s \in Seq(S), Cardinality(Replies(s)) >= 2
  PROVE  /\ LastReply(s) \in Replies(s) /\ ReplyBefore(s) \in Replies(s)
         /\ LastReply(s) \in 1..Len(s) /\ ReplyBefore(s) \in 1..Len(s)
         /\ ReplyBefore(s) < LastReply(s)
<1>. DEFINE R == Replies(s)
            l == LastReply(s)
<1>1. DOMAIN s = 1..Len(s) /\ Len(s) \in Nat /\ R \in SUBSET (1..Len(s))
  BY DEF Replies
<1>2. IsFiniteSet(R) /\ Cardinality(R) \in Nat /\ Cardinality(R) >= 2
  <2>1. IsFiniteSet(1..Len(s))
    BY <1>1, FS_Interval
  <2>. QED  BY <1>1, <2>1, FS_Subset, FS_CardinalityType
<1>3. l = Max(R) /\ ReplyBefore(s) = Max(R \ {l})
  BY DEF LastReply, ReplyBefore
<1>. HIDE DEF R, l
<1>4. R # {}
  BY <1>2, FS_EmptySet
<1>5. l \in R /\ \A y \in R : y <= l
  BY <1>1, <1>3, <1>4, Greatest
<1>6. R \ {l} # {}
  <2>1. Cardinality(R \ {l}) = Cardinality(R) - 1 /\ IsFiniteSet(R \ {l})
    BY <1>2, <1>5, FS_RemoveElement
  <2>. QED  BY <1>2, <2>1, FS_EmptySet
<1>7. ReplyBefore(s) \in R \ {l}
  <2>1. R \ {l} \in SUBSET (1..Len(s))
    BY <1>1
  <2>. QED  BY <1>1, <1>3, <1>6, <2>1, Greatest
<1>. DEFINE b == ReplyBefore(s)
<1>. HIDE DEF b
<1>8. b \in 1..Len(s) /\ l \in 1..Len(s) /\ b <= l /\ b # l
  BY <1>1, <1>5, <1>7 DEF b
<1>9. b < l
  BY <1>1, <1>8
<1>. QED  BY <1>5, <1>7, <1>8, <1>9 DEF R, l, b

\* How many entries go with the second reply, and where the others come from.
Lost(s) == IF Prompted(s) THEN 2 ELSE 1
Source(s, i) == IF i < LastReply(s) - Lost(s) + 1 THEN i ELSE i + Lost(s)

LEMMA MergedFacts ==
  ASSUME NEW S, NEW s \in Seq(S), NEW first \in S, Cardinality(Replies(s)) >= 2
  PROVE  /\ MergedInto(s, first) \in Seq(S) /\ Len(MergedInto(s, first)) = Len(s) - Lost(s)
         /\ Lost(s) \in {1, 2} /\ ReplyBefore(s) \in 1..(Len(s) - Lost(s))
         /\ ReplyBefore(s) < LastReply(s) - Lost(s) + 1
         /\ \A i \in 1..(Len(s) - Lost(s)) :
              MergedInto(s, first)[i] = IF i = ReplyBefore(s) THEN first ELSE s[Source(s, i)]
<1>. DEFINE b == ReplyBefore(s)
            l == LastReply(s)
            v == [s EXCEPT ![b] = first]
            one == RemoveAt(v, l)
            n == Len(s)
<1>1. b \in 1..n /\ l \in 1..n /\ b < l /\ n \in Nat /\ DOMAIN s = 1..n
  BY ReplyFacts
<1>2. Prompted(s) => l - 1 > b
  BY DEF Prompted
<1>3. MergedInto(s, first) = IF Prompted(s) THEN RemoveAt(one, l - 1) ELSE one
  BY DEF MergedInto
<1>. HIDE DEF b, l
<1>4. v \in Seq(S) /\ Len(v) = n /\ \A i \in 1..n : v[i] = IF i = b THEN first ELSE s[i]
  BY <1>1
<1>. HIDE DEF v
<1>5. l \in DOMAIN v
  BY <1>1, <1>4
<1>6. /\ one \in Seq(S) /\ Len(one) = n - 1
      /\ \A i \in 1..n - 1 : one[i] = IF i < l THEN v[i] ELSE v[i + 1]
  BY <1>4, <1>5, RemoveWithin
<1>. HIDE DEF one, n
<1>7. CASE ~Prompted(s)
  <2>1. Lost(s) = 1 /\ MergedInto(s, first) = one
    BY <1>3, <1>7 DEF Lost
  <2>2. \A i \in 1..(n - 1) : one[i] = IF i = b THEN first ELSE s[IF i < l THEN i ELSE i + 1]
    BY <1>1, <1>4, <1>6
  <2>3. \A i \in 1..(n - 1) : Source(s, i) = IF i < l THEN i ELSE i + 1
    BY <1>1, <2>1 DEF Source, l
  <2>4. b \in 1..(n - 1) /\ b < l - 1 + 1
    BY <1>1
  <2>. QED  BY <1>6, <2>1, <2>2, <2>3, <2>4 DEF n, b, l
<1>8. CASE Prompted(s)
  <2>1. Lost(s) = 2 /\ MergedInto(s, first) = RemoveAt(one, l - 1) /\ l - 1 > b
    BY <1>2, <1>3, <1>8 DEF Lost
  <2>2. l - 1 \in DOMAIN one
    BY <1>1, <1>6, <2>1
  <2>. DEFINE two == RemoveAt(one, l - 1)
  <2>3. /\ two \in Seq(S) /\ Len(two) = Len(one) - 1
        /\ \A i \in 1..Len(one) - 1 : two[i] = IF i < l - 1 THEN one[i] ELSE one[i + 1]
    BY <1>6, <2>2, RemoveWithin
  <2>4. Len(one) - 1 = n - 2
    BY <1>1, <1>6
  <2>. HIDE DEF two
  <2>5. \A i \in 1..(n - 2) : two[i] = IF i = b THEN first ELSE s[IF i < l - 1 THEN i ELSE i + 2]
    <3>. SUFFICES ASSUME NEW i \in 1..(n - 2)
                  PROVE  two[i] = IF i = b THEN first ELSE s[IF i < l - 1 THEN i ELSE i + 2]
      OBVIOUS
    <3>1. CASE i < l - 1
      <4>1. two[i] = one[i] /\ one[i] = v[i] /\ v[i] = IF i = b THEN first ELSE s[i]
        BY <1>1, <1>4, <1>6, <2>3, <2>4, <3>1
      <4>. QED  BY <3>1, <4>1
    <3>2. CASE ~(i < l - 1)
      <4>1. two[i] = one[i + 1] /\ one[i + 1] = v[i + 2] /\ v[i + 2] = s[i + 2] /\ i # b
        BY <1>1, <1>4, <1>6, <2>1, <2>3, <2>4, <3>2
      <4>. QED  BY <3>2, <4>1
    <3>. QED  BY <3>1, <3>2
  <2>6. \A i \in 1..(n - 2) : Source(s, i) = IF i < l - 1 THEN i ELSE i + 2
    BY <1>1, <2>1 DEF Source, l
  <2>7. b \in 1..(n - 2) /\ b < l - 2 + 1
    BY <1>1, <2>1
  <2>8. two \in Seq(S) /\ Len(two) = n - 2 /\ MergedInto(s, first) = two
    BY <2>1, <2>3, <2>4 DEF two
  <2>. QED  BY <2>1, <2>5, <2>6, <2>7, <2>8 DEF n, b, l
<1>. QED  BY <1>7, <1>8

LEMMA SourceFacts ==
  ASSUME NEW S, NEW s \in Seq(S), Cardinality(Replies(s)) >= 2
  PROVE  /\ \A i \in 1..(Len(s) - Lost(s)) : Source(s, i) \in DOMAIN s
         /\ \A i, j \in 1..(Len(s) - Lost(s)) : i < j => Source(s, i) < Source(s, j)
         /\ Source(s, ReplyBefore(s)) = ReplyBefore(s)
         /\ \A i \in 1..(Len(s) - Lost(s)) : Source(s, i) # LastReply(s)
         /\ \A k \in DOMAIN s : k = LastReply(s) \/ (Prompted(s) /\ k = LastReply(s) - 1)
                                \/ \E i \in 1..(Len(s) - Lost(s)) : Source(s, i) = k
<1>. DEFINE b == ReplyBefore(s)
            l == LastReply(s)
            n == Len(s)
            d == Lost(s)
<1>1. b \in 1..n /\ l \in 1..n /\ b < l /\ n \in Nat /\ DOMAIN s = 1..n
  BY ReplyFacts
<1>2. d \in {1, 2} /\ (d = 2 <=> Prompted(s)) /\ (Prompted(s) => l - 1 > b)
  BY DEF Lost, Prompted
<1>3. \A i : Source(s, i) = IF i < l - d + 1 THEN i ELSE i + d
  BY DEF Source
<1>. HIDE DEF b, l, n, d
<1>4. \A i \in 1..(n - d) : Source(s, i) \in 1..n /\ Source(s, i) # l
  BY <1>1, <1>2, <1>3
<1>5. \A i, j \in 1..(n - d) : i < j => Source(s, i) < Source(s, j)
  BY <1>1, <1>2, <1>3
<1>6. Source(s, b) = b
  BY <1>1, <1>2, <1>3
<1>7. ASSUME NEW k \in 1..n, k # l, ~(Prompted(s) /\ k = l - 1) PROVE \E i \in 1..(n - d) : Source(s, i) = k
  <2>1. CASE k < l - d + 1
    <3>1. k \in 1..(n - d) /\ Source(s, k) = k
      BY <1>1, <1>2, <1>3, <2>1
    <3>. QED  BY <3>1
  <2>2. CASE k > l
    <3>1. k - d \in 1..(n - d) /\ ~(k - d < l - d + 1) /\ k - d + d = k
      BY <1>1, <1>2, <2>2
    <3>2. Source(s, k - d) = k
      BY <1>3, <3>1
    <3>. QED  BY <3>1, <3>2
  <2>. QED  BY <1>1, <1>2, <1>7, <2>1, <2>2
<1>. QED  BY <1>1, <1>4, <1>5, <1>6, <1>7 DEF b, l, n, d

MergedReply(h) ==
  LET first  == h[ReplyBefore(h)]
      second == h[LastReply(h)]
  IN [text |-> first.text \cup second.text,
      id   |-> IF second.id # 0 THEN second.id ELSE first.id,
      kind |-> IF "slash" \in {first.kind, second.kind} THEN "slash" ELSE "assistant"]
MergedRow(h) ==
  [rows[ReplyBefore(rows)] EXCEPT
     !.text = MergedReply(h).text, !.kind = MergedReply(h).kind, !.stamped = MergedReply(h).id # 0]
PromptOf(h) == IF Prompted(h) THEN h[LastReply(h) - 1].text ELSE {}

LEMMA MergeCases ==
  ASSUME NEW o, MergeReplies(o)
  PROVE  LET m      == Got(o)
             h      == Shown(m)
         IN /\ Unlocked /\ Found /\ merges < MaxMerges /\ merges' = merges + 1
            /\ Cardinality(Replies(h)) >= 2
            /\ Become([m EXCEPT !.hist[m.cache] = MergedInto(@, MergedReply(h))], turn)
            /\ \/ /\ rows' = IF Cardinality(Replies(rows)) >= 2 THEN MergedInto(rows, MergedRow(h)) ELSE rows
                  /\ Behind(PromptOf(h))
                  /\ UNCHANGED faults
               \/ Fault /\ UNCHANGED <<rows, behind>>
            /\ removed' = removed \cup PromptOf(h)
            /\ UNCHANGED <<session, count, comp, lastId, sent, autos, restarts, saved, missed>>
BY DEF MergeReplies, MergedReply, MergedRow, PromptOf

LEMMA MergedReplyType ==
  ASSUME NEW l \in Nat, NEW n \in Nat, NEW h \in Seq(Entries(l, n)), Cardinality(Replies(h)) >= 2
  PROVE  MergedReply(h) \in Entries(l, n) /\ PromptOf(h) \in SUBSET (1..n)
<1>. DEFINE a == h[ReplyBefore(h)]
            b == h[LastReply(h)]
<1>1. ReplyBefore(h) \in 1..Len(h) /\ LastReply(h) \in 1..Len(h) /\ ReplyBefore(h) < LastReply(h) /\ Len(h) \in Nat
  BY ReplyFacts
<1>2. a \in Entries(l, n) /\ b \in Entries(l, n)
  BY <1>1
<1>3. MergedReply(h) = [text |-> a.text \cup b.text, id   |-> IF b.id # 0 THEN b.id ELSE a.id,
                        kind |-> IF "slash" \in {a.kind, b.kind} THEN "slash" ELSE "assistant"]
  BY DEF MergedReply
<1>. HIDE DEF a, b
<1>4. MergedReply(h) \in Entries(l, n)
  <2>1. a.text \cup b.text \in SUBSET (1..n)
    BY <1>2 DEF Entries
  <2>2. (IF b.id # 0 THEN b.id ELSE a.id) \in -l..l
    BY <1>2 DEF Entries
  <2>3. (IF "slash" \in {a.kind, b.kind} THEN "slash" ELSE "assistant") \in Kind
    BY DEF Kind
  <2>. QED  BY <1>3, <2>1, <2>2, <2>3 DEF Entries
<1>5. PromptOf(h) \subseteq Texts(h)
  <2>1. CASE Prompted(h)
    <3>1. LastReply(h) - 1 \in DOMAIN h
      BY <1>1, <2>1
    <3>. QED  BY <2>1, <3>1 DEF PromptOf, Texts
  <2>. QED  BY <2>1 DEF PromptOf
<1>. QED  BY <1>4, <1>5, TextsType

LEMMA MergedRowType ==
  ASSUME DataTypes, NEW h \in Seq(Entries(lastId, sent)), Cardinality(Replies(h)) >= 2,
         Cardinality(Replies(rows)) >= 2
  PROVE  /\ MergedRow(h) \in RowsOf(lastId, sent)
         /\ MergedRow(h).id = rows[ReplyBefore(rows)].id
         /\ MergedRow(h).text = MergedReply(h).text /\ MergedRow(h).kind = MergedReply(h).kind
<1>. DEFINE a == rows[ReplyBefore(rows)]
            e == MergedReply(h)
<1>1. /\ rows \in Seq(RowsOf(lastId, sent)) /\ lastId \in Nat /\ sent \in Nat
  BY DEF DataTypes
<1>2. ReplyBefore(rows) \in 1..Len(rows)
  BY <1>1, ReplyFacts
<1>3. a \in RowsOf(lastId, sent)
  BY <1>1, <1>2
<1>4. e \in Entries(lastId, sent)
  BY <1>1, MergedReplyType
<1>5. MergedRow(h) = [a EXCEPT !.text = e.text, !.kind = e.kind, !.stamped = e.id # 0]
  BY DEF MergedRow
<1>. HIDE DEF a, e
<1>6. e.text \in SUBSET (1..sent) /\ e.kind \in Kind /\ (e.id # 0) \in BOOLEAN
  BY <1>4 DEF Entries
<1>7. /\ MergedRow(h) \in RowsOf(lastId, sent)
      /\ MergedRow(h).id = a.id /\ MergedRow(h).text = e.text /\ MergedRow(h).kind = e.kind
  BY <1>3, <1>5, <1>6 DEF RowsOf
<1>. QED  BY <1>7 DEF a, e

LEMMA MergeType == ASSUME DataTypes, MergeReplies(New) PROVE DataTypes'
<1>. DEFINE m == Got(New)
            h == Shown(m)
            e == MergedReply(h)
            u == MergedInto(h, e)
            x == PromptOf(h)
<1>1. /\ Found /\ Cardinality(Replies(h)) >= 2
      /\ Become([m EXCEPT !.hist[m.cache] = MergedInto(@, e)], turn)
      /\ \/ /\ rows' = IF Cardinality(Replies(rows)) >= 2 THEN MergedInto(rows, MergedRow(h)) ELSE rows
            /\ Behind(x)
         \/ UNCHANGED <<rows, behind>>
      /\ removed' = removed \cup x
      /\ UNCHANGED <<session, count, comp, lastId, sent, saved, missed>>
  BY MergeCases
<1>2. /\ m \in Mems(lastId, sent) /\ m.cache \in Obj /\ h \in Seq(Entries(lastId, sent))
      /\ h = m.hist[m.cache] /\ lastId \in Nat /\ sent \in Nat
  <2>1. lastId \in Nat /\ sent \in Nat
    BY DEF DataTypes
  <2>. QED  BY <1>1, <2>1, NewIsFree, GotFacts
<1>. HIDE DEF m, h
<1>3. e \in Entries(lastId, sent) /\ x \in SUBSET (1..sent)
  BY <1>1, <1>2, MergedReplyType
<1>4. u \in Seq(Entries(lastId, sent))
  BY <1>1, <1>2, <1>3, MergedFacts
<1>5. [m EXCEPT !.hist[m.cache] = MergedInto(@, e)] = [m EXCEPT !.hist[m.cache] = u]
  <2>. HIDE DEF e
  <2>. QED  BY <1>2 DEF Mems
<1>. HIDE DEF e, u, x
<1>6. /\ rows \in Seq(RowsOf(lastId, sent)) /\ count \in Nat /\ comp \in CompSet(lastId, sent) /\ missed \in BOOLEAN
      /\ removed \subseteq 1..sent /\ behind \subseteq 1..sent
  BY DEF DataTypes
<1>7. rows' \in Seq(RowsOf(lastId, sent))
  <2>1. ASSUME Cardinality(Replies(rows)) >= 2 PROVE MergedInto(rows, MergedRow(h)) \in Seq(RowsOf(lastId, sent))
    BY <1>1, <1>2, <1>6, <2>1, MergedRowType, MergedFacts
  <2>. QED  BY <1>1, <1>6, <2>1
<1>8. behind' \subseteq 1..sent /\ removed' \subseteq 1..sent
  BY <1>1, <1>3, <1>6, BehindType
<1>. QED  BY <1>1, <1>2, <1>4, <1>5, <1>6, <1>7, <1>8, EditType

\* What GET /api/history makes of rows whose metadata names earlier ones.
Reread(s) == [i \in DOMAIN s |-> [id   |-> IF s[i].stamped THEN -s[i].id ELSE 0,
                                  text |-> s[i].text, kind |-> s[i].kind]]
LEMMA ReadCases ==
  ASSUME NEW o, ReadHistory(o)
  PROVE  LET m == Got(o)
         IN /\ Found
            /\ \/ Shown(m) = <<>> /\ rows # <<>> /\ Become([m EXCEPT !.hist[m.cache] = Reread(rows)], turn)
               \/ Become(m, turn)
            /\ UNCHANGED <<dbVars, comp, lastId, sent, autos, merges, faults, restarts, saved, removed, behind, missed>>
BY DEF ReadHistory, Reread

LEMMA RereadFacts ==
  ASSUME NEW l \in Nat, NEW n \in Nat, NEW s \in Seq(RowsOf(l, n))
  PROVE  /\ Reread(s) \in Seq(Entries(l, n)) /\ Len(Reread(s)) = Len(s)
         /\ Within(Reread(s), s) /\ Within(s, Reread(s))
<1>1. DOMAIN s = 1..Len(s) /\ Len(s) \in Nat
  OBVIOUS
<1>2. ASSUME NEW i \in DOMAIN s
      PROVE  [id |-> IF s[i].stamped THEN -s[i].id ELSE 0, text |-> s[i].text, kind |-> s[i].kind] \in Entries(l, n)
  <2>1. s[i] \in RowsOf(l, n)
    BY <1>1
  <2>2. (IF s[i].stamped THEN -s[i].id ELSE 0) \in -l..l
    BY <2>1 DEF RowsOf
  <2>. QED  BY <2>1, <2>2 DEF Entries, RowsOf
<1>3. Reread(s) \in Seq(Entries(l, n)) /\ Len(Reread(s)) = Len(s)
  BY <1>1, <1>2 DEF Reread
<1>4. Within(Reread(s), s) /\ Within(s, Reread(s))
  <2>1. DOMAIN Reread(s) = DOMAIN s /\ \A i \in DOMAIN s : Reread(s)[i].text = s[i].text /\ Reread(s)[i].kind = s[i].kind
    BY DEF Reread
  <2>. QED  BY <2>1, WithinSame
<1>. QED  BY <1>3, <1>4

LEMMA ReadType == ASSUME DataTypes, ReadHistory(New) PROVE DataTypes'
<1>. DEFINE m == Got(New)
            h == Reread(rows)
<1>1. /\ Found
      /\ Become([m EXCEPT !.hist[m.cache] = h], turn) \/ Become(m, turn)
      /\ UNCHANGED <<dbVars, comp, lastId, sent, saved, removed, behind, missed>>
  BY ReadCases
<1>2. /\ m \in Mems(lastId, sent) /\ m.cache \in Obj
  BY <1>1, NewIsFree, GotFacts
<1>3. h \in Seq(Entries(lastId, sent))
  BY RereadFacts DEF DataTypes
<1>. HIDE DEF m, h
<1>4. /\ rows \in Seq(RowsOf(lastId, sent)) /\ count \in Nat /\ comp \in CompSet(lastId, sent) /\ missed \in BOOLEAN
      /\ removed \subseteq 1..sent /\ behind \subseteq 1..sent
  BY DEF DataTypes
<1>. QED  BY <1>1, <1>2, <1>3, <1>4, EditType DEF dbVars

\* How many messages the compact endpoint keeps.
KeptLen(h) == Min({TailMax, Max({TailMin, Len(h) \div 4})})

LEMMA TailFacts ==
  ASSUME NEW S, NEW h \in Seq(S), Len(h) >= CompactMin
  PROVE  /\ KeptLen(h) \in Nat /\ 1 <= KeptLen(h) /\ KeptLen(h) < Len(h)
         /\ SubSeq(h, Len(h) - KeptLen(h) + 1, Len(h)) \in Seq(S)
         /\ Len(SubSeq(h, Len(h) - KeptLen(h) + 1, Len(h))) = KeptLen(h)
         /\ \A i \in 1..KeptLen(h) : SubSeq(h, Len(h) - KeptLen(h) + 1, Len(h))[i] = h[Len(h) - KeptLen(h) + i]
         /\ Within(SubSeq(h, Len(h) - KeptLen(h) + 1, Len(h)), h)
         /\ SubSeq(h, 1, Len(h) - KeptLen(h)) \in Seq(S)
         /\ Len(SubSeq(h, 1, Len(h) - KeptLen(h))) = Len(h) - KeptLen(h)
         /\ \A i \in 1..Len(h) - KeptLen(h) : SubSeq(h, 1, Len(h) - KeptLen(h))[i] = h[i]
<1>. DEFINE n == Len(h)
            q == n \div 4
            x == Max({TailMin, q})
<1>1. /\ n \in Nat /\ n >= CompactMin
      /\ TailMin \in Nat /\ TailMin >= 1 /\ TailMax \in Nat /\ TailMax >= 1
      /\ CompactMin \in Nat /\ TailMin < CompactMin
  BY LimitAssumption
<1>2. KeptLen(h) = Min({TailMax, x})
  BY DEF KeptLen
<1>. HIDE DEF n
<1>3. q \in Nat /\ q < n
  BY <1>1
<1>. HIDE DEF q
<1>4. x = IF TailMin >= q THEN TailMin ELSE q
  <2>1. TailMin \in Int /\ q \in Int
    BY <1>1, <1>3
  <2>. QED  BY <2>1, OfTwo, Zenon
<1>. HIDE DEF x
<1>5. x \in Nat /\ 1 <= x /\ x < n
  BY <1>1, <1>3, <1>4
<1>6. KeptLen(h) = IF TailMax <= x THEN TailMax ELSE x
  BY <1>1, <1>2, <1>5, OfTwo
<1>. DEFINE k == KeptLen(h)
<1>7. k \in Nat /\ 1 <= k /\ k < n
  BY <1>1, <1>5, <1>6
<1>. HIDE DEF k
<1>8. n - k + 1 \in Int /\ 1 <= n - k + 1 /\ n <= Len(h) /\ n \in Int /\ n - k + 1 <= n /\ n - (n - k + 1) + 1 = k
  BY <1>1, <1>7 DEF n
<1>9. /\ SubSeq(h, n - k + 1, n) \in Seq(S)
      /\ Len(SubSeq(h, n - k + 1, n)) = k
      /\ \A i \in 1..k : SubSeq(h, n - k + 1, n)[i] = h[(n - k + 1) + i - 1]
      /\ Within(SubSeq(h, n - k + 1, n), h)
  BY <1>8, PartWithin
<1>10. \A i \in 1..k : (n - k + 1) + i - 1 = n - k + i
  BY <1>1, <1>7
<1>11. 1 \in Int /\ n - k \in Int /\ 1 <= 1 /\ n - k <= Len(h) /\ 1 <= n - k /\ n - k - 1 + 1 = n - k
  BY <1>1, <1>7 DEF n
<1>12. /\ SubSeq(h, 1, n - k) \in Seq(S)
       /\ Len(SubSeq(h, 1, n - k)) = n - k
       /\ \A i \in 1..n - k : SubSeq(h, 1, n - k)[i] = h[1 + i - 1]
  BY <1>11, PartWithin
<1>13. \A i \in 1..n - k : 1 + i - 1 = i
  BY <1>11
<1>. QED  BY <1>7, <1>9, <1>10, <1>12, <1>13 DEF n, k

LEMMA BeginCases ==
  ASSUME NEW o, BeginCompact(o)
  PROVE  LET m == Got(o)
             h == Shown(m)
         IN /\ comp.pc = "idle" /\ Unlocked /\ Found /\ Len(h) >= CompactMin
            /\ comp' = [pc |-> "await", recent |-> SubSeq(h, Len(h) - KeptLen(h) + 1, Len(h)),
                        older |-> Texts(SubSeq(h, 1, Len(h) - KeptLen(h)))]
            /\ Become(m, turn)
            /\ UNCHANGED <<dbVars, lastId, sent, autos, merges, faults, restarts, saved, removed, behind, missed>>
BY DEF BeginCompact, KeptLen

LEMMA BeginType == ASSUME DataTypes, BeginCompact(New) PROVE DataTypes'
<1>. DEFINE m == Got(New)
            h == Shown(m)
<1>1. /\ Found /\ Len(h) >= CompactMin /\ Become(m, turn)
      /\ comp' = [pc |-> "await", recent |-> SubSeq(h, Len(h) - KeptLen(h) + 1, Len(h)),
                        older |-> Texts(SubSeq(h, 1, Len(h) - KeptLen(h)))]
      /\ UNCHANGED <<dbVars, lastId, sent, saved, removed, behind, missed>>
  BY BeginCases
<1>2. /\ m \in Mems(lastId, sent) /\ h \in Seq(Entries(lastId, sent))
  BY <1>1, NewIsFree, GotFacts
<1>. HIDE DEF m, h
<1>3. comp' \in CompSet(lastId, sent)
  <2>1. /\ SubSeq(h, Len(h) - KeptLen(h) + 1, Len(h)) \in Seq(Entries(lastId, sent))
        /\ SubSeq(h, 1, Len(h) - KeptLen(h)) \in Seq(Entries(lastId, sent))
    BY <1>1, <1>2, TailFacts
  <2>2. Texts(SubSeq(h, 1, Len(h) - KeptLen(h))) \in SUBSET (1..sent)
    BY <2>1, TextsType
  <2>. QED  BY <1>1, <2>1, <2>2 DEF CompSet
<1>4. turn \in [Turn -> TurnSet(sent)] /\ Holding(turn)
  BY DEF DataTypes
<1>. QED  BY <1>1, <1>2, <1>3, <1>4, LookType

\* What the endpoint makes of its messages.
Shortened == Folded(<<>>, comp.older, comp.recent)

LEMMA ShortenedFacts ==
  ASSUME DataTypes
  PROVE  /\ Shortened \in Seq(Entries(lastId, sent)) /\ Len(Shortened) = 1 + Len(comp.recent)
         /\ Shortened = <<Summary(comp.older)>> \o comp.recent
         /\ Shortened[1] = Summary(comp.older)
         /\ \A i \in 1..Len(comp.recent) : Shortened[i + 1] = comp.recent[i]
<1>1. /\ comp.older \in SUBSET (1..sent) /\ comp.recent \in Seq(Entries(lastId, sent)) /\ lastId \in Nat /\ sent \in Nat
  BY DEF DataTypes, CompSet
<1>. DEFINE a == <<>>
            x == comp.older
            b == comp.recent
<1>2. a \in Seq(Entries(lastId, sent)) /\ Len(a) = 0
  OBVIOUS
<1>3. /\ Shortened \in Seq(Entries(lastId, sent)) /\ Len(Shortened) = 0 + 1 + Len(comp.recent)
      /\ \A i \in 1..Len(Shortened) :
              /\ i = 0 + 1 => Shortened[i] = Summary(comp.older)
              /\ i > 0 + 1 => Shortened[i] = comp.recent[i - (0 + 1)]
  <2>. HIDE DEF a, x, b
  <2>1. a \in Seq(Entries(lastId, sent)) /\ x \in SUBSET (1..sent) /\ b \in Seq(Entries(lastId, sent))
        /\ lastId \in Nat /\ sent \in Nat
    BY <1>1, <1>2 DEF x, b
  <2>2. IsFolded(Folded(a, x, b), Entries(lastId, sent), a, x, b)
    BY <2>1, FoldedFacts, Zenon
  <2>3. /\ Folded(a, x, b) \in Seq(Entries(lastId, sent)) /\ Len(Folded(a, x, b)) = Len(a) + 1 + Len(b)
        /\ \A i \in 1..Len(Folded(a, x, b)) :
              /\ i <= Len(a) => Folded(a, x, b)[i] = a[i]
              /\ i = Len(a) + 1 => Folded(a, x, b)[i] = Summary(x)
              /\ i > Len(a) + 1 => Folded(a, x, b)[i] = b[i - (Len(a) + 1)]
    BY ONLY <2>2 DEF IsFolded
  <2>4. Shortened = Folded(a, x, b)
    BY DEF Shortened, a, x, b
  <2>. QED  BY <1>2, <2>3, <2>4 DEF x, b
<1>. HIDE DEF a
<1>4. Len(comp.recent) \in Nat
  BY <1>1
<1>5. Shortened = <<Summary(comp.older)>> \o comp.recent
  <2>1. Summary(comp.older) \in Entries(lastId, sent)
    BY <1>1, SummaryType
  <2>. DEFINE e == Summary(comp.older)
  <2>. HIDE DEF e
  <2>2. <<>> \o <<e>> = <<e>>
    OBVIOUS
  <2>. QED  BY <2>2 DEF Shortened, Folded, e
<1>6. Len(Shortened) = 1 + Len(comp.recent) /\ Shortened[1] = Summary(comp.older)
  BY <1>3, <1>4
<1>7. ASSUME NEW i \in 1..Len(comp.recent) PROVE Shortened[i + 1] = comp.recent[i]
  <2>1. i + 1 \in 1..Len(Shortened) /\ i + 1 > 0 + 1 /\ (i + 1) - (0 + 1) = i
    BY <1>4, <1>6
  <2>. QED  BY <1>3, <2>1
<1>. QED  BY <1>3, <1>5, <1>6, <1>7

LEMMA EndCases ==
  ASSUME DataTypes, NEW o, EndCompact(o)
  PROVE  LET m == Got(o)
         IN /\ comp.pc = "await" /\ Unlocked /\ Found /\ comp' = NoComp
            /\ \/ Replace(m, Shortened, turn) /\ UNCHANGED faults
               \/ /\ ReplaceFails
                  /\ Become([m EXCEPT !.hist[m.cache] = Disowned(@, comp.recent)], turn)
                  /\ UNCHANGED <<rows, count, lastId>>
            /\ UNCHANGED <<session, sent, autos, merges, restarts, saved, removed, behind, missed>>
BY ShortenedFacts DEF EndCompact

LEMMA DisownedFacts ==
  ASSUME NEW l \in Nat, NEW n \in Nat, NEW h \in Seq(Entries(l, n)), NEW new
  PROVE  /\ Disowned(h, new) \in Seq(Entries(l, n)) /\ Len(Disowned(h, new)) = Len(h)
         /\ DOMAIN Disowned(h, new) = DOMAIN h
         /\ \A i \in DOMAIN h : Disowned(h, new)[i] \in {h[i], Dangling(h[i])}
         /\ Within(Disowned(h, new), h) /\ Within(h, Disowned(h, new))
<1>. DEFINE u == Disowned(h, new)
<1>1. DOMAIN h = 1..Len(h) /\ Len(h) \in Nat /\ \A i \in DOMAIN h : h[i] \in Entries(l, n)
  OBVIOUS
<1>2. DOMAIN u = DOMAIN h /\ \A i \in DOMAIN h : u[i] = IF Among(new, h[i]) THEN Dangling(h[i]) ELSE h[i]
  BY DEF Disowned
<1>3. \A i \in DOMAIN h : /\ Dangling(h[i]) \in Entries(l, n)
                          /\ Dangling(h[i]).text = h[i].text /\ Dangling(h[i]).kind = h[i].kind
  BY <1>1, DanglingType
<1>4. u = [i \in 1..Len(h) |-> u[i]]
  BY <1>1, <1>2 DEF Disowned
<1>. HIDE DEF u
<1>5. \A i \in DOMAIN h : u[i] \in Entries(l, n) /\ u[i].text = h[i].text /\ u[i].kind = h[i].kind
  BY <1>1, <1>2, <1>3
<1>6. u \in Seq(Entries(l, n)) /\ Len(u) = Len(h)
  BY <1>1, <1>4, <1>5
<1>7. Within(u, h) /\ Within(h, u)
  BY <1>2, <1>5, WithinSame
<1>. QED  BY <1>2, <1>6, <1>7 DEF u

LEMMA NoCompType == ASSUME NEW l, NEW n PROVE NoComp \in CompSet(l, n)
BY DEF NoComp, CompSet

LEMMA EndType == ASSUME DataTypes, EndCompact(New) PROVE DataTypes'
<1>. DEFINE m == Got(New)
            h == Disowned(m.hist[m.cache], comp.recent)
<1>1. /\ Found /\ comp' = NoComp
      /\ \/ Replace(m, Shortened, turn)
         \/ /\ Become([m EXCEPT !.hist[m.cache] = Disowned(@, comp.recent)], turn)
            /\ UNCHANGED <<rows, count, lastId>>
      /\ UNCHANGED <<session, sent, saved, removed, behind, missed>>
  BY EndCases
<1>2. /\ m \in Mems(lastId, sent) /\ m.cache \in Obj /\ Shown(m) = m.hist[m.cache] /\ Shown(m) \in Seq(Entries(lastId, sent))
  BY <1>1, NewIsFree, GotFacts
<1>. HIDE DEF m
<1>3. /\ rows \in Seq(RowsOf(lastId, sent)) /\ count \in Nat /\ comp' \in CompSet(lastId, sent) /\ missed \in BOOLEAN
      /\ removed \subseteq 1..sent /\ behind \subseteq 1..sent /\ turn \in [Turn -> TurnSet(sent)] /\ Holding(turn)
      /\ lastId \in Nat /\ sent \in Nat
  BY <1>1, NoCompType DEF DataTypes
<1>4. CASE Replace(m, Shortened, turn)
  BY <1>1, <1>2, <1>3, <1>4, ShortenedFacts, ReplaceType
<1>5. CASE /\ Become([m EXCEPT !.hist[m.cache] = Disowned(@, comp.recent)], turn)
           /\ UNCHANGED <<rows, count, lastId>>
  <2>1. h \in Seq(Entries(lastId, sent))
    BY <1>2, <1>3, DisownedFacts
  <2>2. [m EXCEPT !.hist[m.cache] = Disowned(@, comp.recent)] = [m EXCEPT !.hist[m.cache] = h]
    BY <1>2 DEF Mems
  <2>. HIDE DEF h
  <2>. QED  BY <1>1, <1>2, <1>3, <1>5, <2>1, <2>2, EditType
<1>. QED  BY <1>1, <1>4, <1>5

LEMMA CompactFailsType == ASSUME DataTypes, CompactFails PROVE DataTypes'
BY NoCompType DEF DataTypes, CompactFails, dbVars, pastVars, Holding

LEMMA DeleteSessionType == ASSUME DataTypes, DeleteSession PROVE DataTypes'
<1>1. [mem EXCEPT !.cache = NoObj] \in Mems(lastId, sent)
  BY DEF DataTypes, Mems
<1>. DEFINE m == [mem EXCEPT !.cache = NoObj]
<1>2. /\ Become(m, turn) /\ session' = "deleting"
      /\ UNCHANGED <<rows, count, comp, lastId, sent, saved, removed, behind, missed>>
  BY DEF DeleteSession
<1>. HIDE DEF m
<1>3. lastId \in Nat /\ sent \in Nat /\ turn \in [Turn -> TurnSet(sent)] /\ detached \in BOOLEAN
  BY DEF DataTypes
<1>4. mem' \in Mems(lastId, sent) /\ turn' = turn /\ detached' \in BOOLEAN
  BY <1>1, <1>2, <1>3, BecomeFacts DEF m
<1>. QED  BY <1>2, <1>4 DEF DataTypes, Holding

LEMMA DeleteCommitsType == ASSUME DataTypes, DeleteCommits PROVE DataTypes'
<1>1. <<>> \in Seq(RowsOf(lastId, sent))
  OBVIOUS
<1>. QED  BY <1>1 DEF DataTypes, DeleteCommits, pastVars, Holding

LEMMA DeleteFailsType == ASSUME DataTypes, DeleteFails PROVE DataTypes'
BY DEF DataTypes, DeleteFails, Holding

Fresh(o) == [cache |-> IF Stored /\ count > 0 THEN o ELSE NoObj,
             hist  |-> [x \in Obj |-> <<>>],
             known |-> [x \in Obj |-> IF x = o THEN count ELSE 0]]
AllIdle == [t \in Turn |-> Idle]

LEMMA FreshType ==
  ASSUME DataTypes, NEW o \in Obj
  PROVE  Fresh(o) \in Mems(lastId, sent) /\ AllIdle \in [Turn -> TurnSet(sent)] /\ Holding(AllIdle)
<1>1. <<>> \in Seq(Entries(lastId, sent)) /\ count \in Nat
  BY DEF DataTypes
<1>2. Idle \in TurnSet(sent) /\ Idle.pc = "idle"
  BY DEF Idle, TurnSet
<1>. QED  BY <1>1, <1>2 DEF Fresh, AllIdle, Mems, Holding

LEMMA RestartCases ==
  ASSUME NEW o, Restart(o)
  PROVE  /\ restarts < MaxRestarts /\ restarts' = restarts + 1
         /\ session' = IF session = "deleting" THEN "stored" ELSE session
         /\ comp' = NoComp /\ Become(Fresh(o), AllIdle)
         /\ UNCHANGED <<rows, count, lastId, sent, autos, merges, faults, saved, removed, behind, missed>>
BY DEF Restart, Fresh, AllIdle

LEMMA RestartType == ASSUME DataTypes, Restart(New) PROVE DataTypes'
<1>1. /\ Become(Fresh(New), AllIdle) /\ session' \in {"stored", "deleting", "deleted"} /\ comp' = NoComp
      /\ UNCHANGED <<rows, count, lastId, sent, saved, removed, behind, missed>>
  BY RestartCases DEF DataTypes
<1>2. Fresh(New) \in Mems(lastId, sent) /\ AllIdle \in [Turn -> TurnSet(sent)] /\ Holding(AllIdle)
  BY NewIsFree, FreshType
<1>3. lastId \in Nat /\ sent \in Nat /\ detached \in BOOLEAN
  BY DEF DataTypes
<1>4. mem' \in Mems(lastId, sent) /\ turn' = AllIdle /\ detached' \in BOOLEAN
  BY <1>1, <1>2, <1>3, BecomeFacts
<1>. QED  BY <1>1, <1>2, <1>4, NoCompType DEF DataTypes, Holding

LEMMA EmptyIn == ASSUME NEW S PROVE <<>> \in Seq(S)
OBVIOUS

LEMMA DataTypesInit == Init => DataTypes
<1>. SUFFICES ASSUME Init PROVE DataTypes
  OBVIOUS
<1>1. Obj # {}
  <2>. SUFFICES ASSUME Obj = {} PROVE FALSE
    OBVIOUS
  <2>1. Cardinality(Obj) = 0 /\ Cardinality(Turn) \in Nat
    BY FS_EmptySet, FS_CardinalityType, ObjAssumption
  <2>. QED  BY <2>1, ObjAssumption
<1>2. mem.cache \in Obj /\ mem = [cache |-> mem.cache, hist |-> [x \in Obj |-> <<>>], known |-> [x \in Obj |-> 0]]
  <2>1. \E o \in Obj : TRUE
    BY <1>1
  <2>. QED  BY <2>1 DEF Init
<1>3. mem \in Mems(0, 0)
  <2>. DEFINE S == Seq(Entries(0, 0))
              e == <<>>
  <2>1. e \in S
    BY EmptyIn
  <2>. HIDE DEF S, e
  <2>2. [x \in Obj |-> e] \in [Obj -> S] /\ [x \in Obj |-> 0] \in [Obj -> Nat]
    BY <2>1
  <2>3. mem = [cache |-> mem.cache, hist |-> [x \in Obj |-> e], known |-> [x \in Obj |-> 0]]
    BY <1>2 DEF e
  <2>. QED  BY <1>2, <2>2, <2>3 DEF Mems, S
<1>4. turn \in [Turn -> TurnSet(0)] /\ Holding(turn)
  <2>1. Idle \in TurnSet(0) /\ Idle.pc = "idle"
    BY DEF Idle, TurnSet
  <2>. QED  BY <2>1 DEF Holding, Init
<1>5. rows \in Seq(RowsOf(0, 0)) /\ comp \in CompSet(0, 0)
  <2>1. <<>> \in Seq(RowsOf(0, 0))
    BY EmptyIn
  <2>2. NoComp \in CompSet(0, 0)
    BY NoCompType
  <2>3. rows = <<>> /\ comp = NoComp
    BY DEF Init
  <2>. QED  BY <2>1, <2>2, <2>3, Zenon
<1>6. /\ lastId = 0 /\ sent = 0 /\ count = 0 /\ session = "stored"
      /\ saved = {} /\ removed = {} /\ behind = {} /\ missed = FALSE /\ detached = FALSE
  BY DEF Init
<1>7. 0 \in 0..MaxMsgs
  BY LimitAssumption
<1>. QED  BY <1>3, <1>4, <1>5, <1>6, <1>7 DEF DataTypes

LEMMA DataTypesStep == ASSUME DataTypes, [Next]_vars PROVE DataTypes'
<1>1. CASE UNCHANGED vars
  BY <1>1 DEF DataTypes, Holding, vars, dbVars, pastVars
<1>2. CASE Request(New)
  BY <1>2, WriterType, ToolType, RegenerateType, DeleteType, MergeType, ReadType, BeginType, EndType DEF Request
<1>3. CASE \E t \in Turn : TurnStep(t, New)
  BY <1>3, OpensType, SendsType, FullType, AutoCompactType, SkippedType, RepliesType, FailsType DEF TurnStep
<1>. QED
  BY <1>1, <1>2, <1>3, RestartType, CompactFailsType, DeleteSessionType, DeleteCommitsType, DeleteFailsType DEF Next

-----------------------------------------------------------------------------
(* The bounds.                                                             *)

\* A step that moves no turn into a compaction.
Uncut(tt) == Compacting(tt) \subseteq Compacting(turn)

LEMMA CompactingFinite == ASSUME NEW tt PROVE IsFiniteSet(Compacting(tt)) /\ Cardinality(Compacting(tt)) \in Nat
<1>1. Compacting(tt) \in SUBSET Turn
  BY DEF Compacting
<1>. QED  BY <1>1, ObjAssumption, FS_Subset, FS_CardinalityType

LEMMA FaultCounts == ASSUME BoundTypes, Fault \/ UNCHANGED faults PROVE faults' \in 0..MaxFaults
BY LimitAssumption DEF BoundTypes, Fault

LEMMA BoundKept ==
  ASSUME BoundTypes, NEW tt, turn' = tt, Uncut(tt), autos' = autos, Fault \/ UNCHANGED faults,
         UNCHANGED restarts \/ (restarts < MaxRestarts /\ restarts' = restarts + 1),
         UNCHANGED merges \/ (merges < MaxMerges /\ merges' = merges + 1)
  PROVE  BoundTypes'
<1>1. Cardinality(Compacting(tt)) <= Cardinality(Compacting(turn))
  BY CompactingFinite, FS_Subset DEF Uncut
<1>2. autos + Cardinality(Compacting(tt)) <= MaxAutos
  BY <1>1, CompactingFinite, LimitAssumption DEF BoundTypes
<1>3. merges' \in 0..MaxMerges /\ faults' \in 0..MaxFaults /\ restarts' \in 0..MaxRestarts
  BY FaultCounts, LimitAssumption DEF BoundTypes
<1>4. Compacting(turn') = Compacting(tt)
  OBVIOUS
<1>. QED  BY <1>2, <1>3, <1>4 DEF BoundTypes

\* Become() and AddMessage() leave the turns as they are told.
LEMMA BecomeTurns == ASSUME NEW m, NEW tt, Become(m, tt) PROVE turn' = tt
BY DEF Become

LEMMA AddCounts ==
  ASSUME NEW m, NEW o, NEW kind, NEW tt, AddMessage(m, o, kind, tt)
  PROVE  turn' = tt /\ (Fault \/ UNCHANGED faults) /\ UNCHANGED <<autos, merges, restarts>>
BY AddCases, BecomeTurns DEF AddCommits, AddRollsBack, AddDrops

LEMMA UncutMoves ==
  ASSUME DataTypes, NEW t \in Turn
  PROVE  /\ Uncut(turn)
         /\ Uncut([turn EXCEPT ![t].pc = "run"]) /\ Uncut([turn EXCEPT ![t] = Idle]) /\ Uncut(TurnRuns(t))
         /\ \A o : Uncut([turn EXCEPT ![t] = [Idle EXCEPT !.pc = "open", !.sess = o]])
<1>1. turn \in [Turn -> TurnSet(sent)]
  BY DEF DataTypes
<1>2. Uncut([turn EXCEPT ![t].pc = "run"])
  BY <1>1 DEF Uncut, Compacting, TurnSet
<1>3. Uncut([turn EXCEPT ![t] = Idle])
  BY <1>1 DEF Uncut, Compacting, Idle
<1>4. Uncut(TurnRuns(t))
  BY <1>1 DEF Uncut, Compacting, TurnRuns, TurnSet
<1>5. \A o : Uncut([turn EXCEPT ![t] = [Idle EXCEPT !.pc = "open", !.sess = o]])
  BY <1>1 DEF Uncut, Compacting, Idle
<1>. QED  BY <1>2, <1>3, <1>4, <1>5 DEF Uncut

LEMMA BoundInit == Init => BoundTypes
<1>. SUFFICES ASSUME Init PROVE BoundTypes
  OBVIOUS
<1>1. Compacting(turn) = {}
  BY DEF Init, Compacting, Idle
<1>2. Cardinality(Compacting(turn)) = 0
  BY <1>1, FS_EmptySet
<1>. QED  BY <1>2, LimitAssumption DEF Init, BoundTypes

LEMMA BoundRequest == ASSUME DataTypes, BoundTypes, Request(New) PROVE BoundTypes'
<1>0. Uncut(turn)
  BY DEF Uncut
<1>1. ASSUME NEW kind \in WriterKind, OtherWriter(New, kind) PROVE BoundTypes'
  BY <1>0, <1>1, AddCounts, BoundKept DEF OtherWriter
<1>2. ASSUME NEW keep, NEW meant, Truncate(New, keep, meant) PROVE BoundTypes'
  <2>1. turn' = turn /\ (Fault \/ UNCHANGED faults) /\ UNCHANGED <<autos, merges, restarts>>
    BY <1>2, BecomeTurns DEF Truncate
  <2>. QED  BY <1>0, <2>1, BoundKept
<1>3. ASSUME NEW i \in 1..MaxMsgs, DeleteMessage(New, i) PROVE BoundTypes'
  <2>1. turn' = turn /\ (Fault \/ UNCHANGED faults) /\ UNCHANGED <<autos, merges, restarts>>
    BY <1>3, DeleteCases, BecomeTurns
  <2>. QED  BY <1>0, <2>1, BoundKept
<1>4. CASE MergeReplies(New)
  <2>1. turn' = turn /\ (Fault \/ UNCHANGED faults) /\ UNCHANGED <<autos, restarts>>
        /\ merges < MaxMerges /\ merges' = merges + 1
    BY <1>4, MergeCases, BecomeTurns
  <2>. QED  BY <1>0, <2>1, BoundKept
<1>5. CASE ReadHistory(New)
  <2>1. turn' = turn /\ UNCHANGED <<faults, autos, merges, restarts>>
    BY <1>5, ReadCases, BecomeTurns
  <2>. QED  BY <1>0, <2>1, BoundKept
<1>6. CASE BeginCompact(New)
  <2>1. turn' = turn /\ UNCHANGED <<faults, autos, merges, restarts>>
    BY <1>6, BeginCases, BecomeTurns
  <2>. QED  BY <1>0, <2>1, BoundKept
<1>7. CASE EndCompact(New)
  <2>1. turn' = turn /\ (Fault \/ UNCHANGED faults) /\ UNCHANGED <<autos, merges, restarts>>
    BY <1>7, EndCases, BecomeTurns DEF Replace, ReplaceFails
  <2>. QED  BY <1>0, <2>1, BoundKept
<1>. QED  BY <1>1, <1>2, <1>3, <1>4, <1>5, <1>6, <1>7 DEF Request, ToolTruncates, Regenerate

LEMMA BoundTurn == ASSUME DataTypes, BoundTypes, NEW t \in Turn, TurnStep(t, New) PROVE BoundTypes'
<1>1. CASE TurnOpens(t, New)
  <2>1. turn' = [turn EXCEPT ![t] = [Idle EXCEPT !.pc = "open", !.sess = Got(New).cache]]
        /\ UNCHANGED <<faults, autos, merges, restarts>>
    BY <1>1, BecomeTurns DEF TurnOpens
  <2>. QED  BY <2>1, UncutMoves, BoundKept
<1>2. ASSUME NEW kind \in TurnKind, TurnSends(t, kind) PROVE BoundTypes'
  <2>. DEFINE tt == [turn EXCEPT ![t].pc = "run"]
  <2>1. turn' = tt /\ (Fault \/ UNCHANGED faults) /\ UNCHANGED <<autos, merges, restarts>>
    BY <1>2, AddCounts DEF TurnSends
  <2>2. Uncut(tt)
    BY UncutMoves
  <2>. HIDE DEF tt
  <2>. QED  BY <2>1, <2>2, BoundKept
<1>3. ASSUME NEW p \in Preface, TurnSendsFull(t, p) PROVE BoundTypes'
  <2>1. PICK c : /\ AddMessage(mem, turn[t].sess, "user", [turn EXCEPT ![t].pc = "compact", ![t].cut = c])
                 /\ turn[t].pc = "open" /\ autos + Cardinality(Compacting(turn)) < MaxAutos
    BY <1>3 DEF TurnSendsFull, Compacting
  <2>. DEFINE tt == [turn EXCEPT ![t].pc = "compact", ![t].cut = c]
  <2>2. turn' = tt /\ (Fault \/ UNCHANGED faults) /\ UNCHANGED <<autos, merges, restarts>>
    BY <2>1, AddCounts
  <2>3. Compacting(tt) = Compacting(turn) \cup {t} /\ t \notin Compacting(turn)
    BY <2>1 DEF Compacting, DataTypes, TurnSet
  <2>. HIDE DEF tt
  <2>4. Cardinality(Compacting(tt)) = Cardinality(Compacting(turn)) + 1
    BY <2>3, CompactingFinite, FS_AddElement
  <2>5. autos + Cardinality(Compacting(tt)) <= MaxAutos
    BY <2>1, <2>4, CompactingFinite, LimitAssumption DEF BoundTypes
  <2>6. Compacting(turn') = Compacting(tt) /\ faults' \in 0..MaxFaults
    BY <2>2, FaultCounts
  <2>. QED  BY <2>2, <2>5, <2>6 DEF BoundTypes
<1>4. CASE AutoCompact(t, New)
  <2>1. turn' = TurnRuns(t) /\ (Fault \/ UNCHANGED faults) /\ autos' = autos + 1 /\ UNCHANGED <<merges, restarts>>
        /\ turn[t].pc = "compact"
    BY <1>4, AutoCompactCases, BecomeTurns DEF Replace, ReplaceFails
  <2>2. Compacting(TurnRuns(t)) = Compacting(turn) \ {t} /\ t \in Compacting(turn)
    BY <2>1 DEF Compacting, DataTypes, TurnSet, TurnRuns
  <2>3. Cardinality(Compacting(TurnRuns(t))) = Cardinality(Compacting(turn)) - 1
    BY <2>2, CompactingFinite, FS_RemoveElement
  <2>4. autos + 1 \in Nat /\ autos + 1 + Cardinality(Compacting(TurnRuns(t))) <= MaxAutos
    BY <2>3, CompactingFinite, LimitAssumption DEF BoundTypes
  <2>5. Compacting(turn') = Compacting(TurnRuns(t)) /\ faults' \in 0..MaxFaults
    BY <2>1, FaultCounts
  <2>. QED  BY <2>1, <2>4, <2>5 DEF BoundTypes
<1>5. CASE AutoCompactSkipped(t)
  <2>1. turn' = TurnRuns(t) /\ UNCHANGED <<faults, autos, merges, restarts>>
    BY <1>5, BecomeTurns DEF AutoCompactSkipped, TurnRuns
  <2>. QED  BY <2>1, UncutMoves, BoundKept
<1>6. CASE TurnReplies(t)
  <2>. DEFINE tt == [turn EXCEPT ![t] = Idle]
  <2>1. turn' = tt /\ (Fault \/ UNCHANGED faults) /\ UNCHANGED <<autos, merges, restarts>>
    BY <1>6, AddCounts DEF TurnReplies
  <2>2. Uncut(tt)
    BY UncutMoves
  <2>. HIDE DEF tt
  <2>. QED  BY <2>1, <2>2, BoundKept
<1>7. CASE TurnFails(t)
  <2>1. turn' = [turn EXCEPT ![t] = Idle] /\ UNCHANGED <<faults, autos, merges, restarts>>
    BY <1>7, BecomeTurns DEF TurnFails
  <2>. QED  BY <2>1, UncutMoves, BoundKept
<1>. QED  BY <1>1, <1>2, <1>3, <1>4, <1>5, <1>6, <1>7 DEF TurnStep

LEMMA BoundStep == ASSUME DataTypes, BoundTypes, [Next]_vars PROVE BoundTypes'
<1>0. Uncut(turn)
  BY DEF Uncut
<1>1. CASE UNCHANGED vars
  BY <1>1 DEF BoundTypes, vars, pastVars
<1>2. CASE Restart(New)
  <2>1. turn' = AllIdle /\ restarts < MaxRestarts /\ restarts' = restarts + 1 /\ UNCHANGED <<faults, autos, merges>>
    BY <1>2, RestartCases, BecomeTurns
  <2>2. Uncut(AllIdle)
    BY DEF Uncut, AllIdle, Idle, Compacting
  <2>. QED  BY <2>1, <2>2, BoundKept
<1>3. CASE CompactFails \/ DeleteCommits
  BY <1>3 DEF BoundTypes, CompactFails, DeleteCommits, pastVars
<1>4. CASE DeleteSession \/ DeleteFails
  <2>1. turn' = turn /\ (Fault \/ UNCHANGED faults) /\ UNCHANGED <<autos, merges, restarts>>
    BY <1>4, BecomeTurns DEF DeleteSession, DeleteFails
  <2>. QED  BY <1>0, <2>1, BoundKept
<1>. QED  BY <1>1, <1>2, <1>3, <1>4, BoundRequest, BoundTurn DEF Next

LEMMA TypesInvariant == Spec => [](DataTypes /\ BoundTypes)
<1>1. Init => DataTypes /\ BoundTypes
  BY DataTypesInit, BoundInit
<1>2. DataTypes /\ BoundTypes /\ [Next]_vars => (DataTypes /\ BoundTypes)'
  BY DataTypesStep, BoundStep
<1>. QED  BY <1>1, <1>2, PTL DEF Spec

\* Every variable stays in its set: message_count does not become negative and no history names an id that was
\* not given to a row, whatever order the handlers of session_manager.py and history_routes.py run in.
THEOREM TypeCorrect == Spec => []TypeOK
<1>1. DataTypes /\ BoundTypes => TypeOK
  <2>. SUFFICES ASSUME DataTypes, BoundTypes PROVE TypeOK
    OBVIOUS
  <2>0. sent \in Nat /\ lastId \in Nat /\ sent <= MaxMsgs /\ MaxMsgs \in Nat /\ 1..sent \subseteq 1..MaxMsgs
    BY LimitAssumption DEF DataTypes
  <2>1. ASSUME NEW i \in DOMAIN rows PROVE IsEntry(rows[i]) /\ rows[i].id > 0 /\ rows[i].stamped \in BOOLEAN
    <3>1. rows[i] \in RowsOf(lastId, sent)
      BY DEF DataTypes
    <3>2. rows[i].id \in 1..lastId /\ rows[i].text \subseteq 1..sent /\ rows[i].kind \in Kind /\ rows[i].stamped \in BOOLEAN
      BY <3>1 DEF RowsOf
    <3>. QED  BY <2>0, <3>2 DEF IsEntry, Msg
  <2>2. ASSUME NEW o \in Obj PROVE mem.known[o] \in Nat /\ \A i \in DOMAIN mem.hist[o] : IsEntry(mem.hist[o][i])
    <3>1. mem.hist[o] \in Seq(Entries(lastId, sent)) /\ mem.known[o] \in Nat
      BY DEF DataTypes, Mems
    <3>2. \A i \in DOMAIN mem.hist[o] : mem.hist[o][i] \in Entries(lastId, sent)
      BY <3>1
    <3>. QED  BY <2>0, <3>1, <3>2 DEF Entries, IsEntry, Msg
  <2>3. \A t \in Turn : turn[t].pc \in {"idle", "open", "compact", "run"} /\ turn[t].sess \in Obj \cup {NoObj}
    BY DEF DataTypes, TurnSet
  <2>4. comp.pc \in {"idle", "await"} /\ comp.older \subseteq Msg /\ mem.cache \in Obj \cup {NoObj}
    BY <2>0 DEF DataTypes, CompSet, Mems, Msg
  <2>5. autos \in 0..MaxAutos
    BY CompactingFinite, LimitAssumption DEF BoundTypes
  <2>. QED  BY <2>0, <2>1, <2>2, <2>3, <2>4, <2>5 DEF TypeOK, DataTypes, BoundTypes, Msg
<1>. QED  BY <1>1, TypesInvariant, PTL

-----------------------------------------------------------------------------
(* What the histories of the next state are made of.                       *)

Sources == {rows} \cup {mem.hist[o] : o \in Obj}
FromHere(h) == \E s \in Sources : Within(h, s)

LEMMA FromHereFacts ==
  ASSUME DataTypes
  PROVE  /\ FromHere(rows) /\ FromHere(<<>>) /\ FromHere(Loaded(rows)) /\ FromHere(Reread(rows))
         /\ \A o \in Obj : FromHere(mem.hist[o])
         /\ \A u, h : FromHere(h) /\ Within(u, h) => FromHere(u)
<1>1. rows \in Sources /\ \A o \in Obj : mem.hist[o] \in Sources
  BY DEF Sources
<1>2. rows \in Seq(RowsOf(lastId, sent)) /\ lastId \in Nat /\ sent \in Nat
  BY DEF DataTypes
<1>3. FromHere(rows) /\ FromHere(<<>>) /\ \A o \in Obj : FromHere(mem.hist[o])
  BY <1>1, WithinSelf, WithinEmpty DEF FromHere
<1>4. Within(Loaded(rows), rows) /\ Within(Reread(rows), rows)
  BY <1>2, LoadedFacts, RereadFacts
<1>5. \A u, h : FromHere(h) /\ Within(u, h) => FromHere(u)
  BY WithinWithin DEF FromHere
<1>. QED  BY <1>3, <1>4, <1>5

LEMMA GotFromHere ==
  ASSUME DataTypes, Found
  PROVE  /\ \A o \in Obj : FromHere(Got(New).hist[o])
         /\ FromHere(Shown(Got(New)))
<1>1. /\ Got(New) \in Mems(lastId, sent) /\ Got(New).cache \in Obj
      /\ Hydrates(mem) => Got(New).hist = [mem.hist EXCEPT ![New] = Loaded(rows)]
      /\ ~Hydrates(mem) => Got(New).hist = mem.hist
      /\ Shown(Got(New)) = Got(New).hist[Got(New).cache]
  BY NewIsFree, GotFacts
<1>2. mem.hist \in [Obj -> Seq(Entries(lastId, sent))]
  BY DEF DataTypes, Mems
<1>3. ASSUME NEW o \in Obj PROVE Got(New).hist[o] \in {mem.hist[o], Loaded(rows)}
  BY <1>1, <1>2
<1>. QED  BY <1>1, <1>3, FromHereFacts

LEMMA BecomeFromHere ==
  ASSUME DataTypes, NEW l \in Nat, NEW n \in Nat, NEW m \in Mems(l, n), NEW tt \in [Turn -> TurnSet(n)],
         Become(m, tt),
         \A o \in Obj : FromHere(m.hist[o])
  PROVE  \A o \in Obj : FromHere(mem'.hist[o])
<1>1. detached \in BOOLEAN
  BY DEF DataTypes
<1>2. \A o \in Obj : mem'.hist[o] \in {m.hist[o], <<>>}
  BY <1>1, BecomeFacts
<1>. QED  BY <1>2, FromHereFacts

\* A step by which nothing comes into the histories.
Shrinks ==
  /\ FromHere(rows') /\ \A o \in Obj : FromHere(mem'.hist[o])
  /\ comp'.recent = comp.recent \/ FromHere(comp'.recent)

LEMMA LookShrinks ==
  ASSUME DataTypes, NEW m, m = mem \/ (Found /\ m = Got(New)), NEW tt \in [Turn -> TurnSet(sent)],
         Become(m, tt), rows' = rows,
         comp'.recent = comp.recent \/ FromHere(comp'.recent)
  PROVE  Shrinks
<1>1. m \in Mems(lastId, sent) /\ lastId \in Nat /\ sent \in Nat
  <2>1. lastId \in Nat /\ sent \in Nat /\ mem \in Mems(lastId, sent)
    BY DEF DataTypes
  <2>. QED  BY <2>1, NewIsFree, GotFacts
<1>2. \A o \in Obj : FromHere(m.hist[o])
  BY FromHereFacts, GotFromHere
<1>. QED  BY <1>1, <1>2, BecomeFromHere, FromHereFacts DEF Shrinks

LEMMA RowsType == ASSUME DataTypes PROVE rows \in Seq(RowsOf(lastId, sent)) /\ lastId \in Nat /\ sent \in Nat
BY DEF DataTypes

\* One that edits the cached history.
LEMMA EditShrinks ==
  ASSUME DataTypes, Found, NEW h \in Seq(Entries(lastId, sent)), FromHere(h), FromHere(rows'), comp' = comp,
         \/ Become([Got(New) EXCEPT !.hist[Got(New).cache] = h], turn)
         \/ \E k \in Nat : Become([Got(New) EXCEPT !.hist[Got(New).cache] = h, !.known[Got(New).cache] = k], turn)
  PROVE  Shrinks
<1>. DEFINE m == Got(New)
<1>1. m \in Mems(lastId, sent) /\ m.cache \in Obj /\ \A o \in Obj : FromHere(m.hist[o])
  BY NewIsFree, GotFacts, GotFromHere
<1>. HIDE DEF m
<1>2. lastId \in Nat /\ sent \in Nat /\ turn \in [Turn -> TurnSet(sent)]
  <2>1. turn \in [Turn -> TurnSet(sent)]
    BY Zenon DEF DataTypes
  <2>. QED  BY <2>1, RowsType
<1>3. PICK p \in Mems(lastId, sent) : Become(p, turn) /\ p.hist = [m.hist EXCEPT ![m.cache] = h]
  <2>1. CASE Become([m EXCEPT !.hist[m.cache] = h], turn)
    <3>. DEFINE p == [m EXCEPT !.hist[m.cache] = h]
    <3>1. p \in Mems(lastId, sent) /\ p.hist = [m.hist EXCEPT ![m.cache] = h]
      BY <1>1 DEF Mems
    <3>. HIDE DEF p
    <3>. QED  BY <2>1, <3>1 DEF p
  <2>2. ASSUME NEW k \in Nat, Become([m EXCEPT !.hist[m.cache] = h, !.known[m.cache] = k], turn)
        PROVE  \E p \in Mems(lastId, sent) : Become(p, turn) /\ p.hist = [m.hist EXCEPT ![m.cache] = h]
    <3>. DEFINE p == [m EXCEPT !.hist[m.cache] = h, !.known[m.cache] = k]
    <3>1. p \in Mems(lastId, sent) /\ p.hist = [m.hist EXCEPT ![m.cache] = h]
      BY <1>1 DEF Mems
    <3>2. Become(p, turn)
      BY <2>2
    <3>. HIDE DEF p
    <3>. QED  BY <3>1, <3>2
  <2>. QED  BY <2>1, <2>2 DEF m
<1>4. \A o \in Obj : FromHere(p.hist[o])
  <2>1. m.hist \in [Obj -> Seq(Entries(lastId, sent))]
    BY <1>1 DEF Mems
  <2>. QED  BY <1>1, <1>3, <2>1
<1>5. \A o \in Obj : FromHere(mem'.hist[o])
  BY <1>2, <1>3, <1>4, BecomeFromHere
<1>. QED  BY <1>5 DEF Shrinks

LEMMA TruncateShrinks ==
  ASSUME DataTypes, NEW keep \in Nat, NEW meant \in Nat, Truncate(New, keep, meant)
  PROVE  Shrinks
<1>. DEFINE m == Got(New)
            h == First(m.hist[m.cache], keep)
<1>1. /\ Found /\ comp' = comp
      /\ \/ Become([m EXCEPT !.hist[m.cache] = First(@, keep)], turn) /\ rows' = First(rows, keep)
         \/ Become(m, turn) /\ rows' = rows
  BY DEF Truncate
<1>2. /\ m \in Mems(lastId, sent) /\ m.cache \in Obj /\ m.hist[m.cache] \in Seq(Entries(lastId, sent))
      /\ FromHere(m.hist[m.cache]) /\ turn \in [Turn -> TurnSet(sent)]
  <2>1. turn \in [Turn -> TurnSet(sent)]
    BY DEF DataTypes
  <2>. QED  BY <1>1, <2>1, NewIsFree, GotFacts, GotFromHere
<1>3. CASE Become(m, turn) /\ rows' = rows
  BY <1>1, <1>2, <1>3, LookShrinks
<1>4. CASE Become([m EXCEPT !.hist[m.cache] = First(@, keep)], turn) /\ rows' = First(rows, keep)
  <2>. HIDE DEF m
  <2>1. h \in Seq(Entries(lastId, sent)) /\ FromHere(h)
    BY <1>2, FirstWithin, FromHereFacts
  <2>2. FromHere(rows')
    BY <1>4, RowsType, FirstWithin, FromHereFacts
  <2>3. [m EXCEPT !.hist[m.cache] = First(@, keep)] = [m EXCEPT !.hist[m.cache] = h]
    BY <1>2 DEF Mems
  <2>. HIDE DEF h
  <2>. QED  BY <1>1, <1>4, <2>1, <2>2, <2>3, EditShrinks DEF m
<1>. QED  BY <1>1, <1>3, <1>4

LEMMA DeleteShrinks == ASSUME DataTypes, NEW i \in 1..MaxMsgs, DeleteMessage(New, i) PROVE Shrinks
<1>. DEFINE m == Got(New)
            h == Shown(m)
            id == h[i].id
            u == Without(h, id)
            k == Len(u)
<1>1. /\ Found /\ comp' = comp
      /\ Become([m EXCEPT !.hist[m.cache] = Without(@, id), !.known[m.cache] = k], turn)
      /\ rows' = Without(rows, id) \/ rows' = rows
  BY DeleteCases
<1>2. /\ m \in Mems(lastId, sent) /\ m.cache \in Obj /\ h \in Seq(Entries(lastId, sent)) /\ h = m.hist[m.cache]
      /\ FromHere(h)
  BY <1>1, NewIsFree, GotFacts, GotFromHere
<1>. HIDE DEF m, h, id
<1>3. u \in Seq(Entries(lastId, sent)) /\ k \in Nat /\ FromHere(u)
  BY <1>2, WithoutWithin, FromHereFacts
<1>4. FromHere(rows')
  BY <1>1, RowsType, WithoutWithin, FromHereFacts
<1>5. [m EXCEPT !.hist[m.cache] = Without(@, id), !.known[m.cache] = k]
        = [m EXCEPT !.hist[m.cache] = u, !.known[m.cache] = k]
  <2>. HIDE DEF k
  <2>. QED  BY <1>2 DEF Mems
<1>. HIDE DEF u, k
<1>. QED  BY <1>1, <1>3, <1>4, <1>5, EditShrinks DEF m

LEMMA ReadShrinks == ASSUME DataTypes, ReadHistory(New) PROVE Shrinks
<1>. DEFINE m == Got(New)
            h == Reread(rows)
<1>1. /\ Found /\ rows' = rows /\ comp' = comp
      /\ Become([m EXCEPT !.hist[m.cache] = h], turn) \/ Become(m, turn)
  BY ReadCases DEF dbVars
<1>2. h \in Seq(Entries(lastId, sent)) /\ FromHere(h) /\ FromHere(rows) /\ turn \in [Turn -> TurnSet(sent)]
  BY RereadFacts, FromHereFacts DEF DataTypes
<1>. HIDE DEF h
<1>. QED  BY <1>1, <1>2, LookShrinks, EditShrinks

LEMMA BeginShrinks == ASSUME DataTypes, BeginCompact(New) PROVE Shrinks
<1>. DEFINE h == Shown(Got(New))
<1>1. /\ Found /\ Len(h) >= CompactMin /\ Become(Got(New), turn) /\ rows' = rows
      /\ comp'.recent = SubSeq(h, Len(h) - KeptLen(h) + 1, Len(h))
  BY BeginCases DEF dbVars
<1>2. h \in Seq(Entries(lastId, sent)) /\ FromHere(h) /\ turn \in [Turn -> TurnSet(sent)]
  <2>1. turn \in [Turn -> TurnSet(sent)]
    BY DEF DataTypes
  <2>. QED  BY <1>1, <2>1, NewIsFree, GotFacts, GotFromHere
<1>. HIDE DEF h
<1>3. FromHere(comp'.recent)
  BY <1>1, <1>2, TailFacts, FromHereFacts
<1>. QED  BY <1>1, <1>2, <1>3, LookShrinks

LEMMA EndShrinks ==
  ASSUME DataTypes, EndCompact(New), ~Replace(Got(New), Shortened, turn)
  PROVE  Shrinks
<1>. DEFINE m == Got(New)
            h == Disowned(m.hist[m.cache], comp.recent)
<1>1. /\ Found /\ comp' = NoComp /\ rows' = rows
      /\ Become([m EXCEPT !.hist[m.cache] = Disowned(@, comp.recent)], turn)
  BY EndCases
<1>2. /\ m \in Mems(lastId, sent) /\ m.cache \in Obj /\ m.hist[m.cache] \in Seq(Entries(lastId, sent))
      /\ FromHere(m.hist[m.cache]) /\ lastId \in Nat /\ sent \in Nat
  BY <1>1, NewIsFree, GotFacts, GotFromHere, RowsType
<1>. HIDE DEF m
<1>3. h \in Seq(Entries(lastId, sent)) /\ FromHere(h)
  BY <1>2, DisownedFacts, FromHereFacts
<1>4. [m EXCEPT !.hist[m.cache] = Disowned(@, comp.recent)] = [m EXCEPT !.hist[m.cache] = h]
  BY <1>2 DEF Mems
<1>. HIDE DEF h
<1>5. [m EXCEPT !.hist[m.cache] = h] \in Mems(lastId, sent)
      /\ [m EXCEPT !.hist[m.cache] = h].hist = [m.hist EXCEPT ![m.cache] = h]
      /\ m.hist \in [Obj -> Seq(Entries(lastId, sent))]
  BY <1>2, <1>3 DEF Mems
<1>6. \A o \in Obj : FromHere([m EXCEPT !.hist[m.cache] = h].hist[o])
  BY <1>1, <1>2, <1>3, <1>5, GotFromHere DEF m
<1>7. turn \in [Turn -> TurnSet(sent)]
  BY DEF DataTypes
<1>8. \A o \in Obj : FromHere(mem'.hist[o])
  BY <1>1, <1>2, <1>4, <1>5, <1>6, <1>7, BecomeFromHere
<1>9. comp'.recent = <<>>
  BY <1>1 DEF NoComp
<1>. QED  BY <1>1, <1>8, <1>9, FromHereFacts DEF Shrinks

\* The other steps that bring nothing.
LEMMA QuietShrinks ==
  ASSUME DataTypes,
         \/ UNCHANGED vars \/ CompactFails \/ DeleteCommits \/ DeleteFails \/ DeleteSession \/ Restart(New)
                    \/ \E t \in Turn : TurnOpens(t, New) \/ AutoCompactSkipped(t) \/ TurnFails(t)
  PROVE  Shrinks
<1>0. /\ FromHere(rows) /\ FromHere(<<>>) /\ \A o \in Obj : FromHere(mem.hist[o])
      /\ lastId \in Nat /\ sent \in Nat /\ turn \in [Turn -> TurnSet(sent)] /\ mem \in Mems(lastId, sent) /\ detached \in BOOLEAN
      /\ Holding(turn)
  BY FromHereFacts DEF DataTypes
<1>1. CASE UNCHANGED vars \/ CompactFails \/ DeleteCommits \/ DeleteFails
  BY <1>0, <1>1 DEF vars, dbVars, CompactFails, DeleteCommits, DeleteFails, Shrinks, NoComp
<1>2. CASE DeleteSession
  <2>. DEFINE m == [mem EXCEPT !.cache = NoObj]
  <2>1. Become(m, turn) /\ rows' = rows /\ comp' = comp
    BY <1>2 DEF DeleteSession
  <2>2. m \in Mems(lastId, sent) /\ m.hist = mem.hist
    BY <1>0 DEF Mems
  <2>. HIDE DEF m
  <2>3. \A o \in Obj : FromHere(mem'.hist[o])
    BY <1>0, <2>1, <2>2, BecomeFromHere
  <2>. QED  BY <1>0, <2>1, <2>3 DEF Shrinks
<1>3. CASE Restart(New)
  <2>1. Become(Fresh(New), AllIdle) /\ rows' = rows /\ comp'.recent = <<>>
    BY <1>3, RestartCases DEF NoComp
  <2>2. Fresh(New) \in Mems(lastId, sent) /\ AllIdle \in [Turn -> TurnSet(sent)]
    BY NewIsFree, FreshType
  <2>3. \A o \in Obj : FromHere(Fresh(New).hist[o])
    BY <1>0 DEF Fresh
  <2>4. \A o \in Obj : FromHere(mem'.hist[o])
    BY <1>0, <2>1, <2>2, <2>3, BecomeFromHere
  <2>. QED  BY <1>0, <2>1, <2>4 DEF Shrinks
<1>4. ASSUME NEW t \in Turn, TurnOpens(t, New) PROVE Shrinks
  <2>1. /\ Found /\ Become(Got(New), [turn EXCEPT ![t] = [Idle EXCEPT !.pc = "open", !.sess = Got(New).cache]])
        /\ rows' = rows /\ comp' = comp
    BY <1>4 DEF TurnOpens, dbVars
  <2>2. [Idle EXCEPT !.pc = "open", !.sess = Got(New).cache] \in TurnSet(sent)
    BY <2>1, NewIsFree, GotFacts DEF TurnSet, Idle
  <2>3. [turn EXCEPT ![t] = [Idle EXCEPT !.pc = "open", !.sess = Got(New).cache]] \in [Turn -> TurnSet(sent)]
    BY <1>0, <2>2
  <2>. QED  BY <2>1, <2>3, LookShrinks
<1>5. ASSUME NEW t \in Turn, AutoCompactSkipped(t) PROVE Shrinks
  <2>1. /\ Become(mem, TurnRuns(t)) /\ rows' = rows /\ comp' = comp /\ turn[t].pc # "idle"
    BY <1>5 DEF AutoCompactSkipped, dbVars, TurnRuns
  <2>2. Idle.cut \in [sys : Nat, split : Nat, older : SUBSET (1..sent)]
    BY DEF Idle
  <2>3. TurnRuns(t) \in [Turn -> TurnSet(sent)]
    BY <1>0, <2>1, <2>2, TurnMoves DEF TurnRuns
  <2>. QED  BY <2>1, <2>3, LookShrinks
<1>6. ASSUME NEW t \in Turn, TurnFails(t) PROVE Shrinks
  <2>1. /\ Become(mem, [turn EXCEPT ![t] = Idle]) /\ rows' = rows /\ comp' = comp
    BY <1>6 DEF TurnFails, dbVars
  <2>3. [turn EXCEPT ![t] = Idle] \in [Turn -> TurnSet(sent)]
    BY <1>0, TurnMoves
  <2>. QED  BY <2>1, <2>3, LookShrinks
<1>. QED  BY <1>1, <1>2, <1>3, <1>4, <1>5, <1>6

-----------------------------------------------------------------------------
(* The order of the messages, and how many there are.                      *)

Spoke == Kind \ {"system"}
Orderly(K) == Ordered(rows, K) /\ Ordered(comp.recent, K) /\ \A o \in Obj : Ordered(mem.hist[o], K)
Earlier == \A a \in comp.older, b \in Texts(comp.recent) : a < b
Short ==
  /\ Len(rows) <= sent /\ \A o \in Obj : Len(mem.hist[o]) <= sent
  /\ comp.pc = "await" => Len(comp.recent) < sent

OrderInv ==
  /\ merges = 0 => Orderly(Spoke)
  /\ merges = 0 /\ autos = 0 => Orderly(Kind) /\ Earlier
  /\ autos = 0 => Short

LEMMA FromHereOrdered ==
  ASSUME NEW K, Orderly(K), NEW h, FromHere(h)
  PROVE  Ordered(h, K)
BY WithinKeeps DEF FromHere, Sources, Orderly

LEMMA FromHereShort ==
  ASSUME DataTypes, Short, NEW S, NEW h \in Seq(S), FromHere(h)
  PROVE  Len(h) <= sent
<1>1. PICK s \in Sources : Within(h, s)
  BY DEF FromHere
<1>2. CASE s = rows
  <2>1. rows \in Seq(RowsOf(lastId, sent)) /\ sent \in Nat
    BY RowsType
  <2>2. Len(h) <= Len(rows)
    BY <1>1, <1>2, <2>1, WithinLen
  <2>. QED  BY <2>1, <2>2 DEF Short
<1>3. ASSUME NEW o \in Obj, s = mem.hist[o] PROVE Len(h) <= sent
  <2>1. s \in Seq(Entries(lastId, sent)) /\ sent \in Nat
    BY <1>3 DEF DataTypes, Mems
  <2>2. Len(h) <= Len(s)
    BY <1>1, <2>1, WithinLen
  <2>. QED  BY <1>3, <2>1, <2>2 DEF Short
<1>. QED  BY <1>1, <1>2, <1>3 DEF Sources

LEMMA ShrinkOrder == ASSUME Shrinks, NEW K, Orderly(K) PROVE Orderly(K)'
BY FromHereOrdered DEF Shrinks, Orderly

LEMMA ShrinkShort ==
  ASSUME DataTypes, DataTypes', Shrinks, Short, sent' = sent, comp'.pc = "await" => Len(comp'.recent) < sent
  PROVE  Short'
<1>1. rows' \in Seq(RowsOf(lastId, sent)') /\ \A o \in Obj : mem'.hist[o] \in Seq(Entries(lastId, sent)')
  BY DEF DataTypes, Mems
<1>2. Len(rows') <= sent
  BY <1>1, FromHereShort DEF Shrinks
<1>3. \A o \in Obj : Len(mem'.hist[o]) <= sent
  BY <1>1, FromHereShort DEF Shrinks
<1>. QED  BY <1>2, <1>3 DEF Short

\* A step by which nothing comes, the summaries' halves apart.
LEMMA ShrinkKeeps ==
  ASSUME DataTypes, DataTypes', OrderInv, Shrinks, comp' = comp \/ comp' = NoComp, sent' = sent,
         merges' = 0 => merges = 0, autos' = 0 => autos = 0
  PROVE  OrderInv'
<1>1. ASSUME merges' = 0 PROVE Orderly(Spoke)'
  BY <1>1, ShrinkOrder DEF OrderInv
<1>2. ASSUME merges' = 0, autos' = 0 PROVE Orderly(Kind)' /\ Earlier'
  <2>1. Orderly(Kind) /\ Earlier
    BY <1>2 DEF OrderInv
  <2>2. Orderly(Kind)'
    BY <2>1, ShrinkOrder
  <2>3. Earlier'
    BY <2>1 DEF Earlier, NoComp
  <2>. QED  BY <2>2, <2>3
<1>3. ASSUME autos' = 0 PROVE Short'
  <2>1. Short
    BY <1>3 DEF OrderInv
  <2>2. comp'.pc = "await" => Len(comp'.recent) < sent
    BY <2>1 DEF Short, NoComp
  <2>. QED  BY <2>1, <2>2, ShrinkShort
<1>. QED  BY <1>1, <1>2, <1>3 DEF OrderInv

LEMMA AppendOrdered ==
  ASSUME NEW S, NEW s \in Seq(S), NEW e \in S, NEW n \in Nat, Texts(s) \subseteq 1..n, e.text = {n + 1},
         NEW K, Ordered(s, K)
  PROVE  Ordered(Append(s, e), K)
<1>. DEFINE u == Append(s, e)
            k == Len(s)
<1>1. /\ DOMAIN u = 1..k + 1 /\ (\A i \in DOMAIN s : u[i] = s[i]) /\ u[k + 1] = e
      /\ DOMAIN s = 1..k /\ k \in Nat
  BY AppendFacts
<1>. HIDE DEF u, k
<1>2. SUFFICES ASSUME NEW i \in DOMAIN u, NEW j \in DOMAIN u, i < j, u[i].kind \in K, u[j].kind \in K,
                      NEW a \in u[i].text, NEW b \in u[j].text
               PROVE  a < b
  BY DEF Ordered, u
<1>3. i \in DOMAIN s /\ u[i] = s[i]
  BY <1>1, <1>2
<1>4. CASE j \in DOMAIN s
  BY <1>1, <1>2, <1>3, <1>4 DEF Ordered
<1>5. CASE j = k + 1
  <2>1. b = n + 1
    BY <1>1, <1>5
  <2>2. a \in 1..n
    BY <1>3 DEF Texts
  <2>. QED  BY <2>1, <2>2
<1>. QED  BY <1>1, <1>4, <1>5

\* What a message added does to the histories.
LEMMA AddBecomes ==
  ASSUME DataTypes, NEW m \in Mems(lastId, sent), NEW o \in Obj, NEW kind \in Kind,
         NEW tt, AddMessage(m, o, kind, tt)
  PROVE  /\ sent' = sent + 1 /\ comp' = comp
         /\ rows' = rows \/ rows' = Append(rows, NewestRow(kind))
         /\ \E p : \E id \in {0, lastId + 1} :
              /\ p \in Mems(lastId + 1, sent + 1) /\ Become(p, tt)
              /\ p.hist = Longer(m, o, Newest(id, kind))
<1>0. lastId \in Nat /\ sent \in Nat
  BY RowsType
<1>. DEFINE l == lastId + 1
            H(id) == Longer(m, o, Newest(id, kind))
            P(id) == Plus(m, o, id, kind)
            D(id) == [Plus(m, o, id, kind) EXCEPT !.cache = NoObj]
<1>1. ASSUME NEW id \in {0, lastId + 1}
      PROVE  P(id) \in Mems(l, sent + 1) /\ P(id).hist = H(id) /\ D(id) \in Mems(l, sent + 1) /\ D(id).hist = H(id)
  <2>1. l \in {lastId, lastId + 1} /\ id <= l
    BY <1>0
  <2>. HIDE DEF l
  <2>. HIDE DEF H
  <2>2. PlusOk(m, o, id, kind, l)
    BY <2>1, PlusFacts, Zenon
  <2>. QED  BY <2>2 DEF H, PlusOk
<1>2. \E p : \E id \in {0, lastId + 1} : p \in Mems(l, sent + 1) /\ Become(p, tt) /\ p.hist = H(id)
  <2>1. \/ Become(P(lastId + 1), tt) \/ Become(P(0), tt) \/ Become(D(0), tt)
    BY AddCases DEF AddCommits, AddRollsBack, AddDrops
  <2>2. 0 \in {0, lastId + 1} /\ lastId + 1 \in {0, lastId + 1}
    OBVIOUS
  <2>. HIDE DEF P, D, H, l
  <2>. QED  BY <1>1, <2>1, <2>2
<1>3. rows' = rows \/ rows' = Append(rows, NewestRow(kind))
  BY AddCases DEF AddCommits, AddRollsBack, AddDrops
<1>4. sent' = sent + 1 /\ comp' = comp
  BY AddCases
<1>. QED  BY <1>2, <1>3, <1>4

LEMMA AddOrder ==
  ASSUME DataTypes, OrderInv, NEW m \in Mems(lastId, sent), NEW o \in Obj, NEW kind \in Kind,
         NEW tt \in [Turn -> TurnSet(sent + 1)], AddMessage(m, o, kind, tt), \A x \in Obj : FromHere(m.hist[x])
  PROVE  OrderInv'
<1>0. /\ lastId \in Nat /\ sent \in Nat /\ rows \in Seq(RowsOf(lastId, sent)) /\ detached \in BOOLEAN
      /\ m.hist \in [Obj -> Seq(Entries(lastId, sent))]
      /\ UNCHANGED <<autos, merges, comp>> /\ sent' = sent + 1
  BY AddCases DEF DataTypes, Mems
<1>a. PICK p : \E id \in {0, lastId + 1} :
              /\ p \in Mems(lastId + 1, sent + 1) /\ Become(p, tt)
              /\ p.hist = Longer(m, o, Newest(id, kind))
  BY AddBecomes
<1>1. PICK id \in {0, lastId + 1} :
              /\ p \in Mems(lastId + 1, sent + 1) /\ Become(p, tt)
              /\ p.hist = Longer(m, o, Newest(id, kind))
  BY <1>a, Zenon
<1>. DEFINE e == Newest(id, kind)
            r == NewestRow(kind)
<1>2. \A x \in Obj : mem'.hist[x] \in {p.hist[x], <<>>}
  <2>1. lastId + 1 \in Nat /\ sent + 1 \in Nat
    BY <1>0
  <2>2. p \in Mems(lastId + 1, sent + 1) /\ Become(p, tt)
    BY <1>1
  <2>. QED  BY <1>0, <2>1, <2>2, BecomeFacts, Zenon
<1>3. \A x \in Obj : p.hist[x] = IF x = o THEN Append(m.hist[o], e) ELSE m.hist[x]
  BY <1>0, <1>1 DEF Longer
<1>4. rows' = rows \/ rows' = Append(rows, r)
  BY AddBecomes
<1>5. /\ e \in Entries(lastId + 1, sent + 1) /\ e.text = {sent + 1}
      /\ r \in RowsOf(lastId + 1, sent + 1) /\ r.text = {sent + 1}
  BY <1>0 DEF NewestRow, Newest, Entries, RowsOf
<1>. HIDE DEF e, r
<1>6. /\ rows \in Seq(RowsOf(lastId + 1, sent + 1)) /\ m.hist[o] \in Seq(Entries(lastId + 1, sent + 1))
      /\ Texts(rows) \subseteq 1..sent /\ Texts(m.hist[o]) \subseteq 1..sent
  <2>1. m.hist[o] \in Seq(Entries(lastId, sent))
    BY <1>0
  <2>2. Texts(rows) \subseteq 1..sent /\ Texts(m.hist[o]) \subseteq 1..sent
    BY <1>0, <2>1, TextsType, RowTextsType
  <2>3. lastId + 1 \in Nat /\ sent + 1 \in Nat /\ lastId <= lastId + 1 /\ sent <= sent + 1
    BY <1>0
  <2>4. rows \in Seq(RowsOf(lastId + 1, sent + 1)) /\ m.hist[o] \in Seq(Entries(lastId + 1, sent + 1))
    BY <1>0, <2>1, <2>3, Wider
  <2>. QED  BY <2>2, <2>4
<1>7. ASSUME NEW K, Orderly(K) PROVE Orderly(K)'
  <2>1. Ordered(rows, K) /\ Ordered(comp.recent, K) /\ \A x \in Obj : Ordered(m.hist[x], K)
    BY <1>7, FromHereOrdered DEF Orderly
  <2>2. Ordered(Append(rows, r), K) /\ Ordered(Append(m.hist[o], e), K)
    BY <1>0, <1>5, <1>6, <2>1, AppendOrdered
  <2>3. Ordered(<<>>, K)
    BY DEF Ordered
  <2>4. \A x \in Obj : Ordered(p.hist[x], K)
    BY <1>3, <2>1, <2>2
  <2>5. \A x \in Obj : Ordered(mem'.hist[x], K)
    BY <1>2, <2>3, <2>4
  <2>6. Ordered(rows', K) /\ Ordered(comp'.recent, K)
    BY <1>0, <1>4, <2>1, <2>2
  <2>. QED  BY <2>5, <2>6 DEF Orderly
<1>8. ASSUME Short PROVE Short'
  <2>1. \A x \in Obj : Len(m.hist[x]) <= sent /\ Len(m.hist[x]) \in Nat
    BY <1>0, <1>8, FromHereShort
  <2>2. Len(Append(m.hist[o], e)) = Len(m.hist[o]) + 1 /\ Len(Append(rows, r)) = Len(rows) + 1 /\ Len(rows) \in Nat
    BY <1>5, <1>6, AppendFacts
  <2>3. \A x \in Obj : Len(p.hist[x]) <= sent + 1
    <3>. TAKE x \in Obj
    <3>1. CASE x = o
      <4>1. Len(p.hist[x]) = Len(m.hist[o]) + 1 /\ Len(m.hist[o]) <= sent /\ Len(m.hist[o]) \in Nat
        BY <1>3, <2>1, <2>2, <3>1
      <4>. QED  BY <1>0, <4>1
    <3>2. CASE x # o
      <4>1. p.hist[x] = m.hist[x] /\ Len(m.hist[x]) <= sent /\ Len(m.hist[x]) \in Nat
        BY <1>3, <2>1, <3>2
      <4>. QED  BY <1>0, <4>1
    <3>. QED  BY <3>1, <3>2
  <2>4. Len(<<>>) = 0
    OBVIOUS
  <2>5. \A x \in Obj : Len(mem'.hist[x]) <= sent + 1
    <3>. TAKE x \in Obj
    <3>1. mem'.hist[x] = p.hist[x] \/ mem'.hist[x] = <<>>
      BY <1>2
    <3>. QED  BY <1>0, <2>3, <2>4, <3>1
  <2>6. Len(rows') <= sent + 1
    <3>1. Len(rows) <= sent
      BY <1>8 DEF Short
    <3>. QED  BY <1>0, <1>4, <2>2, <3>1
  <2>7. comp.pc = "await" => Len(comp.recent) < sent + 1
    <3>1. Len(comp.recent) \in Nat
      BY DEF DataTypes, CompSet
    <3>. QED  BY <1>0, <1>8, <3>1 DEF Short
  <2>. QED  BY <1>0, <2>5, <2>6, <2>7 DEF Short
<1>9. Earlier => Earlier'
  BY <1>0 DEF Earlier
<1>. QED  BY <1>0, <1>7, <1>8, <1>9 DEF OrderInv

LEMMA ReplaceFacts ==
  ASSUME DataTypes, NEW m \in Mems(lastId, sent), m.cache \in Obj, NEW new \in Seq(Entries(lastId, sent)),
         NEW tt \in [Turn -> TurnSet(sent)], Replace(m, new, tt)
  PROVE  /\ session = "stored" /\ rows' = Rewritten(new) /\ count' = Len(new) /\ turn' = tt
         /\ mem'.cache = m.cache /\ mem'.hist[m.cache] = Loaded(rows') /\ mem'.known[m.cache] = Len(new)
         /\ \A o \in Obj : o # m.cache => mem'.hist[o] \in {m.hist[o], <<>>}
         /\ detached => detached'
         /\ ~detached' => \A t \in Turn : tt[t].pc # "idle" => tt[t].sess = m.cache
<1>. DEFINE l == lastId + Len(new)
            h == Loaded(Rewritten(new))
            k == Len(new)
            p == [m EXCEPT !.hist[m.cache] = h, !.known[m.cache] = k]
<1>1. /\ sent \in Nat /\ lastId \in Nat /\ l \in Nat /\ lastId <= l /\ k \in Nat /\ detached \in BOOLEAN
      /\ Rewritten(new) \in Seq(RowsOf(l, sent))
  BY RewrittenFacts DEF DataTypes
<1>2. h \in Seq(Entries(l, sent))
  BY <1>1, LoadedFacts
<1>3. m \in Mems(l, sent)
  BY <1>1, Wider
<1>4. session = "stored" /\ rows' = Rewritten(new) /\ count' = k /\ Become(p, tt)
  BY DEF Replace
<1>. HIDE DEF l, h, k
<1>5. /\ p \in Mems(l, sent) /\ p.cache = m.cache
      /\ p.hist = [m.hist EXCEPT ![m.cache] = h] /\ p.known = [m.known EXCEPT ![m.cache] = k]
      /\ m.hist \in [Obj -> Seq(Entries(l, sent))] /\ m.known \in [Obj -> Nat]
  BY <1>1, <1>2, <1>3 DEF Mems
<1>. HIDE DEF p
<1>6. /\ turn' = tt /\ mem'.cache = p.cache
      /\ mem'.hist[m.cache] = p.hist[m.cache] /\ mem'.known[m.cache] = p.known[m.cache]
      /\ \A o \in Obj : mem'.hist[o] \in {p.hist[o], <<>>}
      /\ detached => detached'
      /\ ~detached' => \A t \in Turn : tt[t].pc # "idle" => tt[t].sess = p.cache
  <2>1. p \in Mems(l, sent) /\ Become(p, tt) /\ l \in Nat /\ sent \in Nat /\ detached \in BOOLEAN
        /\ tt \in [Turn -> TurnSet(sent)]
    BY <1>1, <1>4, <1>5
  <2>2. turn' = tt /\ mem'.cache = p.cache /\ (detached => detached')
    BY ONLY <2>1, BecomeFacts, Zenon
  <2>3. \A o \in Obj : mem'.hist[o] \in {p.hist[o], <<>>}
    BY ONLY <2>1, BecomeFacts, Zenon
  <2>4. ~detached' => \A t \in Turn : tt[t].pc # "idle" => tt[t].sess = p.cache
    BY ONLY <2>1, BecomeFacts, Zenon
  <2>5. \A o \in Obj : o = p.cache => mem'.hist[o] = p.hist[o] /\ mem'.known[o] = p.known[o]
    BY ONLY <2>1, BecomeFacts, Zenon
  <2>6. p.cache \in Obj
    BY <1>5
  <2>. QED  BY <1>5, <2>2, <2>3, <2>4, <2>5, <2>6, Zenon
<1>7. mem'.hist[m.cache] = h /\ mem'.known[m.cache] = k /\ \A o \in Obj : o # m.cache => p.hist[o] = m.hist[o]
  BY <1>5, <1>6
<1>. QED  BY <1>4, <1>5, <1>6, <1>7 DEF h, k

LEMMA ReplaceOrder ==
  ASSUME DataTypes, Found, NEW new \in Seq(Entries(lastId, sent)), NEW tt \in [Turn -> TurnSet(sent)],
         Replace(Got(New), new, tt), NEW K, Orderly(K), Ordered(new, K), comp' = comp \/ comp' = NoComp
  PROVE  Orderly(K)'
<1>. DEFINE m == Got(New)
<1>1. m \in Mems(lastId, sent) /\ m.cache \in Obj /\ \A o \in Obj : FromHere(m.hist[o])
  BY NewIsFree, GotFacts, GotFromHere
<1>. HIDE DEF m
<1>2. /\ rows' = Rewritten(new) /\ mem'.hist[m.cache] = Loaded(rows')
      /\ \A o \in Obj : o # m.cache => mem'.hist[o] \in {m.hist[o], <<>>}
  BY <1>1, ReplaceFacts DEF m
<1>3. rows' \in Seq(RowsOf(lastId + Len(new), sent)) /\ lastId + Len(new) \in Nat /\ sent \in Nat /\ Within(rows', new)
  BY <1>2, RewrittenFacts, RowsType
<1>4. Ordered(rows', K)
  BY <1>3, WithinKeeps
<1>5. Ordered(mem'.hist[m.cache], K)
  BY <1>2, <1>3, <1>4, LoadedFacts, WithinKeeps
<1>6. Ordered(<<>>, K)
  BY DEF Ordered
<1>7. ASSUME NEW o \in Obj PROVE Ordered(mem'.hist[o], K)
  BY <1>1, <1>2, <1>5, <1>6, FromHereOrdered
<1>8. Ordered(comp'.recent, K)
  BY <1>6 DEF Orderly, NoComp
<1>. QED  BY <1>4, <1>7, <1>8 DEF Orderly

\* Where the entries of a compacted history come from.
LEMMA CompactedFacts ==
  ASSUME NEW l \in Nat, NEW n \in Nat, NEW h \in Seq(Entries(l, n)),
         NEW cut \in [sys : Nat, split : Nat, older : SUBSET (1..n)], cut.sys + cut.split < Len(h)
  PROVE  LET s == CompactedBy(h, cut)
             f == [i \in Nat |-> IF i <= cut.sys THEN i ELSE i + cut.split - 1]
         IN \A i \in DOMAIN s : /\ i = cut.sys + 1 => s[i] = Summary(cut.older)
                                /\ i # cut.sys + 1 => s[i] = h[f[i]] /\ f[i] \in DOMAIN h
<1>. DEFINE a == SubSeq(h, 1, cut.sys)
            b == SubSeq(h, cut.sys + cut.split + 1, Len(h))
            s == CompactedBy(h, cut)
            x == cut.sys
            y == cut.split
<1>1. x \in Nat /\ y \in Nat /\ cut.older \in SUBSET (1..n) /\ Len(h) \in Nat /\ x + y < Len(h)
      /\ DOMAIN h = 1..Len(h)
  OBVIOUS
<1>. HIDE DEF x, y
<1>2. /\ a \in Seq(Entries(l, n)) /\ Len(a) = x
      /\ \A i \in 1..x : a[i] = h[i]
  <2>1. x \in Int /\ 1 \in Int /\ 1 <= 1 /\ x <= Len(h)
    BY <1>1
  <2>2. /\ SubSeq(h, 1, x) \in Seq(Entries(l, n))
        /\ Len(SubSeq(h, 1, x)) = IF 1 <= x THEN x - 1 + 1 ELSE 0
        /\ \A i \in 1..Len(SubSeq(h, 1, x)) : SubSeq(h, 1, x)[i] = h[1 + i - 1]
    BY <2>1, PartWithin
  <2>3. Len(SubSeq(h, 1, x)) = x /\ \A i \in 1..x : 1 + i - 1 = i
    BY <1>1, <2>2
  <2>. QED  BY <2>2, <2>3 DEF x
<1>3. /\ b \in Seq(Entries(l, n)) /\ Len(b) = Len(h) - (x + y)
      /\ \A i \in 1..Len(b) : b[i] = h[x + y + i]
  <2>. DEFINE c == x + y + 1
  <2>1. c \in Int /\ 1 <= c /\ Len(h) <= Len(h) /\ Len(h) \in Int /\ c <= Len(h)
    BY <1>1
  <2>2. /\ SubSeq(h, c, Len(h)) \in Seq(Entries(l, n))
        /\ Len(SubSeq(h, c, Len(h))) = IF c <= Len(h) THEN Len(h) - c + 1 ELSE 0
        /\ \A i \in 1..Len(SubSeq(h, c, Len(h))) : SubSeq(h, c, Len(h))[i] = h[c + i - 1]
    <3>. HIDE DEF c
    <3>. QED  BY <2>1, PartWithin
  <2>3. Len(SubSeq(h, c, Len(h))) = Len(h) - (x + y) /\ \A i \in 1..(Len(h) - (x + y)) : c + i - 1 = x + y + i
    <3>. DEFINE n0 == Len(h)
                n1 == Len(SubSeq(h, c, Len(h)))
    <3>1. c = x + y + 1 /\ n1 = IF c <= n0 THEN n0 - c + 1 ELSE 0
      BY <2>2
    <3>. HIDE DEF c, n0, n1
    <3>2. n0 \in Nat /\ x \in Nat /\ y \in Nat /\ x + y < n0
      BY <1>1 DEF n0
    <3>3. n1 = n0 - (x + y) /\ \A i \in 1..(n0 - (x + y)) : c + i - 1 = x + y + i
      BY <3>1, <3>2
    <3>. QED  BY <3>3 DEF n0, n1
  <2>4. b = SubSeq(h, c, Len(h))
    BY DEF x, y
  <2>. HIDE DEF b, c
  <2>. QED  BY <2>2, <2>3, <2>4
<1>4. s = Folded(a, cut.older, b)
  BY DEF CompactedBy
<1>. HIDE DEF a, b, s
<1>5. /\ Folded(a, cut.older, b) \in Seq(Entries(l, n)) /\ Len(Folded(a, cut.older, b)) = Len(a) + 1 + Len(b)
      /\ \A i \in 1..Len(Folded(a, cut.older, b)) :
           /\ i <= Len(a) => Folded(a, cut.older, b)[i] = a[i]
           /\ i = Len(a) + 1 => Folded(a, cut.older, b)[i] = Summary(cut.older)
           /\ i > Len(a) + 1 => Folded(a, cut.older, b)[i] = b[i - (Len(a) + 1)]
  <2>1. a \in Seq(Entries(l, n)) /\ b \in Seq(Entries(l, n)) /\ cut.older \in SUBSET (1..n)
    BY <1>1, <1>2, <1>3
  <2>2. l \in Nat /\ n \in Nat
    OBVIOUS
  <2>3. IsFolded(Folded(a, cut.older, b), Entries(l, n), a, cut.older, b)
    BY ONLY <2>1, <2>2, FoldedFacts, Zenon
  <2>. QED  BY ONLY <2>3 DEF IsFolded
<1>6. ASSUME NEW i \in DOMAIN s
      PROVE  /\ i = x + 1 => s[i] = Summary(cut.older)
             /\ i <= x => s[i] = h[i] /\ i \in DOMAIN h
             /\ i > x + 1 => s[i] = h[i + y - 1] /\ i + y - 1 \in DOMAIN h
  <2>1. i \in 1..Len(s) /\ Len(s) = x + 1 + (Len(h) - (x + y)) /\ i \in Nat
    BY <1>1, <1>2, <1>3, <1>4, <1>5
  <2>2. i = x + 1 => s[i] = Summary(cut.older)
    BY <1>2, <1>4, <1>5, <2>1
  <2>3. ASSUME i <= x PROVE s[i] = h[i] /\ i \in DOMAIN h
    <3>1. s[i] = a[i] /\ i \in 1..x
      BY <1>1, <1>2, <1>4, <1>5, <2>1, <2>3
    <3>2. i \in 1..Len(h)
      BY <1>1, <3>1
    <3>. QED  BY <1>1, <1>2, <3>1, <3>2
  <2>4. ASSUME i > x + 1 PROVE s[i] = h[i + y - 1] /\ i + y - 1 \in DOMAIN h
    <3>1. s[i] = b[i - (x + 1)]
      BY <1>2, <1>4, <1>5, <2>1, <2>4
    <3>2. i - (x + 1) \in 1..Len(b) /\ x + y + (i - (x + 1)) = i + y - 1 /\ i + y - 1 \in 1..Len(h)
      <4>. DEFINE n0 == Len(h)
                  n1 == Len(b)
                  n2 == Len(s)
      <4>1. n0 \in Nat /\ n1 = n0 - (x + y) /\ n2 = x + 1 + (n0 - (x + y)) /\ i \in 1..n2 /\ i > x + 1
            /\ x \in Nat /\ y \in Nat /\ x + y < n0
        BY <1>1, <1>3, <2>1, <2>4
      <4>. HIDE DEF n0, n1, n2
      <4>2. i \in Nat /\ i <= n2 /\ n2 = 1 + n0 - y /\ n1 = n0 - x - y
        BY <4>1
      <4>3. i - (x + 1) \in 1..n1
        <5>1. i - (x + 1) \in Int /\ i - (x + 1) >= 1 /\ i - (x + 1) <= n1 /\ n1 \in Int
          BY <4>1, <4>2
        <5>. QED  BY <5>1
      <4>4. x + y + (i - (x + 1)) = i + y - 1
        BY <4>1, <4>2
      <4>5. i + y - 1 \in 1..n0
        BY <4>1, <4>2
      <4>. QED  BY <4>3, <4>4, <4>5 DEF n0, n1
    <3>3. b[i - (x + 1)] = h[x + y + (i - (x + 1))]
      BY <1>3, <3>2
    <3>. QED  BY <1>1, <3>1, <3>2, <3>3
  <2>. QED  BY <2>2, <2>3, <2>4
<1>7. \A i \in DOMAIN s : i \in Nat
  BY <1>4, <1>5
<1>. QED
  <2>. SUFFICES ASSUME NEW i \in DOMAIN s
                PROVE  LET j == IF i <= x THEN i ELSE i + y - 1
                       IN /\ i = x + 1 => s[i] = Summary(cut.older)
                          /\ i # x + 1 => s[i] = h[j] /\ j \in DOMAIN h
    BY <1>7 DEF s, x, y
  <2>. QED  BY <1>1, <1>6, <1>7

LEMMA CompactedOrdered ==
  ASSUME NEW l \in Nat, NEW n \in Nat, NEW h \in Seq(Entries(l, n)),
         NEW cut \in [sys : Nat, split : Nat, older : SUBSET (1..n)], cut.sys + cut.split < Len(h),
         Ordered(h, Spoke)
  PROVE  Ordered(CompactedBy(h, cut), Spoke)
<1>. DEFINE s == CompactedBy(h, cut)
            f == [i \in Nat |-> IF i <= cut.sys THEN i ELSE i + cut.split - 1]
<1>1. \A i \in DOMAIN s : /\ i = cut.sys + 1 => s[i] = Summary(cut.older)
                          /\ i # cut.sys + 1 => s[i] = h[f[i]] /\ f[i] \in DOMAIN h
  BY CompactedFacts
<1>2. DOMAIN s \subseteq Nat
  <2>1. s \in Seq(Entries(l, n))
    BY CompactedType
  <2>. HIDE DEF s
  <2>. QED  BY <2>1
<1>3. Summary(cut.older).kind \notin Spoke
  BY DEF Summary, Spoke
<1>4. cut.sys \in Nat /\ cut.split \in Nat
  OBVIOUS
<1>5. \A i, j \in Nat : i < j /\ i # cut.sys + 1 /\ j # cut.sys + 1 => f[i] < f[j]
  BY <1>4
<1>. HIDE DEF s, f
<1>6. ASSUME NEW i \in DOMAIN s, NEW j \in DOMAIN s, i < j, s[i].kind \in Spoke, s[j].kind \in Spoke,
             NEW a \in s[i].text, NEW b \in s[j].text
      PROVE  a < b
  <2>1. i # cut.sys + 1 /\ j # cut.sys + 1
    BY <1>1, <1>3, <1>6
  <2>2. s[i] = h[f[i]] /\ s[j] = h[f[j]] /\ f[i] \in DOMAIN h /\ f[j] \in DOMAIN h /\ f[i] < f[j]
    BY <1>1, <1>2, <1>5, <1>6, <2>1
  <2>. QED  BY <1>6, <2>2 DEF Ordered
<1>. QED  BY <1>6 DEF Ordered, s

LEMMA ShortenedOrdered ==
  ASSUME DataTypes
  PROVE  /\ Ordered(comp.recent, Spoke) => Ordered(Shortened, Spoke)
         /\ Ordered(comp.recent, Kind) /\ Earlier => Ordered(Shortened, Kind)
<1>. DEFINE s == Shortened
            r == comp.recent
<1>1. /\ s \in Seq(Entries(lastId, sent)) /\ Len(s) = 1 + Len(r) /\ s[1] = Summary(comp.older)
      /\ (\A i \in 1..Len(r) : s[i + 1] = r[i]) /\ r \in Seq(Entries(lastId, sent))
  BY ShortenedFacts DEF DataTypes, CompSet
<1>. HIDE DEF s, r
<1>2. DOMAIN s = 1..Len(r) + 1 /\ DOMAIN r = 1..Len(r) /\ Len(r) \in Nat
  BY <1>1
<1>3. ASSUME NEW i \in DOMAIN s, i # 1 PROVE i - 1 \in DOMAIN r /\ s[i] = r[i - 1]
  <2>1. i - 1 \in 1..Len(r) /\ (i - 1) + 1 = i
    BY <1>2, <1>3
  <2>. QED  BY <1>1, <1>2, <2>1
<1>4. ASSUME NEW K, Ordered(r, K), "system" \in K => Earlier PROVE Ordered(s, K)
  <2>. SUFFICES ASSUME NEW i \in DOMAIN s, NEW j \in DOMAIN s, i < j, s[i].kind \in K, s[j].kind \in K,
                       NEW a \in s[i].text, NEW b \in s[j].text
                PROVE  a < b
    BY DEF Ordered
  <2>1. j # 1 /\ j - 1 \in DOMAIN r /\ s[j] = r[j - 1]
    BY <1>2, <1>3
  <2>2. CASE i = 1
    <3>1. a \in comp.older /\ "system" \in K
      BY <1>1, <2>2 DEF Summary
    <3>2. b \in Texts(comp.recent)
      BY <2>1 DEF Texts, r
    <3>. QED  BY <1>4, <3>1, <3>2 DEF Earlier
  <2>3. CASE i # 1
    <3>1. i - 1 \in DOMAIN r /\ s[i] = r[i - 1] /\ i - 1 < j - 1
      BY <1>2, <1>3, <2>3
    <3>. QED  BY <1>4, <2>1, <3>1 DEF Ordered
  <2>. QED  BY <2>2, <2>3
<1>5. "system" \notin Spoke
  BY DEF Spoke
<1>. QED  BY <1>4, <1>5 DEF s, r

LEMMA BeginOrder == ASSUME DataTypes, DataTypes', OrderInv, BeginCompact(New) PROVE OrderInv'
<1>. DEFINE h == Shown(Got(New))
            k == KeptLen(h)
            u == SubSeq(h, Len(h) - k + 1, Len(h))
            v == SubSeq(h, 1, Len(h) - k)
<1>1. /\ Found /\ Len(h) >= CompactMin /\ UNCHANGED <<sent, autos, merges>>
      /\ comp' = [pc |-> "await", recent |-> u, older |-> Texts(v)]
  BY BeginCases
<1>2. h \in Seq(Entries(lastId, sent)) /\ FromHere(h) /\ Shrinks /\ Len(h) \in Nat /\ sent \in Nat
  <2>1. h \in Seq(Entries(lastId, sent)) /\ FromHere(h)
    BY <1>1, NewIsFree, GotFacts, GotFromHere
  <2>. QED  BY <2>1, BeginShrinks, RowsType
<1>. HIDE DEF h
<1>3. /\ k \in Nat /\ 1 <= k /\ k < Len(h)
      /\ u \in Seq(Entries(lastId, sent)) /\ Len(u) = k /\ \A i \in 1..k : u[i] = h[Len(h) - k + i]
      /\ v \in Seq(Entries(lastId, sent)) /\ Len(v) = Len(h) - k /\ \A i \in 1..(Len(h) - k) : v[i] = h[i]
  BY <1>1, <1>2, TailFacts
<1>. HIDE DEF k, u, v
<1>4. ASSUME Ordered(h, Kind) PROVE Earlier'
  <2>. SUFFICES ASSUME NEW a \in Texts(v), NEW b \in Texts(u) PROVE a < b
    BY <1>1 DEF Earlier
  <2>0. DOMAIN v = 1..(Len(h) - k) /\ DOMAIN u = 1..k
    BY <1>3
  <2>1. PICK i \in 1..(Len(h) - k) : a \in h[i].text
    <3>1. PICK i \in DOMAIN v : a \in v[i].text
      BY DEF Texts
    <3>2. i \in 1..(Len(h) - k) /\ v[i] = h[i]
      BY <1>3, <2>0
    <3>. QED  BY <3>1, <3>2
  <2>2. PICK j \in 1..k : b \in h[Len(h) - k + j].text
    <3>1. PICK j \in DOMAIN u : b \in u[j].text
      BY DEF Texts
    <3>2. j \in 1..k /\ u[j] = h[Len(h) - k + j]
      BY <1>3, <2>0
    <3>. QED  BY <3>1, <3>2
  <2>3. i \in DOMAIN h /\ Len(h) - k + j \in DOMAIN h /\ i < Len(h) - k + j
    <3>1. DOMAIN h = 1..Len(h)
      BY <1>2
    <3>2. k \in Nat /\ 1 <= k /\ k < Len(h) /\ Len(h) \in Nat
      BY <1>2, <1>3
    <3>. QED  BY ONLY <3>1, <3>2, i \in 1..(Len(h) - k), j \in 1..k
  <2>4. \A x \in DOMAIN h : h[x] \in Entries(lastId, sent)
    BY <1>2
  <2>5. h[i].kind \in Kind /\ h[Len(h) - k + j].kind \in Kind
    BY <2>3, <2>4 DEF Entries
  <2>. QED  BY <1>4, <2>1, <2>2, <2>3, <2>5 DEF Ordered
<1>5. ASSUME merges = 0 PROVE Orderly(Spoke)'
  BY <1>2, <1>5, ShrinkOrder DEF OrderInv
<1>6. ASSUME merges = 0, autos = 0 PROVE Orderly(Kind)' /\ Earlier'
  BY <1>2, <1>4, <1>6, ShrinkOrder, FromHereOrdered DEF OrderInv
<1>7. ASSUME autos = 0 PROVE Short'
  <2>1. Short
    BY <1>7 DEF OrderInv
  <2>2. Len(h) <= sent
    BY <1>2, <2>1, FromHereShort
  <2>3. Len(comp'.recent) < sent
    BY <1>1, <1>2, <1>3, <2>2
  <2>. QED  BY <1>1, <1>2, <2>1, <2>3, ShrinkShort
<1>. QED  BY <1>1, <1>5, <1>6, <1>7 DEF OrderInv

LEMMA EndOrder == ASSUME DataTypes, DataTypes', OrderInv, EndCompact(New) PROVE OrderInv'
<1>1. /\ Found /\ comp.pc = "await" /\ comp' = NoComp /\ UNCHANGED <<sent, autos, merges>>
  BY EndCases
<1>2. CASE ~Replace(Got(New), Shortened, turn)
  BY <1>1, <1>2, EndShrinks, ShrinkKeeps
<1>3. CASE Replace(Got(New), Shortened, turn)
  <2>1. /\ Shortened \in Seq(Entries(lastId, sent)) /\ Len(Shortened) = 1 + Len(comp.recent)
        /\ turn \in [Turn -> TurnSet(sent)] /\ Len(comp.recent) \in Nat /\ lastId \in Nat /\ sent \in Nat
    BY ShortenedFacts DEF DataTypes, CompSet
  <2>2. ASSUME NEW K, Orderly(K), Ordered(Shortened, K) PROVE Orderly(K)'
    BY <1>1, <1>3, <2>1, <2>2, ReplaceOrder
  <2>3. merges = 0 => Orderly(Spoke)'
    BY <2>2, ShortenedOrdered DEF OrderInv, Orderly
  <2>4. merges = 0 /\ autos = 0 => Orderly(Kind)' /\ Earlier'
    <3>1. Earlier'
      BY <1>1 DEF Earlier, NoComp
    <3>. QED  BY <2>2, <3>1, ShortenedOrdered DEF OrderInv, Orderly
  <2>5. ASSUME Short PROVE Short'
    <3>. DEFINE m == Got(New)
    <3>1. m \in Mems(lastId, sent) /\ m.cache \in Obj /\ \A o \in Obj : FromHere(m.hist[o])
      BY <1>1, NewIsFree, GotFacts, GotFromHere
    <3>. HIDE DEF m
    <3>2. /\ rows' = Rewritten(Shortened) /\ mem'.hist[m.cache] = Loaded(rows')
          /\ \A o \in Obj : o # m.cache => mem'.hist[o] \in {m.hist[o], <<>>}
      BY <1>3, <2>1, <3>1, ReplaceFacts DEF m
    <3>3. rows' \in Seq(RowsOf(lastId + Len(Shortened), sent)) /\ Len(rows') = Len(Shortened) /\ lastId + Len(Shortened) \in Nat
      BY <2>1, <3>2, RewrittenFacts
    <3>4. Len(rows') <= sent
      BY <1>1, <2>1, <2>5, <3>3 DEF Short
    <3>5. Len(Loaded(rows')) <= sent
      BY <2>1, <3>3, <3>4, LoadedFacts
    <3>6. ASSUME NEW o \in Obj PROVE Len(mem'.hist[o]) <= sent
      <4>1. m.hist[o] \in Seq(Entries(lastId, sent)) /\ Len(<<>>) = 0
        BY <3>1 DEF Mems
      <4>2. Len(m.hist[o]) <= sent
        BY <2>5, <3>1, <4>1, FromHereShort
      <4>3. CASE o = m.cache
        BY <3>2, <3>5, <4>3
      <4>4. CASE o # m.cache
        <5>1. mem'.hist[o] = m.hist[o] \/ mem'.hist[o] = <<>>
          BY <3>2, <4>4
        <5>. QED  BY <2>1, <4>1, <4>2, <5>1
      <4>. QED  BY <4>3, <4>4
    <3>7. comp'.pc # "await"
      BY <1>1 DEF NoComp
    <3>. QED  BY <1>1, <3>4, <3>6, <3>7 DEF Short
  <2>. QED  BY <1>1, <2>3, <2>4, <2>5 DEF OrderInv
<1>. QED  BY <1>2, <1>3

LEMMA AutoOrder ==
  ASSUME DataTypes, DataTypes', OrderInv, BoundTypes, NEW t \in Turn, AutoCompact(t, New)
  PROVE  OrderInv'
<1>. DEFINE s == AutoCompacted(t)
            o == turn[t].sess
<1>1. /\ turn[t].pc = "compact" /\ Found
      /\ turn[t].cut.sys + turn[t].cut.split < Len(mem.hist[o])
      /\ autos' = autos + 1 /\ UNCHANGED <<merges, comp>>
      /\ \/ Replace(Got(New), s, TurnRuns(t))
         \/ Become([Got(New) EXCEPT !.hist[o] = AllDangling(s)], TurnRuns(t)) /\ rows' = rows
  BY AutoCompactCases
<1>2. /\ o \in Obj /\ mem.hist[o] \in Seq(Entries(lastId, sent))
      /\ turn[t].cut \in [sys : Nat, split : Nat, older : SUBSET (1..sent)]
      /\ s \in Seq(Entries(lastId, sent)) /\ TurnRuns(t) \in [Turn -> TurnSet(sent)]
  BY <1>1, AutoCompactedFacts
<1>3. autos' # 0
  BY <1>1 DEF BoundTypes
<1>4. ASSUME merges = 0 PROVE Orderly(Spoke)'
  <2>1. Orderly(Spoke) /\ Ordered(mem.hist[o], Spoke) /\ lastId \in Nat /\ sent \in Nat
    BY <1>2, <1>4, RowsType DEF OrderInv, Orderly
  <2>2. Ordered(s, Spoke)
    BY <1>1, <1>2, <2>1, CompactedOrdered DEF AutoCompacted
  <2>. HIDE DEF s, o
  <2>3. CASE Replace(Got(New), s, TurnRuns(t))
    BY <1>1, <1>2, <2>1, <2>2, <2>3, ReplaceOrder
  <2>4. CASE Become([Got(New) EXCEPT !.hist[o] = AllDangling(s)], TurnRuns(t)) /\ rows' = rows
    <3>. DEFINE m == Got(New)
                l == lastId + Len(s)
                h == AllDangling(s)
                p == [m EXCEPT !.hist[o] = h]
    <3>1. m \in Mems(lastId, sent) /\ \A x \in Obj : FromHere(m.hist[x])
      BY <1>1, NewIsFree, GotFacts, GotFromHere
    <3>2. h \in Seq(Entries(l, sent)) /\ l \in Nat /\ lastId <= l /\ Within(h, s)
      BY <1>2, AllDanglingFacts
    <3>. HIDE DEF m, h, l
    <3>3. m \in Mems(l, sent)
      BY <2>1, <3>1, <3>2, Wider
    <3>4. p \in Mems(l, sent) /\ p.hist = [m.hist EXCEPT ![o] = h] /\ m.hist \in [Obj -> Seq(Entries(l, sent))]
      BY <1>2, <3>2, <3>3 DEF Mems
    <3>5. Become(p, TurnRuns(t))
      BY <2>4 DEF m, h
    <3>. HIDE DEF p
    <3>6. \A x \in Obj : mem'.hist[x] \in {p.hist[x], <<>>}
      <4>1. detached \in BOOLEAN
        BY DEF DataTypes
      <4>. QED  BY <1>2, <2>1, <3>2, <3>4, <3>5, <4>1, BecomeFacts
    <3>7. Ordered(h, Spoke)
      BY <2>2, <3>2, WithinKeeps
    <3>8. \A x \in Obj : Ordered(p.hist[x], Spoke)
      BY <2>1, <3>1, <3>4, <3>7, FromHereOrdered
    <3>9. Ordered(<<>>, Spoke)
      BY DEF Ordered
    <3>10. \A x \in Obj : Ordered(mem'.hist[x], Spoke)
      BY <3>6, <3>8, <3>9
    <3>. QED  BY <1>1, <2>1, <2>4, <3>10 DEF Orderly
  <2>. QED  BY <1>1, <2>3, <2>4 DEF s, o
<1>. QED  BY <1>1, <1>3, <1>4 DEF OrderInv

\* A merge: the histories only get shorter.
LEMMA MergeOrder == ASSUME DataTypes, DataTypes', BoundTypes, OrderInv, MergeReplies(New) PROVE OrderInv'
<1>. DEFINE m == Got(New)
            h == Shown(m)
            e == MergedReply(h)
            u == MergedInto(h, e)
<1>1. /\ Found /\ Cardinality(Replies(h)) >= 2 /\ merges' = merges + 1
      /\ Become([m EXCEPT !.hist[m.cache] = MergedInto(@, e)], turn)
      /\ \/ rows' = MergedInto(rows, MergedRow(h)) /\ Cardinality(Replies(rows)) >= 2
         \/ rows' = rows
      /\ UNCHANGED <<autos, comp, sent>>
  BY MergeCases
<1>2. /\ m \in Mems(lastId, sent) /\ m.cache \in Obj /\ h \in Seq(Entries(lastId, sent))
      /\ h = m.hist[m.cache] /\ FromHere(h) /\ \A o \in Obj : FromHere(m.hist[o])
      /\ rows \in Seq(RowsOf(lastId, sent)) /\ lastId \in Nat /\ sent \in Nat
      /\ turn \in [Turn -> TurnSet(sent)] /\ detached \in BOOLEAN
  <2>1. turn \in [Turn -> TurnSet(sent)] /\ detached \in BOOLEAN
    BY DEF DataTypes
  <2>. QED  BY <1>1, <2>1, RowsType, NewIsFree, GotFacts, GotFromHere
<1>3. merges' # 0
  BY <1>1 DEF BoundTypes
<1>. SUFFICES ASSUME Short PROVE Short'
  BY <1>1, <1>3 DEF OrderInv
<1>. HIDE DEF m, h
<1>4. e \in Entries(lastId, sent)
  BY <1>1, <1>2, MergedReplyType
<1>5. u \in Seq(Entries(lastId, sent)) /\ Len(u) = Len(h) - Lost(h) /\ Lost(h) \in {1, 2}
  BY <1>1, <1>2, <1>4, MergedFacts
<1>6. [m EXCEPT !.hist[m.cache] = MergedInto(@, e)] = [m EXCEPT !.hist[m.cache] = u]
  <2>. HIDE DEF e
  <2>. QED  BY <1>2 DEF Mems
<1>. HIDE DEF e, u
<1>. DEFINE p == [m EXCEPT !.hist[m.cache] = u]
<1>7. p \in Mems(lastId, sent) /\ p.hist = [m.hist EXCEPT ![m.cache] = u] /\ m.hist \in [Obj -> Seq(Entries(lastId, sent))]
  BY <1>2, <1>5 DEF Mems
<1>8. Become(p, turn)
  BY <1>1, <1>6
<1>. HIDE DEF p
<1>9. \A o \in Obj : mem'.hist[o] \in {p.hist[o], <<>>}
  BY <1>2, <1>7, <1>8, BecomeFacts
<1>10. Len(u) <= sent
  <2>1. Len(h) <= sent /\ Len(h) \in Nat
    BY <1>2, FromHereShort
  <2>. QED  BY <1>2, <1>5, <2>1
<1>11. ASSUME NEW o \in Obj PROVE Len(mem'.hist[o]) <= sent
  <2>1. Len(m.hist[o]) <= sent
    BY <1>2, <1>7, FromHereShort
  <2>2. Len(p.hist[o]) <= sent
    BY <1>7, <1>10, <2>1
  <2>3. mem'.hist[o] = p.hist[o] \/ mem'.hist[o] = <<>>
    BY <1>9
  <2>4. Len(<<>>) = 0
    OBVIOUS
  <2>. QED  BY <1>2, <2>2, <2>3, <2>4
<1>12. Len(rows') <= sent
  <2>1. Len(rows) <= sent /\ Len(rows) \in Nat
    BY <1>2 DEF Short
  <2>2. CASE rows' = MergedInto(rows, MergedRow(h)) /\ Cardinality(Replies(rows)) >= 2
    <3>1. MergedRow(h) \in RowsOf(lastId, sent)
      BY <1>1, <1>2, <2>2, MergedRowType
    <3>2. Len(rows') = Len(rows) - Lost(rows) /\ Lost(rows) \in {1, 2}
      BY <1>2, <2>2, <3>1, MergedFacts
    <3>. QED  BY <1>2, <2>1, <3>2
  <2>. QED  BY <1>1, <2>1, <2>2
<1>. QED  BY <1>1, <1>11, <1>12 DEF Short

LEMMA NewKinds ==
  /\ \A kind \in WriterKind \cup TurnKind : kind \in Kind /\ kind # "system"
  /\ "user" \in Kind /\ "assistant" \in Kind
BY KindAssumption DEF Kind

\* The steps that add a message.
LEMMA WriterOrder == ASSUME DataTypes, OrderInv, NEW kind \in WriterKind, OtherWriter(New, kind) PROVE OrderInv'
<1>1. /\ Found /\ AddMessage(Got(New), Got(New).cache, kind, turn)
  BY DEF OtherWriter
<1>2. Got(New) \in Mems(lastId, sent) /\ Got(New).cache \in Obj /\ \A x \in Obj : FromHere(Got(New).hist[x])
  BY <1>1, NewIsFree, GotFacts, GotFromHere
<1>3. turn \in [Turn -> TurnSet(sent + 1)] /\ kind \in Kind
  BY Wider, NewKinds DEF DataTypes
<1>. QED  BY <1>1, <1>2, <1>3, AddOrder

LEMMA TurnAddsOrder ==
  ASSUME DataTypes, OrderInv, NEW t \in Turn, turn[t].pc # "idle", NEW kind \in Kind,
         NEW tt \in [Turn -> TurnSet(sent + 1)], AddMessage(mem, turn[t].sess, kind, tt)
  PROVE  OrderInv'
<1>1. mem \in Mems(lastId, sent) /\ turn[t].sess \in Obj /\ \A x \in Obj : FromHere(mem.hist[x])
  BY FromHereFacts DEF DataTypes, Holding
<1>. QED  BY <1>1, AddOrder

\* What the turns' steps make of the turns.
LEMMA TurnAdds ==
  ASSUME DataTypes, NEW t \in Turn
  PROVE  /\ \A kind \in TurnKind : TurnSends(t, kind) =>
              /\ kind \in Kind /\ turn[t].pc # "idle" /\ [turn EXCEPT ![t].pc = "run"] \in [Turn -> TurnSet(sent + 1)]
              /\ AddMessage(mem, turn[t].sess, kind, [turn EXCEPT ![t].pc = "run"])
         /\ TurnReplies(t) =>
              /\ turn[t].pc # "idle" /\ [turn EXCEPT ![t] = Idle] \in [Turn -> TurnSet(sent + 1)]
              /\ AddMessage(mem, turn[t].sess, "assistant", [turn EXCEPT ![t] = Idle])
         /\ \A p \in Preface : TurnSendsFull(t, p) =>
              \E tt \in [Turn -> TurnSet(sent + 1)] : turn[t].pc # "idle" /\ AddMessage(mem, turn[t].sess, "user", tt)
                                                      /\ tt[t].pc = "compact"
                                                      /\ \A u \in Turn : tt[u].sess = turn[u].sess /\ (u # t => tt[u] = turn[u])
<1>0. turn \in [Turn -> TurnSet(sent + 1)] /\ Holding(turn) /\ sent + 1 \in Nat /\ sent \in Nat /\ lastId \in Nat
      /\ mem \in Mems(lastId, sent)
  BY Wider DEF DataTypes
<1>1. ASSUME NEW kind \in TurnKind, TurnSends(t, kind)
      PROVE  /\ kind \in Kind /\ turn[t].pc # "idle" /\ [turn EXCEPT ![t].pc = "run"] \in [Turn -> TurnSet(sent + 1)]
             /\ AddMessage(mem, turn[t].sess, kind, [turn EXCEPT ![t].pc = "run"])
  <2>1. turn[t].pc = "open" /\ AddMessage(mem, turn[t].sess, kind, [turn EXCEPT ![t].pc = "run"])
    BY <1>1 DEF TurnSends
  <2>2. [turn EXCEPT ![t].pc = "run"] \in [Turn -> TurnSet(sent + 1)]
    BY <1>0, <2>1, TurnMoves
  <2>. QED  BY <2>1, <2>2, NewKinds
<1>2. ASSUME TurnReplies(t)
      PROVE  /\ turn[t].pc # "idle" /\ [turn EXCEPT ![t] = Idle] \in [Turn -> TurnSet(sent + 1)]
             /\ AddMessage(mem, turn[t].sess, "assistant", [turn EXCEPT ![t] = Idle])
  <2>1. [turn EXCEPT ![t] = Idle] \in [Turn -> TurnSet(sent + 1)]
    BY <1>0, TurnMoves
  <2>. QED  BY <1>2, <2>1 DEF TurnReplies
<1>3. ASSUME NEW p \in Preface, TurnSendsFull(t, p)
      PROVE  \E tt \in [Turn -> TurnSet(sent + 1)] : turn[t].pc # "idle" /\ AddMessage(mem, turn[t].sess, "user", tt)
                                                      /\ tt[t].pc = "compact"
                                                      /\ \A u \in Turn : tt[u].sess = turn[u].sess /\ (u # t => tt[u] = turn[u])
  <2>. DEFINE e == [id |-> 0, text |-> {sent + 1}, kind |-> "user"]
              h == Append(mem.hist[turn[t].sess], e)
              c == CutOf(h, p)
              tt == [turn EXCEPT ![t].pc = "compact", ![t].cut = c]
  <2>1. turn[t].pc = "open" /\ AddMessage(mem, turn[t].sess, "user", tt)
    BY <1>3 DEF TurnSendsFull
  <2>2. e \in Entries(lastId, sent + 1) /\ mem.hist[turn[t].sess] \in Seq(Entries(lastId, sent + 1))
    <3>1. turn[t].sess \in Obj
      BY <1>0, <2>1 DEF Holding
    <3>2. mem \in Mems(lastId, sent + 1)
      <4>1. lastId <= lastId /\ sent <= sent + 1
        BY <1>0
      <4>. QED  BY <1>0, <4>1, Wider
    <3>3. e \in Entries(lastId, sent + 1)
      BY <1>0 DEF Entries, Kind
    <3>. QED  BY <3>1, <3>2, <3>3 DEF Mems
  <2>. HIDE DEF e
  <2>3. h \in Seq(Entries(lastId, sent + 1))
    BY <2>2
  <2>. HIDE DEF h
  <2>4. c \in [sys : Nat, split : Nat, older : SUBSET (1..sent + 1)]
    BY <1>0, <2>3, CutType
  <2>. HIDE DEF c
  <2>5. tt \in [Turn -> TurnSet(sent + 1)]
    BY <1>0, <2>1, <2>4, TurnMoves
  <2>6. tt[t].pc = "compact" /\ \A u \in Turn : tt[u].sess = turn[u].sess /\ (u # t => tt[u] = turn[u])
    BY <1>0 DEF TurnSet
  <2>. HIDE DEF tt
  <2>. QED  BY <2>1, <2>5, <2>6
<1>. QED  BY <1>1, <1>2, <1>3

LEMMA QuietOrder ==
  ASSUME DataTypes, DataTypes', OrderInv,
         \/ UNCHANGED vars \/ CompactFails \/ DeleteCommits \/ DeleteFails \/ DeleteSession \/ Restart(New)
         \/ \E t \in Turn : TurnOpens(t, New) \/ AutoCompactSkipped(t) \/ TurnFails(t)
  PROVE  OrderInv'
<1>1. (comp' = comp \/ comp' = NoComp) /\ UNCHANGED <<sent, merges, autos>>
  <2>1. CASE Restart(New)
    BY <2>1, RestartCases
  <2>. QED  BY <2>1 DEF vars, pastVars, CompactFails, DeleteCommits, DeleteFails, DeleteSession,
                        TurnOpens, AutoCompactSkipped, TurnFails
<1>. QED  BY <1>1, QuietShrinks, ShrinkKeeps

LEMMA RegeneratePositions ==
  ASSUME DataTypes, NEW p \in 1..MaxMsgs, Regenerate(New, p)
  PROVE  p - 1 - PageStart \in Nat /\ p - 1 \in Nat /\ Truncate(New, p - 1 - PageStart, p - 1)
<1>1. PageStart \in Nat /\ PageStart <= Len(rows) /\ Len(rows) \in Nat
  BY PageFacts DEF DataTypes
<1>2. p \in (PageStart + 1)..Len(rows) /\ Truncate(New, p - 1 - PageStart, p - 1)
  BY DEF Regenerate
<1>. QED  BY <1>1, <1>2

LEMMA OrderStep == ASSUME DataTypes, DataTypes', BoundTypes, OrderInv, [Next]_vars PROVE OrderInv'
<1>1. ASSUME NEW kind \in WriterKind, OtherWriter(New, kind) PROVE OrderInv'
  BY <1>1, WriterOrder
<1>2. ASSUME NEW keep \in Nat, NEW meant \in Nat, Truncate(New, keep, meant) PROVE OrderInv'
  <2>1. comp' = comp /\ UNCHANGED <<sent, merges, autos>>
    BY <1>2 DEF Truncate
  <2>. QED  BY <1>2, <2>1, TruncateShrinks, ShrinkKeeps
<1>3. ASSUME NEW keep \in 0..MaxMsgs, ToolTruncates(New, keep) PROVE OrderInv'
  <2>1. keep \in Nat
    BY LimitAssumption
  <2>. QED  BY <1>2, <1>3, <2>1 DEF ToolTruncates
<1>4. ASSUME NEW p \in 1..MaxMsgs, Regenerate(New, p) PROVE OrderInv'
  BY <1>2, <1>4, RegeneratePositions
<1>5. ASSUME NEW i \in 1..MaxMsgs, DeleteMessage(New, i) PROVE OrderInv'
  <2>1. comp' = comp /\ UNCHANGED <<sent, merges, autos>>
    BY <1>5, DeleteCases
  <2>. QED  BY <1>5, <2>1, DeleteShrinks, ShrinkKeeps
<1>6. CASE MergeReplies(New)
  BY <1>6, MergeOrder
<1>7. CASE ReadHistory(New)
  <2>1. comp' = comp /\ UNCHANGED <<sent, merges, autos>>
    BY <1>7, ReadCases
  <2>. QED  BY <1>7, <2>1, ReadShrinks, ShrinkKeeps
<1>8. CASE Request(New)
  BY <1>1, <1>3, <1>4, <1>5, <1>6, <1>7, <1>8, BeginOrder, EndOrder DEF Request
<1>9. ASSUME NEW t \in Turn, TurnStep(t, New) PROVE OrderInv'
  <2>1. ASSUME NEW kind \in TurnKind, TurnSends(t, kind) PROVE OrderInv'
    BY <2>1, TurnAdds, TurnAddsOrder
  <2>2. ASSUME NEW p \in Preface, TurnSendsFull(t, p) PROVE OrderInv'
    <3>1. PICK tt \in [Turn -> TurnSet(sent + 1)] : turn[t].pc # "idle" /\ AddMessage(mem, turn[t].sess, "user", tt)
      BY <2>2, TurnAdds
    <3>. QED  BY <3>1, NewKinds, TurnAddsOrder
  <2>3. CASE TurnReplies(t)
    BY <2>3, TurnAdds, NewKinds, TurnAddsOrder
  <2>. QED  BY <1>9, <2>1, <2>2, <2>3, AutoOrder, QuietOrder DEF TurnStep
<1>. QED  BY <1>8, <1>9, QuietOrder DEF Next

LEMMA OrderInit == Init => OrderInv
<1>. SUFFICES ASSUME Init PROVE OrderInv
  OBVIOUS
<1>1. /\ rows = <<>> /\ comp.recent = <<>> /\ comp.pc = "idle" /\ sent = 0 /\ \A o \in Obj : mem.hist[o] = <<>>
      /\ comp.older = {}
  BY DEF Init, NoComp
<1>2. Len(<<>>) = 0 /\ \A K : Ordered(<<>>, K)
  BY DEF Ordered
<1>. QED  BY <1>1, <1>2 DEF OrderInv, Orderly, Short, Earlier

LEMMA OrderInvariant == Spec => [](DataTypes /\ BoundTypes /\ OrderInv)
<1>1. Init => DataTypes /\ BoundTypes /\ OrderInv
  BY DataTypesInit, BoundInit, OrderInit
<1>2. DataTypes /\ BoundTypes /\ OrderInv /\ [Next]_vars => (DataTypes /\ BoundTypes /\ OrderInv)'
  BY DataTypesStep, BoundStep, OrderStep
<1>. QED  BY <1>1, <1>2, PTL DEF Spec

\* The rows stay in the order in which their messages were sent, whatever is truncated, deleted or summarised:
\* replace_messages() writes them anew without exchanging any, from a history that is itself in order.
THEOREM RowsStayInOrder == Spec => []RowsInOrder
<1>1. DataTypes /\ OrderInv => RowsInOrder
  <2>. SUFFICES ASSUME DataTypes, OrderInv, merges = 0,
                       NEW i \in DOMAIN rows, NEW j \in DOMAIN rows, i < j, Spoken(rows[i]), Spoken(rows[j]),
                       NEW a \in rows[i].text, NEW b \in rows[j].text
                PROVE  a < b
    BY DEF RowsInOrder, InOrder
  <2>1. rows[i] \in RowsOf(lastId, sent) /\ rows[j] \in RowsOf(lastId, sent)
    BY RowsType
  <2>2. rows[i].kind \in Spoke /\ rows[j].kind \in Spoke
    BY <2>1 DEF RowsOf, Spoke, Spoken
  <2>. QED  BY <2>2 DEF OrderInv, Orderly, Ordered
<1>. QED  BY <1>1, OrderInvariant, PTL

-----------------------------------------------------------------------------
(* The cached object, and who holds it.                                    *)

HeldInv == ~detached => \A t \in Turn : Active(t) => turn[t].sess = mem.cache

LEMMA BecomeCached ==
  ASSUME NEW m, NEW tt, Become(m, tt)
  PROVE  /\ turn' = tt /\ mem'.cache = m.cache /\ HeldInv' /\ (detached => detached')
         /\ m.cache \in Obj => mem'.hist[m.cache] = m.hist[m.cache] /\ mem'.known[m.cache] = m.known[m.cache]
BY DEF Become, HeldInv, Active

\* What is never undone.
Past ==
  /\ (faults' = 0 => faults = 0) /\ (merges' = 0 => merges = 0) /\ (autos' = 0 => autos = 0)
  /\ (detached => detached') /\ (missed => missed') /\ (session = "deleted" => session' = "deleted")
  /\ HeldInv => HeldInv'

LEMMA BecomePast ==
  ASSUME BoundTypes, NEW m, NEW tt, Become(m, tt), Fault \/ UNCHANGED faults, merges' \in {merges, merges + 1},
         autos' \in {autos, autos + 1}, missed => missed', session = "deleted" => session' = "deleted"
  PROVE  Past
<1>1. faults \in Nat /\ merges \in Nat /\ autos \in Nat
  BY LimitAssumption DEF BoundTypes
<1>2. (faults' = 0 => faults = 0) /\ (merges' = 0 => merges = 0) /\ (autos' = 0 => autos = 0)
  BY <1>1 DEF Fault
<1>. QED  BY <1>2, BecomeCached DEF Past

LEMMA AddPast ==
  ASSUME BoundTypes, NEW m, NEW o, NEW kind, NEW tt, AddMessage(m, o, kind, tt)
  PROVE  Past
<1>1. /\ UNCHANGED <<merges, autos, missed, session>> /\ (Fault \/ UNCHANGED faults)
      /\ \E p : Become(p, tt)
  BY AddCases DEF AddCommits, AddRollsBack, AddDrops
<1>. QED  BY <1>1, BecomePast

LEMMA PastStep == ASSUME DataTypes, BoundTypes, [Next]_vars PROVE Past
<1>1. ASSUME NEW kind \in WriterKind, OtherWriter(New, kind) PROVE Past
  BY <1>1, AddPast DEF OtherWriter
<1>2. ASSUME NEW keep, NEW meant, Truncate(New, keep, meant) PROVE Past
  <2>1. /\ UNCHANGED <<merges, autos, missed, session>> /\ (Fault \/ UNCHANGED faults)
        /\ \E p : Become(p, turn)
    BY <1>2 DEF Truncate
  <2>. QED  BY <2>1, BecomePast
<1>3. ASSUME NEW i \in 1..MaxMsgs, DeleteMessage(New, i) PROVE Past
  <2>1. /\ UNCHANGED <<merges, autos, session>> /\ (Fault \/ UNCHANGED faults) /\ (missed => missed')
        /\ \E p : Become(p, turn)
    BY <1>3, DeleteCases
  <2>. QED  BY <2>1, BecomePast
<1>4. CASE MergeReplies(New)
  <2>1. /\ UNCHANGED <<autos, missed, session>> /\ (Fault \/ UNCHANGED faults) /\ merges' = merges + 1
        /\ \E p : Become(p, turn)
    BY <1>4, MergeCases
  <2>. QED  BY <2>1, BecomePast
<1>5. CASE ReadHistory(New)
  <2>1. /\ UNCHANGED <<autos, missed, session, faults, merges>>
        /\ \E p : Become(p, turn)
    BY <1>5, ReadCases DEF dbVars
  <2>. QED  BY <2>1, BecomePast
<1>6. CASE BeginCompact(New)
  <2>1. /\ UNCHANGED <<autos, missed, session, faults, merges>>
        /\ \E p : Become(p, turn)
    BY <1>6, BeginCases DEF dbVars
  <2>. QED  BY <2>1, BecomePast
<1>7. CASE EndCompact(New)
  <2>1. /\ UNCHANGED <<autos, missed, session, merges>> /\ (Fault \/ UNCHANGED faults)
        /\ \E p : Become(p, turn)
    BY <1>7, EndCases DEF Replace, ReplaceFails
  <2>. QED  BY <2>1, BecomePast
<1>8. CASE Request(New)
  BY <1>1, <1>2, <1>3, <1>4, <1>5, <1>6, <1>7, <1>8 DEF Request, ToolTruncates, Regenerate
<1>9. ASSUME NEW t \in Turn, TurnStep(t, New) PROVE Past
  <2>1. CASE TurnOpens(t, New)
    <3>1. /\ UNCHANGED <<autos, missed, session, faults, merges>>
          /\ \E p, tt : Become(p, tt)
      BY <2>1 DEF dbVars, TurnOpens
    <3>. QED  BY <3>1, BecomePast
  <2>2. ASSUME NEW kind \in TurnKind, TurnSends(t, kind) PROVE Past
    BY <2>2, AddPast DEF TurnSends
  <2>3. ASSUME NEW p \in Preface, TurnSendsFull(t, p) PROVE Past
    BY <2>3, AddPast DEF TurnSendsFull
  <2>4. CASE AutoCompact(t, New)
    <3>1. /\ UNCHANGED <<missed, session, merges>> /\ autos' = autos + 1 /\ (Fault \/ UNCHANGED faults)
          /\ \E p, tt : Become(p, tt)
      BY <2>4, AutoCompactCases DEF Replace, ReplaceFails
    <3>. QED  BY <3>1, BecomePast
  <2>5. CASE AutoCompactSkipped(t)
    <3>1. /\ UNCHANGED <<autos, missed, session, faults, merges>>
          /\ \E p, tt : Become(p, tt)
      BY <2>5 DEF dbVars, AutoCompactSkipped
    <3>. QED  BY <3>1, BecomePast
  <2>6. CASE TurnReplies(t)
    BY <2>6, AddPast DEF TurnReplies
  <2>7. CASE TurnFails(t)
    <3>1. /\ UNCHANGED <<autos, missed, session, faults, merges>>
          /\ \E p, tt : Become(p, tt)
      BY <2>7 DEF dbVars, TurnFails
    <3>. QED  BY <3>1, BecomePast
  <2>. QED  BY <1>9, <2>1, <2>2, <2>3, <2>4, <2>5, <2>6, <2>7 DEF TurnStep
<1>10. CASE Restart(New)
  <2>1. /\ UNCHANGED <<autos, missed, faults, merges>> /\ (session = "deleted" => session' = "deleted")
        /\ \E p, tt : Become(p, tt)
    BY <1>10, RestartCases
  <2>. QED  BY <2>1, BecomePast
<1>11. CASE DeleteSession
  <2>1. /\ UNCHANGED <<autos, missed, faults, merges>> /\ session = "stored"
        /\ \E p, tt : Become(p, tt)
    BY <1>11 DEF DeleteSession
  <2>. QED  BY <2>1, BecomePast
<1>12. CASE UNCHANGED vars \/ CompactFails \/ DeleteCommits
  <2>1. UNCHANGED <<mem, turn, pastVars>> /\ (session = "deleted" => session' = "deleted")
    BY <1>12 DEF vars, dbVars, CompactFails, DeleteCommits
  <2>. QED  BY <2>1 DEF Past, pastVars, HeldInv, Active
<1>13. CASE DeleteFails
  <2>1. /\ UNCHANGED <<autos, missed, merges, mem, turn, detached>> /\ session = "deleting" /\ faults' = faults + 1
    BY <1>13 DEF DeleteFails, Fault
  <2>2. faults \in Nat
    BY LimitAssumption DEF BoundTypes
  <2>. QED  BY <2>1, <2>2 DEF Past, HeldInv, Active
<1>. QED  BY <1>8, <1>9, <1>10, <1>11, <1>12, <1>13 DEF Next

LEMMA HeldInit == Init => HeldInv
BY DEF Init, HeldInv, Active, Idle

-----------------------------------------------------------------------------
(* No two rows have the same id.                                           *)

Distinct(s) == \A i, j \in DOMAIN s : s[i].id = s[j].id => i = j
RowIds == Distinct(rows)

LEMMA AppendDistinct ==
  ASSUME NEW l \in Nat, NEW n \in Nat, NEW s \in Seq(RowsOf(l, n)), Distinct(s),
         NEW e \in RowsOf(l + 1, n + 1), e.id = l + 1
  PROVE  Distinct(Append(s, e))
<1>1. s \in Seq(RowsOf(l + 1, n + 1))
  <2>1. l + 1 \in Nat /\ n + 1 \in Nat /\ l <= l + 1 /\ n <= n + 1
    OBVIOUS
  <2>. QED  BY <2>1, Wider
<1>. DEFINE u == Append(s, e)
            k == Len(s) + 1
<1>2. /\ DOMAIN u = 1..k /\ (\A i \in DOMAIN s : u[i] = s[i]) /\ u[k] = e
      /\ DOMAIN s = 1..Len(s) /\ Len(s) \in Nat
  BY <1>1, AppendFacts
<1>3. \A i \in DOMAIN s : s[i].id \in 1..l
  <2>1. \A i \in DOMAIN s : s[i] \in RowsOf(l, n)
    OBVIOUS
  <2>. QED  BY <2>1 DEF RowsOf
<1>. HIDE DEF u
<1>4. \A i \in 1..k : i \in DOMAIN s \/ i = k
  BY <1>2
<1>5. \A i \in DOMAIN s : s[i].id # l + 1
  BY <1>3
<1>. HIDE DEF k
<1>. QED  BY <1>2, <1>4, <1>5 DEF Distinct, u

LEMMA FirstDistinct ==
  ASSUME NEW S, NEW s \in Seq(S), NEW n \in Nat, Distinct(s)
  PROVE  Distinct(First(s, n))
<1>1. /\ First(s, n) \in Seq(S)
      /\ \A i \in 1..Len(First(s, n)) : First(s, n)[i] = s[i] /\ i \in DOMAIN s
  BY FirstWithin
<1>2. DOMAIN First(s, n) = 1..Len(First(s, n))
  BY <1>1
<1>. QED  BY <1>1, <1>2 DEF Distinct

LEMMA ChosenDistinct ==
  ASSUME NEW S, NEW s \in Seq(S), NEW K \in SUBSET DOMAIN s, Distinct(s)
  PROVE  Distinct(Chosen(s, K))
<1>1. /\ DOMAIN Chosen(s, K) = 1..Cardinality(K) /\ Cardinality(K) \in Nat
      /\ \A i \in 1..Cardinality(K) : Position(K, i) \in K /\ Chosen(s, K)[i] = s[Position(K, i)]
  BY ChosenWithin
<1>2. \A i, j \in 1..Cardinality(K) : i < j => Position(K, i) < Position(K, j)
  <2>. DOMAIN s = 1..Len(s) /\ Len(s) \in Nat
    OBVIOUS
  <2>. QED  BY Positions
<1>3. ASSUME NEW i \in 1..Cardinality(K), NEW j \in 1..Cardinality(K), Position(K, i) = Position(K, j)
      PROVE  i = j
  <2>1. Position(K, i) \in Nat
    BY <1>1
  <2>2. ~(i < j) /\ ~(j < i)
    BY <1>2, <1>3, <2>1
  <2>. QED  BY <1>1, <2>2
<1>. QED  BY <1>1, <1>3 DEF Distinct

LEMMA MergedDistinct ==
  ASSUME NEW S, NEW s \in Seq(S), NEW e \in S, Cardinality(Replies(s)) >= 2, e.id = s[ReplyBefore(s)].id,
         Distinct(s)
  PROVE  Distinct(MergedInto(s, e))
<1>. DEFINE u == MergedInto(s, e)
            n == Len(s) - Lost(s)
<1>1. DOMAIN u = 1..n /\ \A i \in 1..n : u[i].id = s[Source(s, i)].id /\ Source(s, i) \in DOMAIN s
  <2>1. u \in Seq(S) /\ Len(u) = n /\ ReplyBefore(s) \in 1..n
        /\ \A i \in 1..n : u[i] = IF i = ReplyBefore(s) THEN e ELSE s[Source(s, i)]
    BY MergedFacts
  <2>2. Source(s, ReplyBefore(s)) = ReplyBefore(s) /\ \A i \in 1..n : Source(s, i) \in DOMAIN s
    BY SourceFacts
  <2>. QED  BY <2>1, <2>2
<1>2. \A i, j \in 1..n : i < j => Source(s, i) < Source(s, j)
  BY SourceFacts
<1>3. \A i \in 1..n : i \in Int /\ Source(s, i) \in Int
  <2>1. \A k \in DOMAIN s : k \in Int
    OBVIOUS
  <2>2. Lost(s) \in {1, 2} /\ Len(s) \in Nat
    BY DEF Lost
  <2>. QED  BY <1>1, <2>1, <2>2
<1>. HIDE DEF u, n
<1>4. ASSUME NEW i \in 1..n, NEW j \in 1..n, Source(s, i) = Source(s, j) PROVE i = j
  BY <1>2, <1>3, <1>4
<1>. QED  BY <1>1, <1>4 DEF Distinct, u

LEMMA RewrittenDistinct ==
  ASSUME DataTypes, NEW new \in Seq(Entries(lastId, sent))
  PROVE  Distinct(Rewritten(new))
<1>1. DOMAIN Rewritten(new) = DOMAIN new /\ \A i \in DOMAIN new : Rewritten(new)[i].id = lastId + i
  BY RewrittenFacts DEF DataTypes
<1>2. \A i \in DOMAIN new : i \in Int
  OBVIOUS
<1>3. lastId \in Int
  BY RowsType
<1>. QED  BY <1>1, <1>2, <1>3 DEF Distinct

LEMMA AddRowIds ==
  ASSUME DataTypes, RowIds, NEW m, NEW o, NEW kind \in Kind, NEW tt, AddMessage(m, o, kind, tt)
  PROVE  RowIds'
<1>1. rows' = rows \/ rows' = Append(rows, NewestRow(kind))
  BY AddCases DEF AddCommits, AddRollsBack, AddDrops
<1>2. rows \in Seq(RowsOf(lastId, sent)) /\ lastId \in Nat /\ sent \in Nat
  BY RowsType
<1>3. NewestRow(kind) \in RowsOf(lastId + 1, sent + 1) /\ NewestRow(kind).id = lastId + 1
  BY <1>2 DEF NewestRow, RowsOf
<1>. QED  BY <1>1, <1>2, <1>3, AppendDistinct DEF RowIds

LEMMA RowIdsStep == ASSUME DataTypes, RowIds, [Next]_vars PROVE RowIds'
<1>0. rows \in Seq(RowsOf(lastId, sent)) /\ lastId \in Nat /\ sent \in Nat
  BY RowsType
<1>1. ASSUME NEW kind \in WriterKind, OtherWriter(New, kind) PROVE RowIds'
  BY <1>1, AddRowIds, NewKinds DEF OtherWriter
<1>2. ASSUME NEW keep \in Nat, NEW meant, Truncate(New, keep, meant) PROVE RowIds'
  <2>1. rows' = rows \/ rows' = First(rows, keep)
    BY <1>2 DEF Truncate
  <2>. QED  BY <1>0, <2>1, FirstDistinct DEF RowIds
<1>3. ASSUME NEW keep \in 0..MaxMsgs, ToolTruncates(New, keep) PROVE RowIds'
  <2>1. keep \in Nat
    BY LimitAssumption
  <2>. QED  BY <1>2, <1>3, <2>1 DEF ToolTruncates
<1>4. ASSUME NEW p \in 1..MaxMsgs, Regenerate(New, p) PROVE RowIds'
  BY <1>2, <1>4, RegeneratePositions
<1>5. ASSUME NEW i \in 1..MaxMsgs, DeleteMessage(New, i) PROVE RowIds'
  <2>1. PICK id : rows' = rows \/ rows' = Without(rows, id)
    BY <1>5, DeleteCases
  <2>2. {j \in DOMAIN rows : rows[j].id # id} \in SUBSET DOMAIN rows
    OBVIOUS
  <2>. QED  BY <1>0, <2>1, <2>2, ChosenDistinct DEF RowIds, Without
<1>6. CASE MergeReplies(New)
  <2>. DEFINE h == Shown(Got(New))
  <2>1. /\ Found /\ Cardinality(Replies(h)) >= 2
        /\ \/ rows' = MergedInto(rows, MergedRow(h)) /\ Cardinality(Replies(rows)) >= 2
           \/ rows' = rows
    BY <1>6, MergeCases
  <2>2. h \in Seq(Entries(lastId, sent))
    BY <2>1, NewIsFree, GotFacts
  <2>. HIDE DEF h
  <2>3. ASSUME Cardinality(Replies(rows)) >= 2 PROVE Distinct(MergedInto(rows, MergedRow(h)))
    <3>1. MergedRow(h) \in RowsOf(lastId, sent) /\ MergedRow(h).id = rows[ReplyBefore(rows)].id
      BY <2>1, <2>2, <2>3, MergedRowType
    <3>. QED  BY <1>0, <2>3, <3>1, MergedDistinct DEF RowIds
  <2>. QED  BY <2>1, <2>3 DEF RowIds
<1>7. CASE ReadHistory(New) \/ BeginCompact(New)
  BY <1>7, ReadCases, BeginCases DEF RowIds, dbVars
<1>8. CASE EndCompact(New)
  <2>1. rows' = rows \/ rows' = Rewritten(Shortened)
    BY <1>8, EndCases DEF Replace
  <2>. QED  BY <2>1, ShortenedFacts, RewrittenDistinct DEF RowIds
<1>9. CASE Request(New)
  BY <1>1, <1>3, <1>4, <1>5, <1>6, <1>7, <1>8, <1>9 DEF Request
<1>10. ASSUME NEW t \in Turn, TurnStep(t, New) PROVE RowIds'
  <2>1. CASE TurnOpens(t, New) \/ AutoCompactSkipped(t) \/ TurnFails(t)
    BY <2>1 DEF TurnOpens, AutoCompactSkipped, TurnFails, dbVars, RowIds
  <2>2. ASSUME NEW kind \in TurnKind, TurnSends(t, kind) PROVE RowIds'
    BY <2>2, AddRowIds, NewKinds DEF TurnSends
  <2>3. ASSUME NEW p \in Preface, TurnSendsFull(t, p) PROVE RowIds'
    BY <2>3, AddRowIds, NewKinds DEF TurnSendsFull
  <2>4. CASE TurnReplies(t)
    BY <2>4, AddRowIds, NewKinds DEF TurnReplies
  <2>5. CASE AutoCompact(t, New)
    <3>1. rows' = rows \/ rows' = Rewritten(AutoCompacted(t))
      BY <2>5, AutoCompactCases DEF Replace
    <3>2. AutoCompacted(t) \in Seq(Entries(lastId, sent))
      BY <2>5, AutoCompactCases, AutoCompactedFacts
    <3>. QED  BY <3>1, <3>2, RewrittenDistinct DEF RowIds
  <2>. QED  BY <1>10, <2>1, <2>2, <2>3, <2>4, <2>5 DEF TurnStep
<1>11. CASE Restart(New)
  BY <1>11, RestartCases DEF RowIds
<1>12. CASE UNCHANGED vars \/ CompactFails \/ DeleteSession \/ DeleteFails \/ DeleteCommits
  BY <1>12 DEF vars, dbVars, CompactFails, DeleteSession, DeleteFails, DeleteCommits, RowIds, Distinct
<1>. QED  BY <1>9, <1>10, <1>11, <1>12 DEF Next

-----------------------------------------------------------------------------
(* The cached history and the rows.                                        *)

\* One entry after the other the same, and by the same ids; n merges may have
\* left an entry of h with an id that no row has.
Named(e, s, i, n) == e.id = s[i].id \/ (n > 0 /\ \A k \in DOMAIN s : s[k].id # e.id)
Alike(h, s, n) ==
  /\ Len(h) = Len(s) /\ DOMAIN h = DOMAIN s
  /\ \A i \in DOMAIN s : h[i].text = s[i].text /\ h[i].kind = s[i].kind /\ Named(h[i], s, i, n)

Apart == session = "deleted" \/ faults # 0 \/ detached \/ (merges # 0 /\ missed)
Live == mem.cache \in Obj /\ (~Hydrates(mem) \/ \E t \in Turn : Active(t))
Counted == merges = 0 => count = Len(rows)

SyncInv ==
  ~Apart => /\ Live => Alike(mem.hist[mem.cache], rows, merges)
            /\ Counted

LEMMA LoadedAlike ==
  ASSUME NEW l \in Nat, NEW k \in Nat, NEW s \in Seq(RowsOf(l, k)), NEW n
  PROVE  Alike(Loaded(s), s, n)
BY LoadedFacts DEF Alike, Named

LEMMA GotAlike ==
  ASSUME DataTypes, SyncInv, ~Apart
  PROVE  /\ Found /\ Alike(Shown(Got(New)), rows, merges)
         /\ Shown(Got(New)) = Got(New).hist[Got(New).cache] /\ Got(New).cache \in Obj
<1>1. Found
  BY DEF Found, Stored, Apart
<1>2. /\ Shown(Got(New)) = Got(New).hist[Got(New).cache] /\ Got(New).cache \in Obj
      /\ ~Hydrates(mem) => mem.cache \in Obj
      /\ Shown(Got(New)) = IF Hydrates(mem) THEN Loaded(rows) ELSE mem.hist[mem.cache]
  BY <1>1, NewIsFree, GotFacts
<1>3. Alike(Loaded(rows), rows, merges)
  BY RowsType, LoadedAlike
<1>. QED  BY <1>1, <1>2, <1>3 DEF SyncInv, Live

LEMMA HeldAlike ==
  ASSUME DataTypes, SyncInv, HeldInv, ~Apart, NEW t \in Turn, turn[t].pc # "idle"
  PROVE  turn[t].sess = mem.cache /\ mem.cache \in Obj /\ Alike(mem.hist[mem.cache], rows, merges)
<1>1. turn[t].sess = mem.cache /\ mem.cache \in Obj
  BY DEF HeldInv, Active, Apart, DataTypes, Holding
<1>. QED  BY <1>1 DEF SyncInv, Live, Active

LEMMA PastApart == ASSUME Past, Apart PROVE Apart'
BY DEF Past, Apart

LEMMA AppendAlike ==
  ASSUME NEW l \in Nat, NEW k \in Nat, NEW h \in Seq(Entries(l, k)), NEW s \in Seq(RowsOf(l, k)), NEW n,
         Alike(h, s, n),
         NEW e \in Entries(l + 1, k + 1), NEW r \in RowsOf(l + 1, k + 1), e.id = l + 1, r.id = l + 1,
         e.text = r.text, e.kind = r.kind
  PROVE  Alike(Append(h, e), Append(s, r), n)
<1>0. l + 1 \in Nat /\ k + 1 \in Nat /\ l <= l + 1 /\ k <= k + 1
  OBVIOUS
<1>1. h \in Seq(Entries(l + 1, k + 1)) /\ s \in Seq(RowsOf(l + 1, k + 1))
  BY <1>0, Wider
<1>. DEFINE u == Append(h, e)
            v == Append(s, r)
            j == Len(s) + 1
<1>2. /\ DOMAIN u = 1..Len(h) + 1 /\ (\A i \in DOMAIN h : u[i] = h[i]) /\ u[Len(h) + 1] = e /\ Len(u) = Len(h) + 1
      /\ DOMAIN v = 1..Len(s) + 1 /\ (\A i \in DOMAIN s : v[i] = s[i]) /\ v[Len(s) + 1] = r /\ Len(v) = Len(s) + 1
      /\ DOMAIN s = 1..Len(s) /\ Len(s) \in Nat
  BY <1>1, AppendFacts
<1>3. Len(h) = Len(s) /\ DOMAIN h = DOMAIN s
  BY DEF Alike
<1>. HIDE DEF u, v
<1>4. \A i \in DOMAIN v : i \in DOMAIN s \/ i = j
  BY <1>2
<1>5. j \in DOMAIN v /\ DOMAIN s \subseteq DOMAIN v
  BY <1>2
<1>6. \A i \in DOMAIN s : h[i].id # l + 1
  <2>1. \A i \in DOMAIN h : h[i] \in Entries(l, k)
    OBVIOUS
  <2>. QED  BY <1>3, <2>1 DEF Entries
<1>7. u[j] = e /\ v[j] = r
  BY <1>2, <1>3
<1>. HIDE DEF j
<1>8. ASSUME NEW i \in DOMAIN v PROVE u[i].text = v[i].text /\ u[i].kind = v[i].kind /\ Named(u[i], v, i, n)
  <2>1. CASE i = j
    BY <1>7, <2>1 DEF Named
  <2>2. CASE i \in DOMAIN s
    <3>1. u[i] = h[i] /\ v[i] = s[i] /\ Named(h[i], s, i, n) /\ h[i].text = s[i].text /\ h[i].kind = s[i].kind
      BY <1>2, <1>3, <2>2 DEF Alike
    <3>2. \A x \in DOMAIN v : v[x] = r \/ (x \in DOMAIN s /\ v[x] = s[x])
      BY <1>2, <1>4, <1>7
    <3>3. h[i].id # r.id
      BY <1>6, <2>2
    <3>. QED  BY <3>1, <3>2, <3>3 DEF Named
  <2>. QED  BY <1>4, <2>1, <2>2
<1>. QED  BY <1>2, <1>3, <1>8 DEF Alike, u, v

LEMMA FirstAlike ==
  ASSUME NEW S, NEW T, NEW h \in Seq(S), NEW s \in Seq(T), NEW n, Alike(h, s, n), NEW keep \in Nat
  PROVE  Alike(First(h, keep), First(s, keep), n)
<1>. DEFINE u == First(h, keep)
            v == First(s, keep)
<1>1. Len(h) = Len(s) /\ DOMAIN h = DOMAIN s
  BY DEF Alike
<1>2. /\ Len(u) = (IF keep <= Len(h) THEN keep ELSE Len(h)) /\ u \in Seq(S)
      /\ \A i \in 1..Len(u) : u[i] = h[i] /\ i \in DOMAIN h
  BY FirstWithin
<1>3. /\ Len(v) = (IF keep <= Len(s) THEN keep ELSE Len(s)) /\ v \in Seq(T)
      /\ \A i \in 1..Len(v) : v[i] = s[i] /\ i \in DOMAIN s
  BY FirstWithin
<1>4. Len(u) = Len(v) /\ DOMAIN u = 1..Len(u) /\ DOMAIN v = 1..Len(v)
  BY <1>1, <1>2, <1>3
<1>. HIDE DEF u, v
<1>5. ASSUME NEW i \in DOMAIN v PROVE u[i].text = v[i].text /\ u[i].kind = v[i].kind /\ Named(u[i], v, i, n)
  <2>1. u[i] = h[i] /\ v[i] = s[i] /\ i \in DOMAIN s
    BY <1>2, <1>3, <1>4
  <2>2. \A k \in DOMAIN v : k \in DOMAIN s /\ v[k] = s[k]
    BY <1>3, <1>4
  <2>. QED  BY <2>1, <2>2 DEF Alike, Named
<1>. QED  BY <1>4, <1>5 DEF Alike, u, v

\* delete-messages by an id: the entries of the same positions stay.
LEMMA WithoutAlike ==
  ASSUME NEW S, NEW T, NEW h \in Seq(S), NEW s \in Seq(T), NEW n \in Nat, Alike(h, s, n), Distinct(s),
         NEW i \in DOMAIN h, n = 0 \/ Among(s, h[i])
  PROVE  Alike(Without(h, h[i].id), Without(s, h[i].id), n)
<1>. DEFINE id == h[i].id
            K == {j \in DOMAIN s : s[j].id # id}
<1>1. DOMAIN h = DOMAIN s /\ i \in DOMAIN s
  BY DEF Alike
<1>2. ASSUME NEW j \in DOMAIN s PROVE h[j].id # id <=> s[j].id # id
  <2>1. Named(h[j], s, j, n) /\ Named(h[i], s, i, n)
    BY <1>1 DEF Alike
  <2>2. CASE n = 0
    BY <2>1, <2>2 DEF Named
  <2>3. CASE Among(s, h[i])
    <3>1. s[i].id = id
      BY <2>1, <2>3 DEF Named, Among
    <3>2. ASSUME h[j].id = id PROVE s[j].id = id
      BY <1>1, <2>1, <3>1, <3>2 DEF Named
    <3>3. ASSUME s[j].id = id PROVE h[j].id = id
      <4>1. i = j
        BY <1>1, <3>1, <3>3 DEF Distinct
      <4>. QED  BY <4>1
    <3>. QED  BY <3>2, <3>3
  <2>. QED  BY <2>2, <2>3
<1>3. {j \in DOMAIN h : h[j].id # id} = K /\ K \in SUBSET DOMAIN s /\ K \in SUBSET DOMAIN h
  BY <1>1, <1>2
<1>4. Without(h, id) = Chosen(h, K) /\ Without(s, id) = Chosen(s, K)
  BY <1>3 DEF Without
<1>. HIDE DEF id, K
<1>5. /\ DOMAIN Chosen(h, K) = 1..Cardinality(K) /\ Len(Chosen(h, K)) = Cardinality(K)
      /\ DOMAIN Chosen(s, K) = 1..Cardinality(K) /\ Len(Chosen(s, K)) = Cardinality(K)
      /\ \A x \in 1..Cardinality(K) : /\ Position(K, x) \in K
                                      /\ Chosen(h, K)[x] = h[Position(K, x)] /\ Chosen(s, K)[x] = s[Position(K, x)]
  BY <1>3, ChosenWithin
<1>6. \A x \in K : h[x].text = s[x].text /\ h[x].kind = s[x].kind /\ Named(h[x], s, x, n)
  BY <1>3 DEF Alike
<1>7. ASSUME NEW x \in 1..Cardinality(K)
      PROVE  /\ Chosen(h, K)[x].text = Chosen(s, K)[x].text /\ Chosen(h, K)[x].kind = Chosen(s, K)[x].kind
             /\ Named(Chosen(h, K)[x], Chosen(s, K), x, n)
  BY <1>3, <1>5, <1>6 DEF Named
<1>. QED  BY <1>4, <1>5, <1>7 DEF Alike, id

\* merge-last-assistant: the same two replies, and the same prompt.
LEMMA MergedAlike ==
  ASSUME NEW S, NEW T, NEW h \in Seq(S), NEW s \in Seq(T), NEW n \in Nat, NEW q, q > 0, Alike(h, s, n),
         Distinct(s),
         Cardinality(Replies(h)) >= 2, NEW e \in S, NEW r \in T, e.text = r.text, e.kind = r.kind,
         r.id = s[ReplyBefore(s)].id,
         e.id \in {h[LastReply(h)].id, h[ReplyBefore(h)].id}
  PROVE  Cardinality(Replies(s)) >= 2 /\ Alike(MergedInto(h, e), MergedInto(s, r), q)
<1>0. DOMAIN h = DOMAIN s /\ Len(h) = Len(s) /\ \A i \in DOMAIN s : h[i].text = s[i].text /\ h[i].kind = s[i].kind /\ Named(h[i], s, i, n)
  BY DEF Alike
<1>1. Replies(h) = Replies(s) /\ LastReply(h) = LastReply(s) /\ ReplyBefore(h) = ReplyBefore(s)
  BY <1>0 DEF Replies, LastReply, ReplyBefore
<1>2. /\ LastReply(s) \in DOMAIN s /\ ReplyBefore(s) \in DOMAIN s /\ ReplyBefore(s) < LastReply(s)
      /\ LastReply(s) \in Nat /\ ReplyBefore(s) \in Nat /\ ReplyBefore(s) >= 1
  <2>1. DOMAIN s = 1..Len(s) /\ Len(s) \in Nat
    OBVIOUS
  <2>. QED  BY <1>1, <2>1, ReplyFacts
<1>3. Prompted(h) <=> Prompted(s)
  <2>1. ASSUME LastReply(s) - 1 > ReplyBefore(s) PROVE LastReply(s) - 1 \in DOMAIN s
    <3>1. DOMAIN s = 1..Len(s) /\ Len(s) \in Nat
      OBVIOUS
    <3>. QED  BY <1>2, <2>1, <3>1
  <2>. QED  BY <1>0, <1>1, <2>1 DEF Prompted
<1>4. Lost(h) = Lost(s) /\ \A i : Source(h, i) = Source(s, i)
  BY <1>1, <1>3 DEF Lost, Source
<1>. DEFINE u == MergedInto(h, e)
            v == MergedInto(s, r)
            b == ReplyBefore(s)
            k == Len(s) - Lost(s)
<1>5. /\ DOMAIN u = 1..k /\ Len(u) = k
      /\ \A i \in 1..k : u[i] = IF i = b THEN e ELSE h[Source(s, i)]
  <2>1. u \in Seq(S) /\ Len(u) = k /\ \A i \in 1..k : u[i] = IF i = b THEN e ELSE h[Source(s, i)]
    BY <1>0, <1>1, <1>4, MergedFacts
  <2>. QED  BY <2>1
<1>6. /\ DOMAIN v = 1..k /\ Len(v) = k /\ b \in 1..k
      /\ \A i \in 1..k : v[i] = IF i = b THEN r ELSE s[Source(s, i)]
  <2>1. v \in Seq(T) /\ Len(v) = k /\ b \in 1..k /\ \A i \in 1..k : v[i] = IF i = b THEN r ELSE s[Source(s, i)]
    BY <1>1, MergedFacts
  <2>. QED  BY <2>1
<1>7. /\ \A i \in 1..k : Source(s, i) \in DOMAIN s /\ Source(s, i) # LastReply(s)
      /\ Source(s, b) = b
  BY <1>1, SourceFacts
<1>. HIDE DEF u, v, b, k
<1>8. \A x \in 1..k : v[x].id = s[Source(s, x)].id
  BY <1>6, <1>7 DEF b
<1>9. ASSUME NEW i \in 1..k, i # b
      PROVE  u[i].text = v[i].text /\ u[i].kind = v[i].kind /\ Named(u[i], v, i, q)
  <2>1. u[i] = h[Source(s, i)] /\ v[i] = s[Source(s, i)] /\ Source(s, i) \in DOMAIN s
    BY <1>5, <1>6, <1>7, <1>9
  <2>2. Named(h[Source(s, i)], s, Source(s, i), n)
    BY <1>0, <2>1
  <2>3. Named(u[i], v, i, q)
    BY <1>6, <1>7, <1>8, <2>1, <2>2 DEF Named
  <2>. QED  BY <1>0, <2>1, <2>3
<1>10. Named(e, v, b, q)
  <2>1. CASE e.id = h[b].id
    <3>1. Named(h[b], s, b, n)
      BY <1>0, <1>2 DEF b
    <3>2. v[b].id = s[b].id
      BY <1>6, <1>7, <1>8
    <3>. QED  BY <1>6, <1>7, <1>8, <2>1, <3>1, <3>2 DEF Named
  <2>2. CASE e.id = h[LastReply(s)].id
    <3>1. Named(h[LastReply(s)], s, LastReply(s), n)
      BY <1>0, <1>2
    <3>2. \A x \in 1..k : s[Source(s, x)].id # s[LastReply(s)].id
      BY <1>2, <1>7 DEF Distinct
    <3>. QED  BY <1>6, <1>7, <1>8, <2>2, <3>1, <3>2 DEF Named
  <2>. QED  BY <1>1, <2>1, <2>2 DEF b
<1>11. u[b] = e /\ v[b] = r
  BY <1>5, <1>6
<1>12. \A i \in DOMAIN v : u[i].text = v[i].text /\ u[i].kind = v[i].kind /\ Named(u[i], v, i, q)
  BY <1>6, <1>9, <1>10, <1>11
<1>. QED  BY <1>1, <1>5, <1>6, <1>12 DEF Alike, u, v

LEMMA BecomeEdited ==
  ASSUME NEW l, NEW n, NEW m \in Mems(l, n), m.cache \in Obj, NEW h, NEW tt,
         \/ Become([m EXCEPT !.hist[m.cache] = h], tt)
         \/ \E k : Become([m EXCEPT !.hist[m.cache] = h, !.known[m.cache] = k], tt)
  PROVE  mem'.cache = m.cache /\ mem'.hist[m.cache] = h
<1>1. CASE Become([m EXCEPT !.hist[m.cache] = h], tt)
  <2>. DEFINE p == [m EXCEPT !.hist[m.cache] = h]
  <2>1. p.cache = m.cache /\ p.hist[m.cache] = h
    BY DEF Mems
  <2>2. Become(p, tt)
    BY <1>1
  <2>. HIDE DEF p
  <2>3. mem'.cache = p.cache /\ (p.cache \in Obj => mem'.hist[p.cache] = p.hist[p.cache])
    BY <2>2, BecomeCached
  <2>. QED  BY <2>1, <2>3
<1>2. ASSUME NEW k, Become([m EXCEPT !.hist[m.cache] = h, !.known[m.cache] = k], tt)
      PROVE  mem'.cache = m.cache /\ mem'.hist[m.cache] = h
  <2>. DEFINE p == [m EXCEPT !.hist[m.cache] = h, !.known[m.cache] = k]
  <2>1. p.cache = m.cache /\ p.hist[m.cache] = h
    BY DEF Mems
  <2>2. Become(p, tt)
    BY <1>2
  <2>. HIDE DEF p
  <2>3. mem'.cache = p.cache /\ (p.cache \in Obj => mem'.hist[p.cache] = p.hist[p.cache])
    BY <2>2, BecomeCached
  <2>. QED  BY <2>1, <2>3
<1>. QED  BY <1>1, <1>2

LEMMA AddSync ==
  ASSUME DataTypes, BoundTypes, NEW m \in Mems(lastId, sent), NEW o \in Obj, o = m.cache, NEW kind \in Kind,
         NEW tt,
         AddMessage(m, o, kind, tt), Alike(m.hist[o], rows, merges), ~Apart'
  PROVE  SyncInv'
<1>1. AddCommits(m, o, kind, tt) /\ merges' = merges
  <2>1. ~AddRollsBack(m, o, kind, tt)
    BY LimitAssumption DEF AddRollsBack, Fault, Apart, BoundTypes
  <2>2. ~AddDrops(m, o, kind, tt)
    BY AddCases DEF AddDrops, Stored, Apart
  <2>. QED  BY <2>1, <2>2, AddCases
<1>2. /\ lastId \in Nat /\ sent \in Nat /\ rows \in Seq(RowsOf(lastId, sent)) /\ m.hist[o] \in Seq(Entries(lastId, sent))
      /\ m.hist \in [Obj -> Seq(Entries(lastId, sent))]
  BY RowsType DEF Mems
<1>. DEFINE e == Newest(lastId + 1, kind)
            r == NewestRow(kind)
            p == Plus(m, o, lastId + 1, kind)
<1>3. p.cache = o /\ p.hist[o] = Append(m.hist[o], e)
  <2>1. lastId + 1 \in {0, lastId + 1} /\ lastId + 1 \in {lastId, lastId + 1} /\ lastId + 1 <= lastId + 1
    BY <1>2
  <2>2. PlusOk(m, o, lastId + 1, kind, lastId + 1)
    BY <2>1, PlusFacts, Zenon
  <2>3. p.cache = o /\ p.hist = Longer(m, o, e)
    BY <2>2 DEF PlusOk
  <2>. HIDE DEF e, p
  <2>. QED  BY <1>2, <2>3 DEF Longer
<1>4. Become(p, tt) /\ rows' = Append(rows, r) /\ count' = Len(Shown(mem'))
  BY <1>1 DEF AddCommits
<1>5. /\ e \in Entries(lastId + 1, sent + 1) /\ r \in RowsOf(lastId + 1, sent + 1)
      /\ e.id = lastId + 1 /\ r.id = lastId + 1 /\ e.text = r.text /\ e.kind = r.kind
  BY <1>2 DEF Newest, NewestRow, Entries, RowsOf
<1>. HIDE DEF e, r, p
<1>6. mem'.cache = o /\ mem'.hist[o] = Append(m.hist[o], e)
  BY <1>3, <1>4, BecomeCached
<1>7. Alike(Append(m.hist[o], e), Append(rows, r), merges)
  BY <1>2, <1>5, AppendAlike
<1>8. Shown(mem') = mem'.hist[o]
  BY <1>6, ObjAssumption DEF Shown
<1>9. count' = Len(rows')
  BY <1>4, <1>6, <1>7, <1>8 DEF Alike
<1>. QED  BY <1>1, <1>4, <1>6, <1>7, <1>9 DEF SyncInv, Counted

LEMMA LookSync ==
  ASSUME DataTypes, SyncInv, ~Apart, NEW tt, Become(Got(New), tt), UNCHANGED <<rows, count, merges>>
  PROVE  SyncInv'
<1>1. /\ Alike(Shown(Got(New)), rows, merges)
      /\ Shown(Got(New)) = Got(New).hist[Got(New).cache] /\ Got(New).cache \in Obj
  BY GotAlike
<1>2. mem'.hist[mem'.cache] = Shown(Got(New))
  BY <1>1, BecomeCached
<1>. QED  BY <1>1, <1>2 DEF SyncInv, Counted

\* The cached history and the rows are edited alike.
LEMMA EditSync ==
  ASSUME DataTypes, SyncInv, ~Apart, NEW h, Alike(h, rows', merges'), Counted',
         \/ Become([Got(New) EXCEPT !.hist[Got(New).cache] = h], turn)
         \/ \E k : Become([Got(New) EXCEPT !.hist[Got(New).cache] = h, !.known[Got(New).cache] = k], turn)
  PROVE  SyncInv'
<1>1. Got(New).cache \in Obj /\ Got(New) \in Mems(lastId, sent)
  BY GotAlike, NewIsFree, GotFacts
<1>2. mem'.hist[mem'.cache] = h
  BY <1>1, BecomeEdited
<1>. QED  BY <1>2 DEF SyncInv

LEMMA ReplaceSync ==
  ASSUME DataTypes, NEW m \in Mems(lastId, sent), m.cache \in Obj, NEW new \in Seq(Entries(lastId, sent)),
         NEW tt \in [Turn -> TurnSet(sent)], Replace(m, new, tt)
  PROVE  SyncInv'
<1>1. /\ rows' = Rewritten(new) /\ count' = Len(new)
      /\ mem'.cache = m.cache /\ mem'.hist[m.cache] = Loaded(rows')
  BY ReplaceFacts
<1>2. rows' \in Seq(RowsOf(lastId + Len(new), sent)) /\ Len(rows') = Len(new) /\ lastId + Len(new) \in Nat /\ sent \in Nat
  BY <1>1, RewrittenFacts, RowsType
<1>3. Alike(Loaded(rows'), rows', merges')
  BY <1>2, LoadedAlike
<1>. QED  BY <1>1, <1>2, <1>3 DEF SyncInv, Counted

LEMMA TruncateSync ==
  ASSUME DataTypes, BoundTypes, SyncInv, ~Apart, ~Apart', NEW keep \in Nat, NEW meant, Truncate(New, keep, meant)
  PROVE  SyncInv'
<1>. DEFINE m == Got(New)
            h == m.hist[m.cache]
            u == First(h, keep)
<1>1. /\ Become([m EXCEPT !.hist[m.cache] = First(@, keep)], turn) /\ rows' = First(rows, keep)
      /\ count' = NewCount(keep) /\ merges' = merges
  <2>1. ~Fault
    BY LimitAssumption DEF Fault, Apart, BoundTypes
  <2>. QED  BY <2>1 DEF Truncate
<1>2. /\ m \in Mems(lastId, sent) /\ m.cache \in Obj /\ h \in Seq(Entries(lastId, sent)) /\ Alike(h, rows, merges)
      /\ rows \in Seq(RowsOf(lastId, sent))
  BY RowsType, GotAlike, NewIsFree, GotFacts
<1>. HIDE DEF m
<1>3. [m EXCEPT !.hist[m.cache] = First(@, keep)] = [m EXCEPT !.hist[m.cache] = u]
  BY <1>2 DEF Mems
<1>. HIDE DEF h
<1>4. Alike(u, rows', merges')
  BY <1>1, <1>2, FirstAlike
<1>5. Counted'
  <2>1. Len(rows) \in Nat /\ Min({keep, Len(rows)}) = IF keep <= Len(rows) THEN keep ELSE Len(rows)
    BY <1>2, OfTwo
  <2>2. Len(First(rows, keep)) = IF keep <= Len(rows) THEN keep ELSE Len(rows)
    BY <1>2, FirstWithin
  <2>. QED  BY <1>1, <2>1, <2>2 DEF Counted, NewCount
<1>. HIDE DEF u
<1>. QED  BY <1>1, <1>3, <1>4, <1>5, EditSync DEF m

LEMMA DeleteSync ==
  ASSUME DataTypes, BoundTypes, SyncInv, RowIds, ~Apart, ~Apart', NEW i \in 1..MaxMsgs, DeleteMessage(New, i)
  PROVE  SyncInv'
<1>. DEFINE m == Got(New)
            h == Shown(m)
            id == h[i].id
            u == Without(h, id)
            k == Len(u)
<1>1. /\ i \in DOMAIN h /\ merges' = merges
      /\ Become([m EXCEPT !.hist[m.cache] = Without(@, id), !.known[m.cache] = k], turn)
      /\ rows' = Without(rows, id)
      /\ count' = IF Stored THEN k ELSE count
      /\ missed' = (missed \/ ~Among(rows, h[i]))
  <2>1. ~Fault
    BY LimitAssumption DEF Fault, Apart, BoundTypes
  <2>. QED  BY <2>1, DeleteCases
<1>2. /\ m \in Mems(lastId, sent) /\ m.cache \in Obj /\ h \in Seq(Entries(lastId, sent)) /\ h = m.hist[m.cache]
      /\ Alike(h, rows, merges) /\ rows \in Seq(RowsOf(lastId, sent)) /\ merges \in Nat
  <2>1. merges \in Nat
    BY LimitAssumption DEF BoundTypes
  <2>. QED  BY <2>1, RowsType, GotAlike, NewIsFree, GotFacts
<1>. HIDE DEF m, h
<1>3. merges = 0 \/ Among(rows, h[i])
  BY <1>1 DEF Apart
<1>4. Alike(u, rows', merges')
  BY <1>1, <1>2, <1>3, WithoutAlike DEF RowIds
<1>5. Counted'
  BY <1>1, <1>4 DEF Counted, Alike, Stored, Apart
<1>6. [m EXCEPT !.hist[m.cache] = Without(@, id), !.known[m.cache] = k]
        = [m EXCEPT !.hist[m.cache] = u, !.known[m.cache] = k]
  <2>. HIDE DEF k
  <2>. QED  BY <1>2 DEF Mems
<1>. HIDE DEF u, k, id
<1>. QED  BY <1>1, <1>4, <1>5, <1>6, EditSync DEF m

LEMMA MergeSync ==
  ASSUME DataTypes, BoundTypes, SyncInv, RowIds, ~Apart, ~Apart', MergeReplies(New)
  PROVE  SyncInv'
<1>. DEFINE m == Got(New)
            h == Shown(m)
            e == MergedReply(h)
            r == MergedRow(h)
            u == MergedInto(h, e)
<1>1. /\ Found /\ Cardinality(Replies(h)) >= 2 /\ merges' = merges + 1
      /\ Become([m EXCEPT !.hist[m.cache] = MergedInto(@, e)], turn)
      /\ rows' = IF Cardinality(Replies(rows)) >= 2 THEN MergedInto(rows, r) ELSE rows
  <2>1. ~Fault
    BY LimitAssumption DEF Fault, Apart, BoundTypes
  <2>. QED  BY <2>1, MergeCases
<1>2. /\ m \in Mems(lastId, sent) /\ m.cache \in Obj /\ h \in Seq(Entries(lastId, sent)) /\ h = m.hist[m.cache]
      /\ Alike(h, rows, merges) /\ rows \in Seq(RowsOf(lastId, sent)) /\ merges \in Nat /\ lastId \in Nat /\ sent \in Nat
  <2>1. merges \in Nat
    BY LimitAssumption DEF BoundTypes
  <2>. QED  BY <2>1, RowsType, GotAlike, NewIsFree, GotFacts
<1>. HIDE DEF m, h
<1>3. e \in Entries(lastId, sent) /\ e.id \in {h[LastReply(h)].id, h[ReplyBefore(h)].id}
  <2>1. e \in Entries(lastId, sent)
    BY <1>1, <1>2, MergedReplyType
  <2>2. e.id \in {h[LastReply(h)].id, h[ReplyBefore(h)].id}
    BY DEF MergedReply
  <2>. QED  BY <2>1, <2>2
<1>4. Cardinality(Replies(rows)) >= 2
  <2>1. DOMAIN h = DOMAIN rows /\ \A i \in DOMAIN rows : h[i].kind = rows[i].kind
    BY <1>2 DEF Alike
  <2>2. Replies(h) = Replies(rows)
    BY <2>1 DEF Replies
  <2>. QED  BY <1>1, <2>2
<1>5. r \in RowsOf(lastId, sent) /\ r.id = rows[ReplyBefore(rows)].id /\ r.text = e.text /\ r.kind = e.kind
  BY <1>1, <1>2, <1>4, MergedRowType
<1>6. merges' > 0 /\ merges' # 0
  BY <1>1, <1>2
<1>7. [m EXCEPT !.hist[m.cache] = MergedInto(@, e)] = [m EXCEPT !.hist[m.cache] = u]
  <2>. HIDE DEF e
  <2>. QED  BY <1>2 DEF Mems
<1>. HIDE DEF e, r
<1>8. Alike(u, rows', merges')
  BY <1>1, <1>2, <1>3, <1>4, <1>5, <1>6, MergedAlike DEF RowIds
<1>. HIDE DEF u
<1>. QED  BY <1>1, <1>6, <1>7, <1>8, EditSync DEF m, Counted

LEMMA RequestSync ==
  ASSUME DataTypes, BoundTypes, SyncInv, RowIds, ~Apart, ~Apart', Request(New)
  PROVE  SyncInv'
<1>0. /\ Got(New) \in Mems(lastId, sent) /\ Got(New).cache \in Obj /\ turn \in [Turn -> TurnSet(sent)]
      /\ Alike(Got(New).hist[Got(New).cache], rows, merges) /\ Shown(Got(New)) = Got(New).hist[Got(New).cache]
      /\ ~ReplaceFails
  <2>1. turn \in [Turn -> TurnSet(sent)]
    BY DEF DataTypes
  <2>2. ~ReplaceFails
    BY LimitAssumption DEF ReplaceFails, Fault, Apart, BoundTypes
  <2>. QED  BY <2>1, <2>2, GotAlike, NewIsFree, GotFacts
<1>1. ASSUME NEW kind \in WriterKind, OtherWriter(New, kind) PROVE SyncInv'
  <2>1. AddMessage(Got(New), Got(New).cache, kind, turn)
    BY <1>1 DEF OtherWriter
  <2>. QED  BY <1>0, <2>1, AddSync, NewKinds
<1>3. ASSUME NEW keep \in 0..MaxMsgs, ToolTruncates(New, keep) PROVE SyncInv'
  <2>1. keep \in Nat
    BY LimitAssumption
  <2>. QED  BY <1>3, <2>1, TruncateSync DEF ToolTruncates
<1>4. ASSUME NEW p \in 1..MaxMsgs, Regenerate(New, p) PROVE SyncInv'
  BY <1>4, RegeneratePositions, TruncateSync
<1>5. CASE ReadHistory(New)
  <2>1. Become(Got(New), turn) /\ UNCHANGED <<rows, count, merges>>
    <3>1. Shown(Got(New)) = <<>> => rows = <<>>
      <4>1. ASSUME Shown(Got(New)) = <<>> PROVE rows = <<>>
        <5>1. Len(rows) = Len(<<>>) /\ Len(<<>>) = 0
          BY <1>0, <4>1 DEF Alike
        <5>2. rows \in Seq(RowsOf(lastId, sent))
          BY RowsType
        <5>. QED  BY <5>1, <5>2
      <4>. QED  BY <4>1
    <3>. QED  BY <1>5, <3>1, ReadCases DEF dbVars
  <2>. QED  BY <2>1, LookSync
<1>6. CASE BeginCompact(New)
  <2>1. Become(Got(New), turn) /\ UNCHANGED <<rows, count, merges>>
    BY <1>6, BeginCases DEF dbVars
  <2>. QED  BY <2>1, LookSync
<1>7. CASE EndCompact(New)
  <2>1. Replace(Got(New), Shortened, turn)
    BY <1>0, <1>7, EndCases
  <2>. QED  BY <1>0, <2>1, ShortenedFacts, ReplaceSync
<1>. QED  BY <1>1, <1>3, <1>4, <1>5, <1>6, <1>7, DeleteSync, MergeSync DEF Request

\* The object of a turn is the cached one, and stays as it is.
LEMMA RestSync ==
  ASSUME DataTypes, SyncInv, ~Apart, NEW tt, Become(mem, tt), UNCHANGED <<rows, count, merges>>,
         \A t \in Turn : tt[t].pc # "idle" => turn[t].pc # "idle"
  PROVE  SyncInv'
<1>1. /\ mem'.cache = mem.cache /\ turn' = tt
      /\ mem.cache \in Obj => mem'.hist[mem.cache] = mem.hist[mem.cache] /\ mem'.known[mem.cache] = mem.known[mem.cache]
  BY BecomeCached
<1>2. Live' => Live
  BY <1>1, ObjAssumption DEF Live, Active, Hydrates
<1>. QED  BY <1>1, <1>2 DEF SyncInv, Counted, Live

LEMMA TurnSync ==
  ASSUME DataTypes, BoundTypes, HeldInv, SyncInv, ~Apart, ~Apart', NEW t \in Turn, TurnStep(t, New)
  PROVE  SyncInv'
<1>0. /\ turn \in [Turn -> TurnSet(sent)] /\ mem \in Mems(lastId, sent) /\ ~ReplaceFails
      /\ turn[t].pc # "idle" => turn[t].sess = mem.cache /\ mem.cache \in Obj /\ Alike(mem.hist[mem.cache], rows, merges)
  <2>2. ~ReplaceFails
    BY LimitAssumption DEF ReplaceFails, Fault, Apart, BoundTypes
  <2>. QED  BY <2>2, HeldAlike DEF DataTypes
<1>1. CASE TurnOpens(t, New)
  BY <1>1, LookSync DEF TurnOpens, dbVars
<1>2. ASSUME NEW kind \in Kind, NEW tt, turn[t].pc # "idle", AddMessage(mem, turn[t].sess, kind, tt) PROVE SyncInv'
  BY <1>0, <1>2, AddSync
<1>3. ASSUME NEW kind \in TurnKind, TurnSends(t, kind) PROVE SyncInv'
  BY <1>2, <1>3, TurnAdds
<1>4. ASSUME NEW p \in Preface, TurnSendsFull(t, p) PROVE SyncInv'
  <2>1. PICK tt \in [Turn -> TurnSet(sent + 1)] : turn[t].pc # "idle" /\ AddMessage(mem, turn[t].sess, "user", tt)
    BY <1>4, TurnAdds
  <2>. QED  BY <1>2, <2>1, NewKinds
<1>5. CASE TurnReplies(t)
  BY <1>2, <1>5, TurnAdds, NewKinds
<1>6. CASE AutoCompact(t, New)
  <2>1. Replace(Got(New), AutoCompacted(t), TurnRuns(t)) /\ Found
    BY <1>0, <1>6, AutoCompactCases
  <2>2. AutoCompacted(t) \in Seq(Entries(lastId, sent)) /\ TurnRuns(t) \in [Turn -> TurnSet(sent)]
    BY <1>6, AutoCompactCases, AutoCompactedFacts
  <2>3. Got(New) \in Mems(lastId, sent) /\ Got(New).cache \in Obj
    BY <2>1, NewIsFree, GotFacts
  <2>. QED  BY <2>1, <2>2, <2>3, ReplaceSync
<1>7. CASE AutoCompactSkipped(t)
  <2>1. turn[t].pc # "idle" /\ Become(mem, TurnRuns(t)) /\ UNCHANGED <<rows, count, merges>>
    BY <1>7 DEF AutoCompactSkipped, TurnRuns, dbVars
  <2>2. \A u \in Turn : TurnRuns(t)[u].pc # "idle" => turn[u].pc # "idle"
    BY <1>0, <2>1 DEF TurnRuns
  <2>. QED  BY <2>1, <2>2, RestSync
<1>8. CASE TurnFails(t)
  <2>1. Become(mem, [turn EXCEPT ![t] = Idle]) /\ UNCHANGED <<rows, count, merges>>
    BY <1>8 DEF TurnFails, dbVars
  <2>2. \A u \in Turn : [turn EXCEPT ![t] = Idle][u].pc # "idle" => turn[u].pc # "idle"
    BY <1>0 DEF Idle
  <2>. QED  BY <2>1, <2>2, RestSync
<1>. QED  BY <1>1, <1>3, <1>4, <1>5, <1>6, <1>7, <1>8 DEF TurnStep

LEMMA SyncStep ==
  ASSUME DataTypes, BoundTypes, HeldInv, RowIds, SyncInv, [Next]_vars
  PROVE  SyncInv'
<1>. SUFFICES ASSUME ~Apart' PROVE SyncInv'
  BY DEF SyncInv
<1>1. ~Apart
  BY PastStep, PastApart
<1>2. CASE UNCHANGED vars \/ CompactFails
  <2>1. UNCHANGED <<mem, turn, rows, count, pastVars, session>>
    BY <1>2 DEF vars, CompactFails, dbVars
  <2>2. (Live' <=> Live) /\ merges' = merges
    BY <2>1 DEF Live, Active, Hydrates, pastVars
  <2>. QED  BY <1>1, <2>1, <2>2 DEF SyncInv, Counted
<1>3. CASE DeleteSession
  <2>. DEFINE p == [mem EXCEPT !.cache = NoObj]
  <2>1. Become(p, turn) /\ UNCHANGED <<rows, count, merges>>
    BY <1>3 DEF DeleteSession
  <2>2. p.cache = NoObj
    BY DEF DataTypes, Mems
  <2>. HIDE DEF p
  <2>3. ~Live'
    BY <2>1, <2>2, BecomeCached, ObjAssumption DEF Live
  <2>. QED  BY <1>1, <2>1, <2>3 DEF SyncInv, Counted
<1>4. CASE DeleteCommits
  BY <1>4 DEF DeleteCommits, Apart
<1>5. CASE DeleteFails
  BY <1>5, LimitAssumption DEF DeleteFails, Fault, Apart, BoundTypes
<1>6. CASE Restart(New)
  <2>1. Become(Fresh(New), AllIdle) /\ UNCHANGED <<rows, count, merges>>
    BY <1>6, RestartCases
  <2>2. /\ Fresh(New).cache \in Obj => Fresh(New).hist[Fresh(New).cache] = <<>> /\ Fresh(New).known[Fresh(New).cache] > 0
        /\ \A t \in Turn : AllIdle[t].pc = "idle"
    <3>1. New \in Obj
      BY NewIsFree
    <3>. QED  BY <3>1, ObjAssumption DEF Fresh, AllIdle, Idle
  <2>3. ~Live'
    BY <2>1, <2>2, BecomeCached DEF Live, Active, Hydrates
  <2>. QED  BY <1>1, <2>1, <2>3 DEF SyncInv, Counted
<1>. QED  BY <1>1, <1>2, <1>3, <1>4, <1>5, <1>6, RequestSync, TurnSync DEF Next

LEMMA SyncInit == Init => HeldInv /\ RowIds /\ SyncInv
<1>. SUFFICES ASSUME Init PROVE RowIds /\ SyncInv
  BY HeldInit
<1>1. rows = <<>> /\ count = 0 /\ \A o \in Obj : mem.hist[o] = <<>>
  BY DEF Init
<1>2. Alike(<<>>, <<>>, merges) /\ Len(<<>>) = 0 /\ Distinct(<<>>)
  BY DEF Alike, Distinct
<1>. QED  BY <1>1, <1>2 DEF SyncInv, RowIds, Counted, Live

LEMMA SyncInvariant == Spec => [](DataTypes /\ BoundTypes /\ HeldInv /\ RowIds /\ SyncInv)
<1>1. Init => DataTypes /\ BoundTypes /\ HeldInv /\ RowIds /\ SyncInv
  BY DataTypesInit, BoundInit, SyncInit
<1>2. DataTypes /\ BoundTypes /\ HeldInv /\ RowIds /\ SyncInv /\ [Next]_vars
        => (DataTypes /\ BoundTypes /\ HeldInv /\ RowIds /\ SyncInv)'
  BY DataTypesStep, BoundStep, PastStep, RowIdsStep, SyncStep DEF Past
<1>. QED  BY <1>1, <1>2, PTL DEF Spec

\* The history get_session() hands out is the one in the database, message by message, and id by id until two replies
\* are merged: after any turns, compactions, truncations, deletions, merges and restarts that no known gap has spoilt.
THEOREM CacheIsTheRows == Spec => []CacheMatchesRows
<1>1. DataTypes /\ SyncInv => CacheMatchesRows
  <2>. SUFFICES ASSUME DataTypes, SyncInv, InStep, ~Hydrates(mem)
                PROVE  /\ Len(Shown(mem)) = Len(rows)
                       /\ \A i \in DOMAIN rows :
                            /\ Shown(mem)[i].text = rows[i].text /\ Shown(mem)[i].kind = rows[i].kind
                            /\ merges = 0 => Shown(mem)[i].id = rows[i].id
    BY DEF CacheMatchesRows
  <2>1. mem.cache \in Obj /\ Shown(mem) = mem.hist[mem.cache]
    BY DEF DataTypes, Mems, Hydrates, Shown
  <2>2. Alike(Shown(mem), rows, merges)
    BY <2>1 DEF SyncInv, InStep, Apart, Live
  <2>. QED  BY <2>2 DEF Alike, Named
<1>. QED  BY <1>1, SyncInvariant, PTL

\* sessions.message_count is the number of rows, although each of the handlers that change it reckons it its own way:
\* from the rows, from the history in memory, or from what it was told to keep.
THEOREM CountIsTheRows == Spec => []CountTracksRows
<1>1. SyncInv => CountTracksRows
  BY DEF SyncInv, CountTracksRows, InStep, Apart, Counted
<1>. QED  BY <1>1, SyncInvariant, PTL

-----------------------------------------------------------------------------
(* What an id names.                                                       *)

\* No id, nor that of a row that is not there, is in h twice.
Unique(h) == \A i, j \in DOMAIN h : h[i].id = h[j].id \/ h[i].id = -h[j].id => i = j \/ h[i].id = 0
\* An id of h that a row has is that of the same message.
SameText(h, s) == \A i \in DOMAIN h, k \in DOMAIN s : h[i].id = s[k].id => h[i].text = s[k].text
NamesOk(h, s) == Unique(h) /\ SameText(h, s)

NamesInv == merges = 0 /\ autos = 0 /\ ~detached /\ mem.cache \in Obj => NamesOk(mem.hist[mem.cache], rows)

\* The entries of u are some of the entries of s, at positions of their own.
From(u, s) ==
  \E g \in [DOMAIN u -> DOMAIN s] :
    /\ \A i, j \in DOMAIN u : g[i] = g[j] => i = j
    /\ \A i \in DOMAIN u : u[i].id = s[g[i]].id /\ u[i].text = s[g[i]].text

LEMMA FromNames ==
  ASSUME NEW u, NEW h, NEW v, NEW s, From(u, h), From(v, s), NamesOk(h, s)
  PROVE  NamesOk(u, v)
<1>. PICK f \in [DOMAIN u -> DOMAIN h] :
       /\ \A i, j \in DOMAIN u : f[i] = f[j] => i = j
       /\ \A i \in DOMAIN u : u[i].id = h[f[i]].id /\ u[i].text = h[f[i]].text
  BY DEF From
<1>. PICK g \in [DOMAIN v -> DOMAIN s] :
       /\ \A i, j \in DOMAIN v : g[i] = g[j] => i = j
       /\ \A i \in DOMAIN v : v[i].id = s[g[i]].id /\ v[i].text = s[g[i]].text
  BY DEF From
<1>1. Unique(u)
  BY DEF NamesOk, Unique
<1>2. SameText(u, v)
  BY DEF NamesOk, SameText
<1>. QED  BY <1>1, <1>2 DEF NamesOk

LEMMA FromSelf == ASSUME NEW s PROVE From(s, s)
<1>. DEFINE g == [i \in DOMAIN s |-> i]
<1>. g \in [DOMAIN s -> DOMAIN s] /\ \A i \in DOMAIN s : g[i] = i
  OBVIOUS
<1>. HIDE DEF g
<1>. QED  BY DEF From

LEMMA FirstFrom ==
  ASSUME NEW S, NEW s \in Seq(S), NEW n \in Nat
  PROVE  From(First(s, n), s)
<1>. DEFINE u == First(s, n)
            g == [i \in DOMAIN u |-> i]
<1>1. u \in Seq(S) /\ \A i \in 1..Len(u) : u[i] = s[i] /\ i \in DOMAIN s
  BY FirstWithin
<1>2. DOMAIN u = 1..Len(u)
  BY <1>1
<1>. HIDE DEF u
<1>3. g \in [DOMAIN u -> DOMAIN s] /\ \A i \in DOMAIN u : g[i] = i
  BY <1>1, <1>2
<1>. HIDE DEF g
<1>. QED  BY <1>1, <1>2, <1>3 DEF From, u

LEMMA WithoutFrom ==
  ASSUME NEW S, NEW s \in Seq(S), NEW id
  PROVE  From(Without(s, id), s)
<1>. DEFINE K == {j \in DOMAIN s : s[j].id # id}
            u == Chosen(s, K)
            g == [i \in 1..Cardinality(K) |-> Position(K, i)]
<1>0. K \in SUBSET DOMAIN s
  OBVIOUS
<1>. HIDE DEF K
<1>1. /\ DOMAIN u = 1..Cardinality(K) /\ Cardinality(K) \in Nat
      /\ \A i \in 1..Cardinality(K) : Position(K, i) \in K /\ u[i] = s[Position(K, i)]
  BY <1>0, ChosenWithin
<1>2. \A i, j \in 1..Cardinality(K) : i < j => Position(K, i) < Position(K, j)
  <2>. DOMAIN s = 1..Len(s) /\ Len(s) \in Nat
    OBVIOUS
  <2>. QED  BY <1>0, Positions
<1>3. ASSUME NEW i \in 1..Cardinality(K), NEW j \in 1..Cardinality(K), Position(K, i) = Position(K, j)
      PROVE  i = j
  <2>1. Position(K, i) \in Nat
    BY <1>0, <1>1
  <2>2. ~(i < j) /\ ~(j < i)
    BY <1>2, <1>3, <2>1
  <2>. QED  BY <1>1, <2>2
<1>. HIDE DEF u
<1>4. g \in [DOMAIN u -> DOMAIN s] /\ \A i \in DOMAIN u : g[i] = Position(K, i)
  BY <1>0, <1>1
<1>. HIDE DEF g
<1>5. From(u, s)
  BY <1>1, <1>3, <1>4 DEF From
<1>. QED  BY <1>5 DEF Without, K, u

LEMMA LoadedNames ==
  ASSUME NEW l \in Nat, NEW n \in Nat, NEW s \in Seq(RowsOf(l, n)), Distinct(s)
  PROVE  NamesOk(Loaded(s), s)
<1>1. DOMAIN Loaded(s) = DOMAIN s /\ \A i \in DOMAIN s : Loaded(s)[i].id = s[i].id /\ Loaded(s)[i].text = s[i].text
  BY LoadedFacts
<1>2. \A i \in DOMAIN s : s[i].id \in 1..l
  <2>1. \A i \in DOMAIN s : s[i] \in RowsOf(l, n)
    OBVIOUS
  <2>. QED  BY <2>1 DEF RowsOf
<1>3. \A i, j \in DOMAIN s : s[i].id # -s[j].id
  BY <1>2
<1>. QED  BY <1>1, <1>3 DEF NamesOk, Unique, SameText, Distinct

LEMMA RereadNames ==
  ASSUME NEW l \in Nat, NEW n \in Nat, NEW s \in Seq(RowsOf(l, n)), Distinct(s)
  PROVE  NamesOk(Reread(s), s)
<1>1. DOMAIN Reread(s) = DOMAIN s /\ \A i \in DOMAIN s : Reread(s)[i].id \in {0, -s[i].id}
  BY DEF Reread
<1>2. \A i \in DOMAIN s : s[i].id \in 1..l
  <2>1. \A i \in DOMAIN s : s[i] \in RowsOf(l, n)
    OBVIOUS
  <2>. QED  BY <2>1 DEF RowsOf
<1>3. \A i, j \in DOMAIN s : Reread(s)[i].id # s[j].id
  BY <1>1, <1>2
<1>4. ASSUME NEW i \in DOMAIN s, NEW j \in DOMAIN s, Reread(s)[i].id # 0,
             Reread(s)[i].id = Reread(s)[j].id \/ Reread(s)[i].id = -Reread(s)[j].id
      PROVE  i = j
  <2>1. s[i].id = s[j].id
    BY <1>1, <1>2, <1>4
  <2>. QED  BY <2>1 DEF Distinct
<1>. QED  BY <1>1, <1>3, <1>4 DEF NamesOk, Unique, SameText

LEMMA GotNames ==
  ASSUME DataTypes, RowIds, NamesInv, Found, merges = 0, autos = 0, ~detached
  PROVE  NamesOk(Shown(Got(New)), rows) /\ Shown(Got(New)) = Got(New).hist[Got(New).cache] /\ Got(New).cache \in Obj
<1>1. /\ Shown(Got(New)) = Got(New).hist[Got(New).cache] /\ Got(New).cache \in Obj
      /\ ~Hydrates(mem) => mem.cache \in Obj
      /\ Shown(Got(New)) = IF Hydrates(mem) THEN Loaded(rows) ELSE mem.hist[mem.cache]
  BY NewIsFree, GotFacts
<1>2. NamesOk(Loaded(rows), rows)
  BY RowsType, LoadedNames DEF RowIds
<1>. QED  BY <1>1, <1>2 DEF NamesInv

\* The id of a new row, or none.
LEMMA AppendNames ==
  ASSUME NEW l \in Nat, NEW k \in Nat, NEW h \in Seq(Entries(l, k)), NEW s \in Seq(RowsOf(l, k)), NamesOk(h, s),
         NEW e \in Entries(l + 1, k + 1), NEW r \in RowsOf(l + 1, k + 1), r.id = l + 1, e.text = r.text
  PROVE  /\ e.id = l + 1 => NamesOk(Append(h, e), Append(s, r))
         /\ e.id = 0 => NamesOk(Append(h, e), s)
<1>0. l + 1 \in Nat /\ k + 1 \in Nat /\ l <= l + 1 /\ k <= k + 1
  OBVIOUS
<1>1. h \in Seq(Entries(l + 1, k + 1)) /\ s \in Seq(RowsOf(l + 1, k + 1))
  BY <1>0, Wider
<1>. DEFINE u == Append(h, e)
            v == Append(s, r)
            j == Len(s) + 1
            i == Len(h) + 1
<1>2. /\ DOMAIN u = 1..i /\ (\A x \in DOMAIN h : u[x] = h[x]) /\ u[i] = e /\ DOMAIN h = 1..Len(h) /\ Len(h) \in Nat
      /\ DOMAIN v = 1..j /\ (\A x \in DOMAIN s : v[x] = s[x]) /\ v[j] = r /\ DOMAIN s = 1..Len(s) /\ Len(s) \in Nat
  BY <1>1, AppendFacts
<1>3. /\ \A x \in DOMAIN u : x = i \/ x \in DOMAIN h
      /\ \A x \in DOMAIN v : x = j \/ x \in DOMAIN s
  BY <1>2
<1>4. /\ \A x \in DOMAIN h : h[x].id \in -l..l
      /\ \A x \in DOMAIN s : s[x].id \in 1..l
  <2>1. (\A x \in DOMAIN h : h[x] \in Entries(l, k)) /\ (\A x \in DOMAIN s : s[x] \in RowsOf(l, k))
    OBVIOUS
  <2>. QED  BY <2>1 DEF Entries, RowsOf
<1>. HIDE DEF u, v, i, j
<1>5. ASSUME e.id = l + 1 PROVE NamesOk(u, v)
  <2>1. \A x \in DOMAIN h : h[x].id # l + 1 /\ h[x].id # -(l + 1) /\ -h[x].id # l + 1
    BY <1>4
  <2>2. \A x \in DOMAIN s : s[x].id # l + 1
    BY <1>4
  <2>3. Unique(u)
    BY <1>2, <1>3, <1>5, <2>1 DEF Unique, NamesOk
  <2>4. SameText(u, v)
    BY <1>2, <1>3, <1>5, <2>1, <2>2 DEF SameText, NamesOk
  <2>. QED  BY <2>3, <2>4 DEF NamesOk
<1>6. ASSUME e.id = 0 PROVE NamesOk(u, s)
  <2>2. \A x \in DOMAIN s : s[x].id # 0
    BY <1>4
  <2>3. Unique(u)
    <3>. SUFFICES ASSUME NEW x \in DOMAIN u, NEW y \in DOMAIN u, u[x].id = u[y].id \/ u[x].id = -u[y].id, u[x].id # 0
                  PROVE  x = y
      BY DEF Unique
    <3>1. x \in DOMAIN h /\ u[x] = h[x]
      BY <1>2, <1>3, <1>6
    <3>2. y \in DOMAIN h /\ u[y] = h[y]
      BY <1>2, <1>3, <1>4, <1>6, <3>1
    <3>. QED  BY <3>1, <3>2 DEF Unique, NamesOk
  <2>4. SameText(u, s)
    <3>. SUFFICES ASSUME NEW x \in DOMAIN u, NEW y \in DOMAIN s, u[x].id = s[y].id PROVE u[x].text = s[y].text
      BY DEF SameText
    <3>1. x \in DOMAIN h /\ u[x] = h[x]
      BY <1>2, <1>3, <1>6, <2>2
    <3>. QED  BY <3>1 DEF SameText, NamesOk
  <2>. QED  BY <2>3, <2>4 DEF NamesOk
<1>. QED  BY <1>5, <1>6 DEF u, v

LEMMA SameButForSign ==
  ASSUME NEW p \in Int, NEW q \in Int, NEW c, NEW d,
         c = p \/ c = -p, d = q \/ d = -q, c = d \/ c = -d, c # 0
  PROVE  (p = q \/ p = -q) /\ p # 0
OBVIOUS

LEMMA DisownedNames ==
  ASSUME NEW l \in Nat, NEW k \in Nat, NEW h \in Seq(Entries(l, k)), NEW s \in Seq(RowsOf(l, k)),
         NamesOk(h, s), NEW new
  PROVE  NamesOk(Disowned(h, new), s)
<1>. DEFINE u == Disowned(h, new)
<1>1. DOMAIN u = DOMAIN h /\ \A x \in DOMAIN h : u[x] \in {h[x], Dangling(h[x])}
  BY DisownedFacts
<1>2. ASSUME NEW x \in DOMAIN h
      PROVE  /\ h[x].id \in -l..l /\ (u[x].id = h[x].id \/ u[x].id = -h[x].id) /\ u[x].text = h[x].text
             /\ u[x].id = h[x].id \/ u[x].id <= 0
  <2>1. h[x] \in Entries(l, k)
    OBVIOUS
  <2>2. Dangling(h[x]).text = h[x].text /\ (Dangling(h[x]).id = h[x].id \/ Dangling(h[x]).id = -h[x].id)
        /\ Dangling(h[x]).id <= 0
    BY <2>1 DEF Dangling, Entries
  <2>3. h[x].id \in -l..l
    BY <2>1 DEF Entries
  <2>. QED  BY <1>1, <2>2, <2>3
<1>3. \A x \in DOMAIN s : s[x].id \in 1..l
  <2>1. \A x \in DOMAIN s : s[x] \in RowsOf(l, k)
    OBVIOUS
  <2>. QED  BY <2>1 DEF RowsOf
<1>. HIDE DEF u
<1>4. Unique(u)
  <2>. SUFFICES ASSUME NEW x \in DOMAIN h, NEW y \in DOMAIN h, u[x].id = u[y].id \/ u[x].id = -u[y].id, u[x].id # 0
                PROVE  x = y
    BY <1>1 DEF Unique
  <2>1. /\ h[x].id \in Int /\ (u[x].id = h[x].id \/ u[x].id = -h[x].id)
        /\ h[y].id \in Int /\ (u[y].id = h[y].id \/ u[y].id = -h[y].id)
    BY <1>2
  <2>2. (h[x].id = h[y].id \/ h[x].id = -h[y].id) /\ h[x].id # 0
    BY <2>1, SameButForSign
  <2>. QED  BY <2>2 DEF Unique, NamesOk
<1>5. SameText(u, s)
  <2>. SUFFICES ASSUME NEW x \in DOMAIN h, NEW y \in DOMAIN s, u[x].id = s[y].id PROVE u[x].text = s[y].text
    BY <1>1 DEF SameText
  <2>1. u[x].id = h[x].id
    BY <1>2, <1>3
  <2>. QED  BY <1>2, <2>1 DEF SameText, NamesOk
<1>. QED  BY <1>4, <1>5 DEF NamesOk, u

LEMMA BecomeNames ==
  ASSUME NEW p, NEW tt, Become(p, tt), p.cache \in Obj => NamesOk(p.hist[p.cache], rows')
  PROVE  NamesInv'
BY BecomeCached DEF NamesInv

LEMMA EditNames ==
  ASSUME DataTypes, Found, NEW h, NamesOk(h, rows'),
         \/ Become([Got(New) EXCEPT !.hist[Got(New).cache] = h], turn)
         \/ \E k : Become([Got(New) EXCEPT !.hist[Got(New).cache] = h, !.known[Got(New).cache] = k], turn)
  PROVE  NamesInv'
<1>1. Got(New).cache \in Obj /\ Got(New) \in Mems(lastId, sent)
  BY NewIsFree, GotFacts
<1>2. mem'.hist[mem'.cache] = h
  BY <1>1, BecomeEdited
<1>. QED  BY <1>2 DEF NamesInv

LEMMA LookNames ==
  ASSUME DataTypes, RowIds, NamesInv, Found, merges = 0, autos = 0, ~detached,
         NEW tt, Become(Got(New), tt), rows' = rows
  PROVE  NamesInv'
<1>1. NamesOk(Got(New).hist[Got(New).cache], rows')
  BY GotNames, Zenon
<1>. QED  BY <1>1, BecomeNames

LEMMA AddNames ==
  ASSUME DataTypes, NEW m \in Mems(lastId, sent), NEW o \in Obj, o = m.cache, NEW kind \in Kind, NEW tt,
         AddMessage(m, o, kind, tt), NamesOk(m.hist[o], rows)
  PROVE  NamesInv'
<1>1. /\ lastId \in Nat /\ sent \in Nat /\ rows \in Seq(RowsOf(lastId, sent)) /\ m.hist[o] \in Seq(Entries(lastId, sent))
      /\ m.hist \in [Obj -> Seq(Entries(lastId, sent))]
  BY RowsType DEF Mems
<1>. DEFINE r == NewestRow(kind)
<1>2. ASSUME NEW id \in {0, lastId + 1}
      PROVE  /\ Plus(m, o, id, kind).cache = o /\ Plus(m, o, id, kind).hist[o] = Append(m.hist[o], Newest(id, kind))
             /\ Newest(id, kind) \in Entries(lastId + 1, sent + 1) /\ Newest(id, kind).id = id
             /\ Newest(id, kind).text = r.text /\ r \in RowsOf(lastId + 1, sent + 1) /\ r.id = lastId + 1
             /\ [Plus(m, o, id, kind) EXCEPT !.cache = NoObj].cache = NoObj
  <2>1. lastId + 1 \in {lastId, lastId + 1} /\ id <= lastId + 1
    BY <1>1
  <2>2. PlusOk(m, o, id, kind, lastId + 1)
    BY <2>1, PlusFacts, Zenon
  <2>3. /\ Newest(id, kind) \in Entries(lastId + 1, sent + 1) /\ Newest(id, kind).id = id
        /\ Newest(id, kind).text = r.text /\ r \in RowsOf(lastId + 1, sent + 1) /\ r.id = lastId + 1
    BY <1>1 DEF Newest, NewestRow, Entries, RowsOf
  <2>. HIDE DEF r
  <2>4. /\ Plus(m, o, id, kind).cache = o /\ Plus(m, o, id, kind).hist = Longer(m, o, Newest(id, kind))
        /\ [Plus(m, o, id, kind) EXCEPT !.cache = NoObj].cache = NoObj
    BY <2>2 DEF PlusOk
  <2>5. Longer(m, o, Newest(id, kind))[o] = Append(m.hist[o], Newest(id, kind))
    BY <1>1 DEF Longer
  <2>. QED  BY <2>3, <2>4, <2>5
<1>. HIDE DEF r
<1>3. /\ \A id \in {0, lastId + 1} : id = lastId + 1 =>
           NamesOk(Append(m.hist[o], Newest(id, kind)), Append(rows, r))
      /\ \A id \in {0, lastId + 1} : id = 0 => NamesOk(Append(m.hist[o], Newest(id, kind)), rows)
  BY <1>1, <1>2, AppendNames
<1>4. CASE AddCommits(m, o, kind, tt)
  BY <1>2, <1>3, <1>4, BecomeNames DEF AddCommits, r
<1>5. CASE AddRollsBack(m, o, kind, tt)
  BY <1>2, <1>3, <1>5, BecomeNames DEF AddRollsBack
<1>6. CASE AddDrops(m, o, kind, tt)
  BY <1>2, <1>6, BecomeNames, ObjAssumption DEF AddDrops
<1>. QED  BY <1>4, <1>5, <1>6, AddCases

LEMMA TruncateCases ==
  ASSUME NEW o, NEW keep, NEW meant, Truncate(o, keep, meant)
  PROVE  LET m    == Got(o)
             gone == Texts(After(rows, meant)) \cup Texts(After(Shown(m), meant))
         IN /\ Unlocked /\ Found
            /\ \/ /\ Become([m EXCEPT !.hist[m.cache] = First(@, keep)], turn)
                  /\ rows' = First(rows, keep) /\ removed' = removed \cup gone /\ Behind(gone) /\ faults' = faults
               \/ Fault /\ Become(m, turn) /\ UNCHANGED <<rows, removed, behind>>
            /\ UNCHANGED <<session, comp, lastId, sent, autos, merges, restarts, saved, missed>>
BY DEF Truncate

LEMMA TruncateNames ==
  ASSUME DataTypes, RowIds, NamesInv, merges = 0, autos = 0, ~detached,
         NEW keep \in Nat, NEW meant, Truncate(New, keep, meant)
  PROVE  NamesInv'
<1>. DEFINE m == Got(New)
            h == m.hist[m.cache]
            u == First(h, keep)
<1>1. /\ Found
      /\ \/ Become([m EXCEPT !.hist[m.cache] = First(@, keep)], turn) /\ rows' = First(rows, keep)
         \/ Become(m, turn) /\ UNCHANGED <<rows, removed, behind>>
  BY TruncateCases, Zenon
<1>2. /\ m \in Mems(lastId, sent) /\ m.cache \in Obj /\ h \in Seq(Entries(lastId, sent)) /\ NamesOk(h, rows)
      /\ rows \in Seq(RowsOf(lastId, sent))
  <2>1. m \in Mems(lastId, sent) /\ m.cache \in Obj /\ h \in Seq(Entries(lastId, sent))
    BY <1>1, NewIsFree, GotFacts
  <2>2. NamesOk(h, rows)
    BY <1>1, GotNames
  <2>. QED  BY <2>1, <2>2, RowsType
<1>3. [m EXCEPT !.hist[m.cache] = First(@, keep)] = [m EXCEPT !.hist[m.cache] = u]
  <2>. HIDE DEF m
  <2>. QED  BY <1>2 DEF Mems
<1>. HIDE DEF h
<1>4. NamesOk(u, First(rows, keep))
  BY <1>2, FirstFrom, FromNames
<1>. HIDE DEF u
<1>5. CASE Become(m, turn) /\ UNCHANGED <<rows, removed, behind>>
  BY <1>1, <1>5, LookNames
<1>6. CASE Become([m EXCEPT !.hist[m.cache] = u], turn) /\ rows' = First(rows, keep)
  BY <1>1, <1>4, <1>6, EditNames
<1>. QED  BY <1>1, <1>3, <1>5, <1>6

LEMMA DeleteNames ==
  ASSUME DataTypes, RowIds, NamesInv, merges = 0, autos = 0, ~detached, NEW i \in 1..MaxMsgs, DeleteMessage(New, i)
  PROVE  NamesInv'
<1>. DEFINE m == Got(New)
            h == Shown(m)
            id == h[i].id
            u == Without(h, id)
            k == Len(u)
<1>1. /\ Found /\ Become([m EXCEPT !.hist[m.cache] = Without(@, id), !.known[m.cache] = k], turn)
      /\ rows' = Without(rows, id) \/ rows' = rows
  BY DeleteCases
<1>2. /\ m \in Mems(lastId, sent) /\ m.cache \in Obj /\ h \in Seq(Entries(lastId, sent)) /\ h = m.hist[m.cache]
      /\ NamesOk(h, rows) /\ rows \in Seq(RowsOf(lastId, sent))
  <2>1. m \in Mems(lastId, sent) /\ m.cache \in Obj /\ h \in Seq(Entries(lastId, sent)) /\ h = m.hist[m.cache]
    BY <1>1, NewIsFree, GotFacts
  <2>2. NamesOk(h, rows)
    BY <1>1, GotNames
  <2>. QED  BY <2>1, <2>2, RowsType
<1>. HIDE DEF m, h
<1>3. NamesOk(u, rows')
  <2>1. From(u, h)
    BY <1>2, WithoutFrom
  <2>2. From(rows', rows)
    BY <1>1, <1>2, WithoutFrom, FromSelf
  <2>. QED  BY <1>2, <2>1, <2>2, FromNames
<1>4. [m EXCEPT !.hist[m.cache] = Without(@, id), !.known[m.cache] = k]
        = [m EXCEPT !.hist[m.cache] = u, !.known[m.cache] = k]
  <2>. HIDE DEF k
  <2>. QED  BY <1>2 DEF Mems
<1>. HIDE DEF u, k, id
<1>. QED  BY <1>1, <1>3, <1>4, EditNames DEF m

LEMMA EndNames ==
  ASSUME DataTypes, RowIds, NamesInv, merges = 0, autos = 0, ~detached, EndCompact(New)
  PROVE  NamesInv'
<1>. DEFINE m == Got(New)
            h == m.hist[m.cache]
            u == Disowned(h, comp.recent)
<1>1. /\ Found /\ \/ Replace(m, Shortened, turn)
                  \/ Become([m EXCEPT !.hist[m.cache] = Disowned(@, comp.recent)], turn) /\ rows' = rows
  BY EndCases
<1>2. /\ m \in Mems(lastId, sent) /\ m.cache \in Obj /\ h \in Seq(Entries(lastId, sent)) /\ NamesOk(h, rows)
      /\ rows \in Seq(RowsOf(lastId, sent)) /\ turn \in [Turn -> TurnSet(sent)] /\ lastId \in Nat /\ sent \in Nat
  <2>1. m \in Mems(lastId, sent) /\ m.cache \in Obj /\ h \in Seq(Entries(lastId, sent))
    BY <1>1, NewIsFree, GotFacts
  <2>2. NamesOk(h, rows)
    BY <1>1, GotNames
  <2>3. turn \in [Turn -> TurnSet(sent)]
    BY DEF DataTypes
  <2>. QED  BY <2>1, <2>2, <2>3, RowsType
<1>3. [m EXCEPT !.hist[m.cache] = Disowned(@, comp.recent)] = [m EXCEPT !.hist[m.cache] = u]
  <2>. HIDE DEF m
  <2>. QED  BY <1>2 DEF Mems
<1>. HIDE DEF h
<1>4. NamesOk(u, rows)
  BY <1>2, DisownedNames
<1>. HIDE DEF u
<1>5. CASE Become([m EXCEPT !.hist[m.cache] = u], turn) /\ rows' = rows
  BY <1>1, <1>4, <1>5, EditNames
<1>. HIDE DEF m
<1>6. CASE Replace(m, Shortened, turn)
  <2>1. Shortened \in Seq(Entries(lastId, sent))
    BY ShortenedFacts
  <2>2. rows' = Rewritten(Shortened) /\ mem'.cache = m.cache /\ mem'.hist[m.cache] = Loaded(rows')
    BY <1>2, <1>6, <2>1, ReplaceFacts
  <2>3. /\ rows' \in Seq(RowsOf(lastId + Len(Shortened), sent)) /\ lastId + Len(Shortened) \in Nat /\ Distinct(rows')
    BY <1>2, <2>1, <2>2, RewrittenFacts, RewrittenDistinct
  <2>4. NamesOk(Loaded(rows'), rows')
    BY <1>2, <2>3, LoadedNames
  <2>. QED  BY <2>2, <2>4 DEF NamesInv
<1>. QED  BY <1>1, <1>3, <1>5, <1>6

LEMMA RequestNames ==
  ASSUME DataTypes, BoundTypes, RowIds, NamesInv, merges = 0, autos = 0, ~detached, merges' = 0, Request(New)
  PROVE  NamesInv'
<1>1. ASSUME NEW kind \in WriterKind, OtherWriter(New, kind) PROVE NamesInv'
  <2>1. Found /\ AddMessage(Got(New), Got(New).cache, kind, turn)
    BY <1>1 DEF OtherWriter
  <2>2. Got(New) \in Mems(lastId, sent) /\ Got(New).cache \in Obj /\ NamesOk(Got(New).hist[Got(New).cache], rows)
    BY <2>1, NewIsFree, GotFacts, GotNames
  <2>. QED  BY <2>1, <2>2, AddNames, NewKinds
<1>2. ASSUME NEW keep \in 0..MaxMsgs, ToolTruncates(New, keep) PROVE NamesInv'
  <2>1. keep \in Nat
    BY LimitAssumption
  <2>. QED  BY <1>2, <2>1, TruncateNames DEF ToolTruncates
<1>3. ASSUME NEW p \in 1..MaxMsgs, Regenerate(New, p) PROVE NamesInv'
  BY <1>3, RegeneratePositions, TruncateNames
<1>4. CASE MergeReplies(New)
  BY <1>4, LimitAssumption DEF MergeReplies, BoundTypes
<1>5. CASE ReadHistory(New)
  <2>1. Found /\ rows' = rows
    BY <1>5, ReadCases DEF dbVars
  <2>2. CASE Become(Got(New), turn)
    BY <2>1, <2>2, LookNames
  <2>3. CASE Become([Got(New) EXCEPT !.hist[Got(New).cache] = Reread(rows)], turn)
    <3>1. NamesOk(Reread(rows), rows)
      BY RowsType, RereadNames DEF RowIds
    <3>. QED  BY <2>1, <2>3, <3>1, EditNames
  <2>. QED  BY <1>5, <2>2, <2>3, ReadCases
<1>6. CASE BeginCompact(New)
  <2>1. Found /\ Become(Got(New), turn) /\ rows' = rows
    BY <1>6, BeginCases DEF dbVars
  <2>. QED  BY <2>1, LookNames
<1>. QED  BY <1>1, <1>2, <1>3, <1>4, <1>5, <1>6, EndNames, DeleteNames DEF Request

LEMMA TurnNames ==
  ASSUME DataTypes, BoundTypes, HeldInv, RowIds, NamesInv, merges = 0, autos = 0, ~detached, autos' = 0,
         NEW t \in Turn, TurnStep(t, New)
  PROVE  NamesInv'
<1>1. /\ mem \in Mems(lastId, sent)
      /\ turn[t].pc # "idle" => turn[t].sess = mem.cache /\ mem.cache \in Obj /\ NamesOk(mem.hist[mem.cache], rows)
  BY DEF DataTypes, Holding, HeldInv, Active, NamesInv
<1>2. ASSUME NEW kind \in Kind, NEW tt, turn[t].pc # "idle", AddMessage(mem, turn[t].sess, kind, tt) PROVE NamesInv'
  BY <1>1, <1>2, AddNames
<1>3. ASSUME NEW tt, Become(mem, tt), rows' = rows PROVE NamesInv'
  <2>1. mem.cache \in Obj => NamesOk(mem.hist[mem.cache], rows')
    BY <1>3 DEF NamesInv
  <2>. QED  BY <1>3, <2>1, BecomeNames
<1>4. CASE TurnOpens(t, New)
  BY <1>4, LookNames DEF TurnOpens, dbVars
<1>5. ASSUME NEW kind \in TurnKind, TurnSends(t, kind) PROVE NamesInv'
  BY <1>2, <1>5, TurnAdds
<1>6. ASSUME NEW p \in Preface, TurnSendsFull(t, p) PROVE NamesInv'
  <2>1. PICK tt \in [Turn -> TurnSet(sent + 1)] : turn[t].pc # "idle" /\ AddMessage(mem, turn[t].sess, "user", tt)
    BY <1>6, TurnAdds
  <2>. QED  BY <1>2, <2>1, NewKinds
<1>7. CASE TurnReplies(t)
  BY <1>2, <1>7, TurnAdds, NewKinds
<1>8. CASE AutoCompact(t, New)
  BY <1>8, AutoCompactCases
<1>9. CASE AutoCompactSkipped(t) \/ TurnFails(t)
  BY <1>3, <1>9 DEF AutoCompactSkipped, TurnFails, dbVars
<1>. QED  BY <1>4, <1>5, <1>6, <1>7, <1>8, <1>9 DEF TurnStep

LEMMA NamesStep ==
  ASSUME DataTypes, BoundTypes, HeldInv, RowIds, NamesInv, [Next]_vars
  PROVE  NamesInv'
<1>. SUFFICES ASSUME merges' = 0, autos' = 0, ~detached', mem'.cache \in Obj PROVE NamesInv'
  BY DEF NamesInv
<1>1. merges = 0 /\ autos = 0 /\ ~detached
  BY PastStep DEF Past
<1>2. CASE UNCHANGED vars \/ CompactFails \/ DeleteFails
  <2>1. UNCHANGED <<mem, rows>>
    BY <1>2 DEF vars, CompactFails, DeleteFails, dbVars
  <2>. QED  BY <1>1, <2>1 DEF NamesInv
<1>3. CASE DeleteSession
  <2>. DEFINE p == [mem EXCEPT !.cache = NoObj]
  <2>1. Become(p, turn) /\ p.cache = NoObj
    BY <1>3 DEF DeleteSession, DataTypes, Mems
  <2>. HIDE DEF p
  <2>. QED  BY <2>1, BecomeNames, ObjAssumption
<1>4. CASE DeleteCommits
  <2>1. rows' = <<>> /\ mem' = mem
    BY <1>4 DEF DeleteCommits
  <2>. QED  BY <1>1, <2>1 DEF NamesInv, NamesOk, Unique, SameText
<1>5. CASE Restart(New)
  <2>1. Become(Fresh(New), AllIdle)
    BY <1>5, RestartCases
  <2>2. Fresh(New).cache \in Obj => Fresh(New).hist[Fresh(New).cache] = <<>>
    BY DEF Fresh
  <2>3. NamesOk(<<>>, rows')
    BY DEF NamesOk, Unique, SameText
  <2>. QED  BY <2>1, <2>2, <2>3, BecomeNames
<1>. QED  BY <1>1, <1>2, <1>3, <1>4, <1>5, RequestNames, TurnNames DEF Next

LEMMA NamesInit == Init => NamesInv
<1>. SUFFICES ASSUME Init PROVE NamesInv
  OBVIOUS
<1>1. rows = <<>> /\ \A o \in Obj : mem.hist[o] = <<>>
  BY DEF Init
<1>. QED  BY <1>1 DEF NamesInv, NamesOk, Unique, SameText

-----------------------------------------------------------------------------
(* What is kept of the messages.                                           *)

\* The histories that no known gap has spoilt.
Whole == /\ session # "deleted" /\ autos = 0 /\ ~detached /\ (merges = 0 \/ (faults = 0 /\ ~missed))
         /\ sent <= PageLimit
Kept == saved \ (removed \cup behind)
KeepInv ==
  Whole => /\ Kept \subseteq Texts(rows)
           /\ Live => Kept \subseteq Texts(mem.hist[mem.cache])
           /\ comp.pc = "await" => Kept \subseteq comp.older \cup Texts(comp.recent)

\* Only add_message() sends.
LEMMA SentGrows == ASSUME [Next]_vars PROVE sent' = sent \/ sent' = sent + 1
<1>1. ASSUME NEW m, NEW o, NEW kind, NEW tt, AddMessage(m, o, kind, tt) PROVE sent' = sent + 1
  BY <1>1 DEF AddMessage
<1>2. ASSUME Request(New) PROVE sent' = sent \/ sent' = sent + 1
  <2>1. ASSUME NEW kind \in WriterKind, OtherWriter(New, kind) PROVE sent' = sent + 1
    BY <1>1, <2>1 DEF OtherWriter
  <2>2. ASSUME NEW keep, NEW meant, Truncate(New, keep, meant) PROVE sent' = sent
    BY <2>2 DEF Truncate
  <2>3. ASSUME NEW i, DeleteMessage(New, i) PROVE sent' = sent
    BY <2>3 DEF DeleteMessage
  <2>4. CASE MergeReplies(New)
    BY <2>4 DEF MergeReplies
  <2>5. CASE ReadHistory(New)
    BY <2>5 DEF ReadHistory
  <2>6. CASE BeginCompact(New)
    BY <2>6 DEF BeginCompact
  <2>7. CASE EndCompact(New)
    BY <2>7 DEF EndCompact
  <2>. QED  BY <1>2, <2>1, <2>2, <2>3, <2>4, <2>5, <2>6, <2>7 DEF Request, ToolTruncates, Regenerate
<1>3. ASSUME NEW t \in Turn, TurnStep(t, New) PROVE sent' = sent \/ sent' = sent + 1
  <2>1. CASE TurnOpens(t, New) \/ AutoCompactSkipped(t) \/ TurnFails(t)
    BY <2>1 DEF TurnOpens, AutoCompactSkipped, TurnFails
  <2>2. ASSUME NEW kind \in TurnKind, TurnSends(t, kind) PROVE sent' = sent + 1
    BY <1>1, <2>2 DEF TurnSends
  <2>3. ASSUME NEW p \in Preface, TurnSendsFull(t, p) PROVE sent' = sent + 1
    BY <1>1, <2>3 DEF TurnSendsFull
  <2>4. CASE AutoCompact(t, New)
    BY <2>4 DEF AutoCompact
  <2>5. CASE TurnReplies(t)
    BY <1>1, <2>5 DEF TurnReplies
  <2>. QED  BY <1>3, <2>1, <2>2, <2>3, <2>4, <2>5 DEF TurnStep
<1>4. CASE CompactFails \/ DeleteSession \/ DeleteCommits \/ DeleteFails \/ Restart(New)
  BY <1>4 DEF CompactFails, DeleteSession, DeleteCommits, DeleteFails, Restart, pastVars
<1>5. CASE UNCHANGED vars
  BY <1>5 DEF vars, pastVars
<1>. QED  BY <1>2, <1>3, <1>4, <1>5 DEF Next

LEMMA PastWhole == ASSUME DataTypes, Past, [Next]_vars, Whole' PROVE Whole
<1>1. sent \in Nat /\ PageLimit \in Nat
  BY LimitAssumption DEF DataTypes
<1>2. sent' <= PageLimit => sent <= PageLimit
  BY <1>1, SentGrows
<1>. QED  BY <1>2 DEF Past, Whole

LEMMA WithinBoth == ASSUME NEW u, NEW s, Within(u, s), Within(s, u) PROVE Texts(u) = Texts(s)
BY WithinKeeps

LEMMA BehindGrows ==
  ASSUME NEW texts, Behind(texts)
  PROVE  behind \subseteq behind' /\ (Awaiting => texts \subseteq behind')
BY DEF Behind

LEMMA GotKeeps ==
  ASSUME DataTypes, KeepInv, Whole, Found
  PROVE  /\ Kept \subseteq Texts(Shown(Got(New))) /\ Shown(Got(New)) = Got(New).hist[Got(New).cache]
         /\ Got(New) \in Mems(lastId, sent) /\ Got(New).cache \in Obj /\ Shown(Got(New)) \in Seq(Entries(lastId, sent))
<1>1. /\ Shown(Got(New)) = Got(New).hist[Got(New).cache]
      /\ Got(New) \in Mems(lastId, sent) /\ Got(New).cache \in Obj /\ Shown(Got(New)) \in Seq(Entries(lastId, sent))
      /\ ~Hydrates(mem) => mem.cache \in Obj
      /\ Shown(Got(New)) = IF Hydrates(mem) THEN Loaded(rows) ELSE mem.hist[mem.cache]
  BY NewIsFree, GotFacts
<1>2. Texts(Loaded(rows)) = Texts(rows)
  BY RowsType, LoadedFacts, WithinBoth
<1>3. Kept \subseteq Texts(Shown(Got(New)))
  BY <1>1, <1>2 DEF KeepInv, Live
<1>. QED  BY <1>1, <1>3

\* A step that leaves enough in the cached history and in the rows.
LEMMA BecomeKeeps ==
  ASSUME NEW p, NEW tt, Become(p, tt), p.cache \in Obj => Kept' \subseteq Texts(p.hist[p.cache]),
         Kept' \subseteq Texts(rows'), comp'.pc = "await" => Kept' \subseteq comp'.older \cup Texts(comp'.recent)
  PROVE  KeepInv'
<1>1. Live' => Kept' \subseteq Texts(mem'.hist[mem'.cache])
  BY BecomeCached DEF Live
<1>. QED  BY <1>1 DEF KeepInv

LEMMA EditKeeps ==
  ASSUME DataTypes, KeepInv, Whole, Found, NEW h, Kept' \subseteq Texts(h), Kept' \subseteq Texts(rows'),
         Kept' \subseteq Kept,
         comp' = comp \/ comp' = NoComp,
         \/ Become([Got(New) EXCEPT !.hist[Got(New).cache] = h], turn)
         \/ \E k : Become([Got(New) EXCEPT !.hist[Got(New).cache] = h, !.known[Got(New).cache] = k], turn)
  PROVE  KeepInv'
<1>1. mem'.hist[mem'.cache] = h
  <2>1. Got(New) \in Mems(lastId, sent) /\ Got(New).cache \in Obj
    BY GotKeeps
  <2>2. mem'.cache = Got(New).cache /\ mem'.hist[Got(New).cache] = h
    BY <2>1, BecomeEdited
  <2>. QED  BY <2>2
<1>2. comp'.pc = "await" => Kept' \subseteq comp'.older \cup Texts(comp'.recent)
  <2>1. CASE comp' = comp
    BY <2>1 DEF KeepInv
  <2>2. CASE comp' = NoComp
    BY <2>2 DEF NoComp
  <2>. QED  BY <2>1, <2>2
<1>. QED  BY <1>1, <1>2 DEF KeepInv

LEMMA LookKeeps ==
  ASSUME DataTypes, KeepInv, Whole, Found, NEW tt, Become(Got(New), tt),
         UNCHANGED <<rows, comp, saved, removed, behind>>
  PROVE  KeepInv'
<1>1. Kept' = Kept
  BY DEF Kept
<1>2. Kept' \subseteq Texts(Got(New).hist[Got(New).cache])
  BY <1>1, GotKeeps
<1>3. /\ Kept' \subseteq Texts(rows')
      /\ comp'.pc = "await" => Kept' \subseteq comp'.older \cup Texts(comp'.recent)
  BY <1>1 DEF KeepInv
<1>. QED  BY <1>2, <1>3, BecomeKeeps

LEMMA RestKeeps ==
  ASSUME DataTypes, KeepInv, Whole, NEW tt, Become(mem, tt), UNCHANGED <<rows, comp, saved, removed, behind>>,
         \A t \in Turn : tt[t].pc # "idle" => turn[t].pc # "idle"
  PROVE  KeepInv'
<1>1. /\ mem'.cache = mem.cache /\ turn' = tt
      /\ mem.cache \in Obj => mem'.hist[mem.cache] = mem.hist[mem.cache] /\ mem'.known[mem.cache] = mem.known[mem.cache]
  BY BecomeCached
<1>2. Live' => Live
  BY <1>1, ObjAssumption DEF Live, Active, Hydrates
<1>3. Kept' = Kept
  BY DEF Kept
<1>. QED  BY <1>1, <1>2, <1>3 DEF KeepInv, Live

LEMMA AddKeeps ==
  ASSUME DataTypes, KeepInv, Whole, Whole', NEW m \in Mems(lastId, sent), NEW o \in Obj, o = m.cache,
         NEW kind \in Kind,
         NEW tt, AddMessage(m, o, kind, tt), Kept \subseteq Texts(m.hist[o])
  PROVE  KeepInv'
<1>1. /\ lastId \in Nat /\ sent \in Nat /\ rows \in Seq(RowsOf(lastId, sent)) /\ m.hist[o] \in Seq(Entries(lastId, sent))
      /\ m.hist \in [Obj -> Seq(Entries(lastId, sent))]
  BY RowsType DEF Mems
<1>2. ASSUME NEW id \in {0, lastId + 1}
      PROVE  /\ Plus(m, o, id, kind).cache = o /\ Plus(m, o, id, kind).hist[o] = Append(m.hist[o], Newest(id, kind))
             /\ Texts(Append(m.hist[o], Newest(id, kind))) = Texts(m.hist[o]) \cup {sent + 1}
  <2>1. lastId + 1 \in {lastId, lastId + 1} /\ id <= lastId + 1
    BY <1>1
  <2>2. PlusOk(m, o, id, kind, lastId + 1)
    BY <2>1, PlusFacts, Zenon
  <2>3. Newest(id, kind) \in Entries(lastId + 1, sent + 1) /\ Newest(id, kind).text = {sent + 1}
    BY <1>1 DEF Newest, Entries
  <2>4. Plus(m, o, id, kind).cache = o /\ Plus(m, o, id, kind).hist = Longer(m, o, Newest(id, kind))
    BY <2>2 DEF PlusOk
  <2>5. Longer(m, o, Newest(id, kind))[o] = Append(m.hist[o], Newest(id, kind))
    BY <1>1 DEF Longer
  <2>6. m.hist[o] \in Seq(Entries(lastId + 1, sent + 1))
    BY <1>1, Wider
  <2>. QED  BY <2>3, <2>4, <2>5, <2>6, AppendFacts
<1>3. comp' = comp /\ removed' = removed /\ session' = session
  BY AddCases
<1>4. CASE AddCommits(m, o, kind, tt)
  <2>1. Become(Plus(m, o, lastId + 1, kind), tt) /\ rows' = Append(rows, NewestRow(kind)) /\ saved' = saved \cup {sent + 1}
        /\ behind \subseteq behind' /\ (comp.pc = "await" => sent + 1 \in behind')
    BY <1>4, BehindGrows DEF AddCommits, Awaiting
  <2>2. Kept' \subseteq Kept \cup {sent + 1} /\ (comp.pc = "await" => Kept' \subseteq Kept)
    BY <1>3, <2>1 DEF Kept
  <2>3. Texts(rows') = Texts(rows) \cup {sent + 1}
    <3>1. NewestRow(kind) \in RowsOf(lastId + 1, sent + 1) /\ NewestRow(kind).text = {sent + 1}
      BY <1>1 DEF NewestRow, RowsOf
    <3>2. rows \in Seq(RowsOf(lastId + 1, sent + 1))
      <4>1. lastId + 1 \in Nat /\ sent + 1 \in Nat /\ lastId <= lastId + 1 /\ sent <= sent + 1
        BY <1>1
      <4>. QED  BY <1>1, <4>1, Wider
    <3>. QED  BY <2>1, <3>1, <3>2, AppendFacts
  <2>4. Kept' \subseteq Texts(rows') /\ Kept' \subseteq Texts(m.hist[o]) \cup {sent + 1}
    BY <2>2, <2>3 DEF KeepInv
  <2>5. comp'.pc = "await" => Kept' \subseteq comp'.older \cup Texts(comp'.recent)
    BY <1>3, <2>2 DEF KeepInv
  <2>. QED  BY <1>2, <2>1, <2>4, <2>5, BecomeKeeps
<1>5. CASE AddRollsBack(m, o, kind, tt)
  <2>1. Become(Plus(m, o, 0, kind), tt) /\ rows' = rows /\ Kept' = Kept
    BY <1>3, <1>5 DEF AddRollsBack, Kept
  <2>2. Kept' \subseteq Texts(rows') /\ (comp'.pc = "await" => Kept' \subseteq comp'.older \cup Texts(comp'.recent))
    BY <1>3, <2>1 DEF KeepInv
  <2>. QED  BY <1>2, <2>1, <2>2, BecomeKeeps
<1>6. CASE AddDrops(m, o, kind, tt)
  BY <1>3, <1>6 DEF AddDrops, Stored, Whole
<1>. QED  BY <1>4, <1>5, <1>6, AddCases

LEMMA TruncateKeeps ==
  ASSUME DataTypes, KeepInv, Whole, NEW keep \in Nat, Truncate(New, keep, keep)
  PROVE  KeepInv'
<1>. DEFINE m == Got(New)
            h == Shown(m)
            u == First(h, keep)
            gone == Texts(After(rows, keep)) \cup Texts(After(h, keep))
<1>1. /\ Found /\ comp' = comp /\ saved' = saved
      /\ \/ /\ Become([m EXCEPT !.hist[m.cache] = First(@, keep)], turn)
            /\ rows' = First(rows, keep) /\ removed' = removed \cup gone /\ Behind(gone) /\ faults' = faults
         \/ Fault /\ Become(m, turn) /\ UNCHANGED <<rows, removed, behind>>
  BY TruncateCases, Zenon
<1>2. /\ m \in Mems(lastId, sent) /\ m.cache \in Obj /\ h \in Seq(Entries(lastId, sent)) /\ h = m.hist[m.cache]
      /\ Kept \subseteq Texts(h) /\ rows \in Seq(RowsOf(lastId, sent)) /\ Kept \subseteq Texts(rows)
  <2>1. Kept \subseteq Texts(rows)
    BY DEF KeepInv
  <2>. QED  BY <1>1, <2>1, GotKeeps, RowsType
<1>3. [m EXCEPT !.hist[m.cache] = First(@, keep)] = [m EXCEPT !.hist[m.cache] = u]
  <2>. HIDE DEF m, h
  <2>. QED  BY <1>2 DEF Mems
<1>4. CASE Become(m, turn) /\ UNCHANGED <<rows, removed, behind>>
  BY <1>1, <1>4, LookKeeps
<1>. HIDE DEF m, h
<1>5. CASE /\ Become([m EXCEPT !.hist[m.cache] = First(@, keep)], turn)
           /\ rows' = First(rows, keep) /\ removed' = removed \cup gone /\ Behind(gone) /\ faults' = faults
  <2>1. Kept' \subseteq Kept \ gone
    <3>1. behind \subseteq behind'
      BY <1>5, BehindGrows
    <3>. HIDE DEF gone
    <3>. QED  BY <1>1, <1>5, <3>1 DEF Kept
  <2>2. Kept' \subseteq Texts(u) /\ Kept' \subseteq Texts(rows') /\ Kept' \subseteq Kept
    <3>1. Texts(h) \subseteq Texts(u) \cup Texts(After(h, keep))
      BY <1>2, FirstAndAfter
    <3>2. Texts(rows) \subseteq Texts(rows') \cup Texts(After(rows, keep))
      BY <1>2, <1>5, FirstAndAfter
    <3>. HIDE DEF u
    <3>. QED  BY <1>2, <2>1, <3>1, <3>2
  <2>3. Become([m EXCEPT !.hist[m.cache] = u], turn)
    BY <1>3, <1>5
  <2>. HIDE DEF u, gone
  <2>. QED  BY <1>1, <2>2, <2>3, EditKeeps DEF m
<1>. QED  BY <1>1, <1>4, <1>5, Zenon

\* What delete-messages leaves, when all that has the id is of one message.
LEMMA WithoutTexts ==
  ASSUME NEW S, NEW s \in Seq(S), NEW id, NEW x, \A j \in DOMAIN s : s[j].id = id => s[j].text \subseteq x
  PROVE  Texts(s) \subseteq Texts(Without(s, id)) \cup x
<1>. DEFINE K == {j \in DOMAIN s : s[j].id # id}
<1>1. K \in SUBSET DOMAIN s
  OBVIOUS
<1>2. Texts(Without(s, id)) = UNION {s[k].text : k \in K}
  <2>. HIDE DEF K
  <2>1. Texts(Chosen(s, K)) = UNION {s[k].text : k \in K}
    BY <1>1, ChosenTexts
  <2>. QED  BY <2>1 DEF Without, K
<1>. QED  BY <1>2 DEF Texts

LEMMA DeleteKeeps ==
  ASSUME DataTypes, BoundTypes, RowIds, SyncInv, NamesInv, KeepInv, Whole, Whole',
         NEW i \in 1..MaxMsgs, DeleteMessage(New, i)
  PROVE  KeepInv'
<1>. DEFINE m == Got(New)
            h == Shown(m)
            id == h[i].id
            x == h[i].text
            u == Without(h, id)
            k == Len(u)
<1>1. /\ Found /\ i \in DOMAIN h /\ id # 0
      /\ Become([m EXCEPT !.hist[m.cache] = Without(@, id), !.known[m.cache] = k], turn)
      /\ \/ rows' = Without(rows, id) /\ Behind(x) /\ missed' = (missed \/ ~Among(rows, h[i]))
         \/ Fault /\ UNCHANGED <<rows, behind, missed>>
      /\ removed' = removed \cup x /\ comp' = comp /\ saved' = saved /\ merges' = merges
  BY DeleteCases, Zenon
<1>2. /\ m \in Mems(lastId, sent) /\ m.cache \in Obj /\ h \in Seq(Entries(lastId, sent)) /\ h = m.hist[m.cache]
      /\ Kept \subseteq Texts(h) /\ rows \in Seq(RowsOf(lastId, sent)) /\ Kept \subseteq Texts(rows)
  <2>1. Kept \subseteq Texts(rows)
    BY DEF KeepInv
  <2>. QED  BY <1>1, <2>1, GotKeeps, RowsType
<1>3. merges = 0 => NamesOk(h, rows)
  BY <1>1, GotNames DEF Whole
<1>4. merges # 0 => Alike(h, rows, merges) /\ Among(rows, h[i])
  <2>. SUFFICES ASSUME merges # 0 PROVE Alike(h, rows, merges) /\ Among(rows, h[i])
    OBVIOUS
  <2>1. ~Apart /\ faults' = 0 /\ ~missed'
    BY <1>1 DEF Whole, Apart
  <2>2. ~Fault
    BY <2>1, LimitAssumption DEF Fault, BoundTypes
  <2>3. Among(rows, h[i])
    BY <1>1, <2>1, <2>2
  <2>. QED  BY <2>1, <2>3, GotAlike
<1>. HIDE DEF m, h
<1>5. /\ \A j \in DOMAIN h : h[j].id = id => h[j].text \subseteq x
      /\ \A j \in DOMAIN rows : rows[j].id = id => rows[j].text \subseteq x
  <2>1. CASE merges = 0
    BY <1>1, <1>3, <2>1 DEF NamesOk, Unique, SameText
  <2>2. CASE merges # 0
    <3>1. PICK q \in DOMAIN rows : rows[q].id = id
      BY <1>4, <2>2 DEF Among
    <3>2. \A j \in DOMAIN h : h[j].id = id => rows[j].id = id /\ j \in DOMAIN rows
      BY <1>4, <2>2, <3>1 DEF Alike, Named
    <3>3. \A j \in DOMAIN h : h[j].id = id => j = i
      BY <1>1, <3>2 DEF RowIds, Distinct
    <3>4. \A j \in DOMAIN rows : rows[j].id = id => j = i
      BY <1>1, <3>2 DEF RowIds, Distinct
    <3>. QED  BY <1>4, <2>2, <3>3, <3>4 DEF Alike
  <2>. QED  BY <2>1, <2>2
<1>6. [m EXCEPT !.hist[m.cache] = Without(@, id), !.known[m.cache] = k]
        = [m EXCEPT !.hist[m.cache] = u, !.known[m.cache] = k]
  <2>. HIDE DEF k
  <2>. QED  BY <1>2 DEF Mems
<1>. HIDE DEF id, x
<1>7. Texts(h) \subseteq Texts(u) \cup x /\ Texts(rows) \subseteq Texts(Without(rows, id)) \cup x
  BY <1>2, <1>5, WithoutTexts
<1>. HIDE DEF u, k
<1>8. Kept' \subseteq Kept \ x
  <2>1. behind \subseteq behind'
    BY <1>1, BehindGrows
  <2>. QED  BY <1>1, <2>1 DEF Kept
<1>9. Kept' \subseteq Texts(u) /\ Kept' \subseteq Texts(rows') /\ Kept' \subseteq Kept
  BY <1>1, <1>2, <1>7, <1>8
<1>. QED  BY <1>1, <1>6, <1>9, EditKeeps DEF m

\* A merge leaves out the prompt for the second reply, and nothing else.
LEMMA MergedTexts ==
  ASSUME NEW S, NEW s \in Seq(S), NEW e \in S, Cardinality(Replies(s)) >= 2,
         s[ReplyBefore(s)].text \subseteq e.text, s[LastReply(s)].text \subseteq e.text
  PROVE  Texts(s) \subseteq Texts(MergedInto(s, e)) \cup PromptOf(s)
<1>. DEFINE u == MergedInto(s, e)
            n == Len(s) - Lost(s)
<1>1. DOMAIN u = 1..n /\ ReplyBefore(s) \in 1..n /\ \A i \in 1..n : u[i] = IF i = ReplyBefore(s) THEN e ELSE s[Source(s, i)]
  <2>1. /\ u \in Seq(S) /\ Len(u) = n /\ ReplyBefore(s) \in 1..n
        /\ \A i \in 1..n : u[i] = IF i = ReplyBefore(s) THEN e ELSE s[Source(s, i)]
    BY MergedFacts
  <2>. QED  BY <2>1
<1>2. /\ Source(s, ReplyBefore(s)) = ReplyBefore(s)
      /\ \A k \in DOMAIN s : k = LastReply(s) \/ (Prompted(s) /\ k = LastReply(s) - 1)
                             \/ \E i \in 1..n : Source(s, i) = k
  BY SourceFacts
<1>. HIDE DEF u, n
<1>. SUFFICES ASSUME NEW k \in DOMAIN s PROVE s[k].text \subseteq Texts(u) \cup PromptOf(s)
  BY DEF Texts, u
<1>3. e.text \subseteq Texts(u)
  <2>1. ReplyBefore(s) \in DOMAIN u /\ u[ReplyBefore(s)] = e
    BY <1>1
  <2>. QED  BY <2>1 DEF Texts
<1>4. CASE k = LastReply(s)
  BY <1>3, <1>4
<1>5. CASE Prompted(s) /\ k = LastReply(s) - 1
  BY <1>5 DEF PromptOf
<1>6. ASSUME NEW i \in 1..n, Source(s, i) = k PROVE s[k].text \subseteq Texts(u)
  <2>1. CASE i = ReplyBefore(s)
    BY <1>2, <1>3, <1>6, <2>1
  <2>2. CASE i # ReplyBefore(s)
    <3>1. i \in DOMAIN u /\ u[i] = s[k]
      BY <1>1, <1>6, <2>2
    <3>. QED  BY <3>1 DEF Texts
  <2>. QED  BY <2>1, <2>2
<1>. QED  BY <1>2, <1>4, <1>5, <1>6

\* The history and the rows have the same two replies last, and the same prompt.
LEMMA SamePrompt ==
  ASSUME NEW S, NEW T, NEW h \in Seq(S), NEW s \in Seq(T), NEW n, Alike(h, s, n), Cardinality(Replies(h)) >= 2
  PROVE  /\ Replies(h) = Replies(s) /\ LastReply(h) = LastReply(s) /\ ReplyBefore(h) = ReplyBefore(s)
         /\ h[LastReply(h)].text = s[LastReply(s)].text /\ h[ReplyBefore(h)].text = s[ReplyBefore(s)].text
         /\ PromptOf(h) = PromptOf(s)
<1>0. DOMAIN h = DOMAIN s /\ \A i \in DOMAIN s : h[i].text = s[i].text /\ h[i].kind = s[i].kind
  BY DEF Alike
<1>1. Replies(h) = Replies(s) /\ LastReply(h) = LastReply(s) /\ ReplyBefore(h) = ReplyBefore(s)
  BY <1>0 DEF Replies, LastReply, ReplyBefore
<1>2. DOMAIN s = 1..Len(s) /\ Len(s) \in Nat
  OBVIOUS
<1>3. /\ LastReply(s) \in DOMAIN s /\ ReplyBefore(s) \in DOMAIN s /\ ReplyBefore(s) < LastReply(s)
      /\ LastReply(s) \in Nat /\ ReplyBefore(s) \in Nat /\ ReplyBefore(s) >= 1
  BY <1>1, <1>2, ReplyFacts
<1>4. LastReply(s) - 1 > ReplyBefore(s) => LastReply(s) - 1 \in DOMAIN s
  BY <1>2, <1>3
<1>5. PromptOf(h) = PromptOf(s)
  BY <1>0, <1>1, <1>4 DEF PromptOf, Prompted
<1>. QED  BY <1>0, <1>1, <1>3, <1>5

LEMMA MergeKeeps ==
  ASSUME DataTypes, BoundTypes, SyncInv, KeepInv, Whole, Whole', MergeReplies(New)
  PROVE  KeepInv'
<1>. DEFINE m == Got(New)
            h == Shown(m)
            e == MergedReply(h)
            r == MergedRow(h)
            u == MergedInto(h, e)
            gone == PromptOf(h)
<1>0. /\ Found /\ Cardinality(Replies(h)) >= 2 /\ merges' = merges + 1 /\ saved' = saved /\ comp' = comp
      /\ Become([m EXCEPT !.hist[m.cache] = MergedInto(@, e)], turn)
      /\ \/ /\ rows' = IF Cardinality(Replies(rows)) >= 2 THEN MergedInto(rows, r) ELSE rows
            /\ Behind(gone)
            /\ faults' = faults
         \/ Fault /\ UNCHANGED <<rows, behind>>
      /\ removed' = removed \cup gone /\ missed' = missed
  BY MergeCases, Zenon
<1>1. merges \in Nat /\ merges' # 0
  BY <1>0, LimitAssumption DEF BoundTypes
<1>2. ~Fault /\ faults' = 0 /\ missed' = FALSE
  BY <1>1, LimitAssumption DEF Whole, Fault, BoundTypes, DataTypes
<1>3. ~Apart
  BY <1>0, <1>2 DEF Whole, Apart
<1>4. /\ rows' = IF Cardinality(Replies(rows)) >= 2 THEN MergedInto(rows, r) ELSE rows
      /\ behind \subseteq behind'
  BY <1>0, <1>2, BehindGrows
<1>5. /\ m \in Mems(lastId, sent) /\ m.cache \in Obj /\ h \in Seq(Entries(lastId, sent)) /\ h = m.hist[m.cache]
      /\ Kept \subseteq Texts(h) /\ rows \in Seq(RowsOf(lastId, sent)) /\ Kept \subseteq Texts(rows)
      /\ Alike(h, rows, merges) /\ lastId \in Nat /\ sent \in Nat
  <2>1. Kept \subseteq Texts(rows)
    BY DEF KeepInv
  <2>. QED  BY <1>0, <1>3, <2>1, GotKeeps, GotAlike, RowsType
<1>. HIDE DEF m, h
<1>6. /\ Replies(h) = Replies(rows) /\ PromptOf(h) = PromptOf(rows)
      /\ h[LastReply(h)].text = rows[LastReply(rows)].text /\ h[ReplyBefore(h)].text = rows[ReplyBefore(rows)].text
  BY <1>0, <1>5, SamePrompt
<1>7. e \in Entries(lastId, sent) /\ r \in RowsOf(lastId, sent) /\ r.text = e.text
  BY <1>0, <1>5, <1>6, MergedReplyType, MergedRowType
<1>8. h[LastReply(h)].text \subseteq e.text /\ h[ReplyBefore(h)].text \subseteq e.text
  BY DEF MergedReply
<1>9. [m EXCEPT !.hist[m.cache] = MergedInto(@, e)] = [m EXCEPT !.hist[m.cache] = u]
  <2>. HIDE DEF e
  <2>. QED  BY <1>5 DEF Mems
<1>. HIDE DEF e, r, gone
<1>10. Texts(h) \subseteq Texts(u) \cup gone /\ Texts(rows) \subseteq Texts(rows') \cup gone
  <2>1. Texts(h) \subseteq Texts(u) \cup gone
    BY <1>0, <1>5, <1>7, <1>8, MergedTexts DEF gone
  <2>2. Texts(rows) \subseteq Texts(rows') \cup gone
    BY <1>0, <1>4, <1>5, <1>6, <1>7, <1>8, MergedTexts DEF gone
  <2>. QED  BY <2>1, <2>2
<1>. HIDE DEF u
<1>11. Kept' \subseteq Kept \ gone
  BY <1>0, <1>4 DEF Kept
<1>12. Kept' \subseteq Texts(u) /\ Kept' \subseteq Texts(rows') /\ Kept' \subseteq Kept
  BY <1>5, <1>10, <1>11
<1>. QED  BY <1>0, <1>9, <1>12, EditKeeps DEF m

LEMMA ReadKeeps ==
  ASSUME DataTypes, KeepInv, Whole, ReadHistory(New)
  PROVE  KeepInv'
<1>1. Found /\ UNCHANGED <<rows, comp, saved, removed, behind>>
  BY ReadCases DEF dbVars
<1>2. CASE Become(Got(New), turn)
  BY <1>1, <1>2, LookKeeps
<1>3. CASE Become([Got(New) EXCEPT !.hist[Got(New).cache] = Reread(rows)], turn)
  <2>1. Texts(Reread(rows)) = Texts(rows)
    BY RowsType, RereadFacts, WithinBoth
  <2>2. Kept' = Kept
    BY <1>1 DEF Kept
  <2>3. Kept' \subseteq Texts(Reread(rows)) /\ Kept' \subseteq Texts(rows') /\ Kept' \subseteq Kept
    BY <1>1, <2>1, <2>2 DEF KeepInv
  <2>. QED  BY <1>1, <1>3, <2>3, EditKeeps
<1>. QED  BY <1>2, <1>3, ReadCases

LEMMA BeginKeeps ==
  ASSUME DataTypes, KeepInv, Whole, BeginCompact(New)
  PROVE  KeepInv'
<1>. DEFINE h == Shown(Got(New))
            n == Len(h) - KeptLen(h)
<1>1. /\ Found /\ Len(h) >= CompactMin /\ UNCHANGED <<rows, saved, removed, behind>> /\ Become(Got(New), turn)
      /\ comp' = [pc |-> "await", recent |-> SubSeq(h, Len(h) - KeptLen(h) + 1, Len(h)),
                  older |-> Texts(SubSeq(h, 1, Len(h) - KeptLen(h)))]
  BY BeginCases DEF dbVars
<1>2. /\ Kept \subseteq Texts(h) /\ h = Got(New).hist[Got(New).cache]
      /\ h \in Seq(Entries(lastId, sent)) /\ Got(New).cache \in Obj
  BY <1>1, GotKeeps
<1>. HIDE DEF h
<1>3. n \in Nat /\ n <= Len(h) /\ Len(h) \in Nat /\ Len(h) - KeptLen(h) + 1 = n + 1
  <2>1. KeptLen(h) \in Nat /\ 1 <= KeptLen(h) /\ KeptLen(h) < Len(h)
    BY <1>1, <1>2, TailFacts
  <2>2. Len(h) \in Nat
    BY <1>2
  <2>. QED  BY <2>1, <2>2
<1>4. comp'.older = Texts(First(h, n)) /\ comp'.recent = After(h, n)
  <2>1. Min({n, Len(h)}) = n
    BY <1>3, OfTwo
  <2>. QED  BY <1>1, <1>3, <2>1 DEF First, After
<1>. HIDE DEF n
<1>5. Kept' = Kept
  BY <1>1 DEF Kept
<1>6. Kept' \subseteq comp'.older \cup Texts(comp'.recent)
  BY <1>2, <1>3, <1>4, <1>5, FirstAndAfter
<1>7. Kept' \subseteq Texts(rows')
  BY <1>1, <1>5 DEF KeepInv
<1>. QED  BY <1>1, <1>2, <1>5, <1>6, <1>7, BecomeKeeps DEF h

LEMMA EndKeeps ==
  ASSUME DataTypes, KeepInv, Whole, EndCompact(New)
  PROVE  KeepInv'
<1>. DEFINE m == Got(New)
            h == m.hist[m.cache]
            u == Disowned(h, comp.recent)
<1>1. /\ Found /\ UNCHANGED <<saved, removed, behind>> /\ comp' = NoComp /\ comp.pc = "await"
      /\ \/ Replace(m, Shortened, turn)
         \/ Become([m EXCEPT !.hist[m.cache] = Disowned(@, comp.recent)], turn) /\ rows' = rows
  BY EndCases
<1>2. /\ m \in Mems(lastId, sent) /\ m.cache \in Obj /\ h \in Seq(Entries(lastId, sent)) /\ Kept \subseteq Texts(h)
      /\ turn \in [Turn -> TurnSet(sent)] /\ lastId \in Nat /\ sent \in Nat
  <2>1. turn \in [Turn -> TurnSet(sent)]
    BY DEF DataTypes
  <2>. QED  BY <1>1, <2>1, GotKeeps, RowsType
<1>3. [m EXCEPT !.hist[m.cache] = Disowned(@, comp.recent)] = [m EXCEPT !.hist[m.cache] = u]
  <2>. HIDE DEF m
  <2>. QED  BY <1>2 DEF Mems
<1>4. Kept' = Kept /\ Kept \subseteq Texts(rows) /\ Kept \subseteq comp.older \cup Texts(comp.recent)
  BY <1>1 DEF Kept, KeepInv
<1>. HIDE DEF h
<1>5. Texts(u) = Texts(h)
  BY <1>2, DisownedFacts, WithinBoth
<1>. HIDE DEF u
<1>6. CASE Become([m EXCEPT !.hist[m.cache] = u], turn) /\ rows' = rows
  BY <1>1, <1>2, <1>4, <1>5, <1>6, EditKeeps
<1>. HIDE DEF m
<1>7. CASE Replace(m, Shortened, turn)
  <2>1. /\ Shortened \in Seq(Entries(lastId, sent)) /\ Len(Shortened) = 1 + Len(comp.recent)
        /\ Shortened[1] = Summary(comp.older) /\ \A i \in 1..Len(comp.recent) : Shortened[i + 1] = comp.recent[i]
    BY ShortenedFacts
  <2>2. rows' = Rewritten(Shortened) /\ mem'.cache = m.cache /\ mem'.hist[m.cache] = Loaded(rows')
    BY <1>2, <1>7, <2>1, ReplaceFacts
  <2>3. rows' \in Seq(RowsOf(lastId + Len(Shortened), sent)) /\ lastId + Len(Shortened) \in Nat /\ Texts(rows') = Texts(Shortened)
    BY <1>2, <2>1, <2>2, RewrittenFacts, WithinBoth
  <2>4. Texts(Loaded(rows')) = Texts(rows')
    BY <1>2, <2>3, LoadedFacts, WithinBoth
  <2>5. comp.older \subseteq Texts(Shortened)
    <3>1. 1 \in DOMAIN Shortened /\ Shortened[1].text = comp.older
      <4>1. Len(comp.recent) \in Nat
        BY DEF DataTypes, CompSet
      <4>. QED  BY <2>1, <4>1 DEF Summary
    <3>. QED  BY <3>1 DEF Texts
  <2>6. Texts(comp.recent) \subseteq Texts(Shortened)
    <3>. SUFFICES ASSUME NEW i \in DOMAIN comp.recent PROVE comp.recent[i].text \subseteq Texts(Shortened)
      BY DEF Texts
    <3>1. comp.recent \in Seq(Entries(lastId, sent))
      BY DEF DataTypes, CompSet
    <3>2. i \in 1..Len(comp.recent) /\ Len(comp.recent) \in Nat
      BY <3>1
    <3>3. i + 1 \in DOMAIN Shortened /\ Shortened[i + 1] = comp.recent[i]
      BY <2>1, <3>2
    <3>. QED  BY <3>3 DEF Texts
  <2>7. Kept' \subseteq Texts(rows')
    BY <1>4, <2>3, <2>5, <2>6
  <2>8. comp'.pc # "await"
    BY <1>1 DEF NoComp
  <2>. QED  BY <2>2, <2>4, <2>7, <2>8 DEF KeepInv
<1>. QED  BY <1>1, <1>3, <1>6, <1>7, Zenon

LEMMA RequestKeeps ==
  ASSUME DataTypes, BoundTypes, OrderInv, RowIds, SyncInv, NamesInv, KeepInv, Whole,
         Whole', Request(New)
  PROVE  KeepInv'
<1>1. ASSUME NEW kind \in WriterKind, OtherWriter(New, kind) PROVE KeepInv'
  <2>1. Found /\ AddMessage(Got(New), Got(New).cache, kind, turn)
    BY <1>1 DEF OtherWriter
  <2>2. Got(New) \in Mems(lastId, sent) /\ Got(New).cache \in Obj /\ Kept \subseteq Texts(Got(New).hist[Got(New).cache])
    BY <2>1, GotKeeps
  <2>. QED  BY <2>1, <2>2, AddKeeps, NewKinds
<1>2. ASSUME NEW keep \in 0..MaxMsgs, ToolTruncates(New, keep) PROVE KeepInv'
  <2>1. keep \in Nat
    BY LimitAssumption
  <2>. QED  BY <1>2, <2>1, TruncateKeeps DEF ToolTruncates
<1>3. ASSUME NEW p \in 1..MaxMsgs, Regenerate(New, p) PROVE KeepInv'
  <2>1. Len(rows) <= PageLimit
    <3>1. Len(rows) <= sent /\ sent <= PageLimit
      BY DEF Whole, OrderInv, Short
    <3>2. Len(rows) \in Nat /\ sent \in Nat /\ PageLimit \in Nat
      BY RowsType, LimitAssumption DEF DataTypes
    <3>. QED  BY <3>1, <3>2
  <2>2. PageStart = 0
    BY <2>1, PageFacts
  <2>3. p - 1 - PageStart = p - 1
    BY <2>2
  <2>. QED  BY <1>3, <2>3, RegeneratePositions, TruncateKeeps
<1>. QED  BY <1>1, <1>2, <1>3, DeleteKeeps, MergeKeeps, ReadKeeps, BeginKeeps, EndKeeps DEF Request

LEMMA TurnKeeps ==
  ASSUME DataTypes, BoundTypes, HeldInv, KeepInv, Whole, Whole', NEW t \in Turn, TurnStep(t, New)
  PROVE  KeepInv'
<1>1. /\ mem \in Mems(lastId, sent) /\ turn \in [Turn -> TurnSet(sent)]
      /\ turn[t].pc # "idle" => turn[t].sess = mem.cache /\ mem.cache \in Obj /\ Kept \subseteq Texts(mem.hist[mem.cache])
  <2>1. turn[t].pc # "idle" => turn[t].sess = mem.cache /\ mem.cache \in Obj
    BY DEF DataTypes, Holding, HeldInv, Active, Whole
  <2>. QED  BY <2>1 DEF DataTypes, KeepInv, Live, Active
<1>2. ASSUME NEW kind \in Kind, NEW tt, turn[t].pc # "idle", AddMessage(mem, turn[t].sess, kind, tt) PROVE KeepInv'
  BY <1>1, <1>2, AddKeeps
<1>3. CASE TurnOpens(t, New)
  BY <1>3, LookKeeps DEF TurnOpens, dbVars
<1>4. ASSUME NEW kind \in TurnKind, TurnSends(t, kind) PROVE KeepInv'
  BY <1>2, <1>4, TurnAdds
<1>5. ASSUME NEW p \in Preface, TurnSendsFull(t, p) PROVE KeepInv'
  <2>1. PICK tt \in [Turn -> TurnSet(sent + 1)] : turn[t].pc # "idle" /\ AddMessage(mem, turn[t].sess, "user", tt)
    BY <1>5, TurnAdds
  <2>. QED  BY <1>2, <2>1, NewKinds
<1>6. CASE TurnReplies(t)
  BY <1>2, <1>6, TurnAdds, NewKinds
<1>7. CASE AutoCompact(t, New)
  <2>1. autos \in Nat /\ autos' = autos + 1 /\ autos' = 0
    BY <1>7, AutoCompactCases DEF BoundTypes, Whole
  <2>. QED  BY <2>1
<1>8. CASE AutoCompactSkipped(t)
  <2>1. turn[t].pc # "idle" /\ Become(mem, TurnRuns(t)) /\ UNCHANGED <<rows, comp, saved, removed, behind>>
    BY <1>8 DEF AutoCompactSkipped, TurnRuns, dbVars
  <2>2. \A u \in Turn : TurnRuns(t)[u].pc # "idle" => turn[u].pc # "idle"
    BY <1>1, <2>1 DEF TurnRuns
  <2>. QED  BY <2>1, <2>2, RestKeeps
<1>9. CASE TurnFails(t)
  <2>1. Become(mem, [turn EXCEPT ![t] = Idle]) /\ UNCHANGED <<rows, comp, saved, removed, behind>>
    BY <1>9 DEF TurnFails, dbVars
  <2>2. \A u \in Turn : [turn EXCEPT ![t] = Idle][u].pc # "idle" => turn[u].pc # "idle"
    BY <1>1 DEF Idle
  <2>. QED  BY <2>1, <2>2, RestKeeps
<1>. QED  BY <1>3, <1>4, <1>5, <1>6, <1>7, <1>8, <1>9 DEF TurnStep

\* A step after which nothing is cached that was not.
LEMMA KeepStep ==
  ASSUME DataTypes, BoundTypes, OrderInv, HeldInv, RowIds, SyncInv, NamesInv, KeepInv,
         [Next]_vars
  PROVE  KeepInv'
<1>. SUFFICES ASSUME Whole' PROVE KeepInv'
  BY DEF KeepInv
<1>1. Whole
  BY PastStep, PastWhole
<1>2. CASE UNCHANGED vars \/ CompactFails \/ DeleteFails
  <2>1. UNCHANGED <<mem, turn, rows, saved, removed, behind>> /\ (comp' = comp \/ comp' = NoComp)
    BY <1>2 DEF vars, CompactFails, DeleteFails, dbVars, pastVars
  <2>2. (Live' <=> Live) /\ Kept' = Kept /\ (comp'.pc = "await" => comp' = comp)
    BY <2>1 DEF Live, Active, Hydrates, Kept, NoComp
  <2>. QED  BY <1>1, <2>1, <2>2 DEF KeepInv
<1>3. CASE DeleteSession
  <2>. DEFINE p == [mem EXCEPT !.cache = NoObj]
  <2>1. Become(p, turn) /\ UNCHANGED <<rows, comp, saved, removed, behind>>
    BY <1>3 DEF DeleteSession
  <2>2. p.cache = NoObj
    BY DEF DataTypes, Mems
  <2>. HIDE DEF p
  <2>3. ~Live' /\ Kept' = Kept
    BY <2>1, <2>2, BecomeCached, ObjAssumption DEF Live, Kept
  <2>. QED  BY <1>1, <2>1, <2>3 DEF KeepInv
<1>4. CASE DeleteCommits
  BY <1>4 DEF DeleteCommits, Whole
<1>5. CASE Restart(New)
  <2>1. Become(Fresh(New), AllIdle) /\ UNCHANGED <<rows, saved, removed, behind>> /\ comp' = NoComp
    BY <1>5, RestartCases
  <2>2. /\ Fresh(New).cache \in Obj => Fresh(New).hist[Fresh(New).cache] = <<>> /\ Fresh(New).known[Fresh(New).cache] > 0
        /\ \A t \in Turn : AllIdle[t].pc = "idle"
    <3>1. New \in Obj
      BY NewIsFree
    <3>. QED  BY <3>1, ObjAssumption DEF Fresh, AllIdle, Idle
  <2>3. ~Live' /\ Kept' = Kept /\ comp'.pc # "await"
    BY <2>1, <2>2, BecomeCached DEF Live, Active, Hydrates, Kept, NoComp
  <2>. QED  BY <1>1, <2>1, <2>3 DEF KeepInv
<1>. QED  BY <1>1, <1>2, <1>3, <1>4, <1>5, RequestKeeps, TurnKeeps DEF Next

LEMMA KeepInit == Init => KeepInv
BY DEF Init, KeepInv, Kept, NoComp

LEMMA KeepInvariant ==
  Spec => [](DataTypes /\ BoundTypes /\ OrderInv /\ HeldInv /\ RowIds /\ SyncInv /\ NamesInv /\ KeepInv)
<1>1. Init => DataTypes /\ BoundTypes /\ OrderInv /\ HeldInv /\ RowIds /\ SyncInv /\ NamesInv /\ KeepInv
  BY DataTypesInit, BoundInit, OrderInit, SyncInit, NamesInit, KeepInit
<1>2. DataTypes /\ BoundTypes /\ OrderInv /\ HeldInv /\ RowIds /\ SyncInv /\ NamesInv /\ KeepInv /\ [Next]_vars
        => (DataTypes /\ BoundTypes /\ OrderInv /\ HeldInv /\ RowIds /\ SyncInv /\ NamesInv /\ KeepInv)'
  BY DataTypesStep, BoundStep, OrderStep, PastStep, RowIdsStep, SyncStep, NamesStep, KeepStep DEF Past
<1>. QED  BY <1>1, <1>2, PTL DEF Spec

\* No saved message is dropped: truncation, deletion and merging take out what the user took out and no more,
\* the compact endpoint keeps in its summary what it takes out of the rows, and the commits that fail, the
\* restarts and the reading of the rows anew lose nothing of it.  This holds until more messages were sent than
\* the page of a history has: from then on regenerateFrom() counts from the wrong end (PageStart).
THEOREM SavedMessagesStay == Spec => [](sent <= PageLimit => SavedStays)
<1>1. KeepInv => (sent <= PageLimit => SavedStays)
  BY DEF KeepInv, SavedStays, NothingIsDropped, Whole, Kept
<1>. QED  BY <1>1, KeepInvariant, PTL

-----------------------------------------------------------------------------
(* What was taken out.                                                     *)

\* No message of s is among those removed, but for those in b.
Clean(s, r, b) == \A i \in DOMAIN s : Spoken(s[i]) => s[i].text \cap r \subseteq b
Apt == ~Apart /\ merges = 0 /\ autos = 0
RemovedInv == Apt => Clean(rows, removed, behind) /\ (comp.pc = "await" => Clean(comp.recent, removed, behind))

LEMMA PastApt == ASSUME Past, Apt' PROVE Apt
BY PastApart DEF Apt, Past

LEMMA WithinClean == ASSUME NEW u, NEW s, NEW r, NEW b, Within(u, s), Clean(s, r, b) PROVE Clean(u, r, b)
BY DEF Within, Clean, Spoken

LEMMA MoreBehind ==
  ASSUME NEW s, NEW r, NEW b, Clean(s, r, b), NEW x, NEW q, r \subseteq q, q \subseteq r \cup x, NEW c,
         b \subseteq c,
         x \subseteq c \/ \A i \in DOMAIN s : Spoken(s[i]) => s[i].text \cap x \subseteq c
  PROVE  Clean(s, q, c)
BY DEF Clean

\* Nothing comes into the rows or what is to be kept of them, nor is anything removed.
LEMMA StillClean ==
  ASSUME RemovedInv, Apt, UNCHANGED <<rows, removed, behind>>, comp' = comp \/ comp' = NoComp
  PROVE  RemovedInv'
BY DEF RemovedInv, NoComp

LEMMA AptFacts ==
  ASSUME DataTypes, OrderInv, SyncInv, Apt, Apt', BoundTypes
  PROVE  /\ Found /\ Alike(Shown(Got(New)), rows, 0) /\ Shown(Got(New)) = Got(New).hist[Got(New).cache]
         /\ Got(New) \in Mems(lastId, sent) /\ Got(New).cache \in Obj /\ Shown(Got(New)) \in Seq(Entries(lastId, sent))
         /\ rows \in Seq(RowsOf(lastId, sent)) /\ lastId \in Nat /\ sent \in Nat
         /\ ~Fault /\ ~ReplaceFails
         /\ \A i, j \in DOMAIN rows : i # j => rows[i].text \cap rows[j].text = {}
<1>1. /\ Found /\ Alike(Shown(Got(New)), rows, 0) /\ Shown(Got(New)) = Got(New).hist[Got(New).cache] /\ Got(New).cache \in Obj
  BY GotAlike DEF Apt
<1>2. Got(New) \in Mems(lastId, sent) /\ Shown(Got(New)) \in Seq(Entries(lastId, sent))
  BY <1>1, NewIsFree, GotFacts
<1>3. ~Fault /\ ~ReplaceFails
  BY LimitAssumption DEF ReplaceFails, Fault, Apart, Apt, BoundTypes
<1>4. rows \in Seq(RowsOf(lastId, sent)) /\ lastId \in Nat /\ sent \in Nat
  BY RowsType
<1>5. ASSUME NEW i \in DOMAIN rows, NEW j \in DOMAIN rows, i # j PROVE rows[i].text \cap rows[j].text = {}
  <2>1. Ordered(rows, Kind)
    BY DEF Apt, OrderInv, Orderly
  <2>2. rows[i] \in RowsOf(lastId, sent) /\ rows[j] \in RowsOf(lastId, sent) /\ DOMAIN rows = 1..Len(rows) /\ Len(rows) \in Nat
    BY <1>4
  <2>3. rows[i].kind \in Kind /\ rows[j].kind \in Kind /\ rows[i].text \subseteq Nat /\ i \in Nat /\ j \in Nat
    BY <1>4, <2>2 DEF RowsOf
  <2>4. ASSUME NEW x \in rows[i].text, x \in rows[j].text PROVE FALSE
    <3>1. x \in Nat
      BY <2>3
    <3>2. CASE i < j
      BY <2>1, <2>3, <2>4, <3>1, <3>2 DEF Ordered
    <3>3. CASE j < i
      BY <2>1, <2>3, <2>4, <3>1, <3>3 DEF Ordered
    <3>. QED  BY <1>5, <2>3, <3>2, <3>3
  <2>. QED  BY <2>4
<1>. QED  BY <1>1, <1>2, <1>3, <1>4, <1>5

LEMMA AddClean ==
  ASSUME DataTypes, BoundTypes, RemovedInv, Apt, Apt', NEW m, NEW o, NEW kind \in Kind, NEW tt,
         AddMessage(m, o, kind, tt)
  PROVE  RemovedInv'
<1>1. AddCommits(m, o, kind, tt)
  <2>1. ~AddRollsBack(m, o, kind, tt)
    BY LimitAssumption DEF AddRollsBack, Fault, Apart, Apt, BoundTypes
  <2>2. ~AddDrops(m, o, kind, tt)
    BY AddCases DEF AddDrops, Stored, Apart, Apt
  <2>. QED  BY <2>1, <2>2, AddCases
<1>2. rows' = Append(rows, NewestRow(kind)) /\ behind \subseteq behind' /\ comp' = comp /\ removed' = removed
  BY <1>1, AddCases, BehindGrows DEF AddCommits
<1>3. /\ DOMAIN rows' = 1..Len(rows) + 1 /\ (\A i \in DOMAIN rows : rows'[i] = rows[i])
      /\ rows'[Len(rows) + 1] = NewestRow(kind) /\ DOMAIN rows = 1..Len(rows) /\ Len(rows) \in Nat
  <2>1. lastId \in Nat /\ sent \in Nat /\ rows \in Seq(RowsOf(lastId, sent))
    BY RowsType
  <2>2. lastId + 1 \in Nat /\ sent + 1 \in Nat /\ lastId <= lastId + 1 /\ sent <= sent + 1
    BY <2>1
  <2>3. rows \in Seq(RowsOf(lastId + 1, sent + 1))
    BY <2>1, <2>2, Wider
  <2>4. NewestRow(kind) \in RowsOf(lastId + 1, sent + 1)
    BY <2>1 DEF NewestRow, RowsOf
  <2>. QED  BY <1>2, <2>3, <2>4, AppendFacts
<1>4. NewestRow(kind).text \cap removed = {}
  BY DEF DataTypes, NewestRow
<1>5. Clean(rows, removed, behind) /\ (comp.pc = "await" => Clean(comp.recent, removed, behind))
  BY DEF RemovedInv
<1>6. Clean(rows', removed', behind')
  <2>. SUFFICES ASSUME NEW i \in DOMAIN rows', Spoken(rows'[i]) PROVE rows'[i].text \cap removed \subseteq behind'
    BY <1>2 DEF Clean
  <2>1. CASE i \in DOMAIN rows
    BY <1>2, <1>3, <1>5, <2>1 DEF Clean
  <2>2. CASE i = Len(rows) + 1
    BY <1>3, <1>4, <2>2
  <2>. QED  BY <1>3, <2>1, <2>2
<1>7. comp'.pc = "await" => Clean(comp'.recent, removed', behind')
  BY <1>2, <1>5 DEF Clean
<1>. QED  BY <1>6, <1>7 DEF RemovedInv

\* Some rows are gone, and the messages they were of.
LEMMA OutClean ==
  ASSUME RemovedInv, Apt, NEW gone, Behind(gone), removed' = removed \cup gone, comp' = comp, Within(rows', rows),
         \A i \in DOMAIN rows' : rows'[i].text \cap gone = {}
  PROVE  RemovedInv'
<1>1. behind \subseteq behind' /\ (Awaiting => gone \subseteq behind')
  BY BehindGrows
<1>2. Clean(rows', removed, behind)
  BY WithinClean DEF RemovedInv
<1>3. Clean(rows', removed', behind')
  <2>1. \A i \in DOMAIN rows' : Spoken(rows'[i]) => rows'[i].text \cap gone \subseteq behind'
    OBVIOUS
  <2>. QED  BY <1>1, <1>2, <2>1, MoreBehind
<1>4. ASSUME comp'.pc = "await" PROVE Clean(comp'.recent, removed', behind')
  <2>1. Clean(comp'.recent, removed, behind) /\ gone \subseteq behind'
    BY <1>1, <1>4 DEF RemovedInv, Awaiting
  <2>. QED  BY <1>1, <2>1, MoreBehind
<1>. QED  BY <1>3, <1>4 DEF RemovedInv

LEMMA TruncateClean ==
  ASSUME DataTypes, BoundTypes, OrderInv, SyncInv, RemovedInv, Apt, Apt',
         NEW keep \in Nat, NEW meant \in Nat, keep <= meant, Truncate(New, keep, meant)
  PROVE  RemovedInv'
<1>. DEFINE h == Shown(Got(New))
            gone == Texts(After(rows, meant)) \cup Texts(After(h, meant))
<1>1. rows' = First(rows, keep) /\ removed' = removed \cup gone /\ Behind(gone) /\ comp' = comp
  BY AptFacts, TruncateCases, Zenon
<1>2. /\ Alike(h, rows, 0) /\ h \in Seq(Entries(lastId, sent)) /\ rows \in Seq(RowsOf(lastId, sent))
      /\ \A i, j \in DOMAIN rows : i # j => rows[i].text \cap rows[j].text = {}
  BY AptFacts
<1>. HIDE DEF h
<1>3. /\ \A i \in 1..Len(rows') : rows'[i] = rows[i] /\ i \in DOMAIN rows
      /\ DOMAIN rows' = 1..Len(rows') /\ Len(rows') <= keep /\ Len(rows') \in Nat
      /\ Within(rows', rows)
  <2>1. /\ rows' \in Seq(RowsOf(lastId, sent)) /\ Len(rows') = (IF keep <= Len(rows) THEN keep ELSE Len(rows))
        /\ \A i \in 1..Len(rows') : rows'[i] = rows[i] /\ i \in DOMAIN rows
        /\ Within(rows', rows)
    BY <1>1, <1>2, FirstWithin
  <2>. QED  BY <2>1
<1>4. ASSUME NEW i \in DOMAIN rows' PROVE rows'[i].text \cap gone = {}
  <2>1. rows'[i] = rows[i] /\ i \in DOMAIN rows /\ i <= meant /\ i \in Nat
    BY <1>3
  <2>2. ASSUME NEW S, NEW s \in Seq(S), Len(s) = Len(rows), \A k \in DOMAIN rows : s[k].text = rows[k].text
        PROVE  rows[i].text \cap Texts(After(s, meant)) = {}
    <3>1. ASSUME NEW k \in DOMAIN After(s, meant) PROVE rows[i].text \cap After(s, meant)[k].text = {}
      <4>1. After(s, meant) \in Seq(S) /\ \A q \in 1..Len(After(s, meant)) : After(s, meant)[q] = s[meant + q] /\ meant + q \in DOMAIN s
        BY AfterWithin
      <4>2. k \in 1..Len(After(s, meant)) /\ k \in Nat /\ k >= 1
        BY <4>1
      <4>3. After(s, meant)[k] = s[meant + k] /\ meant + k \in DOMAIN rows /\ meant + k # i
        BY <1>2, <2>1, <2>2, <4>1, <4>2
      <4>. QED  BY <1>2, <2>1, <2>2, <4>3
    <3>. QED  BY <3>1 DEF Texts
  <2>3. rows[i].text \cap Texts(After(rows, meant)) = {}
    BY <1>2, <2>2
  <2>4. rows[i].text \cap Texts(After(h, meant)) = {}
    BY <1>2, <2>2 DEF Alike
  <2>. QED  BY <2>1, <2>3, <2>4
<1>. HIDE DEF gone
<1>. QED  BY <1>1, <1>3, <1>4, OutClean

LEMMA DeleteClean ==
  ASSUME DataTypes, BoundTypes, OrderInv, SyncInv, RemovedInv, Apt, Apt', NEW i \in 1..MaxMsgs,
         DeleteMessage(New, i)
  PROVE  RemovedInv'
<1>. DEFINE h == Shown(Got(New))
            id == h[i].id
            x == h[i].text
<1>1. rows' = Without(rows, id) /\ removed' = removed \cup x /\ Behind(x) /\ comp' = comp /\ i \in DOMAIN h
  BY AptFacts, DeleteCases, Zenon
<1>2. /\ Alike(h, rows, 0) /\ h \in Seq(Entries(lastId, sent)) /\ rows \in Seq(RowsOf(lastId, sent))
      /\ \A k, j \in DOMAIN rows : k # j => rows[k].text \cap rows[j].text = {}
  BY AptFacts
<1>. HIDE DEF h
<1>3. i \in DOMAIN rows /\ id = rows[i].id /\ x = rows[i].text
  BY <1>1, <1>2 DEF Alike, Named
<1>. HIDE DEF id, x
<1>4. Within(rows', rows)
  BY <1>1, <1>2, WithoutWithin
<1>5. ASSUME NEW j \in DOMAIN rows' PROVE rows'[j].text \cap x = {}
  <2>. DEFINE K == {k \in DOMAIN rows : rows[k].id # id}
  <2>1. K \in SUBSET DOMAIN rows /\ rows' = Chosen(rows, K)
    BY <1>1 DEF Without
  <2>2. \A k \in K : k \in DOMAIN rows /\ k # i
    BY <1>3
  <2>. HIDE DEF K
  <2>3. DOMAIN rows' = 1..Cardinality(K) /\ \A k \in 1..Cardinality(K) : Position(K, k) \in K /\ rows'[k] = rows[Position(K, k)]
    BY <1>2, <2>1, ChosenWithin
  <2>. QED  BY <1>2, <1>3, <2>2, <2>3
<1>. QED  BY <1>1, <1>4, <1>5, OutClean

LEMMA BeginClean ==
  ASSUME DataTypes, BoundTypes, OrderInv, SyncInv, RemovedInv, Apt, Apt', BeginCompact(New)
  PROVE  RemovedInv'
<1>. DEFINE h == Shown(Got(New))
<1>1. /\ Len(h) >= CompactMin /\ UNCHANGED <<rows, removed, behind>>
      /\ comp'.recent = SubSeq(h, Len(h) - KeptLen(h) + 1, Len(h))
  BY BeginCases DEF dbVars
<1>2. Alike(h, rows, 0) /\ h \in Seq(Entries(lastId, sent))
  BY AptFacts
<1>. HIDE DEF h
<1>3. Clean(rows, removed, behind)
  BY DEF RemovedInv
<1>4. Clean(h, removed, behind)
  BY <1>2, <1>3 DEF Alike, Clean, Spoken
<1>5. Within(comp'.recent, h)
  BY <1>1, <1>2, TailFacts
<1>6. Clean(comp'.recent, removed, behind)
  BY <1>4, <1>5, WithinClean
<1>. QED  BY <1>1, <1>3, <1>6 DEF RemovedInv

LEMMA EndClean ==
  ASSUME DataTypes, BoundTypes, OrderInv, SyncInv, RemovedInv, Apt, Apt', EndCompact(New)
  PROVE  RemovedInv'
<1>1. Replace(Got(New), Shortened, turn) /\ comp.pc = "await" /\ comp' = NoComp /\ UNCHANGED <<removed, behind>>
  BY AptFacts, EndCases
<1>2. rows' = Rewritten(Shortened)
  BY <1>1 DEF Replace
<1>3. /\ Shortened \in Seq(Entries(lastId, sent)) /\ Len(Shortened) = 1 + Len(comp.recent)
      /\ Shortened[1] = Summary(comp.older) /\ \A i \in 1..Len(comp.recent) : Shortened[i + 1] = comp.recent[i]
  BY ShortenedFacts
<1>4. Clean(comp.recent, removed, behind)
  BY <1>1 DEF RemovedInv
<1>5. comp.recent \in Seq(Entries(lastId, sent))
  BY DEF DataTypes, CompSet
<1>6. Clean(Shortened, removed, behind)
  <2>. SUFFICES ASSUME NEW i \in DOMAIN Shortened, Spoken(Shortened[i]) PROVE Shortened[i].text \cap removed \subseteq behind
    BY DEF Clean
  <2>1. i \in 1..(1 + Len(comp.recent)) /\ Len(comp.recent) \in Nat /\ DOMAIN comp.recent = 1..Len(comp.recent)
    BY <1>3, <1>5
  <2>2. i # 1
    BY <1>3 DEF Spoken, Summary
  <2>3. i - 1 \in DOMAIN comp.recent /\ Shortened[i] = comp.recent[i - 1]
    <3>1. i - 1 \in 1..Len(comp.recent) /\ (i - 1) + 1 = i
      BY <2>1, <2>2
    <3>. QED  BY <1>3, <2>1, <3>1
  <2>. QED  BY <1>4, <2>3 DEF Clean
<1>7. Within(rows', Shortened)
  BY <1>2, <1>3, RewrittenFacts, RowsType
<1>. QED  BY <1>1, <1>6, <1>7, WithinClean DEF RemovedInv, NoComp

LEMMA RequestClean ==
  ASSUME DataTypes, BoundTypes, OrderInv, SyncInv, RemovedInv, Apt, Apt', Request(New)
  PROVE  RemovedInv'
<1>1. ASSUME NEW kind \in WriterKind, OtherWriter(New, kind) PROVE RemovedInv'
  BY <1>1, AddClean, NewKinds DEF OtherWriter
<1>2. ASSUME NEW keep \in 0..MaxMsgs, ToolTruncates(New, keep) PROVE RemovedInv'
  <2>1. keep \in Nat /\ keep <= keep
    BY LimitAssumption
  <2>. QED  BY <1>2, <2>1, TruncateClean DEF ToolTruncates
<1>3. ASSUME NEW p \in 1..MaxMsgs, Regenerate(New, p) PROVE RemovedInv'
  <2>1. p - 1 - PageStart <= p - 1
    BY PageFacts
  <2>. QED  BY <1>3, <2>1, RegeneratePositions, TruncateClean
<1>4. CASE MergeReplies(New)
  <2>1. merges' = merges + 1 /\ merges = 0 /\ merges' = 0
    BY <1>4, MergeCases DEF Apt
  <2>. QED  BY <2>1
<1>5. CASE ReadHistory(New)
  BY <1>5, ReadCases, StillClean DEF dbVars
<1>. QED  BY <1>1, <1>2, <1>3, <1>4, <1>5, DeleteClean, BeginClean, EndClean DEF Request

LEMMA TurnClean ==
  ASSUME DataTypes, BoundTypes, RemovedInv, Apt, Apt', NEW t \in Turn, TurnStep(t, New)
  PROVE  RemovedInv'
<1>1. ASSUME NEW kind \in TurnKind, TurnSends(t, kind) PROVE RemovedInv'
  BY <1>1, AddClean, NewKinds DEF TurnSends
<1>2. ASSUME NEW p \in Preface, TurnSendsFull(t, p) PROVE RemovedInv'
  <2>1. PICK tt \in [Turn -> TurnSet(sent + 1)] : AddMessage(mem, turn[t].sess, "user", tt)
    BY <1>2, TurnAdds
  <2>. QED  BY <2>1, AddClean, NewKinds
<1>3. CASE TurnReplies(t)
  BY <1>3, AddClean, NewKinds DEF TurnReplies
<1>4. CASE AutoCompact(t, New)
  <2>1. autos' = autos + 1 /\ autos = 0 /\ autos' = 0
    BY <1>4, AutoCompactCases DEF Apt
  <2>. QED  BY <2>1
<1>5. CASE TurnOpens(t, New) \/ AutoCompactSkipped(t) \/ TurnFails(t)
  BY <1>5, StillClean DEF TurnOpens, AutoCompactSkipped, TurnFails, dbVars
<1>. QED  BY <1>1, <1>2, <1>3, <1>4, <1>5 DEF TurnStep

LEMMA RemovedStep ==
  ASSUME DataTypes, BoundTypes, OrderInv, SyncInv, RemovedInv, [Next]_vars
  PROVE  RemovedInv'
<1>. SUFFICES ASSUME Apt' PROVE RemovedInv'
  BY DEF RemovedInv
<1>1. Apt
  BY PastStep, PastApt
<1>2. CASE DeleteCommits
  BY <1>2 DEF DeleteCommits, Apt, Apart
<1>3. CASE UNCHANGED vars \/ CompactFails \/ DeleteSession \/ DeleteFails \/ Restart(New)
  <2>1. UNCHANGED <<rows, removed, behind>> /\ (comp' = comp \/ comp' = NoComp)
    BY <1>3, RestartCases DEF vars, dbVars, pastVars, CompactFails, DeleteSession, DeleteFails
  <2>. QED  BY <1>1, <2>1, StillClean
<1>. QED  BY <1>1, <1>2, <1>3, RequestClean, TurnClean DEF Next

LEMMA RemovedInvariant == Spec => [](DataTypes /\ BoundTypes /\ OrderInv /\ HeldInv /\ RowIds /\ SyncInv /\ RemovedInv)
<1>1. Init => DataTypes /\ BoundTypes /\ OrderInv /\ HeldInv /\ RowIds /\ SyncInv /\ RemovedInv
  <2>1. Init => RemovedInv
    BY DEF Init, RemovedInv, Clean, NoComp
  <2>. QED  BY <2>1, DataTypesInit, BoundInit, OrderInit, SyncInit
<1>2. DataTypes /\ BoundTypes /\ OrderInv /\ HeldInv /\ RowIds /\ SyncInv /\ RemovedInv /\ [Next]_vars
        => (DataTypes /\ BoundTypes /\ OrderInv /\ HeldInv /\ RowIds /\ SyncInv /\ RemovedInv)'
  BY DataTypesStep, BoundStep, OrderStep, PastStep, RowIdsStep, SyncStep, RemovedStep DEF Past
<1>. QED  BY <1>1, <1>2, PTL DEF Spec

\* What truncation or delete-messages took out of the history does not come back: not with the reply of a turn
\* that was under way, not with the rows the compact endpoint writes, and not by a restart.
THEOREM RemovedStaysOut == Spec => []RemovedStaysRemoved
<1>1. RemovedInv => RemovedStaysRemoved
  BY DEF RemovedInv, RemovedStaysRemoved, InStep, Apt, Apart, Clean
<1>. QED  BY <1>1, RemovedInvariant, PTL
==============================================================================
