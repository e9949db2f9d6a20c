---------------------------- MODULE PositionProofs ----------------------------
(***************************************************************************)
(* What AtPositions makes of a sequence: the nth smallest position exists  *)
(* and is the only one; positions that all come later add their elements   *)
(* at the end; and only the positions themselves are looked at.            *)
(***************************************************************************)
EXTENDS Positions, Integers, Sequences, FiniteSetTheorems, WellFoundedInduction, TLAPS

(* Every non-empty set of numbers has a least one, and every bounded one a
   greatest. *)
LEMMA Least == ASSUME NEW T \in SUBSET Nat, T # {} PROVE \E x \in T : \A y \in T : x <= y
<1> DEFINE R == OpToRel(<, Nat)
<1>1. IsWellFoundedOn(R, Nat)
  BY NatLessThanWellFounded
<1>2. \A x, y \in Nat : y < x => <<y, x>> \in R
  BY DEF OpToRel
<1> HIDE DEF R
<1>3. PICK x \in T : \A y \in T : ~ (<<y, x>> \in R)
  BY <1>1, WFMin
<1>4. ASSUME NEW y \in T PROVE x <= y
  <2>1. ~ (<<y, x>> \in R)
    BY <1>3
  <2>2. ~ (y < x)
    BY <1>2, <2>1
  <2> QED
    BY <2>2
<1> QED
  BY <1>4

LEMMA Greatest ==
  ASSUME NEW n \in Nat, NEW T \in SUBSET (0..n), T # {}
  PROVE  \E x \in T : \A y \in T : y <= x
<1> DEFINE D == {n - x : x \in T}
<1>1. D \in SUBSET Nat /\ D # {}
  <2>1. \A x \in T : x \in 0..n
    OBVIOUS
  <2>2. \A x \in T : n - x \in Nat
    BY <2>1
  <2> QED
    BY <2>2
<1>2. PICK d \in D : \A y \in D : d <= y
  BY <1>1, Least
<1>3. PICK x \in T : d = n - x
  OBVIOUS
<1>4. ASSUME NEW y \in T PROVE y <= x
  <2>1. d <= n - y
    BY <1>2
  <2> QED
    BY <1>3, <2>1
<1> QED
  BY <1>4

(* How many positions there are up to one *)
Rank(S, i) == Cardinality({k \in S : k <= i})

(* Positions in a file of length n *)
Places(S, n) == n \in Nat /\ S \in SUBSET (1..n)

LEMMA PlacesFinite ==
  ASSUME NEW n, NEW S, Places(S, n)
  PROVE  /\ IsFiniteSet(S) /\ Cardinality(S) \in Nat
         /\ \A i : IsFiniteSet({k \in S : k <= i}) /\ Rank(S, i) \in Nat
                   /\ Rank(S, i) <= Cardinality(S)
<1>1. IsFiniteSet(1..n)
  BY FS_Interval DEF Places
<1>2. IsFiniteSet(S)
  BY <1>1, FS_Subset DEF Places
<1>3. ASSUME NEW i
      PROVE  IsFiniteSet({k \in S : k <= i}) /\ Rank(S, i) \in Nat
             /\ Rank(S, i) <= Cardinality(S)
  <2>1. {k \in S : k <= i} \in SUBSET S
    OBVIOUS
  <2>2. IsFiniteSet({k \in S : k <= i}) /\ Rank(S, i) <= Cardinality(S)
    BY <1>2, <2>1, FS_Subset DEF Rank
  <2> QED
    BY <2>2, FS_CardinalityType DEF Rank
<1> QED
  BY <1>2, <1>3, FS_CardinalityType

LEMMA PlacesNat == ASSUME NEW n, NEW S, Places(S, n) PROVE S \subseteq Nat
<1>1. \A x \in S : x \in 1..n
  BY DEF Places
<1> QED
  BY <1>1 DEF Places

(* Ranks grow with the position. *)
LEMMA RankGrows ==
  ASSUME NEW n, NEW S, Places(S, n), NEW i \in S, NEW k \in S, i < k
  PROVE  Rank(S, i) < Rank(S, k)
<1> DEFINE I == {x \in S : x <= i}
           K == {x \in S : x <= k}
<1>1. S \subseteq Nat
  BY DEF Places
<1>2. I \in SUBSET K /\ I # K
  <2>1. \A x \in S : x <= i => x <= k
    BY <1>1
  <2>2. k \in K /\ k \notin I
    BY <1>1
  <2> QED
    BY <2>1, <2>2
<1>3. IsFiniteSet(K) /\ Cardinality(I) \in Nat /\ Cardinality(K) \in Nat
  BY PlacesFinite DEF Rank
<1>4. Cardinality(I) <= Cardinality(K) /\ Cardinality(I) # Cardinality(K)
  <2> HIDE DEF I, K
  <2> QED
    BY <1>2, <1>3, FS_Subset
<1> QED
  BY <1>3, <1>4 DEF Rank

(* There is an nth position, and it is the only one of its rank. *)
LEMMA RankFound ==
  ASSUME NEW m, NEW S, Places(S, m), NEW n \in 1..Cardinality(S)
  PROVE  \E i \in S : Rank(S, i) = n
<1>1. /\ S \subseteq Nat /\ S \in SUBSET (0..m) /\ m \in Nat
      /\ Cardinality(S) \in Nat /\ \A i \in S : Rank(S, i) \in Nat
  <2>1. \A x \in 1..m : x \in 0..m /\ x \in Nat
    BY DEF Places
  <2>2. \A x \in S : x \in 1..m
    BY DEF Places
  <2>3. S \subseteq Nat /\ S \in SUBSET (0..m) /\ m \in Nat
    BY <2>1, <2>2 DEF Places
  <2> QED
    BY <2>3, PlacesFinite
<1> DEFINE T == {i \in S : n <= Rank(S, i)}
<1>2. T # {}
  <2>1. S # {}
    BY <1>1, FS_EmptySet
  <2>2. PICK x \in S : \A y \in S : y <= x
    BY <1>1, <2>1, Greatest
  <2>3. {k \in S : k <= x} = S
    BY <2>2
  <2>4. Rank(S, x) = Cardinality(S)
    BY <2>3 DEF Rank
  <2> QED
    BY <1>1, <2>4
<1>3. PICK i \in T : \A y \in T : i <= y
  <2>1. T \in SUBSET Nat
    BY <1>1
  <2> QED
    BY <1>2, <2>1, Least
<1> DEFINE B == {k \in S : k < i}
<1>4. {k \in S : k <= i} = B \cup {i} /\ i \notin B
  <2>1. i \in S /\ i \in Nat /\ \A k \in S : k \in Nat
    BY <1>1
  <2>2. \A k \in S : k <= i <=> (k < i \/ k = i)
    BY <2>1
  <2>3. ~(i < i)
    BY <2>1
  <2> QED
    BY <2>1, <2>2, <2>3
<1>5. IsFiniteSet(B) /\ Cardinality(B) \in Nat
  <2>1. B \in SUBSET S
    OBVIOUS
  <2> HIDE DEF B
  <2> QED
    BY <2>1, PlacesFinite, FS_Subset, FS_CardinalityType
<1>6. Rank(S, i) = Cardinality(B) + 1
  <2> HIDE DEF B
  <2> QED
    BY <1>4, <1>5, FS_AddElement DEF Rank
<1>7. Cardinality(B) < n
  <2>1. CASE B = {}
    BY <2>1, FS_EmptySet
  <2>2. CASE B # {}
    <3>1. PICK x \in B : \A y \in B : y <= x
      <4>1. B \in SUBSET (0..m)
        BY <1>1
      <4> HIDE DEF B
      <4> QED
        BY <1>1, <2>2, <4>1, Greatest
    <3>2. {k \in S : k <= x} = B
      <4>1. \A k \in S : k <= x => k < i
        BY <1>1, <3>1
      <4>2. \A k \in B : k <= x
        BY <3>1
      <4> QED
        BY <4>1, <4>2
    <3>3. x \notin T
      BY <1>1, <1>3
    <3>4. ~(n <= Rank(S, x))
      BY <3>1, <3>3
    <3>5. Rank(S, x) = Cardinality(B)
      BY <3>2 DEF Rank
    <3> QED
      BY <1>5, <3>4, <3>5
  <2> QED
    BY <2>1, <2>2
<1>8. Rank(S, i) = n
  BY <1>1, <1>5, <1>6, <1>7
<1> QED
  BY <1>8

LEMMA NthIs ==
  ASSUME NEW m, NEW S, Places(S, m)
  PROVE  /\ \A n \in 1..Cardinality(S) : Nth(S, n) \in S /\ Rank(S, Nth(S, n)) = n
         /\ \A i \in S : Nth(S, Rank(S, i)) = i /\ Rank(S, i) \in 1..Cardinality(S)
<1>1. ASSUME NEW n \in 1..Cardinality(S)
      PROVE  Nth(S, n) \in S /\ Rank(S, Nth(S, n)) = n
  <2>1. \E i \in S : Cardinality({k \in S : k <= i}) = n
    BY RankFound DEF Rank
  <2> QED
    BY <2>1 DEF Nth, Rank
<1>2. \A i, k \in S : Rank(S, i) = Rank(S, k) => i = k
  <2>1. \A i \in S : i \in Nat /\ Rank(S, i) \in Nat
    BY PlacesFinite, PlacesNat
  <2>2. \A i, k \in S : i < k => Rank(S, i) < Rank(S, k)
    BY RankGrows
  <2> QED
    BY <2>1, <2>2
<1>3. ASSUME NEW i \in S
      PROVE  Nth(S, Rank(S, i)) = i /\ Rank(S, i) \in 1..Cardinality(S)
  <2>1. Rank(S, i) \in Nat /\ Rank(S, i) <= Cardinality(S) /\ Cardinality(S) \in Nat
    BY PlacesFinite
  <2>2. Rank(S, i) # 0
    <3>1. i \in {k \in S : k <= i}
      BY DEF Places
    <3>2. IsFiniteSet({k \in S : k <= i})
      BY PlacesFinite
    <3> QED
      BY <3>1, <3>2, FS_EmptySet DEF Rank
  <2>3. Rank(S, i) \in 1..Cardinality(S)
    BY <2>1, <2>2
  <2>4. Nth(S, Rank(S, i)) \in S /\ Rank(S, Nth(S, Rank(S, i))) = Rank(S, i)
    BY <1>1, <2>3
  <2> QED
    BY <1>2, <2>3, <2>4
<1> QED
  BY <1>1, <1>3

(* All positions of the one before all of the other *)
Before(S, T) == \A i \in S, k \in T : i < k

(* The positions of the one, then those of the other *)
Joined(S, T, U) ==
  /\ Cardinality(U) = Cardinality(S) + Cardinality(T)
  /\ \A n \in 1..Cardinality(S) : Nth(U, n) = Nth(S, n)
  /\ \A n \in 1..Cardinality(T) : Nth(U, Cardinality(S) + n) = Nth(T, n)

LEMMA NthOfUnion ==
  ASSUME NEW m, NEW S, NEW T, Places(S, m), Places(T, m), Before(S, T)
  PROVE  Joined(S, T, S \cup T)
<1>1. Places(S \cup T, m)
  BY DEF Places
<1>2. /\ IsFiniteSet(S) /\ Cardinality(S) \in Nat
      /\ IsFiniteSet(T) /\ Cardinality(T) \in Nat
      /\ S \subseteq Nat /\ T \subseteq Nat
  BY PlacesFinite, PlacesNat
<1>3. S \cap T = {}
  <2>1. \A x \in S : ~(x < x)
    BY <1>2
  <2> QED
    BY <2>1 DEF Before
<1>4. Cardinality(S \cup T) = Cardinality(S) + Cardinality(T)
  <2>1. Cardinality(S \cup T) = Cardinality(S) + Cardinality(T) - Cardinality(S \cap T)
    BY <1>2, FS_Union
  <2>2. Cardinality(S \cap T) = 0
    BY <1>3, FS_EmptySet
  <2> QED
    BY <1>2, <2>1, <2>2
<1>5. ASSUME NEW i \in S PROVE Rank(S \cup T, i) = Rank(S, i)
  <2>1. ASSUME NEW k \in T PROVE ~(k <= i)
    BY <1>2 DEF Before
  <2>2. {k \in S \cup T : k <= i} = {k \in S : k <= i}
    BY <2>1
  <2> QED
    BY <2>2 DEF Rank
<1>6. ASSUME NEW i \in T PROVE Rank(S \cup T, i) = Cardinality(S) + Rank(T, i)
  <2> DEFINE B == {k \in T : k <= i}
  <2>1. ASSUME NEW k \in S PROVE k <= i
    BY <1>2 DEF Before
  <2>2. {k \in S \cup T : k <= i} = S \cup B
    BY <2>1
  <2>3. Cardinality(S \cap B) = 0
    <3>1. S \cap B = {}
      BY <1>3
    <3> QED
      BY <3>1, FS_EmptySet
  <2>4. IsFiniteSet(B) /\ Cardinality(B) \in Nat
    BY PlacesFinite DEF Rank
  <2> HIDE DEF B
  <2>5. Cardinality(S \cup B) = Cardinality(S) + Cardinality(B) - Cardinality(S \cap B)
    BY <1>2, <2>4, FS_Union
  <2>6. Cardinality(S \cup B) = Cardinality(S) + Cardinality(B)
    BY <1>2, <2>3, <2>4, <2>5
  <2> QED
    BY <2>2, <2>6 DEF Rank, B
<1>7. ASSUME NEW n \in 1..Cardinality(S) PROVE Nth(S \cup T, n) = Nth(S, n)
  <2>1. Nth(S, n) \in S /\ Rank(S, Nth(S, n)) = n
    BY NthIs
  <2>2. Rank(S \cup T, Nth(S, n)) = n
    BY <1>5, <2>1
  <2> QED
    BY <1>1, <2>1, <2>2, NthIs
<1>8. ASSUME NEW n \in 1..Cardinality(T)
      PROVE  Nth(S \cup T, Cardinality(S) + n) = Nth(T, n)
  <2>1. Nth(T, n) \in T /\ Rank(T, Nth(T, n)) = n
    BY NthIs
  <2>2. Rank(S \cup T, Nth(T, n)) = Cardinality(S) + n
    BY <1>6, <2>1
  <2> QED
    BY <1>1, <2>1, <2>2, NthIs
<1> QED
  BY <1>4, <1>7, <1>8, Zenon DEF Joined

-----------------------------------------------------------------------------
(* The elements *)

LEMMA AtPlaces ==
  ASSUME NEW X, NEW j \in Seq(X), NEW S \in SUBSET (1..Len(j))
  PROVE  /\ AtPositions(j, S) \in Seq(X)
         /\ Len(AtPositions(j, S)) = Cardinality(S)
         /\ \A n \in 1..Cardinality(S) : AtPositions(j, S)[n] = j[Nth(S, n)]
                                         /\ Nth(S, n) \in S
         /\ \A i \in S : \E n \in 1..Cardinality(S) : AtPositions(j, S)[n] = j[i]
<1>1. Places(S, Len(j))
  BY DEF Places
<1>2. Cardinality(S) \in Nat
  BY <1>1, PlacesFinite
<1>3. \A n \in 1..Cardinality(S) : Nth(S, n) \in S
  BY <1>1, NthIs
<1>4. \A n \in 1..Cardinality(S) : j[Nth(S, n)] \in X
  <2>1. \A i \in S : i \in 1..Len(j)
    OBVIOUS
  <2>2. \A i \in 1..Len(j) : j[i] \in X
    OBVIOUS
  <2> QED
    BY <1>3, <2>1, <2>2
<1>5. AtPositions(j, S) \in Seq(X) /\ Len(AtPositions(j, S)) = Cardinality(S)
  BY <1>2, <1>4 DEF AtPositions
<1>6. \A i \in S : Nth(S, Rank(S, i)) = i /\ Rank(S, i) \in 1..Cardinality(S)
  BY <1>1, NthIs
<1> QED
  BY <1>3, <1>5, <1>6 DEF AtPositions

(* Only the positions themselves are looked at. *)
LEMMA AtSame ==
  ASSUME NEW m, NEW S, Places(S, m), NEW j, NEW k, \A i \in S : j[i] = k[i]
  PROVE  AtPositions(j, S) = AtPositions(k, S)
<1>1. \A n \in 1..Cardinality(S) : j[Nth(S, n)] = k[Nth(S, n)]
  BY NthIs
<1> QED
  BY <1>1 DEF AtPositions

LEMMA AtNone == ASSUME NEW j PROVE AtPositions(j, {}) = <<>>
<1>1. 1..Cardinality({}) = {}
  BY FS_EmptySet
<1> QED
  BY <1>1 DEF AtPositions

(* Positions that come later add their elements at the end. *)
LEMMA AtUnion ==
  ASSUME NEW X, NEW j \in Seq(X), NEW S \in SUBSET (1..Len(j)), NEW T \in SUBSET (1..Len(j)),
         Before(S, T)
  PROVE  AtPositions(j, S \cup T) = AtPositions(j, S) \o AtPositions(j, T)
<1>1. Places(S, Len(j)) /\ Places(T, Len(j))
  BY DEF Places
<1> DEFINE U == S \cup T
           s == AtPositions(j, S)
           t == AtPositions(j, T)
           u == AtPositions(j, U)
<1>2. /\ Cardinality(U) = Cardinality(S) + Cardinality(T)
      /\ \A n \in 1..Cardinality(S) : Nth(U, n) = Nth(S, n)
      /\ \A n \in 1..Cardinality(T) : Nth(U, Cardinality(S) + n) = Nth(T, n)
  <2>1. Joined(S, T, S \cup T)
    BY <1>1, NthOfUnion
  <2>2. Joined(S, T, U)
    BY <2>1
  <2> QED
    BY <2>2, Zenon DEF Joined
<1>3. /\ s \in Seq(X) /\ Len(s) = Cardinality(S)
      /\ \A n \in 1..Cardinality(S) : s[n] = j[Nth(S, n)]
  BY AtPlaces
<1>4. /\ t \in Seq(X) /\ Len(t) = Cardinality(T)
      /\ \A n \in 1..Cardinality(T) : t[n] = j[Nth(T, n)]
  BY AtPlaces
<1>5. /\ u \in Seq(X) /\ Len(u) = Cardinality(U)
      /\ \A n \in 1..Cardinality(U) : u[n] = j[Nth(U, n)]
  <2>1. U \in SUBSET (1..Len(j))
    OBVIOUS
  <2> HIDE DEF U
  <2> QED
    BY <2>1, AtPlaces
<1> HIDE DEF U, s, t, u
<1>0. /\ Len(s) \in Nat /\ Len(t) \in Nat /\ Len(u) \in Nat
      /\ Len(u) = Len(s) + Len(t)
  <2>1. Len(s) \in Nat /\ Len(t) \in Nat /\ Len(u) \in Nat
    BY <1>3, <1>4, <1>5
  <2> QED
    BY <1>2, <1>3, <1>4, <1>5, <2>1
<1>6. ASSUME NEW n \in 1..Len(u) PROVE u[n] = (s \o t)[n]
  <2>1. CASE n <= Len(s)
    BY <1>2, <1>3, <1>4, <1>5, <2>1
  <2>2. CASE n > Len(s)
    <3>1. n - Len(s) \in 1..Len(t) /\ n = Len(s) + (n - Len(s))
      BY <1>2, <1>3, <1>4, <1>5, <2>2
    <3>2. (s \o t)[n] = t[n - Len(s)]
      BY <1>3, <1>4, <3>1, <2>2
    <3>3. u[n] = j[Nth(T, n - Len(s))]
      BY <1>2, <1>3, <1>4, <1>5, <3>1
    <3> QED
      BY <1>4, <3>1, <3>2, <3>3
  <2> QED
    BY <1>0, <2>1, <2>2
<1>7. Len(u) = Len(s \o t) /\ s \o t \in Seq(X)
  <2>1. s \in Seq(X) /\ t \in Seq(X)
    BY <1>3, <1>4
  <2>2. s \o t \in Seq(X) /\ Len(s \o t) = Len(s) + Len(t)
    BY <2>1
  <2> QED
    BY <1>0, <2>2
<1>8. u = s \o t
  <2> DEFINE v == s \o t
  <2>1. v \in Seq(X) /\ Len(u) = Len(v) /\ \A n \in 1..Len(u) : u[n] = v[n]
    BY <1>6, <1>7
  <2>2. u \in Seq(X)
    BY <1>5
  <2> HIDE DEF v
  <2>3. u = v
    BY <2>1, <2>2
  <2> QED
    BY <2>3 DEF v
<1> QED
  BY <1>8 DEF U, s, t, u

LEMMA AtOne ==
  ASSUME NEW X, NEW j \in Seq(X), NEW i \in 1..Len(j)
  PROVE  AtPositions(j, {i}) = <<j[i]>>
<1>1. Cardinality({i}) = 1
  BY FS_Singleton
<1> DEFINE s == AtPositions(j, {i})
<1>2. {i} \in SUBSET (1..Len(j))
  OBVIOUS
<1>3. /\ s \in Seq(X) /\ Len(s) = 1
      /\ \A n \in 1..1 : s[n] = j[Nth({i}, n)] /\ Nth({i}, n) \in {i}
  <2> HIDE DEF s
  <2>1. /\ s \in Seq(X) /\ Len(s) = Cardinality({i})
        /\ \A n \in 1..Cardinality({i}) : s[n] = j[Nth({i}, n)] /\ Nth({i}, n) \in {i}
    BY <1>2, AtPlaces, Zenon DEF s
  <2> QED
    BY <1>1, <2>1
<1>4. s[1] = j[i]
  BY <1>3
<1> HIDE DEF s
<1>5. s = <<j[i]>>
  BY <1>3, <1>4
<1> QED
  BY <1>5 DEF s
=============================================================================
