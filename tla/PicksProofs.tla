----------------------------- MODULE PicksProofs -----------------------------
(***************************************************************************)
(* The elements that are picked from a sequence are those at the places    *)
(* asked for, each once.                                                   *)
(***************************************************************************)
EXTENDS Picks, SequenceTheorems, FiniteSetTheorems, TLAPS

\* How many the first n numbers are.
LEMMA FirstNumbers ==
  ASSUME NEW n \in Nat
  PROVE  IsFiniteSet(1..n) /\ Cardinality(1..n) = n
<1>1. 1 \in Int /\ n \in Int
  OBVIOUS
<1>2. IsFiniteSet(1..n) /\ Cardinality(1..n) = IF 1 > n THEN 0 ELSE n - 1 + 1
  BY ONLY <1>1, FS_Interval
<1> QED BY <1>2

\* Whoever comes later has more before it, and all have less than there are.
LEMMA Ranks ==
  ASSUME NEW n \in Nat, NEW I \in SUBSET (1..n)
  PROVE  /\ IsFiniteSet(I) /\ Cardinality(I) \in Nat
         /\ \A i \in I : Rank(I, i) \in 0..(Cardinality(I) - 1)
         /\ \A i, j \in I : Rank(I, i) = Rank(I, j) => i = j
<1>1. IsFiniteSet(1..n)
  BY FS_Interval
<1>2. IsFiniteSet(I) /\ Cardinality(I) \in Nat
  BY <1>1, FS_Subset, FS_CardinalityType
<1>3. ASSUME NEW S \in SUBSET I, NEW T \in SUBSET I, S \subseteq T, S # T
      PROVE  Cardinality(S) \in Nat /\ Cardinality(S) < Cardinality(T)
  <2>1. IsFiniteSet(S) /\ IsFiniteSet(T)
    BY <1>2, FS_Subset
  <2>2. Cardinality(S) \in Nat /\ Cardinality(T) \in Nat
    BY <2>1, FS_CardinalityType
  <2>3. Cardinality(S) <= Cardinality(T) /\ Cardinality(S) # Cardinality(T)
    BY <1>3, <2>1, FS_Subset
  <2> QED BY <2>2, <2>3
<1> DEFINE Before(i) == {j \in I : j < i}
<1>4. ASSUME NEW i \in I PROVE Rank(I, i) \in 0..(Cardinality(I) - 1)
  <2>1. Before(i) \in SUBSET I /\ i \notin Before(i)
    BY DEF Before
  <2>2. Cardinality(Before(i)) \in Nat /\ Cardinality(Before(i)) < Cardinality(I)
    <3> HIDE DEF Before
    <3> QED BY <1>3, <2>1
  <2>3. Rank(I, i) = Cardinality(Before(i))
    BY DEF Rank
  <2> HIDE DEF Before
  <2> QED BY <1>2, <2>2, <2>3
<1>5. ASSUME NEW i \in I, NEW j \in I, i < j PROVE Rank(I, i) # Rank(I, j)
  <2>1. Before(i) \in SUBSET I /\ Before(j) \in SUBSET I
    BY DEF Before
  <2>2. Before(i) \subseteq Before(j) /\ i \in Before(j) /\ i \notin Before(i)
    <3>1. \A x \in I : x \in Int
      OBVIOUS
    <3>2. i \in Int /\ j \in Int /\ i < j /\ ~(i < i)
      BY <1>5, <3>1
    <3>3. \A x \in I : x < i => x < j
      BY <3>1, <3>2
    <3> QED BY <3>2, <3>3
  <2>3. Rank(I, i) = Cardinality(Before(i)) /\ Rank(I, j) = Cardinality(Before(j))
    BY DEF Rank
  <2>4. Cardinality(Before(i)) < Cardinality(Before(j)) /\ Cardinality(Before(i)) \in Nat
    <3> HIDE DEF Before
    <3> QED BY <1>3, <2>1, <2>2
  <2>5. Cardinality(Before(j)) \in Nat
    BY <1>2, <2>1, FS_Subset, FS_CardinalityType
  <2> HIDE DEF Before
  <2> QED BY <2>3, <2>4, <2>5
<1>6. ASSUME NEW i \in I, NEW j \in I, Rank(I, i) = Rank(I, j) PROVE i = j
  <2>1. i \in Int /\ j \in Int
    OBVIOUS
  <2>2. i < j \/ j < i \/ i = j
    BY <2>1
  <2> QED BY <1>5, <1>6, <2>2
<1> QED BY <1>2, <1>4, <1>6

\* There is one for every place.
LEMMA RankIsTaken ==
  ASSUME NEW n \in Nat, NEW I \in SUBSET (1..n), NEW k \in 0..(Cardinality(I) - 1)
  PROVE  \E i \in I : Rank(I, i) = k
<1> SUFFICES ASSUME \A i \in I : Rank(I, i) # k PROVE FALSE
  OBVIOUS
<1> DEFINE m == Cardinality(I)
           T == (0..(m - 1)) \ {k}
           f == [i \in I |-> Rank(I, i)]
<1>1. IsFiniteSet(I) /\ m \in Nat
  BY Ranks
<1>2. f \in [I -> T]
  BY Ranks
<1>3. IsFiniteSet(0..(m - 1)) /\ Cardinality(0..(m - 1)) = m
  <2> HIDE DEF m
  <2> QED BY <1>1, FS_Interval
<1>4. k \in 0..(m - 1)
  OBVIOUS
<1>5. IsFiniteSet(T) /\ Cardinality(T) < m
  <2> DEFINE D == 0..(m - 1)
  <2>1. IsFiniteSet(D \ {k}) /\ Cardinality(D \ {k}) = Cardinality(D) - 1
    <3>1. IsFiniteSet(D) /\ k \in D
      BY <1>3, <1>4
    <3> HIDE DEF D
    <3> QED BY <3>1, FS_RemoveElement
  <2>2. IsFiniteSet(T) /\ Cardinality(T) = m - 1
    BY <1>3, <2>1
  <2> HIDE DEF m, T
  <2> QED BY <1>1, <2>2
<1>6. \E i, j \in I : i # j /\ f[i] = f[j]
  <2> HIDE DEF f, T
  <2> QED BY <1>1, <1>2, <1>5, FS_PigeonHole
<1> QED BY <1>6, Ranks

\* f tells of each element that is picked from which place it is.
Places(s, I, f) ==
  /\ f \in [1..Cardinality(I) -> I]
  /\ \A k \in 1..Cardinality(I) : Picked(s, I)[k] = s[f[k]] /\ Rank(I, f[k]) = k - 1
  /\ \A i \in I : \E k \in 1..Cardinality(I) : f[k] = i
  /\ \A k, l \in 1..Cardinality(I) : f[k] = f[l] => k = l

\* What is picked from a sequence: those at the places, each once.
LEMMA PickedPlaces ==
  ASSUME NEW S, NEW s \in Seq(S), NEW I \in SUBSET (DOMAIN s)
  PROVE  /\ Picked(s, I) \in Seq(S) /\ Len(Picked(s, I)) = Cardinality(I)
         /\ Cardinality(I) \in Nat
         /\ \E f : Places(s, I, f)
<1> DEFINE m == Cardinality(I)
           p(k) == CHOOSE i \in I : Rank(I, i) = k - 1
           f == [k \in 1..m |-> p(k)]
<1>1. DOMAIN s = 1..Len(s) /\ Len(s) \in Nat /\ \A i \in DOMAIN s : s[i] \in S
  BY LenProperties, ElementOfSeq
<1>2. I \in SUBSET (1..Len(s)) /\ m \in Nat
  BY <1>1, Ranks
<1>3. ASSUME NEW k \in 1..m PROVE p(k) \in I /\ Rank(I, p(k)) = k - 1
  <2>1. k - 1 \in 0..(m - 1)
    <3> HIDE DEF m
    <3> QED BY <1>2
  <2>2. \E i \in I : Rank(I, i) = k - 1
    BY <1>1, <1>2, <2>1, RankIsTaken
  <2> QED BY <2>2
<1>4. Picked(s, I) = [k \in 1..m |-> s[p(k)]]
  BY DEF Picked
<1>5. f \in [1..m -> I]
  BY <1>3
<1> HIDE DEF m, p
<1>6. Picked(s, I) \in Seq(S) /\ Len(Picked(s, I)) = m
  <2>1. \A k \in 1..m : s[p(k)] \in S
    BY <1>1, <1>3
  <2> QED BY <1>2, <1>4, <2>1
<1>7. \A k \in 1..m : Picked(s, I)[k] = s[f[k]] /\ Rank(I, f[k]) = k - 1
  BY <1>3, <1>4
<1>8. ASSUME NEW i \in I PROVE \E k \in 1..m : f[k] = i
  <2>1. Rank(I, i) \in 0..(m - 1)
    BY <1>1, <1>2, Ranks DEF m
  <2>2. Rank(I, i) + 1 \in 1..m /\ (Rank(I, i) + 1) - 1 = Rank(I, i)
    BY <1>2, <2>1
  <2>3. Rank(I, f[Rank(I, i) + 1]) = Rank(I, i) /\ f[Rank(I, i) + 1] \in I
    BY <1>5, <1>7, <2>2
  <2>4. f[Rank(I, i) + 1] = i
    BY <1>1, <1>2, <2>3, Ranks
  <2> QED BY <2>2, <2>4
<1>9. ASSUME NEW k \in 1..m, NEW l \in 1..m, f[k] = f[l] PROVE k = l
  BY <1>7, <1>9
<1> HIDE DEF f
<1>10. Places(s, I, f)
  BY <1>5, <1>7, <1>8, <1>9 DEF m, Places
<1> QED BY <1>2, <1>6, <1>10 DEF m

\* So it has their elements, each from one place.
LEMMA PickedElements ==
  ASSUME NEW S, NEW s \in Seq(S), NEW I \in SUBSET (DOMAIN s)
  PROVE  /\ Picked(s, I) \in Seq(S)
         /\ \E f \in [DOMAIN Picked(s, I) -> I] :
              /\ \A k \in DOMAIN Picked(s, I) : Picked(s, I)[k] = s[f[k]]
              /\ \A i \in I : \E k \in DOMAIN Picked(s, I) : f[k] = i
              /\ \A k, l \in DOMAIN Picked(s, I) : f[k] = f[l] => k = l
<1>1. PICK f : Places(s, I, f)
  BY PickedPlaces
<1>2. Picked(s, I) \in Seq(S) /\ DOMAIN Picked(s, I) = 1..Cardinality(I)
  BY PickedPlaces, LenProperties
<1> DEFINE D == DOMAIN Picked(s, I)
<1>3. /\ f \in [D -> I]
      /\ \A k \in D : Picked(s, I)[k] = s[f[k]]
      /\ \A i \in I : \E k \in D : f[k] = i
      /\ \A k, l \in D : f[k] = f[l] => k = l
  BY <1>1, <1>2 DEF Places
<1> HIDE DEF D
<1>4. \E g \in [D -> I] :
        /\ \A k \in D : Picked(s, I)[k] = s[g[k]]
        /\ \A i \in I : \E k \in D : g[k] = i
        /\ \A k, l \in D : g[k] = g[l] => k = l
  BY <1>3
<1> QED BY <1>2, <1>4 DEF D

\* To pick all is to change nothing.
LEMMA PickedAll ==
  ASSUME NEW S, NEW s \in Seq(S)
  PROVE  Picked(s, DOMAIN s) = s
<1> DEFINE I == 1..Len(s)
<1>1. DOMAIN s = I /\ Len(s) \in Nat
  BY LenProperties
<1>2. Cardinality(I) = Len(s)
  BY <1>1, FirstNumbers
<1>3. \A i \in I : Rank(I, i) = i - 1
  <2> SUFFICES ASSUME NEW i \in I PROVE Rank(I, i) = i - 1
    OBVIOUS
  <2>1. {j \in I : j < i} = 1..(i - 1) /\ i - 1 \in Nat
    BY <1>1
  <2>2. Cardinality(1..(i - 1)) = i - 1
    BY <2>1, FirstNumbers
  <2> QED BY <2>1, <2>2 DEF Rank
<1>4. PICK f : Places(s, I, f)
  <2>1. I \in SUBSET (DOMAIN s)
    BY <1>1
  <2> HIDE DEF I
  <2> QED BY <2>1, PickedPlaces
<1>5. \A k \in 1..Len(s) : f[k] = k
  <2> SUFFICES ASSUME NEW k \in 1..Len(s) PROVE f[k] = k
    OBVIOUS
  <2>1. f[k] \in I /\ Rank(I, f[k]) = k - 1 /\ Rank(I, f[k]) = f[k] - 1
    BY <1>2, <1>3, <1>4 DEF Places
  <2> QED BY <1>1, <2>1
<1>6. \A k \in 1..Len(s) : Picked(s, I)[k] = s[k]
  BY <1>2, <1>4, <1>5 DEF Places
<1>7. Picked(s, I) \in Seq(S) /\ Len(Picked(s, I)) = Len(s)
  <2>1. I \in SUBSET (DOMAIN s)
    BY <1>1
  <2> HIDE DEF I
  <2> QED BY <1>2, <2>1, PickedPlaces
<1> QED BY <1>1, <1>6, <1>7, SeqEqual

\* What is picked holds each element as often as what it was picked from.
LEMMA PickedOnce ==
  ASSUME NEW S, NEW s \in Seq(S), NEW I \in SUBSET (DOMAIN s),
         \A i, j \in DOMAIN s : s[i] = s[j] => i = j
  PROVE  /\ \A k, l \in DOMAIN Picked(s, I) : Picked(s, I)[k] = Picked(s, I)[l] => k = l
         /\ {Picked(s, I)[k] : k \in DOMAIN Picked(s, I)} = {s[i] : i \in I}
<1> DEFINE new == Picked(s, I)
<1>1. PICK f \in [DOMAIN new -> I] :
        /\ \A k \in DOMAIN new : new[k] = s[f[k]]
        /\ \A i \in I : \E k \in DOMAIN new : f[k] = i
        /\ \A k, l \in DOMAIN new : f[k] = f[l] => k = l
  BY PickedElements
<1> HIDE DEF new
<1>2. \A k, l \in DOMAIN new : new[k] = new[l] => k = l
  BY <1>1
<1>3. {new[k] : k \in DOMAIN new} = {s[i] : i \in I}
  BY <1>1
<1> QED BY <1>2, <1>3 DEF new
=============================================================================
