----------------------------- MODULE ListsProofs -----------------------------
(***************************************************************************)
(* Lemmas about Lists: a filter leaves exactly the elements that pass, in   *)
(* their order.                                                            *)
(***************************************************************************)
EXTENDS Lists, FiniteSetTheorems, SequenceTheorems, WellFoundedInduction, TLAPS

\* A set of natural numbers has a least element.
LEMMA LeastExists ==
    ASSUME NEW T, T \subseteq Nat, T # {}
    PROVE  \E x \in T : \A y \in T : x <= y
<1>1. IsWellFoundedOn(OpToRel(<, Nat), Nat)
  BY NatLessThanWellFounded
<1>2. \A x, y \in Nat : y < x => <<y, x>> \in OpToRel(<, Nat)
  BY DEF OpToRel
<1>3. PICK x \in T : \A y \in T : ~ (<<y, x>> \in OpToRel(<, Nat))
  BY <1>1, WFMin
<1>4. \A y \in T : ~(y < x)
  BY <1>3, <1>2
<1>5. \A y \in T : x <= y
  BY <1>4
<1> QED BY <1>5

\* So a set of positions of a sequence has a greatest one.
LEMMA GreatestExists ==
    ASSUME NEW n \in Nat, NEW T, T \subseteq 1..n, T # {}
    PROVE  \E x \in T : \A y \in T : y <= x
<1> DEFINE U == {n - x : x \in T}
<1>1. U \subseteq Nat /\ U # {}
  <2>1. \A x \in T : n - x \in Nat
    OBVIOUS
  <2>2. PICK x \in T : TRUE
    OBVIOUS
  <2>3. n - x \in U
    BY <2>2
  <2> QED BY <2>1, <2>3
<1>2. PICK u \in U : \A v \in U : u <= v
    BY <1>1, LeastExists
<1>3. PICK x \in T : u = n - x
    BY <1>2
<1>4. \A y \in T : n - x <= n - y
    BY <1>2, <1>3
<1>5. \A y \in T : y <= x
    BY <1>4
<1> QED BY <1>5

\* Every rank up to the size of a set of positions is taken by one of them.
LEMMA RankExists ==
    ASSUME NEW n \in Nat, NEW K, K \subseteq 1..n, NEW k \in 1..Cardinality(K)
    PROVE  \E i \in K : Cardinality({j \in K : j <= i}) = k
<1> DEFINE B(i) == {j \in K : j <= i}
           T == {i \in 0..n : Cardinality(B(i)) >= k}
<1>1. IsFiniteSet(K) /\ Cardinality(K) \in Nat
  <2>1. IsFiniteSet(1..n)
    BY FS_Interval
  <2>2. IsFiniteSet(K)
    BY <2>1, FS_Subset
  <2> QED BY <2>2, FS_CardinalityType
<1>2. \A i \in Int : IsFiniteSet(B(i)) /\ Cardinality(B(i)) \in Nat
  <2> TAKE i \in Int
  <2>1. B(i) \subseteq K
    OBVIOUS
  <2> HIDE DEF B
  <2>2. IsFiniteSet(B(i))
    BY <1>1, <2>1, FS_Subset
  <2> QED BY <2>2, FS_CardinalityType
<1>3. \A j \in K : j \in Int /\ 1 <= j /\ j <= n
  OBVIOUS
<1>4. n \in T
  <2>1. B(n) = K
    BY <1>3
  <2> QED BY <1>1, <2>1
<1>5. PICK m \in T : \A i \in T : m <= i
  <2>1. T \subseteq Nat
    OBVIOUS
  <2> HIDE DEF T
  <2> QED BY <1>4, <2>1, LeastExists
<1>6. m \in 0..n /\ Cardinality(B(m)) >= k
  OBVIOUS
<1>7. \A i \in 0..n : i < m => ~(Cardinality(B(i)) >= k)
  BY <1>5
<1> HIDE DEF T
<1>8. m # 0
  <2>0. \A j \in K : ~(j <= 0)
    BY <1>3
  <2>1. B(0) = {}
    BY <2>0
  <2>2. Cardinality(B(0)) = 0
    BY <2>1, FS_EmptySet
  <2> HIDE DEF B
  <2> QED BY <1>1, <1>6, <2>2
<1>9. m - 1 \in 0..n /\ m - 1 \in Int /\ m \in Int /\ Cardinality(B(m - 1)) \in Nat /\ Cardinality(B(m)) \in Nat
      /\ Cardinality(B(m - 1)) < k
  <2>1. m - 1 \in 0..n /\ m - 1 < m /\ m - 1 \in Int /\ m \in Int
    BY <1>6, <1>8
  <2> HIDE DEF B
  <2> QED BY <1>1, <1>2, <1>7, <2>1
<1>10. CASE m \notin K
  <2>0. \A j \in K : j <= m <=> j <= m - 1
    <3> TAKE j \in K
    <3>1. j \in Int /\ m \in Int /\ j # m
      BY <1>10, <1>9, <1>3
    <3> QED BY <3>1
  <2>1. B(m) = B(m - 1)
    BY <2>0
  <2> HIDE DEF B
  <2> QED BY <1>1, <1>9, <2>1, <1>6
<1>11. CASE m \in K
  <2>0. \A j \in K : j <= m <=> (j <= m - 1 \/ j = m)
    <3> TAKE j \in K
    <3>1. j \in Int /\ m \in Int
      BY <1>9, <1>3
    <3> QED BY <3>1
  <2>2. ~(m <= m - 1)
    BY <1>9
  <2>1. B(m) = B(m - 1) \cup {m} /\ m \notin B(m - 1)
    BY <1>11, <2>0, <2>2
  <2>3. IsFiniteSet(B(m - 1))
    BY <1>2, <1>9
  <2> HIDE DEF B
  <2>4. Cardinality(B(m)) = Cardinality(B(m - 1)) + 1
    BY <2>1, <2>3, FS_AddElement
  <2>6. Cardinality(B(m)) = k
    BY <1>1, <1>9, <1>6, <2>4
  <2> QED BY <1>11, <2>6 DEF B
<1> QED BY <1>10, <1>11

\* f lists the positions P in their order.
InOrder(f, P) ==
    /\ f \in [1..Cardinality(P) -> P]
    /\ \A k, l \in 1..Cardinality(P) : k < l => f[k] < f[l]
    /\ \A i \in P : \E k \in 1..Cardinality(P) : f[k] = i
Taken(s, f) == [k \in DOMAIN f |-> s[f[k]]]

\* The elements at a set of positions are taken from these positions, all of
\* them, in their order.
LEMMA PickedOrder ==
    ASSUME NEW S, NEW s \in Seq(S), NEW P, P \subseteq 1..Len(s)
    PROVE  /\ IsFiniteSet(P) /\ Cardinality(P) \in Nat /\ Cardinality(P) <= Len(s)
           /\ \E f : InOrder(f, P) /\ Picked(s, P) = Taken(s, f)
<1> DEFINE Below(i) == {j \in P : j <= i}
           Nth(k) == CHOOSE i \in P : Cardinality(Below(i)) = k
           n == Cardinality(P)
           f == [k \in 1..n |-> Nth(k)]
<1>1. Len(s) \in Nat /\ P \subseteq Nat /\ \A i \in P : i \in Nat
    OBVIOUS
<1>2. IsFiniteSet(1..Len(s)) /\ Cardinality(1..Len(s)) = Len(s)
    BY <1>1, FS_Interval, SMTT(30)
<1>3. IsFiniteSet(P) /\ n \in Nat /\ n <= Len(s)
  <2>1. IsFiniteSet(P) /\ n <= Cardinality(1..Len(s))
    BY <1>2, FS_Subset
  <2> QED BY <2>1, <1>2, FS_CardinalityType
<1>4. \A i \in P : IsFiniteSet(Below(i)) /\ Cardinality(Below(i)) \in 1..n
  <2> TAKE i \in P
  <2>1. Below(i) \subseteq P /\ i \in Below(i)
    BY <1>1
  <2> HIDE DEF Below
  <2>2. IsFiniteSet(Below(i)) /\ Cardinality(Below(i)) <= n
    BY <2>1, <1>3, FS_Subset
  <2>3. Cardinality(Below(i)) \in Nat
    BY <2>2, FS_CardinalityType
  <2>4. Cardinality(Below(i)) # 0
    BY <2>1, <2>2, FS_EmptySet
  <2> QED BY <2>2, <2>3, <2>4, <1>3
<1>5. \A k \in 1..n : Nth(k) \in P /\ Cardinality(Below(Nth(k))) = k
  <2> TAKE k \in 1..n
  <2>1. \E i \in P : Cardinality(Below(i)) = k
    BY <1>1, RankExists, ZenonT(60)
  <2> HIDE DEF Below
  <2> QED BY <2>1
<1>6. \A i, j \in P : i <= j => Cardinality(Below(i)) <= Cardinality(Below(j))
  <2> TAKE i \in P, j \in P
  <2> HAVE i <= j
  <2>0. \A x \in P : x <= i => x <= j
    BY <1>1
  <2>1. Below(i) \subseteq Below(j)
    BY <2>0
  <2> HIDE DEF Below
  <2> QED BY <2>1, <1>4, FS_Subset
<1>7. \A i, j \in P : i < j => Cardinality(Below(i)) < Cardinality(Below(j))
  <2> TAKE i \in P, j \in P
  <2> HAVE i < j
  <2>0. /\ \A x \in P : x <= i => x <= j
        /\ j <= j /\ ~(j <= i)
    BY <1>1
  <2>1. Below(i) \subseteq Below(j) /\ j \in Below(j) /\ j \notin Below(i)
    BY <2>0
  <2> HIDE DEF Below
  <2>2. Cardinality(Below(i)) # Cardinality(Below(j))
    BY <2>1, <1>4, FS_Subset
  <2>3. Cardinality(Below(i)) <= Cardinality(Below(j))
    BY <2>1, <1>4, FS_Subset
  <2> QED BY <2>2, <2>3, <1>4
<1> HIDE DEF Nth, Below
<1>8. f \in [1..n -> P] /\ \A k \in 1..n : Cardinality(Below(f[k])) = k
    BY <1>5
<1> HIDE DEF f
<1>9. \A k, l \in 1..n : k < l => f[k] < f[l]
  <2> TAKE k \in 1..n, l \in 1..n
  <2> HAVE k < l
  <2>1. f[k] \in P /\ f[l] \in P /\ Cardinality(Below(f[k])) = k /\ Cardinality(Below(f[l])) = l
    BY <1>8
  <2>2. f[k] \in Nat /\ f[l] \in Nat
    BY <2>1, <1>1
  <2>3. f[l] <= f[k] => Cardinality(Below(f[l])) <= Cardinality(Below(f[k]))
    BY <2>1, <1>6
  <2> HIDE DEF n
  <2> QED BY <2>1, <2>2, <2>3, <1>3
<1>10. \A i \in P : \E k \in 1..n : f[k] = i
  <2> TAKE i \in P
  <2> DEFINE k == Cardinality(Below(i))
  <2>1. k \in 1..n
    BY <1>4
  <2>2. f[k] \in P /\ Cardinality(Below(f[k])) = k
    BY <2>1, <1>8
  <2>3. f[k] \in Nat /\ i \in Nat /\ k \in Nat
    <3>1. i \in Nat
      BY <1>1
    <3>2. k \in Nat
      BY <1>4
    <3>3. f[k] \in Nat
      BY <2>2, <1>1
    <3> QED BY <3>1, <3>2, <3>3
  <2> DEFINE x == f[k]
  <2> HIDE DEF x
  <2>4. x \in P /\ Cardinality(Below(x)) = k /\ x \in Nat
    BY <2>2, <2>3 DEF x
  <2>5. (x < i => Cardinality(Below(x)) < Cardinality(Below(i)))
        /\ (i < x => Cardinality(Below(i)) < Cardinality(Below(x)))
    BY <2>4, <1>7
  <2>6. x = i
    BY <2>3, <2>4, <2>5
  <2> QED BY <2>1, <2>6 DEF x
<1>11. Picked(s, P) = [k \in 1..n |-> s[f[k]]]
  <2>1. Picked(s, P) = [k \in 1..n |-> s[Nth(k)]]
    BY DEF Picked, Nth, Below
  <2> QED BY <2>1 DEF f
<1>12. InOrder(f, P) /\ Picked(s, P) = Taken(s, f)
    BY <1>8, <1>9, <1>10, <1>11 DEF InOrder, Taken
<1> QED BY <1>3, <1>12

\* A sequence that begins as another does.
SameFirst(p, s) == Len(p) >= 1 /\ p[1] = s[1]

\* A pick that takes the first element has it first.
LEMMA PickedFirst ==
    ASSUME NEW S, NEW s \in Seq(S), NEW P, P \subseteq 1..Len(s), 1 \in P
    PROVE  SameFirst(Picked(s, P), s)
<1> DEFINE n == Cardinality(P)
           p == Picked(s, P)
<1>1. IsFiniteSet(P) /\ n \in Nat /\ n <= Len(s)
    BY PickedOrder
<1>2. PICK f : InOrder(f, P) /\ Picked(s, P) = Taken(s, f)
    BY PickedOrder
<1>3. /\ f \in [1..n -> P]
      /\ \A k, l \in 1..n : k < l => f[k] < f[l]
      /\ \A i \in P : \E k \in 1..n : f[k] = i
      /\ p = [k \in 1..n |-> s[f[k]]]
    BY <1>2 DEF InOrder, Taken
<1> HIDE DEF n, p
<1>4. PICK k \in 1..n : f[k] = 1
    BY <1>3
<1>5. 1 \in 1..n /\ (1 < k => f[1] < f[k]) /\ f[1] \in 1..Len(s)
  <2>1. 1 \in 1..n
    BY <1>1, <1>4
  <2>2. f[1] \in P
    BY <1>3, <2>1
  <2>3. f[1] \in 1..Len(s)
    BY <2>2
  <2> QED BY <1>3, <1>4, <2>1, <2>3
<1>6. f[1] = 1
    BY <1>4, <1>5
<1>7. p[1] = s[1] /\ DOMAIN p = 1..n
    BY <1>3, <1>5, <1>6
<1>8. p = Picked(s, P) /\ Picked(s, P) \in Seq(S)
  <2>1. \A j \in 1..n : s[f[j]] \in S
    <3> TAKE j \in 1..n
    <3>1. f[j] \in 1..Len(s)
      BY <1>3
    <3> QED BY <3>1
  <2> QED BY <1>1, <1>3, <2>1 DEF p
<1> QED BY <1>1, <1>5, <1>7, <1>8 DEF SameFirst

LEMMA PickedElements ==
    ASSUME NEW S, NEW s \in Seq(S), NEW P, P \subseteq 1..Len(s)
    PROVE  /\ Picked(s, P) \in Seq(S)
           /\ Len(Picked(s, P)) = Cardinality(P)
           /\ Len(Picked(s, P)) <= Len(s)
           /\ Elements(Picked(s, P)) = {s[i] : i \in P}
           /\ 1 \in P => Len(Picked(s, P)) >= 1 /\ Picked(s, P)[1] = s[1]
           /\ IsInjective(s) => IsInjective(Picked(s, P))
<1> DEFINE n == Cardinality(P)
           p == Picked(s, P)
<1>1. IsFiniteSet(P) /\ n \in Nat /\ n <= Len(s)
    BY PickedOrder
<1>2. PICK f : InOrder(f, P) /\ Picked(s, P) = Taken(s, f)
    BY PickedOrder
<1>a. /\ f \in [1..n -> P]
      /\ \A k, l \in 1..n : k < l => f[k] < f[l]
      /\ \A i \in P : \E k \in 1..n : f[k] = i
      /\ p = [k \in 1..n |-> s[f[k]]]
    BY <1>2 DEF InOrder, Taken
<1> HIDE DEF n, p
<1>3. \A k \in 1..n : f[k] \in P /\ f[k] \in 1..Len(s) /\ p[k] = s[f[k]] /\ s[f[k]] \in S
  <2> TAKE k \in 1..n
  <2>1. f[k] \in P /\ p[k] = s[f[k]]
    BY <1>a
  <2>2. f[k] \in 1..Len(s)
    BY <2>1
  <2> QED BY <2>1, <2>2
<1>4. p \in Seq(S) /\ Len(p) = n /\ DOMAIN p = 1..n
    BY <1>1, <1>a, <1>3
<1>5. Elements(p) = {s[i] : i \in P}
  <2>1. \A k \in 1..n : p[k] \in {s[i] : i \in P}
    BY <1>3
  <2>2. \A i \in P : \E k \in 1..n : p[k] = s[i]
    BY <1>a, <1>3
  <2> QED BY <2>1, <2>2, <1>4 DEF Elements
<1>6. 1 \in P => SameFirst(p, s)
    BY PickedFirst DEF p
<1>7. ASSUME IsInjective(s)
      PROVE  IsInjective(p)
  <2> SUFFICES ASSUME NEW k \in 1..n, NEW l \in 1..n, p[k] = p[l]
               PROVE  k = l
    BY <1>4 DEF IsInjective
  <2>1. f[k] = f[l]
    BY <1>3, <1>7 DEF IsInjective
  <2>2. f[k] \in Nat /\ f[l] \in Nat /\ k \in Nat /\ l \in Nat
    BY <1>3, <1>1
  <2> QED BY <1>a, <2>1, <2>2
<1> QED BY <1>1, <1>4, <1>5, <1>6, <1>7 DEF n, p, SameFirst

\* A filter leaves the elements that pass, the first one first, none twice that
\* was there once.
LEMMA WithoutElements ==
    ASSUME NEW S, NEW s \in Seq(S), NEW gone
    PROVE  /\ Without(s, gone) \in Seq(S)
           /\ Len(Without(s, gone)) <= Len(s)
           /\ Elements(Without(s, gone)) = Elements(s) \ gone
           /\ (s # <<>> /\ s[1] \notin gone) =>
                 Len(Without(s, gone)) >= 1 /\ Without(s, gone)[1] = s[1]
           /\ IsInjective(s) => IsInjective(Without(s, gone))
<1> DEFINE P == {i \in 1..Len(s) : s[i] \notin gone}
<1>1. Without(s, gone) = Picked(s, P)
    BY DEF Without
<1>2. P \subseteq 1..Len(s)
    OBVIOUS
<1>3. {s[i] : i \in P} = Elements(s) \ gone
    BY DEF Elements
<1>4. s # <<>> /\ s[1] \notin gone => 1 \in P
    BY LenProperties, EmptySeq
<1> HIDE DEF P
<1>5. /\ Picked(s, P) \in Seq(S)
      /\ Len(Picked(s, P)) <= Len(s)
      /\ Elements(Picked(s, P)) = {s[i] : i \in P}
      /\ 1 \in P => Len(Picked(s, P)) >= 1 /\ Picked(s, P)[1] = s[1]
      /\ IsInjective(s) => IsInjective(Picked(s, P))
  <2>1. Picked(s, P) \in Seq(S) /\ Len(Picked(s, P)) <= Len(s)
    BY <1>2, PickedElements, Zenon
  <2>2. Elements(Picked(s, P)) = {s[i] : i \in P}
    BY <1>2, PickedElements, Zenon
  <2>3. 1 \in P => Len(Picked(s, P)) >= 1 /\ Picked(s, P)[1] = s[1]
    <3>1. 1 \in P => SameFirst(Picked(s, P), s)
      BY <1>2, PickedFirst
    <3> QED BY <3>1 DEF SameFirst
  <2>4. IsInjective(s) => IsInjective(Picked(s, P))
    BY <1>2, PickedElements, Zenon
  <2> QED BY <2>1, <2>2, <2>3, <2>4
<1>6. /\ Without(s, gone) \in Seq(S) /\ Len(Without(s, gone)) <= Len(s)
      /\ IsInjective(s) => IsInjective(Without(s, gone))
    BY <1>1, <1>5
<1>7. Elements(Without(s, gone)) = Elements(s) \ gone
    BY <1>1, <1>3, <1>5
<1>8. s # <<>> /\ s[1] \notin gone =>
         Len(Without(s, gone)) >= 1 /\ Without(s, gone)[1] = s[1]
    BY <1>1, <1>4, <1>5
<1> QED BY <1>6, <1>7, <1>8

\* A filter of one of several different elements leaves all the others.
LEMMA WithoutOne ==
    ASSUME NEW S, NEW s \in Seq(S), NEW x, IsInjective(s)
    PROVE  Len(Without(s, {x})) >= Len(s) - 1
<1> DEFINE P == {i \in 1..Len(s) : s[i] \notin {x}}
<1>0. Len(s) \in Nat
    OBVIOUS
<1>2. IsFiniteSet(1..Len(s)) /\ Cardinality(1..Len(s)) = Len(s)
    BY <1>0, FS_Interval
<1>1. Without(s, {x}) = Picked(s, P) /\ P \subseteq 1..Len(s)
    BY DEF Without
<1>5. Len(Without(s, {x})) = Cardinality(P)
  <2> HIDE DEF P
  <2> QED BY <1>1, PickedElements
<1>3. CASE \E i \in 1..Len(s) : s[i] = x
  <2>1. PICK i \in 1..Len(s) : s[i] = x
    BY <1>3
  <2>2. P = (1..Len(s)) \ {i}
    BY <2>1 DEF IsInjective
  <2> HIDE DEF P
  <2>3. Cardinality(P) = Len(s) - 1
    BY <2>1, <2>2, <1>2, FS_RemoveElement
  <2> QED BY <2>3, <1>0, <1>5
<1>4. CASE ~ \E i \in 1..Len(s) : s[i] = x
  <2>1. P = 1..Len(s)
    BY <1>4
  <2> HIDE DEF P
  <2> QED BY <2>1, <1>0, <1>2, <1>5
<1> QED BY <1>3, <1>4

\* What the usual changes of a sequence leave.
LEMMA AppendElements ==
    ASSUME NEW S, NEW s \in Seq(S), NEW x \in S
    PROVE  /\ Append(s, x) \in Seq(S)
           /\ Elements(Append(s, x)) = Elements(s) \cup {x}
<1>1. /\ Append(s, x) \in Seq(S) /\ Len(Append(s, x)) = Len(s) + 1 /\ Len(s) \in Nat
      /\ \A i \in 1..Len(s) : Append(s, x)[i] = s[i]
      /\ Append(s, x)[Len(s) + 1] = x
    BY AppendProperties, LenProperties
<1>2. 1..(Len(s) + 1) = 1..Len(s) \cup {Len(s) + 1}
    BY <1>1
<1>3. {Append(s, x)[i] : i \in 1..(Len(s) + 1)} = {s[i] : i \in 1..Len(s)} \cup {x}
    BY <1>1, <1>2
<1> QED BY <1>1, <1>3 DEF Elements

LEMMA ConcatElements ==
    ASSUME NEW S, NEW s \in Seq(S), NEW t \in Seq(S)
    PROVE  /\ s \o t \in Seq(S)
           /\ Elements(s \o t) = Elements(s) \cup Elements(t)
<1>1. /\ s \o t \in Seq(S) /\ Len(s \o t) = Len(s) + Len(t)
      /\ Len(s) \in Nat /\ Len(t) \in Nat
      /\ \A i \in 1..(Len(s) + Len(t)) : (s \o t)[i] =
            IF i <= Len(s) THEN s[i] ELSE t[i - Len(s)]
    BY ConcatProperties, LenProperties
<1>2. \A i \in 1..Len(s) : i \in 1..(Len(s) + Len(t)) /\ (s \o t)[i] = s[i]
    BY <1>1
<1>3. \A j \in 1..Len(t) : j + Len(s) \in 1..(Len(s) + Len(t)) /\ (s \o t)[j + Len(s)] = t[j]
  <2> TAKE j \in 1..Len(t)
  <2>1. j + Len(s) \in 1..(Len(s) + Len(t)) /\ ~(j + Len(s) <= Len(s)) /\ (j + Len(s)) - Len(s) = j
    BY <1>1
  <2> QED BY <2>1, <1>1
<1>4. \A i \in 1..(Len(s) + Len(t)) :
          (\E j \in 1..Len(s) : (s \o t)[i] = s[j]) \/ (\E j \in 1..Len(t) : (s \o t)[i] = t[j])
  <2> TAKE i \in 1..(Len(s) + Len(t))
  <2>1. CASE i <= Len(s)
    BY <2>1, <1>1
  <2>2. CASE ~(i <= Len(s))
    <3>1. i - Len(s) \in 1..Len(t)
      BY <2>2, <1>1
    <3> QED BY <3>1, <2>2, <1>1
  <2> QED BY <2>1, <2>2
<1>5. Elements(s \o t) \subseteq Elements(s) \cup Elements(t)
    BY <1>1, <1>4 DEF Elements
<1>6. Elements(s) \cup Elements(t) \subseteq Elements(s \o t)
  <2>1. \A i \in 1..Len(s) : s[i] \in Elements(s \o t)
    <3> TAKE i \in 1..Len(s)
    <3>1. i \in 1..Len(s \o t) /\ (s \o t)[i] = s[i]
      BY <1>1, <1>2
    <3> QED BY <3>1 DEF Elements
  <2>2. \A j \in 1..Len(t) : t[j] \in Elements(s \o t)
    <3> TAKE j \in 1..Len(t)
    <3>1. j + Len(s) \in 1..Len(s \o t) /\ (s \o t)[j + Len(s)] = t[j]
      BY <1>1, <1>3
    <3> QED BY <3>1 DEF Elements
  <2> QED BY <2>1, <2>2 DEF Elements
<1> QED BY <1>1, <1>5, <1>6

LEMMA SubSeqElements ==
    ASSUME NEW S, NEW s \in Seq(S), NEW m \in 1..(Len(s) + 1), NEW n \in (m - 1)..Len(s)
    PROVE  /\ SubSeq(s, m, n) \in Seq(S)
           /\ Len(SubSeq(s, m, n)) = n - m + 1
           /\ \A i \in 1..(n - m + 1) : SubSeq(s, m, n)[i] = s[m + i - 1]
           /\ Elements(SubSeq(s, m, n)) = {s[i] : i \in m..n}
<1>0. Len(s) \in Nat /\ m \in Int /\ n \in Int
    BY LenProperties
<1>1. /\ SubSeq(s, m, n) \in Seq(S) /\ Len(SubSeq(s, m, n)) = n - m + 1
      /\ \A i \in 1..(n - m + 1) : SubSeq(s, m, n)[i] = s[m + i - 1]
    BY SubSeqProperties
<1>2. \A i \in 1..(n - m + 1) : m + i - 1 \in m..n
    BY <1>0
<1>3. \A i \in m..n : i - m + 1 \in 1..(n - m + 1) /\ m + (i - m + 1) - 1 = i
    BY <1>0
<1>4. \A i \in m..n : SubSeq(s, m, n)[i - m + 1] = s[i]
    BY <1>1, <1>3
<1>5. Elements(SubSeq(s, m, n)) = {s[i] : i \in m..n}
  <2>1. Elements(SubSeq(s, m, n)) \subseteq {s[i] : i \in m..n}
    BY <1>1, <1>2 DEF Elements
  <2>2. {s[i] : i \in m..n} \subseteq Elements(SubSeq(s, m, n))
    <3> SUFFICES ASSUME NEW i \in m..n
                 PROVE  s[i] \in Elements(SubSeq(s, m, n))
      OBVIOUS
    <3>1. i - m + 1 \in 1..Len(SubSeq(s, m, n)) /\ SubSeq(s, m, n)[i - m + 1] = s[i]
      BY <1>1, <1>3, <1>4
    <3> QED BY <3>1 DEF Elements
  <2> QED BY <2>1, <2>2
<1> QED BY <1>1, <1>5

=============================================================================
