---------------------------- MODULE Lists_proofs ----------------------------
(***************************************************************************)
(* What the operators on lists do: Picked of Lists, and Min, Max, ToSet,   *)
(* Tail, Append, \o of the modules the model is written with.              *)
(*                                                                         *)
(* An operator that goes through a list is a recursive function on the     *)
(* numbers up to its length.  That such a function exists (Iterates), and  *)
(* that what holds at 0 and is handed on holds up to N (Induction), follow *)
(* from the least number of a set of numbers (LeastNat).                   *)
(***************************************************************************)
EXTENDS Lists, SequencesExt, FiniteSetTheorems, SequenceTheorems, WellFoundedInduction, TLAPS

-----------------------------------------------------------------------------
(* Recursion and induction over the elements of a list *)

(* A set of natural numbers that is not empty has a least element. *)
LEMMA LeastNat ==
  ASSUME NEW T, T \subseteq Nat, T # {}
  PROVE  \E x \in T : \A y \in T : x <= y
<1> DEFINE R == OpToRel(<, Nat)
<1>1. IsWellFoundedOn(R, Nat)
  BY NatLessThanWellFounded
<1>2. R = {s \in Nat \X Nat : s[1] < s[2]}
  BY DEF OpToRel
<1> HIDE DEF R
<1>3. PICK x \in T : \A y \in T : <<y, x>> \notin R
  BY <1>1, WFMin
<1>4. ASSUME NEW y \in T, y < x PROVE FALSE
  <2>1. <<y, x>> \in Nat \X Nat /\ <<y, x>>[1] < <<y, x>>[2]
    BY <1>4
  <2>2. <<y, x>> \in R
    BY <1>2, <2>1, Zenon
  <2> QED BY <1>3, <2>2
<1> QED BY <1>4

(* f is what the step D makes of b, from 0 to N. *)
Iterated(f, b, D, N) == f[0] = b /\ \A n \in 1..N : f[n] = D[<<f[n - 1], n>>]

(* There is such a function: of the graphs of its beginnings, the least
   number without one would have one. *)
LEMMA Iterates ==
  ASSUME NEW S, NEW b \in S, NEW N \in Nat, NEW D \in [S \X (1..N) -> S]
  PROVE  \E f \in [0..N -> S] : Iterated(f, b, D, N)
<1> DEFINE Good(f, m) == Iterated(f, b, D, m)
           T == {m \in 0..N : \A f \in [0..m -> S] : ~Good(f, m)}
<1>1. SUFFICES ASSUME T # {} PROVE FALSE
  <2>1. N \notin T
    BY <1>1
  <2>2. \E f \in [0..N -> S] : Good(f, N)
    BY <2>1
  <2> QED BY <2>2
<1>2. PICK m \in T : \A k \in T : m <= k
  <2> HIDE DEF T
  <2>1. T \subseteq Nat
    BY DEF T
  <2> QED BY <1>1, <2>1, LeastNat
<1>3. CASE m = 0
  <2> DEFINE f == [n \in 0..0 |-> b]
  <2>1. Good(f, 0) /\ f \in [0..0 -> S]
    BY DEF Iterated
  <2> QED BY <1>2, <1>3, <2>1
<1>4. CASE m # 0
  <2>1. m - 1 \in 0..N /\ m - 1 \notin T
    BY <1>2, <1>4
  <2>2. PICK f \in [0..(m - 1) -> S] : Good(f, m - 1)
    BY <2>1
  <2> DEFINE g == [n \in 0..m |-> IF n = m THEN D[<<f[m - 1], m>>] ELSE f[n]]
  <2>3. m \in 1..N /\ f[m - 1] \in S
    BY <1>2, <1>4, <2>2
  <2>x. f[0] = b /\ \A n \in 1..(m - 1) : f[n] = D[<<f[n - 1], n>>]
    BY <2>2 DEF Iterated
  <2>4. D[<<f[m - 1], m>>] \in S
    BY <2>3
  <2>5. g \in [0..m -> S] /\ g[0] = b
    BY <1>4, <2>2, <2>x, <2>3, <2>4
  <2>6. ASSUME NEW n \in 1..m PROVE g[n] = D[<<g[n - 1], n>>]
    <3>1. n \in 0..m /\ n - 1 \in 0..m /\ n - 1 # m /\ g[n - 1] = f[n - 1]
      BY <2>3, <2>6
    <3>2. CASE n = m
      BY <3>1, <3>2
    <3>3. CASE n # m
      <4>1. n \in 1..(m - 1) /\ g[n] = f[n]
        BY <2>3, <2>6, <3>3
      <4> QED BY <2>x, <3>1, <4>1
    <3> QED BY <3>2, <3>3
  <2>7. Good(g, m)
    BY <2>5, <2>6 DEF Iterated
  <2> QED BY <1>2, <2>5, <2>7
<1> QED BY <1>3, <1>4

(* f are the beginnings of Picked(s, K). *)
PicksUp(f, s, K) ==
  /\ f[0] = <<>> /\ Picked(s, K) = f[Len(s)]
  /\ \A n \in 1..Len(s) : f[n] = IF n \in K THEN Append(f[n - 1], s[n]) ELSE f[n - 1]

(* Picked is what its recursive definition says. *)
LEMMA PickedIs ==
  ASSUME NEW E, NEW s \in Seq(E), NEW K
  PROVE  \E f \in [0..Len(s) -> Seq(E)] : PicksUp(f, s, K)
<1> DEFINE Step(t, n) == IF n \in K THEN Append(t, s[n]) ELSE t
           D == [p \in Seq(E) \X (1..Len(s)) |-> Step(p[1], p[2])]
           Def(g) == [n \in 0..Len(s) |-> IF n = 0 THEN <<>> ELSE IF n \in K THEN Append(g[n - 1], s[n]) ELSE g[n - 1]]
           h == CHOOSE g : g = Def(g)
<1>1. Len(s) \in Nat /\ <<>> \in Seq(E)
  OBVIOUS
<1>d. D \in [Seq(E) \X (1..Len(s)) -> Seq(E)]
  <2>1. ASSUME NEW p \in Seq(E) \X (1..Len(s)) PROVE Step(p[1], p[2]) \in Seq(E)
    BY <2>1
  <2> QED BY <2>1
<1>e. ASSUME NEW t \in Seq(E), NEW n \in 1..Len(s) PROVE D[<<t, n>>] = Step(t, n)
  BY <1>e
<1>2. PICK f \in [0..Len(s) -> Seq(E)] : Iterated(f, <<>>, D, Len(s))
  <2> HIDE DEF D
  <2> QED BY <1>1, <1>d, Iterates
<1> HIDE DEF D
<1>3. ASSUME NEW n \in 1..Len(s) PROVE f[n] = Step(f[n - 1], n)
  <2>1. f[n - 1] \in Seq(E) /\ f[n] = D[<<f[n - 1], n>>]
    BY <1>2, <1>3 DEF Iterated
  <2> QED BY <1>e, <2>1
<1>4. f = Def(f)
  <2>1. ASSUME NEW n \in 0..Len(s)
        PROVE  f[n] = IF n = 0 THEN <<>> ELSE IF n \in K THEN Append(f[n - 1], s[n]) ELSE f[n - 1]
    <3>1. CASE n = 0
      BY <1>2, <3>1 DEF Iterated
    <3>2. CASE n # 0
      <4>1. n \in 1..Len(s)
        BY <1>1, <3>2
      <4> QED BY <1>3, <3>2, <4>1, Zenon
    <3> QED BY <3>1, <3>2
  <2>2. f = [n \in 0..Len(s) |-> f[n]]
    BY <1>2
  <2> QED BY <2>1, <2>2
<1>5. h = Def(h)
  BY <1>4
<1>6. Picked(s, K) = h[Len(s)]
  BY DEF Picked
<1> HIDE DEF h
<1>7. h[0] = <<>> /\ \A n \in 1..Len(s) : h[n] = Step(h[n - 1], n)
  <2>1. \A n \in 0..Len(s) : h[n] = IF n = 0 THEN <<>> ELSE IF n \in K THEN Append(h[n - 1], s[n]) ELSE h[n - 1]
    BY <1>5
  <2> QED BY <1>1, <2>1
<1>8. h \in [0..Len(s) -> Seq(E)]
  <2> DEFINE T == {n \in 0..Len(s) : h[n] \notin Seq(E)}
  <2>1. T = {}
    <3>1. SUFFICES ASSUME T # {} PROVE FALSE
      OBVIOUS
    <3>2. PICK n \in T : \A k \in T : n <= k
      <4>1. T \subseteq Nat
        OBVIOUS
      <4> HIDE DEF T
      <4> QED BY <3>1, <4>1, LeastNat
    <3>3. n # 0 /\ n - 1 \in 0..Len(s) /\ n - 1 \notin T
      <4>1. n # 0
        BY <1>1, <1>7, <3>2, Zenon
      <4> QED BY <1>1, <3>2, <4>1
    <3>4. h[n - 1] \in Seq(E) /\ n \in 1..Len(s)
      BY <3>2, <3>3
    <3>5. h[n] = Step(h[n - 1], n) /\ s[n] \in E
      BY <1>7, <3>4
    <3>6. Step(h[n - 1], n) \in Seq(E)
      BY <3>4, <3>5
    <3> QED BY <3>2, <3>5, <3>6, Zenon
  <2>2. DOMAIN h = 0..Len(s) /\ h = [n \in 0..Len(s) |-> h[n]]
    BY <1>5
  <2> QED BY <2>1, <2>2
<1> QED BY <1>6, <1>7, <1>8 DEF PicksUp

(* What holds at 0 and is handed on by each number holds of all of them up to
   N. *)
LEMMA Induction ==
  ASSUME NEW N \in Nat, NEW T, 0 \in T, \A n \in 1..N : n - 1 \in T => n \in T
  PROVE  0..N \subseteq T
<1> DEFINE U == {n \in 0..N : n \notin T}
<1>1. SUFFICES ASSUME U # {} PROVE FALSE
  OBVIOUS
<1>2. PICK n \in U : \A k \in U : n <= k
  <2>1. U \subseteq Nat
    OBVIOUS
  <2> HIDE DEF U
  <2> QED BY <1>1, <2>1, LeastNat
<1>3. n \in 1..N /\ n - 1 \notin U /\ n - 1 \in 0..N
  BY <1>2
<1> QED BY <1>2, <1>3

(* How many of the numbers K are not beyond i: the place of i, if it is one
   of them. *)
Place(K, i) == Cardinality(K \cap 1..i)

(* A place is a number, and not beyond i. *)
LEMMA PlaceOf ==
  ASSUME NEW K, NEW i \in Nat
  PROVE  Place(K, i) \in 0..i /\ IsFiniteSet(K \cap 1..i)
<1>1. IsFiniteSet(1..i) /\ Cardinality(1..i) = i
  BY FS_Interval
<1>2. K \cap 1..i \subseteq 1..i
  OBVIOUS
<1>3. IsFiniteSet(K \cap 1..i) /\ Cardinality(K \cap 1..i) <= Cardinality(1..i) /\ Cardinality(K \cap 1..i) \in Nat
  BY <1>1, <1>2, FS_Subset, FS_CardinalityType
<1> QED BY <1>1, <1>3 DEF Place

(* The same, without the interval. *)
LEMMA PlaceNat ==
  ASSUME NEW K, NEW i \in Nat
  PROVE  Place(K, i) \in Nat /\ Place(K, i) <= i
<1>1. Place(K, i) \in 0..i
  BY PlaceOf
<1> QED BY <1>1

(* From i - 1 to i there is one place more just when i is one of K. *)
LEMMA PlaceStep ==
  ASSUME NEW K, NEW i \in Nat \ {0}
  PROVE  Place(K, i) = IF i \in K THEN Place(K, i - 1) + 1 ELSE Place(K, i - 1)
<1>1. i - 1 \in Nat /\ i \notin K \cap 1..(i - 1)
  OBVIOUS
<1>2. IsFiniteSet(K \cap 1..(i - 1))
  BY <1>1, PlaceOf
<1>3. CASE i \in K
  <2>1. K \cap 1..i = (K \cap 1..(i - 1)) \cup {i}
    BY <1>3
  <2>2. Cardinality((K \cap 1..(i - 1)) \cup {i}) = Cardinality(K \cap 1..(i - 1)) + 1
    BY <1>1, <1>2, FS_AddElement
  <2> QED BY <1>3, <2>1, <2>2 DEF Place
<1>4. CASE i \notin K
  <2>1. K \cap 1..i = K \cap 1..(i - 1)
    BY <1>4
  <2> QED BY <1>4, <2>1 DEF Place
<1> QED BY <1>3, <1>4

(* Later elements have later places. *)
LEMMA PlaceGrows ==
  ASSUME NEW K, NEW i \in Nat, NEW j \in Nat, i <= j
  PROVE  /\ Place(K, i) <= Place(K, j)
         /\ i < j /\ j \in K => Place(K, i) < Place(K, j)
         /\ Place(K, 0) = 0
<1>1. \A a, b \in Nat : a <= b => Place(K, a) <= Place(K, b)
  <2> SUFFICES ASSUME NEW a \in Nat, NEW b \in Nat, a <= b PROVE Place(K, a) <= Place(K, b)
    OBVIOUS
  <2>1. K \cap 1..a \subseteq K \cap 1..b
    OBVIOUS
  <2> QED BY <2>1, PlaceOf, FS_Subset DEF Place
<1>2. Place(K, i) \in Nat /\ Place(K, j) \in Nat
  BY PlaceNat
<1>3. ASSUME i < j, j \in K PROVE Place(K, i) < Place(K, j)
  <2>1. j - 1 \in Nat /\ i <= j - 1 /\ j \in Nat \ {0}
    BY <1>3
  <2>2. Place(K, i) <= Place(K, j - 1) /\ Place(K, j) = Place(K, j - 1) + 1 /\ Place(K, j - 1) \in Nat
    BY <1>1, <1>3, <2>1, PlaceStep, PlaceNat
  <2> QED BY <1>2, <2>2
<1>4. Place(K, 0) = 0
  <2>1. Place(K, 0) \in 0..0
    BY PlaceOf
  <2> QED BY <2>1
<1> QED BY <1>1, <1>3, <1>4

(* Picked(s, K) has at the place of i the element s[i], and nothing else. *)
LEMMA PickedPlaces ==
  ASSUME NEW E, NEW s \in Seq(E), NEW K
  PROVE  /\ Picked(s, K) \in Seq(E)
         /\ Len(Picked(s, K)) = Place(K, Len(s))
         /\ \A i \in K \cap 1..Len(s) : Place(K, i) \in 1..Len(Picked(s, K)) /\ Picked(s, K)[Place(K, i)] = s[i]
         /\ \A j \in 1..Len(Picked(s, K)) : \E i \in K \cap 1..Len(s) : j = Place(K, i)
<1>0. PICK f \in [0..Len(s) -> Seq(E)] : PicksUp(f, s, K)
  BY PickedIs
<1>1. /\ f[0] = <<>> /\ Picked(s, K) = f[Len(s)]
      /\ \A n \in 1..Len(s) : f[n] = IF n \in K THEN Append(f[n - 1], s[n]) ELSE f[n - 1]
  BY <1>0 DEF PicksUp
<1> DEFINE Long(n) == Len(f[n]) = Place(K, n)
           Keeps(n) == \A i \in K \cap 1..n : Place(K, i) \in 1..Len(f[n]) /\ f[n][Place(K, i)] = s[i]
           Only(n) == \A j \in 1..Len(f[n]) : \E i \in K \cap 1..n : j = Place(K, i)
           T == {n \in 0..Len(s) : Long(n) /\ Keeps(n) /\ Only(n)}
<1>2. Len(s) \in Nat
  OBVIOUS
<1>3. 0 \in T
  <2>1. Long(0)
    BY <1>1, PlaceGrows
  <2>2. Keeps(0) /\ Only(0)
    BY <1>1
  <2> QED BY <1>2, <2>1, <2>2
<1>4. ASSUME NEW n \in 1..Len(s), n - 1 \in T PROVE n \in T
  <2>1. n \in Nat \ {0} /\ n - 1 \in 0..Len(s) /\ n \in 0..Len(s) /\ s[n] \in E /\ Long(n - 1) /\ Keeps(n - 1) /\ Only(n - 1)
    BY <1>4
  <2>2. f[n - 1] \in Seq(E) /\ Len(f[n - 1]) \in Nat
    <3>1. f[n - 1] \in Seq(E)
      BY <2>1
    <3> QED BY <3>1
  <2>3. CASE n \in K
    <3>1. f[n] = Append(f[n - 1], s[n])
      BY <1>1, <2>3
    <3>2. Place(K, n) = Place(K, n - 1) + 1
      BY <2>1, <2>3, PlaceStep
    <3>3. Len(f[n]) = Len(f[n - 1]) + 1 /\ f[n] \in Seq(E)
      BY <2>1, <2>2, <3>1, AppendProperties
    <3>4. Long(n)
      BY <2>1, <3>2, <3>3
    <3>5. ASSUME NEW i \in K \cap 1..n PROVE Place(K, i) \in 1..Len(f[n]) /\ f[n][Place(K, i)] = s[i]
      <4>1. CASE i = n
        BY <2>1, <2>2, <3>1, <3>2, <3>3, <4>1
      <4>2. CASE i # n
        <5>1. i \in K \cap 1..(n - 1)
          BY <2>1, <3>5, <4>2
        <5>2. Place(K, i) \in 1..Len(f[n - 1]) /\ f[n - 1][Place(K, i)] = s[i]
          BY <2>1, <5>1
        <5> QED BY <2>1, <2>2, <3>1, <3>3, <5>2
      <4> QED BY <4>1, <4>2
    <3>6. ASSUME NEW j \in 1..Len(f[n]) PROVE \E i \in K \cap 1..n : j = Place(K, i)
      <4>1. CASE j = Len(f[n])
        BY <2>1, <2>3, <3>4, <4>1
      <4>2. CASE j # Len(f[n])
        <5>1. j \in 1..Len(f[n - 1])
          BY <2>2, <3>3, <3>6, <4>2
        <5>2. PICK i \in K \cap 1..(n - 1) : j = Place(K, i)
          BY <2>1, <5>1
        <5>3. i \in K \cap 1..n
          BY <2>1
        <5> QED BY <5>2, <5>3
      <4> QED BY <4>1, <4>2
    <3> QED BY <2>1, <3>4, <3>5, <3>6
  <2>4. CASE n \notin K
    <3>1. f[n] = f[n - 1] /\ K \cap 1..n = K \cap 1..(n - 1) /\ Place(K, n) = Place(K, n - 1)
      BY <1>1, <2>1, <2>4, PlaceStep
    <3> QED BY <2>1, <3>1
  <2> QED BY <2>3, <2>4
<1> HIDE DEF T
<1>5. 0..Len(s) \subseteq T
  BY <1>2, <1>3, <1>4, Induction
<1>6. Len(s) \in T
  BY <1>2, <1>5
<1> QED BY <1>1, <1>2, <1>6 DEF T

(* The elements of p are the elements of s at the places K, in the same
   order. *)
Drawn(p, s, K) ==
  /\ \A j \in 1..Len(p) : \E i \in K \cap 1..Len(s) : p[j] = s[i]
  /\ \A i \in K \cap 1..Len(s) : \E j \in 1..Len(p) : p[j] = s[i]
  /\ \A j, k \in 1..Len(p) : j < k => \E a, b \in K \cap 1..Len(s) : a < b /\ p[j] = s[a] /\ p[k] = s[b]

(* Picking keeps what elements were picked, and their order. *)
LEMMA PickedKeeps ==
  ASSUME NEW E, NEW s \in Seq(E), NEW K
  PROVE  /\ Picked(s, K) \in Seq(E)
         /\ Len(Picked(s, K)) <= Len(s)
         /\ Drawn(Picked(s, K), s, K)
<1> DEFINE p == Picked(s, K)
<1>1. /\ p \in Seq(E)
      /\ Len(p) = Place(K, Len(s))
      /\ \A i \in K \cap 1..Len(s) : Place(K, i) \in 1..Len(p) /\ p[Place(K, i)] = s[i]
      /\ \A j \in 1..Len(p) : \E i \in K \cap 1..Len(s) : j = Place(K, i)
  BY PickedPlaces
<1> HIDE DEF p
<1>2. Len(s) \in Nat
  OBVIOUS
<1>3. Len(p) <= Len(s)
  BY <1>1, <1>2, PlaceNat
<1>4. ASSUME NEW j \in 1..Len(p), NEW k \in 1..Len(p), j < k
      PROVE  \E a, b \in K \cap 1..Len(s) : a < b /\ p[j] = s[a] /\ p[k] = s[b]
  <2>1. PICK a \in K \cap 1..Len(s) : j = Place(K, a)
    BY <1>1
  <2>2. PICK b \in K \cap 1..Len(s) : k = Place(K, b)
    BY <1>1
  <2>3. a \in Nat /\ b \in Nat
    OBVIOUS
  <2>4. ~(b <= a)
    <3>1. ASSUME b <= a PROVE FALSE
      <4>1. Place(K, b) <= Place(K, a)
        BY <2>3, <3>1, PlaceGrows
      <4> QED BY <1>4, <2>1, <2>2, <4>1
    <3> QED BY <3>1
  <2>5. a < b
    BY <2>3, <2>4
  <2>6. p[j] = s[a] /\ p[k] = s[b]
    BY <1>1, <2>1, <2>2
  <2> QED BY <2>5, <2>6
<1>5. \A j \in 1..Len(p) : \E i \in K \cap 1..Len(s) : p[j] = s[i]
  BY <1>1
<1>6. \A i \in K \cap 1..Len(s) : \E j \in 1..Len(p) : p[j] = s[i]
  BY <1>1
<1>7. Drawn(p, s, K)
  BY <1>4, <1>5, <1>6 DEF Drawn
<1> QED BY <1>1, <1>3, <1>7 DEF p

(* t is s with e put in as element `at`. *)
PutIn(t, s, e, at) ==
  /\ at \in 1..(Len(s) + 1) /\ Len(t) = Len(s) + 1
  /\ \A i \in 1..Len(t) : t[i] = IF i < at THEN s[i] ELSE IF i = at THEN e ELSE s[i - 1]

(* InsertAt, by its definition, puts one element in. *)
LEMMA InsertedAt ==
  ASSUME NEW E, NEW s \in Seq(E), NEW at \in 1..(Len(s) + 1), NEW e \in E
  PROVE  /\ SubSeq(s, 1, at - 1) \o <<e>> \o SubSeq(s, at, Len(s)) \in Seq(E)
         /\ PutIn(SubSeq(s, 1, at - 1) \o <<e>> \o SubSeq(s, at, Len(s)), s, e, at)
<1> DEFINE a == SubSeq(s, 1, at - 1)
           b == SubSeq(s, at, Len(s))
<1>1. Len(s) \in Nat /\ at \in Nat
  OBVIOUS
<1>2. a \in Seq(E) /\ Len(a) = at - 1 /\ \A i \in 1..(at - 1) : a[i] = s[i]
  OBVIOUS
<1>3. b \in Seq(E) /\ Len(b) = Len(s) - at + 1 /\ \A i \in 1..(Len(s) - at + 1) : b[i] = s[at + i - 1]
  OBVIOUS
<1> HIDE DEF a, b
<1>4. a \o <<e>> \in Seq(E) /\ Len(a \o <<e>>) = at /\ (a \o <<e>>)[at] = e /\ \A i \in 1..(at - 1) : (a \o <<e>>)[i] = s[i]
  BY <1>1, <1>2
<1> DEFINE c == a \o <<e>>
           t == c \o b
<1>5. c \in Seq(E) /\ Len(c) = at /\ c[at] = e /\ \A i \in 1..(at - 1) : c[i] = s[i]
  BY <1>4
<1> HIDE DEF c
<1>6. t \in Seq(E) /\ Len(t) = Len(s) + 1
  BY <1>1, <1>3, <1>5
<1>7. ASSUME NEW i \in 1..Len(t) PROVE t[i] = IF i < at THEN s[i] ELSE IF i = at THEN e ELSE s[i - 1]
  <2>1. CASE i <= at
    <3>1. t[i] = c[i]
      BY <1>1, <1>3, <1>5, <1>6, <1>7, <2>1
    <3>2. i < at => i \in 1..(at - 1)
      BY <1>1
    <3> QED BY <1>1, <1>5, <2>1, <3>1, <3>2
  <2>2. CASE ~(i <= at)
    <3>1. t[i] = b[i - at] /\ i - at \in 1..(Len(s) - at + 1)
      BY <1>1, <1>3, <1>5, <1>6, <1>7, <2>2
    <3>2. b[i - at] = s[at + (i - at) - 1] /\ at + (i - at) - 1 = i - 1
      BY <1>1, <1>3, <3>1
    <3> QED BY <1>1, <2>2, <3>1, <3>2
  <2> QED BY <2>1, <2>2
<1>8. PutIn(t, s, e, at)
  BY <1>6, <1>7 DEF PutIn
<1> QED BY <1>6, <1>8 DEF a, b, c

-----------------------------------------------------------------------------
(* The operators of the library modules                                   *)

(* Max and Min of two numbers. *)
LEMMA OfTwo ==
  ASSUME NEW a \in Int, NEW b \in Int
  PROVE  /\ Max({a, b}) = IF a >= b THEN a ELSE b
         /\ Min({a, b}) = IF a <= b THEN a ELSE b
<1>1. \A x \in {a, b} : (\A y \in {a, b} : x >= y) => x = IF a >= b THEN a ELSE b
  OBVIOUS
<1>2. \E x \in {a, b} : \A y \in {a, b} : x >= y
  OBVIOUS
<1>3. \A x \in {a, b} : (\A y \in {a, b} : x =< y) => x = IF a <= b THEN a ELSE b
  OBVIOUS
<1>4. \E x \in {a, b} : \A y \in {a, b} : x =< y
  OBVIOUS
<1> QED BY <1>1, <1>2, <1>3, <1>4 DEF Max, Min

IsMin(x, S) == x \in S /\ \A y \in S : x <= y

(* Min of a set of numbers is one of them, and the least. *)
LEMMA MinIs ==
  ASSUME NEW S, S \subseteq Nat, S # {}
  PROVE  IsMin(Min(S), S)
<1>1. \E x \in S : \A y \in S : x =< y
  BY LeastNat
<1> QED BY <1>1 DEF Min, IsMin

(* The elements of a list. *)
LEMMA ToSetIs ==
  ASSUME NEW E, NEW s \in Seq(E)
  PROVE  /\ Len(s) \in Nat /\ DOMAIN s = 1..Len(s) /\ ToSet(s) = {s[i] : i \in 1..Len(s)} /\ ToSet(s) \subseteq E
         /\ \A i \in 1..Len(s) : s[i] \in ToSet(s) /\ s[i] \in E
BY DEF ToSet

(* Taking the first element off a list. *)
LEMMA TailIs ==
  ASSUME NEW E, NEW s \in Seq(E), s # <<>>
  PROVE  /\ Len(s) \in Nat \ {0} /\ Len(Tail(s)) = Len(s) - 1 /\ Head(s) = s[1] /\ Head(s) \in ToSet(s)
         /\ \A i \in 1..Len(s) - 1 : Tail(s)[i] = s[i + 1] /\ i + 1 \in 1..Len(s)
         /\ ToSet(Tail(s)) \subseteq ToSet(s)
<1>1. Len(s) \in Nat \ {0} /\ Len(Tail(s)) = Len(s) - 1 /\ Head(s) = s[1] /\ Tail(s) \in Seq(E)
  OBVIOUS
<1>2. \A i \in 1..Len(s) - 1 : Tail(s)[i] = s[i + 1] /\ i + 1 \in 1..Len(s)
  OBVIOUS
<1>3. 1 \in 1..Len(s)
  BY <1>1
<1>4. ToSet(Tail(s)) = {Tail(s)[i] : i \in 1..Len(Tail(s))} /\ \A i \in 1..Len(s) : s[i] \in ToSet(s)
  BY <1>1, ToSetIs
<1> QED BY <1>1, <1>2, <1>3, <1>4

(* Adding an element to a list. *)
LEMMA AppendIs ==
  ASSUME NEW E, NEW s \in Seq(E), NEW x \in E
  PROVE  /\ Append(s, x) \in Seq(E) /\ Len(Append(s, x)) = Len(s) + 1 /\ Len(s) \in Nat
         /\ \A i \in 1..Len(s) : Append(s, x)[i] = s[i]
         /\ Append(s, x)[Len(s) + 1] = x
         /\ ToSet(Append(s, x)) = ToSet(s) \cup {x}
<1> DEFINE t == Append(s, x)
<1>1. t \in Seq(E) /\ Len(t) = Len(s) + 1 /\ Len(s) \in Nat /\ \A i \in 1..Len(s) : t[i] = s[i]
  OBVIOUS
<1>2. t[Len(s) + 1] = x
  OBVIOUS
<1> HIDE DEF t
<1>3. ToSet(t) = {t[i] : i \in 1..Len(s) + 1} /\ ToSet(s) = {s[i] : i \in 1..Len(s)}
  BY <1>1, ToSetIs
<1>4. 1..Len(s) + 1 = 1..Len(s) \cup {Len(s) + 1}
  BY <1>1
<1>5. ToSet(t) = ToSet(s) \cup {x}
  BY <1>1, <1>2, <1>3, <1>4
<1> QED BY <1>1, <1>2, <1>5 DEF t

(* x is an element of s, or of t. *)
IsFrom(x, s, t) == x \in ToSet(s) \/ \E k \in 1..Len(t) : x = t[k]

(* Each element of two lists put end to end is an element of one of them. *)
LEMMA EitherPart ==
  ASSUME NEW S, NEW s \in Seq(S), NEW t \in Seq(S), NEW i \in 1..Len(s \o t)
  PROVE  IsFrom((s \o t)[i], s, t)
<1> DEFINE p == s \o t
<1>0. SUFFICES IsFrom(p[i], s, t)
  OBVIOUS
<1>1. Len(p) = Len(s) + Len(t) /\ Len(s) \in Nat /\ Len(t) \in Nat
  BY ConcatProperties
<1>2. p[i] = IF i <= Len(s) THEN s[i] ELSE t[i - Len(s)]
  BY <1>1, ConcatProperties
<1>3. CASE i <= Len(s)
  <2>1. i \in 1..Len(s)
    BY <1>1, <1>3
  <2> QED BY <1>2, <1>3, <2>1, ToSetIs DEF IsFrom
<1>4. CASE ~(i <= Len(s))
  <2>1. i - Len(s) \in 1..Len(t)
    BY <1>1, <1>4
  <2> QED BY <1>2, <1>4, <2>1 DEF IsFrom
<1> QED BY <1>3, <1>4

=============================================================================
