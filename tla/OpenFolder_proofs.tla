------------------------- MODULE OpenFolder_proofs -------------------------
(***************************************************************************)
(* The open folder (OpenFolder): its lists stay newest first, the rows     *)
(* selected are the messages the user selected, every move is accounted    *)
(* for, an answer takes nothing off the list that is in the mailbox, and a *)
(* folder that says it is complete is complete.                            *)
(*                                                                         *)
(* Inv is about the lists and the moves; UpToDate says what the replies on *)
(* their way know of the mailbox; Own what the requests on their way were  *)
(* made for; Whole which part of the mailbox the pages so far have         *)
(* brought.  Each is inductive together with those before it.              *)
(***************************************************************************)
EXTENDS OpenFolder, Lists_proofs

-----------------------------------------------------------------------------
(* What the operators on lists of uids do *)

(* RowOf finds the row of a message, or there is none. *)
LEMMA RowOfIs ==
  ASSUME NEW E, NEW s \in Seq(E), NEW u
  PROVE  /\ RowOf(s, u) \in 0..Len(s)
         /\ RowOf(s, u) # 0 => s[RowOf(s, u)] = u
         /\ RowOf(s, u) = 0 => \A i \in 1..Len(s) : s[i] # u
<1> DEFINE I == {i \in 1..Len(s) : s[i] = u}
<1>1. RowOf(s, u) = IF I # {} THEN Min(I) ELSE 0
  BY DEF RowOf, SelectInSeq
<1>2. Len(s) \in Nat /\ I \subseteq Nat
  OBVIOUS
<1>3. CASE I = {}
  BY <1>1, <1>2, <1>3
<1>4. CASE I # {}
  <2>1. Min(I) \in I
    <3> HIDE DEF I
    <3> QED BY <1>2, <1>4, MinIs DEF IsMin
  <2> QED BY <1>1, <1>2, <1>4, <2>1
<1> QED BY <1>3, <1>4

(* FirstOlder finds the first row with an older message, or there is none. *)
LEMMA FirstOlderIs ==
  ASSUME NEW s \in Seq(Nat), NEW u \in Nat
  PROVE  /\ FirstOlder(s, u) \in 0..Len(s)
         /\ FirstOlder(s, u) # 0 => s[FirstOlder(s, u)] < u /\ \A i \in 1..(FirstOlder(s, u) - 1) : ~(s[i] < u)
         /\ FirstOlder(s, u) = 0 => \A i \in 1..Len(s) : ~(s[i] < u)
<1> DEFINE I == {i \in 1..Len(s) : s[i] < u}
           b == FirstOlder(s, u)
<1>1. b = IF I # {} THEN Min(I) ELSE 0
  BY DEF FirstOlder, SelectInSeq
<1> HIDE DEF b
<1>2. Len(s) \in Nat /\ I \subseteq Nat
  OBVIOUS
<1>3. CASE I = {}
  <2>1. b = 0
    BY <1>1, <1>3
  <2>2. \A i \in 1..Len(s) : ~(s[i] < u)
    BY <1>3
  <2> QED BY <1>2, <2>1, <2>2 DEF b
<1>4. CASE I # {}
  <2>1. Min(I) \in I /\ \A y \in I : Min(I) <= y
    <3> HIDE DEF I
    <3> QED BY <1>2, <1>4, MinIs DEF IsMin
  <2>2. b = Min(I)
    BY <1>1, <1>4
  <2>3. b \in 1..Len(s) /\ s[b] < u
    BY <2>1, <2>2
  <2>4. \A i \in 1..(b - 1) : ~(s[i] < u)
    BY <1>2, <2>1, <2>2, <2>3
  <2>5. b # 0 /\ b \in 0..Len(s)
    BY <1>2, <2>3
  <2> QED BY <2>3, <2>4, <2>5 DEF b
<1> QED BY <1>3, <1>4

(* Sorting *)

(* How many messages of the set S are not older than u. *)
Above(S, u) == {v \in S : v >= u}
Rank(S, u) == Cardinality(Above(S, u))

(* The ranks of the messages are 1 to their number, the newest first. *)
LEMMA RankIs ==
  ASSUME NEW S, S \subseteq Nat, IsFiniteSet(S)
  PROVE  /\ \A u \in S : Rank(S, u) \in 1..Cardinality(S)
         /\ \A u, w \in S : u < w => Rank(S, w) < Rank(S, u)
<1>1. \A u \in Nat : IsFiniteSet(Above(S, u)) /\ Cardinality(Above(S, u)) \in Nat /\ Cardinality(Above(S, u)) <= Cardinality(S)
  <2> SUFFICES ASSUME NEW u \in Nat PROVE IsFiniteSet(Above(S, u)) /\ Cardinality(Above(S, u)) \in Nat /\ Cardinality(Above(S, u)) <= Cardinality(S)
    OBVIOUS
  <2>1. Above(S, u) \subseteq S
    BY DEF Above
  <2> QED BY <2>1, FS_Subset, FS_CardinalityType
<1>2. Cardinality(S) \in Nat
  BY FS_CardinalityType
<1>3. ASSUME NEW u \in S PROVE Rank(S, u) \in 1..Cardinality(S)
  <2>1. u \in Nat /\ u \in Above(S, u)
    BY DEF Above
  <2>2. Cardinality(Above(S, u)) # 0
    BY <1>1, <2>1, FS_EmptySet
  <2> QED BY <1>1, <1>2, <2>1, <2>2 DEF Rank
<1>4. ASSUME NEW u \in S, NEW w \in S, u < w PROVE Rank(S, w) < Rank(S, u)
  <2>1. u \in Nat /\ w \in Nat
    OBVIOUS
  <2>2. Above(S, w) \subseteq Above(S, u)
    <3> SUFFICES ASSUME NEW v \in S, v >= w PROVE v >= u
      BY DEF Above
    <3> QED BY <1>4, <2>1
  <2>4. u \in Above(S, u) /\ u \notin Above(S, w)
    BY <1>4, <2>1 DEF Above
  <2>3. Cardinality(Above(S, w)) <= Cardinality(Above(S, u)) /\ Cardinality(Above(S, w)) # Cardinality(Above(S, u))
    BY <1>1, <2>1, <2>2, <2>4, FS_Subset
  <2> QED BY <1>1, <2>1, <2>3 DEF Rank
<1> QED BY <1>3, <1>4

(* Descending lists a finite set of uids, the greatest first, each at its
   rank. *)
LEMMA DescendingIs ==
  ASSUME NEW S, S \subseteq Nat, IsFiniteSet(S)
  PROVE  /\ Descending(S) \in Seq(S) /\ Len(Descending(S)) = Cardinality(S) /\ Cardinality(S) \in Nat
         /\ IsDescending(Descending(S))
         /\ \A u \in S : Rank(S, u) \in 1..Cardinality(S) /\ Descending(S)[Rank(S, u)] = u
         /\ \A i \in 1..Cardinality(S) : Descending(S)[i] \in S /\ Rank(S, Descending(S)[i]) = i
<1> DEFINE C == Cardinality(S)
           R == [u \in S |-> Rank(S, u)]
           d == Descending(S)
<1>1. C \in Nat /\ IsFiniteSet(1..C) /\ Cardinality(1..C) = C
  BY FS_CardinalityType, FS_Interval
<1>2. /\ \A u \in S : Rank(S, u) \in 1..C
      /\ \A u, w \in S : u < w => Rank(S, w) < Rank(S, u)
  BY RankIs
<1>3. \A u, w \in S : Rank(S, u) = Rank(S, w) => u = w
  <2> SUFFICES ASSUME NEW u \in S, NEW w \in S, Rank(S, u) = Rank(S, w), u # w PROVE FALSE
    OBVIOUS
  <2>1. u \in Nat /\ w \in Nat /\ Rank(S, u) \in 1..C
    BY <1>2
  <2>2. u < w \/ w < u
    BY <2>1
  <2> QED BY <1>2, <2>1, <2>2
<1>4. R \in Injection(S, 1..C)
  BY <1>2, <1>3 DEF Injection, IsInjective
<1>5. R \in Surjection(S, 1..C)
  <2> HIDE DEF R
  <2> QED BY <1>1, <1>4, FS_Injection
<1>6. \A i \in 1..C : \E u \in S : Rank(S, u) = i
  BY <1>5 DEF Surjection
<1>7. d = [i \in 1..C |-> CHOOSE u \in S : Rank(S, u) = i]
  BY DEF Descending, Rank, Above
<1>8. \A i \in 1..C : d[i] \in S /\ Rank(S, d[i]) = i
  BY <1>6, <1>7
<1>9. d \in Seq(S) /\ Len(d) = C /\ DOMAIN d = 1..C
  <2>1. d \in [1..C -> S]
    BY <1>7, <1>8
  <2> HIDE DEF d
  <2> QED BY <1>1, <2>1
<1> HIDE DEF d
<1>10. \A u \in S : d[Rank(S, u)] = u
  BY <1>2, <1>3, <1>8
<1>11. IsDescending(d)
  <2> SUFFICES ASSUME NEW i \in 1..C, NEW j \in 1..C, i < j PROVE d[i] > d[j]
    BY <1>9 DEF IsDescending
  <2>1. d[i] \in Nat /\ d[j] \in Nat /\ Rank(S, d[i]) = i /\ Rank(S, d[j]) = j /\ d[i] \in S /\ d[j] \in S
    BY <1>8
  <2>2. ~(d[i] < d[j]) /\ d[i] # d[j]
    BY <1>1, <1>2, <2>1
  <2> QED BY <2>1, <2>2
<1> QED BY <1>1, <1>2, <1>8, <1>9, <1>10, <1>11 DEF d

(* No message is twice in a list that is newest first, and later rows are not
   newer. *)
LEMMA DescendingDiffer ==
  ASSUME NEW s \in Seq(Nat), IsDescending(s)
  PROVE  /\ \A i, j \in 1..Len(s) : s[i] = s[j] => i = j
         /\ \A i, j \in 1..Len(s) : i <= j => s[j] <= s[i]
<1>1. Len(s) \in Nat /\ DOMAIN s = 1..Len(s) /\ \A i \in 1..Len(s) : s[i] \in Nat
  OBVIOUS
<1>2. \A i, j \in 1..Len(s) : i < j => s[i] > s[j]
  BY <1>1 DEF IsDescending
<1>3. ASSUME NEW i \in 1..Len(s), NEW j \in 1..Len(s), s[i] = s[j] PROVE i = j
  <2>1. ~(i < j) /\ ~(j < i)
    BY <1>1, <1>2, <1>3
  <2> QED BY <2>1
<1>4. ASSUME NEW i \in 1..Len(s), NEW j \in 1..Len(s), i <= j PROVE s[j] <= s[i]
  <2>1. i < j \/ i = j
    BY <1>4
  <2>2. s[i] \in Nat /\ s[j] \in Nat
    BY <1>1
  <2> QED BY <1>2, <2>1, <2>2
<1> QED BY <1>3, <1>4

(* Rows picked from a list that is newest first are newest first. *)
LEMMA PickedDescends ==
  ASSUME NEW E, E \subseteq Nat, NEW s \in Seq(E), NEW K
  PROVE  /\ Picked(s, K) \in Seq(E)
         /\ ToSet(Picked(s, K)) = {s[i] : i \in K \cap 1..Len(s)}
         /\ IsDescending(s) => IsDescending(Picked(s, K))
<1> DEFINE p == Picked(s, K)
<1>1. /\ p \in Seq(E)
      /\ Len(p) <= Len(s)
      /\ \A i \in K \cap 1..Len(s) : \E j \in 1..Len(p) : p[j] = s[i]
      /\ \A j, k \in 1..Len(p) : j < k => \E a, b \in K \cap 1..Len(s) : a < b /\ p[j] = s[a] /\ p[k] = s[b]
      /\ \A j \in 1..Len(p) : \E i \in K \cap 1..Len(s) : p[j] = s[i]
  <2>1. p \in Seq(E) /\ Len(p) <= Len(s) /\ Drawn(p, s, K)
    BY PickedKeeps
  <2> QED BY <2>1 DEF Drawn
<1> HIDE DEF p
<1>2. ToSet(p) = {s[i] : i \in K \cap 1..Len(s)}
  <2>1. ToSet(p) = {p[j] : j \in 1..Len(p)}
    BY <1>1, ToSetIs
  <2>2. \A u \in ToSet(p) : u \in {s[i] : i \in K \cap 1..Len(s)}
    <3> SUFFICES ASSUME NEW j \in 1..Len(p) PROVE p[j] \in {s[i] : i \in K \cap 1..Len(s)}
      BY <2>1
    <3>1. PICK i \in K \cap 1..Len(s) : p[j] = s[i]
      BY <1>1
    <3> QED BY <3>1
  <2>3. \A i \in K \cap 1..Len(s) : s[i] \in ToSet(p)
    <3> SUFFICES ASSUME NEW i \in K \cap 1..Len(s) PROVE s[i] \in ToSet(p)
      OBVIOUS
    <3>1. PICK j \in 1..Len(p) : p[j] = s[i]
      BY <1>1
    <3> QED BY <2>1, <3>1
  <2> QED BY <2>2, <2>3
<1>3. ASSUME IsDescending(s) PROVE IsDescending(p)
  <2>1. DOMAIN p = 1..Len(p) /\ DOMAIN s = 1..Len(s)
    BY <1>1
  <2> SUFFICES ASSUME NEW j \in 1..Len(p), NEW k \in 1..Len(p), j < k PROVE p[j] > p[k]
    BY <2>1 DEF IsDescending
  <2>2. PICK a, b \in K \cap 1..Len(s) : a < b /\ p[j] = s[a] /\ p[k] = s[b]
    BY <1>1
  <2> QED BY <1>3, <2>1, <2>2 DEF IsDescending
<1> QED BY <1>1, <1>2, <1>3 DEF p

-----------------------------------------------------------------------------
(* The edits of a merge, and the selection                                *)

(* The edits merge_newest reports. *)
Edits == [op : {"removed", "inserted"}, at : Nat \ {0}]

(* A selection stays one of row numbers. *)
LEMMA ShiftTyped ==
  ASSUME NEW rows \in SUBSET Nat, NEW e \in Edits
  PROVE  Shift(rows, e) \in SUBSET Nat
<1>1. e.at \in Nat \ {0}
  BY DEF Edits
<1>2. \A r \in rows : r \in Nat /\ (r > e.at => r - 1 \in Nat) /\ r + 1 \in Nat
  BY <1>1
<1> QED BY <1>2 DEF Shift

(* f are the selections after each of the edits. *)
ShiftsUp(f, rows, edits) ==
  /\ f[0] = rows /\ ShiftAll(rows, edits) = f[Len(edits)]
  /\ \A n \in 1..Len(edits) : f[n] = Shift(f[n - 1], edits[n])

(* ShiftAll is what its recursive definition says. *)
LEMMA ShiftAllIs ==
  ASSUME NEW rows \in SUBSET Nat, NEW edits \in Seq(Edits)
  PROVE  \E f \in [0..Len(edits) -> SUBSET Nat] : ShiftsUp(f, rows, edits)
<1> DEFINE S == SUBSET Nat
           D == [p \in S \X (1..Len(edits)) |-> Shift(p[1], edits[p[2]])]
           Def(g) == [n \in 0..Len(edits) |-> IF n = 0 THEN rows ELSE Shift(g[n - 1], edits[n])]
           h == CHOOSE g : g = Def(g)
<1>1. Len(edits) \in Nat
  OBVIOUS
<1>d. D \in [S \X (1..Len(edits)) -> S]
  <2>1. ASSUME NEW p \in S \X (1..Len(edits)) PROVE Shift(p[1], edits[p[2]]) \in S
    <3>1. p[1] \in S /\ edits[p[2]] \in Edits
      OBVIOUS
    <3> QED BY <3>1, ShiftTyped
  <2> QED BY <2>1
<1>e. ASSUME NEW t \in S, NEW n \in 1..Len(edits) PROVE D[<<t, n>>] = Shift(t, edits[n])
  BY <1>e
<1>2. PICK f \in [0..Len(edits) -> S] : Iterated(f, rows, D, Len(edits))
  <2> HIDE DEF D
  <2> QED BY <1>1, <1>d, Iterates
<1> HIDE DEF D
<1>3. ASSUME NEW n \in 1..Len(edits) PROVE f[n] = Shift(f[n - 1], edits[n])
  <2>1. f[n - 1] \in S /\ f[n] = D[<<f[n - 1], n>>]
    BY <1>2, <1>3 DEF Iterated
  <2> QED BY <1>e, <2>1
<1>4. f = Def(f)
  <2>1. ASSUME NEW n \in 0..Len(edits) PROVE f[n] = IF n = 0 THEN rows ELSE Shift(f[n - 1], edits[n])
    <3>1. CASE n = 0
      BY <1>2, <3>1 DEF Iterated
    <3>2. CASE n # 0
      <4>1. n \in 1..Len(edits)
        BY <1>1, <3>2
      <4> QED BY <1>3, <3>2, <4>1, Zenon
    <3> QED BY <3>1, <3>2
  <2>2. f = [n \in 0..Len(edits) |-> f[n]]
    BY <1>2
  <2> QED BY <2>1, <2>2
<1>5. h = Def(h)
  BY <1>4
<1>6. ShiftAll(rows, edits) = h[Len(edits)]
  BY DEF ShiftAll
<1> HIDE DEF h
<1>7. h[0] = rows /\ \A n \in 1..Len(edits) : h[n] = Shift(h[n - 1], edits[n])
  <2>1. \A n \in 0..Len(edits) : h[n] = IF n = 0 THEN rows ELSE Shift(h[n - 1], edits[n])
    BY <1>5
  <2> QED BY <1>1, <2>1
<1>8. \A n \in 0..Len(edits) : h[n] \in S
  <2> DEFINE T == {n \in 0..Len(edits) : h[n] \in S}
  <2>1. 0 \in T
    <3>1. 0 \in 0..Len(edits) /\ h[0] = rows
      BY <1>1, <1>7
    <3> QED BY <3>1
  <2>2. ASSUME NEW n \in 1..Len(edits), n - 1 \in T PROVE n \in T
    <3>1. h[n - 1] \in S /\ edits[n] \in Edits /\ n \in 0..Len(edits)
      BY <2>2
    <3>2. h[n] \in S
      BY <1>7, <3>1, ShiftTyped
    <3> QED BY <3>1, <3>2
  <2> HIDE DEF T
  <2>3. 0..Len(edits) \subseteq T
    BY <1>1, <2>1, <2>2, Induction
  <2> QED BY <2>3 DEF T
<1>9. h \in [0..Len(edits) -> S]
  <2>1. DOMAIN h = 0..Len(edits) /\ h = [n \in 0..Len(edits) |-> h[n]]
    BY <1>5
  <2> QED BY <1>8, <2>1
<1> QED BY <1>6, <1>7, <1>9 DEF ShiftsUp

(* One edit more is one shift more. *)
LEMMA ShiftAllSteps ==
  ASSUME NEW rows \in SUBSET Nat
  PROVE  /\ ShiftAll(rows, <<>>) = rows
         /\ \A edits \in Seq(Edits) : ShiftAll(rows, edits) \in SUBSET Nat
         /\ \A edits \in Seq(Edits), e \in Edits : ShiftAll(rows, Append(edits, e)) = Shift(ShiftAll(rows, edits), e)
<1>1. ShiftAll(rows, <<>>) = rows
  <2>1. PICK f \in [0..Len(<<>>) -> SUBSET Nat] : ShiftsUp(f, rows, <<>>)
    <3>1. <<>> \in Seq(Edits)
      OBVIOUS
    <3> QED BY <3>1, ShiftAllIs
  <2> QED BY <2>1 DEF ShiftsUp
<1>2. ASSUME NEW edits \in Seq(Edits) PROVE ShiftAll(rows, edits) \in SUBSET Nat
  <2>1. PICK f \in [0..Len(edits) -> SUBSET Nat] : ShiftsUp(f, rows, edits)
    BY ShiftAllIs
  <2>2. Len(edits) \in 0..Len(edits)
    OBVIOUS
  <2> QED BY <2>1, <2>2 DEF ShiftsUp
<1>3. ASSUME NEW edits \in Seq(Edits), NEW e \in Edits
      PROVE  ShiftAll(rows, Append(edits, e)) = Shift(ShiftAll(rows, edits), e)
  <2> DEFINE more == Append(edits, e)
  <2>1. more \in Seq(Edits) /\ Len(more) = Len(edits) + 1 /\ more[Len(edits) + 1] = e /\ Len(edits) \in Nat
        /\ \A n \in 1..Len(edits) : more[n] = edits[n]
    OBVIOUS
  <2> HIDE DEF more
  <2>2. PICK f \in [0..Len(edits) -> SUBSET Nat] : ShiftsUp(f, rows, edits)
    BY ShiftAllIs
  <2>3. PICK g \in [0..Len(more) -> SUBSET Nat] : ShiftsUp(g, rows, more)
    BY <2>1, ShiftAllIs
  <2> DEFINE T == {n \in 0..Len(edits) : g[n] = f[n]}
  <2>4. 0 \in T
    BY <2>1, <2>2, <2>3 DEF ShiftsUp
  <2>5. ASSUME NEW n \in 1..Len(edits), n - 1 \in T PROVE n \in T
    <3>1. n \in 1..Len(more) /\ n \in 0..Len(edits) /\ g[n - 1] = f[n - 1]
      BY <2>1, <2>5
    <3>2. g[n] = Shift(g[n - 1], more[n]) /\ f[n] = Shift(f[n - 1], edits[n]) /\ more[n] = edits[n]
      BY <2>1, <2>2, <2>3, <2>5, <3>1 DEF ShiftsUp
    <3> QED BY <3>1, <3>2
  <2> HIDE DEF T
  <2>6. 0..Len(edits) \subseteq T
    BY <2>1, <2>4, <2>5, Induction
  <2>7. g[Len(edits)] = f[Len(edits)]
    BY <2>1, <2>6 DEF T
  <2>8. Len(edits) + 1 \in 1..Len(more) /\ (Len(edits) + 1) - 1 = Len(edits)
    BY <2>1
  <2>9. g[Len(edits) + 1] = Shift(g[Len(edits)], e)
    BY <2>1, <2>3, <2>8 DEF ShiftsUp
  <2> QED BY <2>1, <2>2, <2>3, <2>7, <2>9 DEF ShiftsUp, more
<1> QED BY <1>1, <1>2, <1>3

(* The k last of the gone rows, and the rows without them. *)
Top(gone, k) == {Descending(gone)[j] : j \in 1..k}
Left(L, gone, k) == 1..L \ Top(gone, k)

(* The removals of a merge take the gone rows out one by one, from the last
   to the first. *)
LEMMA TopIs ==
  ASSUME NEW L \in Nat, NEW gone \in SUBSET (1..L)
  PROVE  /\ IsFiniteSet(gone) /\ Cardinality(gone) \in Nat /\ Removals(gone) \in Seq(Edits) /\ Len(Removals(gone)) = Cardinality(gone)
         /\ Top(gone, 0) = {} /\ Top(gone, Cardinality(gone)) = gone
         /\ \A k \in 1..Cardinality(gone) :
              /\ Removals(gone)[k] = Edit("removed", Descending(gone)[k])
              /\ Descending(gone)[k] \in gone /\ Descending(gone)[k] \notin Top(gone, k - 1)
              /\ Top(gone, k) = Top(gone, k - 1) \cup {Descending(gone)[k]}
              /\ \A t \in Top(gone, k - 1) : t > Descending(gone)[k]
<1> DEFINE d == Descending(gone)
           C == Cardinality(gone)
<1>1. IsFiniteSet(gone) /\ gone \subseteq Nat
  <2>1. IsFiniteSet(1..L)
    BY FS_Interval
  <2>2. IsFiniteSet(gone)
    BY <2>1, FS_Subset
  <2>3. gone \subseteq Nat
    OBVIOUS
  <2> QED BY <2>2, <2>3
<1>2. /\ d \in Seq(gone) /\ Len(d) = C /\ C \in Nat /\ IsDescending(d)
      /\ \A u \in gone : Rank(gone, u) \in 1..C /\ d[Rank(gone, u)] = u
      /\ \A i \in 1..C : d[i] \in gone
  BY <1>1, DescendingIs
<1>3. Removals(gone) = [k \in 1..C |-> Edit("removed", d[k])]
  BY DEF Removals
<1>4. Top(gone, 0) = {} /\ \A k \in 0..C : Top(gone, k) = {d[j] : j \in 1..k}
  BY DEF Top
<1> HIDE DEF d, C
<1>5. DOMAIN d = 1..C
  BY <1>2
<1>6. Removals(gone) \in Seq(Edits) /\ Len(Removals(gone)) = C
  <2>1. ASSUME NEW k \in 1..C PROVE Edit("removed", d[k]) \in Edits
    <3>0. d[k] \in gone
      BY <1>2
    <3>1. \A x \in gone : x \in 1..L
      OBVIOUS
    <3>2. d[k] \in 1..L
      BY <3>0, <3>1, Zenon
    <3> QED BY <3>2 DEF Edit, Edits
  <2>2. Removals(gone) \in [1..C -> Edits]
    BY <1>3, <2>1
  <2> QED BY <1>2, <2>2
<1>7. Top(gone, C) = gone
  <2>1. C \in 0..C
    BY <1>2
  <2>2. Top(gone, C) = {d[j] : j \in 1..C}
    BY <1>4, <2>1
  <2> QED BY <1>2, <2>2
<1>8. ASSUME NEW k \in 1..C
      PROVE  /\ Removals(gone)[k] = Edit("removed", d[k])
             /\ d[k] \in gone /\ d[k] \notin Top(gone, k - 1)
             /\ Top(gone, k) = Top(gone, k - 1) \cup {d[k]}
             /\ \A t \in Top(gone, k - 1) : t > d[k]
  <2>1. k - 1 \in 0..C /\ k \in 0..C /\ k \in Nat /\ 1..k = (1..(k - 1)) \cup {k}
    BY <1>2
  <2>2. Top(gone, k) = Top(gone, k - 1) \cup {d[k]}
    BY <1>4, <2>1
  <2>3. ASSUME NEW t \in Top(gone, k - 1) PROVE t > d[k]
    <3>1. PICK j \in 1..(k - 1) : t = d[j]
      BY <1>4, <2>1
    <3>2. j \in 1..C /\ j < k
      BY <1>2, <2>1
    <3> QED BY <1>2, <1>5, <3>1, <3>2 DEF IsDescending
  <2>4. d[k] \in Nat /\ d[k] \in gone
    BY <1>1, <1>2
  <2> QED BY <1>3, <2>2, <2>3, <2>4
<1> QED BY <1>1, <1>2, <1>4, <1>6, <1>7, <1>8 DEF d, C

(* Taking out the next row leaves the rows before it where they are and moves
   up those after it. *)
LEMMA LeftStep ==
  ASSUME NEW L \in Nat, NEW gone \in SUBSET (1..L), NEW k \in 1..Cardinality(gone), NEW i \in 1..L
  PROVE  LET d == Descending(gone)[k] IN
         /\ i <= d => Place(Left(L, gone, k - 1), i) = i
         /\ i < d => Place(Left(L, gone, k), i) = i
         /\ i > d => Place(Left(L, gone, k), i) = Place(Left(L, gone, k - 1), i) - 1
         /\ i > d /\ i \notin Top(gone, k - 1) => Place(Left(L, gone, k - 1), i) > d
<1> DEFINE d == Descending(gone)[k]
           A == Left(L, gone, k - 1)
           B == Left(L, gone, k)
<1>1. /\ d \in 1..L /\ d \notin Top(gone, k - 1) /\ Top(gone, k) = Top(gone, k - 1) \cup {d}
      /\ \A t \in Top(gone, k - 1) : t > d
  BY TopIs
<1> HIDE DEF d
<1>2. \A j \in 1..L : j <= d => j \in A
  BY <1>1 DEF Left
<1>3. A = B \cup {d} /\ d \notin B /\ d \in A /\ A \subseteq 1..L
  BY <1>1 DEF Left
<1> HIDE DEF A, B
<1>4. \A j \in 1..L : Cardinality(1..j) = j
  <2> SUFFICES ASSUME NEW j \in 1..L PROVE Cardinality(1..j) = j
    OBVIOUS
  <2> QED BY FS_Interval
<1>5. ASSUME NEW j \in 1..L, j <= d PROVE Place(A, j) = j
  <2>1. A \cap 1..j = 1..j
    BY <1>1, <1>2, <1>5
  <2> QED BY <1>4, <2>1 DEF Place
<1>6. ASSUME i < d PROVE Place(B, i) = i
  <2>1. B \cap 1..i = 1..i
    BY <1>1, <1>2, <1>3, <1>6
  <2> QED BY <1>4, <2>1 DEF Place
<1>7. ASSUME i > d PROVE Place(B, i) = Place(A, i) - 1
  <2>1. B \cap 1..i = (A \cap 1..i) \ {d} /\ d \in A \cap 1..i
    BY <1>1, <1>3, <1>7
  <2>2. IsFiniteSet(A \cap 1..i)
    <3>1. i \in Nat
      OBVIOUS
    <3> QED BY <3>1, PlaceOf
  <2> QED BY <2>1, <2>2, FS_RemoveElement DEF Place
<1>8. ASSUME i > d, i \notin Top(gone, k - 1) PROVE Place(A, i) > d
  <2>1. i \in A /\ Place(A, d) = d
    BY <1>1, <1>5, <1>8 DEF A, Left
  <2>2. Place(A, d) < Place(A, i)
    BY <1>1, <1>8, <2>1, PlaceGrows
  <2>3. Place(A, i) \in Nat
    BY PlaceNat
  <2> QED BY <1>1, <2>1, <2>2, <2>3
<1> QED BY <1>5, <1>6, <1>7, <1>8 DEF d, A, B

(* The removals of a merge leave the selection on the rows it was on. *)
LEMMA RemovalsFollow ==
  ASSUME NEW L \in Nat, NEW gone \in SUBSET (1..L), NEW rows \in SUBSET (1..L)
  PROVE  ShiftAll(rows, Removals(gone)) = {Place(1..L \ gone, i) : i \in rows \ gone}
<1> DEFINE C == Cardinality(gone)
           e == Removals(gone)
           Now(k) == {Place(Left(L, gone, k), i) : i \in rows \ Top(gone, k)}
<1>1. /\ IsFiniteSet(gone) /\ C \in Nat /\ e \in Seq(Edits) /\ Len(e) = C
      /\ Top(gone, 0) = {} /\ Top(gone, C) = gone
      /\ \A k \in 1..C :
              /\ e[k] = Edit("removed", Descending(gone)[k])
              /\ Descending(gone)[k] \in gone /\ Descending(gone)[k] \notin Top(gone, k - 1)
              /\ Top(gone, k) = Top(gone, k - 1) \cup {Descending(gone)[k]}
              /\ \A t \in Top(gone, k - 1) : t > Descending(gone)[k]
  BY TopIs
<1> HIDE DEF e
<1>2. rows \in SUBSET Nat
  OBVIOUS
<1>3. PICK f \in [0..Len(e) -> SUBSET Nat] : ShiftsUp(f, rows, e)
  BY <1>1, <1>2, ShiftAllIs
<1> DEFINE T == {k \in 0..C : f[k] = Now(k)}
<1>4. 0 \in T
  <2>1. \A i \in rows : Place(Left(L, gone, 0), i) = i
    <3> SUFFICES ASSUME NEW i \in rows PROVE Place(Left(L, gone, 0), i) = i
      OBVIOUS
    <3>1. i \in 1..L /\ Left(L, gone, 0) \cap 1..i = 1..i
      BY <1>1 DEF Left
    <3>2. Cardinality(1..i) = i
      BY <3>1, FS_Interval
    <3> QED BY <3>1, <3>2 DEF Place
  <2>2. Now(0) = rows
    <3>1. rows \ Top(gone, 0) = rows
      BY <1>1
    <3>2. Now(0) = {Place(Left(L, gone, 0), i) : i \in rows}
      BY <3>1
    <3> HIDE DEF Now
    <3> QED BY <2>1, <3>2
  <2>3. f[0] = rows
    BY <1>3 DEF ShiftsUp
  <2> QED BY <1>1, <2>2, <2>3
<1>5. ASSUME NEW k \in 1..C, k - 1 \in T PROVE k \in T
  <2> DEFINE d == Descending(gone)[k]
             P(i) == Place(Left(L, gone, k - 1), i)
             Q(i) == Place(Left(L, gone, k), i)
  <2>1. f[k - 1] = Now(k - 1) /\ k \in 0..C
    BY <1>1, <1>5
  <2>2. f[k] = Shift(f[k - 1], Edit("removed", d))
    BY <1>1, <1>3 DEF ShiftsUp
  <2>3. d \in 1..L /\ d \notin Top(gone, k - 1) /\ Top(gone, k) = Top(gone, k - 1) \cup {d}
    BY <1>1
  <2>4. ASSUME NEW i \in 1..L
        PROVE  /\ i <= d => P(i) = i
               /\ i < d => Q(i) = i
               /\ i > d => Q(i) = P(i) - 1
               /\ i > d /\ i \notin Top(gone, k - 1) => P(i) > d
    BY LeftStep
  <2> DEFINE N == {P(i) : i \in rows \ Top(gone, k - 1)}
             M == {IF r > d THEN r - 1 ELSE r : r \in N \ {d}}
  <2>5. f[k] = M
    <3>1. f[k - 1] = N
      BY <2>1
    <3> HIDE DEF N
    <3> QED BY <2>2, <3>1 DEF Shift, Edit
  <2> HIDE DEF P, Q, d
  <2>6. ASSUME NEW r \in N \ {d} PROVE (IF r > d THEN r - 1 ELSE r) \in Now(k)
    <3>1. PICK i \in rows \ Top(gone, k - 1) : r = P(i)
      BY <2>6
    <3>2. i \in 1..L /\ i # d
      BY <2>3, <2>4, <2>6, <3>1
    <3>3. i \in rows \ Top(gone, k)
      BY <2>3, <3>2
    <3>4. (IF r > d THEN r - 1 ELSE r) = Q(i)
      <4>1. CASE i < d
        BY <2>3, <2>4, <3>1, <3>2, <4>1
      <4>2. CASE i > d
        BY <2>3, <2>4, <3>1, <3>2, <4>2
      <4> QED BY <2>3, <3>2, <4>1, <4>2
    <3> QED BY <3>3, <3>4 DEF Q
  <2>7. ASSUME NEW i \in rows \ Top(gone, k) PROVE Q(i) \in M
    <3>1. i \in rows \ Top(gone, k - 1) /\ i # d /\ i \in 1..L
      BY <2>3
    <3>2. CASE i < d
      <4>1. P(i) = i /\ Q(i) = i /\ P(i) \in N
        BY <2>3, <2>4, <3>1, <3>2
      <4> QED BY <2>3, <3>1, <3>2, <4>1
    <3>3. CASE i > d
      <4>1. P(i) > d /\ Q(i) = P(i) - 1 /\ P(i) \in N
        BY <2>3, <2>4, <3>1, <3>3
      <4>2. P(i) # d
        BY <2>3, <4>1
      <4> QED BY <4>1, <4>2
    <3> QED BY <2>3, <3>1, <3>2, <3>3
  <2>8. M = Now(k)
    BY <2>6, <2>7 DEF Q
  <2> QED BY <2>1, <2>5, <2>8
<1> HIDE DEF T
<1>6. 0..C \subseteq T
  BY <1>1, <1>4, <1>5, Induction
<1>7. f[C] = Now(C)
  BY <1>1, <1>6 DEF T
<1>8. Left(L, gone, C) = 1..L \ gone
  BY <1>1 DEF Left
<1> QED BY <1>1, <1>3, <1>7, <1>8 DEF ShiftsUp, e

-----------------------------------------------------------------------------
(* Merging the newest page (merge_newest)                                 *)

(* Rows and the edits that lead to them; the messages in the rows S. *)
Merges(E) == [rows : Seq(E), edits : Seq(Edits)]
Marked(rows, S) == {rows[r] : r \in S}

(* S are rows, and the messages in them are `marks`. *)
OnRows(rows, S, marks) == S \in SUBSET (1..Len(rows)) /\ Marked(rows, S) = marks

(* t is newest first and has one message more than s. *)
Grown(t, s, u) == IsDescending(t) /\ ToSet(t) = ToSet(s) \cup {u}

(* Element `at` is the first older than u, or there is none and it is the
   end. *)
Before(s, u, at) == (\A i \in 1..(at - 1) : ~(s[i] < u)) /\ (at <= Len(s) => s[at] < u)

(* n is m with u put in before the first older row, and an edit that says so. *)
Inserts(n, m, u) ==
  \E at \in 1..(Len(m.rows) + 1) :
    PutIn(n.rows, m.rows, u, at) /\ Before(m.rows, u, at) /\ n.edits = Append(m.edits, Edit("inserted", at))

(* A message that is listed changes nothing; one that is not is inserted. *)
LEMMA MergeOneIs ==
  ASSUME NEW E, E \subseteq Nat, NEW m \in Merges(E), NEW u \in E
  PROVE  /\ MergeOne(m, u) \in Merges(E)
         /\ (MergeOne(m, u) = m /\ u \in ToSet(m.rows)) \/ (u \notin ToSet(m.rows) /\ Inserts(MergeOne(m, u), m, u))
<1> DEFINE s == m.rows
           at == IF FirstOlder(s, u) = 0 THEN Len(s) + 1 ELSE FirstOlder(s, u)
           n == MergeOne(m, u)
<1>1. s \in Seq(E) /\ s \in Seq(Nat) /\ m.edits \in Seq(Edits) /\ Len(s) \in Nat /\ u \in Nat
  <2>1. s \in Seq(E) /\ m.edits \in Seq(Edits)
    BY DEF Merges
  <2>2. s \in Seq(Nat)
    BY <2>1, SeqMonotonic
  <2> QED BY <2>1, <2>2
<1>2. CASE RowOf(s, u) # 0
  <2>1. n = m
    BY <1>2 DEF MergeOne
  <2>2. RowOf(s, u) \in 1..Len(s) /\ s[RowOf(s, u)] = u
    BY <1>1, <1>2, RowOfIs
  <2>3. u \in ToSet(s)
    BY <1>1, <2>2, ToSetIs
  <2> QED BY <2>1, <2>3
<1>3. CASE RowOf(s, u) = 0
  <2>1. n = [rows |-> InsertAt(s, at, u), edits |-> Append(m.edits, Edit("inserted", at))]
    BY <1>3 DEF MergeOne
  <2>2. at \in 1..(Len(s) + 1) /\ Before(s, u, at)
    <3>1. /\ FirstOlder(s, u) \in 0..Len(s)
          /\ FirstOlder(s, u) # 0 => s[FirstOlder(s, u)] < u /\ \A i \in 1..(FirstOlder(s, u) - 1) : ~(s[i] < u)
          /\ FirstOlder(s, u) = 0 => \A i \in 1..Len(s) : ~(s[i] < u)
      BY <1>1, FirstOlderIs
    <3> QED BY <1>1, <3>1 DEF Before
  <2> HIDE DEF at, n
  <2> DEFINE t == SubSeq(s, 1, at - 1) \o <<u>> \o SubSeq(s, at, Len(s))
  <2>3. t \in Seq(E) /\ PutIn(t, s, u, at)
    <3> HIDE DEF s
    <3> QED BY <1>1, <2>2, InsertedAt
  <2>4. n.rows \in Seq(E) /\ PutIn(n.rows, s, u, at)
    BY <2>1, <2>3 DEF InsertAt
  <2>5. Edit("inserted", at) \in Edits
    BY <1>1, <2>2 DEF Edit, Edits
  <2>6. n.edits = Append(m.edits, Edit("inserted", at)) /\ n.edits \in Seq(Edits)
    BY <1>1, <2>1, <2>5
  <2>7. n \in Merges(E)
    BY <2>1, <2>4, <2>6 DEF Merges
  <2>8. Inserts(n, m, u)
    BY <2>2, <2>4, <2>6 DEF Inserts
  <2>9. u \notin ToSet(s)
    <3>1. \A i \in 1..Len(s) : s[i] # u
      BY <1>1, <1>3, RowOfIs
    <3> QED BY <1>1, <3>1, ToSetIs
  <2> QED BY <2>7, <2>8, <2>9 DEF n
<1> QED BY <1>2, <1>3

(* Rows that are newest first still are with one inserted before the first
   older. *)
LEMMA InsertedDescends ==
  ASSUME NEW E, E \subseteq Nat, NEW s \in Seq(E), IsDescending(s), NEW u \in E, u \notin ToSet(s), NEW t \in Seq(E),
         NEW at, PutIn(t, s, u, at), Before(s, u, at)
  PROVE  Grown(t, s, u)
<1>1. /\ Len(s) \in Nat /\ DOMAIN s = 1..Len(s) /\ DOMAIN t = 1..Len(t) /\ u \in Nat
      /\ ToSet(s) = {s[i] : i \in 1..Len(s)} /\ ToSet(t) = {t[i] : i \in 1..Len(t)}
      /\ \A i \in 1..Len(s) : s[i] \in Nat /\ s[i] \in ToSet(s)
  BY ToSetIs
<1>2. /\ at \in 1..(Len(s) + 1) /\ Len(t) = Len(s) + 1
      /\ \A i \in 1..Len(t) : t[i] = IF i < at THEN s[i] ELSE IF i = at THEN u ELSE s[i - 1]
  BY DEF PutIn
<1>3. \A i, j \in 1..Len(s) : i < j => s[i] > s[j]
  BY <1>1 DEF IsDescending
<1>4. ASSUME NEW i \in 1..Len(s), i < at PROVE s[i] > u
  <2>1. ~(s[i] < u) /\ s[i] # u
    BY <1>1, <1>2, <1>4 DEF Before
  <2> QED BY <1>1, <2>1
<1>5. ASSUME NEW i \in 1..Len(s), i >= at PROVE s[i] < u
  <2>1. at \in 1..Len(s) /\ s[at] < u
    BY <1>1, <1>2, <1>5 DEF Before
  <2>2. CASE i = at
    BY <2>1, <2>2
  <2>3. CASE i # at
    <3>1. s[at] > s[i]
      BY <1>1, <1>2, <1>3, <1>5, <2>1, <2>3
    <3> QED BY <1>1, <2>1, <3>1
  <2> QED BY <2>2, <2>3
<1>6. ASSUME NEW i \in 1..Len(t), NEW j \in 1..Len(t), i < j PROVE t[i] > t[j]
  <2>1. CASE j < at
    BY <1>1, <1>2, <1>3, <1>6, <2>1
  <2>2. CASE j = at
    <3>1. t[i] = s[i] /\ t[j] = u /\ i \in 1..Len(s) /\ i < at
      BY <1>1, <1>2, <1>6, <2>2
    <3> QED BY <1>4, <3>1
  <2>3. CASE j > at
    <3>1. t[j] = s[j - 1] /\ j - 1 \in 1..Len(s) /\ j - 1 >= at
      BY <1>1, <1>2, <1>6, <2>3
    <3>2. CASE i < at
      <4>1. t[i] = s[i] /\ i \in 1..Len(s) /\ i < j - 1
        BY <1>1, <1>2, <1>6, <3>1, <3>2
      <4> QED BY <1>3, <3>1, <4>1
    <3>3. CASE i = at
      BY <1>1, <1>2, <1>5, <3>1, <3>3
    <3>4. CASE i > at
      <4>1. t[i] = s[i - 1] /\ i - 1 \in 1..Len(s) /\ i - 1 < j - 1
        BY <1>1, <1>2, <1>6, <3>1, <3>4
      <4> QED BY <1>3, <3>1, <4>1
    <3> QED BY <1>2, <3>2, <3>3, <3>4
  <2> QED BY <1>2, <2>1, <2>2, <2>3
<1>7. IsDescending(t)
  BY <1>1, <1>6 DEF IsDescending
<1>8. ASSUME NEW i \in 1..Len(t) PROVE t[i] \in ToSet(s) \cup {u}
  <2>1. i < at => i \in 1..Len(s)
    BY <1>1, <1>2
  <2>2. i > at => i - 1 \in 1..Len(s)
    BY <1>1, <1>2
  <2> QED BY <1>1, <1>2, <2>1, <2>2
<1>9. ASSUME NEW i \in 1..Len(s) PROVE s[i] \in ToSet(t)
  <2>1. CASE i < at
    <3>1. i \in 1..Len(t) /\ t[i] = s[i]
      BY <1>1, <1>2, <2>1
    <3> QED BY <1>1, <3>1
  <2>2. CASE ~(i < at)
    <3>0. i + 1 \in 1..Len(t) /\ ~(i + 1 < at) /\ i + 1 # at /\ (i + 1) - 1 = i
      BY <1>1, <1>2, <2>2
    <3>1. t[i + 1] = s[i]
      BY <1>2, <3>0
    <3> QED BY <1>1, <3>0, <3>1
  <2> QED BY <2>1, <2>2
<1>10. u \in ToSet(t)
  <2>1. at \in 1..Len(t) /\ t[at] = u
    BY <1>1, <1>2
  <2> QED BY <1>1, <2>1
<1>11. ToSet(t) = ToSet(s) \cup {u}
  BY <1>1, <1>8, <1>9, <1>10
<1> QED BY <1>7, <1>11 DEF Grown

(* The selection follows its rows past an inserted one (Selection::insert). *)
LEMMA InsertedFollows ==
  ASSUME NEW E, NEW s \in Seq(E), NEW u, NEW t \in Seq(E), NEW at, PutIn(t, s, u, at), NEW A, NEW marks, OnRows(s, A, marks)
  PROVE  OnRows(t, Shift(A, Edit("inserted", at)), marks)
<1>1. Len(s) \in Nat /\ (\A r \in A : r \in 1..Len(s)) /\ Marked(s, A) = marks
  BY DEF OnRows
<1>2. /\ at \in 1..(Len(s) + 1) /\ Len(t) = Len(s) + 1
      /\ \A i \in 1..Len(t) : t[i] = IF i < at THEN s[i] ELSE IF i = at THEN u ELSE s[i - 1]
  BY DEF PutIn
<1> DEFINE to(r) == IF r >= at THEN r + 1 ELSE r
           B == {to(r) : r \in A}
<1>3. Shift(A, Edit("inserted", at)) = B
  BY DEF Shift, Edit
<1>4. \A r \in A : to(r) \in 1..Len(t) /\ t[to(r)] = s[r]
  BY <1>1, <1>2
<1> HIDE DEF to
<1>5. B \in SUBSET (1..Len(t))
  BY <1>4
<1>6. Marked(t, B) = Marked(s, A)
  <2>1. Marked(t, B) = {t[to(r)] : r \in A}
    BY DEF Marked
  <2> QED BY <1>4, <2>1 DEF Marked
<1> QED BY <1>1, <1>3, <1>5, <1>6 DEF OnRows

(* f are the merges of the first messages of the page. *)
MergesUp(f, kept, fresh) ==
  /\ f[0] = kept /\ MergeAll(kept, fresh) = f[Len(fresh)]
  /\ \A n \in 1..Len(fresh) : f[n] = MergeOne(f[n - 1], fresh[n])

(* MergeAll is what its recursive definition says. *)
LEMMA MergeAllIs ==
  ASSUME NEW E, E \subseteq Nat, NEW kept \in Merges(E), NEW fresh \in Seq(E)
  PROVE  \E f \in [0..Len(fresh) -> Merges(E)] : MergesUp(f, kept, fresh)
<1> DEFINE S == Merges(E)
           D == [p \in S \X (1..Len(fresh)) |-> MergeOne(p[1], fresh[p[2]])]
           Def(g) == [n \in 0..Len(fresh) |-> IF n = 0 THEN kept ELSE MergeOne(g[n - 1], fresh[n])]
           h == CHOOSE g : g = Def(g)
<1>1. Len(fresh) \in Nat
  OBVIOUS
<1>d. D \in [S \X (1..Len(fresh)) -> S]
  <2>1. ASSUME NEW p \in S \X (1..Len(fresh)) PROVE MergeOne(p[1], fresh[p[2]]) \in S
    <3>1. p[1] \in S /\ fresh[p[2]] \in E
      OBVIOUS
    <3> QED BY <3>1, MergeOneIs
  <2> QED BY <2>1
<1>e. ASSUME NEW t \in S, NEW n \in 1..Len(fresh) PROVE D[<<t, n>>] = MergeOne(t, fresh[n])
  BY <1>e
<1>2. PICK f \in [0..Len(fresh) -> S] : Iterated(f, kept, D, Len(fresh))
  <2> HIDE DEF D
  <2> QED BY <1>1, <1>d, Iterates
<1> HIDE DEF D
<1>3. ASSUME NEW n \in 1..Len(fresh) PROVE f[n] = MergeOne(f[n - 1], fresh[n])
  <2>1. f[n - 1] \in S /\ f[n] = D[<<f[n - 1], n>>]
    BY <1>2, <1>3 DEF Iterated
  <2> QED BY <1>e, <2>1
<1>4. f = Def(f)
  <2>1. ASSUME NEW n \in 0..Len(fresh) PROVE f[n] = IF n = 0 THEN kept ELSE MergeOne(f[n - 1], fresh[n])
    <3>1. CASE n = 0
      BY <1>2, <3>1 DEF Iterated
    <3>2. CASE n # 0
      <4>1. n \in 1..Len(fresh)
        BY <1>1, <3>2
      <4> QED BY <1>3, <3>2, <4>1, Zenon
    <3> QED BY <3>1, <3>2
  <2>2. f = [n \in 0..Len(fresh) |-> f[n]]
    BY <1>2
  <2> QED BY <2>1, <2>2
<1>5. h = Def(h)
  BY <1>4
<1>6. MergeAll(kept, fresh) = h[Len(fresh)]
  BY DEF MergeAll
<1> HIDE DEF h
<1>7. h[0] = kept /\ \A n \in 1..Len(fresh) : h[n] = MergeOne(h[n - 1], fresh[n])
  <2>1. \A n \in 0..Len(fresh) : h[n] = IF n = 0 THEN kept ELSE MergeOne(h[n - 1], fresh[n])
    BY <1>5
  <2> QED BY <1>1, <2>1
<1>8. \A n \in 0..Len(fresh) : h[n] \in S
  <2> DEFINE T == {n \in 0..Len(fresh) : h[n] \in S}
  <2>1. 0 \in T
    <3>1. 0 \in 0..Len(fresh) /\ h[0] = kept
      BY <1>1, <1>7
    <3> QED BY <3>1
  <2>2. ASSUME NEW n \in 1..Len(fresh), n - 1 \in T PROVE n \in T
    <3>1. h[n - 1] \in S /\ fresh[n] \in E /\ n \in 0..Len(fresh)
      BY <2>2
    <3>2. MergeOne(h[n - 1], fresh[n]) \in S
      BY <3>1, MergeOneIs
    <3>3. h[n] = MergeOne(h[n - 1], fresh[n])
      BY <1>7, <2>2
    <3> QED BY <3>1, <3>2, <3>3
  <2> HIDE DEF T
  <2>3. 0..Len(fresh) \subseteq T
    BY <1>1, <2>1, <2>2, Induction
  <2> QED BY <2>3 DEF T
<1>9. h \in [0..Len(fresh) -> S]
  <2>1. DOMAIN h = 0..Len(fresh) /\ h = [n \in 0..Len(fresh) |-> h[n]]
    BY <1>5
  <2> QED BY <1>8, <2>1
<1> QED BY <1>6, <1>7, <1>9 DEF MergesUp

(* The edits of a merge move a selection to the rows its messages are in. *)
Follows(m, S, marks) == OnRows(m.rows, ShiftAll(S, m.edits), marks)

(* Merging one message keeps the order and the selection. *)
LEMMA MergeOneKeeps ==
  ASSUME NEW E, E \subseteq Nat, NEW m \in Merges(E), NEW u \in E, IsDescending(m.rows),
         NEW S \in SUBSET Nat, NEW marks, Follows(m, S, marks)
  PROVE  LET n == MergeOne(m, u) IN
         /\ n \in Merges(E) /\ IsDescending(n.rows) /\ ToSet(n.rows) = ToSet(m.rows) \cup {u} /\ Follows(n, S, marks)
<1> DEFINE n == MergeOne(m, u)
<1>1. /\ n \in Merges(E)
      /\ (n = m /\ u \in ToSet(m.rows)) \/ (u \notin ToSet(m.rows) /\ Inserts(n, m, u))
  BY MergeOneIs
<1> HIDE DEF n
<1> DEFINE s == m.rows
           t == n.rows
           e == m.edits
<1>2. s \in Seq(E) /\ t \in Seq(E) /\ e \in Seq(Edits) /\ IsDescending(s) /\ Len(s) \in Nat
  BY <1>1 DEF Merges
<1> HIDE DEF s, t, e
<1>3. CASE n = m /\ u \in ToSet(m.rows)
  <2>1. ToSet(m.rows) = ToSet(m.rows) \cup {u}
    BY <1>3
  <2> QED BY <1>1, <1>3, <2>1 DEF n
<1>4. CASE u \notin ToSet(m.rows) /\ Inserts(n, m, u)
  <2>1. PICK at \in 1..(Len(s) + 1) : PutIn(t, s, u, at) /\ Before(s, u, at) /\ n.edits = Append(e, Edit("inserted", at))
    BY <1>4 DEF Inserts, s, t, e
  <2>2. IsDescending(t) /\ ToSet(t) = ToSet(s) \cup {u}
    <3>1. u \notin ToSet(s)
      BY <1>4 DEF s
    <3>2. Grown(t, s, u)
      BY <1>2, <2>1, <3>1, InsertedDescends
    <3> QED BY <3>2 DEF Grown
  <2> DEFINE A == ShiftAll(S, e)
             B == Shift(A, Edit("inserted", at))
  <2>3. OnRows(s, A, marks)
    BY DEF Follows, s, e
  <2>4. ShiftAll(S, n.edits) = B
    <3>1. Edit("inserted", at) \in Edits
      BY <1>2 DEF Edit, Edits
    <3>2. \A edits \in Seq(Edits), d \in Edits : ShiftAll(S, Append(edits, d)) = Shift(ShiftAll(S, edits), d)
      BY ShiftAllSteps
    <3> QED BY <1>2, <2>1, <3>1, <3>2
  <2>5. OnRows(t, B, marks)
    <3> HIDE DEF A
    <3> QED BY <1>2, <2>1, <2>3, InsertedFollows
  <2> HIDE DEF A, B
  <2>6. Follows(n, S, marks)
    BY <2>4, <2>5 DEF Follows, t
  <2> QED BY <1>1, <2>2, <2>6 DEF n, s, t
<1> QED BY <1>1, <1>3, <1>4

(* Merging a page keeps the order and the selection. *)
LEMMA MergeAllKeeps ==
  ASSUME NEW E, E \subseteq Nat, NEW kept \in Merges(E), NEW fresh \in Seq(E), IsDescending(kept.rows),
         NEW S \in SUBSET Nat, NEW marks, Follows(kept, S, marks)
  PROVE  LET n == MergeAll(kept, fresh) IN
         /\ n \in Merges(E) /\ IsDescending(n.rows) /\ ToSet(n.rows) = ToSet(kept.rows) \cup ToSet(fresh) /\ Follows(n, S, marks)
<1>1. PICK f \in [0..Len(fresh) -> Merges(E)] : MergesUp(f, kept, fresh)
  BY MergeAllIs
<1>2. /\ f[0] = kept /\ MergeAll(kept, fresh) = f[Len(fresh)]
      /\ \A n \in 1..Len(fresh) : f[n] = MergeOne(f[n - 1], fresh[n])
  BY <1>1 DEF MergesUp
<1>3. Len(fresh) \in Nat /\ \A n \in 1..Len(fresh) : fresh[n] \in E
  OBVIOUS
<1> DEFINE First(n) == {fresh[j] : j \in 1..n}
           Good(n) == IsDescending(f[n].rows) /\ ToSet(f[n].rows) = ToSet(kept.rows) \cup First(n) /\ Follows(f[n], S, marks)
           T == {n \in 0..Len(fresh) : Good(n)}
<1>4. 0 \in T
  <2>1. First(0) = {}
    OBVIOUS
  <2>2. Good(0)
    BY <1>2, <2>1
  <2> QED BY <1>3, <2>2
<1>5. ASSUME NEW n \in 1..Len(fresh), n - 1 \in T PROVE n \in T
  <2>1. Good(n - 1) /\ n - 1 \in 0..Len(fresh) /\ n \in 0..Len(fresh) /\ n \in Nat
    BY <1>5
  <2> DEFINE m == f[n - 1]
             u == fresh[n]
  <2>2. m \in Merges(E) /\ IsDescending(m.rows) /\ ToSet(m.rows) = ToSet(kept.rows) \cup First(n - 1) /\ Follows(m, S, marks) /\ u \in E
    BY <1>3, <2>1
  <2>3. f[n] = MergeOne(m, u)
    BY <1>2
  <2>5. First(n) = First(n - 1) \cup {u}
    <3>1. 1..n = (1..(n - 1)) \cup {n}
      BY <2>1
    <3> QED BY <3>1
  <2> HIDE DEF First, m, u
  <2>4. IsDescending(f[n].rows) /\ ToSet(f[n].rows) = ToSet(m.rows) \cup {u} /\ Follows(f[n], S, marks)
    BY <2>2, <2>3, MergeOneKeeps
  <2>6. ToSet(f[n].rows) = ToSet(kept.rows) \cup First(n)
    BY <2>2, <2>4, <2>5
  <2> QED BY <2>1, <2>4, <2>6
<1> HIDE DEF T
<1>6. 0..Len(fresh) \subseteq T
  BY <1>3, <1>4, <1>5, Induction
<1>7. Len(fresh) \in 0..Len(fresh)
  BY <1>3
<1>8. Good(Len(fresh)) /\ f[Len(fresh)] \in Merges(E)
  BY <1>6, <1>7 DEF T
<1>9. First(Len(fresh)) = ToSet(fresh)
  BY ToSetIs
<1> QED BY <1>2, <1>8, <1>9

(* merge_newest: the rows are newest first, they are those below the page and
   those of the page, and its edits move a selection along. *)
LEMMA MergeNewestIs ==
  ASSUME NEW E, E \subseteq Nat, NEW rows \in Seq(E), IsDescending(rows), NEW fresh \in Seq(E), NEW S \in SUBSET (1..Len(rows))
  PROVE  LET m == MergeNewest(rows, fresh) IN
         /\ m \in Merges(E) /\ IsDescending(m.rows)
         /\ ToSet(m.rows) = {u \in ToSet(rows) : ~(u >= Floor(fresh))} \cup ToSet(fresh)
         /\ Follows(m, S, Marked(rows, S) \cap ToSet(m.rows))
<1> DEFINE L == Len(rows)
           gone == Gone(rows, fresh)
           kept == [rows |-> Picked(rows, DOMAIN rows \ gone), edits |-> Removals(gone)]
           m == MergeNewest(rows, fresh)
<1>1. /\ L \in Nat /\ DOMAIN rows = 1..L /\ ToSet(rows) = {rows[i] : i \in 1..L} /\ rows \in Seq(Nat)
      /\ \A i \in 1..L : rows[i] \in ToSet(rows) /\ rows[i] \in E
  <2>1. rows \in Seq(Nat)
    BY SeqMonotonic
  <2> QED BY <2>1, ToSetIs
<1>2. gone \in SUBSET (1..L) /\ \A i \in 1..L : i \in gone <=> (rows[i] >= Floor(fresh) /\ rows[i] \notin ToSet(fresh))
  <2>1. \A i \in 1..L : RowOf(fresh, rows[i]) = 0 <=> rows[i] \notin ToSet(fresh)
    <3> SUFFICES ASSUME NEW i \in 1..L PROVE RowOf(fresh, rows[i]) = 0 <=> rows[i] \notin ToSet(fresh)
      OBVIOUS
    <3>1. /\ RowOf(fresh, rows[i]) \in 0..Len(fresh)
          /\ RowOf(fresh, rows[i]) # 0 => fresh[RowOf(fresh, rows[i])] = rows[i]
          /\ RowOf(fresh, rows[i]) = 0 => \A j \in 1..Len(fresh) : fresh[j] # rows[i]
      BY RowOfIs
    <3>2. ToSet(fresh) = {fresh[j] : j \in 1..Len(fresh)} /\ Len(fresh) \in Nat
      BY ToSetIs
    <3> QED BY <3>1, <3>2
  <2> QED BY <1>1, <2>1 DEF Gone
<1>3. m = MergeAll(kept, fresh)
  BY DEF MergeNewest
<1> HIDE DEF gone, m
<1>4. /\ Removals(gone) \in Seq(Edits)
      /\ ShiftAll(S, Removals(gone)) = {Place(1..L \ gone, i) : i \in S \ gone}
  <2>1. Removals(gone) \in Seq(Edits)
    BY <1>1, <1>2, TopIs
  <2> HIDE DEF L
  <2>2. S \in SUBSET (1..L)
    BY DEF L
  <2>3. ShiftAll(S, Removals(gone)) = {Place(1..L \ gone, i) : i \in S \ gone}
    BY <1>1, <1>2, <2>2, RemovalsFollow
  <2> QED BY <2>1, <2>3
<1> DEFINE K == 1..L \ gone
           p == Picked(rows, K)
<1>5. /\ p \in Seq(E) /\ ToSet(p) = {rows[i] : i \in K} /\ IsDescending(p)
      /\ \A i \in K : Place(K, i) \in 1..Len(p) /\ p[Place(K, i)] = rows[i]
  <2>1. K \cap 1..L = K
    OBVIOUS
  <2> HIDE DEF K
  <2>2. p \in Seq(E) /\ ToSet(p) = {rows[i] : i \in K \cap 1..L} /\ IsDescending(p)
    BY PickedDescends
  <2>3. \A i \in K \cap 1..L : Place(K, i) \in 1..Len(p) /\ p[Place(K, i)] = rows[i]
    BY PickedPlaces
  <2> QED BY <2>1, <2>2, <2>3
<1>6. kept \in Merges(E) /\ kept.rows = p /\ kept.edits = Removals(gone)
  BY <1>1, <1>4, <1>5 DEF Merges
<1> DEFINE marks == {rows[i] : i \in S \ gone}
<1> HIDE DEF kept
<1>7. Follows(kept, S, marks)
  <2> DEFINE B == {Place(K, i) : i \in S \ gone}
  <2>1. \A i \in S \ gone : i \in K
    OBVIOUS
  <2> HIDE DEF K, p
  <2>2. B \in SUBSET (1..Len(p))
    BY <1>5, <2>1
  <2>3. Marked(p, B) = {p[Place(K, i)] : i \in S \ gone}
    BY DEF Marked
  <2>4. Marked(p, B) = marks
    BY <1>5, <2>1, <2>3
  <2> QED BY <1>4, <1>6, <2>2, <2>4 DEF Follows, OnRows, K
<1> HIDE DEF K, p
<1>8. m \in Merges(E) /\ IsDescending(m.rows) /\ ToSet(m.rows) = ToSet(p) \cup ToSet(fresh) /\ Follows(m, S, marks)
  <2>1. S \in SUBSET Nat
    BY <1>1
  <2>2. IsDescending(kept.rows)
    BY <1>5, <1>6
  <2> HIDE DEF marks
  <2>3. /\ MergeAll(kept, fresh) \in Merges(E) /\ IsDescending(MergeAll(kept, fresh).rows)
        /\ ToSet(MergeAll(kept, fresh).rows) = ToSet(kept.rows) \cup ToSet(fresh) /\ Follows(MergeAll(kept, fresh), S, marks)
    BY <1>6, <1>7, <2>1, <2>2, MergeAllKeeps
  <2> QED BY <1>3, <1>6, <2>3
<1>9. ToSet(m.rows) = {u \in ToSet(rows) : ~(u >= Floor(fresh))} \cup ToSet(fresh)
  <2>1. \A i \in K : rows[i] \in {u \in ToSet(rows) : ~(u >= Floor(fresh))} \cup ToSet(fresh)
    BY <1>1, <1>2 DEF K
  <2>2. \A i \in 1..L : ~(rows[i] >= Floor(fresh)) => i \in K
    BY <1>2 DEF K
  <2>3. {u \in ToSet(rows) : ~(u >= Floor(fresh))} \subseteq ToSet(p)
    BY <1>1, <1>5, <2>2
  <2>4. ToSet(p) \subseteq {u \in ToSet(rows) : ~(u >= Floor(fresh))} \cup ToSet(fresh)
    BY <1>5, <2>1
  <2> QED BY <1>8, <2>3, <2>4
<1>10. marks = Marked(rows, S) \cap ToSet(m.rows)
  <2>1. Marked(rows, S) = {rows[i] : i \in S}
    BY DEF Marked
  <2>2. \A i \in S \ gone : rows[i] \in ToSet(p)
    BY <1>5 DEF K
  <2>3. ASSUME NEW i \in S, rows[i] \in ToSet(m.rows) PROVE i \notin gone
    <3>1. CASE rows[i] \in ToSet(fresh)
      BY <1>2, <3>1
    <3>2. CASE rows[i] \notin ToSet(fresh)
      <4>1. ~(rows[i] >= Floor(fresh))
        BY <1>9, <2>3, <3>2
      <4> QED BY <1>2, <4>1
    <3> QED BY <3>1, <3>2
  <2>4. marks \subseteq Marked(rows, S) \cap ToSet(m.rows)
    BY <1>8, <2>1, <2>2
  <2>5. Marked(rows, S) \cap ToSet(m.rows) \subseteq marks
    BY <2>1, <2>3
  <2> QED BY <2>4, <2>5
<1> QED BY <1>8, <1>9, <1>10 DEF m

-----------------------------------------------------------------------------
(* Counting the moves in a list of commands or events                     *)

(* The commands and events of moves. *)
IsMove(x) == x.op \in {"move", "moved", "moveFailed"}
MoveOf(x) == IF IsMove(x) THEN 1 ELSE 0

(* The moves in a list are finitely many. *)
LEMMA MovesAre ==
  ASSUME NEW E, NEW s \in Seq(E)
  PROVE  /\ Moves(s) = {i \in 1..Len(s) : IsMove(s[i])} /\ Moves(s) \subseteq 1..Len(s)
         /\ IsFiniteSet(Moves(s)) /\ Cardinality(Moves(s)) \in Nat
<1>1. Len(s) \in Nat /\ DOMAIN s = 1..Len(s)
  OBVIOUS
<1>2. Moves(s) = {i \in 1..Len(s) : IsMove(s[i])}
  BY <1>1 DEF Moves, IsMove
<1>3. Moves(s) \subseteq 1..Len(s)
  BY <1>2
<1>4. IsFiniteSet(1..Len(s))
  BY <1>1, FS_Interval
<1>5. IsFiniteSet(Moves(s))
  BY <1>3, <1>4, FS_Subset
<1>6. Cardinality(Moves(s)) \in Nat
  BY <1>5, FS_CardinalityType
<1> QED BY <1>2, <1>3, <1>5, <1>6

(* One element more. *)
LEMMA MovesAppend ==
  ASSUME NEW E, NEW s \in Seq(E), NEW x \in E
  PROVE  Cardinality(Moves(Append(s, x))) = Cardinality(Moves(s)) + MoveOf(x)
<1> DEFINE t == Append(s, x)
<1>1. t \in Seq(E) /\ Len(t) = Len(s) + 1 /\ Len(s) \in Nat /\ t[Len(s) + 1] = x /\ \A i \in 1..Len(s) : t[i] = s[i]
  OBVIOUS
<1> HIDE DEF t
<1>2. Moves(s) = {i \in 1..Len(s) : IsMove(s[i])} /\ IsFiniteSet(Moves(s)) /\ Cardinality(Moves(s)) \in Nat
  BY MovesAre
<1>3. Moves(t) = {i \in 1..Len(t) : IsMove(t[i])}
  BY <1>1, MovesAre
<1>4. CASE IsMove(x)
  <2>1. Moves(t) = Moves(s) \cup {Len(s) + 1} /\ Len(s) + 1 \notin Moves(s)
    BY <1>1, <1>2, <1>3, <1>4
  <2> QED BY <1>2, <1>4, <2>1, FS_AddElement DEF MoveOf, t
<1>5. CASE ~IsMove(x)
  <2>1. Moves(t) = Moves(s)
    BY <1>1, <1>2, <1>3, <1>5
  <2> QED BY <1>2, <1>5, <2>1 DEF MoveOf, t
<1> QED BY <1>4, <1>5

(* One element less. *)
LEMMA MovesTail ==
  ASSUME NEW E, NEW s \in Seq(E), s # <<>>
  PROVE  Cardinality(Moves(s)) = Cardinality(Moves(Tail(s))) + MoveOf(Head(s))
<1> DEFINE t == Tail(s)
           f == [i \in Moves(t) |-> i + 1]
<1>1. t \in Seq(E) /\ Len(t) = Len(s) - 1 /\ Len(s) \in Nat \ {0} /\ Head(s) = s[1] /\ \A i \in 1..Len(t) : t[i] = s[i + 1]
  OBVIOUS
<1> HIDE DEF t
<1>2. Moves(s) = {i \in 1..Len(s) : IsMove(s[i])} /\ IsFiniteSet(Moves(s)) /\ Cardinality(Moves(s)) \in Nat
  BY MovesAre
<1>3. Moves(t) = {i \in 1..Len(t) : IsMove(t[i])} /\ IsFiniteSet(Moves(t)) /\ Cardinality(Moves(t)) \in Nat
  BY <1>1, MovesAre
<1>4. f \in [Moves(t) -> Moves(s) \ {1}]
  <2> SUFFICES ASSUME NEW i \in Moves(t) PROVE i + 1 \in Moves(s) \ {1}
    OBVIOUS
  <2> QED BY <1>1, <1>2, <1>3
<1>5. \A j \in Moves(s) \ {1} : j - 1 \in Moves(t) /\ f[j - 1] = j
  <2> SUFFICES ASSUME NEW j \in Moves(s) \ {1} PROVE j - 1 \in Moves(t) /\ f[j - 1] = j
    OBVIOUS
  <2>1. j - 1 \in 1..Len(t) /\ (j - 1) + 1 = j
    BY <1>1, <1>2
  <2>2. t[j - 1] = s[j] /\ IsMove(s[j])
    BY <1>1, <1>2, <2>1
  <2>3. j - 1 \in Moves(t)
    BY <1>3, <2>1, <2>2
  <2> QED BY <2>1, <2>3
<1>6. \A i, j \in Moves(t) : f[i] = f[j] => i = j
  BY <1>3
<1> HIDE DEF f
<1>7. f \in Bijection(Moves(t), Moves(s) \ {1})
  <2>1. f \in Surjection(Moves(t), Moves(s) \ {1})
    BY <1>4, <1>5 DEF Surjection
  <2>2. f \in Injection(Moves(t), Moves(s) \ {1})
    BY <1>4, <1>6 DEF Injection, IsInjective
  <2> QED BY <2>1, <2>2 DEF Bijection
<1>8. Cardinality(Moves(s) \ {1}) = Cardinality(Moves(t))
  <2>1. ExistsBijection(Moves(t), Moves(s) \ {1})
    BY <1>7 DEF ExistsBijection
  <2> QED BY <1>3, <2>1, FS_Bijection
<1>9. Cardinality(Moves(s) \ {1}) = IF 1 \in Moves(s) THEN Cardinality(Moves(s)) - 1 ELSE Cardinality(Moves(s))
  BY <1>2, FS_RemoveElement
<1>10. 1 \in Moves(s) <=> IsMove(Head(s))
  BY <1>1, <1>2
<1> QED BY <1>2, <1>3, <1>8, <1>9, <1>10 DEF MoveOf, t

(* The commands of move_selected are moves. *)
LEMMA MovesConcat ==
  ASSUME NEW E, NEW s \in Seq(E), NEW c \in Seq(E), \A i \in 1..Len(c) : IsMove(c[i])
  PROVE  Cardinality(Moves(s \o c)) = Cardinality(Moves(s)) + Len(c)
<1> DEFINE t == s \o c
           more == (Len(s) + 1)..(Len(s) + Len(c))
<1>1. /\ t \in Seq(E) /\ Len(t) = Len(s) + Len(c) /\ Len(s) \in Nat /\ Len(c) \in Nat
      /\ \A i \in 1..Len(s) : t[i] = s[i]
      /\ \A i \in more : t[i] = c[i - Len(s)] /\ i - Len(s) \in 1..Len(c)
  <2>1. t \in Seq(E) /\ Len(t) = Len(s) + Len(c) /\ Len(s) \in Nat /\ Len(c) \in Nat
    OBVIOUS
  <2>2. \A i \in 1..Len(s) + Len(c) : t[i] = IF i <= Len(s) THEN s[i] ELSE c[i - Len(s)]
    BY ConcatProperties
  <2> HIDE DEF t
  <2> QED BY <2>1, <2>2
<1> HIDE DEF t
<1>2. Moves(s) = {i \in 1..Len(s) : IsMove(s[i])} /\ IsFiniteSet(Moves(s)) /\ Cardinality(Moves(s)) \in Nat
  BY MovesAre
<1>3. Moves(t) = {i \in 1..Len(t) : IsMove(t[i])}
  BY <1>1, MovesAre
<1>4. IsFiniteSet(more) /\ Cardinality(more) = Len(c)
  <2>1. Len(s) + 1 \in Int /\ Len(s) + Len(c) \in Int
    BY <1>1
  <2>2. IsFiniteSet(more) /\ Cardinality(more) = IF Len(s) + 1 > Len(s) + Len(c) THEN 0 ELSE (Len(s) + Len(c)) - (Len(s) + 1) + 1
    BY <2>1, FS_Interval
  <2> HIDE DEF more
  <2> QED BY <1>1, <2>2
<1>5. Moves(t) = Moves(s) \cup more
  <2>1. 1..Len(t) = 1..Len(s) \cup more
    BY <1>1
  <2>2. \A i \in more : IsMove(t[i])
    BY <1>1
  <2> HIDE DEF more
  <2> QED BY <1>1, <1>2, <1>3, <2>1, <2>2
<1>6. Moves(s) \cap more = {}
  BY <1>1, <1>2
<1> HIDE DEF more
<1>7. Cardinality(Moves(s) \cup more) = Cardinality(Moves(s)) + Cardinality(more) - Cardinality(Moves(s) \cap more)
  BY <1>2, <1>4, FS_Union
<1>8. Cardinality(Moves(s) \cap more) = 0
  BY <1>6, FS_EmptySet
<1> QED BY <1>1, <1>2, <1>4, <1>5, <1>7, <1>8 DEF t

-----------------------------------------------------------------------------
(* Taking one message out of a list                                       *)

(* No message is in the list twice. *)
Distinct(s) == \A i, j \in DOMAIN s : s[i] = s[j] => i = j

(* A list that is newest first has no message twice. *)
LEMMA DescendingIsDistinct ==
  ASSUME NEW E, E \subseteq Nat, NEW s \in Seq(E), IsDescending(s)
  PROVE  Distinct(s)
<1>1. s \in Seq(Nat)
  BY SeqMonotonic
<1> QED BY <1>1, DescendingDiffer DEF Distinct

(* t is s without the message u. *)
Without(t, s, u) == ToSet(t) = ToSet(s) \ {u}

(* Removing a message leaves the others in their order. *)
LEMMA RemoveUidIs ==
  ASSUME NEW E, E \subseteq Nat, NEW s \in Seq(E), NEW u
  PROVE  /\ RemoveUid(s, u) \in Seq(E)
         /\ Without(RemoveUid(s, u), s, u)
         /\ IsDescending(s) => IsDescending(RemoveUid(s, u))
         /\ Distinct(s) => Distinct(RemoveUid(s, u))
<1> DEFINE K == {i \in DOMAIN s : s[i] # u}
           p == RemoveUid(s, u)
<1>1. p = Picked(s, K)
  BY DEF RemoveUid
<1> HIDE DEF K, p
<1>2. p \in Seq(E) /\ ToSet(p) = {s[i] : i \in K \cap 1..Len(s)} /\ (IsDescending(s) => IsDescending(p))
  BY <1>1, PickedDescends
<1>3. DOMAIN s = 1..Len(s) /\ Len(s) \in Nat /\ DOMAIN p = 1..Len(p) /\ ToSet(s) = {s[i] : i \in 1..Len(s)} /\ Len(p) \in Nat
  BY <1>2, ToSetIs
<1>4. ToSet(p) = ToSet(s) \ {u}
  BY <1>2, <1>3 DEF K
<1>5. ASSUME Distinct(s) PROVE Distinct(p)
  <2> SUFFICES ASSUME NEW i \in 1..Len(p), NEW j \in 1..Len(p), p[i] = p[j] PROVE i = j
    BY <1>3 DEF Distinct
  <2>1. \A a, b \in 1..Len(p) : a < b => p[a] # p[b]
    <3> SUFFICES ASSUME NEW a \in 1..Len(p), NEW b \in 1..Len(p), a < b PROVE p[a] # p[b]
      OBVIOUS
    <3>1. Drawn(p, s, K)
      BY <1>1, PickedKeeps
    <3>2. PICK x, y \in K \cap 1..Len(s) : x < y /\ p[a] = s[x] /\ p[b] = s[y]
      BY <3>1 DEF Drawn
    <3> QED BY <1>3, <1>5, <3>2 DEF Distinct
  <2> QED BY <1>3, <2>1
<1> QED BY <1>2, <1>4, <1>5 DEF p, Without

(* Removing a message that is not there changes nothing. *)
LEMMA NothingRemoved ==
  ASSUME NEW E, NEW s \in Seq(E), NEW u, u \notin ToSet(s)
  PROVE  RemoveUid(s, u) = s
<1> DEFINE K == {i \in DOMAIN s : s[i] # u}
           p == Picked(s, K)
<1>1. Len(s) \in Nat /\ K = 1..Len(s)
  BY ToSetIs
<1> HIDE DEF K
<1>2. /\ p \in Seq(E) /\ Len(p) = Place(K, Len(s))
      /\ \A i \in K \cap 1..Len(s) : Place(K, i) \in 1..Len(p) /\ p[Place(K, i)] = s[i]
  BY PickedPlaces
<1>3. \A i \in 0..Len(s) : Place(K, i) = i
  <2> SUFFICES ASSUME NEW i \in 0..Len(s) PROVE Place(K, i) = i
    OBVIOUS
  <2>1. K \cap 1..i = 1..i
    BY <1>1
  <2>2. Cardinality(1..i) = i
    BY FS_Interval
  <2> QED BY <2>1, <2>2 DEF Place
<1> HIDE DEF p
<1>4. Len(p) = Len(s) /\ \A i \in 1..Len(s) : p[i] = s[i]
  BY <1>1, <1>2, <1>3
<1>5. p = s
  BY <1>2, <1>4, SeqEqual
<1> QED BY <1>5 DEF RemoveUid, p, K

(* The selection follows its rows when one leaves (Selection::remove). *)
LEMMA RemovedFollows ==
  ASSUME NEW E, NEW s \in Seq(E), Distinct(s), NEW row \in 1..Len(s), NEW A, NEW marks, OnRows(s, A, marks)
  PROVE  OnRows(RemoveUid(s, s[row]), Shift(A, Edit("removed", row)), marks \ {s[row]})
<1> DEFINE u == s[row]
           p == RemoveUid(s, u)
           L == Len(s)
           K == {i \in DOMAIN s : s[i] # u}
<1>1. L \in Nat /\ DOMAIN s = 1..L /\ \A i \in 1..L : s[i] = u => i = row
  BY DEF Distinct
<1>2. K = 1..L \ {row}
  BY <1>1
<1> HIDE DEF K
<1>3. /\ p \in Seq(E)
      /\ \A i \in K \cap 1..Len(s) : Place(K, i) \in 1..Len(p) /\ p[Place(K, i)] = s[i]
  BY PickedPlaces DEF RemoveUid, K
<1>4. ASSUME NEW i \in 1..L, i # row PROVE Place(K, i) = IF i > row THEN i - 1 ELSE i
  <2>1. IsFiniteSet(1..i) /\ Cardinality(1..i) = i
    BY FS_Interval
  <2>2. CASE i < row
    <3>1. K \cap 1..i = 1..i
      BY <1>1, <1>2, <2>2
    <3>2. ~(i > row)
      BY <1>1, <2>2
    <3> QED BY <2>1, <3>1, <3>2 DEF Place
  <2>3. CASE i > row
    <3>1. K \cap 1..i = 1..i \ {row} /\ row \in 1..i
      BY <1>1, <1>2, <2>3
    <3>2. Cardinality(1..i \ {row}) = i - 1
      BY <2>1, <3>1, FS_RemoveElement
    <3> QED BY <2>3, <3>1, <3>2 DEF Place
  <2> QED BY <1>1, <1>4, <2>2, <2>3
<1>5. A \in SUBSET (1..L) /\ marks = {s[r] : r \in A}
  BY DEF OnRows, Marked
<1> DEFINE to(r) == IF r > row THEN r - 1 ELSE r
           B == {to(r) : r \in A \ {row}}
<1>6. Shift(A, Edit("removed", row)) = B
  BY DEF Shift, Edit
<1>7. \A r \in A \ {row} : to(r) \in 1..Len(p) /\ p[to(r)] = s[r]
  <2> SUFFICES ASSUME NEW r \in A \ {row} PROVE to(r) \in 1..Len(p) /\ p[to(r)] = s[r]
    OBVIOUS
  <2>1. r \in 1..L /\ r # row
    BY <1>5
  <2>2. to(r) = Place(K, r) /\ r \in K \cap 1..Len(s)
    BY <1>2, <1>4, <2>1
  <2> HIDE DEF to, p
  <2> QED BY <1>3, <2>2
<1> HIDE DEF to, p
<1>8. B \in SUBSET (1..Len(p))
  BY <1>7
<1>9. Marked(p, B) = marks \ {u}
  <2>1. Marked(p, B) = {p[to(r)] : r \in A \ {row}}
    BY DEF Marked
  <2>2. Marked(p, B) = {s[r] : r \in A \ {row}}
    BY <1>7, <2>1
  <2> HIDE DEF u
  <2>3. \A r \in A : s[r] # u <=> r # row
    BY <1>1, <1>5 DEF u
  <2> QED BY <1>5, <2>2, <2>3
<1> QED BY <1>6, <1>8, <1>9 DEF OnRows, p

-----------------------------------------------------------------------------
(* Pages of the mailbox, and appending one (append)                       *)

(* The uids of a page or of a folder: handed out before n, newest first. *)
Lists(n) == {s \in Seq(1..n - 1) : IsDescending(s)}

(* Part of a list that is newest first is newest first. *)
LEMMA SubSeqDescends ==
  ASSUME NEW E, E \subseteq Nat, NEW s \in Seq(E), IsDescending(s), NEW m \in Nat \ {0}, NEW n \in 0..Len(s)
  PROVE  /\ SubSeq(s, m, n) \in Seq(E) /\ IsDescending(SubSeq(s, m, n))
         /\ Len(SubSeq(s, m, n)) = IF m <= n THEN n - m + 1 ELSE 0
         /\ \A i \in 1..Len(SubSeq(s, m, n)) : SubSeq(s, m, n)[i] = s[m + i - 1] /\ m + i - 1 \in 1..Len(s)
<1> DEFINE t == SubSeq(s, m, n)
<1>1. Len(s) \in Nat /\ DOMAIN s = 1..Len(s) /\ \A i \in 1..Len(s) : s[i] \in E
  OBVIOUS
<1>2. \A i \in m..n : s[i] \in E
  BY <1>1
<1>3. m \in Int /\ n \in Int
  BY <1>1
<1>4. /\ t \in Seq(E) /\ Len(t) = (IF m <= n THEN n - m + 1 ELSE 0)
      /\ \A i \in 1..n - m + 1 : t[i] = s[m + i - 1]
  BY <1>2, <1>3, SubSeqProperties
<1> HIDE DEF t
<1>5. ASSUME NEW i \in 1..Len(t) PROVE t[i] = s[m + i - 1] /\ m + i - 1 \in 1..Len(s)
  <2>1. i \in 1..n - m + 1 /\ m + i - 1 \in 1..Len(s)
    BY <1>1, <1>3, <1>4
  <2> QED BY <1>4, <2>1
<1>6. IsDescending(t)
  <2> SUFFICES ASSUME NEW i \in 1..Len(t), NEW j \in 1..Len(t), i < j PROVE t[i] > t[j]
    BY <1>4 DEF IsDescending
  <2>1. m + i - 1 < m + j - 1
    BY <1>3, <1>4
  <2> QED BY <1>1, <1>5, <2>1 DEF IsDescending
<1> QED BY <1>4, <1>5, <1>6 DEF t

(* The mailbox and what was told of it are of uids the server handed out. *)
MailOK == uidNext \in Nat \ {0} /\ server \in SUBSET (1..uidNext - 1) /\ listed \in SUBSET (1..uidNext - 1)

(* A page says of the messages down to its last one whether they are there. *)
Current(uids, S) == \A v \in S : v >= Floor(uids) => v \in ToSet(uids)

(* Sets of uids are finite. *)
LEMMA UidsFinite ==
  ASSUME NEW n \in Nat, NEW S \in SUBSET (1..n - 1)
  PROVE  IsFiniteSet(S) /\ S \subseteq Nat
<1>1. IsFiniteSet(1..n - 1)
  BY FS_Interval
<1>2. S \subseteq 1..n - 1 /\ S \subseteq Nat
  OBVIOUS
<1> QED BY <1>1, <1>2, FS_Subset

(* A sorted set of uids has just them. *)
LEMMA SortedIs ==
  ASSUME NEW n \in Nat, NEW S \in SUBSET (1..n - 1)
  PROVE  /\ Descending(S) \in Lists(n) /\ Len(Descending(S)) = Cardinality(S) /\ Cardinality(S) \in Nat
         /\ ToSet(Descending(S)) = S
<1>1. IsFiniteSet(S) /\ S \subseteq Nat
  BY UidsFinite
<1>2. /\ Descending(S) \in Seq(S) /\ Len(Descending(S)) = Cardinality(S) /\ Cardinality(S) \in Nat /\ IsDescending(Descending(S))
      /\ \A u \in S : Rank(S, u) \in 1..Cardinality(S) /\ Descending(S)[Rank(S, u)] = u
  BY <1>1, DescendingIs
<1>3. Descending(S) \in Seq(1..n - 1)
  BY <1>2, SeqMonotonic
<1>4. ToSet(Descending(S)) = {Descending(S)[i] : i \in 1..Cardinality(S)} /\ ToSet(Descending(S)) \subseteq S
  BY <1>2, ToSetIs
<1> QED BY <1>2, <1>3, <1>4 DEF Lists

(* And the other way round, as the results of a search are kept. *)
LEMMA AscendingIs ==
  ASSUME NEW n \in Nat, NEW S \in SUBSET (1..n - 1)
  PROVE  Ascending(S) \in Seq(1..n - 1) /\ Distinct(Ascending(S)) /\ Len(Ascending(S)) = Cardinality(S) /\ \A i \in 1..Len(Ascending(S)) : Ascending(S)[i] \in S
<1> DEFINE d == Descending(S)
           a == Ascending(S)
<1>1. d \in Lists(n) /\ Len(d) = Cardinality(S) /\ Cardinality(S) \in Nat /\ ToSet(d) = S
  BY SortedIs
<1>2. a = [i \in 1..Len(d) |-> d[(Len(d) - i) + 1]]
  BY DEF Ascending, Reverse
<1> HIDE DEF d, a
<1>3. d \in Seq(1..n - 1) /\ Distinct(d) /\ Len(d) \in Nat /\ DOMAIN d = 1..Len(d) /\ \A i \in 1..Len(d) : d[i] \in S
  <2>1. d \in Seq(1..n - 1) /\ IsDescending(d)
    BY <1>1 DEF Lists
  <2>2. 1..n - 1 \subseteq Nat
    OBVIOUS
  <2>3. Distinct(d)
    BY <2>1, <2>2, DescendingIsDistinct
  <2> QED BY <1>1, <2>1, <2>3, ToSetIs
<1>4. \A i \in 1..Len(d) : (Len(d) - i) + 1 \in 1..Len(d)
  BY <1>3
<1>5. a \in [1..Len(d) -> 1..n - 1] /\ \A i \in 1..Len(d) : a[i] \in S
  BY <1>2, <1>3, <1>4
<1>6. a \in Seq(1..n - 1) /\ Len(a) = Len(d) /\ DOMAIN a = 1..Len(d)
  BY <1>3, <1>5
<1>7. Distinct(a)
  <2> SUFFICES ASSUME NEW i \in 1..Len(d), NEW j \in 1..Len(d), a[i] = a[j] PROVE i = j
    BY <1>6 DEF Distinct
  <2>1. d[(Len(d) - i) + 1] = d[(Len(d) - j) + 1]
    BY <1>2
  <2>2. (Len(d) - i) + 1 = (Len(d) - j) + 1
    BY <1>3, <1>4, <2>1 DEF Distinct
  <2> QED BY <1>3, <2>2
<1> QED BY <1>1, <1>5, <1>6, <1>7 DEF a

(* The number of pages. *)
LEMMA TotalPagesIs ==
  ASSUME MailOK
  PROVE  TotalPages \in Nat
<1>1. Cardinality(server) \in Nat
  BY SortedIs DEF MailOK
<1>2. PageSize \in Nat \ {0}
  BY PageAssumption
<1>3. Cardinality(server) + PageSize - 1 \in Nat
  BY <1>1, <1>2
<1> QED BY <1>2, <1>3 DEF TotalPages

(* A page is newest first, and the first one tells of every message down to
   its last (fetch_headers). *)
LEMMA PageIs ==
  ASSUME MailOK, NEW page \in Nat \ {0}
  PROVE  /\ Page(page) \in Lists(uidNext)
         /\ page = 1 => Current(Page(page), server)
<1> DEFINE d == Descending(server)
           C == Cardinality(server)
           p == Max({1, Min({page, TotalPages})})
           m == (p - 1) * PageSize + 1
           n == Min({p * PageSize, C})
<1>1. /\ d \in Lists(uidNext) /\ Len(d) = C /\ C \in Nat /\ ToSet(d) = server
      /\ uidNext \in Nat /\ server \in SUBSET (1..uidNext - 1)
  BY SortedIs DEF MailOK
<1>2. PageSize \in Nat \ {0} /\ TotalPages \in Nat
  BY PageAssumption, TotalPagesIs
<1>3. p \in Nat \ {0} /\ (page = 1 => p = 1)
  <2>1. Min({page, TotalPages}) = IF page <= TotalPages THEN page ELSE TotalPages
    BY <1>2, OfTwo
  <2>2. Min({page, TotalPages}) \in Nat /\ (page = 1 => Min({page, TotalPages}) <= 1)
    BY <1>2, <2>1
  <2>3. p = IF 1 >= Min({page, TotalPages}) THEN 1 ELSE Min({page, TotalPages})
    BY <2>2, OfTwo
  <2> QED BY <2>2, <2>3
<1> HIDE DEF p
<1>4. m \in Nat \ {0} /\ n \in 0..C /\ p * PageSize \in Nat /\ n = IF p * PageSize <= C THEN p * PageSize ELSE C
  <2>1. p - 1 \in Nat
    BY <1>3
  <2>2. (p - 1) * PageSize \in Nat
    BY <1>2, <2>1
  <2>3. p * PageSize \in Nat
    BY <1>2, <1>3
  <2>4. n = IF p * PageSize <= C THEN p * PageSize ELSE C
    <3> DEFINE pp == p * PageSize
    <3>1. pp \in Int /\ C \in Int
      BY <1>1, <2>3
    <3>2. n = Min({pp, C})
      OBVIOUS
    <3> HIDE DEF pp, C, n
    <3>3. n = IF pp <= C THEN pp ELSE C
      BY <3>1, <3>2, OfTwo
    <3> QED BY <3>3 DEF pp
  <2> QED BY <1>1, <2>2, <2>3, <2>4
<1>5. Page(page) = SubSeq(d, m, n)
  BY DEF Page, p
<1> HIDE DEF d, C, m, n
<1>6. d \in Seq(1..uidNext - 1) /\ IsDescending(d) /\ 1..uidNext - 1 \subseteq Nat
  BY <1>1 DEF Lists
<1> DEFINE t == SubSeq(d, m, n)
<1>7. /\ t \in Seq(1..uidNext - 1) /\ IsDescending(t) /\ Len(t) = (IF m <= n THEN n - m + 1 ELSE 0)
      /\ \A i \in 1..Len(t) : t[i] = d[m + i - 1] /\ m + i - 1 \in 1..Len(d)
  <2> DEFINE E == 1..uidNext - 1
  <2>1. E \subseteq Nat /\ d \in Seq(E) /\ IsDescending(d) /\ m \in Nat \ {0} /\ n \in 0..Len(d)
    BY <1>1, <1>4, <1>6
  <2> HIDE DEF E
  <2>2. /\ SubSeq(d, m, n) \in Seq(E) /\ IsDescending(SubSeq(d, m, n))
        /\ Len(SubSeq(d, m, n)) = IF m <= n THEN n - m + 1 ELSE 0
        /\ \A i \in 1..Len(SubSeq(d, m, n)) : SubSeq(d, m, n)[i] = d[m + i - 1] /\ m + i - 1 \in 1..Len(d)
    BY ONLY <2>1, SubSeqDescends
  <2> QED BY ONLY <2>2 DEF E, t
<1> HIDE DEF t
<1>8. ASSUME page = 1 PROVE Current(t, server)
  <2>1. p = 1 /\ m = 1 /\ n = IF PageSize <= C THEN PageSize ELSE C
    BY <1>2, <1>3, <1>4, <1>8 DEF m
  <2>2. Len(t) = n /\ \A i \in 1..n : t[i] = d[i]
    BY <1>1, <1>2, <1>4, <1>7, <2>1
  <2>3. ASSUME NEW v \in server, v >= Floor(t) PROVE v \in ToSet(t)
    <3>1. PICK k \in 1..C : d[k] = v
      BY <1>1, <1>6, ToSetIs
    <3>2. k <= n
      <4>1. CASE n = C
        BY <3>1, <4>1
      <4>2. CASE n # C
        <5>1. n \in 1..C /\ t # <<>>
          BY <1>1, <1>2, <1>7, <2>1, <2>2, <4>2
        <5>2. Floor(t) = d[n]
          BY <2>2, <5>1 DEF Floor, Last
        <5>3. ~(n < k)
          <6>1. ASSUME n < k PROVE FALSE
            <7>0. DOMAIN d = 1..C /\ n \in 1..C /\ k \in 1..C
              BY <1>1, <1>6, <3>1, <5>1
            <7>1. d[n] > d[k]
              BY <1>6, <6>1, <7>0 DEF IsDescending
            <7>2. d[n] \in Nat /\ d[k] \in Nat
              BY <1>1, <1>6, <3>1, <5>1
            <7> QED BY <2>3, <3>1, <5>2, <7>1, <7>2
          <6> QED BY <6>1
        <5> QED BY <3>1, <5>1, <5>3
      <4> QED BY <4>1, <4>2
    <3>3. k \in 1..n /\ t[k] = v
      BY <1>1, <1>4, <2>2, <3>1, <3>2
    <3> QED BY <1>7, <2>2, <3>3, ToSetIs
  <2> QED BY <2>3 DEF Current
<1>9. t \in Lists(uidNext)
  BY <1>7 DEF Lists
<1> QED BY <1>5, <1>8, <1>9 DEF t

(* t are the rows s and the uids older than the last of them. *)
Joined(t, s, uids) == ToSet(t) = ToSet(s) \cup {u \in ToSet(uids) : s = <<>> \/ u < Last(s)}

(* What append adds comes after the rows that are there. *)
LEMMA OlderIs ==
  ASSUME NEW n \in Nat, NEW f, f.rows \in Lists(n), NEW uids \in Lists(n)
  PROVE  /\ Older(f, uids) \in Seq(1..n - 1)
         /\ f.rows \o Older(f, uids) \in Lists(n)
         /\ Joined(f.rows \o Older(f, uids), f.rows, uids)
<1> DEFINE s == f.rows
           K == {i \in DOMAIN uids : s = <<>> \/ uids[i] < Last(s)}
           o == Older(f, uids)
           E == 1..n - 1
           t == s \o o
<1>1. s \in Seq(E) /\ IsDescending(s) /\ uids \in Seq(E) /\ IsDescending(uids) /\ E \subseteq Nat
  BY DEF Lists
<1>2. o = Picked(uids, K)
  BY DEF Older
<1> HIDE DEF s, K, o, E
<1>3. o \in Seq(E) /\ ToSet(o) = {uids[i] : i \in K \cap 1..Len(uids)} /\ IsDescending(o)
  BY <1>1, <1>2, PickedDescends
<1>4. /\ Len(s) \in Nat /\ DOMAIN s = 1..Len(s) /\ ToSet(s) = {s[i] : i \in 1..Len(s)}
      /\ Len(o) \in Nat /\ DOMAIN o = 1..Len(o) /\ ToSet(o) = {o[i] : i \in 1..Len(o)}
      /\ DOMAIN uids = 1..Len(uids) /\ ToSet(uids) = {uids[i] : i \in 1..Len(uids)}
      /\ \A i \in 1..Len(s) : s[i] \in Nat
      /\ \A i \in 1..Len(o) : o[i] \in Nat /\ o[i] \in ToSet(o)
  BY <1>1, <1>3, ToSetIs
<1>5. ToSet(o) = {u \in ToSet(uids) : s = <<>> \/ u < Last(s)}
  BY <1>3, <1>4 DEF K
<1>6. /\ t \in Seq(E) /\ Len(t) = Len(s) + Len(o)
      /\ \A i \in 1..Len(s) + Len(o) : t[i] = IF i <= Len(s) THEN s[i] ELSE o[i - Len(s)]
  BY <1>1, <1>3, ConcatProperties
<1> HIDE DEF t
<1>7. DOMAIN t = 1..Len(t) /\ ToSet(t) = {t[i] : i \in 1..Len(t)}
  BY <1>6, ToSetIs
<1>8. IsDescending(t)
  <2> SUFFICES ASSUME NEW i \in 1..Len(t), NEW j \in 1..Len(t), i < j PROVE t[i] > t[j]
    BY <1>7 DEF IsDescending
  <2>1. CASE j <= Len(s)
    <3>1. i \in 1..Len(s) /\ j \in 1..Len(s) /\ t[i] = s[i] /\ t[j] = s[j]
      BY <1>4, <1>6, <2>1
    <3> QED BY <1>1, <1>4, <3>1 DEF IsDescending
  <2>2. CASE i > Len(s)
    <3>0. i - Len(s) \in 1..Len(o) /\ j - Len(s) \in 1..Len(o) /\ i - Len(s) < j - Len(s) /\ ~(i <= Len(s)) /\ ~(j <= Len(s))
      BY <1>4, <1>6, <2>2
    <3>1. t[i] = o[i - Len(s)] /\ t[j] = o[j - Len(s)]
      BY <1>6, <3>0
    <3> QED BY <1>3, <1>4, <3>0, <3>1 DEF IsDescending
  <2>3. CASE i <= Len(s) /\ j > Len(s)
    <3>0. i \in 1..Len(s) /\ Len(s) \in 1..Len(s) /\ j - Len(s) \in 1..Len(o) /\ ~(j <= Len(s))
      BY <1>4, <1>6, <2>3
    <3>1. /\ i \in 1..Len(s) /\ Len(s) \in 1..Len(s) /\ j - Len(s) \in 1..Len(o)
          /\ t[i] = s[i] /\ t[j] = o[j - Len(s)]
      BY <1>6, <3>0
    <3>2. o[j - Len(s)] < s[Len(s)]
      <4>1. s # <<>>
        BY <1>1, <3>0
      <4>2. o[j - Len(s)] \in ToSet(o)
        BY <1>4, <3>0
      <4> QED BY <1>5, <4>1, <4>2 DEF Last
    <3>3. i < Len(s) => s[i] > s[Len(s)]
      BY <1>1, <1>4, <3>1 DEF IsDescending
    <3>4. s[i] \in Nat /\ s[Len(s)] \in Nat /\ o[j - Len(s)] \in Nat
      BY <1>4, <3>1
    <3> QED BY <1>4, <3>1, <3>2, <3>3, <3>4
  <2> QED BY <1>4, <1>6, <2>1, <2>2, <2>3
<1>9. ToSet(t) = ToSet(s) \cup ToSet(o)
  <2>1. ASSUME NEW i \in 1..Len(t) PROVE t[i] \in ToSet(s) \cup ToSet(o)
    <3>1. CASE i <= Len(s)
      BY <1>4, <1>6, <3>1
    <3>2. CASE i > Len(s)
      <4>1. i - Len(s) \in 1..Len(o) /\ t[i] = o[i - Len(s)]
        BY <1>4, <1>6, <3>2
      <4> QED BY <1>4, <4>1
    <3> QED BY <1>4, <1>6, <3>1, <3>2
  <2>2. ASSUME NEW i \in 1..Len(s) PROVE s[i] \in ToSet(t)
    <3>1. i \in 1..Len(t) /\ i \in 1..Len(s) + Len(o) /\ i <= Len(s)
      BY <1>4, <1>6
    <3>2. t[i] = s[i]
      BY <1>6, <3>1
    <3> QED BY <1>7, <3>1, <3>2
  <2>3. ASSUME NEW i \in 1..Len(o) PROVE o[i] \in ToSet(t)
    <3>1. i + Len(s) \in 1..Len(t) /\ ~(i + Len(s) <= Len(s)) /\ (i + Len(s)) - Len(s) = i
      BY <1>4, <1>6
    <3>2. t[i + Len(s)] = o[i]
      BY <1>6, <3>1
    <3> QED BY <1>7, <3>1, <3>2
  <2> QED BY <1>4, <1>7, <2>1, <2>2, <2>3
<1>10. t \in Lists(n)
  BY <1>6, <1>8 DEF Lists, E
<1>11. Joined(t, s, uids)
  BY <1>5, <1>9 DEF Joined
<1> QED BY <1>3, <1>10, <1>11 DEF t, s, o, E

-----------------------------------------------------------------------------
(* The values of the variables, and what apply_reply makes of them        *)

(* The replies to requests, the commands and the events with uids handed out
   before n. *)
Replies(n) == [op : {"headers"}, page : Nat \ {0}, id : Nat, of : Nat, uids : Lists(n), total : Nat]
Cmds(n) == [op : {"headers"}, page : Nat \ {0}, id : Nat, of : Nat] \cup [op : {"move"}, uid : 1..n - 1]
Events(n) == Replies(n) \cup [op : {"error", "newHeaders", "connected"}] \cup [op : {"moved", "moveFailed"}, uid : 1..n - 1]

(* The fields of an open folder; and with ids that the counter gave out. *)
OpenFolders(n) ==
  [rows : Lists(n), nextPage : Nat \ {0}, firstPage : BOOLEAN, totalPages : Nat \cup {None},
   lastId : Nat, pageReq : Nat, refreshReq : Nat]

Folders(n) == {f \in OpenFolders(n) : f.pageReq <= f.lastId /\ f.refreshReq <= f.lastId}

(* What a reply makes of the folder f, of its rows and of a selection S on
   them: it was waited for, nothing is listed that was not or is in it, and
   what leaves the list is within its range and not in it. *)
Dropped(f, g) == ToSet(f.rows) \ ToSet(g.rows)
Lost(r) == {u \in Nat : u >= Floor(r.uids) /\ u \notin ToSet(r.uids)}

Answers(a, f, r, S) ==
  /\ a.kind = "stale" => a.folder = f
  /\ a.kind # "stale" => /\ OnRows(a.folder.rows, ShiftAll(S, a.edits), Marked(f.rows, S) \cap ToSet(a.folder.rows))
                         /\ (r.id = f.pageReq /\ a.folder.firstPage /\ a.folder.pageReq = NoRequest /\ a.folder.refreshReq = f.refreshReq)
                            \/ (r.id = f.refreshReq /\ a.folder.firstPage = f.firstPage /\ a.folder.refreshReq = NoRequest /\ a.folder.pageReq = f.pageReq)
  /\ a.folder.lastId = f.lastId
  /\ ToSet(a.folder.rows) \subseteq ToSet(f.rows) \cup ToSet(r.uids)
  /\ Dropped(f, a.folder) \subseteq Lost(r)
  /\ Dropped(f, a.folder) # {} => (r.id = f.pageReq /\ ~f.firstPage) \/ r.id = f.refreshReq

(* What merging makes of the folder g, f but for its requests. *)
Became(a, f, g, r, S) ==
  /\ a.folder.lastId = g.lastId /\ a.folder.firstPage = g.firstPage /\ a.folder.pageReq = g.pageReq /\ a.folder.refreshReq = g.refreshReq
  /\ OnRows(a.folder.rows, ShiftAll(S, a.edits), Marked(f.rows, S) \cap ToSet(a.folder.rows))
  /\ ToSet(a.folder.rows) \subseteq ToSet(f.rows) \cup ToSet(r.uids)
  /\ Dropped(f, a.folder) \subseteq Lost(r)

(* A refresh, or the first page after a seed, is merged. *)
LEMMA MergedIs ==
  ASSUME NEW n \in Nat, NEW f \in Folders(n), NEW g \in Folders(n), g.rows = f.rows, NEW r \in Replies(n), NEW S \in SUBSET (1..Len(f.rows)),
         NEW a, a = Refreshed(g, r.uids)
  PROVE  a.kind = "refreshed" /\ a.folder \in Folders(n) /\ Became(a, f, g, r, S)
<1> DEFINE m == MergeNewest(f.rows, r.uids)
           E == 1..n - 1
<1>1. E \subseteq Nat /\ f.rows \in Seq(E) /\ IsDescending(f.rows) /\ r.uids \in Seq(E)
  BY DEF Folders, OpenFolders, Replies, Lists
<1>2. a = [kind |-> "refreshed", folder |-> [g EXCEPT !.rows = m.rows], added |-> 0, edits |-> m.edits]
  BY DEF Refreshed, Applied
<1> HIDE DEF m, E
<1>3. /\ m \in Merges(E) /\ IsDescending(m.rows)
      /\ ToSet(m.rows) = {u \in ToSet(f.rows) : ~(u >= Floor(r.uids))} \cup ToSet(r.uids)
      /\ Follows(m, S, Marked(f.rows, S) \cap ToSet(m.rows))
  BY <1>1, MergeNewestIs DEF m
<1>4. m.rows \in Lists(n)
  BY <1>3 DEF Merges, Lists, E
<1>10. g \in OpenFolders(n) /\ g.pageReq <= g.lastId /\ g.refreshReq <= g.lastId
  BY DEF Folders
<1>5. a.kind = "refreshed" /\ a.edits = m.edits /\ a.folder = [g EXCEPT !.rows = m.rows]
  BY <1>2
<1>11. /\ a.folder \in OpenFolders(n) /\ a.folder.rows = m.rows
       /\ a.folder.lastId = g.lastId /\ a.folder.firstPage = g.firstPage /\ a.folder.pageReq = g.pageReq /\ a.folder.refreshReq = g.refreshReq
  BY <1>4, <1>5, <1>10 DEF OpenFolders
<1>9. /\ a.folder \in Folders(n) /\ a.folder.rows = m.rows
      /\ a.folder.lastId = g.lastId /\ a.folder.firstPage = g.firstPage /\ a.folder.pageReq = g.pageReq /\ a.folder.refreshReq = g.refreshReq
  BY <1>10, <1>11 DEF Folders
<1>6. OnRows(a.folder.rows, ShiftAll(S, a.edits), Marked(f.rows, S) \cap ToSet(a.folder.rows))
  BY <1>3, <1>5, <1>9 DEF Follows
<1>7. ToSet(f.rows) \subseteq Nat
  BY <1>1, ToSetIs
<1>8. ToSet(a.folder.rows) \subseteq ToSet(f.rows) \cup ToSet(r.uids) /\ Dropped(f, a.folder) \subseteq Lost(r)
  BY <1>3, <1>7, <1>9 DEF Dropped, Lost
<1> QED BY <1>5, <1>6, <1>8, <1>9 DEF Became

(* What appending makes of the rows of f: none leaves, and none moves. *)
Grew(t, f, r, S) ==
  /\ OnRows(t, S, Marked(f.rows, S) \cap ToSet(t))
  /\ ToSet(t) \subseteq ToSet(f.rows) \cup ToSet(r.uids) /\ ToSet(f.rows) \subseteq ToSet(t)

(* A page is appended. *)
LEMMA AppendedIs ==
  ASSUME NEW n \in Nat, NEW f \in Folders(n), NEW r \in Replies(n), NEW S \in SUBSET (1..Len(f.rows))
  PROVE  f.rows \o Older(f, r.uids) \in Lists(n) /\ Grew(f.rows \o Older(f, r.uids), f, r, S)
<1> DEFINE s == f.rows
           older == Older(f, r.uids)
           t == s \o older
<1>1. f.rows \in Lists(n) /\ r.uids \in Lists(n)
  BY DEF Folders, OpenFolders, Replies
<1>2. older \in Seq(1..n - 1) /\ t \in Lists(n) /\ Joined(t, f.rows, r.uids)
  BY <1>1, OlderIs
<1> HIDE DEF t, older
<1>4. s \in Seq(1..n - 1)
  BY <1>1 DEF Lists
<1> HIDE DEF s
<1>5. /\ Len(t) = Len(s) + Len(older) /\ Len(s) \in Nat /\ Len(older) \in Nat
      /\ \A i \in 1..Len(s) + Len(older) : t[i] = IF i <= Len(s) THEN s[i] ELSE older[i - Len(s)]
  BY <1>2, <1>4, ConcatProperties DEF t
<1> USE DEF s
<1>7. ToSet(t) \subseteq ToSet(f.rows) \cup ToSet(r.uids) /\ ToSet(f.rows) \subseteq ToSet(t)
  BY <1>2 DEF Joined
<1>9. S \in SUBSET (1..Len(t)) /\ \A i \in S : t[i] = f.rows[i] /\ f.rows[i] \in ToSet(t)
  <2>1. ASSUME NEW i \in S PROVE i \in 1..Len(t) /\ t[i] = f.rows[i]
    <3>1. i \in 1..Len(f.rows)
      OBVIOUS
    <3>2. i \in 1..Len(s)
      BY <3>1 DEF s
    <3> HIDE DEF s
    <3>3. i \in 1..Len(s) + Len(older) /\ i <= Len(s)
      BY <1>5, <3>2
    <3>4. i \in 1..Len(t) /\ t[i] = s[i]
      BY <1>5, <3>3
    <3> QED BY <3>4 DEF s
  <2>2. ASSUME NEW i \in S PROVE f.rows[i] \in ToSet(f.rows)
    BY <1>4, ToSetIs
  <2> QED BY <1>7, <2>1, <2>2
<1>10. OnRows(t, S, Marked(f.rows, S) \cap ToSet(t))
  BY <1>9 DEF OnRows, Marked
<1> QED BY <1>2, <1>7, <1>10 DEF Grew, t, older

(* apply_reply, in each of its cases. *)
LEMMA ApplyReplyIs ==
  ASSUME NEW n \in Nat, NEW f \in Folders(n), NEW r \in Replies(n), NEW S \in SUBSET (1..Len(f.rows))
  PROVE  ApplyReply(f, r).folder \in Folders(n) /\ Answers(ApplyReply(f, r), f, r, S)
<1> DEFINE a == ApplyReply(f, r)
           np == IF IsCachedOnly(f) THEN Max({f.nextPage, r.page + 1}) ELSE r.page + 1
           g == [f EXCEPT !.pageReq = NoRequest, !.totalPages = r.total, !.firstPage = TRUE, !.nextPage = np]
           h == [f EXCEPT !.refreshReq = NoRequest, !.totalPages = r.total]
           older == Older(f, r.uids)
           pasted == Applied("page", [g EXCEPT !.rows = @ \o older], Len(older), <<>>)
<1>1. f.nextPage \in Nat \ {0} /\ r.page \in Nat \ {0} /\ r.total \in Nat /\ f.lastId \in Nat
  BY DEF Folders, OpenFolders, Replies
<1>14. f \in OpenFolders(n) /\ f.pageReq <= f.lastId /\ f.refreshReq <= f.lastId
  BY DEF Folders
<1>2. Max({f.nextPage, r.page + 1}) \in Nat \ {0}
  <2>1. f.nextPage \in Int /\ r.page + 1 \in Int
    BY <1>1
  <2>2. Max({f.nextPage, r.page + 1}) = IF f.nextPage >= r.page + 1 THEN f.nextPage ELSE r.page + 1
    BY <2>1, OfTwo
  <2> QED BY <1>1, <2>2
<1>4. np \in Nat \ {0}
  BY <1>1, <1>2
<1>5. a = IF f.pageReq = r.id THEN IF IsCachedOnly(f) THEN Refreshed(g, r.uids) ELSE pasted
          ELSE IF f.refreshReq = r.id THEN Refreshed(h, r.uids)
          ELSE [kind |-> "stale", folder |-> f, added |-> 0, edits |-> <<>>]
  BY DEF ApplyReply, Applied
<1> HIDE DEF np, a, pasted, older
<1>6. g \in Folders(n) /\ g.rows = f.rows /\ g.pageReq = NoRequest /\ g.refreshReq = f.refreshReq /\ g.firstPage = TRUE /\ g.lastId = f.lastId
  <2>1. /\ g \in OpenFolders(n) /\ g.rows = f.rows /\ g.pageReq = 0 /\ g.refreshReq = f.refreshReq
        /\ g.firstPage = TRUE /\ g.lastId = f.lastId
    BY <1>1, <1>4, <1>14 DEF OpenFolders, NoRequest
  <2> HIDE DEF g
  <2> QED BY <1>1, <1>14, <2>1 DEF Folders, NoRequest
<1>7. h \in Folders(n) /\ h.rows = f.rows /\ h.pageReq = f.pageReq /\ h.refreshReq = NoRequest /\ h.firstPage = f.firstPage /\ h.lastId = f.lastId
  <2>1. /\ h \in OpenFolders(n) /\ h.rows = f.rows /\ h.pageReq = f.pageReq /\ h.refreshReq = 0
        /\ h.firstPage = f.firstPage /\ h.lastId = f.lastId
    BY <1>1, <1>14 DEF OpenFolders, NoRequest
  <2> HIDE DEF h
  <2> QED BY <1>1, <1>14, <2>1 DEF Folders, NoRequest
<1> HIDE DEF g, h
<1>8. CASE f.pageReq = r.id /\ IsCachedOnly(f)
  <2>1. a = Refreshed(g, r.uids)
    BY <1>5, <1>8
  <2>2. a.kind = "refreshed" /\ a.folder \in Folders(n) /\ Became(a, f, g, r, S)
    BY <1>6, <2>1, MergedIs
  <2>4. Answers(a, f, r, S)
    BY <1>6, <1>8, <2>2 DEF Answers, Became, IsCachedOnly
  <2> QED BY <2>2, <2>4 DEF a
<1>9. CASE f.pageReq = r.id /\ ~IsCachedOnly(f)
  <2>1. a = pasted
    BY <1>5, <1>9
  <2> DEFINE t == f.rows \o older
  <2>3. t \in Lists(n) /\ Grew(t, f, r, S)
    BY AppendedIs DEF older
  <2>5. g \in OpenFolders(n) /\ g.pageReq <= g.lastId /\ g.refreshReq <= g.lastId
    BY <1>6 DEF Folders
  <2>6. a.kind = "page" /\ a.edits = <<>> /\ a.folder = [g EXCEPT !.rows = t]
    BY <1>6, <2>1, <2>5 DEF pasted, Applied, OpenFolders
  <2> HIDE DEF t
  <2>7. /\ a.folder \in OpenFolders(n) /\ a.folder.rows = t
        /\ a.folder.lastId = g.lastId /\ a.folder.firstPage = g.firstPage /\ a.folder.pageReq = g.pageReq /\ a.folder.refreshReq = g.refreshReq
    BY <2>3, <2>5, <2>6 DEF OpenFolders
  <2>8. a.folder \in Folders(n)
    BY <2>5, <2>7 DEF Folders
  <2>9. ShiftAll(S, a.edits) = S
    <3>1. S \in SUBSET Nat
      OBVIOUS
    <3> QED BY <2>6, <3>1, ShiftAllSteps
  <2>10. Dropped(f, a.folder) = {}
    BY <2>3, <2>7 DEF Dropped, Grew
  <2>2. a.kind = "page" /\ a.folder \in Folders(n) /\ Became(a, f, g, r, S) /\ Dropped(f, a.folder) = {}
    BY <2>3, <2>6, <2>7, <2>8, <2>9, <2>10 DEF Became, Grew
  <2>4. Answers(a, f, r, S)
    BY <1>6, <1>9, <2>2 DEF Answers, Became
  <2> QED BY <2>2, <2>4 DEF a
<1>10. CASE f.pageReq # r.id /\ f.refreshReq = r.id
  <2>1. a = Refreshed(h, r.uids)
    BY <1>5, <1>10
  <2>2. a.kind = "refreshed" /\ a.folder \in Folders(n) /\ Became(a, f, h, r, S)
    BY <1>7, <2>1, MergedIs
  <2>4. Answers(a, f, r, S)
    BY <1>7, <1>10, <2>2 DEF Answers, Became
  <2> QED BY <2>2, <2>4 DEF a
<1>11. CASE f.pageReq # r.id /\ f.refreshReq # r.id
  <2>1. a = [kind |-> "stale", folder |-> f, added |-> 0, edits |-> <<>>]
    BY <1>5, <1>11
  <2>2. a.kind = "stale" /\ a.folder = f
    BY <2>1
  <2>3. Dropped(f, f) = {}
    BY DEF Dropped
  <2>4. Answers(a, f, r, S)
    BY <2>2, <2>3 DEF Answers
  <2> QED BY <2>2, <2>4 DEF a
<1> QED BY <1>8, <1>9, <1>10, <1>11

-----------------------------------------------------------------------------
(* The inductive invariant of the lists, the selection and the moves      *)

(* The results of a search: each message once. *)
Found(n) == {s \in Seq(1..n - 1) : Distinct(s)}

(* The conjuncts of the invariant: the mailbox and the counters; the rows,
   the results and the selection on whichever of them is shown; commands and
   events, and the moves among them. *)
CountOK == opening \in Nat /\ faults \in Nat /\ queries \in Nat
MailInv == MailOK /\ CountOK
FolderOK == folder \in Folders(uidNext)
ResultsOK == results \in Found(uidNext) \cup {None}
SelectionOK == OnRows(Shown, sel, chosen) /\ posted \in Seq(Nat \ {0}) /\ selected \in (1..uidNext - 1) \cup {None}
ListInv == FolderOK /\ ResultsOK /\ SelectionOK
WireOK == q \in Seq(Cmds(uidNext)) /\ ev \in Seq(Events(uidNext))
Counted == pending \in Nat /\ PendingIsOutstanding
WireInv == WireOK /\ Counted
Inv == MailInv /\ ListInv /\ WireInv

(* Nothing is selected in rows that were just set. *)
LEMMA NothingSelected ==
  ASSUME NEW s
  PROVE  OnRows(s, {}, {})
BY DEF OnRows, Marked

(* The lists and the selection are as before. *)
LEMMA ListStays ==
  ASSUME ListInv, UNCHANGED <<folder, results, sel, chosen, posted, selected, uidNext>>
  PROVE  ListInv'
BY DEF ListInv, FolderOK, ResultsOK, SelectionOK, Shown

(* The folder has the rows it had. *)
LEMMA RowsStay ==
  ASSUME ListInv, UNCHANGED <<results, sel, chosen, posted, selected, uidNext>>, folder' \in Folders(uidNext), folder'.rows = folder.rows
  PROVE  ListInv'
BY DEF ListInv, FolderOK, ResultsOK, SelectionOK, Shown

(* The mailbox is as before. *)
LEMMA MailStays ==
  ASSUME MailInv, UNCHANGED <<uidNext, server, listed>>, CountOK'
  PROVE  MailInv'
BY DEF MailInv, MailOK

(* Commands and events are as before. *)
LEMMA WireStays ==
  ASSUME WireInv, UNCHANGED <<uidNext, pending, q, ev>>
  PROVE  WireInv'
BY DEF WireInv, WireOK, Counted, PendingIsOutstanding

(* A folder just opened has no rows. *)
LEMMA NewFolderIs ==
  ASSUME NEW n \in Nat
  PROVE  NewFolder \in Folders(n) /\ ~IsComplete(NewFolder) /\ NewFolder.rows = <<>>
<1>1. <<>> \in Lists(n)
  BY DEF Lists, IsDescending
<1>2. NewFolder \in OpenFolders(n) /\ NewFolder.pageReq = 0 /\ NewFolder.refreshReq = 0 /\ NewFolder.lastId = 0
  BY <1>1 DEF NewFolder, OpenFolders, NoRequest
<1>3. NewFolder.totalPages = None /\ NewFolder.rows = <<>>
  BY DEF NewFolder
<1> QED BY <1>2, <1>3 DEF Folders, IsComplete

(* A page is asked for, or not: the rows stay, and the ids are new. *)
Sent(c) == q' = Append(q, c) /\ faults' = faults

Asked(f, of) ==
  /\ folder'.rows = f.rows /\ folder'.firstPage = f.firstPage /\ folder'.refreshReq = f.refreshReq
  /\ folder'.nextPage = f.nextPage /\ folder'.totalPages = f.totalPages
  /\ \/ folder' = f /\ UNCHANGED <<q, faults>> /\ (f.pageReq # NoRequest \/ IsComplete(f))
     \/ folder'.lastId = f.lastId + 1 /\ folder'.pageReq = f.lastId + 1 /\ Sent(FetchHeaders(f.nextPage, f.lastId + 1, of))
     \/ folder'.lastId = f.lastId + 1 /\ UNCHANGED q /\ faults' = faults + 1

(* request_page. *)
LEMMA RequestPageIs ==
  ASSUME NEW n \in Nat, NEW f \in Folders(n), NEW of \in Nat, RequestPage(f, of)
  PROVE  folder' \in Folders(n) /\ Asked(f, of)
<1> DEFINE id == f.lastId + 1
           g == [f EXCEPT !.lastId = id, !.pageReq = id]
           h == [g EXCEPT !.pageReq = NoRequest]
<1>1. f \in OpenFolders(n) /\ f.pageReq <= f.lastId /\ f.refreshReq <= f.lastId /\ f.lastId \in Nat /\ f.pageReq \in Nat /\ f.refreshReq \in Nat
  BY DEF Folders, OpenFolders
<1>2. id \in Nat
  BY <1>1
<1>3. \/ folder' = f /\ UNCHANGED <<q, faults>> /\ (f.pageReq # NoRequest \/ IsComplete(f))
      \/ folder' = g /\ Sent(FetchHeaders(f.nextPage, id, of))
      \/ folder' = h /\ UNCHANGED q /\ faults' = faults + 1
  BY DEF RequestPage, Fault, Sent
<1> HIDE DEF id
<1>4. /\ g \in OpenFolders(n) /\ g.lastId = id /\ g.pageReq = id /\ g.refreshReq = f.refreshReq
      /\ g.rows = f.rows /\ g.firstPage = f.firstPage /\ g.nextPage = f.nextPage /\ g.totalPages = f.totalPages
  BY <1>1, <1>2 DEF OpenFolders
<1> HIDE DEF g
<1>5. /\ h \in OpenFolders(n) /\ h.lastId = id /\ h.pageReq = 0 /\ h.refreshReq = f.refreshReq
      /\ h.rows = f.rows /\ h.firstPage = f.firstPage /\ h.nextPage = f.nextPage /\ h.totalPages = f.totalPages
  BY <1>4 DEF OpenFolders, NoRequest
<1> HIDE DEF h
<1>6. g \in Folders(n) /\ h \in Folders(n)
  BY <1>1, <1>4, <1>5 DEF Folders, id
<1>7. CASE folder' = f /\ UNCHANGED <<q, faults>> /\ (f.pageReq # NoRequest \/ IsComplete(f))
  BY <1>7 DEF Asked
<1>8. CASE folder' = g /\ Sent(FetchHeaders(f.nextPage, id, of))
  BY <1>4, <1>6, <1>8 DEF Asked, id
<1>9. CASE folder' = h /\ UNCHANGED q /\ faults' = faults + 1
  BY <1>5, <1>6, <1>9 DEF Asked, id
<1> QED BY <1>3, <1>7, <1>8, <1>9

(* The newest page is asked for again, or not. *)
Renewed ==
  /\ folder'.rows = folder.rows /\ folder'.firstPage = folder.firstPage /\ folder'.pageReq = folder.pageReq
  /\ folder'.nextPage = folder.nextPage /\ folder'.totalPages = folder.totalPages
  /\ \/ ~folder.firstPage /\ UNCHANGED <<folder, q, faults>>
     \/ folder.firstPage /\ folder'.lastId = folder.lastId + 1 /\ folder'.refreshReq = folder.lastId + 1 /\ Sent(FetchHeaders(1, folder.lastId + 1, opening))
     \/ folder.firstPage /\ folder'.lastId = folder.lastId + 1 /\ folder'.refreshReq = folder.lastId + 1 /\ UNCHANGED q /\ faults' = faults + 1

(* request_refresh. *)
LEMMA RequestRefreshIs ==
  ASSUME FolderOK, RequestRefresh
  PROVE  folder' \in Folders(uidNext) /\ Renewed
<1> DEFINE id == folder.lastId + 1
           g == [folder EXCEPT !.lastId = id, !.refreshReq = id]
<1>1. folder \in OpenFolders(uidNext) /\ folder.pageReq <= folder.lastId /\ folder.lastId \in Nat /\ folder.pageReq \in Nat
  BY DEF FolderOK, Folders, OpenFolders
<1>2. id \in Nat
  BY <1>1
<1>3. \/ ~folder.firstPage /\ UNCHANGED <<folder, q, faults>>
      \/ folder.firstPage /\ folder' = g /\ Sent(FetchHeaders(1, id, opening))
      \/ folder.firstPage /\ folder' = g /\ UNCHANGED q /\ faults' = faults + 1
  BY DEF RequestRefresh, Fault, Sent
<1> HIDE DEF id
<1>4. /\ g \in OpenFolders(uidNext) /\ g.lastId = id /\ g.refreshReq = id /\ g.pageReq = folder.pageReq
      /\ g.rows = folder.rows /\ g.firstPage = folder.firstPage /\ g.nextPage = folder.nextPage /\ g.totalPages = folder.totalPages
  BY <1>1, <1>2 DEF OpenFolders
<1> HIDE DEF g
<1>5. g \in Folders(uidNext)
  BY <1>1, <1>4 DEF Folders, id
<1>6. CASE ~folder.firstPage /\ UNCHANGED <<folder, q, faults>>
  BY <1>6 DEF Renewed, FolderOK
<1>7. CASE folder.firstPage /\ folder' = g /\ Sent(FetchHeaders(1, id, opening))
  BY <1>4, <1>5, <1>7 DEF Renewed, id
<1>8. CASE folder.firstPage /\ folder' = g /\ UNCHANGED q /\ faults' = faults + 1
  BY <1>4, <1>5, <1>8 DEF Renewed, id
<1> QED BY <1>3, <1>6, <1>7, <1>8

(* A request for headers is a command, and no move. *)
LEMMA HeadersCommand ==
  ASSUME NEW n \in Nat, NEW page \in Nat \ {0}, NEW id \in Nat, NEW of \in Nat
  PROVE  FetchHeaders(page, id, of) \in Cmds(n) /\ MoveOf(FetchHeaders(page, id, of)) = 0
BY DEF FetchHeaders, Cmds, MoveOf, IsMove

(* Asking for headers leaves the moves as they were. *)
LEMMA SendingHeaders ==
  ASSUME WireInv, MailOK, UNCHANGED <<uidNext, pending, ev>>,
         q' = q \/ \E page \in Nat \ {0}, id, of \in Nat : q' = Append(q, FetchHeaders(page, id, of))
  PROVE  WireInv'
<1>1. CASE q' = q
  BY <1>1, WireStays
<1>2. CASE \E page \in Nat \ {0}, id, of \in Nat : q' = Append(q, FetchHeaders(page, id, of))
  <2>1. PICK page \in Nat \ {0}, id \in Nat, of \in Nat : q' = Append(q, FetchHeaders(page, id, of))
    BY <1>2
  <2> DEFINE c == FetchHeaders(page, id, of)
  <2>2. uidNext \in Nat /\ q \in Seq(Cmds(uidNext))
    BY DEF MailOK, WireInv, WireOK
  <2>3. c \in Cmds(uidNext) /\ MoveOf(c) = 0
    BY <2>2, HeadersCommand
  <2> HIDE DEF c
  <2>4. q' \in Seq(Cmds(uidNext)) /\ q' = Append(q, c)
    BY <2>1, <2>2, <2>3 DEF c
  <2>5. Cardinality(Moves(q')) = Cardinality(Moves(q)) + MoveOf(c)
    BY <2>2, <2>3, <2>4, MovesAppend
  <2>6. Cardinality(Moves(q)) \in Nat
    BY <2>2, MovesAre
  <2>7. Cardinality(Moves(q')) = Cardinality(Moves(q))
    BY <2>3, <2>5, <2>6
  <2> QED BY <2>4, <2>7 DEF WireInv, WireOK, Counted, PendingIsOutstanding
<1> QED BY <1>1, <1>2

-----------------------------------------------------------------------------
(* What the user does keeps it                                            *)

(* request_page sends a request for headers at most. *)
LEMMA AskedSends ==
  ASSUME NEW n \in Nat, NEW f \in Folders(n), NEW of \in Nat, Asked(f, of), faults \in Nat
  PROVE  /\ faults' \in Nat
         /\ q' = q \/ \E page \in Nat \ {0}, id, o \in Nat : q' = Append(q, FetchHeaders(page, id, o))
<1>1. f.nextPage \in Nat \ {0} /\ f.lastId + 1 \in Nat
  BY DEF Folders, OpenFolders
<1> QED BY <1>1 DEF Asked, Sent

(* And so does request_refresh. *)
LEMMA RenewedSends ==
  ASSUME FolderOK, Renewed, CountOK
  PROVE  /\ faults' \in Nat
         /\ q' = q \/ \E page \in Nat \ {0}, id, o \in Nat : q' = Append(q, FetchHeaders(page, id, o))
<1>1. folder.lastId + 1 \in Nat /\ 1 \in Nat \ {0} /\ opening \in Nat
  BY DEF FolderOK, CountOK, Folders, OpenFolders
<1> QED BY <1>1 DEF Renewed, Sent, CountOK

(* open_folder. *)
LEMMA OpenFolderKeeps ==
  ASSUME Inv, OpenFolder, UNCHANGED <<pending, ev, uidNext, server, listed>>
  PROVE  Inv'
<1>1. uidNext \in Nat /\ MailOK /\ opening + 1 \in Nat /\ queries \in Nat /\ faults \in Nat
  BY DEF Inv, MailInv, MailOK, CountOK
<1>2. /\ opening' = opening + 1 /\ selected' = None /\ sel' = {} /\ chosen' = {} /\ posted' = posted
      /\ results' = None /\ queries' = queries /\ RequestPage(NewFolder, opening + 1)
  BY DEF OpenFolder, SetRows
<1>3. NewFolder \in Folders(uidNext)
  BY <1>1, NewFolderIs
<1>4. folder' \in Folders(uidNext) /\ Asked(NewFolder, opening + 1)
  BY <1>1, <1>2, <1>3, RequestPageIs
<1>5. faults' \in Nat /\ (q' = q \/ \E page \in Nat \ {0}, id, o \in Nat : q' = Append(q, FetchHeaders(page, id, o)))
  BY <1>1, <1>3, <1>4, AskedSends
<1>6. WireInv'
  BY <1>1, <1>5, SendingHeaders DEF Inv
<1>7. MailInv'
  BY <1>1, <1>2, <1>5, MailStays DEF Inv, CountOK
<1>8. ListInv'
  <2>1. OnRows(Shown, sel, chosen)'
    BY <1>2, NothingSelected
  <2> QED BY <1>2, <1>4, <2>1 DEF Inv, ListInv, FolderOK, ResultsOK, SelectionOK
<1> QED BY <1>6, <1>7, <1>8 DEF Inv

(* The user opens the folder. *)
LEMMA UserOpensKeeps ==
  ASSUME Inv, UserOpens
  PROVE  Inv'
BY OpenFolderKeeps DEF UserOpens, mailbox

(* request_refresh, whether an event was taken or not. *)
LEMMA RefreshKeeps ==
  ASSUME Inv, RequestRefresh, UNCHANGED <<results, sel, chosen, posted, selected, queries, opening, pending, uidNext, server, listed>>,
         NEW e \in Seq(Events(uidNext)), ev' = e, Cardinality(Moves(e)) = Cardinality(Moves(ev))
  PROVE  Inv'
<1>1. FolderOK /\ CountOK /\ MailOK
  BY DEF Inv, ListInv, MailInv
<1>2. folder' \in Folders(uidNext) /\ Renewed
  BY <1>1, RequestRefreshIs
<1>3. faults' \in Nat /\ (q' = q \/ \E page \in Nat \ {0}, id, o \in Nat : q' = Append(q, FetchHeaders(page, id, o)))
  BY <1>1, <1>2, RenewedSends
<1>4. ListInv'
  BY <1>2, RowsStay DEF Inv, Renewed
<1>5. MailInv'
  BY <1>1, <1>3, MailStays DEF Inv, CountOK
<1>6. WireInv'
  <2>1. CASE q' = q
    BY <2>1 DEF Inv, WireInv, WireOK, Counted, PendingIsOutstanding
  <2>2. CASE \E page \in Nat \ {0}, id, o \in Nat : q' = Append(q, FetchHeaders(page, id, o))
    <3>1. PICK page \in Nat \ {0}, id \in Nat, o \in Nat : q' = Append(q, FetchHeaders(page, id, o))
      BY <2>2
    <3> DEFINE c == FetchHeaders(page, id, o)
    <3>2. uidNext \in Nat /\ q \in Seq(Cmds(uidNext))
      BY <1>1 DEF MailOK, Inv, WireInv, WireOK
    <3>3. c \in Cmds(uidNext) /\ MoveOf(c) = 0
      BY <3>2, HeadersCommand
    <3> HIDE DEF c
    <3>4. q' \in Seq(Cmds(uidNext)) /\ q' = Append(q, c)
      BY <3>1, <3>2, <3>3 DEF c
    <3>5. Cardinality(Moves(q')) = Cardinality(Moves(q)) + MoveOf(c)
      BY <3>2, <3>3, <3>4, MovesAppend
    <3>6. Cardinality(Moves(q)) \in Nat
      BY <3>2, MovesAre
    <3>7. Cardinality(Moves(q')) = Cardinality(Moves(q))
      BY <3>3, <3>5, <3>6
    <3> QED BY <3>4, <3>7 DEF Inv, WireInv, WireOK, Counted, PendingIsOutstanding
  <2> QED BY <1>3, <2>1, <2>2
<1> QED BY <1>4, <1>5, <1>6 DEF Inv

(* F5. *)
LEMMA UserRefreshesKeeps ==
  ASSUME Inv, UserRefreshes
  PROVE  Inv'
<1>1. CASE folder.firstPage
  <2>1. RequestRefresh /\ UNCHANGED <<results, sel, chosen, posted, selected, queries, opening, pending, uidNext, server, listed, ev>>
    BY <1>1 DEF UserRefreshes, list, search, history, mailbox
  <2>2. ev \in Seq(Events(uidNext)) /\ ev' = ev
    BY <2>1 DEF Inv, WireInv, WireOK
  <2> QED BY <2>1, <2>2, RefreshKeeps
<1>2. CASE ~folder.firstPage
  BY <1>2, OpenFolderKeeps DEF UserRefreshes, mailbox
<1> QED BY <1>1, <1>2

(* The list is scrolled near its end. *)
LEMMA NearEndKeeps ==
  ASSUME Inv, NearEnd
  PROVE  Inv'
<1>1. uidNext \in Nat /\ MailOK /\ opening \in Nat /\ queries \in Nat /\ faults \in Nat /\ folder \in Folders(uidNext)
  BY DEF Inv, MailInv, MailOK, CountOK, ListInv, FolderOK
<1>2. /\ RequestPage(folder, opening)
      /\ UNCHANGED <<results, sel, chosen, posted, selected, queries, opening, pending, uidNext, server, listed, ev>>
  BY DEF NearEnd, list, search, history, mailbox
<1>3. folder' \in Folders(uidNext) /\ Asked(folder, opening)
  BY <1>1, <1>2, RequestPageIs
<1>4. faults' \in Nat /\ (q' = q \/ \E page \in Nat \ {0}, id, o \in Nat : q' = Append(q, FetchHeaders(page, id, o)))
  BY <1>1, <1>3, AskedSends
<1>5. WireInv'
  BY <1>1, <1>2, <1>4, SendingHeaders DEF Inv
<1>6. MailInv'
  BY <1>1, <1>2, <1>4, MailStays DEF Inv, CountOK
<1>7. ListInv'
  BY <1>2, <1>3, RowsStay DEF Inv, Asked
<1> QED BY <1>5, <1>6, <1>7 DEF Inv

(* A folder filled from the cache lists what the cache had. *)
LEMMA SeedIs ==
  ASSUME NEW n \in Nat, NEW f \in Folders(n), NEW S \in SUBSET (1..n - 1)
  PROVE  SeedFolder(f, S) \in Folders(n) /\ ToSet(SeedFolder(f, S).rows) = S
<1> DEFINE np == Max({1, Cardinality(S) \div PageSize})
           d == Descending(S)
           g == [f EXCEPT !.rows = d, !.nextPage = np]
<1>1. d \in Lists(n) /\ ToSet(d) = S /\ Cardinality(S) \in Nat
  BY SortedIs
<1>2. np \in Nat \ {0}
  <2> DEFINE k == Cardinality(S) \div PageSize
  <2>0. PageSize \in Nat \ {0}
    BY PageAssumption
  <2>1. k \in Nat
    BY <1>1, <2>0
  <2>2. np = Max({1, k})
    OBVIOUS
  <2> HIDE DEF k, np
  <2>3. np = IF 1 >= k THEN 1 ELSE k
    BY <2>1, <2>2, OfTwo
  <2> QED BY <2>1, <2>3
<1>3. SeedFolder(f, S) = g
  BY DEF SeedFolder
<1> HIDE DEF np, d
<1>4. f \in OpenFolders(n) /\ f.pageReq <= f.lastId /\ f.refreshReq <= f.lastId
  BY DEF Folders
<1>5. g \in OpenFolders(n) /\ g.rows = d /\ g.pageReq = f.pageReq /\ g.lastId = f.lastId /\ g.refreshReq = f.refreshReq
  BY <1>1, <1>2, <1>4 DEF OpenFolders
<1> HIDE DEF g
<1>6. g \in Folders(n)
  BY <1>4, <1>5 DEF Folders
<1> QED BY <1>1, <1>3, <1>5, <1>6

(* seed_from_cache. *)
LEMMA SeedFromCacheKeeps ==
  ASSUME Inv, NEW S \in SUBSET listed, SeedFromCache(S)
  PROVE  Inv'
<1>1. uidNext \in Nat /\ S \in SUBSET (1..uidNext - 1) /\ CountOK /\ folder \in Folders(uidNext)
  BY DEF Inv, MailInv, MailOK, ListInv, FolderOK
<1>2. /\ folder' = SeedFolder(folder, S)
      /\ IF results = None THEN SetRows ELSE UNCHANGED list
      /\ UNCHANGED <<results, selected, queries, opening, faults, pending, uidNext, server, listed, q, ev>>
  BY DEF SeedFromCache, search, imap, mailbox, bounds
<1>3. folder' \in Folders(uidNext)
  BY <1>1, <1>2, SeedIs
<1>4. WireInv'
  BY <1>2, WireStays DEF Inv
<1>5. MailInv'
  BY <1>1, <1>2, MailStays DEF Inv, CountOK
<1>6. ListInv'
  <2>1. CASE results = None
    <3>1. sel' = {} /\ chosen' = {} /\ posted' = posted
      BY <1>2, <2>1 DEF SetRows
    <3>2. OnRows(Shown, sel, chosen)'
      BY <3>1, NothingSelected
    <3> QED BY <1>2, <1>3, <3>1, <3>2 DEF Inv, ListInv, FolderOK, ResultsOK, SelectionOK
  <2>2. CASE results # None
    <3>1. sel' = sel /\ chosen' = chosen /\ posted' = posted
      BY <1>2, <2>2 DEF list
    <3>2. Shown' = Shown
      BY <1>2, <2>2 DEF Shown
    <3> QED BY <1>2, <1>3, <3>1, <3>2 DEF Inv, ListInv, FolderOK, ResultsOK, SelectionOK
  <2> QED BY <2>1, <2>2
<1> QED BY <1>4, <1>5, <1>6 DEF Inv

(* Rows, like results, have no message twice. *)
LEMMA ListsAreFound ==
  ASSUME NEW n \in Nat, NEW s \in Lists(n)
  PROVE  s \in Found(n)
<1>1. s \in Seq(1..n - 1) /\ IsDescending(s) /\ 1..n - 1 \subseteq Nat
  BY DEF Lists
<1>2. Distinct(s)
  BY <1>1, DescendingIsDistinct
<1> QED BY <1>1, <1>2 DEF Found

(* What is shown, rows or results. *)
LEMMA ShownIs ==
  ASSUME Inv
  PROVE  /\ Shown \in Seq(1..uidNext - 1) /\ Distinct(Shown) /\ DOMAIN Shown = 1..Len(Shown) /\ Len(Shown) \in Nat
         /\ \A r \in 1..Len(Shown) : Shown[r] \in 1..uidNext - 1
<1>1. uidNext \in Nat /\ folder \in Folders(uidNext) /\ results \in Found(uidNext) \cup {None}
  BY DEF Inv, MailInv, MailOK, ListInv, FolderOK, ResultsOK
<1>2. folder.rows \in Lists(uidNext)
  BY <1>1 DEF Folders, OpenFolders
<1>3. folder.rows \in Found(uidNext)
  BY <1>1, <1>2, ListsAreFound
<1>4. Shown \in Found(uidNext)
  BY <1>1, <1>3 DEF Shown
<1>5. Shown \in Seq(1..uidNext - 1) /\ Distinct(Shown)
  BY <1>4 DEF Found
<1> QED BY <1>5, ToSetIs

(* App::select opens a message that is shown. *)
LEMMA SelectIs ==
  ASSUME Inv, NEW rows, Select(rows)
  PROVE  selected' \in (1..uidNext - 1) \cup {None}
<1>1. selected \in (1..uidNext - 1) \cup {None}
  BY DEF Inv, ListInv, SelectionOK
<1>2. CASE Cardinality(rows) = 1 /\ rows \subseteq DOMAIN Shown
  <2>1. selected' = Shown[CHOOSE r \in rows : TRUE]
    BY <1>2 DEF Select
  <2>2. rows # {}
    BY <1>2, FS_EmptySet
  <2>3. (CHOOSE r \in rows : TRUE) \in rows
    BY <2>2
  <2>4. (CHOOSE r \in rows : TRUE) \in DOMAIN Shown
    BY <1>2, <2>3
  <2> QED BY <2>1, <2>4, ShownIs
<1>3. CASE ~(Cardinality(rows) = 1 /\ rows \subseteq DOMAIN Shown)
  BY <1>1, <1>3 DEF Select
<1> QED BY <1>2, <1>3

(* Rows are selected. *)
LEMMA SelectRowsKeeps ==
  ASSUME Inv, NEW rows \in SUBSET DOMAIN Shown, SelectRows(rows)
  PROVE  Inv'
<1>1. /\ sel' = rows /\ chosen' = {Shown[r] : r \in rows} /\ Select(rows)
      /\ UNCHANGED <<folder, results, posted, queries, opening, faults, pending, uidNext, server, listed, q, ev>>
  BY DEF SelectRows, paging, search, imap, mailbox, history
<1>2. WireInv' /\ MailInv'
  BY <1>1, WireStays, MailStays DEF Inv, MailInv, CountOK
<1>3. selected' \in (1..uidNext - 1) \cup {None}
  BY <1>1, SelectIs
<1>4. rows \in SUBSET (1..Len(Shown))
  BY ShownIs
<1>5. OnRows(Shown, rows, {Shown[r] : r \in rows})
  BY <1>4 DEF OnRows, Marked
<1>6. Shown' = Shown
  BY <1>1 DEF Shown
<1>7. ListInv'
  BY <1>1, <1>3, <1>5, <1>6 DEF Inv, ListInv, FolderOK, ResultsOK, SelectionOK
<1> QED BY <1>2, <1>7 DEF Inv

(* A click or a Ctrl+click. *)
LEMMA ClickKeeps ==
  ASSUME Inv, NEW r \in DOMAIN Shown, ClickRow(r) \/ CtrlClickRow(r)
  PROVE  Inv'
<1>1. sel \in SUBSET DOMAIN Shown
  BY ShownIs DEF Inv, ListInv, SelectionOK, OnRows
<1>2. {r} \in SUBSET DOMAIN Shown /\ (IF r \in sel THEN sel \ {r} ELSE sel \cup {r}) \in SUBSET DOMAIN Shown
  BY <1>1
<1>3. CASE ClickRow(r)
  BY <1>2, <1>3, SelectRowsKeeps DEF ClickRow
<1>4. CASE CtrlClickRow(r)
  BY <1>2, <1>4, SelectRowsKeeps DEF CtrlClickRow
<1> QED BY <1>3, <1>4

(* The message set_selection emitted. *)
LEMMA HandlePostedKeeps ==
  ASSUME Inv, HandlePosted
  PROVE  Inv'
<1>1. /\ posted # <<>> /\ posted' = Tail(posted) /\ Select({Head(posted)})
      /\ UNCHANGED <<folder, results, sel, chosen, queries, opening, faults, pending, uidNext, server, listed, q, ev>>
  BY DEF HandlePosted, paging, search, imap, mailbox, history, bounds
<1>2. WireInv' /\ MailInv'
  BY <1>1, WireStays, MailStays DEF Inv, MailInv, CountOK
<1>3. selected' \in (1..uidNext - 1) \cup {None}
  BY <1>1, SelectIs
<1>4. posted' \in Seq(Nat \ {0})
  BY <1>1 DEF Inv, ListInv, SelectionOK
<1>5. Shown' = Shown
  BY <1>1 DEF Shown
<1>6. ListInv'
  BY <1>1, <1>3, <1>4, <1>5 DEF Inv, ListInv, FolderOK, ResultsOK, SelectionOK
<1> QED BY <1>2, <1>6 DEF Inv

(* move_selected: each command sent is counted. *)
LEMMA MoveSelectedKeeps ==
  ASSUME Inv, MoveSelected
  PROVE  Inv'
<1> DEFINE rows == Ascending(sel)
           C(n) == [i \in 1..n |-> [op |-> "move", uid |-> Shown[rows[i]]]]
<1>1. UNCHANGED <<folder, results, sel, chosen, posted, selected, queries, opening, uidNext, server, listed, ev>>
  BY DEF MoveSelected, paging, list, search, mailbox, history
<1>2. PICK n \in 0..Len(rows) : /\ IF n = Len(rows) THEN UNCHANGED faults ELSE Fault
                                /\ q' = q \o C(n) /\ pending' = pending + n
  BY DEF MoveSelected
<1>3. /\ Len(Shown) \in Nat /\ sel \in SUBSET (1..Len(Shown)) /\ faults \in Nat /\ pending \in Nat
      /\ q \in Seq(Cmds(uidNext)) /\ ev \in Seq(Events(uidNext)) /\ PendingIsOutstanding
  BY ShownIs DEF Inv, ListInv, SelectionOK, OnRows, MailInv, CountOK, WireInv, WireOK, Counted
<1>4. rows \in Seq(1..Len(Shown)) /\ Len(rows) \in Nat
  <2>1. Len(Shown) + 1 \in Nat /\ (Len(Shown) + 1) - 1 = Len(Shown)
    BY <1>3
  <2>2. sel \in SUBSET (1..(Len(Shown) + 1) - 1)
    BY <1>3, <2>1
  <2>3. rows \in Seq(1..(Len(Shown) + 1) - 1)
    BY <2>1, <2>2, AscendingIs
  <2> QED BY <2>1, <2>3
<1> HIDE DEF rows
<1>5. faults' \in Nat
  BY <1>2, <1>3 DEF Fault
<1>6. n \in Nat /\ C(n) \in Seq(Cmds(uidNext)) /\ Len(C(n)) = n /\ \A i \in 1..Len(C(n)) : IsMove(C(n)[i])
  <2>1. n \in Nat
    BY <1>4
  <2>2. ASSUME NEW i \in 1..n
        PROVE  [op |-> "move", uid |-> Shown[rows[i]]] \in Cmds(uidNext) /\ IsMove([op |-> "move", uid |-> Shown[rows[i]]])
    <3>1. i \in 1..Len(rows)
      BY <1>4
    <3>2. rows[i] \in 1..Len(Shown)
      BY <1>4, <3>1
    <3>3. Shown[rows[i]] \in 1..uidNext - 1
      BY <3>2, ShownIs
    <3> QED BY <3>3 DEF Cmds, IsMove
  <2>3. C(n) \in [1..n -> Cmds(uidNext)]
    BY <2>2
  <2>4. C(n) \in Seq(Cmds(uidNext)) /\ Len(C(n)) = n
    BY <2>1, <2>3
  <2>5. \A i \in 1..n : C(n)[i] = [op |-> "move", uid |-> Shown[rows[i]]]
    OBVIOUS
  <2> HIDE DEF C
  <2> QED BY <2>1, <2>2, <2>4, <2>5
<1> HIDE DEF C
<1>7. q' \in Seq(Cmds(uidNext)) /\ Cardinality(Moves(q')) = Cardinality(Moves(q)) + n
  <2>1. q \o C(n) \in Seq(Cmds(uidNext))
    BY <1>3, <1>6, ConcatProperties
  <2>2. Cardinality(Moves(q \o C(n))) = Cardinality(Moves(q)) + Len(C(n))
    BY <1>3, <1>6, MovesConcat
  <2> QED BY <1>2, <1>6, <2>1, <2>2
<1>8. WireInv'
  <2>1. Cardinality(Moves(q)) \in Nat /\ Cardinality(Moves(ev)) \in Nat
    BY <1>3, MovesAre
  <2>2. pending' = Cardinality(Moves(q')) + Cardinality(Moves(ev)) /\ pending' \in Nat
    BY <1>2, <1>3, <1>6, <1>7, <2>1 DEF PendingIsOutstanding
  <2> QED BY <1>1, <1>3, <1>7, <2>2 DEF WireInv, WireOK, Counted, PendingIsOutstanding
<1>9. MailInv' /\ ListInv'
  BY <1>1, <1>5, MailStays, ListStays DEF Inv, MailInv, CountOK
<1> QED BY <1>8, <1>9 DEF Inv

(* A query is typed. *)
LEMMA SearchKeeps ==
  ASSUME Inv, Search
  PROVE  Inv'
<1>1. /\ queries' = queries + 1
      /\ UNCHANGED <<folder, results, sel, chosen, posted, selected, opening, faults, pending, uidNext, server, listed, q, ev>>
  BY DEF Search, paging, list, imap, mailbox, history
<1>2. WireInv' /\ ListInv'
  BY <1>1, WireStays, ListStays DEF Inv
<1>3. MailInv'
  BY <1>1, MailStays DEF Inv, MailInv, CountOK
<1> QED BY <1>2, <1>3 DEF Inv

(* The cache answers it. *)
LEMMA SearchArrivedKeeps ==
  ASSUME Inv, NEW S \in SUBSET listed, SearchArrived(S)
  PROVE  Inv'
<1>1. /\ queries > 0 /\ queries' = queries - 1
      /\ IF text THEN results' = Ascending(S) /\ SetRows /\ selected' = None
                 ELSE UNCHANGED <<results, list, selected>>
      /\ UNCHANGED <<folder, opening, faults, pending, uidNext, server, listed, q, ev>>
  BY DEF SearchArrived, paging, imap, mailbox, history, bounds
<1>2. WireInv' /\ MailInv'
  BY <1>1, WireStays, MailStays DEF Inv, MailInv, CountOK
<1>3. ListInv'
  <2>1. CASE text
    <3>1. results' = Ascending(S) /\ sel' = {} /\ chosen' = {} /\ posted' = posted /\ selected' = None
      BY <1>1, <2>1 DEF SetRows
    <3>2. uidNext \in Nat /\ S \in SUBSET (1..uidNext - 1)
      BY DEF Inv, MailInv, MailOK
    <3>3. results' \in Found(uidNext)
      BY <3>1, <3>2, AscendingIs DEF Found
    <3>4. OnRows(Shown, sel, chosen)'
      BY <3>1, NothingSelected
    <3> QED BY <1>1, <3>1, <3>3, <3>4 DEF Inv, ListInv, FolderOK, ResultsOK, SelectionOK
  <2>2. CASE ~text
    BY <1>1, <2>2, ListStays DEF Inv, list
  <2> QED BY <2>1, <2>2
<1> QED BY <1>2, <1>3 DEF Inv

(* The search box is emptied. *)
LEMMA ClearSearchKeeps ==
  ASSUME Inv, ClearSearch
  PROVE  Inv'
<1>1. /\ results' = None /\ queries' = queries
      /\ IF results # None THEN SetRows /\ selected' = None ELSE UNCHANGED <<list, selected>>
      /\ UNCHANGED <<folder, opening, faults, pending, uidNext, server, listed, q, ev>>
  BY DEF ClearSearch, paging, imap, mailbox, history
<1>2. WireInv' /\ MailInv'
  BY <1>1, WireStays, MailStays DEF Inv, MailInv, CountOK
<1>3. ListInv'
  <2>1. CASE results # None
    <3>1. sel' = {} /\ chosen' = {} /\ posted' = posted /\ selected' = None
      BY <1>1, <2>1 DEF SetRows
    <3>2. OnRows(Shown, sel, chosen)'
      BY <3>1, NothingSelected
    <3> QED BY <1>1, <3>1, <3>2 DEF Inv, ListInv, FolderOK, ResultsOK, SelectionOK
  <2>2. CASE results = None
    BY <1>1, <2>2, ListStays DEF Inv, list
  <2> QED BY <2>1, <2>2
<1> QED BY <1>2, <1>3 DEF Inv

-----------------------------------------------------------------------------
(* What the actor and the world do keeps it                               *)

(* With one more uid handed out, what was a value still is one. *)
LEMMA ListsGrow ==
  ASSUME NEW n \in Nat
  PROVE  /\ Lists(n) \subseteq Lists(n + 1) /\ Found(n) \subseteq Found(n + 1)
         /\ Folders(n) \subseteq Folders(n + 1) /\ Seq(Cmds(n)) \subseteq Seq(Cmds(n + 1)) /\ Seq(Events(n)) \subseteq Seq(Events(n + 1))
<1>1. 1..n - 1 \subseteq 1..(n + 1) - 1
  OBVIOUS
<1>2. Seq(1..n - 1) \subseteq Seq(1..(n + 1) - 1)
  BY <1>1, SeqMonotonic
<1>3. Lists(n) \subseteq Lists(n + 1) /\ Found(n) \subseteq Found(n + 1)
  BY <1>2 DEF Lists, Found
<1>4. Folders(n) \subseteq Folders(n + 1)
  <2>1. ASSUME NEW f \in OpenFolders(n) PROVE f \in OpenFolders(n + 1)
    BY <1>3 DEF OpenFolders
  <2> QED BY <2>1 DEF Folders
<1>5. Cmds(n) \subseteq Cmds(n + 1)
  <2>1. ASSUME NEW c \in [op : {"move"}, uid : 1..n - 1] PROVE c \in [op : {"move"}, uid : 1..(n + 1) - 1]
    BY <1>1
  <2> QED BY <2>1 DEF Cmds
<1>6. Events(n) \subseteq Events(n + 1)
  <2>1. ASSUME NEW c \in [op : {"moved", "moveFailed"}, uid : 1..n - 1] PROVE c \in [op : {"moved", "moveFailed"}, uid : 1..(n + 1) - 1]
    BY <1>1
  <2>2. ASSUME NEW r \in Replies(n) PROVE r \in Replies(n + 1)
    BY <1>3 DEF Replies
  <2> QED BY <2>1, <2>2 DEF Events
<1> QED BY <1>3, <1>4, <1>5, <1>6, SeqMonotonic

(* Mail arrives. *)
LEMMA ArriveKeeps ==
  ASSUME Inv, Arrive
  PROVE  Inv'
<1>1. /\ server' = server \cup {uidNext} /\ uidNext' = uidNext + 1
      /\ UNCHANGED <<folder, results, sel, chosen, posted, selected, queries, opening, faults, pending, listed, q, ev>>
  BY DEF Arrive, paging, list, search, imap, history, bounds
<1>2. uidNext \in Nat \ {0} /\ server \in SUBSET (1..uidNext - 1) /\ listed \in SUBSET (1..uidNext - 1) /\ CountOK
  BY DEF Inv, MailInv, MailOK
<1>3. /\ Found(uidNext) \subseteq Found(uidNext') /\ Folders(uidNext) \subseteq Folders(uidNext')
      /\ Seq(Cmds(uidNext)) \subseteq Seq(Cmds(uidNext')) /\ Seq(Events(uidNext)) \subseteq Seq(Events(uidNext'))
  BY <1>1, <1>2, ListsGrow
<1>4. 1..uidNext - 1 \subseteq 1..uidNext' - 1 /\ uidNext \in 1..uidNext' - 1 /\ uidNext' \in Nat \ {0}
  BY <1>1, <1>2
<1>5. MailInv'
  <2>1. server' \in SUBSET (1..uidNext' - 1) /\ listed' \in SUBSET (1..uidNext' - 1)
    BY <1>1, <1>2, <1>4
  <2> QED BY <1>1, <1>2, <1>4, <2>1 DEF MailInv, MailOK, CountOK
<1>6. ListInv'
  <2>1. Shown' = Shown
    BY <1>1 DEF Shown
  <2> QED BY <1>1, <1>3, <1>4, <2>1 DEF Inv, ListInv, FolderOK, ResultsOK, SelectionOK
<1>7. WireInv'
  BY <1>1, <1>3 DEF Inv, WireInv, WireOK, Counted, PendingIsOutstanding
<1> QED BY <1>5, <1>6, <1>7 DEF Inv

(* Another client removes a message. *)
LEMMA ExpungeKeeps ==
  ASSUME Inv, Expunge
  PROVE  Inv'
<1>1. /\ \E u \in server : server' = server \ {u}
      /\ UNCHANGED <<folder, results, sel, chosen, posted, selected, queries, opening, faults, pending, uidNext, listed, q, ev>>
  BY DEF Expunge, paging, list, search, imap, history
<1>2. WireInv' /\ ListInv'
  BY <1>1, WireStays, ListStays DEF Inv
<1>3. MailInv'
  BY <1>1 DEF Inv, MailInv, MailOK, CountOK
<1> QED BY <1>2, <1>3 DEF Inv

(* An event is added, of a command taken or of none: the moves on the wire
   are as many as before. *)
LEMMA Emitted ==
  ASSUME WireInv, UNCHANGED <<uidNext, pending>>, NEW e \in Events(uidNext), ev' = Append(ev, e),
         \/ q' = q /\ MoveOf(e) = 0
         \/ q # <<>> /\ q' = Tail(q) /\ MoveOf(e) = MoveOf(Head(q))
  PROVE  WireInv'
<1>1. q \in Seq(Cmds(uidNext)) /\ ev \in Seq(Events(uidNext)) /\ pending \in Nat /\ PendingIsOutstanding
  BY DEF WireInv, WireOK, Counted
<1>2. ev' \in Seq(Events(uidNext)) /\ Cardinality(Moves(ev')) = Cardinality(Moves(ev)) + MoveOf(e)
  BY <1>1, MovesAppend
<1>3. Cardinality(Moves(q)) \in Nat /\ Cardinality(Moves(ev)) \in Nat
  BY <1>1, MovesAre
<1>4. CASE q' = q /\ MoveOf(e) = 0
  <2>1. pending' = Cardinality(Moves(q')) + Cardinality(Moves(ev'))
    BY <1>1, <1>2, <1>3, <1>4 DEF PendingIsOutstanding
  <2> QED BY <1>1, <1>2, <1>4, <2>1 DEF WireInv, WireOK, Counted, PendingIsOutstanding
<1>5. CASE q # <<>> /\ q' = Tail(q) /\ MoveOf(e) = MoveOf(Head(q))
  <2>1. q' \in Seq(Cmds(uidNext))
    BY <1>1, <1>5
  <2>2. Cardinality(Moves(q)) = Cardinality(Moves(q')) + MoveOf(Head(q))
    BY <1>1, <1>5, MovesTail
  <2>3. Cardinality(Moves(q')) \in Nat /\ MoveOf(e) \in Nat
    BY <2>1, MovesAre DEF MoveOf
  <2>4. pending' = Cardinality(Moves(q')) + Cardinality(Moves(ev'))
    BY <1>1, <1>2, <1>3, <1>5, <2>2, <2>3 DEF PendingIsOutstanding
  <2> QED BY <1>1, <1>2, <2>1, <2>4 DEF WireInv, WireOK, Counted, PendingIsOutstanding
<1> QED BY <1>4, <1>5

(* The events of no move. *)
LEMMA OtherEvent ==
  ASSUME NEW n, NEW e \in [op : {"error", "newHeaders", "connected"}]
  PROVE  e \in Events(n) /\ MoveOf(e) = 0
BY DEF Events, MoveOf, IsMove

(* An event that is none of a move. *)
LEMMA SignalKeeps ==
  ASSUME Inv, NEW e \in [op : {"error", "newHeaders", "connected"}], ev' = Append(ev, e), faults' \in Nat,
         UNCHANGED <<folder, results, sel, chosen, posted, selected, queries, opening, pending, uidNext, server, listed, q>>
  PROVE  Inv'
<1>1. e \in Events(uidNext) /\ MoveOf(e) = 0
  BY OtherEvent
<1>2. WireInv'
  BY <1>1, Emitted DEF Inv
<1>3. MailInv' /\ ListInv'
  BY MailStays, ListStays DEF Inv, MailInv, CountOK
<1> QED BY <1>2, <1>3 DEF Inv

(* New mail is announced. *)
LEMMA AnnounceKeeps ==
  ASSUME Inv, Announce
  PROVE  Inv'
<1>1. /\ ev' = Append(ev, [op |-> "newHeaders"]) /\ faults' = faults
      /\ UNCHANGED <<folder, results, sel, chosen, posted, selected, queries, opening, pending, uidNext, server, listed, q>>
  BY DEF Announce, paging, list, search, history, bounds
<1>2. faults \in Nat
  BY DEF Inv, MailInv, CountOK
<1> QED BY <1>1, <1>2, SignalKeeps

(* The actor connects again. *)
LEMMA ReconnectKeeps ==
  ASSUME Inv, Reconnect
  PROVE  Inv'
<1>1. /\ ev' = Append(ev, [op |-> "connected"]) /\ faults' = faults
      /\ UNCHANGED <<folder, results, sel, chosen, posted, selected, queries, opening, pending, uidNext, server, listed, q>>
  BY DEF Reconnect, paging, list, search, history, bounds
<1>2. faults \in Nat
  BY DEF Inv, MailInv, CountOK
<1> QED BY <1>1, <1>2, SignalKeeps

(* Some other command fails. *)
LEMMA OtherErrorKeeps ==
  ASSUME Inv, OtherError
  PROVE  Inv'
<1>1. /\ ev' = Append(ev, [op |-> "error"]) /\ faults' = faults + 1
      /\ UNCHANGED <<folder, results, sel, chosen, posted, selected, queries, opening, pending, uidNext, server, listed, q>>
  BY DEF OtherError, Fault, mailbox, paging, list, search, history
<1>2. faults \in Nat
  BY DEF Inv, MailInv, CountOK
<1> QED BY <1>1, <1>2, SignalKeeps

(* The next command asks for headers or moves a message. *)
LEMMA HeadCommand ==
  ASSUME WireInv, q # <<>>
  PROVE  /\ Head(q) \in Cmds(uidNext)
         /\ Head(q).op = "headers" => Head(q) \in [op : {"headers"}, page : Nat \ {0}, id : Nat, of : Nat]
         /\ Head(q).op # "headers" => Head(q) \in [op : {"move"}, uid : 1..uidNext - 1]
<1>1. q \in Seq(Cmds(uidNext))
  BY DEF WireInv, WireOK
<1>2. Head(q) \in Cmds(uidNext)
  BY <1>1
<1> QED BY <1>2 DEF Cmds

(* A command is answered by an event of its kind. *)
LEMMA ServeKeeps ==
  ASSUME Inv, NEW e \in Events(uidNext), Serve(e), MoveOf(e) = MoveOf(Head(q)), server' \in SUBSET server, faults' \in Nat
  PROVE  Inv'
<1>1. /\ q # <<>> /\ q' = Tail(q) /\ ev' = Append(ev, e)
      /\ UNCHANGED <<folder, results, sel, chosen, posted, selected, queries, opening, pending, uidNext, listed>>
  BY DEF Serve, paging, list, search, history
<1>2. WireInv'
  BY <1>1, Emitted DEF Inv
<1>3. MailInv'
  BY <1>1 DEF Inv, MailInv, MailOK, CountOK
<1>4. ListInv'
  BY <1>1, ListStays DEF Inv
<1> QED BY <1>2, <1>3, <1>4 DEF Inv

(* The reply to a request has its page, its id and the mailbox of now. *)
LEMMA ReplyIs ==
  ASSUME MailOK, NEW c \in [op : {"headers"}, page : Nat \ {0}, id : Nat, of : Nat]
  PROVE  /\ Headers(c) \in Replies(uidNext) /\ MoveOf(Headers(c)) = 0
         /\ Headers(c).page = c.page /\ Headers(c).id = c.id /\ Headers(c).of = c.of /\ Headers(c).uids = Page(c.page)
<1>1. c.page \in Nat \ {0} /\ c.id \in Nat /\ c.of \in Nat
  OBVIOUS
<1>2. Page(c.page) \in Lists(uidNext) /\ TotalPages \in Nat
  BY <1>1, PageIs, TotalPagesIs
<1> QED BY <1>1, <1>2 DEF Headers, Replies, MoveOf, IsMove

(* fetch_headers. *)
LEMMA ServeHeadersKeeps ==
  ASSUME Inv, ServeHeaders
  PROVE  Inv'
<1> DEFINE c == Head(q)
<1>1. c.op = "headers" /\ Serve(Headers(c)) /\ server' = server /\ faults' = faults /\ q # <<>> /\ faults \in Nat /\ MailOK
  BY DEF ServeHeaders, Inv, MailInv, CountOK
<1>2. c \in [op : {"headers"}, page : Nat \ {0}, id : Nat, of : Nat]
  BY <1>1, HeadCommand DEF Inv
<1>3. Headers(c) \in Events(uidNext) /\ MoveOf(Headers(c)) = 0 /\ MoveOf(c) = 0
  BY <1>1, <1>2, ReplyIs DEF Events, MoveOf, IsMove
<1>4. server' \in SUBSET server /\ faults' \in Nat
  BY <1>1
<1> HIDE DEF c
<1> QED BY <1>1, <1>3, <1>4, ServeKeeps DEF c

(* The events of a move. *)
LEMMA MoveEvent ==
  ASSUME NEW n, NEW op \in {"moved", "moveFailed"}, NEW u \in 1..n - 1
  PROVE  [op |-> op, uid |-> u] \in Events(n) /\ MoveOf([op |-> op, uid |-> u]) = 1
BY DEF Events, MoveOf, IsMove

(* A message is moved. *)
LEMMA ServeMoveKeeps ==
  ASSUME Inv, ServeMove
  PROVE  Inv'
<1> DEFINE c == Head(q)
           e == [op |-> "moved", uid |-> c.uid]
<1>1. c.op = "move" /\ Serve(e) /\ server' = server \ {c.uid} /\ faults' = faults /\ q # <<>> /\ faults \in Nat
  BY DEF ServeMove, Inv, MailInv, CountOK
<1>2. c \in [op : {"move"}, uid : 1..uidNext - 1]
  BY <1>1, HeadCommand DEF Inv
<1>3. e \in Events(uidNext) /\ MoveOf(e) = 1
  BY <1>2, MoveEvent
<1>4. MoveOf(c) = 1
  BY <1>2 DEF MoveOf, IsMove
<1>5. server' \in SUBSET server /\ faults' \in Nat
  BY <1>1
<1> HIDE DEF e
<1> QED BY <1>1, <1>3, <1>4, <1>5, ServeKeeps

(* A command fails: a move is answered by an event all the same. *)
LEMMA CommandFailsKeeps ==
  ASSUME Inv, CommandFails
  PROVE  Inv'
<1> DEFINE c == Head(q)
           e == Failure(c)
<1>1. q # <<>> /\ Serve(e) /\ faults' = faults + 1 /\ server' \in SUBSET server /\ faults \in Nat
  BY DEF CommandFails, Fault, Inv, MailInv, CountOK
<1>2. e \in Events(uidNext) /\ MoveOf(e) = MoveOf(c)
  <2>1. CASE c.op = "headers"
    <3>1. e = [op |-> "error"] /\ MoveOf(c) = 0
      BY <2>1 DEF Failure, MoveOf, IsMove
    <3> QED BY <3>1, OtherEvent
  <2>2. CASE c.op # "headers"
    <3>1. c \in [op : {"move"}, uid : 1..uidNext - 1]
      BY <1>1, <2>2, HeadCommand DEF Inv
    <3>2. e = [op |-> "moveFailed", uid |-> c.uid] /\ MoveOf(c) = 1
      BY <2>2, <3>1 DEF Failure, MoveOf, IsMove
    <3> QED BY <3>1, <3>2, MoveEvent
  <2> QED BY <2>1, <2>2
<1>3. faults' \in Nat
  BY <1>1
<1> HIDE DEF e
<1> QED BY <1>1, <1>2, <1>3, ServeKeeps

-----------------------------------------------------------------------------
(* What the UI thread does with an event keeps it                         *)

(* The event that is taken, and the moves that are left. *)
LEMMA HeadEvent ==
  ASSUME Inv, NEW op, Took(op)
  PROVE  /\ ev # <<>> /\ ev' = Tail(ev) /\ Tail(ev) \in Seq(Events(uidNext)) /\ Head(ev).op = op /\ Head(ev) \in Events(uidNext)
         /\ Cardinality(Moves(ev)) = Cardinality(Moves(Tail(ev))) + MoveOf(Head(ev))
         /\ Cardinality(Moves(q)) \in Nat /\ Cardinality(Moves(Tail(ev))) \in Nat
<1>1. ev \in Seq(Events(uidNext)) /\ q \in Seq(Cmds(uidNext))
  BY DEF Inv, WireInv, WireOK
<1>2. ev # <<>> /\ ev' = Tail(ev) /\ Head(ev).op = op
  BY DEF Took
<1>3. Tail(ev) \in Seq(Events(uidNext)) /\ Head(ev) \in Events(uidNext)
  BY <1>1, <1>2
<1>4. Cardinality(Moves(ev)) = Cardinality(Moves(Tail(ev))) + MoveOf(Head(ev))
  BY <1>1, <1>2, MovesTail
<1>5. Cardinality(Moves(q)) \in Nat /\ Cardinality(Moves(Tail(ev))) \in Nat
  BY <1>1, <1>3, MovesAre
<1> QED BY <1>2, <1>3, <1>4, <1>5

(* An event that is not of a move leaves the count of moves as it was. *)
LEMMA TookOther ==
  ASSUME Inv, NEW op \in {"error", "newHeaders", "connected", "headers"}, Took(op)
  PROVE  Tail(ev) \in Seq(Events(uidNext)) /\ ev' = Tail(ev) /\ Cardinality(Moves(Tail(ev))) = Cardinality(Moves(ev))
<1>1. /\ ev' = Tail(ev) /\ Tail(ev) \in Seq(Events(uidNext)) /\ Head(ev).op = op
      /\ Cardinality(Moves(ev)) = Cardinality(Moves(Tail(ev))) + MoveOf(Head(ev))
      /\ Cardinality(Moves(Tail(ev))) \in Nat
  BY HeadEvent
<1>2. MoveOf(Head(ev)) = 0
  BY <1>1 DEF MoveOf, IsMove
<1> QED BY <1>1, <1>2

(* Connected and NewHeaders. *)
LEMMA HandleNewsKeeps ==
  ASSUME Inv, HandleNews
  PROVE  Inv'
<1>1. /\ RequestRefresh
      /\ UNCHANGED <<results, sel, chosen, posted, selected, queries, opening, pending, uidNext, server, listed>>
  BY DEF HandleNews, list, search, mailbox, history
<1>2. Tail(ev) \in Seq(Events(uidNext)) /\ ev' = Tail(ev) /\ Cardinality(Moves(Tail(ev))) = Cardinality(Moves(ev))
  BY TookOther DEF HandleNews
<1> QED BY <1>1, <1>2, RefreshKeeps

(* A folder that forgets its request keeps its rows. *)
LEMMA Forgotten ==
  ASSUME NEW n, NEW f \in Folders(n)
  PROVE  [f EXCEPT !.pageReq = NoRequest] \in Folders(n) /\ [f EXCEPT !.pageReq = NoRequest].rows = f.rows
<1> DEFINE g == [f EXCEPT !.pageReq = NoRequest]
<1>1. f \in OpenFolders(n) /\ f.refreshReq <= f.lastId /\ f.lastId \in Nat
  BY DEF Folders, OpenFolders
<1>2. g \in OpenFolders(n) /\ g.pageReq = 0 /\ g.lastId = f.lastId /\ g.refreshReq = f.refreshReq /\ g.rows = f.rows
  BY <1>1 DEF OpenFolders, NoRequest
<1> HIDE DEF g
<1>3. g \in Folders(n)
  BY <1>1, <1>2 DEF Folders
<1> QED BY <1>2, <1>3 DEF g

(* The wire is one event shorter, and a request for headers longer or not. *)
LEMMA TookAndSent ==
  ASSUME Inv, NEW op \in {"error", "newHeaders", "connected", "headers"}, Took(op), UNCHANGED <<uidNext, pending>>,
         q' = q \/ \E page \in Nat \ {0}, id, of \in Nat : q' = Append(q, FetchHeaders(page, id, of))
  PROVE  WireInv'
<1>1. Tail(ev) \in Seq(Events(uidNext)) /\ ev' = Tail(ev) /\ Cardinality(Moves(Tail(ev))) = Cardinality(Moves(ev))
  BY TookOther
<1>2. uidNext \in Nat /\ q \in Seq(Cmds(uidNext)) /\ pending \in Nat /\ PendingIsOutstanding
  BY DEF Inv, MailInv, MailOK, WireInv, WireOK, Counted
<1>3. q' \in Seq(Cmds(uidNext)) /\ Cardinality(Moves(q')) = Cardinality(Moves(q))
  <2>1. CASE q' = q
    BY <1>2, <2>1
  <2>2. CASE \E page \in Nat \ {0}, id, of \in Nat : q' = Append(q, FetchHeaders(page, id, of))
    <3>1. PICK page \in Nat \ {0}, id \in Nat, of \in Nat : q' = Append(q, FetchHeaders(page, id, of))
      BY <2>2
    <3> DEFINE c == FetchHeaders(page, id, of)
    <3>2. c \in Cmds(uidNext) /\ MoveOf(c) = 0
      BY <1>2, HeadersCommand
    <3>3. q' = Append(q, c)
      BY <3>1
    <3> HIDE DEF c
    <3>4. q' \in Seq(Cmds(uidNext))
      BY <1>2, <3>2, <3>3
    <3>5. Cardinality(Moves(q')) = Cardinality(Moves(q)) + MoveOf(c)
      BY <1>2, <3>2, <3>3, MovesAppend
    <3>6. Cardinality(Moves(q)) \in Nat
      BY <1>2, MovesAre
    <3> QED BY <3>2, <3>4, <3>5, <3>6
  <2> QED BY <2>1, <2>2
<1> QED BY <1>1, <1>2, <1>3 DEF WireInv, WireOK, Counted, PendingIsOutstanding

(* An error. *)
LEMMA HandleErrorKeeps ==
  ASSUME Inv, HandleError
  PROVE  Inv'
<1>1. /\ Took("error") /\ folder' = [folder EXCEPT !.pageReq = NoRequest]
      /\ UNCHANGED <<results, sel, chosen, posted, selected, queries, opening, faults, pending, uidNext, server, listed, q>>
  BY DEF HandleError, list, search, mailbox, history, bounds
<1>2. WireInv'
  BY <1>1, TookAndSent
<1>3. folder' \in Folders(uidNext) /\ folder'.rows = folder.rows
  <2>1. folder \in Folders(uidNext)
    BY DEF Inv, ListInv, FolderOK
  <2> QED BY <1>1, <2>1, Forgotten
<1>4. ListInv' /\ MailInv'
  BY <1>1, <1>3, RowsStay, MailStays DEF Inv, MailInv, CountOK
<1> QED BY <1>2, <1>4 DEF Inv

(* apply_headers: the selection is moved by the edits of the reply that is
   merged (show_applied). *)
LEMMA HandleHeadersKeeps ==
  ASSUME Inv, HandleHeaders
  PROVE  Inv'
<1> DEFINE r == Head(ev)
           a == ApplyReply(folder, r)
           S == IF results = None THEN sel ELSE {}
<1>1. /\ Took("headers") /\ listed' = listed \cup ToSet(r.uids)
      /\ UNCHANGED <<results, queries, opening, pending, uidNext, server>>
  BY DEF HandleHeaders, search, mailbox
<1>2. /\ uidNext \in Nat /\ MailOK /\ CountOK /\ folder \in Folders(uidNext) /\ results \in Found(uidNext) \cup {None}
      /\ OnRows(Shown, sel, chosen) /\ posted \in Seq(Nat \ {0}) /\ selected \in (1..uidNext - 1) \cup {None}
  BY DEF Inv, MailInv, MailOK, ListInv, FolderOK, ResultsOK, SelectionOK
<1>3. r \in Replies(uidNext)
  <2>1. r \in Events(uidNext) /\ r.op = "headers"
    BY <1>1, HeadEvent
  <2> QED BY <2>1 DEF Events
<1>4. S \in SUBSET (1..Len(folder.rows))
  BY <1>2 DEF OnRows, Shown
<1> HIDE DEF r, S
<1>5. a.folder \in Folders(uidNext) /\ Answers(a, folder, r, S)
  BY <1>2, <1>3, <1>4, ApplyReplyIs
<1>6. \/ /\ a.kind = "stale"
         /\ UNCHANGED <<folder, q, faults, sel, posted, chosen, selected>>
      \/ /\ a.kind # "stale"
         /\ \/ RequestPage(a.folder, opening)
            \/ folder' = a.folder /\ UNCHANGED <<q, faults>>
         /\ ShowApplied(a, r.page)
         /\ selected' = IF selected \in ToSet(a.folder.rows) THEN selected ELSE None
  BY DEF HandleHeaders, paging, list, r
<1> HIDE DEF a
<1>7. MailOK'
  <2>1. r.uids \in Seq(1..uidNext - 1)
    BY <1>3 DEF Replies, Lists
  <2>2. ToSet(r.uids) \subseteq 1..uidNext - 1
    BY <2>1, ToSetIs
  <2> QED BY <1>1, <1>2, <2>2 DEF MailOK
<1>8. CASE a.kind = "stale"
  <2>1. UNCHANGED <<folder, q, faults, sel, posted, chosen, selected>>
    BY <1>6, <1>8
  <2>2. WireInv'
    BY <1>1, <2>1, TookAndSent
  <2>3. ListInv'
    BY <1>1, <2>1, ListStays DEF Inv
  <2> QED BY <1>1, <1>2, <1>7, <2>1, <2>2, <2>3 DEF Inv, MailInv, CountOK
<1>9. CASE a.kind # "stale"
  <2>1. /\ RequestPage(a.folder, opening) \/ (folder' = a.folder /\ UNCHANGED <<q, faults>>)
        /\ ShowApplied(a, r.page)
        /\ selected' = IF selected \in ToSet(a.folder.rows) THEN selected ELSE None
    BY <1>6, <1>9
  <2>2. /\ folder' \in Folders(uidNext) /\ folder'.rows = a.folder.rows /\ faults' \in Nat
        /\ q' = q \/ \E page \in Nat \ {0}, id, of \in Nat : q' = Append(q, FetchHeaders(page, id, of))
    <3>1. opening \in Nat /\ faults \in Nat
      BY <1>2 DEF CountOK
    <3>2. CASE RequestPage(a.folder, opening)
      <4>1. folder' \in Folders(uidNext) /\ Asked(a.folder, opening)
        BY <1>2, <1>5, <3>1, <3>2, RequestPageIs
      <4>2. faults' \in Nat /\ (q' = q \/ \E page \in Nat \ {0}, id, of \in Nat : q' = Append(q, FetchHeaders(page, id, of)))
        BY <1>2, <1>5, <3>1, <4>1, AskedSends
      <4> QED BY <4>1, <4>2 DEF Asked
    <3>3. CASE folder' = a.folder /\ UNCHANGED <<q, faults>>
      BY <1>5, <3>1, <3>3
    <3> QED BY <2>1, <3>2, <3>3
  <2>3. WireInv'
    BY <1>1, <2>2, TookAndSent
  <2>4. MailInv'
    BY <1>1, <1>2, <1>7, <2>2 DEF MailInv, CountOK
  <2>5. selected' \in (1..uidNext' - 1) \cup {None}
    BY <1>1, <1>2, <2>1
  <2>6. OnRows(Shown', sel', chosen') /\ posted' = posted
    <3>1. CASE results # None
      <4>1. UNCHANGED <<sel, posted, chosen>>
        BY <2>1, <3>1 DEF ShowApplied, list
      <4>2. Shown' = Shown
        BY <1>1, <3>1 DEF Shown
      <4> QED BY <1>2, <4>1, <4>2
    <3>2. CASE results = None /\ a.kind = "page" /\ r.page = 1
      <4>1. sel' = {} /\ chosen' = {} /\ posted' = posted
        BY <2>1, <3>2 DEF ShowApplied, SetRows
      <4> QED BY <4>1, NothingSelected
    <3>3. CASE results = None /\ ~(a.kind = "page" /\ r.page = 1)
      <4>1. sel' = ShiftAll(sel, a.edits) /\ chosen' = chosen \cap ToSet(a.folder.rows) /\ posted' = posted
        BY <2>1, <3>3 DEF ShowApplied
      <4>2. S = sel /\ Shown = folder.rows /\ Shown' = a.folder.rows
        BY <1>1, <2>2, <3>3 DEF S, Shown
      <4>3. Marked(folder.rows, S) = chosen
        BY <1>2, <4>2 DEF OnRows
      <4>4. OnRows(a.folder.rows, ShiftAll(S, a.edits), Marked(folder.rows, S) \cap ToSet(a.folder.rows))
        BY <1>5, <1>9 DEF Answers
      <4> QED BY <4>1, <4>2, <4>3, <4>4
    <3> QED BY <3>1, <3>2, <3>3
  <2>7. ListInv'
    BY <1>1, <1>2, <2>2, <2>5, <2>6 DEF ListInv, FolderOK, ResultsOK, SelectionOK
  <2> QED BY <2>3, <2>4, <2>7 DEF Inv
<1> QED BY <1>8, <1>9

(* An event of a move ends it: action_finished. *)
LEMMA MoveEnds ==
  ASSUME Inv, NEW op \in {"moved", "moveFailed"}, Took(op), pending' = pending - 1, UNCHANGED <<uidNext, q>>
  PROVE  WireInv' /\ Head(ev) \in [op : {"moved", "moveFailed"}, uid : 1..uidNext - 1]
<1>1. /\ ev' = Tail(ev) /\ Tail(ev) \in Seq(Events(uidNext)) /\ Head(ev).op = op /\ Head(ev) \in Events(uidNext)
      /\ Cardinality(Moves(ev)) = Cardinality(Moves(Tail(ev))) + MoveOf(Head(ev))
      /\ Cardinality(Moves(q)) \in Nat /\ Cardinality(Moves(Tail(ev))) \in Nat
  BY HeadEvent
<1>2. MoveOf(Head(ev)) = 1
  BY <1>1 DEF MoveOf, IsMove
<1>3. pending \in Nat /\ PendingIsOutstanding /\ q \in Seq(Cmds(uidNext))
  BY DEF Inv, WireInv, WireOK, Counted
<1>4. pending' \in Nat /\ pending' = Cardinality(Moves(q')) + Cardinality(Moves(ev'))
  <2>1. q' = q /\ ev' = Tail(ev) /\ pending' = pending - 1
    BY <1>1
  <2>2. Moves(q') = Moves(q) /\ Moves(ev') = Moves(Tail(ev))
    BY ONLY <2>1
  <2>3. pending = Cardinality(Moves(q)) + (Cardinality(Moves(Tail(ev))) + 1)
    BY ONLY <1>1, <1>2, <1>3 DEF PendingIsOutstanding
  <2>4. /\ Cardinality(Moves(q)) \in Nat /\ Cardinality(Moves(Tail(ev))) \in Nat
        /\ Cardinality(Moves(q')) = Cardinality(Moves(q)) /\ Cardinality(Moves(ev')) = Cardinality(Moves(Tail(ev)))
    BY ONLY <1>1, <2>2
  <2> QED BY ONLY <1>3, <2>1, <2>3, <2>4
<1>5. WireInv'
  BY <1>1, <1>3, <1>4 DEF WireInv, WireOK, Counted, PendingIsOutstanding
<1>6. Head(ev) \in [op : {"moved", "moveFailed"}, uid : 1..uidNext - 1]
  BY <1>1 DEF Events, Replies
<1> QED BY <1>5, <1>6

(* A move failed. *)
LEMMA HandleMoveFailedKeeps ==
  ASSUME Inv, HandleMoveFailed
  PROVE  Inv'
<1>1. /\ Took("moveFailed") /\ pending' = pending - 1
      /\ UNCHANGED <<folder, results, sel, chosen, posted, selected, queries, opening, faults, uidNext, server, listed, q>>
  BY DEF HandleMoveFailed, paging, list, search, mailbox, history, bounds
<1>2. WireInv'
  BY <1>1, MoveEnds
<1>3. ListInv' /\ MailInv'
  BY <1>1, ListStays, MailStays DEF Inv, MailInv, CountOK
<1> QED BY <1>2, <1>3 DEF Inv

(* Results without a message are results, and not none. *)
LEMMA FoundWithout ==
  ASSUME NEW n \in Nat, NEW s \in Found(n), NEW u
  PROVE  RemoveUid(s, u) \in Found(n) /\ RemoveUid(s, u) # None
<1>1. s \in Seq(1..n - 1) /\ Distinct(s) /\ 1..n - 1 \subseteq Nat
  BY DEF Found
<1>2. RemoveUid(s, u) \in Seq(1..n - 1) /\ Distinct(RemoveUid(s, u))
  BY <1>1, RemoveUidIs
<1>3. RemoveUid(s, u) \in Seq(Nat)
  BY <1>1, <1>2, SeqMonotonic
<1>4. RemoveUid(s, u) # None
  BY <1>3, PageAssumption
<1> QED BY <1>2, <1>4 DEF Found

(* Rows without a message are rows. *)
LEMMA RowsWithout ==
  ASSUME NEW n \in Nat, NEW s \in Lists(n), NEW u
  PROVE  RemoveUid(s, u) \in Lists(n)
<1>1. s \in Seq(1..n - 1) /\ IsDescending(s) /\ 1..n - 1 \subseteq Nat
  BY DEF Lists
<1> QED BY <1>1, RemoveUidIs DEF Lists

(* The folder f with the rows t. *)
Reopened(g, f, t) ==
  /\ g.rows = t /\ g.nextPage = f.nextPage /\ g.firstPage = f.firstPage /\ g.totalPages = f.totalPages
  /\ g.lastId = f.lastId /\ g.pageReq = f.pageReq /\ g.refreshReq = f.refreshReq

(* A move is done: its row leaves, and the selection follows or goes to the
   neighbour. *)
LEMMA HandleMovedKeeps ==
  ASSUME Inv, HandleMoved
  PROVE  Inv'
<1> DEFINE u == Head(ev).uid
           row == RowOf(Shown, u)
           left == RemoveUid(Shown, u)
           rest == Shift(sel, Edit("removed", row))
<1>1. /\ Took("moved") /\ pending' = pending - 1
      /\ folder' = [folder EXCEPT !.rows = RemoveUid(@, u)]
      /\ results' = IF results = None THEN None ELSE RemoveUid(results, u)
      /\ UNCHANGED <<queries, opening, faults, uidNext, server, listed, q>>
  BY DEF HandleMoved, mailbox, history, bounds
<1>2. \/ row = 0 /\ UNCHANGED <<sel, posted, chosen, selected>>
      \/ row # 0 /\ selected # u /\ sel' = rest /\ chosen' = chosen \ {u} /\ UNCHANGED <<posted, selected>>
      \/ row # 0 /\ selected = u /\ selected' = None /\ SelectNeighbour(row, left, rest)
  BY DEF HandleMoved, list
<1>3. /\ uidNext \in Nat /\ folder \in Folders(uidNext) /\ results \in Found(uidNext) \cup {None}
      /\ OnRows(Shown, sel, chosen) /\ posted \in Seq(Nat \ {0}) /\ selected \in (1..uidNext - 1) \cup {None}
  BY DEF Inv, MailInv, MailOK, ListInv, FolderOK, ResultsOK, SelectionOK
<1>4. WireInv'
  BY <1>1, MoveEnds
<1>5. MailInv'
  BY <1>1, MailStays DEF Inv, MailInv, CountOK
<1>6. Shown \in Seq(1..uidNext - 1) /\ Distinct(Shown) /\ DOMAIN Shown = 1..Len(Shown) /\ Len(Shown) \in Nat
  BY ShownIs
<1>7. row \in 0..Len(Shown) /\ (row # 0 => Shown[row] = u) /\ (row = 0 => \A i \in 1..Len(Shown) : Shown[i] # u)
  BY <1>6, RowOfIs
<1> HIDE DEF u, row
<1>8. folder' \in Folders(uidNext) /\ folder'.rows = RemoveUid(folder.rows, u)
  <2> DEFINE t == RemoveUid(folder.rows, u)
  <2>1. folder \in OpenFolders(uidNext) /\ folder.pageReq <= folder.lastId /\ folder.refreshReq <= folder.lastId /\ folder.rows \in Lists(uidNext)
    BY <1>3 DEF Folders, OpenFolders
  <2>2. t \in Lists(uidNext)
    BY <1>3, <2>1, RowsWithout
  <2>3. folder' = [folder EXCEPT !.rows = t]
    BY <1>1, <2>1 DEF OpenFolders
  <2> HIDE DEF t
  <2>4. folder' \in OpenFolders(uidNext) /\ Reopened(folder', folder, t)
    BY <2>1, <2>2, <2>3 DEF OpenFolders, Reopened
  <2> QED BY <2>1, <2>4 DEF Folders, Reopened, t
<1>9. results' \in Found(uidNext) \cup {None} /\ Shown' = left
  <2>1. CASE results = None
    BY <1>1, <1>8, <2>1 DEF Shown
  <2>2. CASE results # None
    <3>1. RemoveUid(results, u) \in Found(uidNext) /\ RemoveUid(results, u) # None
      BY <1>3, <2>2, FoundWithout
    <3> QED BY <1>1, <2>2, <3>1 DEF Shown
  <2> QED BY <2>1, <2>2
<1>10. left \in Seq(1..uidNext - 1) /\ DOMAIN left = 1..Len(left) /\ Len(left) \in Nat
  <2>1. 1..uidNext - 1 \subseteq Nat
    BY <1>3
  <2>2. left \in Seq(1..uidNext - 1)
    BY <1>6, <2>1, RemoveUidIs
  <2> QED BY <2>2
<1> HIDE DEF left
<1>11. CASE row = 0
  <2>1. UNCHANGED <<sel, posted, chosen, selected>>
    BY <1>2, <1>11
  <2>2. left = Shown
    <3>1. u \notin ToSet(Shown)
      BY <1>6, <1>7, <1>11, ToSetIs
    <3> QED BY <1>6, <3>1, NothingRemoved DEF left
  <2>3. ListInv'
    BY <1>1, <1>3, <1>8, <1>9, <2>1, <2>2 DEF ListInv, FolderOK, ResultsOK, SelectionOK
  <2> QED BY <1>4, <1>5, <2>3 DEF Inv
<1>12. CASE row # 0
  <2>1. row \in 1..Len(Shown) /\ Shown[row] = u
    BY <1>6, <1>7, <1>12
  <2>2. OnRows(left, rest, chosen \ {u})
    <3>1. OnRows(RemoveUid(Shown, Shown[row]), Shift(sel, Edit("removed", row)), chosen \ {Shown[row]})
      BY <1>3, <1>6, <2>1, RemovedFollows
    <3> QED BY <2>1, <3>1 DEF left
  <2> HIDE DEF rest
  <2>3. CASE selected # u
    <3>1. sel' = rest /\ chosen' = chosen \ {u} /\ UNCHANGED <<posted, selected>>
      BY <1>2, <1>12, <2>3
    <3>2. ListInv'
      BY <1>1, <1>3, <1>8, <1>9, <2>2, <3>1 DEF ListInv, FolderOK, ResultsOK, SelectionOK
    <3> QED BY <1>4, <1>5, <3>2 DEF Inv
  <2>4. CASE selected = u
    <3>1. selected' = None /\ SelectNeighbour(row, left, rest)
      BY <1>2, <1>12, <2>4
    <3>2. OnRows(left, sel', chosen') /\ posted' \in Seq(Nat \ {0})
      <4>1. CASE left = <<>>
        <5>1. sel' = rest /\ chosen' = {} /\ posted' = posted
          BY <3>1, <4>1 DEF SelectNeighbour
        <5>2. rest \in SUBSET (1..Len(left)) /\ Len(left) = 0
          BY <2>2, <4>1 DEF OnRows
        <5>3. rest = {}
          BY <5>2
        <5> QED BY <1>3, <5>1, <5>3, NothingSelected
      <4>2. CASE left # <<>>
        <5> DEFINE r == Min({row, Len(left)})
        <5>1. Len(left) \in Nat \ {0}
          BY <1>10, <4>2
        <5>2. r = IF row <= Len(left) THEN row ELSE Len(left)
          <6>1. row \in Int /\ Len(left) \in Int
            BY <2>1, <5>1
          <6> QED BY <6>1, OfTwo
        <5>3. r \in 1..Len(left)
          BY <2>1, <5>1, <5>2
        <5>4. sel' = {r} /\ chosen' = {left[r]} /\ posted' = IF rest = {r} THEN posted ELSE Append(posted, r)
          BY <3>1, <4>2 DEF SelectNeighbour
        <5> HIDE DEF r
        <5>5. OnRows(left, {r}, {left[r]})
          BY <5>3 DEF OnRows, Marked
        <5>6. posted' \in Seq(Nat \ {0})
          BY <1>3, <5>3, <5>4
        <5> QED BY <5>4, <5>5, <5>6
      <4> QED BY <4>1, <4>2
    <3>3. ListInv'
      BY <1>1, <1>8, <1>9, <3>1, <3>2 DEF ListInv, FolderOK, ResultsOK, SelectionOK
    <3> QED BY <1>4, <1>5, <3>3 DEF Inv
  <2> QED BY <2>3, <2>4
<1> QED BY <1>11, <1>12

-----------------------------------------------------------------------------
(* The theorems about the lists, the selection and the moves              *)

(* Nothing happens. *)
LEMMA StutterKeeps ==
  ASSUME Inv, UNCHANGED vars
  PROVE  Inv'
<1>1. UNCHANGED <<folder, results, sel, chosen, posted, selected, queries, opening, faults, pending, uidNext, server, listed, q, ev>>
  BY DEF vars, paging, list, search, imap, mailbox, history, bounds
<1> QED BY <1>1, ListStays, MailStays, WireStays DEF Inv, MailInv, CountOK

(* It holds of a folder just opened. *)
LEMMA InitInv == Init => Inv
<1> SUFFICES ASSUME Init PROVE Inv
  OBVIOUS
<1>1. /\ folder = [NewFolder EXCEPT !.lastId = 1, !.pageReq = 1]
      /\ selected = None /\ pending = 0 /\ sel = {} /\ posted = <<>> /\ chosen = {}
      /\ queries = 0 /\ results = None /\ q = <<FetchHeaders(1, 1, 1)>> /\ ev = <<>>
      /\ server \in SUBSET (1..OldUids) /\ uidNext = OldUids + 1 /\ listed = 1..OldUids /\ opening = 1 /\ faults = 0
  BY DEF Init
<1>2. OldUids \in Nat
  BY PageAssumption
<1>3. MailInv
  <2>1. uidNext \in Nat \ {0} /\ uidNext - 1 = OldUids
    BY <1>1, <1>2
  <2> QED BY <1>1, <2>1 DEF MailInv, MailOK, CountOK
<1>4. folder \in Folders(uidNext)
  <2>1. uidNext \in Nat
    BY <1>3 DEF MailInv, MailOK
  <2>2. NewFolder \in OpenFolders(uidNext) /\ NewFolder.refreshReq = 0
    BY <2>1, NewFolderIs DEF Folders, NewFolder, NoRequest
  <2>3. folder \in OpenFolders(uidNext) /\ folder.lastId = 1 /\ folder.pageReq = 1 /\ folder.refreshReq = 0
    BY <1>1, <2>2 DEF OpenFolders
  <2> QED BY <2>3 DEF Folders
<1>5. ListInv
  <2>1. OnRows(Shown, sel, chosen)
    BY <1>1, NothingSelected
  <2> QED BY <1>1, <1>4, <2>1 DEF ListInv, FolderOK, ResultsOK, SelectionOK
<1>6. WireInv
  <2>1. uidNext \in Nat /\ 1 \in Nat \ {0} /\ 1 \in Nat
    BY <1>3 DEF MailInv, MailOK
  <2>2. FetchHeaders(1, 1, 1) \in Cmds(uidNext) /\ MoveOf(FetchHeaders(1, 1, 1)) = 0
    BY <2>1, HeadersCommand
  <2>3. <<>> \in Seq(Cmds(uidNext)) /\ q = Append(<<>>, FetchHeaders(1, 1, 1))
    BY <1>1
  <2>4. q \in Seq(Cmds(uidNext)) /\ ev \in Seq(Events(uidNext))
    BY <1>1, <2>2
  <2>5. Cardinality(Moves(q)) = Cardinality(Moves(<<>>)) + MoveOf(FetchHeaders(1, 1, 1))
    BY <2>2, <2>3, MovesAppend
  <2>6. Moves(<<>>) = {}
    BY DEF Moves
  <2>7. Cardinality(Moves(<<>>)) = 0
    BY <2>6, FS_EmptySet
  <2>8. pending = Cardinality(Moves(q)) + Cardinality(Moves(ev))
    BY <1>1, <2>2, <2>5, <2>7
  <2> QED BY <1>1, <2>4, <2>8 DEF WireInv, WireOK, Counted, PendingIsOutstanding
<1> QED BY <1>3, <1>5, <1>6 DEF Inv

(* Every step keeps it. *)
LEMMA NextInv == Inv /\ [Next]_vars => Inv'
<1> SUFFICES ASSUME Inv, [Next]_vars PROVE Inv'
  OBVIOUS
<1>1. CASE UNCHANGED vars
  BY <1>1, StutterKeeps
<1>2. CASE User
  <2>1. CASE \E r \in DOMAIN Shown : ClickRow(r) \/ CtrlClickRow(r)
    BY <2>1, ClickKeeps
  <2> QED BY <1>2, <2>1, UserOpensKeeps, UserRefreshesKeeps, NearEndKeeps, MoveSelectedKeeps, SearchKeeps, ClearSearchKeeps DEF User
<1>3. CASE Cache
  BY <1>3, SeedFromCacheKeeps, SearchArrivedKeeps DEF Cache
<1>4. CASE Actor
  BY <1>4, ServeHeadersKeeps, ServeMoveKeeps, ReconnectKeeps DEF Actor
<1>5. CASE Handle
  BY <1>5, HandlePostedKeeps, HandleNewsKeeps, HandleErrorKeeps, HandleHeadersKeeps, HandleMovedKeeps, HandleMoveFailedKeeps DEF Handle
<1>6. CASE World
  BY <1>6, ArriveKeeps, ExpungeKeeps, AnnounceKeeps, CommandFailsKeeps, OtherErrorKeeps DEF World
<1> QED BY <1>1, <1>2, <1>3, <1>4, <1>5, <1>6 DEF Next

(* And it implies what the runs check. *)
LEMMA InvImplies == Inv => TypeOK /\ NewestFirst /\ SelectionFollowsMessages /\ PendingIsOutstanding
<1> SUFFICES ASSUME Inv PROVE TypeOK /\ NewestFirst /\ SelectionFollowsMessages /\ PendingIsOutstanding
  OBVIOUS
<1>1. /\ folder \in OpenFolders(uidNext) /\ folder.pageReq <= folder.lastId /\ folder.refreshReq <= folder.lastId
  BY DEF Inv, ListInv, FolderOK, Folders
<1>2. /\ folder.rows \in Seq(1..uidNext - 1) /\ IsDescending(folder.rows) /\ folder.nextPage \in Nat \ {0}
      /\ folder.totalPages \in Nat \cup {None} /\ folder.pageReq \in 0..folder.lastId /\ folder.refreshReq \in 0..folder.lastId
  BY <1>1 DEF OpenFolders, Lists
<1>3. sel \subseteq DOMAIN Shown /\ {Shown[r] : r \in sel} = chosen
  BY ShownIs DEF Inv, ListInv, SelectionOK, OnRows, Marked
<1>4. q \in Seq(Commands)
  BY DEF Inv, WireInv, WireOK, Commands, Cmds
<1>5. TypeOK
  BY <1>2, <1>3, <1>4 DEF TypeOK, Inv, ListInv, SelectionOK, MailInv, MailOK, CountOK, WireInv, Counted
<1> QED BY <1>2, <1>3, <1>5 DEF NewestFirst, SelectionFollowsMessages, Inv, WireInv, Counted

(* The lists are newest first without repetition, the selected rows are the
   messages the user selected, and the count of moves under way is the number
   of move commands and events on the wire, in every state. *)
THEOREM Invariance == Spec => []Inv
BY InitInv, NextInv, PTL DEF Spec

(* The variables have their types: request ids are never ahead of their
   counter and every uid was handed out by the server. *)
THEOREM TypeCorrect == Spec => []TypeOK
BY Invariance, InvImplies, PTL

(* Whatever mixture of cached rows, pages and refreshes a list is made of, it
   is newest first and has no message twice (OpenFolder::append,
   merge_newest). *)
THEOREM AlwaysNewestFirst == Spec => []NewestFirst
BY Invariance, InvImplies, PTL

(* The selected rows are the messages the user selected, through every
   insertion and removal (Selection::insert, Selection::remove,
   show_applied). *)
THEOREM SelectionFollows == Spec => []SelectionFollowsMessages
BY Invariance, InvImplies, PTL

(* The bars are disabled exactly while a move is under way: every move ends
   in one event that calls action_finished. *)
THEOREM PendingIsCounted == Spec => []PendingIsOutstanding
BY Invariance, InvImplies, PTL

-----------------------------------------------------------------------------
(* What the replies on their way say of the mailbox                       *)

(* The messages the server has within the range of a reply that it does not
   tell of; what an event tells of. *)
Missing(S, r) == {v \in S : v >= Floor(r.uids) /\ v \notin ToSet(r.uids)}
Tells(e) == IF e.op = "headers" THEN ToSet(e.uids) ELSE {}

(* A message whose move is reported is not in the mailbox. *)
MovedAreGone == \A e \in ToSet(ev) : e.op = "moved" => e.uid \notin server

(* The rows are messages the frontend has been told of. *)
RowsAreListed == ToSet(folder.rows) \subseteq listed

(* What a reply of the newest page lacks has arrived since, and nothing that
   is handled before it tells of it. *)
Newest(s, S, L) ==
  \A i \in 1..Len(s) : s[i].op = "headers" /\ s[i].page = 1 =>
    \A v \in Missing(S, s[i]) : v \notin L /\ \A j \in 1..i - 1 : v \notin Tells(s[j])

NewestAreCurrent == Newest(ev, server, listed)
UpToDate == MovedAreGone /\ RowsAreListed /\ NewestAreCurrent

(* No event, and no message that was not there. *)
LEMMA NothingNew ==
  ASSUME UpToDate, UNCHANGED <<ev, listed>>, server' \in SUBSET server, ToSet(folder'.rows) \subseteq listed
  PROVE  UpToDate'
<1>1. MovedAreGone' /\ RowsAreListed'
  BY DEF UpToDate, MovedAreGone, RowsAreListed
<1>2. NewestAreCurrent'
  BY DEF UpToDate, NewestAreCurrent, Newest, Missing
<1> QED BY <1>1, <1>2 DEF UpToDate

(* An event is handled: the replies after it are as good as before. *)
LEMMA EventTaken ==
  ASSUME Inv, UpToDate, ev # <<>>, ev' = Tail(ev), server' = server, listed \subseteq listed', listed' \subseteq listed \cup Tells(Head(ev)),
         ToSet(folder'.rows) \subseteq listed'
  PROVE  UpToDate'
<1>1. ev \in Seq(Events(uidNext))
  BY DEF Inv, WireInv, WireOK
<1>2. /\ Len(ev) \in Nat \ {0} /\ Len(ev') = Len(ev) - 1 /\ Head(ev) = ev[1]
      /\ \A i \in 1..Len(ev) - 1 : ev'[i] = ev[i + 1] /\ i + 1 \in 1..Len(ev)
      /\ ToSet(ev') \subseteq ToSet(ev)
  BY <1>1, TailIs
<1>3. MovedAreGone' /\ RowsAreListed'
  BY <1>2 DEF UpToDate, MovedAreGone, RowsAreListed
<1>4. NewestAreCurrent'
  <2> SUFFICES ASSUME NEW i \in 1..Len(ev'), ev'[i].op = "headers" /\ ev'[i].page = 1, NEW v \in Missing(server, ev'[i])
               PROVE  v \notin listed' /\ \A j \in 1..i - 1 : v \notin Tells(ev'[j])
    BY DEF NewestAreCurrent, Newest
  <2>1. i \in 1..Len(ev) - 1 /\ i + 1 \in 1..Len(ev) /\ ev'[i] = ev[i + 1]
    BY <1>2
  <2>2. v \notin listed /\ \A j \in 1..(i + 1) - 1 : v \notin Tells(ev[j])
    BY <2>1 DEF UpToDate, NewestAreCurrent, Newest
  <2>3. v \notin Tells(ev[1])
    <3>1. 1 \in 1..(i + 1) - 1
      BY <2>1
    <3> QED BY <2>2, <3>1
  <2>4. ASSUME NEW j \in 1..i - 1 PROVE v \notin Tells(ev'[j])
    <3>1. j \in 1..Len(ev) - 1 /\ j + 1 \in 1..(i + 1) - 1
      BY <1>2, <2>1
    <3> QED BY <1>2, <2>2, <3>1
  <2> QED BY <1>2, <2>2, <2>3, <2>4
<1> QED BY <1>3, <1>4 DEF UpToDate

(* A reply tells of all there is in its range when it is made. *)
LEMMA EventEmitted ==
  ASSUME Inv, UpToDate, NEW e \in Events(uidNext), ev' = Append(ev, e), server' \in SUBSET server, listed' = listed, folder' = folder,
         e.op = "moved" => e.uid \notin server', e.op = "headers" /\ e.page = 1 => Missing(server', e) = {}
  PROVE  UpToDate'
<1>1. ev \in Seq(Events(uidNext))
  BY DEF Inv, WireInv, WireOK
<1>2. /\ Len(ev') = Len(ev) + 1 /\ Len(ev) \in Nat
      /\ \A i \in 1..Len(ev) : ev'[i] = ev[i]
      /\ ev'[Len(ev) + 1] = e
      /\ ToSet(ev') = ToSet(ev) \cup {e}
  BY <1>1, AppendIs
<1>3. MovedAreGone' /\ RowsAreListed'
  BY <1>2 DEF UpToDate, MovedAreGone, RowsAreListed
<1>4. NewestAreCurrent'
  <2> SUFFICES ASSUME NEW i \in 1..Len(ev'), ev'[i].op = "headers" /\ ev'[i].page = 1, NEW v \in Missing(server', ev'[i])
               PROVE  v \notin listed /\ \A j \in 1..i - 1 : v \notin Tells(ev'[j])
    BY DEF NewestAreCurrent, Newest
  <2>1. i # Len(ev) + 1
    BY <1>2
  <2>2. i \in 1..Len(ev) /\ ev'[i] = ev[i]
    BY <1>2, <2>1
  <2>3. v \in Missing(server, ev[i])
    BY <2>2 DEF Missing
  <2>4. v \notin listed /\ \A j \in 1..i - 1 : v \notin Tells(ev[j])
    BY <2>2, <2>3 DEF UpToDate, NewestAreCurrent, Newest
  <2>5. \A j \in 1..i - 1 : ev'[j] = ev[j]
    BY <1>2, <2>2
  <2> QED BY <2>4, <2>5
<1> QED BY <1>3, <1>4 DEF UpToDate

(* The events and what they tell of. *)
LEMMA EventTyped ==
  ASSUME Inv, NEW i \in 1..Len(ev)
  PROVE  /\ ev[i] \in Events(uidNext) /\ Tells(ev[i]) \subseteq 1..uidNext - 1
         /\ ev[i].op = "moved" => ev[i].uid \in 1..uidNext - 1
<1>1. ev[i] \in Events(uidNext)
  BY DEF Inv, WireInv, WireOK
<1>2. CASE ev[i].op = "headers"
  <2>1. ev[i] \in Replies(uidNext)
    BY <1>1, <1>2 DEF Events
  <2>2. ev[i].uids \in Seq(1..uidNext - 1)
    BY <2>1 DEF Replies, Lists
  <2>3. ToSet(ev[i].uids) \subseteq 1..uidNext - 1
    BY <2>2, ToSetIs
  <2> QED BY <1>1, <1>2, <2>3 DEF Tells
<1>3. CASE ev[i].op # "headers"
  BY <1>1, <1>3 DEF Tells, Events, Replies
<1> QED BY <1>2, <1>3

(* The uid of a new message is one that nobody was told of. *)
LEMMA MailArrives ==
  ASSUME Inv, UpToDate, server' = server \cup {uidNext}, UNCHANGED <<ev, listed, folder>>
  PROVE  UpToDate'
<1>1. uidNext \in Nat /\ listed \in SUBSET (1..uidNext - 1) /\ ev \in Seq(Events(uidNext))
  BY DEF Inv, MailInv, MailOK, WireInv, WireOK
<1>2. uidNext \notin 1..uidNext - 1 /\ uidNext \notin listed
  BY <1>1
<1>3. ToSet(ev) = {ev[i] : i \in 1..Len(ev)}
  BY <1>1, ToSetIs
<1>4. MovedAreGone' /\ RowsAreListed'
  BY <1>2, <1>3, EventTyped DEF UpToDate, MovedAreGone, RowsAreListed
<1>5. NewestAreCurrent'
  <2> SUFFICES ASSUME NEW i \in 1..Len(ev), ev[i].op = "headers" /\ ev[i].page = 1, NEW v \in Missing(server', ev[i])
               PROVE  v \notin listed /\ \A j \in 1..i - 1 : v \notin Tells(ev[j])
    BY DEF NewestAreCurrent, Newest
  <2>1. CASE v = uidNext
    <3>1. ASSUME NEW j \in 1..i - 1 PROVE v \notin Tells(ev[j])
      <4>1. j \in 1..Len(ev)
        BY <1>1
      <4> QED BY <1>2, <2>1, <4>1, EventTyped
    <3> QED BY <1>2, <2>1, <3>1
  <2>2. CASE v # uidNext
    <3>1. v \in Missing(server, ev[i])
      BY <2>2 DEF Missing
    <3> QED BY <3>1 DEF UpToDate, NewestAreCurrent, Newest
  <2> QED BY <2>1, <2>2
<1> QED BY <1>4, <1>5 DEF UpToDate

(* The rows stay, or there are none any more. *)
LEMMA RowsKept ==
  ASSUME UpToDate, UNCHANGED <<ev, listed>>, server' \in SUBSET server, folder'.rows = folder.rows \/ folder'.rows = <<>>
  PROVE  UpToDate'
<1>1. ToSet(<<>>) = {}
  BY DEF ToSet
<1>2. ToSet(folder'.rows) \subseteq listed
  BY <1>1 DEF UpToDate, RowsAreListed
<1> QED BY <1>2, NothingNew

(* Asking for a page leaves the rows. *)
LEMMA RequestedPage ==
  ASSUME Inv, NEW f \in Folders(uidNext), NEW of \in Nat, RequestPage(f, of)
  PROVE  folder'.rows = f.rows /\ Asked(f, of)
<1>1. uidNext \in Nat
  BY DEF Inv, MailInv, MailOK
<1> QED BY <1>1, RequestPageIs DEF Asked

(* A folder opened afresh is another opening, without rows. *)
LEMMA OpenedFolder ==
  ASSUME Inv, OpenFolder
  PROVE  opening' = opening + 1 /\ opening \in Nat /\ folder'.rows = <<>> /\ Asked(NewFolder, opening + 1)
<1>1. uidNext \in Nat /\ opening \in Nat /\ opening' = opening + 1 /\ RequestPage(NewFolder, opening + 1)
  BY DEF Inv, MailInv, MailOK, CountOK, OpenFolder
<1>2. NewFolder \in Folders(uidNext) /\ NewFolder.rows = <<>> /\ opening + 1 \in Nat
  BY <1>1, NewFolderIs
<1> QED BY <1>1, <1>2, RequestedPage

(* What the user does. *)
LEMMA UserCurrent ==
  ASSUME Inv, UpToDate, User
  PROVE  UpToDate'
<1>1. CASE UserOpens
  <2>1. OpenFolder /\ UNCHANGED <<ev, listed, server>>
    BY <1>1 DEF UserOpens, mailbox
  <2> QED BY <2>1, OpenedFolder, RowsKept
<1>2. CASE UserRefreshes
  <2>1. CASE folder.firstPage
    <3>1. RequestRefresh /\ UNCHANGED <<ev, listed, server>>
      BY <1>2, <2>1 DEF UserRefreshes, history, mailbox
    <3>2. folder'.rows = folder.rows
      BY <3>1, RequestRefreshIs DEF Renewed, Inv, ListInv
    <3> QED BY <3>1, <3>2, RowsKept
  <2>2. CASE ~folder.firstPage
    <3>1. OpenFolder /\ UNCHANGED <<ev, listed, server>>
      BY <1>2, <2>2 DEF UserRefreshes, mailbox
    <3> QED BY <3>1, OpenedFolder, RowsKept
  <2> QED BY <2>1, <2>2
<1>3. CASE NearEnd
  <2>1. RequestPage(folder, opening) /\ UNCHANGED <<ev, listed, server>>
    BY <1>3 DEF NearEnd, mailbox, history
  <2>2. folder \in Folders(uidNext) /\ opening \in Nat
    BY DEF Inv, MailInv, CountOK, ListInv, FolderOK
  <2> QED BY <2>1, <2>2, RequestedPage, RowsKept
<1>4. CASE MoveSelected
  <2>1. UNCHANGED <<ev, listed, server, folder>>
    BY <1>4 DEF MoveSelected, mailbox, history, paging
  <2> QED BY <2>1, RowsKept
<1>5. CASE Search \/ ClearSearch
  <2>1. UNCHANGED <<ev, listed, server, folder>>
    BY <1>5 DEF Search, ClearSearch, mailbox, history, paging, imap
  <2> QED BY <2>1, RowsKept
<1>6. CASE \E r \in DOMAIN Shown : ClickRow(r) \/ CtrlClickRow(r)
  <2>1. UNCHANGED <<ev, listed, server, folder>>
    BY <1>6 DEF ClickRow, CtrlClickRow, SelectRows, mailbox, history, paging, imap
  <2> QED BY <2>1, RowsKept
<1> QED BY <1>1, <1>2, <1>3, <1>4, <1>5, <1>6 DEF User

(* What the cache answers. *)
LEMMA CacheCurrent ==
  ASSUME Inv, UpToDate, Cache
  PROVE  UpToDate'
<1>1. ASSUME NEW S \in SUBSET listed, SeedFromCache(S) PROVE UpToDate'
  <2>1. folder' = SeedFolder(folder, S) /\ UNCHANGED <<ev, listed, server>>
    BY <1>1 DEF SeedFromCache, imap, mailbox
  <2>2. uidNext \in Nat /\ S \in SUBSET (1..uidNext - 1) /\ folder \in Folders(uidNext)
    BY DEF Inv, MailInv, MailOK, ListInv, FolderOK
  <2>3. ToSet(folder'.rows) \subseteq listed
    BY <2>1, <2>2, SeedIs
  <2> QED BY <2>1, <2>3, NothingNew
<1>2. ASSUME NEW S \in SUBSET listed, SearchArrived(S) PROVE UpToDate'
  <2>1. UNCHANGED <<ev, listed, server, folder>>
    BY <1>2 DEF SearchArrived, imap, mailbox, history, paging
  <2> QED BY <2>1, RowsKept
<1> QED BY <1>1, <1>2 DEF Cache

(* The reply the actor makes: its first page lacks nothing in its range. *)
LEMMA ServedHeaders ==
  ASSUME Inv, ServeHeaders
  PROVE  /\ Headers(Head(q)) \in Replies(uidNext) /\ ev' = Append(ev, Headers(Head(q)))
         /\ Headers(Head(q)).page = Head(q).page /\ Headers(Head(q)).id = Head(q).id /\ Headers(Head(q)).of = Head(q).of
         /\ Headers(Head(q)).page = 1 => Missing(server, Headers(Head(q))) = {}
         /\ q # <<>> /\ Head(q).op = "headers" /\ q' = Tail(q)
         /\ UNCHANGED <<server, listed, folder, opening, faults>>
<1> DEFINE c == Head(q)
<1>1. /\ c.op = "headers" /\ q # <<>> /\ MailOK /\ ev' = Append(ev, Headers(c)) /\ q' = Tail(q)
      /\ UNCHANGED <<server, listed, folder, opening, faults>>
  BY DEF ServeHeaders, Serve, Inv, MailInv, paging, history
<1>2. c \in [op : {"headers"}, page : Nat \ {0}, id : Nat, of : Nat]
  BY <1>1, HeadCommand DEF Inv
<1>3. c.page \in Nat \ {0}
  BY <1>2
<1>4. /\ Headers(c) \in Replies(uidNext) /\ Headers(c).page = c.page /\ Headers(c).id = c.id /\ Headers(c).of = c.of
      /\ Headers(c).uids = Page(c.page)
  BY <1>1, <1>2, ReplyIs
<1>5. c.page = 1 => Current(Page(c.page), server)
  BY <1>1, <1>3, PageIs
<1>6. c.page = 1 => Missing(server, Headers(c)) = {}
  BY <1>4, <1>5 DEF Missing, Current
<1> QED BY <1>1, <1>4, <1>6

(* What the actor does. *)
LEMMA ActorCurrent ==
  ASSUME Inv, UpToDate, Actor
  PROVE  UpToDate'
<1>1. CASE ServeHeaders
  <2> DEFINE e == Headers(Head(q))
  <2>1. /\ e \in Replies(uidNext) /\ ev' = Append(ev, e) /\ (e.page = 1 => Missing(server, e) = {})
        /\ UNCHANGED <<server, listed, folder>>
    BY <1>1, ServedHeaders
  <2> HIDE DEF e
  <2>2. e \in Events(uidNext) /\ e.op # "moved" /\ server' \in SUBSET server
    BY <2>1 DEF Events, Replies
  <2> QED BY <2>1, <2>2, EventEmitted
<1>2. CASE ServeMove
  <2> DEFINE u == Head(q).uid
             e == [op |-> "moved", uid |-> u]
  <2>1. ev' = Append(ev, e) /\ server' = server \ {u} /\ listed' = listed /\ folder' = folder /\ q # <<>> /\ Head(q).op = "move"
    BY <1>2 DEF ServeMove, Serve, paging, history
  <2>2. Head(q) \in [op : {"move"}, uid : 1..uidNext - 1]
    BY <2>1, HeadCommand DEF Inv
  <2>3. e \in Events(uidNext) /\ e.op = "moved" /\ e.uid = u
    BY <2>2, MoveEvent
  <2>4. server' \in SUBSET server /\ u \notin server'
    BY <2>1
  <2> HIDE DEF e
  <2> QED BY <2>1, <2>3, <2>4, EventEmitted
<1>3. CASE Reconnect
  <2> DEFINE e == [op |-> "connected"]
  <2>1. ev' = Append(ev, e) /\ UNCHANGED <<server, listed, folder>>
    BY <1>3 DEF Reconnect, paging, history
  <2>2. e \in Events(uidNext) /\ e.op = "connected" /\ server' \in SUBSET server
    BY <2>1, OtherEvent
  <2> HIDE DEF e
  <2> QED BY <2>1, <2>2, EventEmitted
<1> QED BY <1>1, <1>2, <1>3 DEF Actor

(* What happens to the mailbox. *)
LEMMA WorldCurrent ==
  ASSUME Inv, UpToDate, World
  PROVE  UpToDate'
<1>1. CASE Arrive
  <2>1. server' = server \cup {uidNext} /\ UNCHANGED <<ev, listed, folder>>
    BY <1>1 DEF Arrive, paging, imap, history
  <2> QED BY <2>1, MailArrives
<1>2. CASE Expunge
  <2>1. server' \in SUBSET server /\ UNCHANGED <<ev, listed, folder>>
    BY <1>2 DEF Expunge, paging, imap, history
  <2> QED BY <2>1, RowsKept
<1>3. CASE Announce
  <2> DEFINE e == [op |-> "newHeaders"]
  <2>1. ev' = Append(ev, e) /\ UNCHANGED <<server, listed, folder>>
    BY <1>3 DEF Announce, paging, history
  <2>2. e \in Events(uidNext) /\ e.op = "newHeaders" /\ server' \in SUBSET server
    BY <2>1, OtherEvent
  <2> HIDE DEF e
  <2> QED BY <2>1, <2>2, EventEmitted
<1>4. CASE OtherError
  <2> DEFINE e == [op |-> "error"]
  <2>1. ev' = Append(ev, e) /\ UNCHANGED <<server, listed, folder>>
    BY <1>4 DEF OtherError, paging, history, mailbox
  <2>2. e \in Events(uidNext) /\ e.op = "error" /\ server' \in SUBSET server
    BY <2>1, OtherEvent
  <2> HIDE DEF e
  <2> QED BY <2>1, <2>2, EventEmitted
<1>5. CASE CommandFails
  <2> DEFINE e == Failure(Head(q))
  <2>1. ev' = Append(ev, e) /\ server' \in SUBSET server /\ UNCHANGED <<listed, folder>> /\ q # <<>>
    BY <1>5 DEF CommandFails, Serve, paging, history
  <2>2. e \in Events(uidNext) /\ e.op # "moved" /\ e.op # "headers"
    <3>1. CASE Head(q).op = "headers"
      <4>1. e = [op |-> "error"]
        BY <3>1 DEF Failure
      <4> QED BY <4>1, OtherEvent
    <3>2. CASE Head(q).op # "headers"
      <4>1. e = [op |-> "moveFailed", uid |-> Head(q).uid] /\ Head(q) \in [op : {"move"}, uid : 1..uidNext - 1]
        BY <2>1, <3>2, HeadCommand DEF Failure, Inv
      <4> QED BY <4>1, MoveEvent
    <3> QED BY <3>1, <3>2
  <2> HIDE DEF e
  <2> QED BY <2>1, <2>2, EventEmitted
<1> QED BY <1>1, <1>2, <1>3, <1>4, <1>5 DEF World

(* What a handled reply makes of the folder. *)
LEMMA AppliedReply ==
  ASSUME Inv, HandleHeaders, NEW r, r = Head(ev), NEW a, a = ApplyReply(folder, r)
  PROVE  /\ ev # <<>> /\ ev' = Tail(ev) /\ r \in Replies(uidNext) /\ r.op = "headers"
         /\ listed' = listed \cup ToSet(r.uids) /\ server' = server /\ opening' = opening
         /\ a.folder \in Folders(uidNext) /\ Answers(a, folder, r, {})
         /\ folder'.rows = a.folder.rows
         /\ (folder' = a.folder /\ UNCHANGED <<q, faults>>) \/ (a.kind # "stale" /\ Asked(a.folder, opening))
<1>1. /\ Took("headers") /\ listed' = listed \cup ToSet(r.uids) /\ server' = server /\ opening' = opening
      /\ \/ a.kind = "stale" /\ UNCHANGED <<folder, q, faults>>
         \/ a.kind # "stale" /\ (RequestPage(a.folder, opening) \/ (folder' = a.folder /\ UNCHANGED <<q, faults>>))
  BY DEF HandleHeaders, mailbox, paging
<1>2. r \in Replies(uidNext) /\ r.op = "headers" /\ ev # <<>> /\ ev' = Tail(ev)
  <2>1. r \in Events(uidNext) /\ r.op = "headers"
    BY <1>1, HeadEvent
  <2> QED BY <1>1, <2>1 DEF Events, Took
<1>3. uidNext \in Nat /\ opening \in Nat /\ folder \in Folders(uidNext)
  BY DEF Inv, MailInv, MailOK, CountOK, ListInv, FolderOK
<1>4. a.folder \in Folders(uidNext) /\ Answers(a, folder, r, {})
  BY <1>2, <1>3, ApplyReplyIs
<1>5. /\ folder'.rows = a.folder.rows
      /\ (folder' = a.folder /\ UNCHANGED <<q, faults>>) \/ (a.kind # "stale" /\ Asked(a.folder, opening))
  <2>1. CASE a.kind = "stale"
    BY <1>1, <1>4, <2>1 DEF Answers
  <2>2. CASE a.kind # "stale" /\ folder' = a.folder /\ UNCHANGED <<q, faults>>
    BY <2>2
  <2>3. CASE a.kind # "stale" /\ RequestPage(a.folder, opening)
    BY <1>3, <1>4, <2>3, RequestedPage
  <2> QED BY <1>1, <2>1, <2>2, <2>3
<1> QED BY <1>1, <1>2, <1>4, <1>5

(* What a finished move makes of the folder. *)
LEMMA MovedRows ==
  ASSUME Inv, HandleMoved
  PROVE  /\ ToSet(folder'.rows) = ToSet(folder.rows) \ {Head(ev).uid} /\ Took("moved")
         /\ folder'.firstPage = folder.firstPage /\ folder'.pageReq = folder.pageReq /\ folder'.refreshReq = folder.refreshReq /\ folder'.lastId = folder.lastId
         /\ folder'.nextPage = folder.nextPage /\ folder'.totalPages = folder.totalPages
         /\ UNCHANGED <<server, listed, q, opening, faults>>
<1> DEFINE u == Head(ev).uid
           t == RemoveUid(folder.rows, u)
<1>1. folder' = [folder EXCEPT !.rows = RemoveUid(@, u)] /\ Took("moved") /\ UNCHANGED <<server, listed, q, opening, faults>>
  BY DEF HandleMoved, mailbox, history, bounds
<1>2. uidNext \in Nat /\ folder \in OpenFolders(uidNext)
  BY DEF Inv, MailInv, MailOK, ListInv, FolderOK, Folders
<1>3. folder.rows \in Seq(1..uidNext - 1) /\ 1..uidNext - 1 \subseteq Nat
  BY <1>2 DEF OpenFolders, Lists
<1>4. Without(t, folder.rows, u)
  BY <1>3, RemoveUidIs
<1>5. folder' = [folder EXCEPT !.rows = t]
  BY <1>1, <1>2 DEF OpenFolders
<1> HIDE DEF u, t
<1>6. Reopened(folder', folder, t)
  BY <1>2, <1>5 DEF OpenFolders, Reopened
<1> QED BY <1>1, <1>4, <1>6 DEF Without, Reopened, u

(* What the UI thread does with an event. *)
LEMMA HandleCurrent ==
  ASSUME Inv, UpToDate, Handle
  PROVE  UpToDate'
<1>0. ToSet(folder.rows) \subseteq listed
  BY DEF UpToDate, RowsAreListed
<1>1. CASE HandlePosted
  <2>1. UNCHANGED <<ev, listed, server, folder>>
    BY <1>1 DEF HandlePosted, mailbox, history, paging, imap
  <2> QED BY <2>1, RowsKept
<1>2. CASE HandleNews
  <2>1. RequestRefresh /\ UNCHANGED <<listed, server>> /\ ev # <<>> /\ ev' = Tail(ev)
    BY <1>2 DEF HandleNews, Took, history, mailbox
  <2>2. folder'.rows = folder.rows
    BY <2>1, RequestRefreshIs DEF Renewed, Inv, ListInv
  <2> QED BY <1>0, <2>1, <2>2, EventTaken
<1>3. CASE HandleError
  <2>1. folder' = [folder EXCEPT !.pageReq = NoRequest] /\ UNCHANGED <<listed, server>> /\ ev # <<>> /\ ev' = Tail(ev)
    BY <1>3 DEF HandleError, Took, history, mailbox
  <2>2. folder'.rows = folder.rows
    BY <2>1, Forgotten DEF Inv, ListInv, FolderOK
  <2> QED BY <1>0, <2>1, <2>2, EventTaken
<1>4. CASE HandleHeaders
  <2> DEFINE r == Head(ev)
             a == ApplyReply(folder, r)
  <2>1. /\ ev # <<>> /\ ev' = Tail(ev) /\ r.op = "headers" /\ listed' = listed \cup ToSet(r.uids) /\ server' = server
        /\ Answers(a, folder, r, {}) /\ folder'.rows = a.folder.rows
    BY <1>4, AppliedReply
  <2>2. ToSet(folder'.rows) \subseteq ToSet(folder.rows) \cup ToSet(r.uids)
    BY <2>1 DEF Answers
  <2>3. listed' = listed \cup Tells(Head(ev))
    BY <2>1 DEF Tells
  <2> QED BY <1>0, <2>1, <2>2, <2>3, EventTaken
<1>5. CASE HandleMoved
  <2>1. ToSet(folder'.rows) \subseteq ToSet(folder.rows) /\ ev # <<>> /\ ev' = Tail(ev) /\ UNCHANGED <<listed, server>>
    BY <1>5, MovedRows DEF Took
  <2> QED BY <1>0, <2>1, EventTaken
<1>6. CASE HandleMoveFailed
  <2>1. UNCHANGED <<listed, server, folder>> /\ ev # <<>> /\ ev' = Tail(ev)
    BY <1>6 DEF HandleMoveFailed, Took, history, mailbox, paging
  <2> QED BY <1>0, <2>1, EventTaken
<1> QED BY <1>1, <1>2, <1>3, <1>4, <1>5, <1>6 DEF Handle

(* Every step keeps it. *)
LEMMA NextCurrent ==
  ASSUME Inv, UpToDate, [Next]_vars
  PROVE  UpToDate'
<1>1. CASE UNCHANGED vars
  <2>1. UNCHANGED <<ev, listed, server, folder>>
    BY <1>1 DEF vars, imap, history, mailbox, paging
  <2> QED BY <2>1, RowsKept
<1> QED BY <1>1, UserCurrent, CacheCurrent, ActorCurrent, HandleCurrent, WorldCurrent DEF Next

(* It holds at the start. *)
LEMMA InitCurrent == Init => UpToDate
<1> SUFFICES ASSUME Init PROVE UpToDate
  OBVIOUS
<1>1. folder.rows = <<>> /\ ev = <<>>
  BY DEF Init, NewFolder
<1>2. ToSet(<<>>) = {} /\ Len(<<>>) = 0
  BY DEF ToSet
<1> QED BY <1>1, <1>2 DEF UpToDate, MovedAreGone, RowsAreListed, NewestAreCurrent, Newest

-----------------------------------------------------------------------------
(* What the requests on their way were made for                           *)

(* The requests and replies on their way: of no later opening, and of this
   one with ids it gave out, those of a refresh for page 1. Nothing is
   refreshed before the first page is there, and as long as nothing failed
   that page is what has been asked for. *)
InFlight == ToSet(q) \cup ToSet(ev)

RequestsOK ==
  \A c \in InFlight : c.op = "headers" =>
    /\ c.of <= opening /\ c.id >= 1
    /\ c.of = opening => c.id <= folder.lastId /\ (c.id = folder.refreshReq => c.page = 1)

RefreshLater == ~folder.firstPage => folder.refreshReq = NoRequest

NoFailure ==
  faults = 0 =>
    /\ \A e \in ToSet(ev) : e.op # "error"
    /\ ~folder.firstPage => /\ folder.pageReq # NoRequest
                            /\ \A c \in InFlight : c.op = "headers" /\ c.of = opening => c.page = 1

Own == RequestsOK /\ RefreshLater /\ NoFailure

(* Every request or reply was one before, and no error is new. *)
Mirrored ==
  \A c \in InFlight' : c.op = "headers" => \E d \in InFlight : d.op = "headers" /\ d.page = c.page /\ d.id = c.id /\ d.of = c.of

NoErrors == faults' = 0 => faults = 0 /\ \A e \in ToSet(ev') : e.op = "error" => e \in ToSet(ev)

SameFolder ==
  /\ folder'.lastId = folder.lastId /\ folder'.firstPage = folder.firstPage
  /\ folder'.pageReq = folder.pageReq /\ folder'.refreshReq = folder.refreshReq

Quietly == Mirrored /\ NoErrors /\ SameFolder /\ opening' = opening

(* Then it stays. *)
LEMMA OwnStays ==
  ASSUME Own, Quietly
  PROVE  Own'
<1>1. RequestsOK'
  BY DEF Own, RequestsOK, Quietly, Mirrored, SameFolder
<1>2. RefreshLater'
  BY DEF Own, RefreshLater, Quietly, SameFolder
<1>3. NoFailure'
  BY DEF Own, NoFailure, Quietly, NoErrors, Mirrored, SameFolder
<1> QED BY <1>1, <1>2, <1>3 DEF Own

(* The numbers of a folder. *)
LEMMA FolderInts ==
  ASSUME NEW n, NEW f \in Folders(n)
  PROVE  /\ f.lastId \in Nat /\ f.pageReq \in Nat /\ f.refreshReq \in Nat /\ f.pageReq <= f.lastId /\ f.refreshReq <= f.lastId
         /\ f.firstPage \in BOOLEAN /\ f.nextPage \in Nat \ {0}
BY DEF Folders, OpenFolders

(* The numbers of a request or reply. *)
LEMMA RequestInts ==
  ASSUME Inv, NEW c \in InFlight, c.op = "headers"
  PROVE  c.of \in Nat /\ c.id \in Nat /\ c.page \in Nat \ {0}
<1>1. ToSet(q) \subseteq Cmds(uidNext) /\ ToSet(ev) \subseteq Events(uidNext)
  BY ToSetIs DEF Inv, WireInv, WireOK
<1>2. c \in Cmds(uidNext) \/ c \in Events(uidNext)
  BY <1>1 DEF InFlight
<1> QED BY <1>2 DEF Cmds, Events, Replies

(* What is on its way once a request is sent. *)
LEMMA CommandSent ==
  ASSUME Inv, NEW page \in Nat \ {0}, NEW id \in Nat, NEW of \in Nat, Sent(FetchHeaders(page, id, of)), ToSet(ev') \subseteq ToSet(ev)
  PROVE  \A c \in InFlight' : c \in InFlight \/ (c.op = "headers" /\ c.page = page /\ c.id = id /\ c.of = of)
<1> DEFINE c == FetchHeaders(page, id, of)
<1>1. uidNext \in Nat /\ q \in Seq(Cmds(uidNext)) /\ q' = Append(q, c)
  BY DEF Inv, MailInv, MailOK, WireInv, WireOK, Sent
<1>2. c \in Cmds(uidNext) /\ c.op = "headers" /\ c.page = page /\ c.id = id /\ c.of = of
  BY <1>1, HeadersCommand DEF FetchHeaders
<1> HIDE DEF c
<1>3. ToSet(q') = ToSet(q) \cup {c}
  BY <1>1, <1>2, AppendIs
<1> QED BY <1>2, <1>3 DEF InFlight

(* After request_page, by a folder with its first page. *)
LEMMA AskedOwn ==
  ASSUME Inv, Own, NEW f \in Folders(uidNext), f.lastId = folder.lastId, f.refreshReq = folder.refreshReq \/ f.refreshReq = NoRequest,
         ~f.firstPage => f.refreshReq = NoRequest /\ faults # 0, ToSet(ev') \subseteq ToSet(ev), opening' = opening,
         (folder' = f /\ UNCHANGED <<q, faults>>) \/ Asked(f, opening)
  PROVE  Own'
<1>1. /\ f.lastId \in Nat /\ f.refreshReq \in Nat /\ f.refreshReq <= f.lastId /\ f.nextPage \in Nat \ {0}
      /\ folder.lastId \in Nat /\ opening \in Nat /\ faults \in Nat
  BY FolderInts DEF Inv, MailInv, CountOK, ListInv, FolderOK
<1>2. folder'.refreshReq = f.refreshReq /\ folder'.firstPage = f.firstPage /\ (faults' = faults \/ faults' = faults + 1)
  BY DEF Asked, Sent
<1>3. RequestsOK'
  <2> SUFFICES ASSUME NEW c \in InFlight', c.op = "headers"
               PROVE  c.of <= opening /\ c.id >= 1 /\ (c.of = opening => c.id <= folder'.lastId /\ (c.id = folder'.refreshReq => c.page = 1))
    BY DEF RequestsOK
  <2>1. ASSUME c \in InFlight, folder'.lastId = f.lastId \/ folder'.lastId = f.lastId + 1
        PROVE  c.of <= opening /\ c.id >= 1 /\ (c.of = opening => c.id <= folder'.lastId /\ (c.id = folder'.refreshReq => c.page = 1))
    <3>1. c.of <= opening /\ c.id >= 1 /\ (c.of = opening => c.id <= folder.lastId /\ (c.id = folder.refreshReq => c.page = 1))
      BY <2>1 DEF Own, RequestsOK
    <3>2. c.id \in Nat
      BY <2>1, RequestInts
    <3> QED BY <1>1, <1>2, <2>1, <3>1, <3>2 DEF NoRequest
  <2>2. CASE UNCHANGED q
    <3>1. c \in InFlight
      BY <2>2 DEF InFlight
    <3>2. folder'.lastId = f.lastId \/ folder'.lastId = f.lastId + 1
      BY DEF Asked
    <3> QED BY <2>1, <3>1, <3>2
  <2>3. CASE folder'.lastId = f.lastId + 1 /\ Sent(FetchHeaders(f.nextPage, f.lastId + 1, opening))
    <3>1. c \in InFlight \/ (c.op = "headers" /\ c.page = f.nextPage /\ c.id = f.lastId + 1 /\ c.of = opening)
      <4>1. f.lastId + 1 \in Nat
        BY <1>1
      <4> QED BY <1>1, <2>3, <4>1, CommandSent
    <3>2. CASE c \in InFlight
      BY <2>1, <2>3, <3>2
    <3>3. CASE c.page = f.nextPage /\ c.id = f.lastId + 1 /\ c.of = opening
      BY <1>1, <1>2, <2>3, <3>3
    <3> QED BY <3>1, <3>2, <3>3
  <2> QED BY <2>2, <2>3 DEF Asked
<1>4. RefreshLater'
  BY <1>2 DEF RefreshLater
<1>5. NoFailure'
  <2>1. faults' = 0 => faults = 0
    BY <1>1, <1>2
  <2> QED BY <1>2, <2>1 DEF Own, NoFailure
<1> QED BY <1>3, <1>4, <1>5 DEF Own

(* After request_refresh. *)
LEMMA RenewedOwn ==
  ASSUME Inv, Own, Renewed, ToSet(ev') \subseteq ToSet(ev), opening' = opening
  PROVE  Own'
<1>1. folder.lastId \in Nat /\ opening \in Nat /\ faults \in Nat /\ folder.refreshReq \in Nat
  BY FolderInts DEF Inv, MailInv, CountOK, ListInv, FolderOK
<1>2. CASE ~folder.firstPage /\ UNCHANGED <<folder, q, faults>>
  <2>1. Mirrored /\ NoErrors /\ SameFolder
    BY <1>2 DEF Mirrored, NoErrors, SameFolder, InFlight
  <2> QED BY <2>1, OwnStays DEF Quietly
<1>3. CASE /\ folder.firstPage /\ folder'.lastId = folder.lastId + 1 /\ folder'.refreshReq = folder.lastId + 1
           /\ Sent(FetchHeaders(1, folder.lastId + 1, opening)) \/ (UNCHANGED q /\ faults' = faults + 1)
  <2>1. \A c \in InFlight' : c \in InFlight \/ (c.op = "headers" /\ c.page = 1 /\ c.id = folder.lastId + 1 /\ c.of = opening)
    <3>1. CASE UNCHANGED q
      BY <3>1 DEF InFlight
    <3>2. CASE Sent(FetchHeaders(1, folder.lastId + 1, opening))
      <4>1. folder.lastId + 1 \in Nat /\ 1 \in Nat \ {0}
        BY <1>1
      <4> QED BY <1>1, <3>2, <4>1, CommandSent
    <3> QED BY <1>3, <3>1, <3>2
  <2>2. RequestsOK'
    <3> SUFFICES ASSUME NEW c \in InFlight', c.op = "headers"
                 PROVE  c.of <= opening /\ c.id >= 1 /\ (c.of = opening => c.id <= folder'.lastId /\ (c.id = folder'.refreshReq => c.page = 1))
      BY DEF RequestsOK
    <3>1. CASE c \in InFlight
      <4>1. c.of <= opening /\ c.id >= 1 /\ (c.of = opening => c.id <= folder.lastId)
        BY <3>1 DEF Own, RequestsOK
      <4>2. c.id \in Nat
        BY <3>1, RequestInts
      <4> QED BY <1>1, <1>3, <4>1, <4>2
    <3>2. CASE c.page = 1 /\ c.id = folder.lastId + 1 /\ c.of = opening
      BY <1>1, <1>3, <3>2
    <3> QED BY <2>1, <3>1, <3>2
  <2>3. folder'.firstPage = folder.firstPage
    BY DEF Renewed
  <2>4. faults' = 0 => faults = 0
    BY <1>1, <1>3 DEF Sent
  <2>5. RefreshLater' /\ NoFailure'
    BY <1>3, <2>3, <2>4 DEF Own, RefreshLater, NoFailure
  <2> QED BY <2>2, <2>5 DEF Own
<1> QED BY <1>2, <1>3 DEF Renewed

(* After open_folder: the ids start again, but the requests on their way are
   of earlier openings. *)
LEMMA OpenedOwn ==
  ASSUME Inv, Own, OpenFolder, ev' = ev
  PROVE  Own'
<1>1. opening' = opening + 1 /\ opening \in Nat /\ Asked(NewFolder, opening + 1) /\ faults \in Nat
  BY OpenedFolder DEF Inv, MailInv, CountOK
<1>2. NewFolder.pageReq = NoRequest /\ ~IsComplete(NewFolder) /\ NewFolder.lastId = 0 /\ NewFolder.nextPage = 1 /\ NewFolder.refreshReq = NoRequest
  BY DEF NewFolder, IsComplete
<1>3. folder'.refreshReq = NoRequest /\ folder'.lastId = 1
  BY <1>1, <1>2 DEF Asked
<1>4. \/ folder'.pageReq = 1 /\ Sent(FetchHeaders(1, 1, opening + 1))
      \/ UNCHANGED q /\ faults' = faults + 1
  BY <1>1, <1>2 DEF Asked
<1>5. \A c \in InFlight' : c \in InFlight \/ (c.op = "headers" /\ c.page = 1 /\ c.id = 1 /\ c.of = opening + 1)
  <2>1. CASE UNCHANGED q
    BY <2>1 DEF InFlight
  <2>2. CASE Sent(FetchHeaders(1, 1, opening + 1))
    <3>1. opening + 1 \in Nat /\ 1 \in Nat /\ 1 \in Nat \ {0}
      BY <1>1
    <3> QED BY <2>2, <3>1, CommandSent
  <2> QED BY <1>4, <2>1, <2>2
<1>6. ASSUME NEW c \in InFlight', c.op = "headers"
      PROVE  c.of <= opening + 1 /\ c.id >= 1 /\ (c.of = opening + 1 => c.id <= 1 /\ c.page = 1)
  <2>1. CASE c \in InFlight
    <3>1. c.of <= opening /\ c.id >= 1
      BY <1>6, <2>1 DEF Own, RequestsOK
    <3>2. c.of \in Nat
      BY <1>6, <2>1, RequestInts
    <3> QED BY <1>1, <3>1, <3>2
  <2>2. CASE c.page = 1 /\ c.id = 1 /\ c.of = opening + 1
    BY <1>1, <2>2
  <2> QED BY <1>5, <2>1, <2>2
<1>7. RequestsOK'
  BY <1>1, <1>3, <1>6 DEF RequestsOK
<1>8. RefreshLater'
  BY <1>3 DEF RefreshLater
<1>9. NoFailure'
  <2>1. faults' = 0 => faults = 0 /\ folder'.pageReq = 1
    BY <1>1, <1>4 DEF Sent
  <2> QED BY <1>1, <1>6, <2>1 DEF Own, NoFailure, NoRequest
<1> QED BY <1>7, <1>8, <1>9 DEF Own

(* Nothing is on its way that was not. *)
LEMMA WireUnchanged ==
  ASSUME Inv, ToSet(q') \subseteq ToSet(q), ToSet(ev') \subseteq ToSet(ev), faults' = faults
  PROVE  Mirrored /\ NoErrors
BY DEF Mirrored, NoErrors, InFlight

(* A step that sends nothing. *)
LEMMA Quiet ==
  ASSUME Inv, UNCHANGED <<q, opening, faults>>, ToSet(ev') \subseteq ToSet(ev), SameFolder
  PROVE  Quietly
BY WireUnchanged DEF Quietly

(* A step that answers. *)
LEMMA EventAdded ==
  ASSUME Inv, NEW e \in Events(uidNext), ev' = Append(ev, e), ToSet(q') \subseteq ToSet(q), UNCHANGED <<folder, opening>>,
         e.op = "headers" => \E d \in InFlight : d.op = "headers" /\ d.page = e.page /\ d.id = e.id /\ d.of = e.of,
         faults' = 0 => faults = 0 /\ e.op # "error"
  PROVE  Quietly
<1>1. ev \in Seq(Events(uidNext))
  BY DEF Inv, WireInv, WireOK
<1>2. ToSet(ev') = ToSet(ev) \cup {e}
  BY <1>1, AppendIs
<1>3. Mirrored
  BY <1>2 DEF Mirrored, InFlight
<1>4. NoErrors /\ SameFolder
  BY <1>2 DEF NoErrors, SameFolder
<1> QED BY <1>3, <1>4 DEF Quietly

(* A folder filled from the cache has the requests it had. *)
LEMMA SeedSame ==
  ASSUME Inv, NEW S, folder' = SeedFolder(folder, S)
  PROVE  SameFolder
<1> DEFINE d == Descending(S)
           np == Max({1, Cardinality(S) \div PageSize})
<1>1. folder \in OpenFolders(uidNext)
  BY DEF Inv, ListInv, FolderOK, Folders
<1>2. folder' = [folder EXCEPT !.rows = d, !.nextPage = np]
  BY DEF SeedFolder
<1> HIDE DEF d, np
<1> QED BY <1>1, <1>2 DEF SameFolder, OpenFolders

(* Moves are no requests. *)
LEMMA MoveSelectedQuiet ==
  ASSUME Inv, MoveSelected
  PROVE  Quietly
<1> DEFINE rows == Ascending(sel)
           C(n) == [i \in 1..n |-> [op |-> "move", uid |-> Shown[rows[i]]]]
<1>1. UNCHANGED <<folder, ev, opening>>
  BY DEF MoveSelected, paging, history
<1>2. PICK n \in 0..Len(rows) : /\ IF n = Len(rows) THEN UNCHANGED faults ELSE Fault
                                /\ q' = q \o C(n)
  BY DEF MoveSelected
<1>3. q \in Seq(Cmds(uidNext)) /\ faults \in Nat /\ q' \in Seq(Cmds(uidNext))
  <2>1. Inv'
    BY MoveSelectedKeeps
  <2>2. uidNext' = uidNext
    BY DEF MoveSelected, mailbox
  <2> QED BY <2>1, <2>2 DEF Inv, MailInv, CountOK, WireInv, WireOK
<1>4. faults' = 0 => faults = 0
  BY <1>2, <1>3 DEF Fault
<1>5. \A c \in ToSet(q') : c.op = "headers" => c \in ToSet(q)
  <2> SUFFICES ASSUME NEW i \in 1..Len(q'), q'[i].op = "headers" PROVE q'[i] \in ToSet(q)
    BY <1>3, ToSetIs
  <2>0. n \in Nat
    <3>1. Shown \in Seq(1..uidNext - 1) /\ Len(Shown) \in Nat /\ sel \in SUBSET (1..Len(Shown))
      BY ShownIs DEF Inv, ListInv, SelectionOK, OnRows
    <3>2. Len(Shown) + 1 \in Nat /\ sel \in SUBSET (1..(Len(Shown) + 1) - 1)
      BY <3>1
    <3>3. Len(rows) = Cardinality(sel) /\ Cardinality(sel) \in Nat
      BY <3>2, AscendingIs, SortedIs
    <3> QED BY <3>3
  <2>1. Len(C(n)) = n /\ C(n) \in Seq(Cmds(uidNext) \cup {C(n)[k] : k \in 1..n})
    BY <2>0
  <2>2. \A k \in 1..n : C(n)[k].op = "move"
    OBVIOUS
  <2> DEFINE d == C(n)
             K == Cmds(uidNext) \cup {C(n)[k] : k \in 1..n}
  <2>3. q \in Seq(K)
    BY <1>3, SeqMonotonic
  <2>5. d \in Seq(K) /\ Len(d) = n /\ \A k \in 1..n : d[k].op = "move"
    BY <2>1, <2>2
  <2>6. q' = q \o d
    BY <1>2
  <2> HIDE DEF C, rows, d, K
  <2>7. i \in 1..Len(q \o d)
    BY <2>6
  <2>8. IsFrom((q \o d)[i], q, d)
    BY <2>3, <2>5, <2>7, EitherPart
  <2> QED BY <2>5, <2>6, <2>8 DEF IsFrom
<1>6. Mirrored /\ NoErrors /\ SameFolder
  BY <1>1, <1>4, <1>5 DEF Mirrored, NoErrors, SameFolder, InFlight
<1> QED BY <1>1, <1>6 DEF Quietly

(* What the user does. *)
LEMMA UserOwn ==
  ASSUME Inv, Own, User
  PROVE  Own'
<1>0. folder \in Folders(uidNext)
  BY DEF Inv, ListInv, FolderOK
<1>1. CASE UserOpens
  <2>1. OpenFolder /\ ev' = ev
    BY <1>1 DEF UserOpens
  <2> QED BY <2>1, OpenedOwn
<1>2. CASE UserRefreshes
  <2>1. CASE folder.firstPage
    <3>1. RequestRefresh /\ ev' = ev /\ opening' = opening
      BY <1>2, <2>1 DEF UserRefreshes, history
    <3>2. Renewed
      BY <3>1, RequestRefreshIs DEF Inv, ListInv
    <3> QED BY <3>1, <3>2, RenewedOwn
  <2>2. CASE ~folder.firstPage
    <3>1. OpenFolder /\ ev' = ev
      BY <1>2, <2>2 DEF UserRefreshes
    <3> QED BY <3>1, OpenedOwn
  <2> QED BY <2>1, <2>2
<1>3. CASE NearEnd
  <2>1. RequestPage(folder, opening) /\ ev' = ev /\ opening' = opening /\ folder.pageReq = NoRequest
    BY <1>3 DEF NearEnd, history
  <2>2. opening \in Nat
    BY DEF Inv, MailInv, CountOK
  <2>3. Asked(folder, opening)
    BY <1>0, <2>1, <2>2, RequestedPage
  <2>4. ~folder.firstPage => folder.refreshReq = NoRequest /\ faults # 0
    BY <2>1 DEF Own, RefreshLater, NoFailure
  <2> QED BY <1>0, <2>1, <2>3, <2>4, AskedOwn
<1>4. CASE MoveSelected
  BY <1>4, MoveSelectedQuiet, OwnStays
<1>5. CASE Search \/ ClearSearch
  <2>1. UNCHANGED <<folder, q, ev, opening, faults>>
    BY <1>5 DEF Search, ClearSearch, history, paging, imap
  <2> QED BY <2>1, Quiet, OwnStays DEF SameFolder
<1>6. CASE \E r \in DOMAIN Shown : ClickRow(r) \/ CtrlClickRow(r)
  <2>1. UNCHANGED <<folder, q, ev, opening, faults>>
    BY <1>6 DEF ClickRow, CtrlClickRow, SelectRows, history, paging, imap
  <2> QED BY <2>1, Quiet, OwnStays DEF SameFolder
<1> QED BY <1>1, <1>2, <1>3, <1>4, <1>5, <1>6 DEF User

(* What the cache answers. *)
LEMMA CacheOwn ==
  ASSUME Inv, Own, Cache
  PROVE  Own'
<1>1. ASSUME NEW S \in SUBSET listed, SeedFromCache(S) PROVE Own'
  <2>1. folder' = SeedFolder(folder, S) /\ UNCHANGED <<q, ev, opening, faults>>
    BY <1>1 DEF SeedFromCache, imap, bounds
  <2>2. SameFolder
    BY <2>1, SeedSame
  <2> QED BY <2>1, <2>2, Quiet, OwnStays
<1>2. ASSUME NEW S \in SUBSET listed, SearchArrived(S) PROVE Own'
  <2>1. UNCHANGED <<folder, q, ev, opening, faults>>
    BY <1>2 DEF SearchArrived, imap, bounds, history, paging
  <2> QED BY <2>1, Quiet, OwnStays DEF SameFolder
<1> QED BY <1>1, <1>2 DEF Cache

(* A command taken leaves the others. *)
LEMMA QueueShorter ==
  ASSUME Inv, q # <<>>, q' = Tail(q)
  PROVE  ToSet(q') \subseteq ToSet(q) /\ Head(q) \in ToSet(q)
<1>1. q \in Seq(Cmds(uidNext))
  BY DEF Inv, WireInv, WireOK
<1> QED BY <1>1, TailIs

(* What the actor does answers what was asked. *)
LEMMA ActorQuiet ==
  ASSUME Inv, Actor
  PROVE  Quietly
<1>1. CASE ServeHeaders
  <2> DEFINE c == Head(q)
             e == Headers(c)
  <2>1. /\ e \in Replies(uidNext) /\ ev' = Append(ev, e) /\ e.page = c.page /\ e.id = c.id /\ e.of = c.of
        /\ q # <<>> /\ c.op = "headers" /\ q' = Tail(q) /\ UNCHANGED <<folder, opening, faults>>
    BY <1>1, ServedHeaders
  <2>2. ToSet(q') \subseteq ToSet(q) /\ c \in ToSet(q)
    BY <2>1, QueueShorter
  <2> HIDE DEF e, c
  <2>3. e \in Events(uidNext) /\ e.op # "error" /\ c \in InFlight
    BY <2>1, <2>2 DEF Events, Replies, InFlight
  <2> QED BY <2>1, <2>2, <2>3, EventAdded
<1>2. CASE ServeMove
  <2> DEFINE u == Head(q).uid
             e == [op |-> "moved", uid |-> u]
  <2>1. ev' = Append(ev, e) /\ q # <<>> /\ q' = Tail(q) /\ Head(q).op = "move" /\ UNCHANGED <<folder, opening, faults>>
    BY <1>2 DEF ServeMove, Serve, paging, history
  <2>2. Head(q) \in [op : {"move"}, uid : 1..uidNext - 1] /\ ToSet(q') \subseteq ToSet(q)
    BY <2>1, HeadCommand, QueueShorter DEF Inv
  <2>3. e \in Events(uidNext) /\ e.op = "moved"
    BY <2>2, MoveEvent
  <2> HIDE DEF e
  <2> QED BY <2>1, <2>2, <2>3, EventAdded
<1>3. CASE Reconnect
  <2> DEFINE e == [op |-> "connected"]
  <2>1. ev' = Append(ev, e) /\ UNCHANGED <<q, folder, opening, faults>>
    BY <1>3 DEF Reconnect, paging, history, bounds
  <2>2. e \in Events(uidNext) /\ e.op = "connected" /\ ToSet(q') \subseteq ToSet(q)
    BY <2>1, OtherEvent
  <2> HIDE DEF e
  <2> QED BY <2>1, <2>2, EventAdded
<1> QED BY <1>1, <1>2, <1>3 DEF Actor

(* So it keeps the invariant. *)
LEMMA ActorOwn ==
  ASSUME Inv, Own, Actor
  PROVE  Own'
BY ActorQuiet, OwnStays

(* What fails answers no request with headers. *)
LEMMA WorldQuiet ==
  ASSUME Inv, World
  PROVE  Quietly
<1>0. faults \in Nat
  BY DEF Inv, MailInv, CountOK
<1>1. CASE Arrive \/ Expunge
  <2>1. UNCHANGED <<folder, q, ev, opening, faults>>
    BY <1>1 DEF Arrive, Expunge, paging, imap, history, bounds
  <2> QED BY <2>1, Quiet DEF SameFolder
<1>2. CASE Announce
  <2> DEFINE e == [op |-> "newHeaders"]
  <2>1. ev' = Append(ev, e) /\ UNCHANGED <<q, folder, opening, faults>>
    BY <1>2 DEF Announce, paging, history, bounds
  <2>2. e \in Events(uidNext) /\ e.op = "newHeaders" /\ ToSet(q') \subseteq ToSet(q)
    BY <2>1, OtherEvent
  <2> HIDE DEF e
  <2> QED BY <2>1, <2>2, EventAdded
<1>3. CASE OtherError
  <2> DEFINE e == [op |-> "error"]
  <2>1. ev' = Append(ev, e) /\ UNCHANGED <<q, folder, opening>> /\ faults' = faults + 1
    BY <1>3 DEF OtherError, Fault, paging, history
  <2>2. e \in Events(uidNext) /\ e.op = "error" /\ ToSet(q') \subseteq ToSet(q)
    BY <2>1, OtherEvent
  <2> HIDE DEF e
  <2> QED BY <1>0, <2>1, <2>2, EventAdded
<1>4. CASE CommandFails
  <2> DEFINE e == Failure(Head(q))
  <2>1. ev' = Append(ev, e) /\ q # <<>> /\ q' = Tail(q) /\ UNCHANGED <<folder, opening>> /\ faults' = faults + 1
    BY <1>4 DEF CommandFails, Serve, Fault, paging, history
  <2>2. e \in Events(uidNext) /\ e.op # "headers"
    <3>1. CASE Head(q).op = "headers"
      <4>1. e = [op |-> "error"]
        BY <3>1 DEF Failure
      <4> QED BY <4>1, OtherEvent
    <3>2. CASE Head(q).op # "headers"
      <4>1. e = [op |-> "moveFailed", uid |-> Head(q).uid] /\ Head(q) \in [op : {"move"}, uid : 1..uidNext - 1]
        BY <2>1, <3>2, HeadCommand DEF Failure, Inv
      <4> QED BY <4>1, MoveEvent
    <3> QED BY <3>1, <3>2
  <2>3. ToSet(q') \subseteq ToSet(q)
    BY <2>1, QueueShorter
  <2> HIDE DEF e
  <2> QED BY <1>0, <2>1, <2>2, <2>3, EventAdded
<1> QED BY <1>1, <1>2, <1>3, <1>4 DEF World

(* So it keeps the invariant. *)
LEMMA WorldOwn ==
  ASSUME Inv, Own, World
  PROVE  Own'
BY WorldQuiet, OwnStays

(* An event taken leaves the others. *)
LEMMA Shorter ==
  ASSUME Inv, ev # <<>>, ev' = Tail(ev)
  PROVE  ToSet(ev') \subseteq ToSet(ev) /\ Head(ev) \in ToSet(ev)
<1>1. ev \in Seq(Events(uidNext))
  BY DEF Inv, WireInv, WireOK
<1> QED BY <1>1, TailIs

(* apply_headers, with the next page it may ask for (keep_paging). *)
LEMMA HandleHeadersOwn ==
  ASSUME Inv, Own, HandleHeaders
  PROVE  Own'
<1> DEFINE r == Head(ev)
           a == ApplyReply(folder, r)
<1>1. /\ ev # <<>> /\ ev' = Tail(ev) /\ r \in Replies(uidNext) /\ r.op = "headers" /\ opening' = opening
      /\ a.folder \in Folders(uidNext) /\ Answers(a, folder, r, {})
      /\ (folder' = a.folder /\ UNCHANGED <<q, faults>>) \/ (a.kind # "stale" /\ Asked(a.folder, opening))
  BY AppliedReply
<1>2. ToSet(ev') \subseteq ToSet(ev) /\ r \in ToSet(ev)
  BY <1>1, Shorter
<1>3. r.id >= 1
  BY <1>1, <1>2 DEF Own, RequestsOK, InFlight
<1>4. r.id # NoRequest
  BY <1>3 DEF NoRequest
<1> HIDE DEF a, r
<1>5. CASE a.kind = "stale"
  <2>1. folder' = folder /\ UNCHANGED <<q, faults>>
    BY <1>1, <1>5 DEF Answers
  <2> QED BY <1>1, <1>2, <2>1, Quiet, OwnStays DEF SameFolder
<1>6. CASE a.kind # "stale"
  <2>1. a.folder.lastId = folder.lastId
    BY <1>1 DEF Answers
  <2>2. \/ a.folder.firstPage /\ a.folder.refreshReq = folder.refreshReq
        \/ r.id = folder.refreshReq /\ a.folder.firstPage = folder.firstPage /\ a.folder.refreshReq = NoRequest
    BY <1>1, <1>6 DEF Answers
  <2>3. a.folder.firstPage
    <3>1. folder.refreshReq = r.id => folder.firstPage
      BY <1>4 DEF Own, RefreshLater
    <3> QED BY <2>2, <3>1
  <2>4. a.folder.refreshReq = folder.refreshReq \/ a.folder.refreshReq = NoRequest
    BY <2>2
  <2> QED BY <1>1, <1>2, <2>1, <2>3, <2>4, AskedOwn
<1> QED BY <1>5, <1>6

(* What the UI thread does with an event. *)
LEMMA HandleOwn ==
  ASSUME Inv, Own, Handle
  PROVE  Own'
<1>1. CASE HandlePosted
  <2>1. UNCHANGED <<folder, q, ev, opening, faults>>
    BY <1>1 DEF HandlePosted, history, paging, imap, bounds
  <2> QED BY <2>1, Quiet, OwnStays DEF SameFolder
<1>2. CASE HandleNews
  <2>1. RequestRefresh /\ ev # <<>> /\ ev' = Tail(ev) /\ opening' = opening
    BY <1>2 DEF HandleNews, Took, history
  <2>2. Renewed /\ ToSet(ev') \subseteq ToSet(ev)
    BY <2>1, RequestRefreshIs, Shorter DEF Inv, ListInv
  <2> QED BY <2>1, <2>2, RenewedOwn
<1>3. CASE HandleError
  <2>1. folder' = [folder EXCEPT !.pageReq = NoRequest] /\ UNCHANGED <<q, opening, faults>> /\ ev # <<>> /\ ev' = Tail(ev) /\ Head(ev).op = "error"
    BY <1>3 DEF HandleError, Took, history, bounds
  <2>2. ToSet(ev') \subseteq ToSet(ev) /\ Head(ev) \in ToSet(ev)
    BY <2>1, Shorter
  <2>3. faults # 0
    BY <2>1, <2>2 DEF Own, NoFailure
  <2>4. folder \in OpenFolders(uidNext)
    BY DEF Inv, ListInv, FolderOK, Folders
  <2>5. folder'.lastId = folder.lastId /\ folder'.firstPage = folder.firstPage /\ folder'.refreshReq = folder.refreshReq
    BY <2>1, <2>4 DEF OpenFolders
  <2>6. RequestsOK' /\ RefreshLater'
    BY <2>1, <2>2, <2>5 DEF Own, RequestsOK, RefreshLater, InFlight
  <2>7. NoFailure'
    BY <2>1, <2>3 DEF NoFailure
  <2> QED BY <2>6, <2>7 DEF Own
<1>4. CASE HandleHeaders
  BY <1>4, HandleHeadersOwn
<1>5. CASE HandleMoved
  <2>1. SameFolder /\ UNCHANGED <<q, opening, faults>> /\ ev # <<>> /\ ev' = Tail(ev)
    BY <1>5, MovedRows DEF Took, SameFolder
  <2> QED BY <2>1, Shorter, Quiet, OwnStays
<1>6. CASE HandleMoveFailed
  <2>1. UNCHANGED <<folder, q, opening, faults>> /\ ev # <<>> /\ ev' = Tail(ev)
    BY <1>6 DEF HandleMoveFailed, Took, history, paging, bounds
  <2> QED BY <2>1, Shorter, Quiet, OwnStays DEF SameFolder
<1> QED BY <1>1, <1>2, <1>3, <1>4, <1>5, <1>6 DEF Handle

(* Every step keeps it. *)
LEMMA NextOwn ==
  ASSUME Inv, Own, [Next]_vars
  PROVE  Own'
<1>1. CASE UNCHANGED vars
  <2>1. UNCHANGED <<folder, q, ev, opening, faults>>
    BY <1>1 DEF vars, imap, history, paging, bounds
  <2> QED BY <2>1, Quiet, OwnStays DEF SameFolder
<1> QED BY <1>1, UserOwn, CacheOwn, ActorOwn, HandleOwn, WorldOwn DEF Next

(* It holds at the start. *)
LEMMA InitOwn == Init => Own
<1> SUFFICES ASSUME Init PROVE Own
  OBVIOUS
<1>1. folder = [NewFolder EXCEPT !.lastId = 1, !.pageReq = 1] /\ q = <<FetchHeaders(1, 1, 1)>> /\ ev = <<>> /\ opening = 1
  BY DEF Init
<1>2. folder.lastId = 1 /\ folder.pageReq = 1 /\ folder.refreshReq = NoRequest
  BY <1>1 DEF NewFolder
<1>3. ToSet(ev) = {} /\ ToSet(q) = {FetchHeaders(1, 1, 1)}
  BY <1>1 DEF ToSet
<1>4. \A c \in InFlight : c.page = 1 /\ c.id = 1 /\ c.of = 1
  BY <1>3 DEF InFlight, FetchHeaders
<1> QED BY <1>1, <1>2, <1>3, <1>4 DEF Own, RequestsOK, RefreshLater, NoFailure, NoRequest

-----------------------------------------------------------------------------

-----------------------------------------------------------------------------
(* What may leave the list                                                *)

(* What OwnReplyDropsOnlyGone says of one step. *)
Drops == [opening' = opening /\ faults = 0 /\ (Took("headers") => Head(ev).of = opening) => ~LeavesWhileThere]_vars

(* No row leaves. *)
LEMMA RowsThere ==
  ASSUME ToSet(folder.rows) \subseteq ToSet(folder'.rows)
  PROVE  Drops
BY DEF Drops, LeavesWhileThere

(* A reply: what leaves is within the range of a newest page and not in it;
   if the server has it, it arrived since, but a row is of a message somebody
   told of. *)
LEMMA HandleHeadersDrops ==
  ASSUME Inv, Own, UpToDate, HandleHeaders
  PROVE  Drops
<1> DEFINE r == Head(ev)
           a == ApplyReply(folder, r)
<1> SUFFICES ASSUME faults = 0, Took("headers") => r.of = opening, NEW v \in ToSet(folder.rows), v \notin ToSet(folder'.rows), v \in server
             PROVE  FALSE
  BY DEF Drops, LeavesWhileThere
<1>0. Took("headers")
  BY DEF HandleHeaders
<1>1. /\ ev # <<>> /\ ev' = Tail(ev) /\ r \in Replies(uidNext) /\ r.op = "headers"
      /\ Answers(a, folder, r, {}) /\ folder'.rows = a.folder.rows
  BY AppliedReply
<1>2. ev \in Seq(Events(uidNext))
  BY DEF Inv, WireInv, WireOK
<1>3. r = ev[1] /\ 1 \in 1..Len(ev) /\ r \in ToSet(ev)
  BY <1>1, <1>2, TailIs
<1> HIDE DEF a, r
<1>4. v \in Lost(r) /\ ((r.id = folder.pageReq /\ ~folder.firstPage) \/ r.id = folder.refreshReq)
  BY <1>1 DEF Answers, Dropped
<1>5. r.page = 1
  <2>1. r \in InFlight /\ r.of = opening
    BY <1>0, <1>3 DEF InFlight
  <2>2. CASE ~folder.firstPage
    BY <1>1, <2>1, <2>2 DEF Own, NoFailure
  <2>3. CASE r.id = folder.refreshReq
    BY <1>1, <2>1, <2>3 DEF Own, RequestsOK
  <2> QED BY <1>4, <2>2, <2>3
<1>6. v \in Missing(server, r)
  BY <1>4 DEF Missing, Lost
<1>7. v \notin listed
  BY <1>1, <1>3, <1>5, <1>6 DEF UpToDate, NewestAreCurrent, Newest
<1> QED BY <1>7 DEF UpToDate, RowsAreListed

(* A move that is reported was done. *)
LEMMA HandleMovedDrops ==
  ASSUME Inv, UpToDate, HandleMoved
  PROVE  Drops
<1>1. ToSet(folder'.rows) = ToSet(folder.rows) \ {Head(ev).uid} /\ Took("moved")
  BY MovedRows
<1>2. ev # <<>> /\ ev' = Tail(ev) /\ Head(ev).op = "moved"
  BY <1>1 DEF Took
<1>3. Head(ev) \in ToSet(ev)
  BY <1>2, Shorter
<1>4. Head(ev).uid \notin server
  BY <1>2, <1>3 DEF UpToDate, MovedAreGone
<1> QED BY <1>1, <1>4 DEF Drops, LeavesWhileThere

(* Every step. *)
LEMMA NextDrops ==
  ASSUME Inv, Own, UpToDate, [Next]_vars
  PROVE  Drops
<1>0. folder \in Folders(uidNext) /\ opening \in Nat
  BY DEF Inv, MailInv, CountOK, ListInv, FolderOK
<1>1. CASE UNCHANGED folder
  BY <1>1, RowsThere
<1>2. CASE OpenFolder
  <2>1. opening' # opening
    BY <1>0, <1>2, OpenedFolder
  <2> QED BY <2>1 DEF Drops
<1>3. CASE RequestRefresh
  BY <1>3, RequestRefreshIs, RowsThere DEF Renewed, Inv, ListInv
<1>4. CASE NearEnd
  <2>1. RequestPage(folder, opening)
    BY <1>4 DEF NearEnd
  <2>2. folder'.rows = folder.rows
    BY <1>0, <2>1, RequestedPage
  <2> QED BY <2>2, RowsThere
<1>5. ASSUME NEW S \in SUBSET listed, SeedFromCache(S) PROVE Drops
  <2>1. folder.rows = <<>>
    BY <1>5 DEF SeedFromCache
  <2>2. ToSet(folder.rows) = {}
    BY <2>1 DEF ToSet
  <2> QED BY <2>2, RowsThere
<1>6. CASE HandleError
  <2>1. folder'.rows = folder.rows
    BY <1>0, <1>6, Forgotten DEF HandleError
  <2> QED BY <2>1, RowsThere
<1>7. CASE HandleHeaders
  BY <1>7, HandleHeadersDrops
<1>8. CASE HandleMoved
  BY <1>8, HandleMovedDrops
<1>9. CASE User
  <2>1. CASE UserOpens \/ UserRefreshes
    BY <1>2, <1>3, <2>1 DEF UserOpens, UserRefreshes
  <2>2. CASE MoveSelected \/ Search \/ ClearSearch \/ \E r \in DOMAIN Shown : ClickRow(r) \/ CtrlClickRow(r)
    <3>1. UNCHANGED folder
      BY <2>2 DEF MoveSelected, Search, ClearSearch, ClickRow, CtrlClickRow, SelectRows, paging
    <3> QED BY <1>1, <3>1
  <2> QED BY <1>4, <1>9, <2>1, <2>2 DEF User
<1>10. CASE Cache
  <2>1. ASSUME NEW S \in SUBSET listed, SearchArrived(S) PROVE Drops
    <3>1. UNCHANGED folder
      BY <2>1 DEF SearchArrived, paging
    <3> QED BY <1>1, <3>1
  <2> QED BY <1>5, <1>10, <2>1 DEF Cache
<1>11. CASE Actor \/ World
  <2>1. UNCHANGED folder
    BY <1>11 DEF Actor, World, ServeHeaders, ServeMove, Serve, Reconnect, Arrive, Expunge, Announce, CommandFails, OtherError, paging
  <2> QED BY <1>1, <2>1
<1>12. CASE Handle
  <2>1. CASE HandlePosted \/ HandleMoveFailed
    <3>1. UNCHANGED folder
      BY <2>1 DEF HandlePosted, HandleMoveFailed, paging
    <3> QED BY <1>1, <3>1
  <2>2. CASE HandleNews
    BY <1>3, <2>2 DEF HandleNews
  <2> QED BY <1>6, <1>7, <1>8, <1>12, <2>1, <2>2 DEF Handle
<1>13. CASE UNCHANGED vars
  <2>1. UNCHANGED folder
    BY <1>13 DEF vars, paging
  <2> QED BY <1>1, <2>1
<1> QED BY <1>9, <1>10, <1>11, <1>12, <1>13 DEF Next

(* The three invariants hold in every state: request ids and replies belong
   together across openings of the folder, and a reply of the newest page
   lacks only what arrived after it. *)
THEOREM RequestsInvariance == Spec => [](Inv /\ Own /\ UpToDate)
<1>1. Inv /\ Own /\ UpToDate /\ [Next]_vars => Inv' /\ Own' /\ UpToDate'
  BY NextInv, NextOwn, NextCurrent
<1>2. Init => Inv /\ Own /\ UpToDate
  BY InitInv, InitOwn, InitCurrent
<1> QED BY <1>1, <1>2, PTL DEF Spec

(* As long as nothing failed, neither a reply to a request of this opening
   nor a finished move takes a message off the list that is in the mailbox
   (merge_newest). *)
THEOREM OwnReplies == Spec => OwnReplyDropsOnlyGone
<1>1. Inv /\ Own /\ UpToDate /\ [Next]_vars => [opening' = opening /\ faults = 0 /\ (Took("headers") => Head(ev).of = opening) => ~LeavesWhileThere]_vars
  BY NextDrops DEF Drops
<1> QED BY <1>1, RequestsInvariance, PTL DEF Spec, OwnReplyDropsOnlyGone

-----------------------------------------------------------------------------
(* Pages of the mailbox by the ranks of their messages                    *)

(* Whole parts of a number. *)
LEMMA QuotientIs ==
  ASSUME NEW a \in Nat, NEW b \in Nat \ {0}
  PROVE  /\ a \div b \in Nat /\ (a \div b) * b \in Nat
         /\ (a \div b) * b <= a /\ a < (a \div b) * b + b
<1> DEFINE k == a \div b
           r == a % b
<1>1. k \in Nat /\ r \in Nat /\ r < b /\ a = b * k + r
  OBVIOUS
<1> HIDE DEF k, r
<1>2. k * b \in Nat /\ b * k = k * b
  BY <1>1
<1>3. k * b <= a /\ a < k * b + b
  BY <1>1, <1>2
<1> QED BY <1>1, <1>2, <1>3 DEF k

(* How many messages there are in the first n pages. *)
Reach(n) == n * PageSize

(* More pages reach further. *)
LEMMA ReachIs ==
  /\ Reach(0) = 0 /\ Reach(1) = PageSize /\ PageSize \in Nat \ {0}
  /\ \A n \in Nat : Reach(n) \in Nat /\ Reach(n + 1) = Reach(n) + PageSize
  /\ \A m, n \in Nat : m <= n => Reach(m) <= Reach(n)
<1>1. PageSize \in Nat \ {0}
  BY PageAssumption
<1>2. \A n \in Nat : n * PageSize \in Nat
  BY <1>1
<1>3. \A n \in Nat : Reach(n) \in Nat /\ Reach(n + 1) = Reach(n) + PageSize
  BY <1>1, <1>2 DEF Reach
<1>4. Reach(0) = 0 /\ Reach(1) = PageSize
  BY <1>1 DEF Reach
<1>5. ASSUME NEW m \in Nat, NEW n \in Nat, m <= n PROVE Reach(m) <= Reach(n)
  <2>1. n - m \in Nat
    BY <1>5
  <2>2. (n - m) * PageSize \in Nat
    BY <1>2, <2>1
  <2>3. n * PageSize = m * PageSize + (n - m) * PageSize
    BY <1>1, <2>1
  <2> QED BY <1>2, <2>2, <2>3 DEF Reach
<1> QED BY <1>1, <1>3, <1>4, <1>5

(* The messages of the first n - 1 pages are in the set R, and whatever the
   server has above a message of R. *)
Covers(R, S, n) == \A v \in S : Rank(S, v) <= Reach(n - 1) => v \in R
UpClosed(R, S) == \A v \in S, w \in R : w <= v => v \in R

(* The ranks of messages of S are numbers, higher for older ones. *)
Ranks(S) ==
  /\ \A v \in S : Rank(S, v) \in Nat \ {0}
  /\ \A v, w \in S : w <= v => Rank(S, v) <= Rank(S, w)

(* So they are in the mailbox. *)
LEMMA RanksAre ==
  ASSUME MailOK
  PROVE  Ranks(server) /\ server \subseteq Nat /\ IsFiniteSet(server)
<1>1. server \subseteq Nat /\ IsFiniteSet(server)
  BY UidsFinite DEF MailOK
<1>2. /\ \A u \in server : Rank(server, u) \in 1..Cardinality(server)
      /\ \A u, w \in server : u < w => Rank(server, w) < Rank(server, u)
  BY <1>1, RankIs
<1>3. ASSUME NEW v \in server, NEW w \in server, w <= v PROVE Rank(server, v) <= Rank(server, w)
  <2>1. v \in Nat /\ w \in Nat /\ Rank(server, v) \in Nat /\ Rank(server, w) \in Nat
    BY <1>1, <1>2
  <2>2. CASE w = v
    BY <2>1, <2>2
  <2>3. CASE w < v
    BY <1>2, <2>1, <2>3
  <2> QED BY <1>3, <2>1, <2>2, <2>3
<1>4. \A v \in server : Rank(server, v) \in Nat \ {0}
  BY <1>2
<1> QED BY <1>1, <1>3, <1>4 DEF Ranks

(* The pages hold the whole mailbox (total_pages). *)
LEMMA AllPages ==
  ASSUME MailOK
  PROVE  Cardinality(server) \in Nat /\ Cardinality(server) <= Reach(TotalPages)
<1> DEFINE C == Cardinality(server)
           e == C + PageSize - 1
<1>1. C \in Nat /\ PageSize \in Nat \ {0} /\ TotalPages \in Nat
  BY RanksAre, FS_CardinalityType, PageAssumption, TotalPagesIs
<1>2. e \in Nat /\ TotalPages = e \div PageSize
  BY <1>1 DEF TotalPages
<1> HIDE DEF e
<1>3. TotalPages * PageSize \in Nat /\ e < TotalPages * PageSize + PageSize
  BY <1>1, <1>2, QuotientIs
<1> QED BY <1>1, <1>3 DEF Reach, e

(* A page holds its share of the mailbox, and nothing beyond. *)
PageHolds(t, S, page) ==
  /\ ToSet(t) \subseteq S
  /\ \A v \in ToSet(t) : Rank(S, v) <= Reach(page)
  /\ \A v \in S : Reach(page - 1) < Rank(S, v) /\ Rank(S, v) <= Reach(page) => v \in ToSet(t)

(* fetch_headers cuts the pages that way, and answers a page past the end
   with the last. *)
LEMMA PageShare ==
  ASSUME MailOK, NEW page \in Nat \ {0}
  PROVE  PageHolds(Page(page), server, page)
<1> DEFINE d == Descending(server)
           C == Cardinality(server)
           T == TotalPages
           p == Max({1, Min({page, T})})
           m == (p - 1) * PageSize + 1
           n == Min({p * PageSize, C})
<1>1. /\ server \subseteq Nat /\ IsFiniteSet(server)
      /\ d \in Seq(server) /\ Len(d) = C /\ C \in Nat /\ IsDescending(d)
      /\ \A u \in server : Rank(server, u) \in 1..C /\ d[Rank(server, u)] = u
      /\ \A i \in 1..C : d[i] \in server /\ Rank(server, d[i]) = i
  <2>1. server \subseteq Nat /\ IsFiniteSet(server)
    BY UidsFinite DEF MailOK
  <2> QED BY <2>1, DescendingIs
<1>2. PageSize \in Nat \ {0} /\ T \in Nat
  BY PageAssumption, TotalPagesIs
<1>3. p \in Nat \ {0} /\ p <= page /\ (p = page \/ p = 1 \/ p = T) /\ (p # page => T < page)
  <2>1. Min({page, T}) = IF page <= T THEN page ELSE T
    BY <1>2, OfTwo
  <2>2. Min({page, T}) \in Nat /\ Min({page, T}) <= page
    BY <1>2, <2>1
  <2>3. p = IF 1 >= Min({page, T}) THEN 1 ELSE Min({page, T})
    BY <2>2, OfTwo
  <2> QED BY <1>2, <2>1, <2>2, <2>3
<1>12. p # page => C <= Reach(page - 1)
  <2> SUFFICES ASSUME p # page PROVE C <= Reach(page - 1)
    OBVIOUS
  <2>1. T <= page - 1 /\ page - 1 \in Nat
    BY <1>2, <1>3
  <2>2. C <= Reach(T)
    BY AllPages
  <2>3. Reach(T) <= Reach(page - 1)
    BY <1>2, <2>1, ReachIs
  <2>4. Reach(T) \in Nat /\ Reach(page - 1) \in Nat
    BY <1>2, <2>1, ReachIs
  <2> QED BY <1>1, <2>2, <2>3, <2>4
<1> HIDE DEF p, T
<1>4. /\ m = Reach(p - 1) + 1 /\ n = IF Reach(p) <= C THEN Reach(p) ELSE C
      /\ Reach(p - 1) \in Nat /\ Reach(p) \in Nat /\ Reach(p) = Reach(p - 1) + PageSize
  <2>1. p - 1 \in Nat /\ (p - 1) + 1 = p
    BY <1>3
  <2>2. Reach(p - 1) \in Nat /\ Reach(p) \in Nat /\ Reach(p) = Reach(p - 1) + PageSize
    BY <1>3, <2>1, ReachIs
  <2>3. n = Min({Reach(p), C}) /\ m = Reach(p - 1) + 1
    BY DEF Reach
  <2>5. Reach(p) \in Int /\ C \in Int
    BY <1>1, <2>2
  <2>4. Min({Reach(p), C}) = IF Reach(p) <= C THEN Reach(p) ELSE C
    <3> HIDE DEF C, n, m
    <3> QED BY <2>5, OfTwo
  <2> QED BY <2>2, <2>3, <2>4
<1>5. Page(page) = SubSeq(d, m, n)
  BY DEF Page, p, T
<1> HIDE DEF d, C, m, n
<1>6. m \in Nat \ {0} /\ n \in 0..C
  BY <1>1, <1>4
<1> DEFINE t == SubSeq(d, m, n)
<1>7. /\ t \in Seq(server) /\ Len(t) = (IF m <= n THEN n - m + 1 ELSE 0)
      /\ \A i \in 1..Len(t) : t[i] = d[m + i - 1] /\ m + i - 1 \in 1..Len(d)
  <2>1. server \subseteq Nat /\ d \in Seq(server) /\ IsDescending(d) /\ m \in Nat \ {0} /\ n \in 0..Len(d)
    BY <1>1, <1>6
  <2>2. /\ SubSeq(d, m, n) \in Seq(server) /\ IsDescending(SubSeq(d, m, n))
        /\ Len(SubSeq(d, m, n)) = IF m <= n THEN n - m + 1 ELSE 0
        /\ \A i \in 1..Len(SubSeq(d, m, n)) : SubSeq(d, m, n)[i] = d[m + i - 1] /\ m + i - 1 \in 1..Len(d)
    BY ONLY <2>1, SubSeqDescends
  <2> QED BY ONLY <2>2 DEF t
<1> HIDE DEF t
<1>8. ToSet(t) \subseteq server /\ ToSet(t) = {t[i] : i \in 1..Len(t)}
  BY <1>7, ToSetIs
<1>9. Reach(p) <= Reach(page) /\ Reach(page) \in Nat
  BY <1>3, ReachIs
<1>10. ASSUME NEW v \in ToSet(t) PROVE Rank(server, v) <= Reach(page)
  <2>1. PICK i \in 1..Len(t) : v = t[i]
    BY <1>8
  <2>2. i \in Nat /\ m + i - 1 <= n
    BY <1>1, <1>6, <1>7, <2>1
  <2>3. Rank(server, v) = m + i - 1
    BY <1>1, <1>7, <2>1
  <2>4. m + i - 1 \in Nat /\ n <= Reach(p)
    BY <1>1, <1>4, <1>6, <2>2
  <2> QED BY <1>1, <1>4, <1>6, <1>9, <2>2, <2>3, <2>4
<1>11. ASSUME NEW v \in server, Reach(page - 1) < Rank(server, v), Rank(server, v) <= Reach(page) PROVE v \in ToSet(t)
  <2>1. Rank(server, v) \in 1..C /\ d[Rank(server, v)] = v
    BY <1>1
  <2>2. p = page
    <3>1. page - 1 \in Nat
      OBVIOUS
    <3>2. Reach(page - 1) \in Nat
      BY <3>1, ReachIs
    <3> QED BY <1>1, <1>12, <1>11, <2>1, <3>2
  <2> DEFINE i == Rank(server, v) - m + 1
  <2>3. m <= Rank(server, v) /\ Rank(server, v) <= n
    BY <1>1, <1>4, <1>11, <2>1, <2>2
  <2>4. i \in 1..Len(t) /\ m + i - 1 = Rank(server, v)
    BY <1>6, <1>7, <2>1, <2>3
  <2>5. t[i] = v
    BY <1>7, <2>1, <2>4
  <2> QED BY <1>8, <2>4, <2>5
<1> QED BY <1>5, <1>8, <1>10, <1>11 DEF PageHolds, t

(* Appending the page that was next, or an earlier one. *)
LEMMA AppendCovers ==
  ASSUME MailOK, NEW n \in Nat \ {0}, NEW p \in 1..n, NEW s \in Lists(uidNext), NEW t \in Lists(uidNext),
         Joined(t, s, Page(p)), Covers(ToSet(s), server, n), UpClosed(ToSet(s), server)
  PROVE  Covers(ToSet(t), server, p + 1) /\ UpClosed(ToSet(t), server)
<1>1. Ranks(server) /\ server \subseteq Nat
  BY RanksAre
<1>2. PageHolds(Page(p), server, p)
  BY PageShare
<1>3. p \in Nat \ {0} /\ (p + 1) - 1 = p /\ p - 1 \in Nat /\ n - 1 \in Nat /\ p - 1 <= n - 1 /\ (p <= n - 1 \/ p = n)
  OBVIOUS
<1>4. Reach(p) \in Nat /\ Reach(p - 1) \in Nat /\ Reach(n - 1) \in Nat /\ (p <= n - 1 => Reach(p) <= Reach(n - 1))
  BY <1>3, ReachIs
<1>5. s \in Seq(1..uidNext - 1) /\ 1..uidNext - 1 \subseteq Nat
  BY DEF Lists, MailOK
<1>6. ToSet(s) \subseteq ToSet(t)
  BY DEF Joined
<1>7. ASSUME NEW v \in server, Rank(server, v) <= Reach(p) PROVE v \in ToSet(t)
  <2>1. Rank(server, v) \in Nat
    BY <1>1 DEF Ranks
  <2>2. CASE Rank(server, v) <= Reach(n - 1)
    BY <1>6, <2>2 DEF Covers
  <2>3. CASE ~(Rank(server, v) <= Reach(n - 1))
    <3>1. p = n
      BY <1>3, <1>4, <1>7, <2>1, <2>3
    <3>2. Reach(p - 1) < Rank(server, v)
      BY <1>4, <2>1, <2>3, <3>1
    <3>3. v \in ToSet(Page(p))
      BY <1>2, <1>7, <3>2 DEF PageHolds
    <3>4. CASE s = <<>>
      BY <3>3, <3>4 DEF Joined
    <3>5. CASE s # <<>>
      <4>1. Last(s) \in ToSet(s) /\ Last(s) \in Nat
        <5>1. Len(s) \in 1..Len(s)
          BY <1>5, <3>5
        <5>2. s[Len(s)] \in ToSet(s) /\ s[Len(s)] \in 1..uidNext - 1
          BY <1>5, <5>1, ToSetIs
        <5> QED BY <1>5, <5>2 DEF Last
      <4>2. CASE v < Last(s)
        BY <3>3, <4>2 DEF Joined
      <4>3. CASE ~(v < Last(s))
        <5>1. v \in Nat
          BY <1>1
        <5>2. Last(s) <= v
          BY <4>1, <4>3, <5>1
        <5> QED BY <1>6, <4>1, <5>2 DEF UpClosed
      <4> QED BY <4>2, <4>3
    <3> QED BY <3>4, <3>5
  <2> QED BY <2>2, <2>3
<1>8. ASSUME NEW v \in server, NEW w \in ToSet(t), w <= v PROVE v \in ToSet(t)
  <2>1. CASE w \in ToSet(s)
    BY <1>6, <1>8, <2>1 DEF UpClosed
  <2>2. CASE w \in ToSet(Page(p))
    <3>1. w \in server /\ Rank(server, w) <= Reach(p)
      BY <1>2, <2>2 DEF PageHolds
    <3>2. Rank(server, v) <= Rank(server, w) /\ Rank(server, v) \in Nat /\ Rank(server, w) \in Nat
      BY <1>1, <1>8, <3>1 DEF Ranks
    <3>3. Rank(server, v) <= Reach(p)
      BY <1>4, <3>1, <3>2
    <3> QED BY <1>7, <3>3
  <2> QED BY <2>1, <2>2 DEF Joined
<1> QED BY <1>3, <1>7, <1>8 DEF Covers, UpClosed

(* R are the rows Q with the page t merged. *)
Merged(R, Q, t) == R = {u \in Q : ~(u >= Floor(t))} \cup ToSet(t)

(* The first page, by ranks and by the uids it reaches down to. *)
LEMMA NewestPage ==
  ASSUME MailOK
  PROVE  /\ Current(Page(1), server) /\ ToSet(Page(1)) \subseteq server
         /\ \A v \in server : Rank(server, v) <= PageSize <=> v \in ToSet(Page(1))
         /\ \A v \in server, w \in ToSet(Page(1)) : w <= v => v \in ToSet(Page(1))
<1>0. 1 \in Nat \ {0} /\ 1 - 1 = 0
  OBVIOUS
<1>1. Current(Page(1), server) /\ PageHolds(Page(1), server, 1)
  BY <1>0, PageIs, PageShare
<1>2. Reach(0) = 0 /\ Reach(1) = PageSize /\ PageSize \in Nat
  BY ReachIs
<1>3. Ranks(server)
  BY RanksAre
<1>4. ASSUME NEW v \in server PROVE Rank(server, v) <= PageSize <=> v \in ToSet(Page(1))
  <2>1. Rank(server, v) \in Nat \ {0}
    BY <1>3 DEF Ranks
  <2>2. 0 < Rank(server, v)
    BY <2>1
  <2> QED BY <1>0, <1>1, <1>2, <2>2 DEF PageHolds
<1>5. ASSUME NEW v \in server, NEW w \in ToSet(Page(1)), w <= v PROVE v \in ToSet(Page(1))
  <2>1. w \in server /\ Rank(server, w) <= PageSize
    BY <1>1, <1>4 DEF PageHolds
  <2>2. Rank(server, v) <= Rank(server, w) /\ Rank(server, v) \in Nat /\ Rank(server, w) \in Nat
    BY <1>3, <1>5, <2>1 DEF Ranks
  <2>3. Rank(server, v) <= PageSize
    BY <1>2, <2>1, <2>2
  <2> QED BY <1>4, <2>3
<1> QED BY <1>1, <1>4, <1>5 DEF PageHolds

(* Merging the newest page loses nothing the server has. *)
LEMMA MergeCovers ==
  ASSUME MailOK, NEW n, NEW Q, NEW R, Merged(R, Q, Page(1)), Covers(Q, server, n), UpClosed(Q, server)
  PROVE  Covers(R, server, n) /\ UpClosed(R, server)
<1>1. /\ Current(Page(1), server)
      /\ \A v \in server, w \in ToSet(Page(1)) : w <= v => v \in ToSet(Page(1))
  BY NewestPage
<1>2. ASSUME NEW v \in server, v \in Q PROVE v \in R
  BY <1>1, <1>2 DEF Merged, Current
<1>3. ASSUME NEW v \in server, NEW w \in R, w <= v PROVE v \in R
  BY <1>1, <1>2, <1>3 DEF Merged, UpClosed
<1> QED BY <1>2, <1>3 DEF Covers, UpClosed

(* Where the cursor is put when the folder is filled from the cache. *)
SeedPage(S) == Max({1, Cardinality(S) \div PageSize})

(* A folder filled from the cache: after its first page, as many messages of
   the mailbox are listed as its cursor says. A page of them may have been
   deleted, and by a page the cursor is set back. *)
LEMMA SeedCovers ==
  ASSUME MailOK, SeedIsClose, seed \in SUBSET (1..uidNext - 1), NEW Q, Q \subseteq seed, seed \cap server \subseteq Q, Q # {},
         NEW R, Merged(R, Q, Page(1))
  PROVE  Covers(R, server, Max({SeedPage(seed), 2})) /\ UpClosed(R, server)
<1> DEFINE c == Cardinality(seed)
           k == c \div PageSize
           n == Max({SeedPage(seed), 2})
<1>1. /\ Current(Page(1), server) /\ ToSet(Page(1)) \subseteq server
      /\ \A v \in server : Rank(server, v) <= PageSize <=> v \in ToSet(Page(1))
      /\ \A v \in server, w \in ToSet(Page(1)) : w <= v => v \in ToSet(Page(1))
  BY NewestPage
<1>2. /\ seed # {} /\ \A u \in server : u >= Min(seed) => u \in seed \cup ToSet(Page(1))
      /\ Cardinality(seed \ server) <= PageSize
  BY DEF SeedIsClose
<1>3. uidNext \in Nat /\ seed \subseteq Nat /\ IsFiniteSet(seed) /\ server \subseteq Nat /\ IsFiniteSet(server)
  BY UidsFinite DEF MailOK
<1>4. Min(seed) \in seed /\ Min(seed) \in Nat /\ \A u \in seed : Min(seed) <= u
  BY <1>2, <1>3, MinIs DEF IsMin
<1>5. ASSUME NEW v \in server, v >= Min(seed) PROVE v \in R
  <2>1. v \in seed \cup ToSet(Page(1))
    BY <1>2, <1>5
  <2>2. CASE v \in ToSet(Page(1))
    BY <2>2 DEF Merged
  <2>3. CASE v \in seed
    BY <1>1, <2>3 DEF Merged, Current
  <2> QED BY <2>1, <2>2, <2>3
<1>6. ASSUME NEW v \in server, NEW w \in R, w <= v PROVE v \in R
  <2>1. CASE w \in ToSet(Page(1))
    BY <1>1, <1>6, <2>1 DEF Merged
  <2>2. CASE w \in Q
    <3>1. w \in seed /\ w \in Nat /\ v \in Nat /\ Min(seed) <= w
      BY <1>3, <1>4, <2>2
    <3>2. v >= Min(seed)
      BY <1>4, <1>6, <3>1
    <3> QED BY <1>5, <3>2
  <2> QED BY <2>1, <2>2 DEF Merged
<1>7. c \in Nat /\ PageSize \in Nat \ {0} /\ k \in Nat /\ k * PageSize <= c /\ k * PageSize \in Nat
  <2>1. c \in Nat /\ PageSize \in Nat \ {0}
    BY <1>3, FS_CardinalityType, PageAssumption
  <2> HIDE DEF c
  <2> QED BY <2>1, QuotientIs
<1>8. Cardinality(seed \cap server) \in Nat /\ Cardinality(seed \cap server) >= c - PageSize
  <2>1. IsFiniteSet(seed \ server) /\ IsFiniteSet(seed \cap server)
    BY <1>3, FS_Subset
  <2>2. Cardinality(seed \ server) \in Nat /\ Cardinality(seed \cap server) \in Nat
    BY <2>1, FS_CardinalityType
  <2>3. (seed \ server) \cup (seed \cap server) = seed /\ (seed \ server) \cap (seed \cap server) = {}
    OBVIOUS
  <2>4. c = Cardinality(seed \ server) + Cardinality(seed \cap server)
    <3>1. Cardinality((seed \ server) \cup (seed \cap server)) = Cardinality(seed \ server) + Cardinality(seed \cap server) - Cardinality((seed \ server) \cap (seed \cap server))
      BY <2>1, FS_Union
    <3>2. Cardinality((seed \ server) \cap (seed \cap server)) = 0
      BY <2>3, FS_EmptySet
    <3>3. Cardinality(seed) = Cardinality(seed \ server) + Cardinality(seed \cap server) - 0
      BY <2>3, <3>1, <3>2, Zenon
    <3> QED BY <2>2, <3>3
  <2> QED BY <1>2, <1>7, <2>2, <2>4
<1>9. ASSUME NEW v \in server, v \in Nat, ~(v >= Min(seed)) PROVE Rank(server, v) > Cardinality(seed \cap server)
  <2> DEFINE A == seed \cap server
  <2>1. \A u \in A : u >= v /\ u # v
    BY <1>3, <1>4, <1>9
  <2>2. A \cup {v} \subseteq Above(server, v)
    BY <1>9, <2>1 DEF Above
  <2>3. IsFiniteSet(Above(server, v)) /\ IsFiniteSet(A)
    <3>1. Above(server, v) \subseteq server
      BY DEF Above
    <3> QED BY <1>3, <3>1, FS_Subset
  <2>4. Cardinality(A \cup {v}) = Cardinality(A) + 1
    BY <2>1, <2>3, FS_AddElement
  <2>5. Cardinality(A \cup {v}) <= Cardinality(Above(server, v)) /\ Cardinality(Above(server, v)) \in Nat
    BY <2>2, <2>3, FS_Subset, FS_CardinalityType
  <2> QED BY <1>8, <2>4, <2>5 DEF Rank
<1>10. n = IF k <= 2 THEN 2 ELSE k
  <2>1. SeedPage(seed) = IF 1 >= k THEN 1 ELSE k
    BY <1>7, OfTwo DEF SeedPage
  <2>2. SeedPage(seed) \in Nat
    BY <1>7, <2>1
  <2>3. n = IF SeedPage(seed) >= 2 THEN SeedPage(seed) ELSE 2
    BY <2>2, OfTwo
  <2> QED BY <1>7, <2>1, <2>2, <2>3
<1> HIDE DEF k, c, n
<1>11. ASSUME NEW v \in server, Rank(server, v) <= Reach(n - 1) PROVE v \in R
  <2>1. Rank(server, v) \in Nat /\ v \in Nat
    BY <1>3, RanksAre DEF Ranks
  <2>2. CASE k <= 2
    <3>1. n - 1 = 1
      BY <1>10, <2>2
    <3>2. Rank(server, v) <= PageSize
      BY <1>11, <3>1, ReachIs
    <3> QED BY <1>1, <3>2 DEF Merged
  <2>3. CASE ~(k <= 2)
    <3>1. k - 1 \in Nat /\ (k - 1) + 1 = k /\ n - 1 = k - 1
      BY <1>7, <1>10, <2>3
    <3>2. Reach(k) = Reach(k - 1) + PageSize /\ Reach(k - 1) \in Nat /\ Reach(k) = k * PageSize
      BY <3>1, ReachIs DEF Reach
    <3>3. Rank(server, v) <= Cardinality(seed \cap server)
      BY <1>7, <1>8, <1>11, <2>1, <3>1, <3>2
    <3>4. v >= Min(seed)
      <4>1. ~(v >= Min(seed)) => Rank(server, v) > Cardinality(seed \cap server)
        BY <1>9, <2>1
      <4> QED BY <1>8, <2>1, <3>3, <4>1
    <3> QED BY <1>5, <3>4
  <2> QED BY <2>2, <2>3
<1> QED BY <1>6, <1>11 DEF Covers, UpClosed, n

-----------------------------------------------------------------------------
(* Which part of the mailbox is listed                                    *)

(* What a reply makes of the pages of a folder. *)
Outcome(a, f, r) ==
  \/ a.kind = "stale" /\ a.folder = f
  \/ /\ r.id = f.pageReq /\ IsCachedOnly(f) /\ Merged(ToSet(a.folder.rows), ToSet(f.rows), r.uids)
     /\ a.folder.nextPage = Max({f.nextPage, r.page + 1})
     /\ a.folder.firstPage /\ a.folder.totalPages = r.total /\ a.folder.pageReq = NoRequest
  \/ /\ r.id = f.pageReq /\ ~IsCachedOnly(f) /\ Joined(a.folder.rows, f.rows, r.uids)
     /\ a.folder.nextPage = r.page + 1
     /\ a.folder.firstPage /\ a.folder.totalPages = r.total /\ a.folder.pageReq = NoRequest
  \/ /\ r.id = f.refreshReq /\ Merged(ToSet(a.folder.rows), ToSet(f.rows), r.uids)
     /\ a.folder.nextPage = f.nextPage
     /\ a.folder.firstPage = f.firstPage /\ a.folder.totalPages = r.total /\ a.folder.pageReq = f.pageReq

(* Merging, for the folder g with the rows of f. *)
MergedTo(a, f, g, r) ==
  /\ Merged(ToSet(a.folder.rows), ToSet(f.rows), r.uids)
  /\ a.folder.nextPage = g.nextPage /\ a.folder.firstPage = g.firstPage
  /\ a.folder.totalPages = g.totalPages /\ a.folder.pageReq = g.pageReq

(* merge_newest changes the rows only. *)
LEMMA MergedRows ==
  ASSUME NEW n \in Nat, NEW f \in Folders(n), NEW g \in OpenFolders(n), g.rows = f.rows, NEW r \in Replies(n), NEW a, a = Refreshed(g, r.uids)
  PROVE  MergedTo(a, f, g, r)
<1> DEFINE m == MergeNewest(f.rows, r.uids)
           E == 1..n - 1
<1>1. E \subseteq Nat /\ f.rows \in Seq(E) /\ IsDescending(f.rows) /\ r.uids \in Seq(E)
  BY DEF Folders, OpenFolders, Replies, Lists
<1>2. a = [kind |-> "refreshed", folder |-> [g EXCEPT !.rows = m.rows], added |-> 0, edits |-> m.edits]
  BY DEF Refreshed, Applied
<1>3. a.folder = [g EXCEPT !.rows = m.rows]
  BY <1>2
<1> HIDE DEF m, E
<1>4. ToSet(m.rows) = {u \in ToSet(f.rows) : ~(u >= Floor(r.uids))} \cup ToSet(r.uids)
  <2> DEFINE S == {}
  <2>1. S \in SUBSET (1..Len(f.rows))
    OBVIOUS
  <2> HIDE DEF S
  <2>2. /\ m \in Merges(E) /\ IsDescending(m.rows)
        /\ ToSet(m.rows) = {u \in ToSet(f.rows) : ~(u >= Floor(r.uids))} \cup ToSet(r.uids)
        /\ Follows(m, S, Marked(f.rows, S) \cap ToSet(m.rows))
    BY <1>1, <2>1, MergeNewestIs DEF m
  <2> QED BY <2>2
<1>5. /\ a.folder.rows = m.rows /\ a.folder.nextPage = g.nextPage /\ a.folder.firstPage = g.firstPage
      /\ a.folder.totalPages = g.totalPages /\ a.folder.pageReq = g.pageReq
  BY <1>3 DEF OpenFolders
<1> QED BY <1>4, <1>5 DEF Merged, MergedTo

(* apply_reply, in each of its cases. *)
LEMMA OutcomeIs ==
  ASSUME NEW n \in Nat, NEW f \in Folders(n), NEW r \in Replies(n)
  PROVE  Outcome(ApplyReply(f, r), f, r)
<1> DEFINE a == ApplyReply(f, r)
           np == IF IsCachedOnly(f) THEN Max({f.nextPage, r.page + 1}) ELSE r.page + 1
           g == [f EXCEPT !.pageReq = NoRequest, !.totalPages = r.total, !.firstPage = TRUE, !.nextPage = np]
           h == [f EXCEPT !.refreshReq = NoRequest, !.totalPages = r.total]
           older == Older(f, r.uids)
           pasted == Applied("page", [g EXCEPT !.rows = @ \o older], Len(older), <<>>)
<1>1. f.nextPage \in Nat \ {0} /\ r.page \in Nat \ {0} /\ r.total \in Nat /\ f \in OpenFolders(n) /\ f.rows \in Lists(n) /\ r.uids \in Lists(n)
  BY DEF Folders, OpenFolders, Replies
<1>2. np \in Nat \ {0}
  <2>1. Max({f.nextPage, r.page + 1}) = IF f.nextPage >= r.page + 1 THEN f.nextPage ELSE r.page + 1
    BY <1>1, OfTwo
  <2> QED BY <1>1, <2>1
<1>3. a = IF f.pageReq = r.id THEN IF IsCachedOnly(f) THEN Refreshed(g, r.uids) ELSE pasted
          ELSE IF f.refreshReq = r.id THEN Refreshed(h, r.uids)
          ELSE [kind |-> "stale", folder |-> f, added |-> 0, edits |-> <<>>]
  BY DEF ApplyReply, Applied
<1>4. /\ IsCachedOnly(f) => np = Max({f.nextPage, r.page + 1})
      /\ ~IsCachedOnly(f) => np = r.page + 1
  OBVIOUS
<1>5. Joined(f.rows \o older, f.rows, r.uids)
  BY <1>1, OlderIs
<1> HIDE DEF np, a, pasted, older
<1>6. /\ g \in OpenFolders(n) /\ g.rows = f.rows /\ g.pageReq = NoRequest /\ g.firstPage /\ g.totalPages = r.total /\ g.nextPage = np
  BY <1>1, <1>2 DEF OpenFolders, NoRequest
<1>7. /\ h \in OpenFolders(n) /\ h.rows = f.rows /\ h.pageReq = f.pageReq /\ h.firstPage = f.firstPage
      /\ h.totalPages = r.total /\ h.nextPage = f.nextPage
  BY <1>1 DEF OpenFolders, NoRequest
<1> HIDE DEF g, h
<1>8. CASE f.pageReq = r.id /\ IsCachedOnly(f)
  <2>1. a = Refreshed(g, r.uids)
    BY <1>3, <1>8
  <2>2. MergedTo(a, f, g, r)
    BY <1>6, <2>1, MergedRows
  <2> QED BY <1>4, <1>6, <1>8, <2>2 DEF Outcome, MergedTo, a
<1>9. CASE f.pageReq = r.id /\ ~IsCachedOnly(f)
  <2>1. a = pasted
    BY <1>3, <1>9
  <2> DEFINE t == f.rows \o older
  <2>2. a.folder = [g EXCEPT !.rows = t]
    BY <1>6, <2>1 DEF pasted, Applied, OpenFolders
  <2> HIDE DEF t
  <2>3. /\ a.folder.rows = t /\ a.folder.nextPage = g.nextPage /\ a.folder.firstPage = g.firstPage
        /\ a.folder.totalPages = g.totalPages /\ a.folder.pageReq = g.pageReq
    BY <1>6, <2>2 DEF OpenFolders
  <2>4. Joined(a.folder.rows, f.rows, r.uids)
    BY <1>5, <2>3 DEF t
  <2> QED BY <1>4, <1>6, <1>9, <2>3, <2>4 DEF Outcome, a
<1>10. CASE f.pageReq # r.id /\ f.refreshReq = r.id
  <2>1. a = Refreshed(h, r.uids)
    BY <1>3, <1>10
  <2>2. MergedTo(a, f, h, r)
    BY <1>7, <2>1, MergedRows
  <2> QED BY <1>7, <1>10, <2>2 DEF Outcome, MergedTo, a
<1>11. CASE f.pageReq # r.id /\ f.refreshReq # r.id
  <2>1. a = [kind |-> "stale", folder |-> f, added |-> 0, edits |-> <<>>]
    BY <1>3, <1>11
  <2>2. a.kind = "stale" /\ a.folder = f
    BY <2>1
  <2> QED BY <2>2 DEF Outcome, a
<1> QED BY <1>8, <1>9, <1>10, <1>11

-----------------------------------------------------------------------------

(* Nothing has happened to the mailbox, and nothing failed. A reply is the
   mailbox of now. *)
Still == server = original /\ Arrived = 0 /\ faults = 0
Truthful(e) == e.op = "headers" => e.uids = Page(e.page) /\ e.total = TotalPages

(* The pages before the cursor are listed; until the first page arrives, what
   the cache had. *)
Coverage(f) ==
  /\ f.totalPages \in {None, TotalPages}
  /\ f.firstPage => Covers(ToSet(f.rows), server, f.nextPage) /\ UpClosed(ToSet(f.rows), server)
  /\ ~f.firstPage => ToSet(f.rows) \subseteq seed /\ seed \cap server \subseteq ToSet(f.rows) /\ f.nextPage = SeedPage(seed)

(* Until mail arrives no message is new, and the cache had what was told of.
   Replies are true while nothing happens. A page that is waited for is not
   beyond the cursor, and the number of pages is known from the first on. And
   with nothing happening, no stray page and a cache close enough, the pages
   before the cursor are listed. *)
MailKnown == seed \subseteq listed /\ uidNext >= OldUids + 1 /\ (uidNext = OldUids + 1 => server \subseteq original)
RepliesTell == Still => \A e \in ToSet(ev) : Truthful(e)

Asks ==
  faults = 0 /\ folder.firstPage =>
    \A c \in InFlight : c.op = "headers" /\ c.of = opening /\ c.id = folder.pageReq => c.page <= folder.nextPage

TotalLater == folder.totalPages # None => folder.firstPage
Covered == Still /\ ~strays /\ SeedIsClose => Coverage(folder)
Whole == MailKnown /\ RepliesTell /\ Asks /\ TotalLater /\ Covered

(* If the cursor is past the last page, everything is listed. *)
LEMMA CompleteIs == Inv /\ Whole => CompleteListsAll
<1> SUFFICES ASSUME Inv, Whole, IsComplete(folder), Still, ~strays, SeedIsClose, NEW v \in server PROVE v \in ToSet(folder.rows)
  BY DEF CompleteListsAll, Still
<1>1. MailOK /\ folder \in Folders(uidNext)
  BY DEF Inv, MailInv, ListInv, FolderOK
<1>2. Coverage(folder) /\ folder.firstPage /\ folder.totalPages # None /\ folder.nextPage > folder.totalPages
  BY DEF Whole, Covered, TotalLater, IsComplete
<1>3. folder.totalPages = TotalPages /\ Covers(ToSet(folder.rows), server, folder.nextPage)
  BY <1>2 DEF Coverage
<1>4. TotalPages \in Nat /\ folder.nextPage - 1 \in Nat /\ TotalPages <= folder.nextPage - 1
  BY <1>1, <1>2, <1>3, TotalPagesIs, FolderInts
<1>5. Reach(TotalPages) \in Nat /\ Reach(folder.nextPage - 1) \in Nat /\ Reach(TotalPages) <= Reach(folder.nextPage - 1)
  BY <1>4, ReachIs
<1>6. Rank(server, v) \in 1..Cardinality(server)
  <2>1. server \subseteq Nat /\ IsFiniteSet(server)
    BY <1>1, RanksAre
  <2> QED BY <2>1, RankIs
<1>7. Rank(server, v) <= Reach(folder.nextPage - 1)
  BY <1>1, <1>5, <1>6, AllPages
<1> QED BY <1>3, <1>7 DEF Covers

(* What every step leaves of the history. *)
OldMail ==
  /\ original' = original /\ (faults' = 0 => faults = 0)
  /\ (uidNext' = uidNext /\ server' \subseteq server) \/ uidNext' = uidNext + 1

KnownMail == OldMail /\ listed \subseteq listed' /\ seed' \subseteq listed

(* If nothing has happened after a step, nothing had before. *)
LEMMA StillBefore ==
  ASSUME Inv, MailKnown, OldMail, Still'
  PROVE  Still /\ server' = server /\ uidNext' = uidNext
<1>1. uidNext \in Nat /\ OldUids \in Nat
  BY PageAssumption DEF Inv, MailInv, MailOK
<1>2. uidNext' = OldUids + 1
  BY <1>1 DEF OldMail, Still, Arrived
<1>3. uidNext' = uidNext
  BY <1>1, <1>2 DEF OldMail, MailKnown
<1> QED BY <1>2, <1>3 DEF OldMail, MailKnown, Still, Arrived

(* What the first conjunct takes to stay. *)
LEMMA MailStaysKnown ==
  ASSUME Inv, MailKnown, KnownMail
  PROVE  MailKnown'
<1>1. uidNext \in Nat /\ OldUids \in Nat
  BY PageAssumption DEF Inv, MailInv, MailOK
<1> QED BY <1>1 DEF MailKnown, KnownMail, OldMail

(* And the second: replies that are added are true. *)
LEMMA RepliesStay ==
  ASSUME Inv, MailKnown, RepliesTell, OldMail, \A e \in ToSet(ev') : e \in ToSet(ev) \/ Truthful(e)
  PROVE  RepliesTell'
<1> SUFFICES ASSUME Still', NEW e \in ToSet(ev') PROVE Truthful(e)'
  BY DEF RepliesTell
<1>1. Still /\ server' = server
  BY StillBefore
<1>2. Truthful(e)
  BY <1>1 DEF RepliesTell
<1> QED BY <1>1, <1>2 DEF Truthful, Page, TotalPages

(* And the third: no request is new. *)
LEMMA AsksStay ==
  ASSUME Asks, Quietly, folder'.nextPage = folder.nextPage
  PROVE  Asks'
BY DEF Asks, Quietly, Mirrored, NoErrors, SameFolder

(* The rows and the cursor stay. *)
SameProgress ==
  /\ folder'.rows = folder.rows /\ folder'.nextPage = folder.nextPage
  /\ folder'.firstPage = folder.firstPage /\ folder'.totalPages = folder.totalPages

(* The cache is as close after a step that leaves the mailbox alone. *)
LEMMA CloseBefore ==
  ASSUME server' = server, seed' = seed, SeedIsClose'
  PROVE  SeedIsClose
BY DEF SeedIsClose, Page, TotalPages

(* And so is what is listed of it. *)
LEMMA CoverageNow ==
  ASSUME server' = server, seed' = seed, Coverage(folder')
  PROVE  Coverage(folder)'
BY DEF Coverage, Page, TotalPages

(* What the last two conjuncts take to stay. *)
LEMMA CoverageStays ==
  ASSUME Inv, Whole, OldMail, SameProgress, UNCHANGED <<seed, strays>>
  PROVE  TotalLater' /\ Covered'
<1>1. TotalLater'
  BY DEF Whole, TotalLater, SameProgress
<1>2. ASSUME Still', ~strays', SeedIsClose' PROVE Coverage(folder)'
  <2>1. Still /\ server' = server
    BY <1>2, StillBefore DEF Whole
  <2>2. SeedIsClose
    BY <1>2, <2>1, CloseBefore
  <2>3. Coverage(folder)
    BY <1>2, <2>1, <2>2 DEF Whole, Covered
  <2>4. Coverage(folder')
    BY <2>3 DEF Coverage, SameProgress
  <2> QED BY <2>1, <2>4, CoverageNow
<1> QED BY <1>1, <1>2 DEF Covered

(* A step that asks for nothing and leaves the folder alone. *)
LEMMA NothingAsked ==
  ASSUME Inv, Whole, KnownMail, Quietly, UNCHANGED <<folder, seed, strays>>,
         \A e \in ToSet(ev') : e \in ToSet(ev) \/ Truthful(e)
  PROVE  Whole'
<1>1. OldMail /\ SameProgress
  BY DEF KnownMail, SameProgress
<1> QED BY <1>1, MailStaysKnown, RepliesStay, AsksStay, CoverageStays DEF Whole

(* After request_page: the page asked for is the one at the cursor. *)
LEMMA AskedAsks ==
  ASSUME Inv, Own, NEW f \in Folders(uidNext), f.lastId = folder.lastId, ToSet(ev') \subseteq ToSet(ev), opening' = opening,
         (folder' = f /\ UNCHANGED <<q, faults>>) \/ Asked(f, opening),
         faults = 0 /\ f.firstPage =>
           \A c \in InFlight : c.op = "headers" /\ c.of = opening /\ c.id = f.pageReq => c.page <= f.nextPage
  PROVE  Asks' /\ (faults' = 0 => faults = 0)
<1>1. /\ f.lastId \in Nat /\ f.pageReq \in Nat /\ f.pageReq <= f.lastId /\ f.nextPage \in Nat \ {0}
      /\ folder.lastId \in Nat /\ opening \in Nat /\ faults \in Nat
  BY FolderInts DEF Inv, MailInv, CountOK, ListInv, FolderOK
<1>2. faults' = faults \/ faults' = faults + 1
  BY DEF Asked, Sent
<1>3. faults' = 0 => faults = 0
  BY <1>1, <1>2
<1>4. CASE folder' = f /\ UNCHANGED <<q, faults>>
  <2>1. InFlight' \subseteq InFlight
    BY <1>4 DEF InFlight
  <2> QED BY <1>3, <1>4, <2>1 DEF Asks
<1>5. CASE UNCHANGED q /\ faults' = faults + 1
  BY <1>1, <1>3, <1>5 DEF Asks
<1>6. CASE /\ folder'.lastId = f.lastId + 1 /\ folder'.pageReq = f.lastId + 1 /\ folder'.nextPage = f.nextPage
           /\ Sent(FetchHeaders(f.nextPage, f.lastId + 1, opening))
  <2> SUFFICES ASSUME NEW c \in InFlight', c.op = "headers", c.of = opening, c.id = folder'.pageReq PROVE c.page <= folder'.nextPage
    BY <1>3 DEF Asks
  <2>1. f.lastId + 1 \in Nat
    BY <1>1
  <2>2. c \in InFlight \/ (c.op = "headers" /\ c.page = f.nextPage /\ c.id = f.lastId + 1 /\ c.of = opening)
    BY <1>1, <1>6, <2>1, CommandSent
  <2>3. CASE c \in InFlight
    <3>1. c.id <= folder.lastId /\ c.id \in Nat
      BY <2>3, RequestInts DEF Own, RequestsOK
    <3> QED BY <1>1, <1>6, <3>1
  <2>4. CASE c.page = f.nextPage
    BY <1>1, <1>6, <2>4
  <2> QED BY <2>2, <2>3, <2>4
<1> QED BY <1>3, <1>4, <1>5, <1>6 DEF Asked

(* After request_refresh, which leaves the cursor. *)
LEMMA RenewedAsks ==
  ASSUME Inv, Own, Asks, Renewed, ToSet(ev') \subseteq ToSet(ev), opening' = opening
  PROVE  Asks' /\ (faults' = 0 => faults = 0) /\ SameProgress
<1>1. /\ folder.lastId \in Nat /\ folder.pageReq \in Nat /\ folder.pageReq <= folder.lastId /\ folder.nextPage \in Nat \ {0}
      /\ opening \in Nat /\ faults \in Nat
  BY FolderInts DEF Inv, MailInv, CountOK, ListInv, FolderOK
<1>2. SameProgress /\ folder'.pageReq = folder.pageReq
  BY DEF Renewed, SameProgress
<1>3. (faults' = faults \/ faults' = faults + 1) /\ (faults' = 0 => faults = 0)
  BY <1>1 DEF Renewed, Sent
<1>4. CASE UNCHANGED q
  <2>1. InFlight' \subseteq InFlight
    BY <1>4 DEF InFlight
  <2> QED BY <1>2, <1>3, <2>1 DEF Asks, SameProgress
<1>5. CASE Sent(FetchHeaders(1, folder.lastId + 1, opening))
  <2>1. folder.lastId + 1 \in Nat /\ 1 \in Nat \ {0}
    BY <1>1
  <2>2. \A c \in InFlight' : c \in InFlight \/ (c.op = "headers" /\ c.page = 1 /\ c.id = folder.lastId + 1 /\ c.of = opening)
    BY <1>1, <1>5, <2>1, CommandSent
  <2>3. \A c \in InFlight' : c.id = folder.pageReq => c \in InFlight
    BY <1>1, <2>2
  <2> QED BY <1>2, <1>3, <2>3 DEF Asks, SameProgress
<1> QED BY <1>4, <1>5 DEF Renewed

(* The folder is opened afresh. *)
LEMMA OpenedWhole ==
  ASSUME Inv, Whole, OpenFolder, UNCHANGED <<ev, mailbox, original, listed>>
  PROVE  Whole'
<1>1. opening' = opening + 1 /\ Asked(NewFolder, opening + 1) /\ seed' = {} /\ folder'.rows = <<>> /\ faults \in Nat
  BY OpenedFolder DEF OpenFolder, Inv, MailInv, CountOK
<1>2. /\ NewFolder.pageReq = NoRequest /\ ~IsComplete(NewFolder) /\ NewFolder.nextPage = 1
      /\ ~NewFolder.firstPage /\ NewFolder.totalPages = None
  BY DEF NewFolder, IsComplete
<1>3. /\ folder'.nextPage = 1 /\ ~folder'.firstPage /\ folder'.totalPages = None
      /\ (faults' = faults \/ faults' = faults + 1)
  BY <1>1, <1>2 DEF Asked, Sent
<1>4. KnownMail /\ OldMail
  BY <1>1, <1>3 DEF KnownMail, OldMail, mailbox
<1>5. Asks' /\ TotalLater'
  BY <1>3 DEF Asks, TotalLater
<1>6. Coverage(folder)'
  <2>1. Cardinality({}) \div PageSize = 0
    <3>1. Cardinality({}) = 0 /\ PageSize \in Nat \ {0}
      BY FS_EmptySet, PageAssumption
    <3>2. 0 \div PageSize = 0
      BY <3>1
    <3> QED BY <3>1, <3>2
  <2>2. SeedPage({}) = 1
    BY <2>1, OfTwo DEF SeedPage
  <2>3. ToSet(folder'.rows) = {}
    BY <1>1 DEF ToSet
  <2> QED BY <1>1, <1>3, <2>2, <2>3 DEF Coverage
<1>7. MailKnown' /\ RepliesTell'
  BY <1>4, MailStaysKnown, RepliesStay DEF Whole
<1> QED BY <1>5, <1>6, <1>7 DEF Whole, Covered

(* What the user does. *)
LEMMA UserWhole ==
  ASSUME Inv, Own, Whole, User
  PROVE  Whole'
<1>0. folder \in Folders(uidNext) /\ Asks
  BY DEF Inv, ListInv, FolderOK, Whole
<1>1. CASE UserOpens
  BY <1>1, OpenedWhole DEF UserOpens
<1>2. CASE UserRefreshes
  <2>1. CASE folder.firstPage
    <3>1. RequestRefresh /\ UNCHANGED <<ev, mailbox, history>>
      BY <1>2, <2>1 DEF UserRefreshes
    <3>2. Asks' /\ (faults' = 0 => faults = 0) /\ SameProgress
      BY <1>0, <3>1, RequestRefreshIs, RenewedAsks DEF Inv, ListInv, history
    <3>3. KnownMail /\ OldMail
      BY <3>1, <3>2 DEF KnownMail, OldMail, mailbox, history, Whole, MailKnown
    <3>4. MailKnown' /\ RepliesTell' /\ TotalLater' /\ Covered'
      BY <3>1, <3>2, <3>3, MailStaysKnown, RepliesStay, CoverageStays DEF Whole, history
    <3> QED BY <3>2, <3>4 DEF Whole
  <2>2. CASE ~folder.firstPage
    BY <1>2, <2>2, OpenedWhole DEF UserRefreshes
  <2> QED BY <2>1, <2>2
<1>3. CASE NearEnd
  <2>1. RequestPage(folder, opening) /\ UNCHANGED <<ev, mailbox, history>> /\ opening' = opening
    BY <1>3 DEF NearEnd, history
  <2>2. opening \in Nat
    BY DEF Inv, MailInv, CountOK
  <2>3. Asked(folder, opening)
    BY <1>0, <2>1, <2>2, RequestedPage
  <2>4. Asks' /\ (faults' = 0 => faults = 0)
    BY <1>0, <2>1, <2>3, AskedAsks DEF Asks
  <2>5. SameProgress
    BY <2>3 DEF Asked, SameProgress
  <2>6. KnownMail /\ OldMail
    BY <2>1, <2>4 DEF KnownMail, OldMail, mailbox, history, Whole, MailKnown
  <2>7. MailKnown' /\ RepliesTell' /\ TotalLater' /\ Covered'
    BY <2>1, <2>5, <2>6, MailStaysKnown, RepliesStay, CoverageStays DEF Whole, history
  <2> QED BY <2>4, <2>7 DEF Whole
<1>4. CASE MoveSelected \/ Search \/ ClearSearch \/ \E r \in DOMAIN Shown : ClickRow(r) \/ CtrlClickRow(r)
  <2>1. UNCHANGED <<folder, ev, mailbox, history>>
    BY <1>4 DEF MoveSelected, Search, ClearSearch, ClickRow, CtrlClickRow, SelectRows, paging, imap
  <2>2. Quietly
    <3>1. CASE MoveSelected
      BY <3>1, MoveSelectedQuiet
    <3>2. CASE Search \/ ClearSearch \/ \E r \in DOMAIN Shown : ClickRow(r) \/ CtrlClickRow(r)
      <4>1. UNCHANGED <<folder, q, ev, opening, faults>>
        BY <3>2 DEF Search, ClearSearch, ClickRow, CtrlClickRow, SelectRows, history, paging, imap
      <4> QED BY <4>1, Quiet DEF SameFolder
    <3> QED BY <1>4, <3>1, <3>2
  <2>3. KnownMail
    BY <2>1, <2>2 DEF KnownMail, OldMail, mailbox, history, Whole, MailKnown, Quietly, NoErrors
  <2> QED BY <2>1, <2>2, <2>3, NothingAsked DEF history
<1> QED BY <1>1, <1>2, <1>3, <1>4 DEF User

(* What is filled from the cache. *)
LEMMA SeededIs ==
  ASSUME Inv, NEW S, folder' = SeedFolder(folder, S)
  PROVE  /\ folder'.rows = Descending(S) /\ folder'.nextPage = SeedPage(S)
         /\ folder'.firstPage = folder.firstPage /\ folder'.totalPages = folder.totalPages
<1> DEFINE d == Descending(S)
           np == SeedPage(S)
<1>1. folder \in OpenFolders(uidNext)
  BY DEF Inv, ListInv, FolderOK, Folders
<1>2. folder' = [folder EXCEPT !.rows = d, !.nextPage = np]
  BY DEF SeedFolder, SeedPage
<1> HIDE DEF d, np
<1>3. folder'.rows = d /\ folder'.nextPage = np /\ folder'.firstPage = folder.firstPage /\ folder'.totalPages = folder.totalPages
  BY <1>1, <1>2 DEF OpenFolders
<1> QED BY <1>3 DEF d, np

(* What the cache answers. *)
LEMMA CacheWhole ==
  ASSUME Inv, Own, Whole, Cache
  PROVE  Whole'
<1>1. ASSUME NEW S \in SUBSET listed, SeedFromCache(S) PROVE Whole'
  <2>1. /\ folder' = SeedFolder(folder, S) /\ seed' = S /\ UNCHANGED <<q, ev, opening, faults, mailbox, original, listed>>
        /\ ~folder.firstPage
    BY <1>1 DEF SeedFromCache, imap, bounds
  <2>2. /\ folder'.rows = Descending(S) /\ folder'.nextPage = SeedPage(S)
        /\ folder'.firstPage = folder.firstPage /\ folder'.totalPages = folder.totalPages
    BY <2>1, SeededIs
  <2>3. ToSet(folder'.rows) = S
    <3>1. uidNext \in Nat /\ S \in SUBSET (1..uidNext - 1)
      BY DEF Inv, MailInv, MailOK
    <3> QED BY <2>2, <3>1, SortedIs
  <2>4. KnownMail /\ OldMail
    BY <2>1 DEF KnownMail, OldMail, mailbox
  <2>5. Asks' /\ TotalLater'
    BY <2>1, <2>2 DEF Asks, TotalLater, Whole
  <2>6. Coverage(folder)'
    BY <2>1, <2>2, <2>3 DEF Coverage, Whole, TotalLater
  <2>7. MailKnown' /\ RepliesTell'
    BY <2>1, <2>4, MailStaysKnown, RepliesStay DEF Whole
  <2> QED BY <2>5, <2>6, <2>7 DEF Whole, Covered
<1>2. ASSUME NEW S \in SUBSET listed, SearchArrived(S) PROVE Whole'
  <2>1. UNCHANGED <<folder, q, ev, opening, faults, mailbox, history>>
    BY <1>2 DEF SearchArrived, imap, bounds, history, paging
  <2>2. Quietly
    BY <2>1, Quiet DEF SameFolder
  <2>3. KnownMail
    BY <2>1 DEF KnownMail, OldMail, mailbox, history, Whole, MailKnown
  <2> QED BY <2>1, <2>2, <2>3, NothingAsked DEF history
<1> QED BY <1>1, <1>2 DEF Cache

(* One event is added. *)
LEMMA Added ==
  ASSUME Inv, NEW e, e \in Events(uidNext), ev' = Append(ev, e), e.op # "headers" \/ Truthful(e)
  PROVE  \A x \in ToSet(ev') : x \in ToSet(ev) \/ Truthful(x)
<1>1. ev \in Seq(Events(uidNext))
  BY DEF Inv, WireInv, WireOK
<1>2. ToSet(ev') = ToSet(ev) \cup {e}
  BY <1>1, AppendIs
<1> QED BY <1>2 DEF Truthful

(* What the actor does. *)
LEMMA ActorWhole ==
  ASSUME Inv, Own, Whole, Actor
  PROVE  Whole'
<1>0. Quietly
  BY ActorQuiet
<1>1. UNCHANGED <<folder, seed, strays, original, listed, uidNext>> /\ server' \subseteq server /\ (faults' = 0 => faults = 0)
  BY <1>0 DEF Actor, ServeHeaders, ServeMove, Serve, Reconnect, paging, history, bounds, Quietly, NoErrors
<1>2. KnownMail
  BY <1>1 DEF KnownMail, OldMail, Whole, MailKnown
<1>3. \A x \in ToSet(ev') : x \in ToSet(ev) \/ Truthful(x)
  <2>1. CASE ServeHeaders
    <3> DEFINE e == Headers(Head(q))
    <3>1. e \in Replies(uidNext) /\ ev' = Append(ev, e)
      BY <2>1, ServedHeaders
    <3>2. Truthful(e)
      BY DEF Truthful, Headers
    <3> HIDE DEF e
    <3>3. e \in Events(uidNext)
      BY <3>1 DEF Events
    <3> QED BY <3>1, <3>2, <3>3, Added
  <2>2. CASE ServeMove
    <3> DEFINE e == [op |-> "moved", uid |-> Head(q).uid]
    <3>1. ev' = Append(ev, e) /\ q # <<>> /\ Head(q).op = "move"
      BY <2>2 DEF ServeMove, Serve
    <3>2. Head(q) \in [op : {"move"}, uid : 1..uidNext - 1]
      BY <3>1, HeadCommand DEF Inv
    <3>3. e \in Events(uidNext) /\ e.op = "moved"
      BY <3>2, MoveEvent
    <3> HIDE DEF e
    <3> QED BY <3>1, <3>3, Added
  <2>3. CASE Reconnect
    <3> DEFINE e == [op |-> "connected"]
    <3>1. ev' = Append(ev, e)
      BY <2>3 DEF Reconnect
    <3>2. e \in Events(uidNext) /\ e.op = "connected"
      BY OtherEvent
    <3> HIDE DEF e
    <3> QED BY <3>1, <3>2, Added
  <2> QED BY <2>1, <2>2, <2>3 DEF Actor
<1> QED BY <1>0, <1>1, <1>2, <1>3, NothingAsked

(* What happens to the mailbox. *)
LEMMA WorldWhole ==
  ASSUME Inv, Own, Whole, World
  PROVE  Whole'
<1>0. Quietly
  BY WorldQuiet
<1>1. /\ UNCHANGED <<folder, seed, strays, original, listed>> /\ (faults' = 0 => faults = 0)
      /\ (uidNext' = uidNext /\ server' \subseteq server) \/ uidNext' = uidNext + 1
  BY <1>0 DEF World, Arrive, Expunge, Announce, OtherError, CommandFails, Serve, paging, history, mailbox, Quietly, NoErrors
<1>2. KnownMail
  BY <1>1 DEF KnownMail, OldMail, Whole, MailKnown
<1>3. \A x \in ToSet(ev') : x \in ToSet(ev) \/ Truthful(x)
  <2>1. CASE Arrive \/ Expunge
    BY <2>1 DEF Arrive, Expunge, imap
  <2>2. CASE Announce
    <3> DEFINE e == [op |-> "newHeaders"]
    <3>1. ev' = Append(ev, e)
      BY <2>2 DEF Announce
    <3>2. e \in Events(uidNext) /\ e.op = "newHeaders"
      BY OtherEvent
    <3> HIDE DEF e
    <3> QED BY <3>1, <3>2, Added
  <2>3. CASE OtherError
    <3> DEFINE e == [op |-> "error"]
    <3>1. ev' = Append(ev, e)
      BY <2>3 DEF OtherError
    <3>2. e \in Events(uidNext) /\ e.op = "error"
      BY OtherEvent
    <3> HIDE DEF e
    <3> QED BY <3>1, <3>2, Added
  <2>4. CASE CommandFails
    <3> DEFINE e == Failure(Head(q))
    <3>1. ev' = Append(ev, e) /\ q # <<>>
      BY <2>4 DEF CommandFails, Serve
    <3>2. e \in Events(uidNext) /\ e.op # "headers"
      <4>1. CASE Head(q).op = "headers"
        <5>1. e = [op |-> "error"]
          BY <4>1 DEF Failure
        <5> QED BY <5>1, OtherEvent
      <4>2. CASE Head(q).op # "headers"
        <5>1. e = [op |-> "moveFailed", uid |-> Head(q).uid] /\ Head(q) \in [op : {"move"}, uid : 1..uidNext - 1]
          BY <3>1, <4>2, HeadCommand DEF Failure, Inv
        <5> QED BY <5>1, MoveEvent
      <4> QED BY <4>1, <4>2
    <3> HIDE DEF e
    <3> QED BY <3>1, <3>2, Added
  <2> QED BY <2>1, <2>2, <2>3, <2>4 DEF World
<1> QED BY <1>0, <1>1, <1>2, <1>3, NothingAsked

(* The reply a folder is waiting for, of this opening or taken for one of it. *)
LEMMA AnswerCovers ==
  ASSUME Inv, Own, MailKnown, Asks, Still, SeedIsClose, Coverage(folder),
         NEW r \in Replies(uidNext), r \in InFlight, r.op = "headers", Truthful(r), r.of = opening \/ r.page = 1,
         NEW a, Outcome(a, folder, r), a.folder \in Folders(uidNext)
  PROVE  Coverage(a.folder)
<1>1. /\ MailOK /\ folder \in Folders(uidNext) /\ folder.rows \in Lists(uidNext) /\ a.folder.rows \in Lists(uidNext)
      /\ folder.nextPage \in Nat \ {0} /\ folder.rows \in Seq(1..uidNext - 1)
  BY DEF Inv, MailInv, ListInv, FolderOK, Folders, OpenFolders, Lists
<1>2. r.uids = Page(r.page) /\ r.total = TotalPages /\ faults = 0 /\ r.page \in Nat \ {0}
  BY DEF Truthful, Still, Replies
<1>3. ~folder.firstPage => r.page = 1
  BY <1>2 DEF Own, NoFailure
<1>4. r.id >= 1 /\ (r.id = folder.refreshReq => folder.firstPage /\ r.page = 1)
  <2>1. r.id >= 1 /\ (r.of = opening => (r.id = folder.refreshReq => r.page = 1))
    BY DEF Own, RequestsOK
  <2>2. r.id # NoRequest
    BY <2>1 DEF NoRequest
  <2> QED BY <2>1, <2>2 DEF Own, RefreshLater
<1>5. CASE a.folder = folder
  BY <1>5
<1>6. CASE /\ IsCachedOnly(folder) /\ Merged(ToSet(a.folder.rows), ToSet(folder.rows), r.uids)
           /\ a.folder.nextPage = Max({folder.nextPage, r.page + 1}) /\ a.folder.firstPage /\ a.folder.totalPages = r.total
  <2> DEFINE Q == ToSet(folder.rows)
             R == ToSet(a.folder.rows)
  <2>1. ~folder.firstPage /\ folder.rows # <<>> /\ r.page = 1
    BY <1>3, <1>6 DEF IsCachedOnly
  <2>2. Q \subseteq seed /\ seed \cap server \subseteq Q /\ folder.nextPage = SeedPage(seed)
    BY <2>1 DEF Coverage
  <2>3. Q # {}
    <3>1. 1 \in 1..Len(folder.rows)
      BY <1>1, <2>1
    <3> QED BY <1>1, <3>1, ToSetIs
  <2>4. seed \in SUBSET (1..uidNext - 1)
    BY <1>1 DEF MailKnown, MailOK
  <2>5. Merged(R, Q, Page(1)) /\ r.page + 1 = 2
    BY <1>2, <1>6, <2>1
  <2> HIDE DEF Q, R
  <2>6. Covers(R, server, Max({SeedPage(seed), 2})) /\ UpClosed(R, server)
    BY <1>1, <2>2, <2>3, <2>4, <2>5, SeedCovers
  <2>7. a.folder.nextPage = Max({SeedPage(seed), 2})
    BY <1>6, <2>2, <2>5
  <2> QED BY <1>2, <1>6, <2>6, <2>7 DEF Coverage, R
<1>7. CASE /\ r.id = folder.pageReq /\ ~IsCachedOnly(folder) /\ Joined(a.folder.rows, folder.rows, r.uids)
           /\ a.folder.nextPage = r.page + 1 /\ a.folder.firstPage /\ a.folder.totalPages = r.total
  <2>1. CASE folder.firstPage
    <3>1. r.page <= folder.nextPage
      BY <1>1, <1>2, <1>7, <2>1 DEF Asks
    <3>2. Covers(ToSet(folder.rows), server, folder.nextPage) /\ UpClosed(ToSet(folder.rows), server)
      BY <2>1 DEF Coverage
    <3>3. r.page \in 1..folder.nextPage
      BY <1>1, <1>2, <3>1
    <3>4. Covers(ToSet(a.folder.rows), server, r.page + 1) /\ UpClosed(ToSet(a.folder.rows), server)
      BY <1>1, <1>2, <1>7, <3>2, <3>3, AppendCovers
    <3> QED BY <1>2, <1>7, <3>4 DEF Coverage
  <2>2. CASE ~folder.firstPage
    <3>1. folder.rows = <<>> /\ r.page = 1
      BY <1>3, <1>7, <2>2 DEF IsCachedOnly
    <3>2. ToSet(folder.rows) = {}
      BY <3>1 DEF ToSet
    <3>3. Covers(ToSet(folder.rows), server, 1)
      <4>1. Ranks(server) /\ Reach(0) = 0 /\ 1 - 1 = 0
        BY <1>1, RanksAre, ReachIs
      <4> QED BY <4>1 DEF Ranks, Covers
    <3>4. UpClosed(ToSet(folder.rows), server) /\ Joined(a.folder.rows, folder.rows, Page(1))
      BY <1>2, <1>7, <3>1, <3>2 DEF UpClosed
    <3>5. 1 \in 1..1 /\ 1 \in Nat \ {0}
      OBVIOUS
    <3>6. Covers(ToSet(a.folder.rows), server, 1 + 1) /\ UpClosed(ToSet(a.folder.rows), server)
      BY <1>1, <3>3, <3>4, <3>5, AppendCovers
    <3> QED BY <1>2, <1>7, <3>1, <3>6 DEF Coverage
  <2> QED BY <2>1, <2>2
<1>8. CASE /\ r.id = folder.refreshReq /\ Merged(ToSet(a.folder.rows), ToSet(folder.rows), r.uids)
           /\ a.folder.nextPage = folder.nextPage /\ a.folder.firstPage = folder.firstPage /\ a.folder.totalPages = r.total
  <2>1. folder.firstPage /\ r.page = 1
    BY <1>4, <1>8
  <2>2. Covers(ToSet(folder.rows), server, folder.nextPage) /\ UpClosed(ToSet(folder.rows), server)
    BY <2>1 DEF Coverage
  <2>3. Covers(ToSet(a.folder.rows), server, folder.nextPage) /\ UpClosed(ToSet(a.folder.rows), server)
    BY <1>1, <1>2, <1>8, <2>1, <2>2, MergeCovers
  <2> QED BY <1>2, <1>8, <2>1, <2>3 DEF Coverage
<1> QED BY <1>5, <1>6, <1>7, <1>8 DEF Outcome

(* What apply_headers leaves of the history. *)
LEMMA ReplyHistory ==
  ASSUME HandleHeaders
  PROVE  /\ UNCHANGED <<mailbox, original, seed>> /\ listed \subseteq listed'
         /\ \/ ApplyReply(folder, Head(ev)).kind = "stale"
            \/ strays' = (strays \/ (Head(ev).of # opening /\ Head(ev).page # 1))
         /\ ApplyReply(folder, Head(ev)).kind = "stale" => strays' = strays
BY DEF HandleHeaders

(* A reply leaves no request for a page beyond the cursor. *)
LEMMA ReplyAsks ==
  ASSUME Own, Asks, NEW r, r \in InFlight, r.op = "headers", NEW a, Outcome(a, folder, r), faults = 0, a.folder.firstPage,
         NEW c \in InFlight, c.op = "headers", c.of = opening, c.id = a.folder.pageReq
  PROVE  c.page <= a.folder.nextPage
<1>1. c.id # NoRequest /\ r.id # NoRequest
  BY DEF Own, RequestsOK, NoRequest
<1> QED BY <1>1 DEF Outcome, Asks

(* It brings the number of pages with the first page or after it. *)
LEMMA ReplyTotals ==
  ASSUME Own, TotalLater, NEW r, r \in InFlight, r.op = "headers", NEW a, Outcome(a, folder, r)
  PROVE  a.folder.totalPages # None => a.folder.firstPage
<1>1. r.id # NoRequest
  BY DEF Own, RequestsOK, NoRequest
<1> QED BY <1>1 DEF Outcome, TotalLater, Own, RefreshLater

(* apply_headers. *)
LEMMA HandleHeadersWhole ==
  ASSUME Inv, Own, Whole, HandleHeaders
  PROVE  Whole'
<1> DEFINE r == Head(ev)
           a == ApplyReply(folder, r)
<1>1. /\ ev # <<>> /\ ev' = Tail(ev) /\ r \in Replies(uidNext) /\ r.op = "headers" /\ opening' = opening
      /\ a.folder \in Folders(uidNext) /\ Answers(a, folder, r, {})
      /\ (folder' = a.folder /\ UNCHANGED <<q, faults>>) \/ (a.kind # "stale" /\ Asked(a.folder, opening))
  BY AppliedReply
<1>2. ToSet(ev') \subseteq ToSet(ev) /\ r \in ToSet(ev) /\ r \in InFlight
  BY <1>1, Shorter DEF InFlight
<1>3. /\ UNCHANGED <<mailbox, original, seed>> /\ listed \subseteq listed'
      /\ a.kind = "stale" \/ strays' = (strays \/ (r.of # opening /\ r.page # 1))
      /\ a.kind = "stale" => strays' = strays
  BY ReplyHistory
<1>4. Outcome(a, folder, r)
  <2>1. uidNext \in Nat /\ folder \in Folders(uidNext)
    BY DEF Inv, MailInv, MailOK, ListInv, FolderOK
  <2> QED BY <1>1, <2>1, OutcomeIs
<1> HIDE DEF a, r
<1>5. a.folder.lastId = folder.lastId
  BY <1>1 DEF Answers
<1>6. Asks' /\ (faults' = 0 => faults = 0)
  <2>1. faults = 0 /\ a.folder.firstPage =>
          \A c \in InFlight : c.op = "headers" /\ c.of = opening /\ c.id = a.folder.pageReq => c.page <= a.folder.nextPage
    BY <1>1, <1>2, <1>4, ReplyAsks DEF Whole
  <2> QED BY <1>1, <1>2, <1>5, <2>1, AskedAsks
<1>7. KnownMail /\ OldMail
  BY <1>3, <1>6 DEF KnownMail, OldMail, mailbox, Whole, MailKnown
<1>8. MailKnown' /\ RepliesTell'
  BY <1>2, <1>7, MailStaysKnown, RepliesStay DEF Whole
<1>9. /\ folder'.rows = a.folder.rows /\ folder'.nextPage = a.folder.nextPage
      /\ folder'.firstPage = a.folder.firstPage /\ folder'.totalPages = a.folder.totalPages
  BY <1>1 DEF Asked
<1>10. TotalLater'
  <2>1. a.folder.totalPages # None => a.folder.firstPage
    BY <1>1, <1>2, <1>4, ReplyTotals DEF Whole
  <2> QED BY <1>9, <2>1 DEF TotalLater
<1>11. ASSUME Still', ~strays', SeedIsClose' PROVE Coverage(folder)'
  <2>1. Still /\ server' = server /\ seed' = seed
    BY <1>3, <1>7, <1>11, StillBefore DEF Whole
  <2>2. SeedIsClose
    BY <1>11, <2>1, CloseBefore
  <2>6. ~strays
    BY <1>3, <1>11
  <2>3. Coverage(folder)
    BY <2>1, <2>2, <2>6 DEF Whole, Covered
  <2>4. Coverage(a.folder)
    <3>1. CASE a.kind = "stale"
      BY <1>1, <2>3, <3>1 DEF Answers
    <3>2. CASE a.kind # "stale"
      <4>1. r.of = opening \/ r.page = 1
        BY <1>3, <1>11, <3>2
      <4>2. Truthful(r)
        BY <1>2, <2>1 DEF Whole, RepliesTell
      <4> QED BY <1>1, <1>2, <1>4, <2>1, <2>2, <2>3, <4>1, <4>2, AnswerCovers DEF Whole
    <3> QED BY <3>1, <3>2
  <2>5. Coverage(folder')
    BY <1>9, <2>4 DEF Coverage
  <2> QED BY <2>1, <2>5, CoverageNow
<1> QED BY <1>6, <1>8, <1>10, <1>11 DEF Whole, Covered

(* A message that is not there any more leaves the list. *)
LEMMA HandleMovedWhole ==
  ASSUME Inv, UpToDate, Whole, HandleMoved
  PROVE  Whole'
<1> DEFINE u == Head(ev).uid
<1>1. /\ ToSet(folder'.rows) = ToSet(folder.rows) \ {u} /\ Took("moved")
      /\ folder'.firstPage = folder.firstPage /\ folder'.pageReq = folder.pageReq /\ folder'.refreshReq = folder.refreshReq /\ folder'.lastId = folder.lastId
      /\ folder'.nextPage = folder.nextPage /\ folder'.totalPages = folder.totalPages
      /\ UNCHANGED <<server, listed, q, opening, faults>>
  BY MovedRows
<1>2. UNCHANGED <<mailbox, history>>
  BY DEF HandleMoved
<1>3. ev # <<>> /\ ev' = Tail(ev) /\ Head(ev).op = "moved"
  BY <1>1 DEF Took
<1>4. ToSet(ev') \subseteq ToSet(ev) /\ Head(ev) \in ToSet(ev)
  BY <1>3, Shorter
<1>5. u \notin server
  BY <1>3, <1>4 DEF UpToDate, MovedAreGone
<1> HIDE DEF u
<1>6. Quietly
  BY <1>1, <1>4, Quiet DEF SameFolder
<1>7. KnownMail /\ OldMail
  BY <1>1, <1>2 DEF KnownMail, OldMail, mailbox, history, Whole, MailKnown
<1>8. MailKnown' /\ RepliesTell' /\ Asks'
  BY <1>1, <1>4, <1>6, <1>7, MailStaysKnown, RepliesStay, AsksStay DEF Whole
<1>9. TotalLater'
  BY <1>1 DEF TotalLater, Whole
<1>10. ASSUME Still', ~strays', SeedIsClose' PROVE Coverage(folder)'
  <2>1. Still /\ server' = server /\ seed' = seed /\ strays' = strays
    BY <1>2, <1>7, <1>10, StillBefore DEF Whole, history
  <2>2. SeedIsClose
    BY <1>10, <2>1, CloseBefore
  <2>3. Coverage(folder)
    BY <1>10, <2>1, <2>2 DEF Whole, Covered
  <2>4. Coverage(folder')
    BY <1>1, <1>5, <2>3 DEF Coverage, Covers, UpClosed
  <2> QED BY <2>1, <2>4, CoverageNow
<1> QED BY <1>8, <1>9, <1>10 DEF Whole, Covered

(* What the UI thread does with an event. *)
LEMMA HandleWhole ==
  ASSUME Inv, Own, UpToDate, Whole, Handle
  PROVE  Whole'
<1>0. folder \in OpenFolders(uidNext) /\ Asks /\ FolderOK
  BY DEF Inv, ListInv, FolderOK, Folders, Whole
<1>1. CASE HandlePosted \/ HandleMoveFailed
  <2>1. UNCHANGED <<folder, q, opening, faults, mailbox, history>> /\ ToSet(ev') \subseteq ToSet(ev)
    <3>1. CASE HandlePosted
      BY <3>1 DEF HandlePosted, history, paging, imap, bounds
    <3>2. CASE HandleMoveFailed
      <4>1. ev # <<>> /\ ev' = Tail(ev)
        BY <3>2 DEF HandleMoveFailed, Took
      <4>2. UNCHANGED <<folder, q, opening, faults, mailbox, history>>
        BY <3>2 DEF HandleMoveFailed, history, paging, bounds
      <4> QED BY <4>1, <4>2, Shorter
    <3> QED BY <1>1, <3>1, <3>2
  <2>2. Quietly
    BY <2>1, Quiet DEF SameFolder
  <2>3. KnownMail
    BY <2>1 DEF KnownMail, OldMail, mailbox, history, Whole, MailKnown
  <2> QED BY <2>1, <2>2, <2>3, NothingAsked DEF history
<1>2. CASE HandleNews
  <2>1. RequestRefresh /\ ev # <<>> /\ ev' = Tail(ev) /\ UNCHANGED <<mailbox, history>>
    BY <1>2 DEF HandleNews, Took
  <2>2. Renewed /\ ToSet(ev') \subseteq ToSet(ev)
    BY <1>0, <2>1, RequestRefreshIs, Shorter
  <2>3. opening' = opening
    BY <2>1 DEF history
  <2>4. Asks' /\ (faults' = 0 => faults = 0) /\ SameProgress
    BY <1>0, <2>2, <2>3, RenewedAsks
  <2>5. KnownMail /\ OldMail
    BY <2>1, <2>4 DEF KnownMail, OldMail, mailbox, history, Whole, MailKnown
  <2>6. MailKnown' /\ RepliesTell' /\ TotalLater' /\ Covered'
    BY <2>1, <2>2, <2>4, <2>5, MailStaysKnown, RepliesStay, CoverageStays DEF Whole, history
  <2> QED BY <2>4, <2>6 DEF Whole
<1>3. CASE HandleError
  <2>1. folder' = [folder EXCEPT !.pageReq = NoRequest] /\ UNCHANGED <<q, opening, faults, mailbox, history>> /\ ev # <<>> /\ ev' = Tail(ev) /\ Head(ev).op = "error"
    BY <1>3 DEF HandleError, Took, history, bounds
  <2>2. ToSet(ev') \subseteq ToSet(ev) /\ Head(ev) \in ToSet(ev)
    BY <2>1, Shorter
  <2>3. faults # 0
    BY <2>1, <2>2 DEF Own, NoFailure
  <2>4. SameProgress
    BY <1>0, <2>1 DEF SameProgress, OpenFolders
  <2>5. KnownMail /\ OldMail
    BY <2>1 DEF KnownMail, OldMail, mailbox, history, Whole, MailKnown
  <2>6. MailKnown' /\ RepliesTell' /\ TotalLater' /\ Covered'
    BY <2>1, <2>2, <2>4, <2>5, MailStaysKnown, RepliesStay, CoverageStays DEF Whole, history
  <2>7. Asks'
    BY <2>1, <2>3 DEF Asks
  <2> QED BY <2>6, <2>7 DEF Whole
<1>4. CASE HandleHeaders
  BY <1>4, HandleHeadersWhole
<1>5. CASE HandleMoved
  BY <1>5, HandleMovedWhole
<1> QED BY <1>1, <1>2, <1>3, <1>4, <1>5 DEF Handle

(* Every step keeps it. *)
LEMMA NextWhole ==
  ASSUME Inv, Own, UpToDate, Whole, [Next]_vars
  PROVE  Whole'
<1>1. CASE UNCHANGED vars
  <2>1. UNCHANGED <<folder, q, ev, opening, faults, mailbox, history>>
    BY <1>1 DEF vars, imap, history, paging, bounds
  <2>2. Quietly
    BY <2>1, Quiet DEF SameFolder
  <2>3. KnownMail
    BY <2>1 DEF KnownMail, OldMail, mailbox, history, Whole, MailKnown
  <2> QED BY <2>1, <2>2, <2>3, NothingAsked DEF history
<1> QED BY <1>1, UserWhole, CacheWhole, ActorWhole, HandleWhole, WorldWhole DEF Next

(* It holds at the start. *)
LEMMA InitWhole == Init => Whole
<1> SUFFICES ASSUME Init PROVE Whole
  OBVIOUS
<1>1. folder = [NewFolder EXCEPT !.lastId = 1, !.pageReq = 1] /\ ev = <<>> /\ seed = {}
  BY DEF Init
<1>2. folder.rows = <<>> /\ folder.nextPage = 1 /\ ~folder.firstPage /\ folder.totalPages = None
  BY <1>1 DEF NewFolder
<1>3. ToSet(ev) = {} /\ ToSet(folder.rows) = {}
  BY <1>1, <1>2 DEF ToSet
<1>4. MailKnown
  <2>1. uidNext = OldUids + 1 /\ OldUids \in Nat /\ original = server
    BY PageAssumption DEF Init
  <2> QED BY <1>1, <2>1 DEF MailKnown
<1>5. SeedPage({}) = 1
  <2>1. Cardinality({}) = 0 /\ PageSize \in Nat \ {0}
    BY FS_EmptySet, PageAssumption
  <2>2. 0 \div PageSize = 0
    BY <2>1
  <2>3. Cardinality({}) \div PageSize = 0
    BY <2>1, <2>2
  <2> QED BY <2>3, OfTwo DEF SeedPage
<1>6. Coverage(folder)
  BY <1>1, <1>2, <1>3, <1>5 DEF Coverage
<1> QED BY <1>2, <1>3, <1>4, <1>6 DEF Whole, RepliesTell, Asks, TotalLater, Covered

(* A folder that says it is complete lists every message of the mailbox, if
   nothing happened to it and nothing failed, no stray page got in and the
   cache was close enough (OpenFolder::seed, append, is_complete). *)
THEOREM CompleteFolders == Spec => []CompleteListsAll
<1>1. Inv /\ Own /\ UpToDate /\ Whole /\ [Next]_vars => Inv' /\ Own' /\ UpToDate' /\ Whole'
  BY NextInv, NextOwn, NextCurrent, NextWhole
<1>2. Init => Inv /\ Own /\ UpToDate /\ Whole
  BY InitInv, InitOwn, InitCurrent, InitWhole
<1>3. Inv /\ Whole => CompleteListsAll
  BY CompleteIs
<1> QED BY <1>1, <1>2, <1>3, PTL DEF Spec

=============================================================================
