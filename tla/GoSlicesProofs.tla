--------------------------- MODULE GoSlicesProofs ---------------------------
(***************************************************************************)
(* What the operations on Go slices return, keep and forget, for slices of *)
(* any elements.                                                           *)
(***************************************************************************)
EXTENDS GoSlices, Integers, FiniteSetTheorems, WellFoundedInduction, TLAPS

SliceOf(E) == {s \in [cells : Seq(E), len : Nat] : s.len <= Len(s.cells)}

(* No two elements of the slice have the same identifier. *)
DistinctIds(s) == \A i, j \in 1 .. s.len : s.cells[i].id = s.cells[j].id => i = j

LEMMA SliceFacts ==
  ASSUME NEW E, NEW s \in SliceOf(E)
  PROVE  /\ s = [cells |-> s.cells, len |-> s.len]
         /\ s.cells \in Seq(E) /\ Len(s.cells) \in Nat /\ DOMAIN s.cells = 1 .. Len(s.cells)
         /\ s.len \in Nat /\ s.len <= Len(s.cells)
         /\ \A i \in 1 .. s.len : i \in 1 .. Len(s.cells) /\ s.cells[i] \in E
         /\ \A i \in 1 .. Len(s.cells) : s.cells[i] \in E
<1>1. s \in [cells : Seq(E), len : Nat] /\ s.len <= Len(s.cells)
  BY DEF SliceOf
<1>2. s.cells \in Seq(E) /\ Len(s.cells) \in Nat /\ DOMAIN s.cells = 1 .. Len(s.cells)
  BY <1>1
<1>3. \A i \in 1 .. Len(s.cells) : s.cells[i] \in E
  BY <1>2
<1> QED
  BY <1>1, <1>2, <1>3

(* The least element of a set of natural numbers. *)
LEMMA LeastOf ==
  ASSUME NEW T \in SUBSET Nat, T # {}
  PROVE  \E x \in T : \A y \in T : x <= y
<1>1. PICK x \in T : \A y \in T : <<y, x>> \notin OpToRel(<, Nat)
  BY WFMin, NatLessThanWellFounded, Zenon
<1>2. \A y \in T : ~(y < x)
  <2>1. \A y \in T : <<y, x>> \in Nat \X Nat
    OBVIOUS
  <2> QED
    BY <1>1, <2>1 DEF OpToRel
<1>3. \A y \in T : y \in Int /\ x \in Int
  OBVIOUS
<1> QED
  BY <1>2, <1>3

(* The loop over a list finds the first element with the identifier. *)
LEMMA IndexOfFirst ==
  ASSUME NEW E, NEW s \in SliceOf(E), NEW id \in IdsOf(s)
  PROVE  /\ IndexOf(s, id) \in 1 .. s.len /\ s.cells[IndexOf(s, id)].id = id
         /\ \A k \in 1 .. IndexOf(s, id) - 1 : s.cells[k].id # id
         /\ Element(s, id) \in Elements(s) /\ Element(s, id).id = id
<1> DEFINE T == {i \in 1 .. s.len : s.cells[i].id = id}
<1>1. s.len \in Nat
  BY SliceFacts
<1>2. T \in SUBSET Nat /\ T # {}
  BY <1>1 DEF IdsOf, IdSet, Elements
<1>3. PICK x \in T : \A y \in T : x <= y
  BY <1>2, LeastOf
<1>4. \A k \in 1 .. x - 1 : s.cells[k].id # id
  <2>1. ASSUME NEW k \in 1 .. x - 1, s.cells[k].id = id
        PROVE  FALSE
    <3>1. k \in T /\ k < x
      BY <1>1, <2>1
    <3> QED
      BY <1>1, <1>3, <3>1
  <2> QED
    BY <2>1
<1>5. /\ IndexOf(s, id) \in 1 .. s.len /\ s.cells[IndexOf(s, id)].id = id
      /\ \A k \in 1 .. IndexOf(s, id) - 1 : s.cells[k].id # id
  BY <1>3, <1>4 DEF IndexOf
<1> QED
  BY <1>5 DEF Element, Elements

LEMMA SetElementIn ==
  ASSUME NEW E, NEW s \in SliceOf(E), NEW i \in 1 .. s.len, NEW e \in E
  PROVE  /\ SetElement(s, i, e) \in SliceOf(E)
         /\ SetElement(s, i, e).len = s.len /\ Len(SetElement(s, i, e).cells) = Len(s.cells)
         /\ \A k \in 1 .. Len(s.cells) :
              SetElement(s, i, e).cells[k] = IF k = i THEN e ELSE s.cells[k]
<1> DEFINE d == [s.cells EXCEPT ![i] = e]
<1>1. s.cells \in Seq(E) /\ i \in 1 .. Len(s.cells) /\ s.len <= Len(s.cells) /\ s.len \in Nat
  BY SliceFacts
<1>2. d \in Seq(E) /\ Len(d) = Len(s.cells)
  BY <1>1
<1>3. \A k \in 1 .. Len(s.cells) : d[k] = IF k = i THEN e ELSE s.cells[k]
  BY <1>1
<1>4. SetElement(s, i, e) = [cells |-> d, len |-> s.len]
  BY SliceFacts DEF SetElement
<1> QED
  BY <1>1, <1>2, <1>3, <1>4 DEF SliceOf

LEMMA SetElementIds ==
  ASSUME NEW E, NEW s \in SliceOf(E), NEW i \in 1 .. s.len, NEW e \in E, e.id = s.cells[i].id
  PROVE  /\ IdsOf(SetElement(s, i, e)) = IdsOf(s)
         /\ DistinctIds(s) => DistinctIds(SetElement(s, i, e))
<1> DEFINE t == SetElement(s, i, e)
<1>1. t.len = s.len /\ s.len \in Nat /\ s.len <= Len(s.cells) /\ Len(s.cells) \in Nat
  BY SetElementIn, SliceFacts
<1>2. \A k \in 1 .. s.len : t.cells[k].id = s.cells[k].id
  BY <1>1, SetElementIn
<1> HIDE DEF t
<1>3. IdsOf(t) = IdsOf(s)
  BY <1>1, <1>2 DEF IdsOf, IdSet, Elements
<1>4. DistinctIds(s) => DistinctIds(t)
  BY <1>1, <1>2 DEF DistinctIds
<1> QED
  BY <1>3, <1>4 DEF t

LEMMA AppendedIn ==
  ASSUME NEW E, NEW s \in SliceOf(E), NEW e \in E
  PROVE  /\ Appended(s, e) \in SliceOf(E)
         /\ Appended(s, e).len = s.len + 1 /\ Len(Appended(s, e).cells) >= Len(s.cells)
         /\ \A k \in 1 .. s.len : Appended(s, e).cells[k] = s.cells[k]
         /\ Appended(s, e).cells[s.len + 1] = e
<1> DEFINE n == s.len
           m == Len(s.cells)
           a == SubSeq(s.cells, 1, n)
           b == SubSeq(s.cells, n + 2, m)
           d == a \o <<e>> \o b
<1>1. s.cells \in Seq(E) /\ m \in Nat /\ n \in Nat /\ n <= m
      /\ \A i \in 1 .. m : s.cells[i] \in E
  BY SliceFacts
<1>2. a \in Seq(E) /\ Len(a) = n /\ \A k \in 1 .. n : a[k] = s.cells[k]
  BY <1>1
<1>3. b \in Seq(E) /\ Len(b) = IF n + 2 <= m THEN m - n - 1 ELSE 0
  BY <1>1
<1> HIDE DEF a, b, n, m
<1>4. a \o <<e>> \in Seq(E) /\ Len(a \o <<e>>) = n + 1
      /\ (\A k \in 1 .. n : (a \o <<e>>)[k] = a[k]) /\ (a \o <<e>>)[n + 1] = e
  BY <1>1, <1>2
<1> DEFINE c == a \o <<e>>
<1>5. d = c \o b
  OBVIOUS
<1> HIDE DEF c
<1>6. /\ c \o b \in Seq(E) /\ Len(c \o b) = n + 1 + Len(b)
      /\ \A k \in 1 .. n + 1 : (c \o b)[k] = c[k]
  <2>1. c \in Seq(E) /\ Len(c) = n + 1 /\ b \in Seq(E)
    BY <1>1, <1>3, <1>4 DEF c
  <2>2. /\ c \o b \in Seq(E) /\ Len(c \o b) = Len(c) + Len(b)
        /\ \A k \in 1 .. Len(c) : (c \o b)[k] = c[k]
    BY <2>1
  <2> QED
    BY <2>1, <2>2
<1>7. d \in Seq(E) /\ Len(d) = n + 1 + Len(b) /\ \A k \in 1 .. n + 1 : d[k] = c[k]
  BY <1>5, <1>6
<1>8. Appended(s, e) = [cells |-> d, len |-> n + 1]
  BY DEF Appended, n, m, a, b
<1> HIDE DEF d
<1>9. Len(d) >= m /\ Len(d) >= n + 1 /\ \A k \in 1 .. n : k \in 1 .. n + 1
  BY <1>1, <1>3, <1>7
<1>10. Appended(s, e).cells = d /\ Appended(s, e).len = n + 1
  BY <1>8
<1>11. (\A k \in 1 .. n : d[k] = s.cells[k]) /\ d[n + 1] = e
  <2>1. \A k \in 1 .. n : c[k] = s.cells[k]
    BY <1>2, <1>4 DEF c
  <2>2. c[n + 1] = e /\ n + 1 \in 1 .. n + 1
    BY <1>1, <1>4 DEF c
  <2> QED
    BY <1>7, <1>9, <2>1, <2>2
<1>12. Appended(s, e) \in SliceOf(E)
  BY <1>1, <1>7, <1>8, <1>9 DEF SliceOf
<1> QED
  BY <1>9, <1>10, <1>11, <1>12 DEF n, m

LEMMA AppendedIds ==
  ASSUME NEW E, NEW s \in SliceOf(E), NEW e \in E
  PROVE  /\ IdsOf(Appended(s, e)) = IdsOf(s) \cup {e.id}
         /\ DistinctIds(s) /\ e.id \notin IdsOf(s) => DistinctIds(Appended(s, e))
<1> DEFINE t == Appended(s, e)
<1>1. /\ t.len = s.len + 1 /\ s.len \in Nat
      /\ (\A k \in 1 .. s.len : t.cells[k] = s.cells[k]) /\ t.cells[s.len + 1] = e
  BY AppendedIn, SliceFacts
<1> HIDE DEF t
<1>2. \A k \in 1 .. t.len : k \in 1 .. s.len \/ k = s.len + 1
  BY <1>1
<1>3. IdsOf(t) = IdsOf(s) \cup {e.id}
  <2>1. \A x \in IdsOf(t) : x \in IdsOf(s) \cup {e.id}
    BY <1>1, <1>2 DEF IdsOf, IdSet, Elements
  <2>2. \A x \in IdsOf(s) : x \in IdsOf(t)
    BY <1>1 DEF IdsOf, IdSet, Elements
  <2>3. e.id \in IdsOf(t)
    BY <1>1 DEF IdsOf, IdSet, Elements
  <2> QED
    BY <2>1, <2>2, <2>3
<1>4. ASSUME DistinctIds(s), e.id \notin IdsOf(s)
      PROVE  DistinctIds(t)
  <2>1. \A k \in 1 .. s.len : s.cells[k].id # e.id
    BY <1>4 DEF IdsOf, IdSet, Elements
  <2> SUFFICES ASSUME NEW i \in 1 .. t.len, NEW j \in 1 .. t.len, t.cells[i].id = t.cells[j].id
               PROVE  i = j
    BY DEF DistinctIds
  <2> QED
    BY <1>1, <1>2, <1>4, <2>1 DEF DistinctIds
<1> QED
  BY <1>3, <1>4 DEF t

LEMMA RemoveIn ==
  ASSUME NEW E, NEW s \in SliceOf(E), NEW i \in 1 .. s.len
  PROVE  /\ Remove(s, i) \in SliceOf(E)
         /\ Remove(s, i).len = s.len - 1 /\ Len(Remove(s, i).cells) = Len(s.cells)
         /\ \A k \in 1 .. s.len - 1 :
              Remove(s, i).cells[k] = IF k < i THEN s.cells[k] ELSE s.cells[k + 1]
<1> DEFINE d == [k \in DOMAIN s.cells |->
                   IF i <= k /\ k < s.len THEN s.cells[k + 1] ELSE s.cells[k]]
<1>1. /\ s.cells \in Seq(E) /\ Len(s.cells) \in Nat /\ DOMAIN s.cells = 1 .. Len(s.cells)
      /\ s.len \in Nat /\ s.len <= Len(s.cells) /\ s.len >= 1
      /\ \A k \in 1 .. Len(s.cells) : s.cells[k] \in E
  BY SliceFacts
<1>2. \A k \in 1 .. Len(s.cells) : d[k] \in E
  BY <1>1
<1>3. d \in Seq(E) /\ Len(d) = Len(s.cells)
  <2>1. d \in [1 .. Len(s.cells) -> E]
    BY <1>1, <1>2
  <2> HIDE DEF d
  <2> QED
    BY <1>1, <2>1
<1>4. \A k \in 1 .. s.len - 1 : d[k] = IF k < i THEN s.cells[k] ELSE s.cells[k + 1]
  BY <1>1
<1>5. Remove(s, i) = [cells |-> d, len |-> s.len - 1]
  BY DEF Remove
<1> HIDE DEF d
<1> QED
  BY <1>1, <1>3, <1>4, <1>5 DEF SliceOf

LEMMA RemoveIds ==
  ASSUME NEW E, NEW s \in SliceOf(E), NEW i \in 1 .. s.len
  PROVE  /\ IdsOf(Remove(s, i)) \subseteq IdsOf(s)
         /\ IdsOf(s) \ {s.cells[i].id} \subseteq IdsOf(Remove(s, i))
         /\ DistinctIds(s) => /\ DistinctIds(Remove(s, i))
                              /\ s.cells[i].id \notin IdsOf(Remove(s, i))
<1> DEFINE t == Remove(s, i)
<1>1. /\ t.len = s.len - 1 /\ s.len \in Nat
      /\ \A k \in 1 .. s.len - 1 : t.cells[k] = IF k < i THEN s.cells[k] ELSE s.cells[k + 1]
  BY RemoveIn, SliceFacts
<1> HIDE DEF t
<1>2. ASSUME NEW k \in 1 .. t.len
      PROVE  \E m \in 1 .. s.len : m # i /\ t.cells[k] = s.cells[m] /\ m = IF k < i THEN k ELSE k + 1
  BY <1>1
<1>3. ASSUME NEW m \in 1 .. s.len, m # i
      PROVE  \E k \in 1 .. t.len : t.cells[k] = s.cells[m]
  <2>1. CASE m < i
    BY <1>1, <2>1
  <2>2. CASE m > i
    <3>1. m - 1 \in 1 .. t.len /\ t.cells[m - 1] = s.cells[m]
      BY <1>1, <2>2
    <3> QED
      BY <3>1
  <2> QED
    BY <1>1, <1>3, <2>1, <2>2
<1>4. IdsOf(t) \subseteq IdsOf(s)
  BY <1>2 DEF IdsOf, IdSet, Elements
<1>5. IdsOf(s) \ {s.cells[i].id} \subseteq IdsOf(t)
  <2> SUFFICES ASSUME NEW x \in IdsOf(s), x # s.cells[i].id PROVE x \in IdsOf(t)
    OBVIOUS
  <2>1. PICK m \in 1 .. s.len : s.cells[m].id = x
    BY DEF IdsOf, IdSet, Elements
  <2>2. PICK k \in 1 .. t.len : t.cells[k] = s.cells[m]
    BY <1>3, <2>1
  <2> QED
    BY <2>1, <2>2 DEF IdsOf, IdSet, Elements
<1>6. ASSUME DistinctIds(s)
      PROVE  DistinctIds(t) /\ s.cells[i].id \notin IdsOf(t)
  <2>1. s.cells[i].id \notin IdsOf(t)
    BY <1>2, <1>6 DEF IdsOf, IdSet, Elements, DistinctIds
  <2>2. ASSUME NEW k \in 1 .. t.len, NEW l \in 1 .. t.len, t.cells[k].id = t.cells[l].id
        PROVE  k = l
    <3>1. PICK x \in 1 .. s.len : t.cells[k] = s.cells[x] /\ x = IF k < i THEN k ELSE k + 1
      BY <1>2
    <3>2. PICK y \in 1 .. s.len : t.cells[l] = s.cells[y] /\ y = IF l < i THEN l ELSE l + 1
      BY <1>2
    <3>3. x = y
      BY <1>6, <2>2, <3>1, <3>2 DEF DistinctIds
    <3> QED
      BY <1>1, <3>1, <3>2, <3>3
  <2> QED
    BY <2>1, <2>2 DEF DistinctIds
<1> QED
  BY <1>4, <1>5, <1>6 DEF t

(* A slice written to a file and read again has the same elements. *)
LEMMA ListedIn ==
  ASSUME NEW E, NEW s \in SliceOf(E)
  PROVE  Listed(s) \in Seq(E) /\ IdsOf(Slice(Listed(s))) = IdsOf(s)
<1> DEFINE q == Listed(s)
<1>1. s.cells \in Seq(E) /\ s.len \in Nat /\ s.len <= Len(s.cells)
  BY SliceFacts
<1>2. q \in Seq(E) /\ Len(q) = s.len /\ \A k \in 1 .. s.len : q[k] = s.cells[k]
  BY <1>1 DEF Listed
<1> HIDE DEF q
<1>3. IdsOf(Slice(q)) = IdsOf(s)
  BY <1>2 DEF Slice, IdsOf, IdSet, Elements
<1> QED
  BY <1>2, <1>3 DEF q

LEMMA SliceIn ==
  ASSUME NEW E, NEW q \in Seq(E)
  PROVE  Slice(q) \in SliceOf(E)
  BY DEF Slice, SliceOf


-----------------------------------------------------------------------------
(* Counting and selecting *)

(* A list that holds no identifier twice has as many as elements. *)
LEMMA DistinctIdsCount ==
  ASSUME NEW E, NEW s \in SliceOf(E), DistinctIds(s)
  PROVE  Cardinality(IdsOf(s)) = s.len
<1> DEFINE f == [i \in 1 .. s.len |-> s.cells[i].id]
<1>1. s.len \in Nat
  BY SliceFacts
<1>2. IsFiniteSet(1 .. s.len) /\ Cardinality(1 .. s.len) = s.len
  <2>1. PICK n \in Nat : n = s.len
    BY <1>1
  <2>2. IsFiniteSet(1 .. n) /\ Cardinality(1 .. n) = IF 1 > n THEN 0 ELSE n - 1 + 1
    BY FS_Interval
  <2>3. IsFiniteSet(1 .. n) /\ Cardinality(1 .. n) = n
    BY <2>2
  <2> QED
    BY <2>1, <2>3
<1>3. IdsOf(s) = {s.cells[i].id : i \in 1 .. s.len}
  BY DEF IdsOf, IdSet, Elements
<1>a. f \in [1 .. s.len -> IdsOf(s)] /\ \A i \in 1 .. s.len : f[i] = s.cells[i].id
  BY <1>3
<1> HIDE DEF f
<1>b. f \in Injection(1 .. s.len, IdsOf(s))
  BY <1>a DEF DistinctIds, Injection, IsInjective
<1>c. f \in Surjection(1 .. s.len, IdsOf(s))
  BY <1>3, <1>a DEF Surjection
<1>4. f \in Bijection(1 .. s.len, IdsOf(s))
  BY <1>b, <1>c DEF Bijection
<1>5. ExistsBijection(1 .. s.len, IdsOf(s))
  BY <1>4, Zenon DEF ExistsBijection
<1> QED
  BY <1>2, <1>5, FS_Bijection

(* Every place in a finite set of numbers is taken. *)
LEMMA PlacesTaken ==
  ASSUME NEW I \in SUBSET Nat, IsFiniteSet(I)
  PROVE  /\ Cardinality(I) \in Nat
         /\ \A k \in 1 .. Cardinality(I) :
              \E i \in I : Cardinality({j \in I : j < i}) = k - 1
<1> DEFINE Below(i) == {j \in I : j < i}
           n == Cardinality(I)
           T == {m \in Nat : m < n}
           f == [i \in I |-> Cardinality(Below(i))]
<1>1. n \in Nat
  BY FS_CardinalityType
<1>2. ASSUME NEW i \in I
      PROVE  /\ IsFiniteSet(Below(i)) /\ Cardinality(Below(i)) \in Nat
             /\ Cardinality(Below(i)) < n
  <2>1. Below(i) \in SUBSET I /\ i \notin Below(i) /\ i \in Nat
    OBVIOUS
  <2>2. IsFiniteSet(Below(i)) /\ Cardinality(Below(i)) <= n
        /\ (n = Cardinality(Below(i)) => I = Below(i))
    BY <2>1, FS_Subset
  <2>3. Cardinality(Below(i)) \in Nat
    BY <2>2, FS_CardinalityType
  <2> QED
    BY <1>1, <2>1, <2>2, <2>3
<1>3. ASSUME NEW i \in I, NEW j \in I, i < j
      PROVE  Cardinality(Below(i)) < Cardinality(Below(j))
  <2>1. Below(i) \in SUBSET Below(j) /\ i \in Below(j) /\ i \notin Below(i)
    <3>1. i \in Int /\ j \in Int /\ \A k \in I : k \in Int
      OBVIOUS
    <3>2. \A k \in Below(i) : k \in I /\ k < j
      BY <1>3, <3>1
    <3>3. ~(i < i)
      BY <3>1
    <3> QED
      BY <1>3, <3>2, <3>3
  <2>2. Cardinality(Below(i)) <= Cardinality(Below(j))
        /\ (Cardinality(Below(j)) = Cardinality(Below(i)) => Below(j) = Below(i))
    BY <1>2, <2>1, FS_Subset
  <2>3. Below(j) # Below(i)
    BY <2>1
  <2> QED
    BY <1>2, <2>2, <2>3
<1>4. T = 0 .. n - 1
  BY <1>1
<1>5. IsFiniteSet(T) /\ Cardinality(T) = n
  <2>1. IsFiniteSet(0 .. n - 1) /\ Cardinality(0 .. n - 1) = IF 0 > n - 1 THEN 0 ELSE n - 1 - 0 + 1
    BY <1>1, FS_Interval
  <2>2. n > 0 => Cardinality(0 .. n - 1) = n
    BY <1>1, <2>1
  <2>3. n = 0 => Cardinality(0 .. n - 1) = n
    BY <1>1, <2>1
  <2> HIDE DEF T, n
  <2> QED
    BY <1>1, <1>4, <2>1, <2>2, <2>3
<1>6. f \in Injection(I, T)
  <2>1. f \in [I -> T]
    BY <1>2
  <2>2. ASSUME NEW i \in I, NEW j \in I, i # j
        PROVE  f[i] # f[j]
    <3>1. i \in Int /\ j \in Int /\ (i < j \/ j < i)
      BY <2>2
    <3>2. f[i] \in Int /\ f[j] \in Int
      BY <1>2
    <3>3. f[i] < f[j] \/ f[j] < f[i]
      BY <1>3, <3>1
    <3> QED
      BY <3>2, <3>3
  <2> HIDE DEF f, T
  <2> QED
    BY <2>1, <2>2 DEF Injection, IsInjective
<1>7. f \in Surjection(I, T)
  BY <1>5, <1>6, FS_Injection
<1>8. ASSUME NEW k \in 1 .. n
      PROVE  \E i \in I : Cardinality(Below(i)) = k - 1
  <2>1. k - 1 \in T
    BY <1>1
  <2> QED
    BY <1>7, <2>1 DEF Surjection
<1> QED
  BY <1>1, <1>8

(* Selecting keeps the elements selected and doubles none. *)
LEMMA SelectedIn ==
  ASSUME NEW E, NEW s \in SliceOf(E), NEW I \in SUBSET (1 .. s.len)
  PROVE  /\ Selected(s, I) \in Seq(E) /\ Slice(Selected(s, I)) \in SliceOf(E)
         /\ Elements(Slice(Selected(s, I))) \subseteq Elements(s)
         /\ IdsOf(Slice(Selected(s, I))) \subseteq IdsOf(s)
         /\ DistinctIds(s) => DistinctIds(Slice(Selected(s, I)))
<1> DEFINE Place(i) == Cardinality({j \in I : j < i})
           At(k) == CHOOSE i \in I : Place(i) = k - 1
           q == Selected(s, I)
           n == Cardinality(I)
<1>1. s.len \in Nat /\ \A i \in 1 .. s.len : s.cells[i] \in E
  BY SliceFacts
<1>2. I \in SUBSET Nat /\ IsFiniteSet(I)
  <2>1. IsFiniteSet(1 .. s.len)
    BY <1>1, FS_Interval
  <2>2. I \in SUBSET Nat
    OBVIOUS
  <2> QED
    BY <2>1, <2>2, FS_Subset
<1>3. n \in Nat /\ \A k \in 1 .. n : \E i \in I : Place(i) = k - 1
  BY <1>2, PlacesTaken
<1> HIDE DEF Place
<1>4. \A k \in 1 .. n : At(k) \in I /\ Place(At(k)) = k - 1
  BY <1>3
<1> HIDE DEF n
<1>5. q = [k \in 1 .. n |-> s.cells[At(k)]]
  BY DEF Selected, Place, n
<1> HIDE DEF At, q
<1>6. \A k \in 1 .. n : q[k] = s.cells[At(k)] /\ At(k) \in 1 .. s.len
  BY <1>4, <1>5
<1>7. q \in Seq(E) /\ Len(q) = n
  BY <1>1, <1>3, <1>5, <1>6
<1>8. Slice(q) \in SliceOf(E) /\ Slice(q).cells = q /\ Slice(q).len = n
  BY <1>7, SliceIn DEF Slice
<1>9. Elements(Slice(q)) \subseteq Elements(s)
  BY <1>6, <1>8 DEF Elements
<1>10. IdsOf(Slice(q)) \subseteq IdsOf(s)
  BY <1>9 DEF IdsOf, IdSet
<1>11. ASSUME DistinctIds(s)
       PROVE  DistinctIds(Slice(q))
  <2>1. ASSUME NEW k \in 1 .. n, NEW m \in 1 .. n, q[k].id = q[m].id
        PROVE  k = m
    <3>1. At(k) = At(m)
      BY <1>6, <1>11, <2>1 DEF DistinctIds
    <3>2. k - 1 = m - 1
      BY <1>4, <3>1
    <3> QED
      BY <1>3, <3>2
  <2> QED
    BY <1>8, <2>1 DEF DistinctIds
<1> QED
  BY <1>7, <1>8, <1>9, <1>10, <1>11 DEF q


-----------------------------------------------------------------------------
(* The elements of a list that holds no identifier twice *)

LEMMA SetElementElements ==
  ASSUME NEW E, NEW s \in SliceOf(E), DistinctIds(s), NEW i \in 1 .. s.len, NEW e \in E,
         e.id = s.cells[i].id
  PROVE  Elements(SetElement(s, i, e)) = {e} \cup {x \in Elements(s) : x.id # e.id}
<1> DEFINE t == SetElement(s, i, e)
<1>1. /\ t.len = s.len
      /\ \A k \in 1 .. s.len : t.cells[k] = IF k = i THEN e ELSE s.cells[k]
  <2>1. /\ t.len = s.len
        /\ \A k \in 1 .. Len(s.cells) : t.cells[k] = IF k = i THEN e ELSE s.cells[k]
    BY SetElementIn
  <2> HIDE DEF t
  <2> QED
    BY <2>1, SliceFacts
<1> HIDE DEF t
<1>2. \A k \in 1 .. s.len : s.cells[k].id = e.id => k = i
  BY DEF DistinctIds
<1>3. ASSUME NEW k \in 1 .. t.len
      PROVE  t.cells[k] = e \/ (t.cells[k] \in Elements(s) /\ t.cells[k].id # e.id)
  BY <1>1, <1>2 DEF Elements
<1>4. e \in Elements(t)
  BY <1>1 DEF Elements
<1>5. ASSUME NEW x \in Elements(s), x.id # e.id
      PROVE  x \in Elements(t)
  <2>1. PICK k \in 1 .. s.len : x = s.cells[k]
    BY DEF Elements
  <2>2. k # i /\ t.cells[k] = x
    BY <1>1, <1>5, <2>1
  <2> QED
    BY <1>1, <2>2 DEF Elements
<1>6. \A x \in Elements(t) : x = e \/ (x \in Elements(s) /\ x.id # e.id)
  BY <1>3 DEF Elements
<1> QED
  BY <1>4, <1>5, <1>6 DEF t

LEMMA AppendedElements ==
  ASSUME NEW E, NEW s \in SliceOf(E), NEW e \in E
  PROVE  Elements(Appended(s, e)) = Elements(s) \cup {e}
<1> DEFINE t == Appended(s, e)
<1>1. /\ t.len = s.len + 1 /\ s.len \in Nat
      /\ (\A k \in 1 .. s.len : t.cells[k] = s.cells[k]) /\ t.cells[s.len + 1] = e
  BY AppendedIn, SliceFacts
<1> HIDE DEF t
<1>2. /\ \A k \in 1 .. t.len : k \in 1 .. s.len \/ k = s.len + 1
      /\ \A k \in 1 .. s.len : k \in 1 .. t.len
      /\ s.len + 1 \in 1 .. t.len
  BY <1>1
<1>3. \A x \in Elements(t) : x \in Elements(s) \cup {e}
  BY <1>1, <1>2 DEF Elements
<1>4. \A x \in Elements(s) \cup {e} : x \in Elements(t)
  BY <1>1, <1>2 DEF Elements
<1> QED
  BY <1>3, <1>4 DEF t

LEMMA RemoveElements ==
  ASSUME NEW E, NEW s \in SliceOf(E), DistinctIds(s), NEW i \in 1 .. s.len
  PROVE  Elements(Remove(s, i)) = {x \in Elements(s) : x.id # s.cells[i].id}
<1> DEFINE t == Remove(s, i)
<1>1. /\ t.len = s.len - 1 /\ s.len \in Nat
      /\ \A k \in 1 .. s.len - 1 : t.cells[k] = IF k < i THEN s.cells[k] ELSE s.cells[k + 1]
  BY RemoveIn, SliceFacts
<1> HIDE DEF t
<1>2. ASSUME NEW k \in 1 .. t.len
      PROVE  \E m \in 1 .. s.len : m # i /\ t.cells[k] = s.cells[m]
  <2>1. CASE k < i
    BY <1>1, <2>1
  <2>2. CASE ~(k < i)
    <3>1. k + 1 \in 1 .. s.len /\ k + 1 # i /\ t.cells[k] = s.cells[k + 1]
      BY <1>1, <2>2
    <3> QED
      BY <3>1
  <2> QED
    BY <2>1, <2>2
<1>3. ASSUME NEW m \in 1 .. s.len, m # i
      PROVE  \E k \in 1 .. t.len : t.cells[k] = s.cells[m]
  <2>1. CASE m < i
    BY <1>1, <2>1
  <2>2. CASE m > i
    <3>1. m - 1 \in 1 .. t.len /\ t.cells[m - 1] = s.cells[m]
      BY <1>1, <2>2
    <3> QED
      BY <3>1
  <2> QED
    BY <1>1, <1>3, <2>1, <2>2
<1>4. \A x \in Elements(t) : x \in Elements(s) /\ x.id # s.cells[i].id
  BY <1>2 DEF Elements, DistinctIds
<1>5. \A x \in Elements(s) : x.id # s.cells[i].id => x \in Elements(t)
  BY <1>3 DEF Elements
<1> QED
  BY <1>4, <1>5 DEF t

LEMMA SelectedElements ==
  ASSUME NEW E, NEW s \in SliceOf(E), NEW I \in SUBSET (1 .. s.len)
  PROVE  Elements(Slice(Selected(s, I))) = {s.cells[i] : i \in I}
<1> DEFINE Place(i) == Cardinality({j \in I : j < i})
           At(k) == CHOOSE i \in I : Place(i) = k - 1
           q == Selected(s, I)
           n == Cardinality(I)
<1>1. s.len \in Nat
  BY SliceFacts
<1>2. I \in SUBSET Nat /\ IsFiniteSet(I)
  <2>1. IsFiniteSet(1 .. s.len)
    BY <1>1, FS_Interval
  <2>2. I \in SUBSET Nat
    OBVIOUS
  <2> QED
    BY <2>1, <2>2, FS_Subset
<1>3. n \in Nat /\ \A k \in 1 .. n : \E i \in I : Place(i) = k - 1
  BY <1>2, PlacesTaken
<1>4. ASSUME NEW i \in I
      PROVE  Place(i) \in Nat /\ Place(i) < n
  <2>1. {j \in I : j < i} \in SUBSET I /\ i \notin {j \in I : j < i}
    BY <1>2
  <2>2. /\ IsFiniteSet({j \in I : j < i}) /\ Place(i) <= n
        /\ (n = Place(i) => I = {j \in I : j < i})
    BY <1>2, <2>1, FS_Subset
  <2>3. Place(i) \in Nat
    BY <2>2, FS_CardinalityType
  <2> QED
    BY <1>3, <2>1, <2>2, <2>3
<1>5. ASSUME NEW i \in I, NEW j \in I, i < j
      PROVE  Place(i) < Place(j)
  <2> DEFINE A == {k \in I : k < i}
             B == {k \in I : k < j}
  <2>1. A \in SUBSET B /\ i \in B /\ i \notin A
    <3>1. i \in Int /\ j \in Int /\ \A k \in I : k \in Int
      BY <1>2
    <3>2. (\A k \in A : k \in I /\ k < j) /\ ~(i < i)
      BY <1>5, <3>1
    <3> QED
      BY <1>5, <3>2
  <2>2. IsFiniteSet(B)
    BY <1>2, FS_Subset
  <2> HIDE DEF A, B
  <2>3. Cardinality(A) <= Cardinality(B) /\ (Cardinality(B) = Cardinality(A) => B = A)
    BY <2>1, <2>2, FS_Subset
  <2>4. Cardinality(A) \in Nat /\ Cardinality(B) \in Nat
    BY <1>4 DEF A, B
  <2>5. Cardinality(A) < Cardinality(B)
    BY <2>1, <2>3, <2>4
  <2> QED
    BY <2>5 DEF A, B
<1> HIDE DEF Place
<1>6. \A k \in 1 .. n : At(k) \in I /\ Place(At(k)) = k - 1
  BY <1>3
<1> HIDE DEF At
<1>7. ASSUME NEW i \in I
      PROVE  Place(i) + 1 \in 1 .. n /\ At(Place(i) + 1) = i
  <2>1. PICK k \in 1 .. n : k = Place(i) + 1
    BY <1>3, <1>4
  <2>2. PICK j \in I : j = At(k) /\ Place(j) = k - 1
    BY <1>6
  <2>3. Place(j) = Place(i)
    BY <1>4, <2>1, <2>2
  <2>4. ~(i < j) /\ ~(j < i) /\ i \in Nat /\ j \in Nat
    BY <1>2, <1>4, <1>5, <2>3
  <2>5. i = j
    BY <2>4
  <2> QED
    BY <2>1, <2>2, <2>5
<1> HIDE DEF n
<1>8. q = [k \in 1 .. n |-> s.cells[At(k)]]
  BY DEF Selected, At, Place, n
<1> HIDE DEF q
<1>9. q \in [1 .. n -> {s.cells[i] : i \in I}]
  BY <1>6, <1>8
<1>10. Len(q) = n
  <2>1. PICK S : S = {s.cells[i] : i \in I}
    OBVIOUS
  <2>2. \A k \in 1 .. n : s.cells[At(k)] \in S
    BY <1>6, <2>1
  <2>3. q \in Seq(S) /\ Len(q) = n
    BY <1>3, <1>8, <2>2
  <2> QED
    BY <2>3
<1>11. Elements(Slice(q)) = {q[k] : k \in 1 .. n}
  BY <1>10 DEF Elements, Slice
<1>12. \A i \in I : s.cells[i] \in {q[k] : k \in 1 .. n}
  BY <1>7, <1>8
<1>13. \A k \in 1 .. n : q[k] \in {s.cells[i] : i \in I}
  BY <1>9
<1> QED
  BY <1>11, <1>12, <1>13 DEF q

=============================================================================
