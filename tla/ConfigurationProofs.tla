------------------------ MODULE ConfigurationProofs ------------------------
(***************************************************************************)
(* Theorems about Configuration and the operators it is built from: the    *)
(* order of services, the certificate of a handshake, and the requests     *)
(* about users, for every number of goroutines, services and users, every  *)
(* list of routes, and every file the program may find.                    *)
(***************************************************************************)
EXTENDS Configuration, FiniteSetTheorems, TLAPS

(* The order of services. *)

(* Comparing by three keys. *)
LEMMA ThreeKeys ==
  ASSUME NEW a \in Int, NEW b \in Int, NEW c \in Int, NEW x \in Int, NEW y \in Int, NEW z \in Int
  PROVE  Lexicographic(<<a, b, c>>, <<x, y, z>>)
           <=> (a < x \/ (a = x /\ b < y) \/ (a = x /\ b = y /\ c < z))
<1> DEFINE ks == <<a, b, c>>
           ls == <<x, y, z>>
           Differ(k) == ks[k] < ls[k] /\ \A m \in 1 .. k - 1 : ks[m] = ls[m]
<1>1. DOMAIN ks = {1, 2, 3}
  OBVIOUS
<1>2. /\ ks[1] = a /\ ks[2] = b /\ ks[3] = c
      /\ ls[1] = x /\ ls[2] = y /\ ls[3] = z
  OBVIOUS
<1> HIDE DEF ks, ls
<1>3. 1 .. 1 - 1 = {} /\ 1 .. 2 - 1 = {1} /\ 1 .. 3 - 1 = {1, 2}
  OBVIOUS
<1>4. /\ Differ(1) <=> a < x
      /\ Differ(2) <=> a = x /\ b < y
      /\ Differ(3) <=> a = x /\ b = y /\ c < z
  BY <1>2, <1>3
<1>5. Lexicographic(ks, ls) <=> Differ(1) \/ Differ(2) \/ Differ(3)
  BY <1>1 DEF Lexicographic
<1> QED
  BY <1>4, <1>5 DEF ks, ls

(* Comparing by five keys, of which the second are equal. *)
LEMMA FiveKeys ==
  ASSUME NEW ks, DOMAIN ks = 1 .. 5, NEW ls, ks[2] = ls[2], ~(ks[2] < ls[2])
  PROVE  Lexicographic(ks, ls)
           <=> \/ ks[1] < ls[1]
               \/ ks[1] = ls[1] /\ ks[3] < ls[3]
               \/ ks[1] = ls[1] /\ ks[3] = ls[3] /\ ks[4] < ls[4]
               \/ ks[1] = ls[1] /\ ks[3] = ls[3] /\ ks[4] = ls[4] /\ ks[5] < ls[5]
<1> DEFINE Differ(k) == ks[k] < ls[k] /\ \A m \in 1 .. k - 1 : ks[m] = ls[m]
<1>1. DOMAIN ks = {1, 2, 3, 4, 5}
  OBVIOUS
<1>2. /\ 1 .. 1 - 1 = {} /\ 1 .. 2 - 1 = {1} /\ 1 .. 3 - 1 = {1, 2}
      /\ 1 .. 4 - 1 = {1, 2, 3} /\ 1 .. 5 - 1 = {1, 2, 3, 4}
  OBVIOUS
<1>3. /\ Differ(1) <=> ks[1] < ls[1]
      /\ Differ(2) <=> FALSE
      /\ Differ(3) <=> ks[1] = ls[1] /\ ks[3] < ls[3]
      /\ Differ(4) <=> ks[1] = ls[1] /\ ks[3] = ls[3] /\ ks[4] < ls[4]
      /\ Differ(5) <=> ks[1] = ls[1] /\ ks[3] = ls[3] /\ ks[4] = ls[4] /\ ks[5] < ls[5]
  BY <1>2
<1>4. Lexicographic(ks, ls)
        <=> Differ(1) \/ Differ(2) \/ Differ(3) \/ Differ(4) \/ Differ(5)
  BY <1>1 DEF Lexicographic
<1> QED
  BY <1>3, <1>4

(* What sort.SliceStable compares. *)
Before(list, i, j) == Lexicographic(SortKey(list, i), SortKey(list, j))

(* The sort of a port's services is a strict total order. *)
LEMMA SortIsTotal ==
  ASSUME NEW list, NEW P \in SUBSET Int, \A i \in P : list[i].order \in Int
  PROVE  /\ \A i, j \in P : i # j => Before(list, i, j) \/ Before(list, j, i)
         /\ \A i \in P : ~Before(list, i, i)
         /\ \A i, j, k \in P :
              Before(list, i, j) /\ Before(list, j, k) => Before(list, i, k)
<1> DEFINE First(i) == IF IsDefault(list[i]) THEN 1 ELSE 0
           Second(i) == IF list[i].order > 0 THEN list[i].order ELSE Unnumbered + i
<1>1. ASSUME NEW i \in P
      PROVE  First(i) \in Int /\ Second(i) \in Int
  <2>1. First(i) \in Int
    OBVIOUS
  <2>2. list[i].order \in Int /\ i \in Int
    OBVIOUS
  <2>3. Second(i) \in Int
    BY <2>2 DEF Unnumbered
  <2> QED
    BY <2>1, <2>3
<1>2. \A i \in P : SortKey(list, i) = <<First(i), Second(i), i>>
  BY DEF SortKey
<1> HIDE DEF First, Second
<1>3. \A i, j \in P : Before(list, i, j) <=>
                       \/ First(i) < First(j)
                       \/ First(i) = First(j) /\ Second(i) < Second(j)
                       \/ First(i) = First(j) /\ Second(i) = Second(j) /\ i < j
  BY <1>1, <1>2, ThreeKeys DEF Before
<1>4. ASSUME NEW i \in P, NEW j \in P, i # j
      PROVE  Before(list, i, j) \/ Before(list, j, i)
  <2>1. /\ First(i) \in Int /\ First(j) \in Int /\ Second(i) \in Int /\ Second(j) \in Int
        /\ i \in Int /\ j \in Int
    BY <1>1
  <2>2. \/ First(i) < First(j) \/ First(j) < First(i)
        \/ First(i) = First(j) /\ (Second(i) < Second(j) \/ Second(j) < Second(i))
        \/ First(i) = First(j) /\ Second(i) = Second(j) /\ (i < j \/ j < i)
    BY <1>4, <2>1
  <2> QED
    BY <1>3, <2>2
<1>5. ASSUME NEW i \in P
      PROVE  ~Before(list, i, i)
  <2>1. First(i) \in Int /\ Second(i) \in Int /\ i \in Int
    BY <1>1
  <2>2. ~(First(i) < First(i)) /\ ~(Second(i) < Second(i)) /\ ~(i < i)
    BY <2>1
  <2> QED
    BY <1>3, <2>2
<1>6. ASSUME NEW i \in P, NEW j \in P, NEW k \in P,
             Before(list, i, j), Before(list, j, k)
      PROVE  Before(list, i, k)
  <2>1. /\ First(i) \in Int /\ First(j) \in Int /\ First(k) \in Int
        /\ Second(i) \in Int /\ Second(j) \in Int /\ Second(k) \in Int
        /\ i \in Int /\ j \in Int /\ k \in Int
    BY <1>1
  <2>2. /\ \/ First(i) < First(j)
           \/ First(i) = First(j) /\ Second(i) < Second(j)
           \/ First(i) = First(j) /\ Second(i) = Second(j) /\ i < j
        /\ \/ First(j) < First(k)
           \/ First(j) = First(k) /\ Second(j) < Second(k)
           \/ First(j) = First(k) /\ Second(j) = Second(k) /\ j < k
    BY <1>3, <1>6
  <2>3. \/ First(i) < First(k)
        \/ First(i) = First(k) /\ Second(i) < Second(k)
        \/ First(i) = First(k) /\ Second(i) = Second(k) /\ i < k
    BY <2>1, <2>2
  <2> QED
    BY <1>3, <2>3
<1> QED
  BY <1>4, <1>5, <1>6

StrictTotalOrder(P, R) ==
  /\ \A i, j \in P : i # j => <<i, j>> \in R \/ <<j, i>> \in R
  /\ \A i \in P : <<i, i>> \notin R
  /\ \A i, j, k \in P : <<i, j>> \in R /\ <<j, k>> \in R => <<i, k>> \in R

(* Those that come before i, by the pairs of R, and its place. *)
Preceding(P, R, i) == {j \in P : <<j, i>> \in R}
CountsPlaces(P, R, place) == \A i \in P : place[i] = 1 + Cardinality(Preceding(P, R, i))

(* A numbering from 1 without gaps or ties, in the order of R. *)
Numbers(P, R, place) ==
  /\ Cardinality(P) \in Nat
  /\ \A i \in P : place[i] \in 1 .. Cardinality(P)
  /\ \A i, j \in P : <<i, j>> \in R <=> place[i] < place[j]
  /\ \A i, j \in P : place[i] = place[j] => i = j
  /\ \A k \in 1 .. Cardinality(P) : \E i \in P : place[i] = k

(* A strict total order numbers a finite set: the place of an element is   *)
(* the number of those before it, and every place is taken.                *)
LEMMA Places ==
  ASSUME NEW P, IsFiniteSet(P), NEW R, StrictTotalOrder(P, R),
         NEW place, CountsPlaces(P, R, place)
  PROVE  Numbers(P, R, place)
<1> USE DEF StrictTotalOrder
<1> DEFINE Earlier(i) == Preceding(P, R, i)
<1>1. Cardinality(P) \in Nat
  BY FS_CardinalityType
<1>2. ASSUME NEW i \in P
      PROVE  /\ IsFiniteSet(Earlier(i))
             /\ Cardinality(Earlier(i)) \in Nat
             /\ Cardinality(Earlier(i)) < Cardinality(P)
  <2>1. Earlier(i) \in SUBSET P /\ Earlier(i) # P
    BY DEF Preceding
  <2>2. /\ IsFiniteSet(Earlier(i))
        /\ Cardinality(Earlier(i)) <= Cardinality(P)
        /\ Cardinality(Earlier(i)) # Cardinality(P)
    BY <2>1, FS_Subset
  <2>3. Cardinality(Earlier(i)) \in Nat
    BY <2>2, FS_CardinalityType
  <2> QED
    BY <1>1, <2>2, <2>3
<1>3. ASSUME NEW i \in P, NEW j \in P, <<i, j>> \in R
      PROVE  Cardinality(Earlier(i)) < Cardinality(Earlier(j))
  <2>1. /\ Earlier(i) \in SUBSET Earlier(j)
        /\ i \in Earlier(j) /\ i \notin Earlier(i)
    BY <1>3 DEF Preceding
  <2>2. /\ Cardinality(Earlier(i)) <= Cardinality(Earlier(j))
        /\ Cardinality(Earlier(i)) # Cardinality(Earlier(j))
    BY <1>2, <2>1, FS_Subset
  <2>3. Cardinality(Earlier(i)) \in Nat /\ Cardinality(Earlier(j)) \in Nat
    BY <1>2
  <2> HIDE DEF Earlier
  <2> QED
    BY <2>2, <2>3
<1>4. \A i \in P : place[i] = 1 + Cardinality(Earlier(i))
  BY DEF CountsPlaces
<1> HIDE DEF Earlier
<1>5. \A i \in P : place[i] \in 1 .. Cardinality(P)
  BY <1>1, <1>2, <1>4
<1>6. \A i, j \in P : <<i, j>> \in R => place[i] < place[j]
  BY <1>2, <1>3, <1>4
<1>7. \A i, j \in P : place[i] = place[j] => i = j
  <2> SUFFICES ASSUME NEW i \in P, NEW j \in P, place[i] = place[j], i # j
               PROVE  FALSE
    OBVIOUS
  <2>1. place[i] < place[j] \/ place[j] < place[i]
    BY <1>6
  <2> QED
    BY <1>1, <1>5, <2>1
<1>8. \A i, j \in P : place[i] < place[j] => <<i, j>> \in R
  <2> SUFFICES ASSUME NEW i \in P, NEW j \in P, place[i] < place[j], <<i, j>> \notin R
               PROVE  FALSE
    OBVIOUS
  <2>1. i = j \/ place[j] < place[i]
    BY <1>6
  <2> QED
    BY <1>1, <1>5, <2>1
<1>9. \A k \in 1 .. Cardinality(P) : \E i \in P : place[i] = k
  <2> DEFINE n == Cardinality(P)
             T == 1 .. n
             f == [i \in P |-> place[i]]
  <2>1. IsFiniteSet(T) /\ Cardinality(T) = n
    <3>1. IsFiniteSet(1 .. n) /\ Cardinality(1 .. n) = IF 1 > n THEN 0 ELSE n - 1 + 1
      BY <1>1, FS_Interval
    <3> HIDE DEF n
    <3> QED
      BY <1>1, <3>1 DEF n
  <2>2. f \in Injection(P, T)
    <3>1. f \in [P -> T]
      BY <1>5
    <3>2. \A i, j \in P : f[i] = f[j] => i = j
      BY <1>7
    <3> HIDE DEF f, T
    <3> QED
      BY <3>1, <3>2 DEF Injection, IsInjective
  <2>3. f \in Surjection(P, T)
    BY <2>1, <2>2, FS_Injection
  <2> QED
    BY <2>3 DEF Surjection
<1> QED
  BY <1>1, <1>5, <1>6, <1>7, <1>8, <1>9 DEF Numbers

(* The number normalizeServiceOrderLocked gives is the place in its sort. *)
LEMMA NumbersArePlaces ==
  ASSUME NEW list \in Seq(ServiceRecord), NEW port
  PROVE  /\ OfPort(list, port) \in SUBSET Nat /\ IsFiniteSet(OfPort(list, port))
         /\ \A i \in OfPort(list, port) :
              Normalised(list, port)[i].order \in 1 .. Cardinality(OfPort(list, port))
         /\ \A i, j \in OfPort(list, port) :
              Before(list, i, j) <=> Normalised(list, port)[i].order < Normalised(list, port)[j].order
         /\ \A i, j \in OfPort(list, port) :
              Normalised(list, port)[i].order = Normalised(list, port)[j].order => i = j
<1> DEFINE P == OfPort(list, port)
           R == {e \in P \X P : Before(list, e[1], e[2])}
           number == [i \in P |-> Normalised(list, port)[i].order]
<1>1. DOMAIN list = 1 .. Len(list) /\ Len(list) \in Nat
  OBVIOUS
<1>2. P \in SUBSET Nat /\ IsFiniteSet(P)
  <2>1. P \subseteq 1 .. Len(list)
    BY <1>1 DEF OfPort
  <2>2. IsFiniteSet(1 .. Len(list))
    BY <1>1, FS_Interval
  <2> QED
    BY <1>1, <2>1, <2>2, FS_Subset
<1>3. ASSUME NEW i \in P
      PROVE  number[i] = 1 + Cardinality({j \in P : Before(list, j, i)})
  <2>1. i \in DOMAIN list /\ list[i].port = port
    BY DEF OfPort
  <2>2. Normalised(list, port)[i] =
          [list[i] EXCEPT !.order = 1 + Cardinality({j \in P : Before(list, j, i)})]
    BY <2>1 DEF Normalised, Before
  <2>3. list[i] \in ServiceRecord
    BY <2>1
  <2>4. PICK n : n = 1 + Cardinality({j \in P : Before(list, j, i)})
    OBVIOUS
  <2>5. Normalised(list, port)[i].order = n
    BY <2>2, <2>3, <2>4 DEF ServiceRecord
  <2> QED
    BY <2>4, <2>5
<1>4. \A i \in P : list[i].order \in Int
  <2>1. \A i \in DOMAIN list : list[i] \in ServiceRecord
    OBVIOUS
  <2> QED
    BY <2>1 DEF OfPort, ServiceRecord
<1>5. \A i, j \in P : <<i, j>> \in R <=> Before(list, i, j)
  OBVIOUS
<1>6. \A i \in P : Preceding(P, R, i) = {j \in P : Before(list, j, i)}
  BY <1>5 DEF Preceding
<1> HIDE DEF P, R
<1>7. /\ \A i, j \in P : i # j => Before(list, i, j) \/ Before(list, j, i)
      /\ \A i \in P : ~Before(list, i, i)
      /\ \A i, j, k \in P :
           Before(list, i, j) /\ Before(list, j, k) => Before(list, i, k)
  <2>1. P \in SUBSET Int
    BY <1>2
  <2> QED
    BY <1>4, <2>1, SortIsTotal
<1> HIDE DEF number
<1>8. StrictTotalOrder(P, R)
  BY <1>5, <1>7 DEF StrictTotalOrder
<1>9. CountsPlaces(P, R, number)
  BY <1>3, <1>6 DEF CountsPlaces
<1>10. Numbers(P, R, number)
  BY <1>2, <1>8, <1>9, Places
<1>11. \A i \in P : Normalised(list, port)[i].order = number[i]
  BY DEF number
<1>12. ASSUME NEW i \in P, NEW j \in P
       PROVE  /\ Before(list, i, j) <=>
                   Normalised(list, port)[i].order < Normalised(list, port)[j].order
              /\ Normalised(list, port)[i].order = Normalised(list, port)[j].order => i = j
  <2>1. /\ Normalised(list, port)[i].order = number[i]
        /\ Normalised(list, port)[j].order = number[j]
    BY <1>11
  <2>2. /\ <<i, j>> \in R <=> number[i] < number[j]
        /\ number[i] = number[j] => i = j
    BY <1>10 DEF Numbers
  <2>3. <<i, j>> \in R <=> Before(list, i, j)
    BY <1>5
  <2> QED
    BY <2>1, <2>2, <2>3
<1>13. \A i \in P : Normalised(list, port)[i].order \in 1 .. Cardinality(P)
  BY <1>10, <1>11 DEF Numbers
<1> QED
  BY <1>2, <1>12, <1>13 DEF P

(* The services of one port have the numbers 1 to their count, each one    *)
(* once: no tie is left to the sort that builds the routes                 *)
(* (normalizeServiceOrderLocked, config/manager.go).                       *)
THEOREM NumbersAreDistinct ==
  ASSUME NEW list \in Seq(ServiceRecord), NEW port
  PROVE  /\ \A i \in OfPort(list, port) :
              Normalised(list, port)[i].order \in 1 .. Cardinality(OfPort(list, port))
         /\ \A i, j \in OfPort(list, port) :
              i # j => Normalised(list, port)[i].order # Normalised(list, port)[j].order
  BY NumbersArePlaces

(* The sequence a sort leaves: every element once, in the order of R. *)
InOrder(P, R, sorted) ==
  /\ sorted \in [1 .. Cardinality(P) -> P]
  /\ \A k, m \in DOMAIN sorted : k < m <=> <<sorted[k], sorted[m]>> \in R
  /\ \A i \in P : \E k \in DOMAIN sorted : sorted[k] = i

LEMMA SortedByPlace ==
  ASSUME NEW P, NEW R, NEW place, Numbers(P, R, place),
         NEW sorted, sorted = [k \in 1 .. Cardinality(P) |-> CHOOSE i \in P : place[i] = k]
  PROVE  InOrder(P, R, sorted)
<1>1. ASSUME NEW k \in 1 .. Cardinality(P)
      PROVE  sorted[k] \in P /\ place[sorted[k]] = k
  BY DEF Numbers
<1>2. DOMAIN sorted = 1 .. Cardinality(P) /\ sorted \in [1 .. Cardinality(P) -> P]
  BY <1>1
<1>3. ASSUME NEW k \in DOMAIN sorted, NEW m \in DOMAIN sorted
      PROVE  k < m <=> <<sorted[k], sorted[m]>> \in R
  BY <1>1, <1>2 DEF Numbers
<1>4. ASSUME NEW i \in P
      PROVE  \E k \in DOMAIN sorted : sorted[k] = i
  <2>1. place[i] \in DOMAIN sorted
    BY <1>2 DEF Numbers
  <2>2. sorted[place[i]] = i
    BY <1>1, <1>2, <2>1 DEF Numbers
  <2> QED
    BY <2>1, <2>2
<1> QED
  BY <1>2, <1>3, <1>4 DEF InOrder

(* The numbers of the services of a port are positive and without ties. *)
Ordered(list, port) ==
  /\ \A i \in OfPort(list, port) : list[i].order > 0
  /\ \A i, j \in OfPort(list, port) : list[i].order = list[j].order => i = j

(* Then they alone decide the order of the routes, defaults last. *)
Ahead(list, i, j) ==
  \/ ~IsDefault(list[i]) /\ IsDefault(list[j])
  \/ (IsDefault(list[i]) <=> IsDefault(list[j])) /\ list[i].order < list[j].order

LEMMA OfPortIsFinite ==
  ASSUME NEW list \in Seq(ServiceRecord), NEW port
  PROVE  /\ OfPort(list, port) \in SUBSET Nat /\ IsFiniteSet(OfPort(list, port))
         /\ \A i \in OfPort(list, port) : i \in DOMAIN list /\ list[i] \in ServiceRecord
<1>1. DOMAIN list = 1 .. Len(list) /\ Len(list) \in Nat
  OBVIOUS
<1>2. OfPort(list, port) \subseteq 1 .. Len(list)
  BY <1>1 DEF OfPort
<1>3. IsFiniteSet(1 .. Len(list))
  BY <1>1, FS_Interval
<1>4. IsFiniteSet(OfPort(list, port))
  BY <1>2, <1>3, FS_Subset
<1>5. \A i \in 1 .. Len(list) : list[i] \in ServiceRecord
  OBVIOUS
<1> QED
  BY <1>1, <1>2, <1>4, <1>5

LEMMA RoutesFollowNumbers ==
  ASSUME NEW list \in Seq(ServiceRecord), NEW port, Ordered(list, port),
         NEW i \in OfPort(list, port), NEW j \in OfPort(list, port)
  PROVE  EarlierRoute(list, i, j) <=> Ahead(list, i, j)
<1> DEFINE D(n) == IF IsDefault(list[n]) THEN 1 ELSE 0
           Z(n) == IF list[n].order = 0 THEN 1 ELSE 0
<1>1. /\ i \in Int /\ j \in Int
      /\ list[i].order \in Int /\ list[j].order \in Int
      /\ list[i].created \in Int /\ list[j].created \in Int
  <2>1. i \in Nat /\ j \in Nat
    BY OfPortIsFinite
  <2>2. list[i] \in ServiceRecord /\ list[j] \in ServiceRecord
    BY OfPortIsFinite
  <2> QED
    BY <2>1, <2>2 DEF ServiceRecord
<1>2. Z(i) = 0 /\ Z(j) = 0
  BY <1>1 DEF Ordered
<1>3. D(i) \in Int /\ D(j) \in Int
  OBVIOUS
<1>4. PICK ks, ls : /\ ks = <<D(i), 0, list[i].order, list[i].created, i>>
                    /\ ls = <<D(j), 0, list[j].order, list[j].created, j>>
  OBVIOUS
<1>5. EarlierRoute(list, i, j) <=>
        \/ D(i) < D(j)
        \/ D(i) = D(j) /\ list[i].order < list[j].order
        \/ D(i) = D(j) /\ list[i].order = list[j].order /\ list[i].created < list[j].created
        \/ D(i) = D(j) /\ list[i].order = list[j].order /\ list[i].created = list[j].created /\ i < j
  <2>1. EarlierRoute(list, i, j) <=> Lexicographic(ks, ls)
    BY <1>2, <1>4 DEF EarlierRoute, RouteKey
  <2> HIDE DEF D
  <2>2. /\ ks[1] = D(i) /\ ks[2] = 0 /\ ks[3] = list[i].order
        /\ ks[4] = list[i].created /\ ks[5] = i
        /\ ls[1] = D(j) /\ ls[2] = 0 /\ ls[3] = list[j].order
        /\ ls[4] = list[j].created /\ ls[5] = j
        /\ DOMAIN ks = 1 .. 5
    BY <1>4
  <2>3. Lexicographic(ks, ls)
          <=> \/ ks[1] < ls[1]
              \/ ks[1] = ls[1] /\ ks[3] < ls[3]
              \/ ks[1] = ls[1] /\ ks[3] = ls[3] /\ ks[4] < ls[4]
              \/ ks[1] = ls[1] /\ ks[3] = ls[3] /\ ks[4] = ls[4] /\ ks[5] < ls[5]
    BY <2>2, FiveKeys
  <2> QED
    BY <2>1, <2>2, <2>3
<1>6. list[i].order = list[j].order => list[i].created = list[j].created /\ ~(i < j)
  BY <1>1 DEF Ordered
<1>7. /\ D(i) < D(j) <=> ~IsDefault(list[i]) /\ IsDefault(list[j])
      /\ D(i) = D(j) <=> (IsDefault(list[i]) <=> IsDefault(list[j]))
  OBVIOUS
<1>8. ~(list[i].created < list[i].created)
  BY <1>1
<1> HIDE DEF D
<1> QED
  BY <1>1, <1>5, <1>6, <1>7, <1>8 DEF Ahead

(* Ahead is a strict total order of the services of a port. *)
LEMMA AheadIsTotal ==
  ASSUME NEW list \in Seq(ServiceRecord), NEW port, Ordered(list, port),
         NEW R, \A i, j \in OfPort(list, port) : <<i, j>> \in R <=> Ahead(list, i, j)
  PROVE  StrictTotalOrder(OfPort(list, port), R)
<1> DEFINE P == OfPort(list, port)
<1>1. \A i \in P : list[i].order \in Int
  BY OfPortIsFinite DEF ServiceRecord
<1>2. \A i, j \in P : list[i].order = list[j].order => i = j
  BY DEF Ordered
<1>3. \A i, j \in P : <<i, j>> \in R <=> Ahead(list, i, j)
  OBVIOUS
<1> HIDE DEF P
<1>4. ASSUME NEW i \in P, NEW j \in P, i # j
      PROVE  Ahead(list, i, j) \/ Ahead(list, j, i)
  <2>1. list[i].order < list[j].order \/ list[j].order < list[i].order
    BY <1>1, <1>2, <1>4
  <2> QED
    BY <2>1 DEF Ahead
<1>5. ASSUME NEW i \in P
      PROVE  ~Ahead(list, i, i)
  BY <1>1 DEF Ahead
<1>6. ASSUME NEW i \in P, NEW j \in P, NEW k \in P, Ahead(list, i, j), Ahead(list, j, k)
      PROVE  Ahead(list, i, k)
  <2>1. list[i].order \in Int /\ list[j].order \in Int /\ list[k].order \in Int
    BY <1>1
  <2>2. list[i].order < list[j].order /\ list[j].order < list[k].order
          => list[i].order < list[k].order
    BY <2>1
  <2> QED
    BY <1>6, <2>2 DEF Ahead
<1>7. StrictTotalOrder(P, R)
  BY <1>3, <1>4, <1>5, <1>6 DEF StrictTotalOrder
<1> QED
  BY <1>7 DEF P

(* GetServicesByPort: the services of the port, in that order. *)
LEMMA PortIsSorted ==
  ASSUME NEW list \in Seq(ServiceRecord), NEW port, Ordered(list, port),
         NEW R, \A i, j \in OfPort(list, port) : <<i, j>> \in R <=> Ahead(list, i, j)
  PROVE  \E sorted :
           /\ InOrder(OfPort(list, port), R, sorted)
           /\ ServicesByPort(list, port) = [k \in DOMAIN sorted |-> list[sorted[k]]]
<1> DEFINE P == OfPort(list, port)
           Place(i) == 1 + Cardinality({j \in P : EarlierRoute(list, j, i)})
           place == [i \in P |-> Place(i)]
           sorted == [k \in 1 .. Cardinality(P) |-> CHOOSE i \in P : place[i] = k]
<1>1. \A i \in P : Preceding(P, R, i) = {j \in P : EarlierRoute(list, j, i)}
  BY RoutesFollowNumbers DEF Preceding
<1>2. CountsPlaces(P, R, place)
  BY <1>1 DEF CountsPlaces
<1>3. IsFiniteSet(P) /\ StrictTotalOrder(P, R)
  BY OfPortIsFinite, AheadIsTotal
<1>4. Numbers(P, R, place)
  <2> HIDE DEF P, place
  <2> QED
    BY <1>2, <1>3, Places
<1>5. InOrder(P, R, sorted)
  <2> HIDE DEF P, place
  <2> QED
    BY <1>4, SortedByPlace
<1>6. /\ DOMAIN ServicesByPort(list, port) = 1 .. Cardinality(P)
      /\ ServicesByPort(list, port) =
           [k \in 1 .. Cardinality(P) |-> ServicesByPort(list, port)[k]]
  BY DEF ServicesByPort
<1>7. \A i \in P : place[i] = Place(i)
  OBVIOUS
<1>8. ASSUME NEW k \in 1 .. Cardinality(P)
      PROVE  ServicesByPort(list, port)[k] = list[sorted[k]]
  <2> DEFINE x == CHOOSE i \in P : Place(i) = k
             y == CHOOSE i \in P : place[i] = k
  <2>1. ServicesByPort(list, port)[k] = list[x]
    BY DEF ServicesByPort
  <2>2. sorted[k] = y
    OBVIOUS
  <2> HIDE DEF P, place, Place, sorted
  <2>3. x = y
    BY <1>7
  <2> HIDE DEF x, y
  <2> QED
    BY <2>1, <2>2, <2>3
<1>9. DOMAIN sorted = 1 .. Cardinality(P)
  OBVIOUS
<1> QED
  <2> HIDE DEF P, sorted
  <2>1. ServicesByPort(list, port) = [k \in DOMAIN sorted |-> list[sorted[k]]]
    BY <1>6, <1>8, <1>9
  <2> QED
    BY <1>5, <2>1 DEF P

EnabledOf(list, port) == {i \in OfPort(list, port) : list[i].enabled}

(* buildListenerRoutes: the routes are the enabled services of the port,   *)
(* each once, in that order.                                               *)
RoutesAre(list, port, at) ==
  /\ DOMAIN Routes(list, port) = 1 .. Len(Routes(list, port)) /\ DOMAIN at = DOMAIN Routes(list, port)
  /\ \A k \in DOMAIN at : at[k] \in EnabledOf(list, port) /\ Routes(list, port)[k] = list[at[k]]
  /\ \A k, m \in DOMAIN at : k < m <=> Ahead(list, at[k], at[m])
  /\ \A i \in EnabledOf(list, port) : \E k \in DOMAIN at : at[k] = i

LEMMA RoutesInOrder ==
  ASSUME NEW list \in Seq(ServiceRecord), NEW port, Ordered(list, port)
  PROVE  \E at : RoutesAre(list, port, at)
<1> DEFINE P == OfPort(list, port)
           R == {e \in P \X P : Ahead(list, e[1], e[2])}
           N == Cardinality(P)
<1>1. \A i, j \in P : <<i, j>> \in R <=> Ahead(list, i, j)
  OBVIOUS
<1>2. PICK sorted : /\ InOrder(P, R, sorted)
                    /\ ServicesByPort(list, port) = [k \in DOMAIN sorted |-> list[sorted[k]]]
  <2> HIDE DEF R
  <2> QED
    BY <1>1, PortIsSorted
<1>3. /\ N \in Nat
      /\ DOMAIN sorted = 1 .. N
      /\ \A k \in 1 .. N : sorted[k] \in P
      /\ \A k, m \in 1 .. N : k < m <=> Ahead(list, sorted[k], sorted[m])
      /\ \A i \in P : \E k \in 1 .. N : sorted[k] = i
  <2>1. N \in Nat
    BY OfPortIsFinite, FS_CardinalityType
  <2> HIDE DEF P, R
  <2> QED
    BY <1>1, <1>2, <2>1 DEF InOrder
<1> DEFINE enabled == {k \in DOMAIN ServicesByPort(list, port) : ServicesByPort(list, port)[k].enabled}
           Place(k) == Cardinality({m \in enabled : m <= k})
           place == [k \in enabled |-> Place(k)]
           Less == {e \in enabled \X enabled : e[1] < e[2]}
           picked == [n \in 1 .. Cardinality(enabled) |-> CHOOSE k \in enabled : place[k] = n]
           at == [n \in DOMAIN picked |-> sorted[picked[n]]]
<1>4. /\ DOMAIN Routes(list, port) = 1 .. Cardinality(enabled)
      /\ Routes(list, port) = [n \in 1 .. Cardinality(enabled) |-> Routes(list, port)[n]]
      /\ \A n \in 1 .. Cardinality(enabled) :
           Routes(list, port)[n] = ServicesByPort(list, port)[CHOOSE k \in enabled : Place(k) = n]
  BY DEF Routes
<1>0. enabled = {k \in 1 .. N : list[sorted[k]].enabled}
  BY <1>2, <1>3
<1> HIDE DEF P, R, N
<1>5. enabled \in SUBSET Int /\ enabled \subseteq 1 .. N /\ IsFiniteSet(enabled)
  <2>1. IsFiniteSet(1 .. N)
    BY <1>3, FS_Interval
  <2>2. enabled \subseteq 1 .. N
    BY <1>0
  <2>3. 1 .. N \in SUBSET Int
    OBVIOUS
  <2> HIDE DEF enabled
  <2>4. IsFiniteSet(enabled)
    BY <2>1, <2>2, FS_Subset
  <2> QED
    BY <2>2, <2>3, <2>4
<1>6. \A k, m \in enabled : <<k, m>> \in Less <=> k < m
  OBVIOUS
<1> HIDE DEF enabled, Less
<1>7. StrictTotalOrder(enabled, Less)
  BY <1>5, <1>6 DEF StrictTotalOrder
<1>8. CountsPlaces(enabled, Less, place)
  <2>1. ASSUME NEW k \in enabled
        PROVE  Place(k) = 1 + Cardinality(Preceding(enabled, Less, k))
    <3> DEFINE B == Preceding(enabled, Less, k)
    <3>0. \A m \in enabled : m <= k <=> <<m, k>> \in Less \/ m = k
      BY <1>5, <1>6
    <3>1. {m \in enabled : m <= k} = B \cup {k}
      BY <3>0 DEF Preceding
    <3>2. k \notin B /\ B \in SUBSET enabled
      BY <1>5, <1>6 DEF Preceding
    <3> HIDE DEF B
    <3>3. IsFiniteSet(B)
      BY <1>5, <3>2, FS_Subset
    <3>4. Cardinality(B \cup {k}) = Cardinality(B) + 1 /\ Cardinality(B) \in Nat
      BY <3>2, <3>3, FS_AddElement, FS_CardinalityType
    <3>5. Place(k) = Cardinality(B \cup {k})
      BY <3>1
    <3> HIDE DEF Place
    <3>6. Place(k) = 1 + Cardinality(B)
      BY <3>4, <3>5
    <3> QED
      BY <3>6 DEF B
  <2>2. \A k \in enabled : place[k] = Place(k)
    OBVIOUS
  <2> HIDE DEF place, Place
  <2> QED
    BY <2>1, <2>2 DEF CountsPlaces
<1>9. Numbers(enabled, Less, place)
  <2> HIDE DEF place
  <2> QED
    BY <1>5, <1>7, <1>8, Places
<1>10. InOrder(enabled, Less, picked)
  <2> HIDE DEF place
  <2> QED
    BY <1>9, SortedByPlace
<1>11. \A k \in enabled : place[k] = Place(k)
  OBVIOUS
<1>12. /\ DOMAIN picked = 1 .. Cardinality(enabled)
       /\ \A n \in DOMAIN picked : picked[n] \in enabled
       /\ \A n, m \in DOMAIN picked : n < m <=> picked[n] < picked[m]
       /\ \A k \in enabled : \E n \in DOMAIN picked : picked[n] = k
  <2> HIDE DEF picked
  <2> QED
    BY <1>6, <1>10 DEF InOrder
<1>13. Cardinality(enabled) \in Nat
  BY <1>5, FS_CardinalityType
<1>14. \A n \in DOMAIN picked : Routes(list, port)[n] = list[at[n]]
  <2> TAKE n \in DOMAIN picked
  <2> DEFINE x == CHOOSE k \in enabled : Place(k) = n
             y == CHOOSE k \in enabled : place[k] = n
  <2>1. picked[n] = y
    OBVIOUS
  <2>2. at[n] = sorted[picked[n]]
    OBVIOUS
  <2>3. n \in 1 .. Cardinality(enabled)
    BY <1>12
  <2> HIDE DEF at, picked, Place, place
  <2>7. Routes(list, port)[n] = ServicesByPort(list, port)[x]
    BY <1>4, <2>3, Zenon
  <2>4. x = y
    BY <1>11
  <2> HIDE DEF x, y
  <2>5. picked[n] \in DOMAIN sorted
    BY <1>3, <1>5, <1>12
  <2>6. Routes(list, port)[n] = ServicesByPort(list, port)[picked[n]]
    BY <2>1, <2>4, <2>7
  <2> QED
    BY <1>2, <2>2, <2>5, <2>6
<1>15. DOMAIN at = DOMAIN picked /\ \A n \in DOMAIN picked : at[n] = sorted[picked[n]]
  OBVIOUS
<1> HIDE DEF at, picked
<1>16. DOMAIN Routes(list, port) = 1 .. Cardinality(enabled) /\ Len(Routes(list, port)) = Cardinality(enabled)
  <2>1. Cardinality(enabled) \in Nat /\ DOMAIN Routes(list, port) = 1 .. Cardinality(enabled)
    BY <1>4, <1>13
  <2>2. Routes(list, port) \in Seq({Routes(list, port)[n] : n \in 1 .. Cardinality(enabled)})
    BY <1>4, <2>1
  <2> QED
    BY <2>1, <2>2
<1>17. \A n \in DOMAIN at : at[n] \in EnabledOf(list, port) /\ Routes(list, port)[n] = list[at[n]]
  <2> TAKE n \in DOMAIN at
  <2>1. picked[n] \in enabled /\ picked[n] \in 1 .. N /\ at[n] = sorted[picked[n]]
    BY <1>5, <1>12, <1>15
  <2>2. at[n] \in P /\ list[at[n]].enabled
    BY <1>0, <1>3, <2>1
  <2>3. Routes(list, port)[n] = list[at[n]]
    BY <1>14, <1>15
  <2> QED
    BY <2>2, <2>3 DEF EnabledOf, P
<1>18. \A k, m \in DOMAIN at : k < m <=> Ahead(list, at[k], at[m])
  <2> TAKE k \in DOMAIN at, m \in DOMAIN at
  <2>1. picked[k] \in 1 .. N /\ picked[m] \in 1 .. N /\ (k < m <=> picked[k] < picked[m])
    BY <1>5, <1>12, <1>15
  <2>2. at[k] = sorted[picked[k]] /\ at[m] = sorted[picked[m]]
    BY <1>15
  <2> QED
    BY <1>3, <2>1, <2>2
<1>19. \A i \in EnabledOf(list, port) : \E k \in DOMAIN at : at[k] = i
  <2> TAKE i \in EnabledOf(list, port)
  <2>1. i \in P /\ list[i].enabled
    BY DEF EnabledOf, P
  <2>2. PICK k \in 1 .. N : sorted[k] = i
    BY <1>3, <2>1
  <2>3. k \in enabled
    BY <1>0, <2>1, <2>2
  <2> QED
    BY <1>12, <1>15, <2>2, <2>3
<1>20. RoutesAre(list, port, at)
  BY <1>12, <1>15, <1>16, <1>17, <1>18, <1>19 DEF RoutesAre
<1> QED
  BY <1>20

FirstOf(routes, K) == {routes[k].id : k \in Earliest(K)}

(* Of the routes that fit most closely the first one answers: that is the  *)
(* one with the smallest number.                                           *)
LEMMA ClosestAnswers ==
  ASSUME NEW list \in Seq(ServiceRecord), NEW port, NEW at, RoutesAre(list, port, at),
         NEW host, NEW c \in 1 .. 3,
         NEW K \in SUBSET DOMAIN at, K # {},
         \A k \in DOMAIN at : /\ Closeness(list[at[k]], host) <= c
                              /\ k \in K <=> Closeness(list[at[k]], host) = c
  PROVE  FirstOf(Routes(list, port), K) = Promised(list, port, host)
<1> DEFINE C(i) == Closeness(list[i], host)
           fitting == {i \in EnabledOf(list, port) : C(i) > 0}
           Better(i, j) == \/ C(i) > C(j)
                           \/ C(i) = C(j) /\ list[i].order < list[j].order
           best == {i \in fitting : \A j \in fitting \ {i} : Better(i, j)}
           first == {k \in K : \A m \in K : k <= m}
<1>1. Promised(list, port, host) = {list[i].id : i \in best}
  <2>1. fitting = {i \in OfPort(list, port) : list[i].enabled /\ Closeness(list[i], host) > 0}
    BY DEF EnabledOf
  <2> HIDE DEF fitting
  <2> QED
    BY <2>1 DEF Promised
<1>2. \A i \in EnabledOf(list, port) :
        C(i) \in 0 .. 3 /\ list[i].order \in Int /\ (IsDefault(list[i]) <=> C(i) = 1)
  <2>1. \A i \in EnabledOf(list, port) : list[i] \in ServiceRecord
    BY OfPortIsFinite DEF EnabledOf
  <2>2. \A i : C(i) \in 0 .. 3 /\ (IsDefault(list[i]) <=> C(i) = 1)
    BY DEF Closeness
  <2> QED
    BY <2>1, <2>2 DEF ServiceRecord
<1>3. /\ DOMAIN at \in SUBSET Int
      /\ \A k \in DOMAIN at : at[k] \in EnabledOf(list, port) /\ Routes(list, port)[k] = list[at[k]]
      /\ \A k, m \in DOMAIN at : k < m <=> Ahead(list, at[k], at[m])
      /\ \A i \in EnabledOf(list, port) : \E k \in DOMAIN at : at[k] = i
  BY DEF RoutesAre
<1>4. /\ K \in SUBSET DOMAIN at
      /\ \A k \in DOMAIN at : C(at[k]) <= c /\ (k \in K <=> C(at[k]) = c)
  OBVIOUS
<1> HIDE DEF C
<1>5. ASSUME NEW k \in DOMAIN at, NEW m \in DOMAIN at, k # m, C(at[k]) = C(at[m])
      PROVE  k < m <=> Better(at[k], at[m])
  BY <1>2, <1>3, <1>5 DEF Ahead
<1>6. ASSUME NEW k \in first
      PROVE  at[k] \in best
  <2>1. k \in DOMAIN at /\ at[k] \in fitting /\ C(at[k]) = c /\ \A m \in K : k <= m
    BY <1>3, <1>4
  <2>2. ASSUME NEW j \in fitting \ {at[k]}
        PROVE  Better(at[k], j)
    <3>1. PICK m \in DOMAIN at : at[m] = j
      BY <1>3
    <3>2. m # k /\ C(at[m]) <= c /\ C(at[m]) \in 0 .. 3
      BY <1>2, <1>4, <3>1
    <3>3. CASE C(at[m]) = c
      <4>1. k < m
        BY <1>3, <1>4, <2>1, <3>2, <3>3
      <4> QED
        BY <1>5, <2>1, <3>1, <3>2, <3>3, <4>1
    <3>4. CASE C(at[m]) # c
      BY <2>1, <3>1, <3>2, <3>4
    <3> QED
      BY <3>3, <3>4
  <2> QED
    BY <2>1, <2>2
<1>7. ASSUME NEW i \in best
      PROVE  \E k \in first : at[k] = i
  <2>1. PICK k \in DOMAIN at : at[k] = i
    BY <1>3
  <2>2. C(i) = c
    <3>1. PICK m \in DOMAIN at : C(at[m]) = c /\ at[m] \in EnabledOf(list, port)
      BY <1>3, <1>4
    <3>2. at[m] \in fitting
      BY <3>1
    <3>3. at[m] = i \/ Better(i, at[m])
      BY <3>2
    <3>4. C(i) <= c /\ C(i) \in Int
      BY <1>2, <1>4, <2>1
    <3> QED
      BY <3>1, <3>3, <3>4
  <2>3. ASSUME NEW m \in K, m # k
        PROVE  k < m
    <3>1. m \in DOMAIN at /\ C(at[m]) = c /\ at[m] \in fitting
      BY <1>3, <1>4
    <3>2. at[m] # i
      BY <1>2, <1>3, <2>1, <2>3, <3>1 DEF Ahead
    <3> QED
      BY <1>5, <2>1, <2>2, <2>3, <3>1, <3>2
  <2>4. k \in K /\ \A m \in K : k <= m
    BY <1>3, <1>4, <2>1, <2>2, <2>3
  <2> QED
    BY <2>1, <2>4
<1>8. \A k \in first : k \in DOMAIN at
  BY <1>4
<1> HIDE DEF first, best
<1>9. {Routes(list, port)[k].id : k \in first} = {list[i].id : i \in best}
  <2>1. \A k \in first : Routes(list, port)[k].id = list[at[k]].id
    BY <1>3, <1>8
  <2> QED
    BY <1>6, <1>7, <2>1
<1> QED
  BY <1>1, <1>9 DEF first, FirstOf, Earliest

(* The service that answers is the one the panel promises, if the numbers  *)
(* of the port are positive and without ties (matchServiceRoute).          *)
THEOREM OrderedMeansPromised ==
  ASSUME NEW list \in Seq(ServiceRecord), NEW port, Ordered(list, port), NEW host \in Host
  PROVE  Answering(list, port, host) = Promised(list, port, host)
<1>1. PICK at : RoutesAre(list, port, at)
  BY RoutesInOrder
<1> DEFINE routes == Routes(list, port)
           C(k) == Closeness(list[at[k]], host)
           Of(c) == {k \in DOMAIN at : C(k) = c}
           First(K) == FirstOf(routes, K)
           exact == {k \in DOMAIN routes : routes[k].domain = host /\ ~IsDefault(routes[k])}
           fitting == {k \in DOMAIN routes : MatchDomainPattern(routes[k].domain, host)
                                             /\ ~IsDefault(routes[k])}
           default == {k \in DOMAIN routes : IsDefault(routes[k])}
<1>2. Answering(list, port, host) =
        First(IF exact # {} THEN exact ELSE IF fitting # {} THEN fitting ELSE default)
  BY DEF Answering, MatchServiceRoute, FirstOf, Earliest
<1>3. DOMAIN routes = DOMAIN at /\ \A k \in DOMAIN at : routes[k] = list[at[k]]
  BY <1>1 DEF RoutesAre
<1>4. \A k : C(k) \in 0 .. 3
  BY DEF Closeness
<1>5. /\ exact = Of(3) /\ default = Of(1)
      /\ exact = {} => fitting = Of(2)
  BY <1>3, HostsAreNames DEF Closeness, MatchDomainPattern, IsDefault
<1>6. ASSUME NEW c \in 1 .. 3, Of(c) # {}, \A k \in DOMAIN at : C(k) <= c
      PROVE  First(Of(c)) = Promised(list, port, host)
  <2>1. PICK K : K = Of(c)
    OBVIOUS
  <2>2. /\ K \in SUBSET DOMAIN at
        /\ \A k \in DOMAIN at : k \in K <=> Closeness(list[at[k]], host) = c
    BY <2>1
  <2> HIDE DEF Of
  <2> QED
    BY <1>1, <1>6, <2>1, <2>2, ClosestAnswers
<1> HIDE DEF exact, fitting, default, First, routes
<1>7. CASE Of(3) # {}
  <2>1. \A k \in DOMAIN at : C(k) <= 3
    BY <1>4
  <2> HIDE DEF C, Of
  <2> QED
    BY <1>2, <1>5, <1>6, <1>7, <2>1
<1>8. CASE Of(3) = {} /\ Of(2) # {}
  <2>1. \A k \in DOMAIN at : C(k) <= 2
    <3>1. \A k \in DOMAIN at : C(k) # 3
      BY <1>8
    <3> HIDE DEF C
    <3> QED
      BY <1>4, <3>1
  <2> HIDE DEF C, Of
  <2> QED
    BY <1>2, <1>5, <1>6, <1>8, <2>1
<1>9. CASE Of(3) = {} /\ Of(2) = {} /\ Of(1) # {}
  <2>1. \A k \in DOMAIN at : C(k) <= 1
    <3>1. \A k \in DOMAIN at : C(k) # 3 /\ C(k) # 2
      BY <1>9
    <3> HIDE DEF C
    <3> QED
      BY <1>4, <3>1
  <2> HIDE DEF C, Of
  <2> QED
    BY <1>2, <1>5, <1>6, <1>9, <2>1
<1>10. CASE Of(3) = {} /\ Of(2) = {} /\ Of(1) = {}
  <2>1. \A k \in DOMAIN at : C(k) = 0
    <3>1. \A k \in DOMAIN at : C(k) # 3 /\ C(k) # 2 /\ C(k) # 1
      BY <1>10
    <3> HIDE DEF C
    <3> QED
      BY <1>4, <3>1
  <2>2. \A i \in OfPort(list, port) : list[i].enabled => ~(Closeness(list[i], host) > 0)
    <3>1. \A i \in EnabledOf(list, port) : \E k \in DOMAIN at : at[k] = i
      BY <1>1 DEF RoutesAre
    <3>2. \A i \in EnabledOf(list, port) : Closeness(list[i], host) = 0
      BY <2>1, <3>1
    <3> QED
      BY <3>2 DEF EnabledOf
  <2>3. Promised(list, port, host) = {}
    BY <2>2 DEF Promised
  <2>4. First({}) = {}
    BY DEF First, FirstOf, Earliest
  <2> QED
    BY <1>2, <1>5, <1>10, <2>3, <2>4
<1> QED
  BY <1>7, <1>8, <1>9, <1>10

(* Two lists that differ in nothing but the numbers. *)
Renumbered(list, new) ==
  /\ new \in Seq(ServiceRecord) /\ DOMAIN new = DOMAIN list
  /\ \A i \in DOMAIN list : /\ new[i].id = list[i].id /\ new[i].port = list[i].port
                            /\ new[i].domain = list[i].domain
                            /\ new[i].enabled = list[i].enabled

LEMMA RenumberedOfPort ==
  ASSUME NEW list, NEW new, Renumbered(list, new), NEW port
  PROVE  OfPort(new, port) = OfPort(list, port)
BY DEF Renumbered, OfPort

(* normalizeServiceOrderLocked gives the services of its port numbers from *)
(* 1 without ties, and touches nothing else.                               *)
LEMMA NormalisedOrders ==
  ASSUME NEW list \in Seq(ServiceRecord), NEW port
  PROVE  /\ Renumbered(list, Normalised(list, port))
         /\ Ordered(Normalised(list, port), port)
         /\ \A q : q # port /\ Ordered(list, q) => Ordered(Normalised(list, port), q)
<1> DEFINE new == Normalised(list, port)
           Place(i) == 1 + Cardinality({j \in OfPort(list, port) :
                                          Lexicographic(SortKey(list, j), SortKey(list, i))})
<1>1. /\ DOMAIN new = DOMAIN list
      /\ new = [i \in DOMAIN list |-> new[i]]
      /\ \A i \in DOMAIN list : list[i].port # port => new[i] = list[i]
      /\ \A i \in DOMAIN list : list[i].port = port => new[i] = [list[i] EXCEPT !.order = Place(i)]
  BY DEF Normalised
<1>2. /\ DOMAIN list = 1 .. Len(list) /\ Len(list) \in Nat
      /\ \A i \in DOMAIN list : list[i] \in ServiceRecord
  OBVIOUS
<1> HIDE DEF new, Place
<1>3. \A i \in DOMAIN list : list[i].port = port => new[i].order = Place(i)
  BY <1>1, <1>2 DEF ServiceRecord
<1>4. \A i \in DOMAIN list : list[i].port = port => Place(i) \in Int /\ Place(i) > 0
  <2>1. \A i \in OfPort(list, port) : new[i].order \in 1 .. Cardinality(OfPort(list, port))
    BY NumbersArePlaces DEF new
  <2>2. \A i \in OfPort(list, port) : new[i].order \in Int /\ new[i].order > 0
    BY <2>1
  <2> QED
    BY <1>3, <2>2 DEF OfPort
<1>5. \A i \in DOMAIN list :
        /\ new[i] \in ServiceRecord
        /\ new[i].id = list[i].id /\ new[i].port = list[i].port
        /\ new[i].domain = list[i].domain /\ new[i].enabled = list[i].enabled
  <2> TAKE i \in DOMAIN list
  <2>1. CASE list[i].port # port
    BY <1>1, <1>2, <2>1
  <2>2. CASE list[i].port = port
    <3>1. new[i] = [list[i] EXCEPT !.order = Place(i)] /\ Place(i) \in Int
      BY <1>1, <1>4, <2>2
    <3>2. list[i] \in ServiceRecord
      BY <1>2
    <3> QED
      BY <3>1, <3>2 DEF ServiceRecord
  <2> QED
    BY <2>1, <2>2
<1>6. new \in Seq(ServiceRecord)
  BY <1>1, <1>2, <1>5
<1>7. Renumbered(list, new)
  BY <1>1, <1>5, <1>6 DEF Renumbered
<1>8. Ordered(new, port)
  <2>1. OfPort(new, port) = OfPort(list, port)
    BY <1>7, RenumberedOfPort
  <2>2. \A i \in OfPort(list, port) : new[i].order > 0
    BY <1>3, <1>4 DEF OfPort
  <2>3. \A i, j \in OfPort(list, port) : new[i].order = new[j].order => i = j
    BY NumbersArePlaces DEF new
  <2> QED
    BY <2>1, <2>2, <2>3 DEF Ordered
<1>9. ASSUME NEW q, q # port, Ordered(list, q)
      PROVE  Ordered(new, q)
  <2>1. OfPort(new, q) = OfPort(list, q)
    BY <1>7, RenumberedOfPort
  <2>2. \A i \in OfPort(list, q) : new[i] = list[i]
    BY <1>1, <1>9 DEF OfPort
  <2> QED
    BY <1>9, <2>1, <2>2 DEF Ordered
<1> QED
  BY <1>7, <1>8, <1>9 DEF new

(* normalizeAllServiceOrdersLocked does so for every port. *)
LEMMA NormalisedAllOrders ==
  ASSUME NEW list \in Seq(ServiceRecord)
  PROVE  /\ Renumbered(list, NormalisedAll(list))
         /\ \A port : /\ Ordered(NormalisedAll(list), port)
                      /\ \A i \in OfPort(list, port) :
                           NormalisedAll(list)[i] = Normalised(list, port)[i]
<1> DEFINE new == NormalisedAll(list)
<1>1. /\ DOMAIN new = DOMAIN list
      /\ new = [i \in DOMAIN list |-> new[i]]
      /\ \A i \in DOMAIN list : new[i] = Normalised(list, list[i].port)[i]
  BY DEF NormalisedAll
<1>2. DOMAIN list = 1 .. Len(list) /\ Len(list) \in Nat
  OBVIOUS
<1> HIDE DEF new
<1>3. ASSUME NEW i \in DOMAIN list
      PROVE  /\ new[i] \in ServiceRecord
             /\ new[i].id = list[i].id /\ new[i].port = list[i].port
             /\ new[i].domain = list[i].domain /\ new[i].enabled = list[i].enabled
  <2>1. Renumbered(list, Normalised(list, list[i].port))
    BY NormalisedOrders
  <2> QED
    BY <1>1, <2>1 DEF Renumbered
<1>4. new \in Seq(ServiceRecord)
  BY <1>1, <1>2, <1>3
<1>5. Renumbered(list, new)
  BY <1>1, <1>3, <1>4 DEF Renumbered
<1>6. ASSUME NEW port
      PROVE  /\ Ordered(new, port)
             /\ \A i \in OfPort(list, port) : new[i] = Normalised(list, port)[i]
  <2>1. \A i \in OfPort(list, port) : new[i] = Normalised(list, port)[i]
    BY <1>1 DEF OfPort
  <2>2. Renumbered(list, Normalised(list, port)) /\ Ordered(Normalised(list, port), port)
    BY NormalisedOrders
  <2>3. /\ OfPort(new, port) = OfPort(list, port)
        /\ OfPort(Normalised(list, port), port) = OfPort(list, port)
    BY <1>5, <2>2, RenumberedOfPort
  <2> QED
    BY <2>1, <2>2, <2>3 DEF Ordered
<1> QED
  BY <1>5, <1>6 DEF new

(* Load renumbers, but promises what the file says.                        *)
LEMMA RenumberingPromises ==
  ASSUME NEW list \in Seq(ServiceRecord), NEW port, Ordered(list, port), NEW host
  PROVE  Promised(NormalisedAll(list), port, host) = Promised(list, port, host)
<1> DEFINE new == NormalisedAll(list)
           P == OfPort(list, port)
<1>1. /\ Renumbered(list, new)
      /\ \A i \in P : new[i] = Normalised(list, port)[i]
  BY NormalisedAllOrders
<1>2. OfPort(new, port) = P
  BY <1>1, RenumberedOfPort
<1>3. \A i \in P : i \in Int /\ list[i].order \in Int /\ list[i].order > 0 /\ i \in DOMAIN list
  <2>1. \A i \in P : i \in Nat /\ i \in DOMAIN list /\ list[i] \in ServiceRecord
    BY OfPortIsFinite
  <2> QED
    BY <2>1 DEF Ordered, ServiceRecord
<1>4. \A i \in P : /\ new[i].id = list[i].id /\ new[i].enabled = list[i].enabled
                   /\ Closeness(new[i], host) = Closeness(list[i], host)
  BY <1>1, <1>3 DEF Renumbered, Closeness, IsDefault
<1>5. ASSUME NEW i \in P, NEW j \in P, Closeness(list[i], host) = Closeness(list[j], host)
      PROVE  new[i].order < new[j].order <=> list[i].order < list[j].order
  <2> DEFINE D(n) == IF IsDefault(list[n]) THEN 1 ELSE 0
  <2>1. IsDefault(list[i]) <=> IsDefault(list[j])
    BY <1>5 DEF Closeness
  <2>2. D(i) = D(j) /\ D(i) \in Int /\ D(j) \in Int
    BY <2>1
  <2>3. SortKey(list, i) = <<D(i), list[i].order, i>> /\ SortKey(list, j) = <<D(j), list[j].order, j>>
    BY <1>3 DEF SortKey
  <2> HIDE DEF D
  <2>4. Before(list, i, j) <=>
          \/ D(i) < D(j)
          \/ D(i) = D(j) /\ list[i].order < list[j].order
          \/ D(i) = D(j) /\ list[i].order = list[j].order /\ i < j
    <3>1. PICK a \in Int, b \in Int, x \in Int, y \in Int :
            a = D(i) /\ b = list[i].order /\ x = D(j) /\ y = list[j].order
      BY <1>3, <2>2, Zenon
    <3>2. Before(list, i, j) <=> Lexicographic(<<a, b, i>>, <<x, y, j>>)
      BY <2>3, <3>1 DEF Before
    <3>3. i \in Int /\ j \in Int
      BY <1>3
    <3>4. Lexicographic(<<a, b, i>>, <<x, y, j>>)
            <=> (a < x \/ (a = x /\ b < y) \/ (a = x /\ b = y /\ i < j))
      BY <3>3, ThreeKeys
    <3> QED
      BY <3>1, <3>2, <3>4
  <2>5. list[i].order = list[j].order => ~(i < j)
    BY <1>3 DEF Ordered
  <2>6. ~(D(i) < D(j))
    BY <2>2
  <2>7. Before(list, i, j) <=> new[i].order < new[j].order
    BY <1>1, NumbersArePlaces
  <2> HIDE DEF new
  <2> QED
    BY <2>2, <2>4, <2>5, <2>6, <2>7
<1> DEFINE C(i) == Closeness(list[i], host)
           fitting == {i \in P : list[i].enabled /\ C(i) > 0}
           Best(l) == {i \in fitting : \A j \in fitting \ {i} :
                         \/ C(i) > C(j)
                         \/ C(i) = C(j) /\ l[i].order < l[j].order}
<1>6. Promised(list, port, host) = {list[i].id : i \in Best(list)}
  BY DEF Promised
<1>7. Promised(new, port, host) = {new[i].id : i \in Best(new)}
  <2>1. fitting = {i \in OfPort(new, port) : new[i].enabled /\ Closeness(new[i], host) > 0}
    BY <1>2, <1>4
  <2>2. \A i \in fitting : C(i) = Closeness(new[i], host)
    BY <1>4
  <2> HIDE DEF new, C
  <2>3. Best(new) = {i \in fitting : \A j \in fitting \ {i} :
                        \/ Closeness(new[i], host) > Closeness(new[j], host)
                        \/ /\ Closeness(new[i], host) = Closeness(new[j], host)
                           /\ new[i].order < new[j].order}
    BY <2>2
  <2> HIDE DEF fitting
  <2> QED
    BY <2>1, <2>3 DEF Promised
<1>8. \A i \in fitting : new[i].id = list[i].id
  BY <1>4
<1>9. Best(new) = Best(list)
  <2>1. \A i, j \in fitting :
          C(i) = C(j) => (new[i].order < new[j].order <=> list[i].order < list[j].order)
    BY <1>5
  <2> HIDE DEF fitting, new, C
  <2> QED
    BY <2>1
<1> HIDE DEF new, fitting
<1>10. {new[i].id : i \in Best(list)} = {list[i].id : i \in Best(list)}
  <2>1. \A i \in Best(list) : new[i].id = list[i].id
    BY <1>8
  <2> HIDE DEF Best
  <2> QED
    BY <2>1
<1> HIDE DEF Best
<1> QED
  BY <1>6, <1>7, <1>9, <1>10 DEF new

-----------------------------------------------------------------------------
(* The certificate of a handshake. *)

LEMMA EarliestOfPart ==
  ASSUME NEW B \in SUBSET Int, NEW A \in SUBSET B, NEW k \in A, \A m \in B : k <= m
  PROVE  Earliest(A) = {k}
<1>1. A \in SUBSET Int /\ \A m \in A : k <= m
  OBVIOUS
<1>2. k \in Earliest(A)
  BY <1>1 DEF Earliest
<1>3. ASSUME NEW m \in Earliest(A)
      PROVE  m = k
  <2>1. m \in Int /\ k \in Int /\ m <= k /\ k <= m
    BY <1>1 DEF Earliest
  <2> QED
    BY <2>1
<1> QED
  BY <1>2, <1>3

(* The service that answers for a host shows the certificate it is bound   *)
(* to, if it is loaded and its domain certifies the host                   *)
(* (matchServiceRoute and matchCertificateByServiceBindingLocked).         *)
THEOREM RouteAndCertificateAgree ==
  ASSUME NEW routes, DOMAIN routes \subseteq Int,
         \A k, m \in DOMAIN routes : routes[k].id = routes[m].id => k = m,
         NEW bound, NEW loaded \in SUBSET Certificate, NEW host \in Host
  PROVE  ShowsItsCertificate(routes, bound, loaded, host)
<1> DEFINE Exact == {m \in DOMAIN routes : routes[m].domain = host /\ ~IsDefault(routes[m])}
           Fitting == {m \in DOMAIN routes : MatchDomainPattern(routes[m].domain, host)
                                             /\ ~IsDefault(routes[m])}
           Default == {m \in DOMAIN routes : IsDefault(routes[m])}
           bindings == {m \in DOMAIN routes : bound[routes[m].id] # Unbound}
           exact == {m \in bindings : routes[m].domain = host /\ bound[routes[m].id] \in loaded}
           default == {m \in bindings : IsDefault(routes[m])}
           wildcard == {m \in bindings \ default : /\ routes[m].domain # host
                                                   /\ MatchCertificateDomain(routes[m].domain, host)}
           Of(K) == {bound[routes[m].id] : m \in Earliest(K)} \cap loaded
<1>1. /\ exact \in SUBSET Exact
      /\ wildcard \in SUBSET Fitting
      /\ default \in SUBSET Default
  BY HostsAreNames, CoversAssumption DEF IsDefault, MatchDomainPattern, MatchCertificateDomain
<1>2. /\ Exact \in SUBSET Int /\ Exact \subseteq Fitting
      /\ Fitting \in SUBSET Int /\ Default \in SUBSET Int
  BY DEF MatchDomainPattern
<1>3. /\ Exact # {} => MatchServiceRoute(routes, host) = {routes[m].id : m \in Earliest(Exact)}
      /\ Exact = {} /\ Fitting # {} =>
           MatchServiceRoute(routes, host) = {routes[m].id : m \in Earliest(Fitting)}
      /\ Exact = {} /\ Fitting = {} =>
           MatchServiceRoute(routes, host) = {routes[m].id : m \in Earliest(Default)}
  BY DEF MatchServiceRoute, Earliest
<1>4. BoundCertificate(routes, bound, loaded, host) =
        IF exact # {} THEN Of(exact) ELSE IF Of(wildcard) # {} THEN Of(wildcard) ELSE Of(default)
  BY DEF BoundCertificate
<1> SUFFICES ASSUME NEW k \in DOMAIN routes,
                    routes[k].id \in MatchServiceRoute(routes, host),
                    bound[routes[k].id] \in loaded,
                    IsDefault(routes[k]) \/ MatchCertificateDomain(routes[k].domain, host)
             PROVE  BoundCertificate(routes, bound, loaded, host) = {bound[routes[k].id]}
  BY DEF ShowsItsCertificate, Presented
<1>5. k \in bindings
  BY NotACertificate
<1>6. ASSUME NEW B \in SUBSET Int, routes[k].id \in {routes[m].id : m \in Earliest(B)},
             B \subseteq DOMAIN routes
      PROVE  k \in B /\ \A m \in B : k <= m
  BY <1>6 DEF Earliest
<1>7. ASSUME NEW B \in SUBSET Int, NEW A \in SUBSET B, k \in A, \A m \in B : k <= m
      PROVE  Of(A) = {bound[routes[k].id]}
  <2>1. Earliest(A) = {k}
    BY <1>7, EarliestOfPart
  <2>2. {bound[routes[m].id] : m \in {k}} = {bound[routes[k].id]}
    OBVIOUS
  <2> QED
    BY <2>1, <2>2
<1>8. CASE Exact # {}
  <2>1. k \in Exact /\ \A m \in Exact : k <= m
    BY <1>2, <1>3, <1>6, <1>8
  <2>2. k \in exact
    BY <2>1, <1>5
  <2> QED
    BY <1>1, <1>2, <1>4, <1>7, <2>1, <2>2
<1>9. CASE Exact = {} /\ Fitting # {}
  <2>1. k \in Fitting /\ \A m \in Fitting : k <= m
    BY <1>2, <1>3, <1>6, <1>9
  <2>2. k \in wildcard
    BY <2>1, <1>5, <1>9
  <2>3. exact = {}
    BY <1>1, <1>9
  <2>4. Of(wildcard) = {bound[routes[k].id]}
    BY <1>1, <1>2, <1>7, <2>1, <2>2
  <2> HIDE DEF exact, wildcard, default, Of
  <2> QED
    BY <1>4, <2>3, <2>4
<1>10. CASE Exact = {} /\ Fitting = {}
  <2>1. k \in Default /\ \A m \in Default : k <= m
    BY <1>2, <1>3, <1>6, <1>10
  <2>2. k \in default
    BY <2>1, <1>5
  <2>3. exact = {} /\ wildcard = {} /\ Of(default) = {bound[routes[k].id]}
    BY <1>1, <1>2, <1>7, <1>10, <2>1, <2>2
  <2>4. Of(wildcard) = {}
    BY <2>3 DEF Earliest
  <2> QED
    BY <1>4, <2>3, <2>4
<1> QED
  BY <1>8, <1>9, <1>10

-----------------------------------------------------------------------------
(* Logins and users. *)

(* What a login may rely on.  The bound alone is not inductive: that a     *)
(* login which passes IsBlocked finds room below it needs one client fewer *)
(* under way than there are.                                               *)
LoginInv ==
  /\ trying \in [Client -> Key \cup {None}]
  /\ attempts \in [Key -> Nat]
  /\ AttemptsAreBounded

(* The logins under way are as many as clients, at the most.               *)
LEMMA FewUnderWay ==
  ASSUME NEW k
  PROVE  /\ IsFiniteSet(UnderWay(k))
         /\ Cardinality(UnderWay(k)) \in Nat
         /\ Cardinality(Client) \in Nat
         /\ Cardinality(UnderWay(k)) <= Cardinality(Client)
<1>1. UnderWay(k) \in SUBSET Client
  BY DEF UnderWay
<1> QED
  BY <1>1, ConfigurationAssumption, FS_Subset, FS_CardinalityType

(* The next state's. *)
LEMMA FewUnderWayNext ==
  ASSUME NEW k
  PROVE  /\ IsFiniteSet(UnderWay(k)')
         /\ Cardinality(UnderWay(k)') \in Nat
         /\ Cardinality(UnderWay(k)') <= Cardinality(Client)
<1>1. UnderWay(k)' \in SUBSET Client
  BY DEF UnderWay
<1> QED
  BY <1>1, ConfigurationAssumption, FS_Subset, FS_CardinalityType

(* No action but TryLogin adds to the logins under way, and none but       *)
(* LoginFails adds a failure.                                              *)
LEMMA FewerAttempts ==
  ASSUME LoginInv,
         trying' \in [Client -> Key \cup {None}],
         \A c \in Client : trying'[c] \in {trying[c], None},
         attempts' \in [Key -> Nat],
         \A k \in Key : attempts'[k] <= attempts[k]
  PROVE  LoginInv'
<1>1. ASSUME NEW k \in Key
      PROVE  attempts'[k] + Cardinality(UnderWay(k)') <= MaxAttempts + Cardinality(Client) - 1
  <2>1. k # None
    BY ConfigurationAssumption
  <2>2. UnderWay(k)' \in SUBSET UnderWay(k)
    BY <2>1 DEF UnderWay
  <2>3. Cardinality(UnderWay(k)') <= Cardinality(UnderWay(k))
    BY <2>2, FewUnderWay, FS_Subset
  <2>4. /\ attempts[k] + Cardinality(UnderWay(k)) <= MaxAttempts + Cardinality(Client) - 1
        /\ attempts[k] \in Nat /\ attempts'[k] \in Nat /\ attempts'[k] <= attempts[k]
    BY DEF LoginInv, AttemptsAreBounded
  <2>5. /\ Cardinality(UnderWay(k)) \in Nat /\ Cardinality(UnderWay(k)') \in Nat
        /\ Cardinality(Client) \in Nat
    BY FewUnderWay, FewUnderWayNext
  <2> QED
    BY <2>3, <2>4, <2>5 DEF MaxAttempts
<1> QED
  BY <1>1 DEF LoginInv, AttemptsAreBounded

LEMMA LoginInit == ConfigInit => LoginInv
<1> SUFFICES ASSUME ConfigInit
             PROVE  LoginInv
  OBVIOUS
<1>1. trying = [c \in Client |-> None] /\ attempts = [k \in Key |-> 0]
  BY DEF ConfigInit, NoLogins, NoFailures
<1>2. ASSUME NEW k \in Key
      PROVE  attempts[k] + Cardinality(UnderWay(k)) <= MaxAttempts + Cardinality(Client) - 1
  <2>1. UnderWay(k) = {}
    BY <1>1, ConfigurationAssumption DEF UnderWay
  <2>2. Cardinality(UnderWay(k)) = 0
    BY <2>1, FS_EmptySet
  <2> QED
    BY <1>1, <2>2, FewUnderWay DEF MaxAttempts
<1> QED
  BY <1>1, <1>2 DEF LoginInv, AttemptsAreBounded

LEMMA LoginStep == LoginInv /\ [ConfigNext]_configVars => LoginInv'
<1> SUFFICES ASSUME LoginInv, [ConfigNext]_configVars
             PROVE  LoginInv'
  OBVIOUS
<1>1. ASSUME UNCHANGED <<trying, attempts>>
      PROVE  LoginInv'
  BY <1>1, FewerAttempts DEF LoginInv
<1>2. CASE Start \/ Saved \/ SaveFails
  BY <1>2, <1>1 DEF Start, Saved, SaveFails, loginVars
<1>3. CASE Stop \/ Crash
  BY <1>3, FewerAttempts DEF Stop, Crash, Ends, LoginInv, NoLogins, NoFailures
<1>4. CASE AddService \/ UpdateService \/ DeleteService \/ ReorderServices
  <2>1. UNCHANGED <<trying, attempts>>
    <3>1. CASE AddService
      BY <3>1 DEF AddService, ChangesServices, Changes
    <3>2. CASE UpdateService
      BY <3>2 DEF UpdateService, ChangesServices, Changes
    <3>3. CASE DeleteService
      BY <3>3 DEF DeleteService, ChangesServices, Changes
    <3>4. CASE ReorderServices
      <4>1. PICK p, ids : ChangesServices(Reordered(services, p, ids))
        BY <3>4 DEF ReorderServices
      <4> QED
        BY <4>1 DEF ChangesServices, Changes
    <3> QED
      BY <1>4, <3>1, <3>2, <3>3, <3>4
  <2> QED
    BY <2>1, <1>1
<1>5. ASSUME NEW w \in Worker,
             CreateUser(w) \/ UpdateUser(w) \/ CheckToken(w) \/ ToggleUser(w) \/ DeleteUser(w)
      PROVE  LoginInv'
  BY <1>5, <1>1 DEF CreateUser, UpdateUser, CheckToken, ToggleUser, DeleteUser, Reads, loginVars
<1>6. ASSUME NEW w \in Worker, StoreUser(w)
      PROVE  LoginInv'
  BY <1>6, <1>1 DEF StoreUser, Changes
<1>7. ASSUME NEW c \in Client, TryLogin(c)
      PROVE  LoginInv'
  <2>1. PICK k \in Key : /\ trying[c] = None /\ ~IsBlocked(k)
                         /\ trying' = [trying EXCEPT ![c] = k]
                         /\ attempts' = attempts
    BY <1>7 DEF TryLogin
  <2>2. ASSUME NEW l \in Key
        PROVE  attempts[l] + Cardinality(UnderWay(l)') <= MaxAttempts + Cardinality(Client) - 1
    <3>1. attempts[l] \in Nat
      BY DEF LoginInv
    <3>2. CASE l = k
      <4>1. attempts[l] < MaxAttempts
        BY <2>1, <3>1, <3>2 DEF IsBlocked, MaxAttempts
      <4>2. /\ Cardinality(UnderWay(l)') \in Nat /\ Cardinality(Client) \in Nat
            /\ Cardinality(UnderWay(l)') <= Cardinality(Client)
        BY FewUnderWay, FewUnderWayNext
      <4> QED
        BY <3>1, <4>1, <4>2 DEF MaxAttempts
    <3>3. CASE l # k
      <4>1. UnderWay(l)' = UnderWay(l)
        BY <2>1, <3>3, ConfigurationAssumption DEF UnderWay, LoginInv
      <4> QED
        BY <4>1 DEF LoginInv, AttemptsAreBounded
    <3> QED
      BY <3>2, <3>3
  <2>3. trying' \in [Client -> Key \cup {None}]
    BY <2>1 DEF LoginInv
  <2> QED
    BY <2>1, <2>2, <2>3 DEF LoginInv, AttemptsAreBounded
<1>8. ASSUME NEW c \in Client, LoginFails(c)
      PROVE  LoginInv'
  <2>1. /\ trying[c] \in Key
        /\ trying' = [trying EXCEPT ![c] = None]
        /\ attempts' = [attempts EXCEPT ![trying[c]] = @ + 1]
    BY <1>8 DEF LoginFails, Answers, LoginInv
  <2>2. /\ trying' \in [Client -> Key \cup {None}]
        /\ attempts' \in [Key -> Nat]
    BY <2>1 DEF LoginInv
  <2>3. ASSUME NEW l \in Key
        PROVE  attempts'[l] + Cardinality(UnderWay(l)') <= MaxAttempts + Cardinality(Client) - 1
    <3>1. /\ attempts[l] \in Nat
          /\ attempts[l] + Cardinality(UnderWay(l)) <= MaxAttempts + Cardinality(Client) - 1
      BY DEF LoginInv, AttemptsAreBounded
    <3>2. UnderWay(l)' = UnderWay(l) \ {c}
      BY <2>1, ConfigurationAssumption DEF UnderWay, LoginInv
    <3>3. CASE l = trying[c]
      <4>1. c \in UnderWay(l)
        BY <3>3 DEF UnderWay
      <4>2. Cardinality(UnderWay(l)') = Cardinality(UnderWay(l)) - 1
        BY <3>2, <4>1, FewUnderWay, FS_RemoveElement
      <4>3. attempts'[l] = attempts[l] + 1
        BY <2>1, <3>3 DEF LoginInv
      <4> QED
        BY <3>1, <4>2, <4>3, FewUnderWay
    <3>4. CASE l # trying[c]
      <4>1. UnderWay(l)' = UnderWay(l)
        BY <3>2, <3>4 DEF UnderWay
      <4>2. attempts'[l] = attempts[l]
        BY <2>1, <3>4 DEF LoginInv
      <4> QED
        BY <3>1, <4>1, <4>2
    <3> QED
      BY <3>3, <3>4
  <2> QED
    BY <2>2, <2>3 DEF LoginInv, AttemptsAreBounded
<1>9. ASSUME NEW c \in Client, LoginUnreadable(c) \/ LoginSucceeds(c)
      PROVE  LoginInv'
  BY <1>9, FewerAttempts DEF LoginUnreadable, LoginSucceeds, Answers, LoginInv
<1>10. CASE AttemptExpires
  <2>1. PICK k \in Key : /\ attempts[k] > 0 /\ attempts' = [attempts EXCEPT ![k] = @ - 1]
                         /\ trying' = trying
    BY <1>10 DEF AttemptExpires
  <2>2. /\ attempts' \in [Key -> Nat]
        /\ \A l \in Key : attempts'[l] <= attempts[l]
    BY <2>1 DEF LoginInv
  <2> QED
    BY <2>1, <2>2, FewerAttempts DEF LoginInv
<1>11. CASE UNCHANGED configVars
  BY <1>11, <1>1 DEF configVars
<1> QED
  BY <1>2, <1>3, <1>4, <1>5, <1>6, <1>7, <1>8, <1>9, <1>10, <1>11 DEF ConfigNext

(* However many logins run in parallel, those counted under one key fail   *)
(* no more often than the limit and once for each that was under way when  *)
(* it was reached (IsBlocked and Record, fnproxy/server.go).               *)
THEOREM AttemptsStayBounded == ConfigSpec => []AttemptsAreBounded
<1>1. ConfigSpec => []LoginInv
  BY LoginInit, LoginStep, PTL DEF ConfigSpec
<1>2. LoginInv => AttemptsAreBounded
  BY DEF LoginInv
<1> QED
  BY <1>1, <1>2, PTL
-----------------------------------------------------------------------------
(* Users *)

Requested == [pc : {"add", "check", "update", "toggle", "delete"}, user : UserRecord,
              alone : BOOLEAN]

(* A list of users with identifiers of their own. *)
UserList(list) ==
  /\ list \in Seq(UserRecord)
  /\ \A i, j \in DOMAIN list : list[i].id = list[j].id => i = j

UserTypeOK ==
  /\ UserList(users)
  /\ file \in {Missing, Torn} \/ (DOMAIN file = {"services", "users"} /\ UserList(file.users))
  /\ request \in [Worker -> {Idle} \cup Requested]
  /\ ~running => \A w \in Worker : request[w] = Idle

(* Only one request is not overlapped by another. *)
AloneMeansAlone ==
  \A w, v \in Worker : request[w] # Idle /\ request[w].alone /\ v # w => request[v] = Idle

(* The identifier of a user to be added is nobody's. *)
NewUsersAreNew ==
  \A w \in Worker : request[w].pc = "add" =>
    /\ UserIndex(request[w].user.id) = {}
    /\ \A v \in Worker \ {w} :
         request[v] # Idle => request[v].user.id # request[w].user.id

(* What a request that is not overlapped has read still holds. *)
StillMayGo(user, pc) ==
  \E i \in DOMAIN users :
    /\ users[i].id = user.id /\ users[i].token = user.token /\ MayGo(i)
    /\ pc = "delete" => user.enabled = users[i].enabled
    /\ pc = "toggle" => user.enabled = ~users[i].enabled

ReadsHold ==
  \A w \in Worker : request[w] # Idle /\ request[w].alone =>
    /\ request[w].pc \in {"toggle", "delete"} => StillMayGo(request[w].user, request[w].pc)
    /\ request[w].pc \in {"add", "update"} =>
         UniqueToken(request[w].user.token, request[w].user.id)

UserInv == UserTypeOK /\ AloneMeansAlone /\ NewUsersAreNew /\ ReadsHold

LEMMA Removal ==
  ASSUME NEW S, NEW s \in Seq(S), NEW i \in DOMAIN s
  PROVE  /\ RemoveAt(s, i) \in Seq(S)
         /\ DOMAIN RemoveAt(s, i) = 1 .. Len(s) - 1
         /\ \A j \in 1 .. Len(s) - 1 :
              RemoveAt(s, i)[j] = IF j < i THEN s[j] ELSE s[j + 1]
<1>1. /\ SubSeq(s, 1, i - 1) \in Seq(S)
      /\ Len(SubSeq(s, 1, i - 1)) = i - 1
      /\ \A j \in 1 .. i - 1 : SubSeq(s, 1, i - 1)[j] = s[j]
  OBVIOUS
<1>2. /\ SubSeq(s, i + 1, Len(s)) \in Seq(S)
      /\ Len(SubSeq(s, i + 1, Len(s))) = Len(s) - i
      /\ \A j \in 1 .. Len(s) - i : SubSeq(s, i + 1, Len(s))[j] = s[i + j]
  OBVIOUS
<1> DEFINE front == SubSeq(s, 1, i - 1)
           back == SubSeq(s, i + 1, Len(s))
<1>3. /\ front \o back \in Seq(S)
      /\ Len(front \o back) = Len(front) + Len(back)
      /\ \A j \in 1 .. Len(front) + Len(back) :
           (front \o back)[j] = IF j <= Len(front) THEN front[j] ELSE back[j - Len(front)]
  <2> HIDE DEF front, back
  <2>1. front \in Seq(S) /\ back \in Seq(S)
    BY <1>1, <1>2 DEF front, back
  <2> QED
    BY <2>1
<1>4. RemoveAt(s, i) = front \o back
  BY DEF RemoveAt
<1>5. /\ front \in Seq(S)
      /\ Len(front) = i - 1
      /\ \A j \in 1 .. i - 1 : front[j] = s[j]
  BY <1>1
<1>6. /\ back \in Seq(S)
      /\ Len(back) = Len(s) - i
      /\ \A j \in 1 .. Len(s) - i : back[j] = s[i + j]
  BY <1>2
<1>7. i \in 1 .. Len(s) /\ Len(s) \in Nat
  OBVIOUS
<1> HIDE DEF front, back
<1>8. ASSUME NEW j \in 1 .. Len(s) - 1
      PROVE  (front \o back)[j] = IF j < i THEN s[j] ELSE s[j + 1]
  <2>1. /\ j \in Int /\ i \in Int /\ Len(s) \in Int
        /\ 1 <= i /\ i <= Len(s) /\ 1 <= j /\ j <= Len(s) - 1
        /\ Len(front) + Len(back) = Len(s) - 1
    BY <1>5, <1>6, <1>7
  <2>2. (front \o back)[j] = IF j <= i - 1 THEN front[j] ELSE back[j - (i - 1)]
    BY <2>1, <1>3, <1>5
  <2>3. CASE j <= i - 1
    <3>1. j \in 1 .. i - 1 /\ j < i
      BY <2>1, <2>3
    <3> QED
      BY <2>2, <2>3, <3>1, <1>5
  <2>4. CASE ~(j <= i - 1)
    <3>1. /\ j - (i - 1) \in 1 .. Len(s) - i
          /\ i + (j - (i - 1)) = j + 1
          /\ ~(j < i)
      BY <2>1, <2>4
    <3>2. back[j - (i - 1)] = s[i + (j - (i - 1))]
      BY <3>1, <1>6
    <3> QED
      BY <2>2, <2>4, <3>1, <3>2
  <2> QED
    BY <2>3, <2>4
<1> QED
  BY <1>3, <1>4, <1>5, <1>6, <1>7, <1>8, SMTT(30)

(* The three ways the list of users changes. *)
LEMMA ListChanges ==
  ASSUME NEW list, UserList(list), NEW user \in UserRecord
  PROVE  /\ (\A i \in DOMAIN list : list[i].id # user.id) => UserList(Append(list, user))
         /\ \A i \in DOMAIN list : list[i].id = user.id => UserList([list EXCEPT ![i] = user])
         /\ \A i \in DOMAIN list : UserList(RemoveAt(list, i))
<1>1. ASSUME \A i \in DOMAIN list : list[i].id # user.id
      PROVE  UserList(Append(list, user))
  BY <1>1 DEF UserList
<1>2. ASSUME NEW i \in DOMAIN list, list[i].id = user.id
      PROVE  UserList([list EXCEPT ![i] = user])
  BY <1>2 DEF UserList
<1>3. ASSUME NEW i \in DOMAIN list
      PROVE  UserList(RemoveAt(list, i))
  <2>1. /\ RemoveAt(list, i) \in Seq(UserRecord)
        /\ DOMAIN RemoveAt(list, i) = 1 .. Len(list) - 1
        /\ \A j \in 1 .. Len(list) - 1 :
             RemoveAt(list, i)[j] = IF j < i THEN list[j] ELSE list[j + 1]
    BY <1>3, Removal DEF UserList
  <2> DEFINE At(j) == IF j < i THEN j ELSE j + 1
  <2>2. \A j \in 1 .. Len(list) - 1 :
          /\ At(j) \in DOMAIN list
          /\ RemoveAt(list, i)[j] = list[At(j)]
          /\ \A k \in 1 .. Len(list) - 1 : At(j) = At(k) => j = k
    BY <2>1, <1>3 DEF UserList
  <2> HIDE DEF At
  <2> QED
    BY <2>1, <2>2 DEF UserList
<1> QED
  BY <1>1, <1>2, <1>3

(* Steps about something else. *)
LEMMA UsersStay ==
  ASSUME UserInv, UNCHANGED <<running, users, request>>,
         \/ file' \in {file, Torn}
         \/ file' = Contents
  PROVE  UserInv'
<1>1. UserTypeOK'
  BY DEF UserInv, UserTypeOK, UserList, Contents
<1>2. AloneMeansAlone' /\ NewUsersAreNew' /\ ReadsHold'
  BY DEF UserInv, AloneMeansAlone, NewUsersAreNew, ReadsHold, StillMayGo, MayGo, UniqueToken,
     UserIndex, EnabledUsers
<1> QED
  BY <1>1, <1>2 DEF UserInv

(* The defaults, and what the file holds, are lists of users. *)
LEMMA LoadedUsers ==
  ASSUME UserTypeOK
  PROVE  UserList(Defaults.users) /\ UserList(Loaded.users)
<1>1. User("admin", "admin", TRUE, None) \in UserRecord
  BY ConfigurationAssumption DEF User, UserRecord
<1>2. UserList(Defaults.users)
  <2> DEFINE u == User("admin", "admin", TRUE, None)
  <2>1. ASSUME NEW x \in UserRecord
        PROVE  UserList(<<x>>)
    <3>1. <<x>> \in Seq(UserRecord) /\ Len(<<x>>) = 1
      OBVIOUS
    <3> QED
      BY <3>1 DEF UserList
  <2>2. Defaults.users = <<u>>
    BY DEF Defaults
  <2> QED
    BY <1>1, <2>1, <2>2
<1>3. UserList(Loaded.users)
  <2>1. CASE file \in {Missing, Torn}
    BY <1>2, <2>1 DEF Loaded
  <2>2. CASE file \notin {Missing, Torn}
    BY <2>2 DEF Loaded, UserTypeOK
  <2> QED
    BY <2>1, <2>2
<1> QED
  BY <1>2, <1>3

LEMMA ProcessKeepsUsers ==
  ASSUME UserInv, Start \/ Stop \/ Crash
  PROVE  UserInv'
<1>1. \A w \in Worker : request'[w] = Idle
  BY DEF Start, Stop, Crash, Ends, UserInv, UserTypeOK
<1>2. request' \in [Worker -> {Idle} \cup Requested]
  BY DEF Start, Stop, Crash, Ends, UserInv, UserTypeOK
<1>3. UserList(users')
  <2>1. CASE Start
    BY <2>1, LoadedUsers DEF Start, UserInv
  <2>2. CASE Stop \/ Crash
    <3>1. users' = <<>>
      BY <2>2 DEF Stop, Crash, Ends
    <3> QED
      BY <3>1 DEF UserList
  <2> QED
    BY <2>1, <2>2
<1>4. file' \in {Missing, Torn} \/ (DOMAIN file' = {"services", "users"} /\ UserList(file'.users))
  <2>1. CASE file' = file
    BY <2>1 DEF UserInv, UserTypeOK
  <2>2. CASE file' = Defaults
    BY <2>2, LoadedUsers DEF Defaults, UserInv
  <2> QED
    BY <2>1, <2>2 DEF Start, Stop, Crash, Ends, diskVars
<1>5. UserTypeOK'
  BY <1>1, <1>2, <1>3, <1>4 DEF UserTypeOK
<1>6. AloneMeansAlone' /\ NewUsersAreNew' /\ ReadsHold'
  BY <1>1 DEF AloneMeansAlone, NewUsersAreNew, ReadsHold, Idle
<1> QED
  BY <1>5, <1>6 DEF UserInv

(* A request begins: it is alone if no other is under way, and then those  *)
(* that are cannot be. *)
LEMMA ReadsKeeps ==
  ASSUME UserInv, NEW w \in Worker, NEW user \in UserRecord,
         NEW pc \in {"add", "check", "toggle", "delete"},
         Reads(w, pc, user),
         pc # "add" => UserIndex(user.id) # {},
         pc = "add" => /\ UserIndex(user.id) = {}
                       /\ \A v \in Worker : request[v] # Idle => request[v].user.id # user.id
                       /\ UniqueToken(user.token, user.id),
         pc \in {"toggle", "delete"} => StillMayGo(user, pc)
  PROVE  UserInv'
<1> DEFINE others == {v \in Worker \ {w} : request[v] # Idle}
           mine == [pc |-> pc, user |-> user, alone |-> others = {}]
<1>1. /\ request[w] = Idle
      /\ running
      /\ UNCHANGED <<running, users, file>>
  BY DEF Reads, Locked, memoryVars, diskVars
<1>2. request' = [v \in Worker |->
                    IF v = w THEN mine
                    ELSE IF v \in others THEN [request[v] EXCEPT !.alone = FALSE] ELSE request[v]]
  BY DEF Reads, Begins
<1>3. mine \in Requested /\ mine # Idle
  <2>1. (others = {}) \in BOOLEAN
    OBVIOUS
  <2>2. mine \in Requested
    <3> HIDE DEF others
    <3> QED
      BY <2>1 DEF Requested
  <2> QED
    BY <2>2 DEF Requested, Idle
<1>4. ASSUME NEW v \in others
      PROVE  /\ request'[v] \in Requested
             /\ request'[v] # Idle
             /\ request'[v].alone = FALSE
             /\ request'[v].pc = request[v].pc
             /\ request'[v].user = request[v].user
             /\ request[v] # Idle
             /\ v # w
             /\ v \in Worker
  <2>1. request[v] \in Requested /\ v # w
    BY DEF UserInv, UserTypeOK
  <2>2. request'[v] = [request[v] EXCEPT !.alone = FALSE]
    BY <1>2, <2>1
  <2> QED
    BY <2>1, <2>2 DEF Requested, Idle
<1>5. ASSUME NEW v \in Worker, v # w, v \notin others
      PROVE  request'[v] = Idle
  BY <1>2, <1>5
<1>6. request'[w] = mine
  BY <1>2
<1> HIDE DEF mine
<1>7. UserTypeOK'
  <2>1. request' \in [Worker -> {Idle} \cup Requested]
    <3>1. \A v \in Worker : request'[v] \in {Idle} \cup Requested
      BY <1>3, <1>4, <1>5, <1>6
    <3> QED
      BY <3>1, <1>2
  <2> QED
    BY <2>1, <1>1 DEF UserInv, UserTypeOK
<1>8. mine.alone <=> others = {}
  BY DEF mine
<1>9. AloneMeansAlone'
  BY <1>4, <1>5, <1>6, <1>8 DEF AloneMeansAlone
<1>10. mine.pc = pc /\ mine.user = user
  BY DEF mine
<1>11. NewUsersAreNew'
  <2> SUFFICES ASSUME NEW x \in Worker, request'[x].pc = "add"
               PROVE  /\ \A i \in DOMAIN users' : users'[i].id # request'[x].user.id
                      /\ \A v \in Worker \ {x} :
                           request'[v] # Idle => request'[v].user.id # request'[x].user.id
    BY DEF NewUsersAreNew, UserIndex
  <2>1. x = w \/ x \in others
    BY <1>5 DEF Idle
  <2>2. CASE x = w
    BY <2>2, <1>1, <1>4, <1>5, <1>6, <1>10 DEF UserIndex
  <2>3. CASE x \in others
    <3>1. /\ UserIndex(request[x].user.id) = {}
          /\ \A v \in Worker \ {x} : request[v] # Idle => request[v].user.id # request[x].user.id
      BY <2>3, <1>4 DEF UserInv, NewUsersAreNew
    <3>2. user.id # request[x].user.id
      BY <2>3, <3>1, <1>4
    <3> QED
      BY <2>3, <3>1, <3>2, <1>1, <1>4, <1>5, <1>6, <1>10 DEF UserIndex
  <2> QED
    BY <2>1, <2>2, <2>3
<1>12. ReadsHold'
  <2> SUFFICES ASSUME NEW x \in Worker, request'[x] # Idle, request'[x].alone
               PROVE  (/\ request[x].pc \in {"toggle", "delete"} =>
                            StillMayGo(request[x].user, request[x].pc)
                       /\ request[x].pc \in {"add", "update"} =>
                            UniqueToken(request[x].user.token, request[x].user.id))'
    BY DEF ReadsHold
  <2>1. x = w
    BY <1>4, <1>5
  <2> QED
    BY <2>1, <1>1, <1>6, <1>10
       DEF StillMayGo, MayGo, EnabledUsers, UniqueToken
<1> QED
  BY <1>7, <1>9, <1>11, <1>12 DEF UserInv

LEMMA UserRequestsKeep ==
  ASSUME UserInv, NEW w \in Worker,
         CreateUser(w) \/ UpdateUser(w) \/ ToggleUser(w) \/ DeleteUser(w)
  PROVE  UserInv'
<1>1. CASE CreateUser(w)
  <2>1. PICK id \in UserId, n \in Name, e \in BOOLEAN, t \in Token \cup {None} :
          /\ UserIndex(id) = {} /\ UniqueToken(t, id)
          /\ \A v \in Worker : request[v] # Idle => request[v].user.id # id
          /\ Reads(w, "add", User(id, n, e, t))
    BY <1>1 DEF CreateUser
  <2>2. User(id, n, e, t) \in UserRecord
    BY DEF User, UserRecord
  <2>3. User(id, n, e, t).id = id /\ User(id, n, e, t).token = t
    BY DEF User
  <2> QED
    BY <2>1, <2>2, <2>3, ReadsKeeps
<1>2. ASSUME NEW i \in DOMAIN users
      PROVE  /\ users[i] \in UserRecord
             /\ UserIndex(users[i].id) # {}
  BY DEF UserInv, UserTypeOK, UserList, UserIndex
<1>3. CASE UpdateUser(w)
  <2>1. PICK i \in DOMAIN users, n \in Name, e \in BOOLEAN, t \in Token \cup {None} :
          Reads(w, "check", User(users[i].id, n, e, IF t = None THEN users[i].token ELSE t))
    BY <1>3 DEF UpdateUser
  <2> DEFINE user == User(users[i].id, n, e, IF t = None THEN users[i].token ELSE t)
  <2>2. user \in UserRecord /\ user.id = users[i].id
    BY <1>2 DEF User, UserRecord
  <2> QED
    BY <1>2, <2>1, <2>2, ReadsKeeps
<1>4. CASE ToggleUser(w)
  <2>1. PICK i \in DOMAIN users :
          MayGo(i) /\ Reads(w, "toggle", [users[i] EXCEPT !.enabled = ~@])
    BY <1>4 DEF ToggleUser
  <2> DEFINE user == [users[i] EXCEPT !.enabled = ~@]
  <2>2. /\ user \in UserRecord
        /\ user.id = users[i].id
        /\ user.token = users[i].token
        /\ user.enabled = ~users[i].enabled
    BY <1>2 DEF UserRecord
  <2>3. StillMayGo(user, "toggle")
    BY <2>1, <2>2 DEF StillMayGo
  <2> QED
    BY <1>2, <2>1, <2>2, <2>3, ReadsKeeps
<1>5. CASE DeleteUser(w)
  <2>1. PICK i \in DOMAIN users : MayGo(i) /\ Reads(w, "delete", users[i])
    BY <1>5 DEF DeleteUser
  <2>2. StillMayGo(users[i], "delete")
    BY <2>1 DEF StillMayGo
  <2> QED
    BY <1>2, <2>1, <2>2, ReadsKeeps
<1> QED
  BY <1>1, <1>3, <1>4, <1>5

LEMMA CheckTokenKeeps ==
  ASSUME UserInv, NEW w \in Worker, CheckToken(w)
  PROVE  UserInv'
<1>1. /\ request[w].pc = "check"
      /\ request[w] \in Requested
      /\ UNCHANGED <<running, users, file>>
  BY DEF CheckToken, UserInv, UserTypeOK, Idle, memoryVars, diskVars
<1>2. \/ request'[w] = Idle
      \/ /\ request'[w] \in Requested
         /\ request'[w].pc = "update"
         /\ request'[w].user = request[w].user
         /\ request'[w].alone = request[w].alone
         /\ UniqueToken(request[w].user.token, request[w].user.id)
  BY <1>1 DEF CheckToken, UserInv, UserTypeOK, Requested
<1>3. request' = [request EXCEPT ![w] = request'[w]]
  BY DEF CheckToken, UserInv, UserTypeOK
<1>4. \A v \in Worker : v # w => request'[v] = request[v]
  BY <1>3 DEF UserInv, UserTypeOK
<1>5. request[w] # Idle /\ Idle.pc = "idle"
  BY <1>1 DEF Requested, Idle
<1>6. UserTypeOK'
  <2>1. request' \in [Worker -> {Idle} \cup Requested]
    BY <1>2, <1>3 DEF UserInv, UserTypeOK
  <2>2. running
    BY DEF CheckToken, Locked
  <2> QED
    BY <1>1, <2>1, <2>2 DEF UserInv, UserTypeOK
<1>7. AloneMeansAlone'
  BY <1>2, <1>4, <1>5 DEF UserInv, AloneMeansAlone
<1>8. NewUsersAreNew'
  BY <1>1, <1>2, <1>4, <1>5 DEF UserInv, NewUsersAreNew, UserIndex
<1>9. ReadsHold'
  <2> SUFFICES ASSUME NEW x \in Worker, request'[x] # Idle, request'[x].alone
               PROVE  (/\ request[x].pc \in {"toggle", "delete"} =>
                            StillMayGo(request[x].user, request[x].pc)
                       /\ request[x].pc \in {"add", "update"} =>
                            UniqueToken(request[x].user.token, request[x].user.id))'
    BY DEF ReadsHold
  <2>1. x = w
    BY <1>4, <1>5 DEF UserInv, AloneMeansAlone
  <2> QED
    BY <1>1, <1>2, <2>1 DEF UniqueToken
<1> QED
  BY <1>6, <1>7, <1>8, <1>9 DEF UserInv

(* What the second stay of a request does to the list. *)
LEMMA StoreUserChanges ==
  ASSUME UserInv, NEW w \in Worker, StoreUser(w)
  PROVE  /\ request[w] \in Requested /\ request[w] # Idle
         /\ request[w].user \in UserRecord
         /\ request' = [request EXCEPT ![w] = Idle]
         /\ running' = running
         /\ file' \in {file, Torn}
         /\ \/ /\ request[w].pc = "add"
               /\ users' = Append(users, request[w].user)
            \/ /\ request[w].pc \in {"update", "toggle"}
               /\ \E i \in UserIndex(request[w].user.id) :
                    users' = [users EXCEPT ![i] = request[w].user]
            \/ /\ request[w].pc = "delete"
               /\ \E i \in UserIndex(request[w].user.id) : users' = RemoveAt(users, i)
            \/ /\ request[w].pc # "add"
               /\ UserIndex(request[w].user.id) = {}
               /\ users' = users
<1>1. request[w] \in Requested /\ request[w] # Idle
  BY DEF StoreUser, UserInv, UserTypeOK, Idle
<1>2. request[w].user \in UserRecord
  BY <1>1 DEF Requested
<1>3. \/ /\ request[w].pc = "add"
         /\ Changes("users", services, Append(users, request[w].user))
      \/ /\ request[w].pc \in {"update", "toggle"}
         /\ \E i \in UserIndex(request[w].user.id) :
              Changes("users", services, [users EXCEPT ![i] = request[w].user])
      \/ /\ request[w].pc = "delete"
         /\ \E i \in UserIndex(request[w].user.id) :
              Changes("users", services, RemoveAt(users, i))
      \/ /\ request[w].pc # "add" /\ UserIndex(request[w].user.id) = {}
         /\ UNCHANGED <<running, memoryVars, diskVars, attempts, work>>
  BY DEF StoreUser
<1>4. request' = [request EXCEPT ![w] = Idle]
  BY DEF StoreUser
<1> QED
  BY <1>1, <1>2, <1>3, <1>4 DEF Changes, memoryVars, diskVars

LEMMA StoreUserKeeps ==
  ASSUME UserInv, NEW w \in Worker, StoreUser(w)
  PROVE  UserInv'
<1> DEFINE user == request[w].user
<1>1. /\ request[w] \in Requested /\ request[w] # Idle
      /\ user \in UserRecord
      /\ request' = [request EXCEPT ![w] = Idle]
      /\ running' = running
      /\ file' \in {file, Torn}
  BY StoreUserChanges
<1>2. /\ request'[w] = Idle
      /\ \A v \in Worker : v # w => request'[v] = request[v]
  BY <1>1 DEF UserInv, UserTypeOK
<1>3. /\ UserList(users')
      /\ \A j \in DOMAIN users' :
           users'[j].id = user.id \/ \E i \in DOMAIN users : users'[j].id = users[i].id
  <2> DEFINE Known == /\ UserList(users')
                      /\ \A j \in DOMAIN users' :
                           users'[j].id = user.id \/ \E i \in DOMAIN users : users'[j].id = users[i].id
  <2> HIDE DEF user
  <2>1. UserList(users)
    BY DEF UserInv, UserTypeOK
  <2>2. CASE request[w].pc = "add" /\ users' = Append(users, user)
    <3>1. UserIndex(user.id) = {}
      BY <2>2, <1>1 DEF UserInv, NewUsersAreNew, user
    <3>2. UserList(users')
      BY <2>1, <2>2, <3>1, <1>1, ListChanges DEF UserIndex
    <3> QED
      BY <2>1, <2>2, <3>2, <1>1 DEF UserList
  <2>3. ASSUME NEW i \in UserIndex(user.id), users' = [users EXCEPT ![i] = user]
        PROVE  Known
    <3>1. i \in DOMAIN users /\ users[i].id = user.id
      BY DEF UserIndex
    <3>2. UserList(users')
      BY <2>1, <2>3, <3>1, <1>1, ListChanges
    <3> QED
      BY <2>1, <2>3, <3>1, <3>2 DEF UserList
  <2>4. ASSUME NEW i \in UserIndex(user.id), users' = RemoveAt(users, i)
        PROVE  Known
    <3>1. i \in DOMAIN users /\ Len(users) \in Nat /\ DOMAIN users = 1 .. Len(users)
      BY <2>1 DEF UserIndex, UserList
    <3>2. UserList(users')
      BY <2>1, <2>4, <3>1, <1>1, ListChanges
    <3>3. /\ DOMAIN users' = 1 .. Len(users) - 1
          /\ \A j \in 1 .. Len(users) - 1 :
               users'[j] = IF j < i THEN users[j] ELSE users[j + 1]
      BY <2>1, <2>4, <3>1, Removal DEF UserList
    <3> QED
      BY <3>1, <3>2, <3>3, SMTT(30)
  <2>5. CASE users' = users
    BY <2>1, <2>5
  <2> QED
    BY <2>2, <2>3, <2>4, <2>5, StoreUserChanges DEF user
<1>4. UserTypeOK'
  <2>1. request' \in [Worker -> {Idle} \cup Requested]
    BY <1>1 DEF UserInv, UserTypeOK
  <2>2. ~running' => \A v \in Worker : request'[v] = Idle
    BY <1>1, <1>2 DEF UserInv, UserTypeOK
  <2>3. file' \in {Missing, Torn} \/ (DOMAIN file' = {"services", "users"} /\ UserList(file'.users))
    BY <1>1 DEF UserInv, UserTypeOK
  <2> QED
    BY <1>3, <2>1, <2>2, <2>3 DEF UserTypeOK
<1>5. AloneMeansAlone'
  BY <1>1, <1>2 DEF UserInv, AloneMeansAlone
<1>6. NewUsersAreNew'
  <2> SUFFICES ASSUME NEW x \in Worker, request'[x].pc = "add"
               PROVE  /\ \A j \in DOMAIN users' : users'[j].id # request'[x].user.id
                      /\ \A v \in Worker \ {x} :
                           request'[v] # Idle => request'[v].user.id # request'[x].user.id
    BY DEF NewUsersAreNew, UserIndex
  <2>1. x # w /\ request'[x] = request[x]
    BY <1>2 DEF Idle
  <2>2. /\ \A i \in DOMAIN users : users[i].id # request[x].user.id
        /\ \A v \in Worker \ {x} : request[v] # Idle => request[v].user.id # request[x].user.id
    BY <2>1 DEF UserInv, NewUsersAreNew, UserIndex
  <2> QED
    BY <1>1, <1>2, <1>3, <2>1, <2>2
<1>7. ReadsHold'
  <2>1. \A x \in Worker : request'[x] # Idle => ~request'[x].alone
    BY <1>1, <1>2 DEF UserInv, AloneMeansAlone, UserTypeOK, Requested
  <2> QED
    BY <2>1 DEF ReadsHold
<1> QED
  BY <1>4, <1>5, <1>6, <1>7 DEF UserInv

LEMMA UserInit == ConfigInit => UserInv
<1> SUFFICES ASSUME ConfigInit
             PROVE  UserInv
  OBVIOUS
<1>1. UserList(users)
  BY DEF ConfigInit, UserList
<1>2. file \in {Missing, Torn} \/ (DOMAIN file = {"services", "users"} /\ UserList(file.users))
  BY ConfigurationAssumption DEF ConfigInit, UserList, AppConfig
<1>3. UserTypeOK
  BY <1>1, <1>2 DEF ConfigInit, UserTypeOK
<1> QED
  BY <1>3 DEF ConfigInit, UserInv, AloneMeansAlone, NewUsersAreNew, ReadsHold, Idle

LEMMA UserStep == UserInv /\ [ConfigNext]_configVars => UserInv'
<1> SUFFICES ASSUME UserInv, [ConfigNext]_configVars
             PROVE  UserInv'
  OBVIOUS
<1>1. CASE Start \/ Stop \/ Crash
  BY <1>1, ProcessKeepsUsers
<1>2. CASE Saved \/ SaveFails
  BY <1>2, UsersStay DEF Saved, SaveFails, diskVars
<1>3. CASE AddService \/ UpdateService \/ DeleteService \/ ReorderServices
  <2>1. /\ UNCHANGED <<running, users, request>>
        /\ file' \in {file, Torn}
    <3>1. CASE AddService
      BY <3>1 DEF AddService, ChangesServices, Changes
    <3>2. CASE UpdateService
      BY <3>2 DEF UpdateService, ChangesServices, Changes
    <3>3. CASE DeleteService
      BY <3>3 DEF DeleteService, ChangesServices, Changes
    <3>4. CASE ReorderServices
      <4>1. PICK p, ids : ChangesServices(Reordered(services, p, ids))
        BY <3>4 DEF ReorderServices
      <4> QED
        BY <4>1 DEF ChangesServices, Changes
    <3> QED
      BY <1>3, <3>1, <3>2, <3>3, <3>4
  <2> QED
    BY <2>1, UsersStay
<1>4. ASSUME NEW w \in Worker,
             CreateUser(w) \/ UpdateUser(w) \/ CheckToken(w) \/ ToggleUser(w) \/ DeleteUser(w)
               \/ StoreUser(w)
      PROVE  UserInv'
  BY <1>4, UserRequestsKeep, CheckTokenKeeps, StoreUserKeeps
<1>5. ASSUME NEW c \in Client,
             TryLogin(c) \/ LoginFails(c) \/ LoginUnreadable(c) \/ LoginSucceeds(c)
      PROVE  UserInv'
  BY <1>5, UsersStay DEF TryLogin, LoginFails, LoginUnreadable, LoginSucceeds, memoryVars, diskVars
<1>6. CASE AttemptExpires
  BY <1>6, UsersStay DEF AttemptExpires, memoryVars, diskVars
<1>7. CASE UNCHANGED configVars
  BY <1>7, UsersStay DEF configVars
<1> QED
  BY <1>1, <1>2, <1>3, <1>4, <1>5, <1>6, <1>7 DEF ConfigNext

LEMMA UsersInvariant == ConfigSpec => []UserInv
BY UserInit, UserStep, PTL DEF ConfigSpec

LEMMA MoreThanOne ==
  ASSUME UserTypeOK, NEW i \in DOMAIN users, MayGo(i), users[i].enabled
  PROVE  \E j \in DOMAIN users : j # i /\ users[j].enabled
<1> SUFFICES ASSUME \A j \in DOMAIN users : users[j].enabled => j = i
             PROVE  FALSE
  OBVIOUS
<1>1. EnabledUsers(users) = {i}
  BY DEF EnabledUsers
<1>2. Cardinality(EnabledUsers(users)) = 1
  BY <1>1, FS_Singleton
<1> QED
  BY <1>2 DEF MayGo

(* Requests to switch users off or delete them, one after the other, leave *)
(* somebody who can log in (ToggleUserHandler, DeleteUserHandler).         *)
THEOREM SomebodyCanLogIn == ConfigSpec => LastUserStays
<1> DEFINE A == \A w \in Worker : /\ request[w].pc \in {"toggle", "delete"} /\ request[w].alone
                                  /\ EnabledUsers(users) # {} /\ StoreUser(w)
                                  => EnabledUsers(users') # {}
<1>1. UserInv => A
  <2> SUFFICES ASSUME UserInv, NEW w \in Worker, request[w].pc \in {"toggle", "delete"},
                      request[w].alone, EnabledUsers(users) # {}, StoreUser(w)
               PROVE  \E j \in DOMAIN users' : users'[j].enabled
    BY DEF EnabledUsers
  <2> DEFINE user == request[w].user
  <2>1. UserList(users) /\ DOMAIN users = 1 .. Len(users) /\ Len(users) \in Nat
    BY DEF UserInv, UserTypeOK, UserList
  <2>2. request[w] # Idle
    BY StoreUserChanges
  <2>3. PICK i \in DOMAIN users :
          /\ users[i].id = user.id /\ MayGo(i)
          /\ request[w].pc = "delete" => user.enabled = users[i].enabled
          /\ request[w].pc = "toggle" => user.enabled = ~users[i].enabled
    BY <2>2 DEF UserInv, ReadsHold, StillMayGo
  <2>4. \A k \in UserIndex(user.id) : k = i
    BY <2>1, <2>3 DEF UserList, UserIndex
  <2>5. ~users[i].enabled => \E j \in DOMAIN users : j # i /\ users[j].enabled
    BY DEF EnabledUsers
  <2>6. \E j \in DOMAIN users : j # i /\ users[j].enabled
    BY <2>3, <2>5, MoreThanOne DEF UserInv
  <2>7. CASE users' = [users EXCEPT ![i] = user]
    BY <2>6, <2>7
  <2>8. CASE users' = RemoveAt(users, i)
    <3>1. PICK j \in DOMAIN users : j # i /\ users[j].enabled
      BY <2>6
    <3>2. /\ DOMAIN users' = 1 .. Len(users) - 1
          /\ \A k \in 1 .. Len(users) - 1 :
               users'[k] = IF k < i THEN users[k] ELSE users[k + 1]
      BY <2>1, <2>8, Removal DEF UserList
    <3>3. CASE j < i
      <4>1. j \in 1 .. Len(users) - 1
        BY <2>1, <3>3
      <4> QED
        BY <3>1, <3>2, <3>3, <4>1
    <3>4. CASE j > i
      <4>1. j - 1 \in 1 .. Len(users) - 1 /\ ~(j - 1 < i) /\ (j - 1) + 1 = j
        BY <2>1, <3>4
      <4>2. users'[j - 1] = users[j]
        BY <3>2, <4>1
      <4> QED
        BY <3>1, <3>2, <4>1, <4>2
    <3> QED
      BY <2>1, <3>1, <3>3, <3>4
  <2>9. CASE UserIndex(user.id) = {} /\ users' = users
    BY <2>6, <2>9
  <2> QED
    BY <2>4, <2>7, <2>8, <2>9, StoreUserChanges
<1> QED
  BY <1>1, UsersInvariant, PTL DEF LastUserStays

LEMMA OnlyRequestsChangeUsers ==
  ASSUME [ConfigNext]_configVars, running, running'
  PROVE  users' = users \/ \E w \in Worker : StoreUser(w)
<1>1. ~Start /\ ~Stop /\ ~Crash
  BY DEF Start, Stop, Crash, Ends
<1>2. CASE Saved \/ SaveFails
  BY <1>2 DEF Saved, SaveFails
<1>3. CASE AddService
  BY <1>3 DEF AddService, ChangesServices, Changes
<1>4. CASE UpdateService
  BY <1>4 DEF UpdateService, ChangesServices, Changes
<1>5. CASE DeleteService
  BY <1>5 DEF DeleteService, ChangesServices, Changes
<1>6. CASE ReorderServices
  <2>1. PICK p, ids : ChangesServices(Reordered(services, p, ids))
    BY <1>6 DEF ReorderServices
  <2> QED
    BY <2>1 DEF ChangesServices, Changes
<1>7. ASSUME NEW w \in Worker,
             CreateUser(w) \/ UpdateUser(w) \/ CheckToken(w) \/ ToggleUser(w) \/ DeleteUser(w)
      PROVE  users' = users
  BY <1>7 DEF CreateUser, UpdateUser, CheckToken, ToggleUser, DeleteUser, Reads, memoryVars
<1>8. ASSUME NEW c \in Client,
             TryLogin(c) \/ LoginFails(c) \/ LoginUnreadable(c) \/ LoginSucceeds(c)
      PROVE  users' = users
  BY <1>8 DEF TryLogin, LoginFails, LoginUnreadable, LoginSucceeds, memoryVars
<1>9. CASE AttemptExpires \/ UNCHANGED configVars
  BY <1>9 DEF AttemptExpires, memoryVars, configVars
<1> QED
  BY <1>1, <1>2, <1>3, <1>4, <1>5, <1>6, <1>7, <1>8, <1>9 DEF ConfigNext

(* Requests about users, one after the other, never give two users one     *)
(* token (ensureUniqueUserToken).                                          *)
THEOREM TokensStayUnique == ConfigSpec => TokensAreUnique
<1> DEFINE Distinct(list) == \A i, j \in DOMAIN list : list[i].token = list[j].token /\ i # j
                                                      => list[i].token = None
           Alone == \A w \in Worker : request[w] # Idle => request[w].alone
<1>1. ASSUME UserInv, [ConfigNext]_configVars, Distinct(users), running, running', Alone
      PROVE  Distinct(users')
  <2>1. CASE users' = users
    BY <1>1, <2>1
  <2>2. ASSUME NEW w \in Worker, StoreUser(w)
        PROVE  Distinct(users')
    <3> DEFINE user == request[w].user
    <3>1. /\ UserList(users)
          /\ DOMAIN users = 1 .. Len(users) /\ Len(users) \in Nat
      BY <1>1 DEF UserInv, UserTypeOK, UserList
    <3>2. request[w] # Idle /\ request[w].alone /\ user \in UserRecord
      BY <1>1, <2>2, StoreUserChanges
    <3>3. CASE request[w].pc = "delete" \/ users' = users
      <4>1. CASE users' = users
        BY <1>1, <4>1
      <4>2. ASSUME NEW i \in UserIndex(user.id), users' = RemoveAt(users, i)
            PROVE  Distinct(users')
        <5>1. i \in DOMAIN users
          BY DEF UserIndex
        <5>2. /\ DOMAIN users' = 1 .. Len(users) - 1
              /\ \A k \in 1 .. Len(users) - 1 :
                   users'[k] = IF k < i THEN users[k] ELSE users[k + 1]
          BY <3>1, <4>2, <5>1, Removal DEF UserList
        <5> DEFINE Old(k) == IF k < i THEN k ELSE k + 1
        <5>3. \A k \in DOMAIN users' :
                /\ Old(k) \in DOMAIN users
                /\ users'[k] = users[Old(k)]
                /\ \A m \in DOMAIN users' : Old(k) = Old(m) => k = m
          BY <3>1, <5>1, <5>2
        <5> HIDE DEF Old
        <5> QED
          BY <1>1, <5>3
      <4> QED
        BY <1>1, <2>2, <3>3, <4>1, <4>2, StoreUserChanges
    <3>4. CASE request[w].pc \in {"update", "toggle"} /\ users' # users
      <4>1. PICK i \in UserIndex(user.id) : users' = [users EXCEPT ![i] = user]
        BY <1>1, <2>2, <3>4, StoreUserChanges
      <4>2. i \in DOMAIN users /\ users[i].id = user.id
        BY DEF UserIndex
      <4>3. UniqueToken(user.token, user.id)
        <5>1. CASE request[w].pc = "update"
          BY <1>1, <3>2, <5>1 DEF UserInv, ReadsHold
        <5>2. CASE request[w].pc = "toggle"
          <6>1. PICK k \in DOMAIN users : users[k].id = user.id /\ users[k].token = user.token
            BY <1>1, <3>2, <5>2 DEF UserInv, ReadsHold, StillMayGo
          <6> QED
            BY <1>1, <6>1 DEF UniqueToken
        <5> QED
          BY <3>4, <5>1, <5>2
      <4>4. \A k \in DOMAIN users : k # i => users[k].id # user.id
        BY <3>1, <4>2 DEF UserList
      <4>5. user.token = None \/ \A k \in DOMAIN users : k # i => users[k].token # user.token
        BY <4>3, <4>4 DEF UniqueToken
      <4> QED
        BY <1>1, <4>1, <4>2, <4>5
    <3>5. CASE request[w].pc = "add"
      <4>1. users' = Append(users, user)
        BY <1>1, <2>2, <3>5, StoreUserChanges
      <4>2. UniqueToken(user.token, user.id) /\ UserIndex(user.id) = {}
        BY <1>1, <3>2, <3>5 DEF UserInv, ReadsHold, NewUsersAreNew
      <4>3. user.token = None \/ \A k \in DOMAIN users : users[k].token # user.token
        BY <4>2 DEF UniqueToken, UserIndex
      <4>4. /\ DOMAIN users' = 1 .. Len(users) + 1
            /\ \A k \in DOMAIN users : users'[k] = users[k]
            /\ users'[Len(users) + 1] = user
        BY <3>1, <3>2, <4>1 DEF UserList
      <4> QED
        BY <1>1, <3>1, <4>3, <4>4
    <3> QED
      BY <1>1, <2>2, <3>3, <3>4, <3>5, StoreUserChanges
  <2> QED
    BY <1>1, <2>1, <2>2, OnlyRequestsChangeUsers
<1>2. UserInv /\ [ConfigNext]_configVars
        => [Distinct(users) /\ running /\ running' /\ Alone => Distinct(users')]_configVars
  BY <1>1
<1> QED
  BY <1>2, UsersInvariant, PTL DEF ConfigSpec, TokensAreUnique

-----------------------------------------------------------------------------
(* Services: what answers, what is shown, and what a restart finds. *)

(* The largest and the smallest member of a finite set: the last and the   *)
(* first place.                                                            *)
LEMMA Extremes ==
  ASSUME NEW S \in SUBSET Int, IsFiniteSet(S), S # {}
  PROVE  Max(S) \in S /\ Min(S) \in S
<1> DEFINE R == {e \in S \X S : e[1] < e[2]}
           place == [x \in S |-> 1 + Cardinality(Preceding(S, R, x))]
<1>1. \A x, y \in S : <<x, y>> \in R <=> x < y
  OBVIOUS
<1> HIDE DEF R
<1>2. StrictTotalOrder(S, R)
  BY <1>1 DEF StrictTotalOrder
<1>3. CountsPlaces(S, R, place)
  BY DEF CountsPlaces
<1> HIDE DEF place
<1>4. Numbers(S, R, place)
  BY <1>2, <1>3, Places
<1>5. /\ Cardinality(S) \in Nat
      /\ \A x \in S : place[x] \in 1 .. Cardinality(S)
      /\ \A x, y \in S : x < y <=> place[x] < place[y]
      /\ \A k \in 1 .. Cardinality(S) : \E x \in S : place[x] = k
  BY <1>1, <1>4 DEF Numbers
<1>6. 1 \in 1 .. Cardinality(S) /\ Cardinality(S) \in 1 .. Cardinality(S)
  <2>1. PICK x : x \in S
    OBVIOUS
  <2> QED
    BY <1>5, <2>1
<1>7. \E x \in S : \A y \in S : x >= y
  <2>1. PICK x \in S : place[x] = Cardinality(S)
    BY <1>5, <1>6
  <2>2. \A y \in S : ~(x < y)
    BY <1>5, <2>1
  <2> QED
    BY <2>2
<1>8. \E x \in S : \A y \in S : x <= y
  <2>1. PICK x \in S : place[x] = 1
    BY <1>5, <1>6
  <2>2. \A y \in S : ~(y < x)
    BY <1>5, <2>1
  <2> QED
    BY <2>2
<1> QED
  BY <1>7, <1>8 DEF Max, Min

(* One more than the largest of what a list holds. *)
LEMMA MaxOfList ==
  ASSUME NEW n \in Nat, NEW T \in SUBSET (1 .. n), NEW f, \A i \in T : f[i] \in Int
  PROVE  Max({0} \cup {f[i] : i \in T}) \in Int
<1> DEFINE S == {f[i] : i \in T}
           g == [i \in T |-> f[i]]
<1>1. IsFiniteSet(T)
  <2>1. IsFiniteSet(1 .. n)
    BY FS_Interval
  <2> QED
    BY <2>1, FS_Subset
<1>2. g \in Surjection(T, S)
  BY DEF Surjection
<1>3. S \in SUBSET Int
  OBVIOUS
<1> HIDE DEF S, g
<1>4. IsFiniteSet(S)
  BY <1>1, <1>2, FS_Surjection
<1>5. IsFiniteSet({0} \cup S)
  BY <1>4, FS_Singleton, FS_Union
<1>6. {0} \cup S \in SUBSET Int /\ {0} \cup S # {}
  BY <1>3
<1>7. Max({0} \cup S) \in {0} \cup S
  BY <1>5, <1>6, Extremes
<1> QED
  BY <1>6, <1>7 DEF S

(* A list of services with identifiers of their own. *)
ServiceList(list) ==
  /\ list \in Seq(ServiceRecord)
  /\ \A i, j \in DOMAIN list : list[i].id = list[j].id => i = j

(* What every change leaves. *)
Sound(list) == ServiceList(list) /\ \A p \in Port : Ordered(list, p)

(* A change is sound if it leaves the other ports in order: its own is     *)
(* renumbered.                                                             *)
LEMMA NormalisedIsSound ==
  ASSUME NEW list, ServiceList(list), NEW port, \A p \in Port \ {port} : Ordered(list, p)
  PROVE  Sound(Normalised(list, port))
<1>1. /\ Renumbered(list, Normalised(list, port))
      /\ Ordered(Normalised(list, port), port)
      /\ \A q : q # port /\ Ordered(list, q) => Ordered(Normalised(list, port), q)
  BY NormalisedOrders DEF ServiceList
<1>2. ServiceList(Normalised(list, port))
  BY <1>1 DEF ServiceList, Renumbered
<1> QED
  BY <1>1, <1>2 DEF Sound

(* What keeps a part of a port's services keeps its order. *)
LEMMA PartIsOrdered ==
  ASSUME NEW list, NEW new, NEW port, Ordered(list, port), NEW from,
         \A j \in OfPort(new, port) : /\ from[j] \in OfPort(list, port)
                                      /\ new[j].order = list[from[j]].order,
         \A j, k \in OfPort(new, port) : from[j] = from[k] => j = k
  PROVE  Ordered(new, port)
BY DEF Ordered

LEMMA AddedIsSound ==
  ASSUME Sound(services), NEW id \in ServiceId, Indexed(services, id) = {},
         NEW service \in Submitted(id)
  PROVE  Sound(Added(services, service))
<1> DEFINE T == {j \in OfPort(services, service.port) : ~IsDefault(services[j])}
           orders == {services[i].order : i \in T}
           clock == 1 + Max({0} \cup {services[i].created : i \in DOMAIN services})
           placed == [service EXCEPT !.created = clock,
                                     !.order = IF @ <= 0 THEN Max({0} \cup orders) + 1 ELSE @]
           list == Append(services, placed)
<1>1. /\ services \in Seq(ServiceRecord) /\ Len(services) \in Nat
      /\ DOMAIN services = 1 .. Len(services)
      /\ \A i \in DOMAIN services : services[i] \in ServiceRecord
  BY DEF Sound, ServiceList
<1>2. Max({0} \cup orders) \in Int
  <2> DEFINE f == [i \in DOMAIN services |-> services[i].order]
  <2>1. T \in SUBSET (1 .. Len(services)) /\ \A i \in T : f[i] \in Int
    BY <1>1 DEF OfPort, ServiceRecord
  <2>2. orders = {f[i] : i \in T}
    BY <1>1 DEF OfPort
  <2> HIDE DEF T, f, orders
  <2> QED
    BY <1>1, <2>1, <2>2, MaxOfList
<1>3. clock \in Int
  <2> DEFINE f == [i \in DOMAIN services |-> services[i].created]
             createds == {services[i].created : i \in DOMAIN services}
             U == DOMAIN services
  <2>1. U \in SUBSET (1 .. Len(services)) /\ \A i \in U : f[i] \in Int
    BY <1>1 DEF ServiceRecord
  <2>2. createds = {f[i] : i \in U}
    OBVIOUS
  <2>3. clock = 1 + Max({0} \cup createds)
    OBVIOUS
  <2> HIDE DEF f, U, createds, clock
  <2>4. Max({0} \cup createds) \in Int
    BY <1>1, <2>1, <2>2, MaxOfList
  <2> QED
    BY <2>3, <2>4
<1>4. service \in ServiceRecord /\ service.id = id /\ service.port \in Port
  BY ConfigurationAssumption DEF Submitted, Service, ServiceRecord
<1> HIDE DEF clock, orders
<1>5. placed \in ServiceRecord /\ placed.id = id /\ placed.port = service.port
  <2>1. PICK order \in Int : order = IF service.order <= 0 THEN Max({0} \cup orders) + 1
                                     ELSE service.order
    BY <1>2, <1>4 DEF ServiceRecord
  <2>2. placed = [service EXCEPT !.created = clock, !.order = order]
    BY <2>1
  <2> QED
    BY <1>3, <1>4, <2>2 DEF ServiceRecord
<1> HIDE DEF placed
<1>6. /\ list \in Seq(ServiceRecord)
      /\ DOMAIN list = 1 .. Len(services) + 1
      /\ \A i \in DOMAIN services : list[i] = services[i]
      /\ list[Len(services) + 1] = placed
  BY <1>1, <1>5
<1> HIDE DEF list
<1>7. ServiceList(list)
  <2>1. \A i \in DOMAIN services : services[i].id # id
    BY DEF Indexed
  <2>2. \A i, j \in DOMAIN services : services[i].id = services[j].id => i = j
    BY DEF ServiceList, Sound
  <2>3. \A i \in DOMAIN list : i \in DOMAIN services \/ i = Len(services) + 1
    BY <1>1, <1>6
  <2>4. \A i, j \in DOMAIN list : list[i].id = list[j].id => i = j
    BY <1>5, <1>6, <2>1, <2>2, <2>3
  <2> QED
    BY <1>6, <2>4 DEF ServiceList
<1>8. \A p \in Port \ {service.port} : Ordered(list, p)
  <2> TAKE p \in Port \ {service.port}
  <2>1. /\ OfPort(list, p) = OfPort(services, p)
        /\ \A i \in OfPort(list, p) : list[i] = services[i]
    BY <1>1, <1>5, <1>6 DEF OfPort
  <2> QED
    BY <2>1 DEF Sound, Ordered
<1>9. Added(services, service) = Normalised(list, service.port)
  BY DEF Added, list, placed, clock, orders
<1> QED
  BY <1>7, <1>8, <1>9, NormalisedIsSound

LEMMA UpdatedIsSound ==
  ASSUME Sound(services), NEW i \in DOMAIN services, NEW service \in Submitted(services[i].id)
  PROVE  Sound(Updated(services, i, service))
<1> DEFINE placed == [service EXCEPT !.created = services[i].created,
                                     !.order = IF @ <= 0 THEN services[i].order ELSE @]
           list == [services EXCEPT ![i] = placed]
<1>1. /\ services \in Seq(ServiceRecord)
      /\ \A j \in DOMAIN services : services[j] \in ServiceRecord
  BY DEF Sound, ServiceList
<1>2. services[i].id \in ServiceId
  BY <1>1 DEF ServiceRecord
<1>3. service \in ServiceRecord /\ service.id = services[i].id
  BY <1>2, ConfigurationAssumption DEF Submitted, Service, ServiceRecord
<1>4. placed \in ServiceRecord /\ placed.id = services[i].id /\ placed.port = service.port
  BY <1>1, <1>3 DEF ServiceRecord
<1> HIDE DEF placed
<1>5. /\ list \in Seq(ServiceRecord) /\ DOMAIN list = DOMAIN services
      /\ list[i] = placed /\ \A j \in DOMAIN services : j # i => list[j] = services[j]
  BY <1>1, <1>4
<1> HIDE DEF list
<1>6. ServiceList(list)
  <2>1. \A j \in DOMAIN services : list[j].id = services[j].id
    BY <1>4, <1>5
  <2> QED
    BY <1>5, <2>1 DEF ServiceList, Sound
<1>7. \A p \in Port \ {service.port} : Ordered(list, p)
  <2> TAKE p \in Port \ {service.port}
  <2>1. \A j \in OfPort(list, p) : j \in OfPort(services, p) /\ list[j] = services[j]
    BY <1>4, <1>5 DEF OfPort
  <2> QED
    BY <2>1 DEF Sound, Ordered
<1>8. Updated(services, i, service) = Normalised(list, service.port)
  BY DEF Updated, list, placed
<1> QED
  BY <1>6, <1>7, <1>8, NormalisedIsSound

LEMMA DeletedIsSound ==
  ASSUME Sound(services), NEW i \in DOMAIN services
  PROVE  Sound(Deleted(services, i))
<1> DEFINE list == RemoveAt(services, i)
           from == [j \in 1 .. Len(services) - 1 |-> IF j < i THEN j ELSE j + 1]
<1>1. services \in Seq(ServiceRecord) /\ Len(services) \in Nat /\ i \in 1 .. Len(services)
  BY DEF Sound, ServiceList
<1>2. /\ list \in Seq(ServiceRecord)
      /\ DOMAIN list = 1 .. Len(services) - 1
      /\ \A j \in 1 .. Len(services) - 1 :
           list[j] = IF j < i THEN services[j] ELSE services[j + 1]
  BY <1>1, Removal
<1> HIDE DEF list
<1>3. /\ \A j \in DOMAIN list : from[j] \in DOMAIN services /\ list[j] = services[from[j]]
      /\ \A j, k \in DOMAIN list : from[j] = from[k] => j = k
  BY <1>1, <1>2
<1> HIDE DEF from
<1>4. ServiceList(list)
  BY <1>2, <1>3 DEF ServiceList, Sound
<1>5. \A p \in Port \ {services[i].port} : Ordered(list, p)
  <2> TAKE p \in Port \ {services[i].port}
  <2>1. \A j \in OfPort(list, p) : /\ from[j] \in OfPort(services, p)
                                   /\ list[j].order = services[from[j]].order
    BY <1>3 DEF OfPort
  <2>2. \A j, k \in OfPort(list, p) : from[j] = from[k] => j = k
    BY <1>3 DEF OfPort
  <2>3. Ordered(services, p)
    BY DEF Sound
  <2> QED
    BY <2>1, <2>2, <2>3, PartIsOrdered
<1> QED
  BY <1>4, <1>5, NormalisedIsSound DEF Deleted, list

LEMMA ReorderedIsSound ==
  ASSUME Sound(services), NEW port, NEW ids, DOMAIN ids \in SUBSET Int, IsFiniteSet(DOMAIN ids),
         Len(ids) \in Int
  PROVE  Sound(Reordered(services, port, ids))
<1> DEFINE moved == {i \in OfPort(services, port) : ~IsDefault(services[i])}
           Named(i) == {k \in DOMAIN ids : ids[k] = services[i].id}
           Number(i) == IF Named(i) # {} THEN Min(Named(i))
                        ELSE Len(ids) + Cardinality({j \in moved : j <= i /\ Named(j) = {}})
           list == [i \in DOMAIN services |->
                      IF i \in moved THEN [services[i] EXCEPT !.order = Number(i)]
                      ELSE services[i]]
<1>1. /\ services \in Seq(ServiceRecord) /\ Len(services) \in Nat
      /\ DOMAIN services = 1 .. Len(services)
      /\ \A i \in DOMAIN services : services[i] \in ServiceRecord
  BY DEF Sound, ServiceList
<1>2. \A i : Number(i) \in Int
  <2> TAKE i
  <2>1. CASE Named(i) # {}
    <3>1. Named(i) \in SUBSET DOMAIN ids
      OBVIOUS
    <3> HIDE DEF Named
    <3>2. Named(i) \in SUBSET Int /\ IsFiniteSet(Named(i))
      BY <3>1, FS_Subset
    <3>3. Min(Named(i)) \in Int
      BY <2>1, <3>2, Extremes
    <3> QED
      BY <2>1, <3>3
  <2>2. CASE Named(i) = {}
    <3> DEFINE U == {j \in moved : j <= i /\ Named(j) = {}}
    <3>1. U \in SUBSET OfPort(services, port)
      OBVIOUS
    <3>2. IsFiniteSet(OfPort(services, port))
      BY <1>1, OfPortIsFinite
    <3>3. Number(i) = Len(ids) + Cardinality(U)
      BY <2>2
    <3> HIDE DEF U, Number
    <3>4. Cardinality(U) \in Nat
      BY <3>1, <3>2, FS_Subset, FS_CardinalityType
    <3> QED
      BY <3>3, <3>4
  <2> QED
    BY <2>1, <2>2
<1> HIDE DEF Number
<1>3. \A i \in DOMAIN services :
        /\ list[i] \in ServiceRecord
        /\ list[i].id = services[i].id /\ list[i].port = services[i].port
        /\ services[i].port # port => list[i] = services[i]
  <2> TAKE i \in DOMAIN services
  <2>1. CASE i \in moved
    <3>1. list[i] = [services[i] EXCEPT !.order = Number(i)] /\ services[i].port = port
      BY <2>1 DEF OfPort
    <3>2. services[i] \in ServiceRecord /\ Number(i) \in Int
      BY <1>1, <1>2
    <3> HIDE DEF list
    <3> QED
      BY <3>1, <3>2 DEF ServiceRecord
  <2>2. CASE i \notin moved
    <3>1. list[i] = services[i]
      BY <2>2
    <3> HIDE DEF list
    <3> QED
      BY <1>1, <3>1
  <2> QED
    BY <2>1, <2>2
<1>4. DOMAIN list = DOMAIN services /\ list = [i \in DOMAIN services |-> list[i]]
  OBVIOUS
<1> HIDE DEF list
<1>5. list \in Seq(ServiceRecord)
  BY <1>1, <1>3, <1>4
<1>6. ServiceList(list)
  BY <1>3, <1>4, <1>5 DEF ServiceList, Sound
<1>7. \A p \in Port \ {port} : Ordered(list, p)
  <2> TAKE p \in Port \ {port}
  <2>1. /\ OfPort(list, p) = OfPort(services, p)
        /\ \A i \in OfPort(list, p) : list[i] = services[i]
    BY <1>3, <1>4 DEF OfPort
  <2> QED
    BY <2>1 DEF Sound, Ordered
<1>8. Reordered(services, port, ids) = Normalised(list, port)
  BY DEF Reordered, list, Number
<1> QED
  BY <1>6, <1>7, <1>8, NormalisedIsSound


(* The services in memory are sound after every change, and what is in the *)
(* file is what Load makes memory of.  What is read back is known only     *)
(* when no write is under way and none was given up: then the file holds   *)
(* the numbers memory has, or those that Load normalised.                  *)
ServiceInv ==
  /\ Sound(services)
  /\ file \in {Missing, Torn} \/ (file \in AppConfig /\ ServiceList(file.services))
  /\ running => file # Missing
  /\ saving => file = Torn
  /\ running /\ ~saving /\ ~behind /\ file # Torn =>
       /\ Loaded.users = users
       /\ services \in {file.services, NormalisedAll(file.services)}

LEMMA NothingIsSound == Sound(<<>>)
<1>1. <<>> \in Seq(ServiceRecord) /\ DOMAIN <<>> = {}
  OBVIOUS
<1>2. \A p : OfPort(<<>>, p) = {}
  BY <1>1 DEF OfPort
<1> QED
  BY <1>1, <1>2 DEF Sound, ServiceList, Ordered

LEMMA NormalisedAllIsSound ==
  ASSUME NEW list, ServiceList(list)
  PROVE  Sound(NormalisedAll(list))
<1>1. /\ Renumbered(list, NormalisedAll(list))
      /\ \A p : Ordered(NormalisedAll(list), p)
  BY NormalisedAllOrders DEF ServiceList
<1> QED
  BY <1>1 DEF Sound, ServiceList, Renumbered

(* What the program is delivered with can be in the file. *)
LEMMA DefaultsAreWritten ==
  /\ Defaults \in AppConfig /\ Defaults \notin {Missing, Torn} /\ Defaults.services = <<>>
<1>1. User("admin", "admin", TRUE, None) \in UserRecord
  BY ConfigurationAssumption DEF User, UserRecord
<1>2. <<User("admin", "admin", TRUE, None)>> \in Seq(UserRecord)
  <2> DEFINE u == User("admin", "admin", TRUE, None)
  <2>1. u \in UserRecord
    BY <1>1
  <2> HIDE DEF u
  <2>2. <<u>> \in Seq(UserRecord)
    BY <2>1
  <2> QED
    BY <2>2 DEF u
<1>3. <<>> \in Seq(ServiceRecord)
  OBVIOUS
<1>4. Defaults \in AppConfig /\ Defaults.services = <<>>
  BY <1>2, <1>3 DEF Defaults, AppConfig
<1> QED
  BY <1>4, ConfigurationAssumption

LEMMA ServiceInit == ConfigInit => ServiceInv
<1> SUFFICES ASSUME ConfigInit
             PROVE  ServiceInv
  OBVIOUS
<1>1. file \in {Missing, Torn} \/ (file \in AppConfig /\ ServiceList(file.services))
  BY ConfigurationAssumption DEF ConfigInit, ServiceList, AppConfig
<1>2. Sound(services)
  BY NothingIsSound DEF ConfigInit
<1> QED
  BY <1>1, <1>2 DEF ConfigInit, ServiceInv

(* Steps that touch neither memory nor the file. *)
LEMMA ServicesStay ==
  ASSUME ServiceInv, UNCHANGED <<running, services, users, saving, file, behind>>
  PROVE  ServiceInv'
BY DEF ServiceInv, Sound, ServiceList, Loaded

(* A change begins to be written, or is not written at all. *)
LEMMA ChangesKeep ==
  ASSUME ServiceInv, NEW kind, NEW list, Sound(list), NEW us, Changes(kind, list, us)
  PROVE  ServiceInv'
<1>1. Sound(services)'
  BY DEF Changes
<1>2. /\ running' = running /\ running
      /\ (file' = Torn /\ saving' = TRUE) \/ (file' = file /\ saving' = saving /\ behind' = TRUE)
  BY DEF Changes, Locked
<1>3. ~saving
  BY DEF Changes, Locked
<1>4. file' \in {Missing, Torn} \/ (file' \in AppConfig /\ ServiceList(file'.services))
  BY <1>2 DEF ServiceInv
<1>5. file' # Missing
  BY <1>2, ConfigurationAssumption DEF ServiceInv
<1> QED
  BY <1>1, <1>2, <1>3, <1>4, <1>5 DEF ServiceInv

LEMMA ProcessKeepsServices ==
  ASSUME ServiceInv, Start \/ Stop \/ Crash
  PROVE  ServiceInv'
<1>1. CASE Stop \/ Crash
  <2>1. running' = FALSE /\ saving' = FALSE /\ services' = <<>> /\ file' = file
    BY <1>1 DEF Stop, Crash, Ends, diskVars
  <2>2. Sound(services)'
    BY <2>1, NothingIsSound
  <2> QED
    BY <2>1, <2>2 DEF ServiceInv
<1>2. CASE Start
  <2>1. /\ ~running /\ running' = TRUE /\ saving' = saving /\ behind' = behind
        /\ services' = Loaded.services /\ users' = Loaded.users
        /\ file' = IF file = Missing THEN Defaults ELSE file
    BY <1>2 DEF Start
  <2>2. CASE file \in {Missing, Torn}
    <3>1. Loaded = Defaults
      BY <2>2 DEF Loaded
    <3>2. Sound(services')
      BY <2>1, <3>1, DefaultsAreWritten, NothingIsSound
    <3>3. CASE file = Torn
      <4>1. file' = Torn /\ Torn # Missing
        BY <2>1, <3>3, ConfigurationAssumption
      <4> QED
        BY <2>1, <3>2, <4>1 DEF ServiceInv
    <3>4. CASE file = Missing
      <4>1. file' = Defaults /\ ~saving
        BY <2>1, <3>4, ConfigurationAssumption DEF ServiceInv
      <4>2. ServiceList(file'.services)
        BY <4>1, DefaultsAreWritten, NothingIsSound DEF Sound
      <4>3. Loaded' = [Defaults EXCEPT !.services = NormalisedAll(@)]
        BY <4>1, DefaultsAreWritten DEF Loaded
      <4>4. Loaded'.users = Defaults.users
        BY <4>3, DefaultsAreWritten DEF AppConfig
      <4>5. users' = Defaults.users /\ services' = file'.services
        BY <2>1, <3>1, <4>1
      <4> QED
        BY <2>1, <3>2, <4>1, <4>2, <4>4, <4>5, DefaultsAreWritten DEF ServiceInv
    <3> QED
      BY <2>2, <3>3, <3>4
  <2>3. CASE file \notin {Missing, Torn}
    <3>1. file \in AppConfig /\ ServiceList(file.services) /\ file' = file
      BY <2>1, <2>3 DEF ServiceInv
    <3>2. Loaded = [file EXCEPT !.services = NormalisedAll(@)]
      BY <2>3 DEF Loaded
    <3>3. Loaded.services = NormalisedAll(file.services)
      BY <3>1, <3>2 DEF AppConfig
    <3>4. Sound(services')
      BY <2>1, <3>1, <3>3, NormalisedAllIsSound
    <3>5. Loaded' = Loaded
      BY <3>1 DEF Loaded
    <3> QED
      BY <2>1, <2>3, <3>1, <3>3, <3>4, <3>5 DEF ServiceInv
  <2> QED
    BY <2>2, <2>3
<1> QED
  BY <1>1, <1>2

LEMMA SavingKeepsServices ==
  ASSUME ServiceInv, UserList(users), Saved \/ SaveFails
  PROVE  ServiceInv'
<1>1. CASE SaveFails
  <2>1. file = Torn /\ saving' = FALSE /\ UNCHANGED <<running, services, users, file, behind>>
    BY <1>1 DEF SaveFails, ServiceInv, diskVars
  <2>2. Sound(services)'
    BY <2>1 DEF ServiceInv
  <2> QED
    BY <2>1, <2>2, ConfigurationAssumption DEF ServiceInv
<1>2. CASE Saved
  <2>1. file' = Contents /\ saving' = FALSE /\ UNCHANGED <<running, services, users>>
    BY <1>2 DEF Saved
  <2>2. Contents \in AppConfig /\ Contents.services = services /\ Contents.users = users
    BY DEF ServiceInv, Sound, ServiceList, UserList, Contents, AppConfig
  <2>3. Contents \notin {Missing, Torn}
    BY <2>2, ConfigurationAssumption
  <2>4. Sound(services)' /\ ServiceList(file'.services)
    BY <2>1, <2>2 DEF ServiceInv, Sound
  <2>5. Loaded' = [Contents EXCEPT !.services = NormalisedAll(@)]
    BY <2>1, <2>3 DEF Loaded
  <2>6. Loaded'.users = users
    BY <2>2, <2>5 DEF AppConfig
  <2> QED
    BY <2>1, <2>2, <2>3, <2>4, <2>6 DEF ServiceInv
<1> QED
  BY <1>1, <1>2

LEMMA ServiceStep == ServiceInv /\ UserInv /\ [ConfigNext]_configVars => ServiceInv'
<1> SUFFICES ASSUME ServiceInv, UserInv, [ConfigNext]_configVars
             PROVE  ServiceInv'
  OBVIOUS
<1>1. CASE Start \/ Stop \/ Crash
  BY <1>1, ProcessKeepsServices
<1>2. CASE Saved \/ SaveFails
  BY <1>2, SavingKeepsServices DEF UserInv, UserTypeOK
<1>3. Sound(services)
  BY DEF ServiceInv
<1>4. CASE AddService
  <2>1. PICK id \in ServiceId :
          /\ Indexed(services, id) = {}
          /\ \E s \in Submitted(id) : ChangesServices(Added(services, s))
    BY <1>4 DEF AddService
  <2>2. PICK s \in Submitted(id) : ChangesServices(Added(services, s))
    BY <2>1
  <2>3. Sound(Added(services, s))
    BY <1>3, <2>1, AddedIsSound
  <2> QED
    BY <2>2, <2>3, ChangesKeep DEF ChangesServices
<1>5. CASE UpdateService
  <2>1. PICK i \in DOMAIN services :
          \E s \in Submitted(services[i].id) : ChangesServices(Updated(services, i, s))
    BY <1>5 DEF UpdateService
  <2>2. PICK s \in Submitted(services[i].id) : ChangesServices(Updated(services, i, s))
    BY <2>1
  <2>3. Sound(Updated(services, i, s))
    BY <1>3, UpdatedIsSound
  <2> QED
    BY <2>2, <2>3, ChangesKeep DEF ChangesServices
<1>6. CASE DeleteService
  <2>1. PICK i \in DOMAIN services : ChangesServices(Deleted(services, i))
    BY <1>6 DEF DeleteService
  <2>2. Sound(Deleted(services, i))
    BY <1>3, DeletedIsSound
  <2> QED
    BY <2>1, <2>2, ChangesKeep DEF ChangesServices
<1>7. CASE ReorderServices
  <2>1. PICK p \in Port, ids \in {<<a, b>> : a, b \in ServiceId} :
          ChangesServices(Reordered(services, p, ids))
    BY <1>7 DEF ReorderServices
  <2>2. DOMAIN ids = 1 .. 2 /\ Len(ids) = 2
    BY <2>1
  <2>3. DOMAIN ids \in SUBSET Int /\ IsFiniteSet(DOMAIN ids) /\ Len(ids) \in Int
    <3>1. PICK n \in Int : n = 2
      OBVIOUS
    <3>2. IsFiniteSet(1 .. n) /\ 1 .. n \in SUBSET Int
      BY FS_Interval
    <3> QED
      BY <2>2, <3>1, <3>2
  <2>4. Sound(Reordered(services, p, ids))
    BY <1>3, <2>3, ReorderedIsSound
  <2> QED
    BY <2>1, <2>4, ChangesKeep DEF ChangesServices
<1>8. ASSUME NEW w \in Worker,
             CreateUser(w) \/ UpdateUser(w) \/ CheckToken(w) \/ ToggleUser(w) \/ DeleteUser(w)
      PROVE  ServiceInv'
  BY <1>8, ServicesStay
     DEF CreateUser, UpdateUser, CheckToken, ToggleUser, DeleteUser, Reads, memoryVars, diskVars
<1>9. ASSUME NEW w \in Worker, StoreUser(w)
      PROVE  ServiceInv'
  <2>1. \/ UNCHANGED <<running, services, users, saving, file, behind>>
        \/ \E us : Changes("users", services, us)
    BY <1>9 DEF StoreUser, memoryVars, diskVars
  <2> QED
    BY <1>3, <2>1, ServicesStay, ChangesKeep
<1>10. ASSUME NEW c \in Client,
             TryLogin(c) \/ LoginFails(c) \/ LoginUnreadable(c) \/ LoginSucceeds(c)
      PROVE  ServiceInv'
  BY <1>10, ServicesStay
     DEF TryLogin, LoginFails, LoginUnreadable, LoginSucceeds, memoryVars, diskVars
<1>11. CASE AttemptExpires
  BY <1>11, ServicesStay DEF AttemptExpires, memoryVars, diskVars
<1>12. CASE UNCHANGED configVars
  BY <1>12, ServicesStay DEF configVars
<1> QED
  BY <1>1, <1>2, <1>4, <1>5, <1>6, <1>7, <1>8, <1>9, <1>10, <1>11, <1>12 DEF ConfigNext

LEMMA ServicesInvariant == ConfigSpec => []ServiceInv
BY UsersInvariant, ServiceInit, ServiceStep, PTL DEF ConfigSpec

(* After every history of additions, updates, deletions, reorderings,      *)
(* crashes and restarts, the service that answers for a host is the one    *)
(* that fits most closely and has the smallest number                      *)
(* (normalizeServiceOrderLocked, GetServicesByPort and matchServiceRoute). *)
THEOREM RoutingStaysPromised == ConfigSpec => []RoutingIsPromised
<1>1. ServiceInv => RoutingIsPromised
  <2> SUFFICES ASSUME ServiceInv, NEW p \in Port, NEW h \in Host
               PROVE  Answering(services, p, h) = Promised(services, p, h)
    BY DEF RoutingIsPromised
  <2> QED
    BY OrderedMeansPromised DEF ServiceInv, Sound, ServiceList
<1> QED
  BY <1>1, ServicesInvariant, PTL

(* The routes of a port have identifiers of their own, so that the second  *)
(* loop over the services chooses the certificate of the one that answers  *)
(* (matchCertificateByServiceBindingLocked).                               *)
THEOREM ServicesShowTheirCertificates == ConfigSpec => []ServiceShowsItsCertificate
<1>1. ServiceInv => ServiceShowsItsCertificate
  <2> SUFFICES ASSUME ServiceInv, NEW p \in Port, NEW h \in Host,
                      NEW bound \in Bindings, NEW loaded \in SUBSET Certificate
               PROVE  ShowsItsCertificate(Routes(services, p), bound, loaded, h)
    BY DEF ServiceShowsItsCertificate
  <2>1. services \in Seq(ServiceRecord) /\ Ordered(services, p)
    BY DEF ServiceInv, Sound, ServiceList
  <2>2. PICK at : RoutesAre(services, p, at)
    BY <2>1, RoutesInOrder
  <2> DEFINE routes == Routes(services, p)
  <2>3. ASSUME NEW k \in DOMAIN routes, NEW m \in DOMAIN routes, routes[k].id = routes[m].id
        PROVE  k = m
    <3>1. /\ k \in DOMAIN at /\ m \in DOMAIN at
          /\ routes[k] = services[at[k]] /\ routes[m] = services[at[m]]
          /\ at[k] \in OfPort(services, p) /\ at[m] \in OfPort(services, p)
      BY <2>2 DEF RoutesAre, EnabledOf
    <3>2. at[k] = at[m]
      BY <2>3, <3>1 DEF ServiceInv, Sound, ServiceList, OfPort
    <3>3. k \in Int /\ m \in Int
      BY <2>2 DEF RoutesAre
    <3>4. (k < m <=> Ahead(services, at[k], at[m])) /\ (m < k <=> Ahead(services, at[m], at[k]))
      BY <2>2, <3>1 DEF RoutesAre
    <3>5. services[at[k]].order \in Int
      BY <2>1, <3>1, OfPortIsFinite DEF ServiceRecord
    <3>6. ~Ahead(services, at[k], at[k])
      BY <3>5 DEF Ahead
    <3> QED
      BY <3>2, <3>3, <3>4, <3>6
  <2>4. DOMAIN routes \subseteq Int
    BY <2>2 DEF RoutesAre
  <2> HIDE DEF routes
  <2>5. ShowsItsCertificate(routes, bound, loaded, h)
    BY <2>3, <2>4, RouteAndCertificateAgree
  <2> QED
    BY <2>5 DEF routes
<1> QED
  BY <1>1, ServicesInvariant, PTL

(* A restart after a write that was finished finds the users, and services *)
(* that answer as those in memory: Load numbers them anew, but in the      *)
(* order they have (Load and normalizeAllServiceOrdersLocked).             *)
THEOREM RestartFindsWhatWasSaved == ConfigSpec => []FileRestores
<1>1. ServiceInv => FileRestores
  <2> SUFFICES ASSUME ServiceInv, running, ~saving, ~behind, file # Torn
               PROVE  /\ Loaded.users = users
                      /\ \A p \in Port, h \in Host :
                           Answering(Loaded.services, p, h) = Answering(services, p, h)
    BY DEF FileRestores
  <2>1. /\ file \in AppConfig /\ file \notin {Missing, Torn}
        /\ Loaded.users = users
        /\ services \in {file.services, NormalisedAll(file.services)}
    BY DEF ServiceInv
  <2>2. Loaded.services = NormalisedAll(file.services)
    BY <2>1 DEF Loaded, AppConfig
  <2>3. ASSUME NEW p \in Port, NEW h \in Host, services = file.services
        PROVE  Answering(Loaded.services, p, h) = Answering(services, p, h)
    <3>1. services \in Seq(ServiceRecord) /\ Ordered(services, p)
      BY DEF ServiceInv, Sound, ServiceList
    <3> DEFINE new == NormalisedAll(services)
    <3>2. new \in Seq(ServiceRecord) /\ Ordered(new, p)
      BY <3>1, NormalisedAllOrders DEF Renumbered
    <3>3. Promised(new, p, h) = Promised(services, p, h)
      BY <3>1, RenumberingPromises
    <3> HIDE DEF new
    <3>4. Answering(new, p, h) = Promised(new, p, h)
      BY <3>2, OrderedMeansPromised
    <3>5. Answering(services, p, h) = Promised(services, p, h)
      BY <3>1, OrderedMeansPromised
    <3> QED
      BY <2>2, <2>3, <3>3, <3>4, <3>5 DEF new
  <2>4. services = NormalisedAll(file.services) => Loaded.services = services
    BY <2>2
  <2> QED
    BY <2>1, <2>3, <2>4
<1> QED
  BY <1>1, ServicesInvariant, PTL

=============================================================================
