----------------------------- MODULE JobListProofs -----------------------------
(***************************************************************************)
(* The table of the job list, for all lists of jobs of any length, all     *)
(* searches and all sets of status tokens: it shows each job once, in any  *)
(* order and grouping, with the filter that was asked for, and its cursor  *)
(* stays on its row.  The table is what DisplayRows makes of the list, so  *)
(* that the theorems rest on lemmas about the order and the grouping.      *)
(***************************************************************************)
EXTENDS JobList, FunctionTheorems, FiniteSetTheorems, TLAPS

-----------------------------------------------------------------------------
(* The members of a finite set in the order of their ranks.                *)

\* before has the pairs of a strict and total order of S.
OrdersStrictly(before, S) ==
    /\ \A x \in S : <<x, x>> \notin before
    /\ \A x, y \in S : x # y => <<x, y>> \in before \/ <<y, x>> \in before
    /\ \A x, y, z \in S :
          <<x, y>> \in before /\ <<y, z>> \in before => <<x, z>> \in before

\* order has each member of S at one place.
ListsOnce(order, S) ==
    /\ \E n \in Nat : DOMAIN order = 1..n
    /\ \A n \in DOMAIN order : order[n] \in S
    /\ \A n, m \in DOMAIN order : order[n] = order[m] => n = m
    /\ \A x \in S : \E n \in DOMAIN order : order[n] = x

LEMMA SuborderIsStrict ==
  ASSUME NEW before, NEW S, NEW T \in SUBSET S, OrdersStrictly(before, S)
  PROVE  OrdersStrictly(before, T)
  BY DEF OrdersStrictly

\* What comes later has more before it.
LEMMA LaterHasMoreBefore ==
  ASSUME NEW before, NEW S, IsFiniteSet(S), OrdersStrictly(before, S),
         NEW x \in S, NEW y \in S, <<x, y>> \in before
  PROVE  /\ Cardinality({z \in S : <<z, x>> \in before}) \in Nat
         /\ Cardinality({z \in S : <<z, y>> \in before}) \in Nat
         /\ Cardinality({z \in S : <<z, x>> \in before})
              < Cardinality({z \in S : <<z, y>> \in before})
<1> DEFINE U == {z \in S : <<z, x>> \in before}
           V == {z \in S : <<z, y>> \in before}
<1>1. IsFiniteSet(U) /\ IsFiniteSet(V)
  BY FS_Subset
<1>2. U \subseteq V
  BY DEF OrdersStrictly
<1>3. x \in V /\ x \notin U
  BY DEF OrdersStrictly
<1>4. Cardinality(U) \in Nat /\ Cardinality(V) \in Nat
  BY <1>1, FS_CardinalityType
<1>5. Cardinality(U) <= Cardinality(V) /\ (Cardinality(V) = Cardinality(U) => V = U)
  BY <1>1, <1>2, FS_Subset
<1>6. QED
  BY <1>3, <1>4, <1>5

\* InOrder sorts: it lists every member of the set once, in its order.
THEOREM InOrderSorts ==
  ASSUME NEW S, NEW before, IsFiniteSet(S), OrdersStrictly(before, S),
         NEW order, order = InOrder(S, before)
  PROVE  /\ ListsOnce(order, S)
         /\ \A n, m \in DOMAIN order : n < m => <<order[n], order[m]>> \in before
<1> DEFINE Below(x) == {y \in S : <<y, x>> \in before}
           rank == [x \in S |-> Cardinality(Below(x)) + 1]
           N == Cardinality(S)
<1>1. N \in Nat
  BY FS_CardinalityType
<1>2. ASSUME NEW x \in S
      PROVE  Cardinality(Below(x)) \in Nat /\ rank[x] \in 1..N
  <2>1. Below(x) \subseteq S \ {x}
    BY DEF OrdersStrictly
  <2>2. IsFiniteSet(S \ {x}) /\ Cardinality(S \ {x}) = N - 1
    BY FS_RemoveElement
  <2>3. IsFiniteSet(Below(x)) /\ Cardinality(Below(x)) <= N - 1
    BY <2>1, <2>2, FS_Subset
  <2>4. Cardinality(Below(x)) \in Nat
    BY <2>3, FS_CardinalityType
  <2>5. QED
    BY <1>1, <2>3, <2>4
<1>3. ASSUME NEW x \in S, NEW y \in S, Cardinality(Below(x)) = Cardinality(Below(y))
      PROVE  x = y
  <2>1. <<x, y>> \notin before
    BY <1>3, LaterHasMoreBefore
  <2>2. <<y, x>> \notin before
    BY <1>3, LaterHasMoreBefore
  <2>3. QED
    BY <2>1, <2>2 DEF OrdersStrictly
<1>4. order = [n \in 1..N |-> CHOOSE x \in S : Cardinality(Below(x)) = n - 1]
  BY DEF InOrder
<1> HIDE DEF Below
<1>5. /\ rank \in [S -> 1..N]
      /\ \A x \in S : rank[x] = Cardinality(Below(x)) + 1
  BY <1>2
<1> HIDE DEF rank, N
<1>6. \A x, y \in S : rank[x] = rank[y] => x = y
  <2>1. SUFFICES ASSUME NEW x \in S, NEW y \in S, rank[x] = rank[y]
                 PROVE  Cardinality(Below(x)) = Cardinality(Below(y))
    BY <1>3
  <2>2. QED
    BY <1>2, <1>5, <2>1
<1>7. rank \in Injection(S, 1..N)
  BY <1>5, <1>6, Fun_IsInj
<1>8. IsFiniteSet(1..N) /\ Cardinality(1..N) = N
  BY <1>1, FS_Interval
<1>9. rank \in Surjection(S, 1..N)
  BY <1>7, <1>8, FS_Injection DEF N
<1>10. \A n \in 1..N : \E x \in S : rank[x] = n
  BY <1>9 DEF Surjection
<1>11. ASSUME NEW n \in 1..N
       PROVE  \E x \in S : Cardinality(Below(x)) = n - 1
  <2>1. PICK x \in S : rank[x] = n
    BY <1>10
  <2>2. QED
    BY <1>1, <1>2, <1>5, <2>1
<1>12. ASSUME NEW n \in 1..N
       PROVE  order[n] \in S /\ Cardinality(Below(order[n])) = n - 1
  BY <1>4, <1>11
<1>13. \A n, m \in 1..N : order[n] = order[m] => n = m
  BY <1>1, <1>12
<1>14. \A x \in S : \E n \in 1..N : order[n] = x
  <2>1. SUFFICES ASSUME NEW x \in S
                 PROVE  \E n \in 1..N : order[n] = x
    OBVIOUS
  <2>2. PICK n \in 1..N : n = Cardinality(Below(x)) + 1
    BY <1>2, <1>5
  <2>3. Cardinality(Below(order[n])) = Cardinality(Below(x))
    BY <1>1, <1>2, <1>12, <2>2
  <2>4. order[n] = x
    BY <1>3, <1>12, <2>3
  <2>5. QED
    BY <2>4
<1>15. DOMAIN order = 1..N
  BY <1>4
<1>16. ASSUME NEW n \in 1..N, NEW m \in 1..N, n < m
       PROVE  <<order[n], order[m]>> \in before
  <2>1. order[n] \in S /\ order[m] \in S /\ order[n] # order[m]
    BY <1>1, <1>12, <1>13, <1>16
  <2>2. Cardinality(Below(order[n])) < Cardinality(Below(order[m]))
    BY <1>1, <1>12, <1>16
  <2>3. ASSUME <<order[m], order[n]>> \in before
        PROVE  FALSE
    <3>1. /\ Cardinality(Below(order[n])) \in Nat /\ Cardinality(Below(order[m])) \in Nat
          /\ Cardinality(Below(order[m])) < Cardinality(Below(order[n]))
      BY <2>1, <2>3, LaterHasMoreBefore DEF Below
    <3>2. QED
      BY <2>2, <3>1
  <2>4. QED
    BY <2>1, <2>3 DEF OrdersStrictly
<1>17. QED
  BY <1>1, <1>12, <1>13, <1>14, <1>15, <1>16 DEF ListsOnce

-----------------------------------------------------------------------------
(* The order of the list and of the rows.                                  *)

LEMMA ListsHavePlaces ==
  ASSUME NEW js \in Seq(Job)
  PROVE  /\ Len(js) \in Nat /\ DOMAIN js = 1..Len(js)
         /\ IsFiniteSet(DOMAIN js)
         /\ \A i \in DOMAIN js : i \in Nat /\ i # 0 /\ js[i] \in Job
<1>1. Len(js) \in Nat /\ DOMAIN js = 1..Len(js)
  OBVIOUS
<1>2. IsFiniteSet(1..Len(js))
  BY <1>1, FS_Interval
<1>3. QED
  BY <1>1, <1>2

LEMMA KeysAreNumbers ==
  ASSUME NEW j \in Job, NEW by \in SortModes
  PROVE  /\ SortKey(j, by) = <<SortKey(j, by)[1], SortKey(j, by)[2]>>
         /\ SortKey(j, by)[1] \in Nat /\ SortKey(j, by)[2] \in Nat
<1>1. CASE by = "stage"
  BY <1>1 DEF SortKey, Job
<1>2. CASE by = "alphabetical"
  BY <1>2 DEF SortKey, Job
<1>3. CASE by = "start_time"
  BY <1>3 DEF SortKey, Job
<1>4. QED
  BY <1>1, <1>2, <1>3 DEF SortModes

\* The sort is strict: the place in the list decides between equal keys.
LEMMA SortIsStrict ==
  ASSUME NEW js \in Seq(Job), NEW by \in SortModes
  PROVE  OrdersStrictly(_apply_sort(js, by), DOMAIN js)
<1> DEFINE D == DOMAIN js
           A(i) == SortKey(js[i], by)[1]
           B(i) == SortKey(js[i], by)[2]
<1>1. \A i \in D : i \in Nat
  BY ListsHavePlaces
<1>2. \A i \in D : SortKey(js[i], by) = <<A(i), B(i)>> /\ A(i) \in Nat /\ B(i) \in Nat
  BY ListsHavePlaces, KeysAreNumbers
<1>3. \A i, k \in D : SortKey(js[i], by) = SortKey(js[k], by) <=> A(i) = A(k) /\ B(i) = B(k)
  BY <1>2
<1>4. ASSUME NEW i \in D, NEW k \in D
      PROVE  <<i, k>> \in _apply_sort(js, by) <=>
                \/ A(i) < A(k)
                \/ A(i) = A(k) /\ B(i) < B(k)
                \/ A(i) = A(k) /\ B(i) = B(k) /\ i < k
  <2>1. <<i, k>> \in _apply_sort(js, by) <=> Earlier(js, by, i, k)
    BY DEF _apply_sort
  <2>2. QED
    BY <1>3, <2>1 DEF Earlier, LessKey
<1> HIDE DEF A, B, D
<1>5. \A x \in D : <<x, x>> \notin _apply_sort(js, by)
  BY <1>1, <1>2, <1>4
<1>6. \A x, y \in D : x # y =>
         <<x, y>> \in _apply_sort(js, by) \/ <<y, x>> \in _apply_sort(js, by)
  BY <1>1, <1>2, <1>4
<1>7. ASSUME NEW x \in D, NEW y \in D, NEW z \in D,
             <<x, y>> \in _apply_sort(js, by), <<y, z>> \in _apply_sort(js, by)
      PROVE  <<x, z>> \in _apply_sort(js, by)
  BY <1>1, <1>2, <1>4, <1>7
<1>8. QED
  BY <1>5, <1>6, <1>7 DEF OrdersStrictly, D

\* So is the order of the rows, in which a group is above its members.
LEMMA AboveIsStrict ==
  ASSUME NEW D, 0 \notin D, NEW sort \in SUBSET (D \X D), OrdersStrictly(sort, D),
         NEW places \in SUBSET (D \X (D \cup {0}))
  PROVE  OrdersStrictly(Above(places, sort), places)
<1> DEFINE E == D \cup {0}
           Below(a, b) == (a = 0 /\ b # 0) \/ <<a, b>> \in sort
<1>1. \A p \in places : p = <<p[1], p[2]>> /\ p[1] \in D /\ p[2] \in E
  OBVIOUS
<1>2. \A p, q \in places : <<p, q>> \in Above(places, sort) <=>
         \/ <<p[1], q[1]>> \in sort
         \/ p[1] = q[1] /\ Below(p[2], q[2])
  BY DEF Above
<1>3. \A a \in E : ~Below(a, a)
  BY DEF OrdersStrictly
<1>4. \A a, b \in E : a # b => Below(a, b) \/ Below(b, a)
  BY DEF OrdersStrictly
<1>5. \A a, b, c \in E : Below(a, b) /\ Below(b, c) => Below(a, c)
  <2>1. \A a, b : <<a, b>> \in sort => a \in D /\ b \in D /\ a # 0 /\ b # 0
    OBVIOUS
  <2>2. QED
    BY <2>1 DEF OrdersStrictly
<1>6. /\ \A a \in D : <<a, a>> \notin sort
      /\ \A a, b \in D : a # b => <<a, b>> \in sort \/ <<b, a>> \in sort
      /\ \A a, b, c \in D : <<a, b>> \in sort /\ <<b, c>> \in sort => <<a, c>> \in sort
  BY DEF OrdersStrictly
<1> HIDE DEF E, Below
<1>7. \A p \in places : <<p, p>> \notin Above(places, sort)
  BY <1>1, <1>2, <1>3, <1>6
<1>8. ASSUME NEW p \in places, NEW q \in places, p # q
      PROVE  <<p, q>> \in Above(places, sort) \/ <<q, p>> \in Above(places, sort)
  <2>1. p[1] # q[1] \/ (p[1] = q[1] /\ p[2] # q[2])
    BY <1>1, <1>8
  <2>2. CASE p[1] # q[1]
    BY <1>1, <1>2, <1>6, <2>2
  <2>3. CASE p[1] = q[1] /\ p[2] # q[2]
    BY <1>1, <1>2, <1>4, <2>3
  <2>4. QED
    BY <2>1, <2>2, <2>3
<1>9. ASSUME NEW p \in places, NEW q \in places, NEW r \in places,
             <<p, q>> \in Above(places, sort), <<q, r>> \in Above(places, sort)
      PROVE  <<p, r>> \in Above(places, sort)
  <2>1. /\ p[1] \in D /\ q[1] \in D /\ r[1] \in D
        /\ p[2] \in E /\ q[2] \in E /\ r[2] \in E
    BY <1>1
  <2>2. /\ <<p[1], q[1]>> \in sort \/ (p[1] = q[1] /\ Below(p[2], q[2]))
        /\ <<q[1], r[1]>> \in sort \/ (q[1] = r[1] /\ Below(q[2], r[2]))
    BY <1>2, <1>9
  <2>3. <<p[1], r[1]>> \in sort \/ (p[1] = r[1] /\ Below(p[2], r[2]))
    BY <1>5, <1>6, <2>1, <2>2
  <2>4. QED
    BY <1>2, <2>3
<1>10. QED
  BY <1>7, <1>8, <1>9 DEF OrdersStrictly

-----------------------------------------------------------------------------
(* What the rows show, for any list of jobs.                               *)

\* A group has members, the first of them as well, and they agree on the group.
LEMMA GroupsHaveAFirst ==
  ASSUME NEW js \in Seq(Job), NEW shown \in SUBSET (DOMAIN js), NEW sort,
         OrdersStrictly(sort, DOMAIN js), NEW i \in shown
  PROVE  /\ i \in Members(js, shown, i)
         /\ First(js, shown, sort, i) \in Members(js, shown, i)
         /\ \A k \in Members(js, shown, i) :
               /\ k \in shown
               /\ Members(js, shown, k) = Members(js, shown, i)
               /\ First(js, shown, sort, k) = First(js, shown, sort, i)
<1> DEFINE M == Members(js, shown, i)
           order == InOrder(M, sort)
<1>1. i \in M /\ M \subseteq shown
  BY DEF Members
<1>2. IsFiniteSet(M)
  BY <1>1, ListsHavePlaces, FS_Subset
<1>3. OrdersStrictly(sort, M)
  BY <1>1, SuborderIsStrict
<1>4. order[1] \in M
  <2> HIDE DEF M, order
  <2>1. order = InOrder(M, sort)
    BY DEF order
  <2>2. ListsOnce(order, M)
    BY <1>2, <1>3, <2>1, InOrderSorts
  <2>3. 1 \in DOMAIN order
    BY <1>1, <2>2 DEF ListsOnce
  <2>4. QED
    BY <2>2, <2>3 DEF ListsOnce
<1>5. \A k \in M : k \in shown /\ Members(js, shown, k) = M
  BY DEF Members
<1>6. QED
  BY <1>1, <1>4, <1>5 DEF First

\* Every job that is shown has a place or stands behind the place of its group,
\* and no two places are of the same job or the same group.
PlacesCover(js, shown, places) ==
    /\ places \subseteq shown \X (shown \cup {0})
    /\ \A p, q \in places : p[2] # 0 /\ p[2] = q[2] => p = q
    /\ \A p, q \in places :
          p[2] = 0 /\ q[2] = 0 /\ GroupKey(js[p[1]]) = GroupKey(js[q[1]]) => p = q
    /\ \A i \in shown : \E p \in places :
          p[2] = i \/ (p[2] = 0 /\ i \in Members(js, shown, p[1]))

LEMMA FlatPlacesCover ==
  ASSUME NEW js \in Seq(Job), NEW shown \in SUBSET (DOMAIN js)
  PROVE  PlacesCover(js, shown, {<<i, i>> : i \in shown})
<1> DEFINE places == {<<i, i>> : i \in shown}
<1>1. \A i \in shown : i # 0
  BY ListsHavePlaces
<1>2. \A p \in places : p[1] \in shown /\ p = <<p[1], p[1]>> /\ p[2] = p[1] /\ p[2] # 0
  BY <1>1
<1>3. \A i \in shown : <<i, i>> \in places /\ <<i, i>>[2] = i
  OBVIOUS
<1>4. places \subseteq shown \X (shown \cup {0})
  OBVIOUS
<1> HIDE DEF places
<1>5. \A p, q \in places : p[2] # 0 /\ p[2] = q[2] => p = q
  BY <1>2
<1>6. QED
  BY <1>2, <1>3, <1>4, <1>5 DEF PlacesCover, places

LEMMA GroupPlacesCover ==
  ASSUME NEW js \in Seq(Job), NEW shown \in SUBSET (DOMAIN js), NEW sort,
         OrdersStrictly(sort, DOMAIN js), NEW open,
         NEW places, places = _group_jobs(js, shown, sort, open)
  PROVE  PlacesCover(js, shown, places)
<1> DEFINE F(i) == First(js, shown, sort, i)
           G(i) == IsGroup(js, shown, i)
           O(i) == GroupKey(js[i]) \in open
<1>1. \A i \in shown : i # 0
  BY ListsHavePlaces
<1>2. ASSUME NEW i \in shown
      PROVE  /\ F(i) \in Members(js, shown, i) /\ F(i) \in shown
             /\ i \in Members(js, shown, i)
             /\ Members(js, shown, F(i)) = Members(js, shown, i)
  <2>1. i \in Members(js, shown, i) /\ F(i) \in Members(js, shown, i)
    BY GroupsHaveAFirst
  <2>2. \A k \in Members(js, shown, i) :
           k \in shown /\ Members(js, shown, k) = Members(js, shown, i)
    BY DEF Members
  <2> HIDE DEF F
  <2>3. QED
    BY <2>1, <2>2
<1>3. \A i \in shown : \A k \in Members(js, shown, i) : F(k) = F(i)
  BY GroupsHaveAFirst
<1>4. \A i, k \in shown : k \in Members(js, shown, i) <=> GroupKey(js[k]) = GroupKey(js[i])
  BY DEF Members
<1>5. places = {<<F(i), 0>> : i \in {i \in shown : G(i)}}
               \cup {<<F(i), i>> : i \in {i \in shown : G(i) => O(i)}}
  BY DEF _group_jobs
<1> HIDE DEF F, G, O
<1>6. \A p \in places :
         \/ \E i \in shown : G(i) /\ p = <<F(i), 0>>
         \/ \E i \in shown : (G(i) => O(i)) /\ p = <<F(i), i>>
  BY <1>5
<1>7. places \subseteq shown \X (shown \cup {0})
  BY <1>2, <1>6
<1>8. ASSUME NEW p \in places, NEW q \in places, p[2] # 0, p[2] = q[2]
      PROVE  p = q
  <2>1. PICK i \in shown : p = <<F(i), i>>
    BY <1>6, <1>8
  <2>2. PICK k \in shown : q = <<F(k), k>>
    BY <1>6, <1>8
  <2>3. QED
    BY <1>8, <2>1, <2>2
<1>9. ASSUME NEW p \in places, NEW q \in places, p[2] = 0, q[2] = 0,
             GroupKey(js[p[1]]) = GroupKey(js[q[1]])
      PROVE  p = q
  <2>1. PICK i \in shown : p = <<F(i), 0>>
    BY <1>1, <1>6, <1>9
  <2>2. PICK k \in shown : q = <<F(k), 0>>
    BY <1>1, <1>6, <1>9
  <2>3. GroupKey(js[F(i)]) = GroupKey(js[F(k)])
    BY <1>9, <2>1, <2>2
  <2>4. GroupKey(js[i]) = GroupKey(js[k])
    BY <1>2, <1>4, <2>3
  <2>5. F(i) = F(k)
    BY <1>3, <1>4, <2>4
  <2>6. QED
    BY <2>1, <2>2, <2>5
<1>10. ASSUME NEW i \in shown
       PROVE  \E p \in places : p[2] = i \/ (p[2] = 0 /\ i \in Members(js, shown, p[1]))
  <2>1. CASE G(i) => O(i)
    <3>1. <<F(i), i>> \in places
      BY <1>5, <2>1
    <3>2. QED
      BY <3>1
  <2>2. CASE G(i)
    <3>1. <<F(i), 0>> \in places
      BY <1>5, <2>2
    <3>2. i \in Members(js, shown, F(i))
      BY <1>2
    <3>3. QED
      BY <3>1, <3>2
  <2>3. QED
    BY <2>1, <2>2
<1>11. QED
  BY <1>7, <1>8, <1>9, <1>10 DEF PlacesCover

\* The table has a row for each of the places.
LEMMA RowsHavePlaces ==
  ASSUME NEW view, view.jobs \in Seq(Job), view.by \in SortModes,
         NEW shown, shown = _apply_filter(view.jobs, view.filter),
         NEW order, order = InOrder(Places(view),
                               Above(Places(view), _apply_sort(view.jobs, view.by)))
  PROVE  /\ shown \subseteq DOMAIN view.jobs
         /\ PlacesCover(view.jobs, shown, Places(view))
         /\ ListsOnce(order, Places(view))
         /\ DisplayRows(view) =
               [n \in DOMAIN order |-> RowAt(view.jobs, shown, order[n])]
<1> DEFINE js == view.jobs
           sort == _apply_sort(js, view.by)
           places == Places(view)
           above == Above(places, sort)
<1>1. shown \subseteq DOMAIN js
  BY DEF _apply_filter
<1>2. OrdersStrictly(sort, DOMAIN js)
  BY SortIsStrict
<1>3. sort \subseteq (DOMAIN js) \X (DOMAIN js)
  BY DEF _apply_sort
<1>4. PlacesCover(js, shown, places)
  <2>1. CASE view.filter.text # 0
    <3>1. places = {<<i, i>> : i \in shown}
      BY <2>1 DEF Places
    <3>2. QED
      BY <1>1, <3>1, FlatPlacesCover
  <2>2. CASE ~(view.filter.text # 0)
    <3>1. places = _group_jobs(js, shown, sort, view.open)
      BY <2>2 DEF Places
    <3> HIDE DEF places, sort
    <3>2. QED
      BY <1>1, <1>2, <3>1, GroupPlacesCover
  <2>3. QED
    BY <2>1, <2>2
<1>5. IsFiniteSet(DOMAIN js) /\ 0 \notin DOMAIN js
  BY ListsHavePlaces
<1> HIDE DEF places, sort
<1>6. places \subseteq (DOMAIN js) \X (DOMAIN js \cup {0})
  BY <1>1, <1>4 DEF PlacesCover
<1>7. IsFiniteSet(places)
  <2>1. IsFiniteSet(DOMAIN js \cup {0})
    BY <1>5, FS_AddElement
  <2>2. IsFiniteSet((DOMAIN js) \X (DOMAIN js \cup {0}))
    BY <1>5, <2>1, FS_Product
  <2>3. QED
    BY <1>6, <2>2, FS_Subset
<1>8. OrdersStrictly(above, places)
  BY <1>2, <1>3, <1>5, <1>6, AboveIsStrict
<1> HIDE DEF above
<1>9. order = InOrder(places, above)
  BY DEF places, above, sort
<1>10. ListsOnce(order, places)
  BY <1>7, <1>8, <1>9, InOrderSorts
<1>11. DisplayRows(view) = [n \in DOMAIN order |-> RowAt(js, shown, order[n])]
  BY DEF DisplayRows
<1>12. QED
  BY <1>1, <1>4, <1>10, <1>11 DEF places

\* A view of a list that has no job twice.
ViewOK(view) ==
    /\ view.jobs \in Seq(Job) /\ view.by \in SortModes
    /\ \A i, k \in DOMAIN view.jobs : view.jobs[i].id = view.jobs[k].id => i = k

\* A row is of the job or of the group at its place.
LEMMA RowOfPlace ==
  ASSUME NEW js \in Seq(Job), NEW shown \in SUBSET (DOMAIN js),
         NEW p \in shown \X (shown \cup {0})
  PROVE  /\ p[2] # 0 => /\ p[2] \in shown /\ js[p[2]] \in Job
                        /\ RowAt(js, shown, p) = JobRow(js[p[2]])
                        /\ RowAt(js, shown, p).key = <<"job", js[p[2]].id, 0>>
                        /\ RowAt(js, shown, p).job # NoJob
                        /\ RowAt(js, shown, p).stands = {js[p[2]]}
         /\ p[2] = 0 => /\ p[1] \in shown /\ js[p[1]] \in Job
                        /\ RowAt(js, shown, p).key = GroupKey(js[p[1]])
                        /\ RowAt(js, shown, p).job = NoJob
                        /\ RowAt(js, shown, p).stands =
                              {js[k] : k \in Members(js, shown, p[1])}
<1>1. \A i \in shown : js[i] \in Job
  BY ListsHavePlaces
<1>2. ASSUME NEW j \in Job
      PROVE  j # NoJob
  <2>1. "name" \in DOMAIN j
    BY DEF Job
  <2>2. "name" \notin DOMAIN NoJob
    BY DEF NoJob
  <2>3. QED
    BY <2>1, <2>2
<1>3. CASE p[2] # 0
  <2>1. RowAt(js, shown, p) = JobRow(js[p[2]]) /\ p[2] \in shown
    BY <1>3 DEF RowAt
  <2>2. QED
    BY <1>1, <1>2, <1>3, <2>1 DEF JobRow, JobKey
<1>4. CASE p[2] = 0
  <2>1. RowAt(js, shown, p) =
           GroupRow(js[p[1]], {js[k] : k \in Members(js, shown, p[1])})
    BY <1>4 DEF RowAt
  <2>2. QED
    BY <1>1, <1>4, <2>1 DEF GroupRow
<1>5. QED
  BY <1>3, <1>4

\* Two places have the same key only when they are one.
LEMMA KeysDiffer ==
  ASSUME NEW js \in Seq(Job),
         \A i, k \in DOMAIN js : js[i].id = js[k].id => i = k,
         NEW shown \in SUBSET (DOMAIN js), NEW places, PlacesCover(js, shown, places),
         NEW p \in places, NEW q \in places,
         RowAt(js, shown, p).key = RowAt(js, shown, q).key
  PROVE  p = q
<1>1. p \in shown \X (shown \cup {0}) /\ q \in shown \X (shown \cup {0})
  BY DEF PlacesCover
<1>2. CASE p[2] # 0 /\ q[2] # 0
  <2>1. p[2] \in shown /\ RowAt(js, shown, p).key = <<"job", js[p[2]].id, 0>>
    BY <1>1, <1>2, RowOfPlace
  <2>2. q[2] \in shown /\ RowAt(js, shown, q).key = <<"job", js[q[2]].id, 0>>
    BY <1>1, <1>2, RowOfPlace
  <2>3. js[p[2]].id = js[q[2]].id
    <3>1. <<"job", js[p[2]].id, 0>> = <<"job", js[q[2]].id, 0>>
      BY <2>1, <2>2
    <3>2. QED
      BY <3>1
  <2>4. p[2] = q[2]
    BY <2>1, <2>2, <2>3
  <2>5. QED
    BY <1>2, <2>4 DEF PlacesCover
<1>3. CASE p[2] = 0 /\ q[2] = 0
  <2>1. RowAt(js, shown, p).key = GroupKey(js[p[1]])
    BY <1>1, <1>3, RowOfPlace
  <2>2. RowAt(js, shown, q).key = GroupKey(js[q[1]])
    BY <1>1, <1>3, RowOfPlace
  <2>3. QED
    BY <1>3, <2>1, <2>2 DEF PlacesCover
<1>4. ASSUME NEW a \in shown \X (shown \cup {0}), NEW b \in shown \X (shown \cup {0}),
             a[2] # 0, b[2] = 0
      PROVE  RowAt(js, shown, a).key # RowAt(js, shown, b).key
  <2>1. RowAt(js, shown, a).key = <<"job", js[a[2]].id, 0>>
    BY <1>4, RowOfPlace
  <2>2. RowAt(js, shown, b).key = GroupKey(js[b[1]])
    BY <1>4, RowOfPlace
  <2>3. QED
    BY <2>1, <2>2 DEF GroupKey
<1>5. QED
  BY <1>1, <1>2, <1>3, <1>4

\* A row stands for jobs that are shown, and one that stands for a group has its
\* key; every job that is shown has a row that stands for it.
LEMMA RowsStandForTheShown ==
  ASSUME NEW js \in Seq(Job),
         NEW shown \in SUBSET (DOMAIN js), NEW places, PlacesCover(js, shown, places)
  PROVE  /\ \A p \in places :
               /\ RowAt(js, shown, p).stands \subseteq {js[i] : i \in shown}
               /\ RowAt(js, shown, p).job = NoJob =>
                     \E i \in shown : RowAt(js, shown, p).key = GroupKey(js[i])
         /\ \A i \in shown : \E p \in places : js[i] \in RowAt(js, shown, p).stands
<1>1. ASSUME NEW p \in places
      PROVE  /\ p[2] # 0 => /\ p[2] \in shown
                            /\ RowAt(js, shown, p).job # NoJob
                            /\ RowAt(js, shown, p).stands = {js[p[2]]}
             /\ p[2] = 0 => /\ p[1] \in shown
                            /\ RowAt(js, shown, p).key = GroupKey(js[p[1]])
                            /\ RowAt(js, shown, p).stands =
                                  {js[k] : k \in Members(js, shown, p[1])}
  <2>1. p \in shown \X (shown \cup {0})
    BY DEF PlacesCover
  <2>2. QED
    BY <2>1, RowOfPlace
<1>2. ASSUME NEW p \in places
      PROVE  /\ RowAt(js, shown, p).stands \subseteq {js[i] : i \in shown}
             /\ RowAt(js, shown, p).job = NoJob =>
                   \E i \in shown : RowAt(js, shown, p).key = GroupKey(js[i])
  <2>1. CASE p[2] # 0
    BY <1>1, <2>1
  <2>2. CASE p[2] = 0
    <3>1. Members(js, shown, p[1]) \subseteq shown
      BY DEF Members
    <3>2. QED
      BY <1>1, <2>2, <3>1
  <2>3. QED
    BY <2>1, <2>2
<1>3. ASSUME NEW i \in shown
      PROVE  \E p \in places : js[i] \in RowAt(js, shown, p).stands
  <2>1. PICK p \in places : p[2] = i \/ (p[2] = 0 /\ i \in Members(js, shown, p[1]))
    BY DEF PlacesCover
  <2>2. i # 0
    BY ListsHavePlaces
  <2>3. CASE p[2] = i
    BY <1>1, <2>2, <2>3
  <2>4. CASE p[2] = 0 /\ i \in Members(js, shown, p[1])
    BY <1>1, <2>4
  <2>5. QED
    BY <2>1, <2>3, <2>4
<1>4. QED
  BY <1>2, <1>3

\* The table: a sequence of rows without a key twice, which stand for the jobs
\* that pass the filter.
LEMMA TableOfView ==
  ASSUME NEW view, ViewOK(view), NEW table, table = DisplayRows(view)
  PROVE  /\ \E n \in Nat : DOMAIN table = 1..n /\ Len(table) = n
         /\ table = <<>> <=> DOMAIN table = {}
         /\ \A i, k \in DOMAIN table : table[i].key = table[k].key => i = k
         /\ UNION {r.stands : r \in Range(table)} =
               {j \in Range(view.jobs) : Passes(j, view.filter)}
         /\ \A i \in DOMAIN table : table[i].job = NoJob =>
               \E j \in Range(view.jobs) : table[i].key = GroupKey(j)
<1>1. PICK js : js = view.jobs
  OBVIOUS
<1>2. PICK shown : shown = _apply_filter(js, view.filter)
  OBVIOUS
<1>3. PICK places : places = Places(view)
  OBVIOUS
<1>4. PICK order : order = InOrder(Places(view),
                              Above(Places(view), _apply_sort(view.jobs, view.by)))
  OBVIOUS
<1>5. /\ js \in Seq(Job) /\ view.by \in SortModes
      /\ \A i, k \in DOMAIN js : js[i].id = js[k].id => i = k
  BY <1>1 DEF ViewOK
<1>6. shown \in SUBSET (DOMAIN js) /\ PlacesCover(js, shown, places)
  BY <1>1, <1>2, <1>3, <1>4, <1>5, RowsHavePlaces
<1>7. /\ ListsOnce(order, places)
      /\ table = [n \in DOMAIN order |-> RowAt(js, shown, order[n])]
  BY <1>1, <1>2, <1>3, <1>4, <1>5, RowsHavePlaces
<1>8. /\ DOMAIN table = DOMAIN order
      /\ \A n \in DOMAIN order : order[n] \in places /\ table[n] = RowAt(js, shown, order[n])
      /\ \A n, m \in DOMAIN order : order[n] = order[m] => n = m
      /\ \A p \in places : \E n \in DOMAIN order : order[n] = p
  BY <1>7 DEF ListsOnce
<1>9. \E n \in Nat : DOMAIN table = 1..n /\ table = [k \in 1..n |-> table[k]]
  BY <1>7 DEF ListsOnce
<1>10. \E n \in Nat : DOMAIN table = 1..n /\ Len(table) = n
  <2>1. PICK n \in Nat : DOMAIN table = 1..n /\ table = [k \in 1..n |-> table[k]]
    BY <1>9
  <2>2. table \in Seq(Range(table))
    BY <2>1 DEF Range
  <2>3. Len(table) = n
    BY <2>1, <2>2
  <2>4. QED
    BY <2>1, <2>3
<1>11. table = <<>> <=> DOMAIN table = {}
  <2>1. PICK n \in Nat : DOMAIN table = 1..n /\ table = [k \in 1..n |-> table[k]]
    BY <1>9
  <2>2. table \in Seq(Range(table))
    BY <2>1 DEF Range
  <2>3. QED
    BY <2>2
<1>12. ASSUME NEW i \in DOMAIN table, NEW k \in DOMAIN table, table[i].key = table[k].key
       PROVE  i = k
  <2>1. order[i] \in places /\ order[k] \in places /\ i \in DOMAIN order /\ k \in DOMAIN order
    BY <1>8
  <2>2. RowAt(js, shown, order[i]).key = RowAt(js, shown, order[k]).key
    BY <1>8, <1>12, <2>1
  <2>3. order[i] = order[k]
    BY <1>5, <1>6, <2>1, <2>2, KeysDiffer
  <2>4. QED
    BY <1>8, <2>1, <2>3
<1>13. /\ \A p \in places :
             /\ RowAt(js, shown, p).stands \subseteq {js[i] : i \in shown}
             /\ RowAt(js, shown, p).job = NoJob =>
                   \E i \in shown : RowAt(js, shown, p).key = GroupKey(js[i])
       /\ \A i \in shown : \E p \in places : js[i] \in RowAt(js, shown, p).stands
  BY <1>5, <1>6, RowsStandForTheShown
<1>14. {js[i] : i \in shown} = {j \in Range(view.jobs) : Passes(j, view.filter)}
  BY <1>1, <1>2 DEF _apply_filter, Range
<1>15. UNION {r.stands : r \in Range(table)} = {js[i] : i \in shown}
  <2>1. ASSUME NEW r \in Range(table)
        PROVE  r.stands \subseteq {js[i] : i \in shown}
    <3>1. PICK n \in DOMAIN order : r = RowAt(js, shown, order[n]) /\ order[n] \in places
      BY <1>8 DEF Range
    <3>2. QED
      BY <1>13, <3>1
  <2>2. ASSUME NEW i \in shown
        PROVE  \E r \in Range(table) : js[i] \in r.stands
    <3>1. PICK p \in places : js[i] \in RowAt(js, shown, p).stands
      BY <1>13
    <3>2. PICK n \in DOMAIN order : order[n] = p
      BY <1>8
    <3>3. table[n] \in Range(table) /\ table[n] = RowAt(js, shown, p)
      BY <1>8, <3>2 DEF Range
    <3>4. QED
      BY <3>1, <3>3
  <2>3. QED
    BY <2>1, <2>2
<1>16. ASSUME NEW i \in DOMAIN table, table[i].job = NoJob
       PROVE  \E j \in Range(view.jobs) : table[i].key = GroupKey(j)
  <2>1. order[i] \in places /\ table[i] = RowAt(js, shown, order[i])
    BY <1>8
  <2>2. PICK k \in shown : table[i].key = GroupKey(js[k])
    BY <1>13, <1>16, <2>1
  <2>3. js[k] \in Range(view.jobs)
    BY <1>1, <1>6 DEF Range
  <2>4. QED
    BY <2>2, <2>3
<1>17. QED
  BY <1>10, <1>11, <1>12, <1>14, <1>15, <1>16

-----------------------------------------------------------------------------
(* The list and its filter.                                                *)

Displayed == [jobs |-> jobs, filter |-> fresh, open |-> expanded, by |-> sortMode]

\* The table is what the list, the filter, the groups and the order make of it.
TableOK == rows = DisplayRows(Displayed)

CursorOK == cursor \in 0..Len(rows) /\ (cursor = 0 <=> rows = <<>>)

JobListInv ==
    /\ TypeOK
    /\ TableOK
    /\ FilterIsApplied

LEMMA ListsAreLists ==
  ASSUME NEW l \in Lists \cup {<<>>}
  PROVE  l \in Seq(Job) /\ \A i, k \in DOMAIN l : l[i].id = l[k].id => i = k
<1>1. CASE l = <<>>
  BY <1>1
<1>2. CASE l \in Lists
  BY <1>2, JobListAssumption
<1>3. QED
  BY <1>1, <1>2

LEMMA TheViewIsOK ==
  ASSUME TypeOK
  PROVE  ViewOK(View) /\ ViewOK(Displayed)
  BY ListsAreLists DEF TypeOK, ViewOK, View, Displayed

\* The cursor of a rebuilt table: on the row it was on, if that is still there.
LEMMA RestoredOnItsRow ==
  ASSUME NEW saved, NEW table, NEW n \in Nat, DOMAIN table = 1..n, Len(table) = n,
         table = <<>> <=> DOMAIN table = {},
         \A i, k \in DOMAIN table : table[i].key = table[k].key => i = k
  PROVE  /\ RestoredCursor(saved, table) \in 0..Len(table)
         /\ RestoredCursor(saved, table) = 0 <=> table = <<>>
         /\ \A i \in DOMAIN table :
               table[i].key = saved => RestoredCursor(saved, table) = i
<1>1. CASE \E i \in DOMAIN table : table[i].key = saved
  <2>1. PICK i \in DOMAIN table : table[i].key = saved
    BY <1>1
  <2>2. RestoredCursor(saved, table) = CHOOSE k \in DOMAIN table : table[k].key = saved
    BY <1>1 DEF RestoredCursor
  <2>3. RestoredCursor(saved, table) = i
    BY <2>1, <2>2
  <2>4. QED
    BY <2>1, <2>3
<1>2. CASE ~(\E i \in DOMAIN table : table[i].key = saved)
  <2>1. RestoredCursor(saved, table) = IF table = <<>> THEN 0 ELSE 1
    BY <1>2 DEF RestoredCursor
  <2>2. QED
    BY <1>2, <2>1
<1>3. QED
  BY <1>1, <1>2

\* A change that rebuilds the table leaves it up to date.
LEMMA RecomputeOK ==
  ASSUME NEW view, ViewOK(view), Recompute(view),
         view = [jobs |-> jobs', filter |-> view.filter, open |-> expanded', by |-> sortMode']
  PROVE  /\ TableOK' /\ CursorOK'
         /\ rows # <<>> =>
               \A i \in DOMAIN rows' : rows'[i].key = rows[cursor].key => cursor' = i
<1>1. rows' = DisplayRows(view) /\ fresh' = view.filter
  BY DEF Recompute
<1>2. TableOK'
  BY <1>1 DEF TableOK, Displayed
<1>3. PICK n \in Nat : DOMAIN rows' = 1..n /\ Len(rows') = n
  BY <1>1, TableOfView
<1>4. /\ rows' = <<>> <=> DOMAIN rows' = {}
      /\ \A i, k \in DOMAIN rows' : rows'[i].key = rows'[k].key => i = k
  BY <1>1, TableOfView
<1>5. PICK saved : saved = IF rows = <<>> THEN <<>> ELSE rows[cursor].key
  OBVIOUS
<1>6. cursor' = RestoredCursor(saved, rows')
  BY <1>5 DEF Recompute
<1>7. /\ cursor' \in 0..Len(rows')
      /\ cursor' = 0 <=> rows' = <<>>
      /\ \A i \in DOMAIN rows' : rows'[i].key = saved => cursor' = i
  BY <1>3, <1>4, <1>6, RestoredOnItsRow
<1>8. QED
  BY <1>2, <1>5, <1>7 DEF CursorOK

\* The action of CursorStaysOnItsRow.
CursorStep ==
    rows # <<>> /\ rows' # rows =>
       \A i \in DOMAIN rows' : rows'[i].key = rows[cursor].key => cursor' = i

Groups == {GroupKey(j) : j \in UNION {Range(l) : l \in Lists}}

LEMMA JobListInit == Init => JobListInv
<1> SUFFICES ASSUME Init PROVE JobListInv
  OBVIOUS
<1>1. TypeOK
  <2>1. [text |-> 0, statuses |-> {}] \in Spec0
    BY JobListAssumption DEF Spec0
  <2>2. cursor \in 0..Len(rows) /\ (cursor = 0 <=> rows = <<>>)
    BY DEF Init
  <2>3. dropdown \subseteq Status /\ picked \subseteq Status /\ sortMode \in SortModes
    BY DEF Init, Chosen0, Status, SortModes
  <2>4. jobs \in Lists \cup {<<>>} /\ pending \in BOOLEAN /\ expanded = {}
    BY DEF Init
  <2>5. /\ options = {} /\ selected = {} /\ sharing = {}
        /\ modal \in [open : BOOLEAN, selection : SUBSET Status, options : SUBSET Status]
    BY DEF Init, Closed
  <2>6. spec \in Spec0 /\ typed \in Spec0 /\ fresh \in Spec0
    BY <2>1 DEF Init
  <2>7. QED
    BY <2>2, <2>3, <2>4, <2>5, <2>6 DEF TypeOK
<1>2. ViewOK(Displayed)
  BY <1>1, TheViewIsOK
<1>3. DisplayRows(Displayed) = <<>>
  <2>1. PICK table : table = DisplayRows(Displayed)
    OBVIOUS
  <2>2. /\ table = <<>> <=> DOMAIN table = {}
        /\ \A i \in DOMAIN table : i \in DOMAIN table
    BY <1>2, <2>1, TableOfView
  <2>3. Places(Displayed) = {}
    <3>1. _apply_filter(<<>>, fresh) = {}
      BY DEF _apply_filter
    <3>2. _group_jobs(<<>>, {}, _apply_sort(<<>>, sortMode), expanded) = {}
      BY DEF _group_jobs
    <3>3. jobs = <<>>
      BY DEF Init
    <3>4. QED
      BY <3>1, <3>2, <3>3 DEF Places, Displayed
  <2>4. DOMAIN table = {}
    BY <2>1, <2>3, FS_EmptySet DEF DisplayRows, InOrder
  <2>5. QED
    BY <2>1, <2>2, <2>4
<1>4. TableOK
  BY <1>3 DEF TableOK, Init
<1>5. FilterIsApplied
  BY DEF Init, FilterIsApplied
<1>6. QED
  BY <1>1, <1>4, <1>5 DEF JobListInv

\* The table follows the filter.
LEMMA FilterTimerOK ==
  ASSUME JobListInv, FilterTimer
  PROVE  JobListInv' /\ CursorStep
<1>1. /\ jobs' = jobs /\ sortMode' = sortMode /\ expanded' = expanded
      /\ spec' = spec /\ pending' = FALSE /\ UNCHANGED barVars /\ Recompute(View)
  BY DEF FilterTimer
<1>2. ViewOK(View)
  BY TheViewIsOK DEF JobListInv
<1>3. TableOK' /\ CursorOK' /\ CursorStep
  BY <1>1, <1>2, RecomputeOK DEF View, CursorStep
<1>4. fresh' = spec
  BY <1>1 DEF Recompute, View
<1>5. TypeOK'
  BY <1>1, <1>3, <1>4 DEF JobListInv, TypeOK, CursorOK, barVars
<1>6. FilterIsApplied'
  BY <1>1, <1>4 DEF JobListInv, FilterIsApplied, barVars
<1>7. QED
  BY <1>3, <1>5, <1>6 DEF JobListInv

\* A step that leaves the table alone leaves it up to date.
LEMMA TableKept ==
  ASSUME JobListInv, UNCHANGED listVars
  PROVE  /\ TableOK' /\ CursorStep
         /\ cursor' \in 0..Len(rows') /\ (cursor' = 0 <=> rows' = <<>>)
<1>1. Displayed' = Displayed /\ rows' = rows /\ cursor' = cursor
  BY DEF Displayed, listVars
<1>2. QED
  BY <1>1 DEF JobListInv, TypeOK, TableOK, CursorStep

\* The filter of what is typed and what is chosen.
LEMMA FilterTyped ==
  ASSUME NEW t \in Spec0, NEW d \in SUBSET Status
  PROVE  Filter(t, d) \in Spec0
  BY DEF Filter, Spec0

LEMMA SearchChangedOK ==
  ASSUME JobListInv, NEW text \in Texts, NEW tokens \in Tokens, SearchChanged(text, tokens)
  PROVE  JobListInv' /\ CursorStep
<1>1. /\ UNCHANGED listVars /\ dropdown' = dropdown /\ options' = options
      /\ modal' = modal /\ picked' = picked
      /\ typed' = [text |-> text, statuses |-> tokens]
      /\ selected' = tokens \cap options /\ sharing' = {}
      /\ spec' = Filter(typed', dropdown) /\ pending' = TRUE
  BY DEF SearchChanged, SetFilter
<1>2. TableOK' /\ CursorStep /\ cursor' \in 0..Len(rows') /\ (cursor' = 0 <=> rows' = <<>>)
  BY <1>1, TableKept
<1>3. typed' \in Spec0
  BY <1>1, JobListAssumption DEF Spec0
<1>4. spec' \in Spec0
  BY <1>1, <1>3, FilterTyped DEF JobListInv, TypeOK
<1>5. TypeOK'
  BY <1>1, <1>2, <1>3, <1>4 DEF JobListInv, TypeOK, listVars
<1>6. FilterIsApplied'
  BY <1>1 DEF FilterIsApplied, Filter
<1>7. QED
  BY <1>2, <1>5, <1>6 DEF JobListInv

LEMMA OpenFilterOK ==
  ASSUME JobListInv, OpenFilter
  PROVE  JobListInv' /\ CursorStep
<1>1. /\ UNCHANGED <<listVars, spec, pending, typed, dropdown, options, selected, picked>>
      /\ modal' = [open |-> TRUE, selection |-> selected, options |-> options]
      /\ sharing' = sharing \cup {"modal"}
  BY DEF OpenFilter, Opened
<1>2. TableOK' /\ CursorStep /\ cursor' \in 0..Len(rows') /\ (cursor' = 0 <=> rows' = <<>>)
  BY <1>1, TableKept
<1>3. TypeOK'
  BY <1>1, <1>2 DEF JobListInv, TypeOK, listVars
<1>4. FilterIsApplied'
  BY <1>1 DEF JobListInv, FilterIsApplied, listVars
<1>5. QED
  BY <1>2, <1>3, <1>4 DEF JobListInv

\* The modal is closed with the statuses of s.
LEMMA ChosenOK ==
  ASSUME JobListInv, NEW s \in SUBSET Status, Chosen(s), picked' \in SUBSET Status
  PROVE  JobListInv' /\ CursorStep
<1>1. /\ UNCHANGED listVars /\ typed' = typed /\ options' = options
      /\ modal' = [open |-> FALSE, selection |-> {}, options |-> {}]
      /\ selected' = s /\ dropdown' = s
      /\ sharing' = {"dropdown"}
      /\ spec' = Filter(typed, s) /\ pending' = TRUE
  BY DEF Chosen, SetFilter, Closed
<1>2. TableOK' /\ CursorStep /\ cursor' \in 0..Len(rows') /\ (cursor' = 0 <=> rows' = <<>>)
  BY <1>1, TableKept
<1>3. spec' \in Spec0
  BY <1>1, FilterTyped DEF JobListInv, TypeOK
<1>4. TypeOK'
  BY <1>1, <1>2, <1>3 DEF JobListInv, TypeOK, listVars
<1>5. FilterIsApplied'
  BY <1>1 DEF FilterIsApplied, Filter
<1>6. QED
  BY <1>2, <1>4, <1>5 DEF JobListInv

LEMMA ConfirmFilterOK ==
  ASSUME JobListInv, ConfirmFilter
  PROVE  JobListInv' /\ CursorStep
<1>1. PICK s \in SUBSET modal.options : Chosen(s) /\ picked' = s
  BY DEF ConfirmFilter
<1>2. s \in SUBSET Status
  BY DEF JobListInv, TypeOK
<1>3. QED
  BY <1>1, <1>2, ChosenOK

LEMMA CancelFilterOK ==
  ASSUME JobListInv, CancelFilter
  PROVE  JobListInv' /\ CursorStep
<1>1. Chosen(modal.selection) /\ picked' = picked
  BY DEF CancelFilter
<1>2. modal.selection \in SUBSET Status /\ picked \in SUBSET Status
  BY DEF JobListInv, TypeOK
<1>3. QED
  BY <1>1, <1>2, ChosenOK

LEMMA ClearJobsOK ==
  ASSUME JobListInv, ClearJobs
  PROVE  JobListInv' /\ CursorStep
<1> DEFINE view == [View EXCEPT !.jobs = <<>>]
<1>1. /\ jobs' = <<>> /\ UNCHANGED <<sortMode, expanded, spec, pending, barVars>>
      /\ Recompute(view)
  BY DEF ClearJobs
<1>2. view = [jobs |-> <<>>, filter |-> spec, open |-> expanded, by |-> sortMode]
  BY DEF View
<1> HIDE DEF view
<1>3. ViewOK(view)
  BY <1>2 DEF ViewOK, JobListInv, TypeOK
<1>4. TableOK' /\ CursorOK' /\ CursorStep
  BY <1>1, <1>2, <1>3, RecomputeOK DEF CursorStep
<1>5. fresh' = spec
  BY <1>1, <1>2 DEF Recompute
<1>6. TypeOK'
  BY <1>1, <1>4, <1>5 DEF JobListInv, TypeOK, CursorOK, barVars
<1>7. FilterIsApplied'
  BY <1>1, <1>5 DEF JobListInv, FilterIsApplied, barVars
<1>8. QED
  BY <1>4, <1>6, <1>7 DEF JobListInv

LEMMA LoadJobsOK ==
  ASSUME JobListInv, NEW l \in Lists, LoadJobs(l)
  PROVE  JobListInv' /\ CursorStep
<1> DEFINE view == [View EXCEPT !.jobs = l]
           found == {j.status : j \in Range(l)}
<1>1. /\ jobs' = l /\ UNCHANGED <<sortMode, expanded, typed, picked>>
      /\ Recompute(view)
      /\ options' = found
      /\ dropdown' = Narrowed("dropdown", dropdown, found)
      /\ modal' = [modal EXCEPT !.selection = Narrowed("modal", @, found)]
      /\ selected' = dropdown' \cap found /\ sharing' = {}
      /\ spec' = Filter(typed, dropdown') /\ pending' = TRUE
  BY DEF LoadJobs, SetFilter
<1>2. view = [jobs |-> l, filter |-> spec, open |-> expanded, by |-> sortMode]
  BY DEF View
<1>3. found \subseteq Status
  <2>1. \A j \in Range(l) : j \in Job
    BY ListsAreLists, ListsHavePlaces DEF Range
  <2>2. QED
    BY <2>1 DEF Job
<1> HIDE DEF view, found
<1>4. ViewOK(view)
  BY <1>2, ListsAreLists DEF ViewOK, JobListInv, TypeOK
<1>5. TableOK' /\ CursorOK' /\ CursorStep
  BY <1>1, <1>2, <1>4, RecomputeOK DEF CursorStep
<1>6. fresh' = spec
  BY <1>1, <1>2 DEF Recompute
<1>7. /\ dropdown' \subseteq Status
      /\ modal' \in [open : BOOLEAN, selection : SUBSET Status, options : SUBSET Status]
  <2>1. PICK kept : kept = Narrowed("modal", modal.selection, found)
    OBVIOUS
  <2>2. kept \subseteq Status /\ dropdown' \subseteq Status
    BY <1>1, <2>1 DEF JobListInv, TypeOK, Narrowed
  <2>3. modal' = [modal EXCEPT !.selection = kept]
    BY <1>1, <2>1
  <2>4. QED
    BY <2>2, <2>3 DEF JobListInv, TypeOK
<1>8. spec' \in Spec0
  BY <1>1, <1>7, FilterTyped DEF JobListInv, TypeOK
<1>9. TypeOK'
  <2>1. /\ jobs' \in Lists \cup {<<>>} /\ sortMode' \in SortModes
        /\ expanded' \subseteq Groups /\ typed' \in Spec0 /\ fresh' \in Spec0
        /\ picked' \subseteq Status
    BY <1>1, <1>6 DEF JobListInv, TypeOK, Groups
  <2>2. options' \subseteq Status /\ selected' \subseteq Status
        /\ sharing' \subseteq {"dropdown", "modal"} /\ pending' \in BOOLEAN
    BY <1>1, <1>3
  <2>3. QED
    BY <1>5, <1>7, <1>8, <2>1, <2>2 DEF TypeOK, CursorOK, Groups
<1>10. FilterIsApplied'
  BY <1>1 DEF FilterIsApplied, Filter
<1>11. QED
  BY <1>5, <1>9, <1>10 DEF JobListInv

\* The key of a group row is the key of a group of the list.
LEMMA ToggleGroupOK ==
  ASSUME JobListInv, ToggleGroup
  PROVE  JobListInv' /\ CursorStep
<1> DEFINE view == [View EXCEPT !.open = expanded']
<1>1. /\ UNCHANGED <<jobs, sortMode, spec, pending, barVars>>
      /\ cursor # 0 /\ rows[cursor].job = NoJob
      /\ expanded' = IF rows[cursor].key \in expanded THEN expanded \ {rows[cursor].key}
                     ELSE expanded \cup {rows[cursor].key}
      /\ Recompute(view)
  BY DEF ToggleGroup
<1>2. view = [jobs |-> jobs, filter |-> spec, open |-> expanded', by |-> sortMode]
  BY DEF View
<1> HIDE DEF view
<1>3. ViewOK(view) /\ ViewOK(Displayed)
  BY <1>2, TheViewIsOK, ListsAreLists DEF ViewOK, JobListInv, TypeOK
<1>4. TableOK' /\ CursorOK' /\ CursorStep
  BY <1>1, <1>2, <1>3, RecomputeOK DEF CursorStep
<1>5. fresh' = spec
  BY <1>1, <1>2 DEF Recompute
<1>6. rows[cursor].key \in Groups
  <2>1. PICK n \in Nat : DOMAIN rows = 1..n /\ Len(rows) = n
    BY <1>3, TableOfView DEF JobListInv, TableOK
  <2>2. cursor \in DOMAIN rows
    BY <1>1, <2>1 DEF JobListInv, TypeOK
  <2>3. PICK j \in Range(Displayed.jobs) : rows[cursor].key = GroupKey(j)
    BY <1>1, <1>3, <2>2, TableOfView DEF JobListInv, TableOK
  <2>4. j \in Range(jobs)
    BY DEF Displayed
  <2>5. jobs \in Lists
    <3>1. Range(<<>>) = {}
      BY DEF Range
    <3>2. jobs # <<>>
      BY <2>4, <3>1
    <3>3. QED
      BY <3>2 DEF JobListInv, TypeOK
  <2>6. QED
    BY <2>3, <2>4, <2>5 DEF Groups
<1>7. expanded' \subseteq Groups
  BY <1>1, <1>6 DEF JobListInv, TypeOK, Groups
<1>8. TypeOK'
  BY <1>1, <1>4, <1>5, <1>7 DEF JobListInv, TypeOK, CursorOK, barVars, Groups
<1>9. FilterIsApplied'
  BY <1>1, <1>5 DEF JobListInv, FilterIsApplied, barVars
<1>10. QED
  BY <1>4, <1>8, <1>9 DEF JobListInv

LEMMA MoveCursorOK ==
  ASSUME JobListInv, NEW i \in DOMAIN rows, MoveCursor(i)
  PROVE  JobListInv' /\ CursorStep
<1>1. /\ cursor' = i
      /\ UNCHANGED <<jobs, sortMode, expanded, rows, fresh, spec, pending, barVars>>
  BY DEF MoveCursor
<1>2. TableOK' /\ CursorStep
  <2>1. Displayed' = Displayed
    BY <1>1 DEF Displayed
  <2>2. QED
    BY <1>1, <2>1 DEF JobListInv, TableOK, CursorStep
<1>3. i \in 1..Len(rows) /\ rows # <<>>
  <2>1. ViewOK(Displayed)
    BY TheViewIsOK DEF JobListInv
  <2>2. PICK n \in Nat : DOMAIN rows = 1..n /\ Len(rows) = n
    BY <2>1, TableOfView DEF JobListInv, TableOK
  <2>3. QED
    BY <2>2
<1>4. TypeOK'
  BY <1>1, <1>3 DEF JobListInv, TypeOK, barVars
<1>5. FilterIsApplied'
  BY <1>1 DEF JobListInv, FilterIsApplied, barVars
<1>6. QED
  BY <1>2, <1>4, <1>5 DEF JobListInv

LEMMA CycleSortOK ==
  ASSUME JobListInv, CycleSort
  PROVE  JobListInv' /\ CursorStep
<1> DEFINE view == [View EXCEPT !.by = sortMode']
<1>1. /\ UNCHANGED <<jobs, expanded, spec, pending, barVars>>
      /\ sortMode' = NextSort(sortMode) /\ Recompute(view)
  BY DEF CycleSort
<1>2. view = [jobs |-> jobs, filter |-> spec, open |-> expanded, by |-> sortMode']
  BY DEF View
<1>3. sortMode' \in SortModes
  BY <1>1 DEF JobListInv, TypeOK, SortModes, NextSort
<1> HIDE DEF view
<1>4. ViewOK(view)
  BY <1>2, <1>3, ListsAreLists DEF ViewOK, JobListInv, TypeOK
<1>5. TableOK' /\ CursorOK' /\ CursorStep
  BY <1>1, <1>2, <1>4, RecomputeOK DEF CursorStep
<1>6. fresh' = spec
  BY <1>1, <1>2 DEF Recompute
<1>7. TypeOK'
  BY <1>1, <1>3, <1>5, <1>6 DEF JobListInv, TypeOK, CursorOK, barVars
<1>8. FilterIsApplied'
  BY <1>1, <1>6 DEF JobListInv, FilterIsApplied, barVars
<1>9. QED
  BY <1>5, <1>7, <1>8 DEF JobListInv

LEMMA JobListStep ==
  ASSUME JobListInv, [Next]_vars
  PROVE  JobListInv' /\ CursorStep
<1>1. CASE UNCHANGED vars
  <2>1. UNCHANGED listVars /\ UNCHANGED <<spec, pending, barVars>>
    BY <1>1 DEF vars
  <2>2. TableOK' /\ CursorStep
    BY <2>1, TableKept
  <2>3. TypeOK'
    BY <2>1 DEF JobListInv, TypeOK, listVars, barVars
  <2>4. FilterIsApplied'
    BY <2>1 DEF JobListInv, FilterIsApplied, listVars, barVars
  <2>5. QED
    BY <2>2, <2>3, <2>4 DEF JobListInv
<1>2. CASE FilterTimer
  BY <1>2, FilterTimerOK
<1>3. CASE \E text \in Texts, tokens \in Tokens : SearchChanged(text, tokens)
  BY <1>3, SearchChangedOK
<1>4. CASE OpenFilter
  BY <1>4, OpenFilterOK
<1>5. CASE ConfirmFilter
  BY <1>5, ConfirmFilterOK
<1>6. CASE CancelFilter
  BY <1>6, CancelFilterOK
<1>7. CASE ClearJobs
  BY <1>7, ClearJobsOK
<1>8. CASE \E l \in Lists : LoadJobs(l)
  BY <1>8, LoadJobsOK
<1>9. CASE ToggleGroup
  BY <1>9, ToggleGroupOK
<1>10. CASE CycleSort
  BY <1>10, CycleSortOK
<1>11. CASE \E i \in DOMAIN rows : MoveCursor(i)
  BY <1>11, MoveCursorOK
<1>12. QED
  BY <1>1, <1>2, <1>3, <1>4, <1>5, <1>6, <1>7, <1>8, <1>9, <1>10, <1>11 DEF Next

\* The inductive invariant of the list: its types, a table that is what the list,
\* the filter, the groups and the order make of it, and the filter asked for.
THEOREM JobListInvariant == Spec => []JobListInv
<1>1. JobListInv /\ [Next]_vars => JobListInv'
  BY JobListStep
<1>2. QED
  BY <1>1, JobListInit, PTL DEF Spec

\* The types of the list and of its filter bar, for any lists of any jobs.
THEOREM JobListTypeCorrect == Spec => []TypeOK
<1>1. JobListInv => TypeOK
  BY DEF JobListInv
<1>2. QED
  BY <1>1, JobListInvariant, PTL

\* The table shows what the search box and the buttons ask for.
THEOREM FilterApplied == Spec => []FilterIsApplied
<1>1. JobListInv => FilterIsApplied
  BY DEF JobListInv
<1>2. QED
  BY <1>1, JobListInvariant, PTL

\* The rows have no key twice and stand for the jobs that pass the filter.
THEOREM RowsOfTheJobs == Spec => []RowsAreTheJobs
<1>1. JobListInv => RowsAreTheJobs
  <2> SUFFICES ASSUME JobListInv PROVE RowsAreTheJobs
    OBVIOUS
  <2>1. ViewOK(Displayed) /\ rows = DisplayRows(Displayed)
    BY TheViewIsOK DEF JobListInv, TableOK
  <2>2. \A i, k \in DOMAIN rows : rows[i].key = rows[k].key => i = k
    BY <2>1, TableOfView
  <2>3. UNION {r.stands : r \in Range(rows)} =
           {j \in Range(Displayed.jobs) : Passes(j, Displayed.filter)}
    BY <2>1, TableOfView
  <2>4. QED
    BY <2>2, <2>3 DEF RowsAreTheJobs, Displayed
<1>2. QED
  BY <1>1, JobListInvariant, PTL

\* A change of the list leaves the cursor on its row as long as that is there.
THEOREM CursorKeepsItsRow == Spec => CursorStaysOnItsRow
<1>1. JobListInv /\ [Next]_vars => [CursorStep]_vars
  BY JobListStep
<1>2. Spec => [][CursorStep]_vars
  BY <1>1, JobListInvariant, PTL DEF Spec
<1>3. [][CursorStep]_vars => CursorStaysOnItsRow
  BY PTL DEF CursorStaysOnItsRow, CursorStep
<1>4. QED
  BY <1>2, <1>3
=============================================================================
