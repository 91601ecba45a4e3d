---------------------------- MODULE ConsoleProofs ----------------------------
(***************************************************************************)
(* Proofs about Console and about the interrupt simulation below it: the    *)
(* list of events stays sorted and has what each device needs, the program *)
(* and the device are in step, the echo is faithful, and the machine halts *)
(* by itself only when nobody is left to wait.                             *)
(***************************************************************************)
EXTENDS Console, KernelProofs, WellFoundedInduction

-----------------------------------------------------------------------------
(* The sorted list.                                                        *)

EventTypes == {"TimerInt", "ConsoleReadInt", "ConsoleWriteInt", "DiskInt"}
Event == [type : EventTypes, when : Int]

Sorted(list) == \A i, j \in DOMAIN list : i < j => list[i].when <= list[j].when

\* The list has one event of the type if b holds, and else none.
Armed(list, type, b) ==
    /\ b => \E i \in DOMAIN list : list[i].type = type
    /\ ~b => \A i \in DOMAIN list : list[i].type # type
    /\ \A i, j \in DOMAIN list : list[i].type = type /\ list[j].type = type => i = j

\* long is list with e put in at place k.
IsInsertion(long, list, e, k) ==
    /\ k \in 1..(Len(list) + 1)
    /\ Len(long) = Len(list) + 1
    /\ long[k] = e
    /\ \A i \in 1..Len(list) : i < k => long[i] = list[i]
    /\ \A i \in 1..Len(list) : i >= k => long[i + 1] = list[i]

\* Every set of numbers has a least one.
LEMMA Least ==
    ASSUME NEW S \in SUBSET Nat, S # {}
    PROVE  \E n \in S : \A k \in S : n <= k
<1> DEFINE R == {p \in Nat \X Nat : p[1] < p[2]}
<1>1. IsWellFoundedOn(R, Nat)
  BY NatLessThanWellFounded DEF OpToRel
<1>2. PICK n \in S : \A k \in S : << k, n >> \notin R
  BY <1>1, WFMin
<1>3. \A k \in S : n \in Nat /\ k \in Nat /\ ~(k < n)
  BY <1>2
<1> QED
  BY <1>3

\* What InsertAt makes of a list.
LEMMA InsertAtPlace ==
    ASSUME NEW S, NEW list \in Seq(S), NEW e \in S, NEW m \in 1..Len(list)
    PROVE  /\ InsertAt(list, m, e) \in Seq(S)
           /\ IsInsertion(InsertAt(list, m, e), list, e, m)
<1> DEFINE n == Len(list)
           u == SubSeq(list, 1, m - 1)
           v == SubSeq(list, m, n)
           one == << e >>
<1>1. n \in Nat /\ m \in Int /\ 1 <= m /\ m <= n /\ \A i \in 1..n : list[i] \in S
  BY LenProperties, ElementOfSeq
<1>2. /\ u \in Seq(S) /\ Len(u) = m - 1
      /\ \A i \in 1..(m - 1) : u[i] = list[i]
  <2>1. 1 \in Int /\ m - 1 \in Int /\ \A i \in 1..(m - 1) : list[i] \in S
    BY <1>1
  <2>2. /\ u \in Seq(S)
        /\ Len(u) = IF 1 <= m - 1 THEN m - 1 - 1 + 1 ELSE 0
        /\ \A i \in 1..(m - 1 - 1 + 1) : u[i] = list[1 + i - 1]
    BY <2>1, SubSeqProperties
  <2> HIDE DEF u
  <2> QED
    BY <1>1, <2>2
<1>3. /\ v \in Seq(S) /\ Len(v) = n - m + 1
      /\ \A i \in 1..(n - m + 1) : v[i] = list[m + i - 1]
  <2>1. m \in Int /\ n \in Int /\ \A i \in m..n : list[i] \in S
    BY <1>1
  <2>2. /\ v \in Seq(S)
        /\ Len(v) = IF m <= n THEN n - m + 1 ELSE 0
        /\ \A i \in 1..(n - m + 1) : v[i] = list[m + i - 1]
    BY <2>1, SubSeqProperties
  <2> HIDE DEF v
  <2> QED
    BY <1>1, <2>2
<1>4. one \in Seq(S) /\ Len(one) = 1 /\ one[1] = e
  OBVIOUS
<1>5. InsertAt(list, m, e) = (u \o one) \o v
  BY DEF InsertAt
<1> HIDE DEF u, v, one
<1>6. /\ u \o one \in Seq(S) /\ Len(u \o one) = m
      /\ \A i \in 1..(m - 1) : (u \o one)[i] = list[i]
      /\ (u \o one)[m] = e
  <2>1. /\ u \o one \in Seq(S)
        /\ Len(u \o one) = Len(u) + Len(one)
        /\ \A i \in 1..(Len(u) + Len(one)) :
             (u \o one)[i] = IF i <= Len(u) THEN u[i] ELSE one[i - Len(u)]
    BY <1>2, <1>4, ConcatProperties
  <2>2. Len(u) + Len(one) = m
    BY <1>1, <1>2, <1>4
  <2>3. \A i \in 1..m : (u \o one)[i] = IF i <= m - 1 THEN u[i] ELSE one[i - (m - 1)]
    BY <1>2, <2>1, <2>2
  <2>4. m - (m - 1) = 1 /\ ~(m <= m - 1) /\ m \in 1..m
    BY <1>1
  <2>5. \A i \in 1..(m - 1) : i \in 1..m /\ i <= m - 1
    BY <1>1
  <2> QED
    BY <1>2, <1>4, <2>1, <2>2, <2>3, <2>4, <2>5
<1> DEFINE x == u \o one
           w == x \o v
<1> HIDE DEF x
<1>7. /\ w \in Seq(S) /\ Len(w) = n + 1
      /\ \A i \in 1..(n + 1) : w[i] = IF i <= m THEN x[i] ELSE v[i - m]
  <2>1. x \in Seq(S) /\ Len(x) = m
    BY <1>6 DEF x
  <2>2. /\ w \in Seq(S)
        /\ Len(w) = Len(x) + Len(v)
        /\ \A i \in 1..(Len(x) + Len(v)) :
             w[i] = IF i <= Len(x) THEN x[i] ELSE v[i - Len(x)]
    BY <1>3, <2>1, ConcatProperties
  <2>3. Len(x) + Len(v) = n + 1
    BY <1>1, <1>3, <2>1
  <2> QED
    BY <2>1, <2>2, <2>3
<1> HIDE DEF w
<1>8. w[m] = e
  BY <1>1, <1>6, <1>7 DEF x
<1>9. ASSUME NEW i \in 1..n, i < m
      PROVE  w[i] = list[i]
  <2>1. i \in 1..(n + 1) /\ i <= m /\ i \in 1..(m - 1)
    BY <1>1, <1>9
  <2> QED
    BY <1>6, <1>7, <2>1 DEF x
<1>10. ASSUME NEW i \in 1..n, i >= m
       PROVE  w[i + 1] = list[i]
  <2>1. /\ i + 1 \in 1..(n + 1) /\ ~(i + 1 <= m)
        /\ (i + 1) - m \in 1..(n - m + 1) /\ m + ((i + 1) - m) - 1 = i
    BY <1>1, <1>10
  <2> QED
    BY <1>3, <1>7, <2>1
<1>11. InsertAt(list, m, e) = w
  BY <1>5 DEF w, x
<1>12. m \in 1..(n + 1)
  BY <1>1
<1> QED
  BY <1>7, <1>8, <1>9, <1>10, <1>11, <1>12 DEF IsInsertion

\* SortedInsert puts the event where the list stays sorted.
LEMMA InsertPlace ==
    ASSUME NEW list \in Seq(Event), NEW e \in Event, Sorted(list)
    PROVE  /\ SortedInsert(list, e) \in Seq(Event)
           /\ Sorted(SortedInsert(list, e))
           /\ \E k \in 1..(Len(list) + 1) : IsInsertion(SortedInsert(list, e), list, e, k)
<1> DEFINE I == {i \in 1..Len(list) : e.when < list[i].when}
           n == Len(list)
<1>1. /\ n \in Nat /\ DOMAIN list = 1..n
      /\ \A i \in 1..n : list[i] \in Event
      /\ \A i \in 1..n : list[i].when \in Int
      /\ e.when \in Int
      /\ \A i, j \in 1..n : i < j => list[i].when <= list[j].when
  <2>1. n \in Nat /\ DOMAIN list = 1..n /\ \A i \in 1..n : list[i] \in Event
    BY LenProperties, ElementOfSeq
  <2> QED
    BY <2>1 DEF Event, Sorted
<1>2. ASSUME I = {}
      PROVE  /\ SortedInsert(list, e) = Append(list, e)
             /\ Append(list, e) \in Seq(Event)
             /\ IsInsertion(Append(list, e), list, e, n + 1)
             /\ \A i \in 1..n : list[i].when <= e.when
  <2>1. SortedInsert(list, e) = Append(list, e)
    BY <1>2, Zenon DEF SortedInsert, SelectInSeq
  <2>2. /\ Append(list, e) \in Seq(Event)
        /\ Len(Append(list, e)) = n + 1
        /\ \A i \in 1..n : Append(list, e)[i] = list[i]
        /\ Append(list, e)[n + 1] = e
    BY AppendProperties
  <2>3. \A i \in 1..n : list[i].when <= e.when
    BY <1>1, <1>2
  <2>4. n + 1 \in 1..(n + 1) /\ \A i \in 1..n : ~(i >= n + 1)
    BY <1>1
  <2>5. IsInsertion(Append(list, e), list, e, n + 1)
    BY <2>2, <2>4 DEF IsInsertion
  <2> QED
    BY <2>1, <2>2, <2>3, <2>5
<1>3. ASSUME I # {}
      PROVE  /\ Min(I) \in 1..n
             /\ SortedInsert(list, e) = InsertAt(list, Min(I), e)
             /\ \A i \in 1..n : i < Min(I) => list[i].when <= e.when
             /\ \A i \in 1..n : i >= Min(I) => e.when < list[i].when
  <2>1. \E i \in I : \A k \in I : i <= k
    <3>1. I \in SUBSET Nat
      BY <1>1
    <3> QED
      BY <1>3, <3>1, Least
  <2>2. Min(I) \in I /\ \A k \in I : Min(I) <= k
    BY <2>1, Zenon DEF Min
  <2> DEFINE m == Min(I)
  <2> HIDE DEF m
  <2>3. /\ m \in 1..n /\ e.when < list[m].when
        /\ \A k \in 1..n : e.when < list[k].when => m <= k
    BY <2>2 DEF m
  <2>4. Min(I) # 0
    BY <1>1, <2>2
  <2>5. SortedInsert(list, e) = InsertAt(list, Min(I), e)
    BY <1>3, <2>4, Zenon DEF SortedInsert, SelectInSeq
  <2>6. ASSUME NEW i \in 1..n
        PROVE  /\ i < m => list[i].when <= e.when
               /\ i >= m => e.when < list[i].when
    <3>1. i > m => list[m].when <= list[i].when
      BY <1>1, <2>3
    <3>2. list[i].when \in Int /\ list[m].when \in Int
      BY <1>1, <2>3
    <3> QED
      BY <1>1, <2>3, <3>1, <3>2
  <2> QED
    BY <2>3, <2>5, <2>6 DEF m
<1> HIDE DEF I
<1>4. \E k \in 1..(n + 1) :
        /\ SortedInsert(list, e) \in Seq(Event)
        /\ IsInsertion(SortedInsert(list, e), list, e, k)
        /\ \A i \in 1..n : i < k => list[i].when <= e.when
        /\ \A i \in 1..n : i >= k => e.when < list[i].when
  <2>1. CASE I = {}
    <3>1. n + 1 \in 1..(n + 1) /\ \A i \in 1..n : ~(i >= n + 1)
      BY <1>1
    <3> QED
      BY <1>2, <2>1, <3>1
  <2>2. CASE I # {}
    <3>1. Min(I) \in 1..(n + 1)
      BY <1>1, <1>3, <2>2
    <3>2. /\ InsertAt(list, Min(I), e) \in Seq(Event)
          /\ IsInsertion(InsertAt(list, Min(I), e), list, e, Min(I))
      BY <1>3, <2>2, InsertAtPlace
    <3> QED
      BY <1>3, <2>2, <3>1, <3>2
  <2> QED
    BY <2>1, <2>2
<1>5. PICK k \in 1..(n + 1) :
        /\ SortedInsert(list, e) \in Seq(Event)
        /\ IsInsertion(SortedInsert(list, e), list, e, k)
        /\ \A i \in 1..n : i < k => list[i].when <= e.when
        /\ \A i \in 1..n : i >= k => e.when < list[i].when
  BY <1>4
<1> DEFINE w == SortedInsert(list, e)
<1> HIDE DEF w
<1>6. DOMAIN w = 1..(n + 1)
  BY <1>5, LenProperties DEF w, IsInsertion
<1>7. ASSUME NEW i \in 1..(n + 1)
      PROVE  \/ i < k /\ i \in 1..n /\ w[i] = list[i]
             \/ i = k /\ w[i] = e
             \/ i > k /\ i - 1 \in 1..n /\ i - 1 >= k /\ w[i] = list[i - 1]
  <2>1. CASE i < k
    BY <1>1, <1>5, <2>1 DEF w, IsInsertion
  <2>2. CASE i = k
    BY <1>5, <2>2 DEF w, IsInsertion
  <2>3. CASE i > k
    <3>1. i - 1 \in 1..n /\ i - 1 >= k /\ (i - 1) + 1 = i
      BY <1>1, <1>5, <2>3
    <3> QED
      BY <1>5, <2>3, <3>1 DEF w, IsInsertion
  <2> QED
    BY <1>1, <1>5, <2>1, <2>2, <2>3
<1>8. ASSUME NEW i \in 1..(n + 1), NEW j \in 1..(n + 1), i < j
      PROVE  w[i].when <= w[j].when
  <2>1. CASE i < k /\ j < k
    BY <1>1, <1>7, <1>8, <2>1
  <2>2. CASE i < k /\ j = k
    BY <1>1, <1>5, <1>7, <1>8, <2>2
  <2>3. CASE i < k /\ j > k
    BY <1>1, <1>5, <1>7, <1>8, <2>3
  <2>4. CASE i = k /\ j > k
    BY <1>1, <1>5, <1>7, <1>8, <2>4
  <2>5. CASE i > k /\ j > k
    <3>1. i - 1 < j - 1
      BY <1>1, <1>8
    <3> QED
      BY <1>1, <1>7, <1>8, <2>5, <3>1
  <2> QED
    BY <1>1, <1>5, <1>8, <2>1, <2>2, <2>3, <2>4, <2>5
<1> QED
  BY <1>5, <1>6, <1>8 DEF w, Sorted

\* Each event of one list is one of the other, but perhaps for e.
Within(long, list, e) ==
    \A i \in DOMAIN long : long[i] = e \/ \E j \in DOMAIN list : long[i] = list[j]

\* What an insertion does to the numbers of events.
LEMMA InsertArms ==
    ASSUME NEW list \in Seq(Event), NEW long \in Seq(Event), NEW e \in Event,
           NEW k, IsInsertion(long, list, e, k)
    PROVE  /\ Within(long, list, e)
           /\ \A type \in EventTypes, b \in BOOLEAN :
                e.type # type /\ Armed(list, type, b) => Armed(long, type, b)
           /\ Armed(list, e.type, FALSE) => Armed(long, e.type, TRUE)
<1> DEFINE n == Len(list)
<1>1. /\ n \in Nat /\ DOMAIN list = 1..n /\ DOMAIN long = 1..(n + 1)
      /\ k \in 1..(n + 1)
  BY LenProperties DEF IsInsertion
<1>2. long[k] = e
  BY DEF IsInsertion
<1>3. ASSUME NEW i \in 1..(n + 1)
      PROVE  \/ i < k /\ i \in 1..n /\ long[i] = list[i]
             \/ i = k /\ long[i] = e
             \/ i > k /\ i - 1 \in 1..n /\ long[i] = list[i - 1]
  <2>1. CASE i < k
    BY <1>1, <2>1 DEF IsInsertion
  <2>2. CASE i = k
    BY <1>2, <2>2
  <2>3. CASE i > k
    <3>1. i - 1 \in 1..n /\ i - 1 >= k /\ (i - 1) + 1 = i
      BY <1>1, <2>3
    <3> QED
      BY <2>3, <3>1 DEF IsInsertion
  <2> QED
    BY <1>1, <2>1, <2>2, <2>3
<1>4. ASSUME NEW i \in 1..n
      PROVE  \E j \in 1..(n + 1) : j # k /\ long[j] = list[i]
  <2>1. CASE i < k
    BY <1>1, <2>1 DEF IsInsertion
  <2>2. CASE i >= k
    <3>1. i + 1 \in 1..(n + 1) /\ i + 1 # k
      BY <1>1, <2>2
    <3> QED
      BY <2>2, <3>1 DEF IsInsertion
  <2> QED
    BY <1>1, <2>1, <2>2
<1>5. Within(long, list, e)
  BY <1>1, <1>3 DEF Within
<1>6. ASSUME NEW type, \A i, j \in 1..n : list[i].type = type /\ list[j].type = type => i = j,
             e.type # type \/ \A i \in 1..n : list[i].type # type,
             NEW i \in 1..(n + 1), NEW j \in 1..(n + 1),
             long[i].type = type, long[j].type = type
      PROVE  i = j
  <2>1. CASE e.type # type
    <3>1. i # k /\ j # k
      BY <1>2, <1>6, <2>1
    <3>2. \/ i < k /\ i \in 1..n /\ long[i] = list[i]
          \/ i > k /\ i - 1 \in 1..n /\ long[i] = list[i - 1]
      BY <1>3, <3>1
    <3>3. \/ j < k /\ j \in 1..n /\ long[j] = list[j]
          \/ j > k /\ j - 1 \in 1..n /\ long[j] = list[j - 1]
      BY <1>3, <3>1
    <3>4. CASE i < k /\ j < k
      BY <1>1, <1>6, <3>2, <3>3, <3>4
    <3>5. CASE i < k /\ j > k
      <4>1. i = j - 1
        BY <1>1, <1>6, <3>2, <3>3, <3>5
      <4> QED
        BY <1>1, <3>5, <4>1
    <3>6. CASE i > k /\ j < k
      <4>1. i - 1 = j
        BY <1>1, <1>6, <3>2, <3>3, <3>6
      <4> QED
        BY <1>1, <3>6, <4>1
    <3>7. CASE i > k /\ j > k
      <4>1. i - 1 = j - 1
        BY <1>1, <1>6, <3>2, <3>3, <3>7
      <4> QED
        BY <1>1, <4>1
    <3> QED
      BY <3>2, <3>3, <3>4, <3>5, <3>6, <3>7
  <2>2. CASE \A l \in 1..n : list[l].type # type
    BY <1>3, <1>6, <2>2
  <2> QED
    BY <1>6, <2>1, <2>2
<1>7. ASSUME NEW type \in EventTypes, NEW b \in BOOLEAN, e.type # type, Armed(list, type, b)
      PROVE  Armed(long, type, b)
  <2>1. b => \E j \in 1..(n + 1) : long[j].type = type
    BY <1>1, <1>4, <1>7 DEF Armed
  <2>2. ~b => \A j \in 1..(n + 1) : long[j].type # type
    BY <1>1, <1>3, <1>7 DEF Armed
  <2>3. \A i, j \in 1..n : list[i].type = type /\ list[j].type = type => i = j
    BY <1>1, <1>7 DEF Armed
  <2> QED
    BY <1>1, <1>6, <1>7, <2>1, <2>2, <2>3 DEF Armed
<1>8. ASSUME Armed(list, e.type, FALSE)
      PROVE  Armed(long, e.type, TRUE)
  <2>1. \A i \in 1..n : list[i].type # e.type
    BY <1>1, <1>8 DEF Armed
  <2>2. \A i, j \in 1..n : list[i].type = e.type /\ list[j].type = e.type => i = j
    BY <2>1
  <2> QED
    BY <1>1, <1>2, <1>6, <2>1, <2>2 DEF Armed
<1> QED
  BY <1>5, <1>7, <1>8

\* A sorted list without its first event.
LEMMA TailArms ==
    ASSUME NEW list \in Seq(Event), list # << >>, Sorted(list)
    PROVE  /\ Head(list) \in Event /\ Tail(list) \in Seq(Event) /\ Sorted(Tail(list))
           /\ Within(Tail(list), list, Head(list))
           /\ \A i \in DOMAIN list : Head(list).when <= list[i].when
           /\ \E i \in DOMAIN list : Head(list) = list[i]
           /\ \A type \in EventTypes, b \in BOOLEAN :
                Head(list).type # type /\ Armed(list, type, b) => Armed(Tail(list), type, b)
           /\ \A b \in BOOLEAN : Armed(list, Head(list).type, b) =>
                b /\ Armed(Tail(list), Head(list).type, FALSE)
           /\ Tail(list) = << >> => \A i \in DOMAIN list : list[i] = Head(list)
<1> DEFINE n == Len(list)
           u == Tail(list)
           h == Head(list)
<1>1. /\ h \in Event /\ h = list[1]
      /\ u \in Seq(Event) /\ Len(u) = n - 1
      /\ \A i \in 1..Len(u) : u[i] = list[i + 1]
  BY HeadTailProperties
<1>2. /\ n \in Nat \ {0} /\ DOMAIN list = 1..n /\ DOMAIN u = 1..(n - 1)
      /\ 1 \in 1..n
  BY <1>1, LenProperties, EmptySeq
<1>3. /\ \A i \in 1..n : list[i] \in Event /\ list[i].when \in Int
      /\ \A i \in 1..(n - 1) : i + 1 \in 1..n /\ i + 1 # 1 /\ u[i] = list[i + 1]
      /\ \A i \in 1..n : i # 1 => i - 1 \in 1..(n - 1) /\ u[i - 1] = list[i]
  <2>1. \A i \in 1..n : list[i] \in Event
    BY ElementOfSeq
  <2>2. \A i \in 1..n : i # 1 => i - 1 \in 1..(n - 1) /\ (i - 1) + 1 = i
    BY <1>2
  <2> QED
    BY <1>1, <1>2, <2>1, <2>2 DEF Event
<1>4. \A i, j \in 1..n : i < j => list[i].when <= list[j].when
  BY <1>2 DEF Sorted
<1> HIDE DEF u, h
<1>5. Sorted(u)
  <2> SUFFICES ASSUME NEW i \in 1..(n - 1), NEW j \in 1..(n - 1), i < j
               PROVE  u[i].when <= u[j].when
    BY <1>2 DEF Sorted
  <2>1. i + 1 < j + 1
    BY <1>2
  <2> QED
    BY <1>3, <1>4, <2>1
<1>6. Within(u, list, h)
  BY <1>2, <1>3 DEF Within
<1>7. \A i \in 1..n : h.when <= list[i].when
  <2> SUFFICES ASSUME NEW i \in 1..n
               PROVE  h.when <= list[i].when
    OBVIOUS
  <2>1. i = 1 \/ 1 < i
    BY <1>2
  <2> QED
    BY <1>1, <1>2, <1>3, <1>4, <2>1 DEF h
<1>8. ASSUME NEW type, \A i, j \in 1..n : list[i].type = type /\ list[j].type = type => i = j,
             NEW i \in 1..(n - 1), NEW j \in 1..(n - 1), u[i].type = type, u[j].type = type
      PROVE  i = j
  <2>1. i + 1 = j + 1
    BY <1>3, <1>8
  <2> QED
    BY <1>2, <2>1
<1>9. ASSUME NEW type \in EventTypes, NEW b \in BOOLEAN, h.type # type, Armed(list, type, b)
      PROVE  Armed(u, type, b)
  <2>1. ASSUME b
        PROVE  \E i \in 1..(n - 1) : u[i].type = type
    <3>1. PICK i \in 1..n : list[i].type = type
      BY <1>2, <1>9, <2>1 DEF Armed
    <3>2. i # 1
      BY <1>1, <1>9, <3>1 DEF h
    <3> QED
      BY <1>3, <3>1, <3>2
  <2>2. ~b => \A i \in 1..(n - 1) : u[i].type # type
    BY <1>2, <1>3, <1>9 DEF Armed
  <2> QED
    BY <1>2, <1>8, <1>9, <2>1, <2>2 DEF Armed
<1>10. ASSUME NEW b \in BOOLEAN, Armed(list, h.type, b)
       PROVE  b /\ Armed(u, h.type, FALSE)
  <2>1. list[1].type = h.type
    BY <1>1 DEF h
  <2>2. b
    BY <1>2, <1>10, <2>1 DEF Armed
  <2>3. \A i \in 1..(n - 1) : u[i].type # h.type
    BY <1>2, <1>3, <1>10, <2>1 DEF Armed
  <2>4. Armed(u, h.type, FALSE)
    BY <1>2, <2>3 DEF Armed
  <2> QED
    BY <2>2, <2>4
<1>11. ASSUME u = << >>
       PROVE  \A i \in 1..n : list[i] = h
  <2>1. n = 1
    <3>1. Len(u) = n - 1
      BY <1>1 DEF u
    <3>2. Len(u) = 0
      BY <1>11, EmptySeq
    <3>3. n \in Nat
      BY <1>2
    <3> HIDE DEF n
    <3> QED
      BY <3>1, <3>2, <3>3
  <2>2. \A i \in 1..n : i = 1
    <3> HIDE DEF n
    <3> QED
      BY <2>1
  <2> QED
    BY <1>1, <2>2 DEF h
<1> QED
  BY <1>1, <1>2, <1>5, <1>6, <1>7, <1>9, <1>10, <1>11 DEF u, h

\* A list after a lapse of time.
LEMMA ElapseArms ==
    ASSUME NEW list \in Seq(Event), Sorted(list), NEW d \in Int
    PROVE  /\ Elapse(list, d) \in Seq(Event)
           /\ Sorted(Elapse(list, d))
           /\ DOMAIN Elapse(list, d) = DOMAIN list
           /\ \A i \in DOMAIN list : /\ Elapse(list, d)[i].type = list[i].type
                                     /\ Elapse(list, d)[i].when = list[i].when - d
           /\ \A type \in EventTypes, b \in BOOLEAN :
                Armed(list, type, b) => Armed(Elapse(list, d), type, b)
           /\ list = << >> <=> Elapse(list, d) = << >>
<1> DEFINE n == Len(list)
           u == Elapse(list, d)
<1>1. /\ n \in Nat /\ DOMAIN list = 1..n
      /\ \A i \in 1..n : /\ list[i] \in Event /\ list[i].when \in Int
                         /\ list[i].type \in EventTypes
                         /\ list[i] = [type |-> list[i].type, when |-> list[i].when]
  <2>1. n \in Nat /\ DOMAIN list = 1..n /\ \A i \in 1..n : list[i] \in Event
    BY LenProperties, ElementOfSeq
  <2> QED
    BY <2>1 DEF Event
<1>2. ASSUME NEW i \in 1..n
      PROVE  u[i] \in Event /\ u[i].type = list[i].type /\ u[i].when = list[i].when - d
  <2>1. u[i] = [list[i] EXCEPT !.when = list[i].when - d]
    BY <1>1 DEF Elapse
  <2>2. /\ list[i] \in Event /\ list[i].when \in Int
        /\ list[i].type \in EventTypes /\ list[i].when - d \in Int
    BY <1>1
  <2>3. u[i] = [type |-> list[i].type, when |-> list[i].when - d]
    BY <2>1, <2>2 DEF Event
  <2> QED
    BY <2>2, <2>3 DEF Event
<1>3. DOMAIN u = 1..n /\ u \in [1..n -> Event]
  BY <1>1, <1>2 DEF Elapse
<1> HIDE DEF u
<1>4. u \in Seq(Event)
  BY <1>1, <1>3, SeqDef
<1>5. Sorted(u)
  <2>1. \A i, j \in 1..n : i < j => list[i].when <= list[j].when
    BY <1>1 DEF Sorted
  <2> QED
    BY <1>1, <1>2, <1>3, <2>1 DEF Sorted
<1>6. ASSUME NEW type \in EventTypes, NEW b \in BOOLEAN, Armed(list, type, b)
      PROVE  Armed(u, type, b)
  BY <1>1, <1>2, <1>3, <1>6 DEF Armed
<1>7. list = << >> <=> u = << >>
  BY <1>1, <1>3, <1>4, EmptySeq, LenProperties
<1> QED
  BY <1>1, <1>2, <1>3, <1>4, <1>5, <1>6, <1>7 DEF u

\* Interrupt::Schedule.
LEMMA ScheduledArms ==
    ASSUME NEW list \in Seq(Event), Sorted(list),
           NEW type \in EventTypes, NEW fromNow \in Int
    PROVE  /\ Scheduled(list, type, fromNow) \in Seq(Event)
           /\ Sorted(Scheduled(list, type, fromNow))
           /\ \A other \in EventTypes, b \in BOOLEAN :
                other # type /\ Armed(list, other, b) =>
                    Armed(Scheduled(list, type, fromNow), other, b)
           /\ Armed(list, type, FALSE) => Armed(Scheduled(list, type, fromNow), type, TRUE)
           /\ Within(Scheduled(list, type, fromNow), list, [type |-> type, when |-> fromNow])
<1> DEFINE e == [type |-> type, when |-> fromNow]
<1>1. e \in Event /\ e.type = type
  BY DEF Event
<1>2. Scheduled(list, type, fromNow) = SortedInsert(list, e)
  BY DEF Scheduled
<1> HIDE DEF e
<1>3. /\ SortedInsert(list, e) \in Seq(Event)
      /\ Sorted(SortedInsert(list, e))
      /\ \E k \in 1..(Len(list) + 1) : IsInsertion(SortedInsert(list, e), list, e, k)
  BY <1>1, InsertPlace
<1>4. /\ Within(SortedInsert(list, e), list, e)
      /\ \A other \in EventTypes, b \in BOOLEAN :
           e.type # other /\ Armed(list, other, b) => Armed(SortedInsert(list, e), other, b)
      /\ Armed(list, e.type, FALSE) => Armed(SortedInsert(list, e), e.type, TRUE)
  BY <1>1, <1>3, InsertArms
<1> QED
  BY <1>1, <1>2, <1>3, <1>4 DEF e

ListOK == events \in Seq(Event) /\ Sorted(events)

\* The clock jumps by a number of ticks.
LEMMA AdvanceInt ==
    ASSUME ListOK, events # << >>, NEW advanceClock \in BOOLEAN
    PROVE  /\ Advance(advanceClock) \in Int
           /\ ~advanceClock => Advance(advanceClock) = 0
           /\ advanceClock => Head(events).when - Advance(advanceClock) <= 0
<1>1. Head(events).when \in Int
  BY TailArms DEF ListOK, Event
<1> QED
  BY <1>1 DEF Advance

\* What the handler of the first event finds.
LEMMA RemainingArms ==
    ASSUME ListOK, NEW advanceClock \in BOOLEAN, Due(advanceClock)
    PROVE  /\ Head(events).type \in EventTypes
           /\ Remaining(advanceClock) \in Seq(Event)
           /\ Sorted(Remaining(advanceClock))
           /\ \A type \in EventTypes, b \in BOOLEAN :
                Head(events).type # type /\ Armed(events, type, b) =>
                    Armed(Remaining(advanceClock), type, b)
           /\ \A b \in BOOLEAN : Armed(events, Head(events).type, b) =>
                b /\ Armed(Remaining(advanceClock), Head(events).type, FALSE)
<1> DEFINE d == Advance(advanceClock)
           u == Tail(events)
<1>1. events # << >> /\ events \in Seq(Event) /\ Sorted(events)
  BY DEF Due, ListOK
<1>2. d \in Int
  BY <1>1, AdvanceInt
<1>3. /\ Head(events) \in Event /\ u \in Seq(Event) /\ Sorted(u)
      /\ \A type \in EventTypes, b \in BOOLEAN :
           Head(events).type # type /\ Armed(events, type, b) => Armed(u, type, b)
      /\ \A b \in BOOLEAN : Armed(events, Head(events).type, b) =>
           b /\ Armed(u, Head(events).type, FALSE)
  BY <1>1, TailArms
<1>4. Head(events).type \in EventTypes
  BY <1>3 DEF Event
<1> HIDE DEF d, u
<1>5. /\ Elapse(u, d) \in Seq(Event)
      /\ Sorted(Elapse(u, d))
      /\ \A type \in EventTypes, b \in BOOLEAN :
           Armed(u, type, b) => Armed(Elapse(u, d), type, b)
  BY <1>2, <1>3, ElapseArms
<1>6. Remaining(advanceClock) = Elapse(u, d)
  BY DEF Remaining, u, d
<1> QED
  BY <1>3, <1>4, <1>5, <1>6

\* What CheckIfDue leaves when it returns FALSE: nothing is lost or doubled,
\* and what is overdue is a timer that has nobody to preempt.
LEMMA PutBackArms ==
    ASSUME ListOK, NEW advanceClock \in BOOLEAN, PutBack(advanceClock)
    PROVE  /\ ListOK'
           /\ \A type \in EventTypes, b \in BOOLEAN :
                Armed(events, type, b) => Armed(events', type, b)
           /\ \/ ~advanceClock /\ \A i \in DOMAIN events' : events'[i].when > 0
              \/ \A i \in DOMAIN events' : Idling /\ events'[i].type = "TimerInt"
<1>1. CASE events = << >>
  <2>1. events' = << >>
    BY <1>1 DEF PutBack
  <2>2. DOMAIN events' = {}
    BY <2>1
  <2> QED
    BY <1>1, <2>1, <2>2 DEF ListOK, Sorted
<1>2. CASE events # << >>
  <2> DEFINE d == Advance(advanceClock)
             now == Elapse(events, d)
             u == Tail(now)
             h == Head(now)
  <2>1. events' = SortedInsert(u, h)
    BY <1>2 DEF PutBack
  <2>2. d \in Int /\ (advanceClock => Head(events).when - d <= 0)
    BY <1>2, AdvanceInt
  <2> HIDE DEF d
  <2>3. /\ now \in Seq(Event) /\ Sorted(now) /\ now # << >>
        /\ DOMAIN now = DOMAIN events
        /\ \A i \in DOMAIN events : /\ now[i].type = events[i].type
                                    /\ now[i].when = events[i].when - d
        /\ \A type \in EventTypes, b \in BOOLEAN :
             Armed(events, type, b) => Armed(now, type, b)
    BY <1>2, <2>2, ElapseArms DEF ListOK
  <2> HIDE DEF now
  <2>4. /\ h \in Event /\ u \in Seq(Event) /\ Sorted(u)
        /\ Within(u, now, h)
        /\ \A i \in DOMAIN now : h.when <= now[i].when
        /\ \E i \in DOMAIN now : h = now[i]
        /\ \A type \in EventTypes, b \in BOOLEAN :
             h.type # type /\ Armed(now, type, b) => Armed(u, type, b)
        /\ \A b \in BOOLEAN : Armed(now, h.type, b) => b /\ Armed(u, h.type, FALSE)
    BY <2>3, TailArms
  <2> HIDE DEF u, h
  <2>5. /\ events' \in Seq(Event) /\ Sorted(events')
        /\ \E k \in 1..(Len(u) + 1) : IsInsertion(events', u, h, k)
    BY <2>1, <2>4, InsertPlace
  <2>6. /\ Within(events', u, h)
        /\ \A type \in EventTypes, b \in BOOLEAN :
             h.type # type /\ Armed(u, type, b) => Armed(events', type, b)
        /\ Armed(u, h.type, FALSE) => Armed(events', h.type, TRUE)
    BY <2>4, <2>5, InsertArms
  <2>7. ASSUME NEW type \in EventTypes, NEW b \in BOOLEAN, Armed(events, type, b)
        PROVE  Armed(events', type, b)
    <3>1. Armed(now, type, b)
      BY <2>3, <2>7
    <3>2. CASE h.type # type
      BY <2>4, <2>6, <3>1, <3>2
    <3>3. CASE h.type = type
      <4>1. b /\ Armed(u, type, FALSE)
        BY <2>4, <3>1, <3>3
      <4>2. Armed(events', type, TRUE)
        BY <2>6, <3>3, <4>1
      <4>3. b = TRUE
        BY <4>1
      <4> QED
        BY <4>2, <4>3
    <3> QED
      BY <3>2, <3>3
  <2>8. \A i \in DOMAIN events' : \E j \in DOMAIN events :
          events'[i] = now[j]
    BY <2>3, <2>4, <2>6 DEF Within
  <2>9. /\ \A i \in DOMAIN events : Head(events).when <= events[i].when
        /\ \A i \in DOMAIN events : events[i].when \in Int
        /\ Tail(events) = << >> => \A i \in DOMAIN events : events[i] = Head(events)
    <3>1. \A i \in DOMAIN events : events[i] \in Event
      BY ElementOfSeq, LenProperties DEF ListOK
    <3> QED
      BY <1>2, <3>1, TailArms DEF ListOK, Event
  <2>10. Head(events).when \in Int
    BY <1>2, TailArms DEF ListOK, Event
  <2>11. CASE Head(events).when - d > 0
    <3>1. ~advanceClock
      BY <2>2, <2>10, <2>11
    <3>2. \A j \in DOMAIN events : now[j].when > 0
      BY <2>2, <2>3, <2>9, <2>10, <2>11
    <3> QED
      BY <2>5, <2>7, <2>8, <3>1, <3>2 DEF ListOK
  <2>12. CASE LoneTimer
    <3>1. \A j \in DOMAIN events : now[j].type = "TimerInt"
      BY <2>3, <2>9, <2>12 DEF LoneTimer
    <3> QED
      BY <2>5, <2>7, <2>8, <2>12, <3>1 DEF ListOK, LoneTimer
  <2>13. Head(events).when - d > 0 \/ LoneTimer
    BY <1>2, <2>2, <2>10 DEF PutBack, Due, d
  <2> QED
    BY <2>11, <2>12, <2>13
<1> QED
  BY <1>1, <1>2

-----------------------------------------------------------------------------
(* The inductive invariant.                                                *)

\* The devices' events, as DevicesArmed has them.
Arms ==
    /\ Armed(events, "TimerInt", RandomYield)
    /\ Armed(events, "ConsoleReadInt", pc \notin {"start", "finished"})
    /\ Armed(events, "DiskInt", pending[disk] > 0)
    /\ Armed(events, "ConsoleWriteInt", putBusy)

\* What is overdue, when no handler can run, is a timer.
OnTime ==
    servicing \in {"none", "yield", "idle"} /\ mode # "Halted" =>
        \A i \in DOMAIN events : events[i].type # "TimerInt" => events[i].when > 0

\* What the simulation is doing, and the threads and the mode.
InService ==
    /\ servicing \in {"idle", "idling"} => mode = "IdleMode"
    /\ servicing \in {"tick", "yield"} => Executing(currentThread)
    /\ servicing = "idle" => readyList = << >>
    /\ mode = "IdleMode" => \A t \in Threads : status[t] # "RUNNING"
    /\ mode = "Halted" => servicing = "none"
    /\ yieldOnReturn => servicing \in {"tick", "idling"}

\* Each semaphore has one thread that calls its P(), and that thread goes on
\* until it has been let through.
Callers ==
    /\ \A t \in Threads : inP[t] = readAvail => t = Main /\ pc = "readAvail"
    /\ \A t \in Threads : inP[t] = writeDone => t = Main /\ pc = "writeDone"
    /\ \A t \in Threads : inP[t] = disk => t = caller
    /\ caller # Main
    /\ \A t \in Threads : status[t] = "JUST_CREATED" => inP[t] = NULL /\ caller # t
    /\ status[Main] # "JUST_CREATED"
    /\ \A t \in Threads : Finished(t) => caller # t
    /\ Finished(Main) => pc = "finished"

\* Nobody sleeps while the value would let it through.
Sleepers ==
    \A t \in Threads, s \in Semaphores :
        status[t] = "BLOCKED" /\ inP[t] = s => value[s] = 0

\* The values and the pending interrupts, and where the program and the device are.
Balance ==
    /\ value[readAvail] = IF incoming # NULL /\ pc # "get" THEN 1 ELSE 0
    /\ pc = "get" => incoming # NULL
    /\ pending[readAvail] = 0
    /\ pending[writeDone] = IF putBusy THEN 1 ELSE 0
    /\ value[writeDone] = IF pc = "writeDone" /\ ~putBusy THEN 1 ELSE 0
    /\ putBusy => pc = "writeDone"
    /\ value[disk] + pending[disk] = IF caller # NULL THEN 1 ELSE 0
    /\ pc = "put" => ch \in Chars

\* The types of the variables of Console itself.
ConsoleTypes ==
    /\ servicing \in Servicing
    /\ yieldOnReturn \in BOOLEAN
    /\ typed \in Seq(Chars) /\ shown \in Seq(Chars)
    /\ nread \in 0..Len(typed)
    /\ incoming \in Chars \cup {NULL}
    /\ putBusy \in BOOLEAN
    /\ pc \in ConsolePoints
    /\ ch \in Chars \cup {NULL}
    /\ requests \in 0..MaxRequests
    /\ caller \in Threads \cup {NULL}

EventsInv == ListOK /\ Arms /\ OnTime
ThreadsInv == KTypeOK /\ QInv /\ InService /\ Callers /\ Sleepers
ProgramInv == ConsoleTypes /\ Balance /\ EchoFaithful

ConInv == EventsInv /\ ThreadsInv /\ ProgramInv /\ HaltsWhenQuiet

\* The three semaphores are three.
LEMMA ThreeSemaphores ==
    /\ readAvail \in Semaphores /\ writeDone \in Semaphores /\ disk \in Semaphores
    /\ readAvail # writeDone /\ readAvail # disk /\ writeDone # disk
    /\ readAvail # NULL /\ writeDone # NULL /\ disk # NULL
    /\ \A s \in Semaphores : s \in {readAvail, writeDone, disk}
<1> USE ConsoleAssumption, KernelAssumption
<1>1. ASSUME NEW x, NEW y
      PROVE  IsFiniteSet({x, y}) /\ Cardinality({x, y}) <= 2
  <2>1. IsFiniteSet({x}) /\ Cardinality({x}) = 1
    BY FS_Singleton
  <2>2. {x, y} = {x} \cup {y}
    OBVIOUS
  <2>3. IsFiniteSet({x} \cup {y}) /\ Cardinality({x} \cup {y}) =
            IF y \in {x} THEN Cardinality({x}) ELSE Cardinality({x}) + 1
    BY <2>1, FS_AddElement
  <2> QED
    BY <2>1, <2>2, <2>3
<1>2. Cardinality({readAvail, writeDone, disk}) = 3
  OBVIOUS
<1>3. readAvail # writeDone
  <2> SUFFICES ASSUME readAvail = writeDone PROVE FALSE
    OBVIOUS
  <2>1. {readAvail, writeDone, disk} = {writeDone, disk}
    OBVIOUS
  <2>2. Cardinality({writeDone, disk}) <= 2 /\ Cardinality({writeDone, disk}) = 3
    BY <1>1, <1>2, <2>1
  <2> QED
    BY <2>2
<1>4. readAvail # disk
  <2> SUFFICES ASSUME readAvail = disk PROVE FALSE
    OBVIOUS
  <2>1. {readAvail, writeDone, disk} = {writeDone, disk}
    OBVIOUS
  <2>2. Cardinality({writeDone, disk}) <= 2 /\ Cardinality({writeDone, disk}) = 3
    BY <1>1, <1>2, <2>1
  <2> QED
    BY <2>2
<1>5. writeDone # disk
  <2> SUFFICES ASSUME writeDone = disk PROVE FALSE
    OBVIOUS
  <2>1. {readAvail, writeDone, disk} = {readAvail, disk}
    OBVIOUS
  <2>2. Cardinality({readAvail, disk}) <= 2 /\ Cardinality({readAvail, disk}) = 3
    BY <1>1, <1>2, <2>1
  <2> QED
    BY <2>2
<1> QED
  BY <1>3, <1>4, <1>5

\* The machine as it starts.
LEMMA InitInv == ConInit => ConInv
<1> SUFFICES ASSUME ConInit PROVE ConInv
  OBVIOUS
<1> USE KernelAssumption, ConsoleAssumption, InterruptAssumption
<1>1. KInit /\ servicing = "none" /\ yieldOnReturn = FALSE
  BY DEF ConInit, IInit
<1>2. KTypeOK /\ QInv
  BY <1>1, EmptyFresh DEF KInit, KTypeOK, ThreadStatus, MachineStatus, QInv,
       ReadyListExact, WaitQueuesExact
<1>3. EventsInv
  <2>1. CASE RandomYield
    <3>1. PICK delay \in TimeOfNextInterrupt :
            events = << [type |-> "TimerInt", when |-> delay] >>
      BY <2>1 DEF ConInit, IInit
    <3>2. delay \in Int
      BY <3>1 DEF TimeOfNextInterrupt
    <3>3. [type |-> "TimerInt", when |-> delay] \in Event
      BY <3>2 DEF Event, EventTypes
    <3>4. /\ events \in Seq(Event) /\ DOMAIN events = {1}
          /\ events[1] = [type |-> "TimerInt", when |-> delay]
      BY <3>1, <3>3
    <3> QED
      BY <1>1, <2>1, <3>4, ThreeSemaphores
         DEF EventsInv, ListOK, Sorted, Arms, OnTime, Armed, ConInit, KInit
  <2>2. CASE ~RandomYield
    <3>1. events = << >>
      BY <2>2 DEF ConInit, IInit
    <3>2. events \in Seq(Event) /\ DOMAIN events = {}
      BY <3>1
    <3> QED
      BY <1>1, <2>2, <3>2, ThreeSemaphores
         DEF EventsInv, ListOK, Sorted, Arms, OnTime, Armed, ConInit, KInit
  <2> QED
    BY <2>1, <2>2
<1>4. InService /\ Callers /\ Sleepers
  BY <1>1, ThreeSemaphores DEF KInit, ConInit, InService, Callers, Sleepers, Finished
<1>5. ConsoleTypes
  <2>1. /\ typed = << >> /\ shown = << >> /\ nread = 0 /\ incoming = NULL
        /\ putBusy = FALSE /\ pc = "start" /\ ch = NULL /\ requests = 0 /\ caller = NULL
    BY DEF ConInit
  <2>2. nread \in 0..Len(typed)
    BY <2>1, EmptySeq
  <2>3. typed \in Seq(Chars) /\ shown \in Seq(Chars)
    BY <2>1, EmptySeq
  <2>4. servicing \in Servicing /\ yieldOnReturn \in BOOLEAN /\ pc \in ConsolePoints
    BY <1>1, <2>1 DEF Servicing, ConsolePoints
  <2>5. requests \in 0..MaxRequests
    <3>1. MaxRequests \in Nat
      OBVIOUS
    <3> QED
      BY <2>1, <3>1
  <2> QED
    BY <2>1, <2>2, <2>3, <2>4, <2>5 DEF ConsoleTypes
<1>6. Balance
  BY <1>1, ThreeSemaphores DEF ConInit, KInit, Balance
<1>7. EchoFaithful
  <2>1. SubSeq(typed, 1, nread) = << >>
    BY SubSeqEmpty DEF ConInit
  <2>2. Held = << >>
    BY DEF ConInit, Held
  <2>3. shown \o Held = << >>
    BY <2>2 DEF ConInit
  <2> QED
    BY <2>1, <2>3 DEF EchoFaithful
<1>8. HaltsWhenQuiet
  BY <1>1 DEF KInit, HaltsWhenQuiet
<1> QED
  BY <1>2, <1>3, <1>4, <1>5, <1>6, <1>7, <1>8 DEF ConInv, ThreadsInv, ProgramInv

-----------------------------------------------------------------------------
(* The threads.                                                            *)

\* A step of the simulation or of the program that is no operation of a thread.
LEMMA ThreadsKept ==
    ASSUME ThreadsInv, UNCHANGED kvars, UNCHANGED caller,
           servicing' \in {"idle", "idling"} => mode = "IdleMode",
           servicing' \in {"tick", "yield"} => Executing(currentThread),
           servicing' = "idle" => readyList = << >>,
           mode = "Halted" => servicing' = "none",
           yieldOnReturn' => servicing' \in {"tick", "idling"},
           pc' = pc \/ pc \notin {"readAvail", "writeDone", "finished"}
    PROVE  ThreadsInv'
<1>1. UNCHANGED << currentThread, status, readyList, inP, value, queue, mode >>
  BY DEF kvars
<1>2. KTypeOK' /\ QInv'
  BY StepKeepsTypes, StepKeepsQueues DEF ThreadsInv
<1>3. InService'
  BY <1>1 DEF ThreadsInv, InService, Executing
<1>4. Callers'
  BY <1>1 DEF ThreadsInv, Callers, Finished
<1>5. Sleepers'
  BY <1>1 DEF ThreadsInv, Sleepers
<1> QED
  BY <1>2, <1>3, <1>4, <1>5 DEF ThreadsInv

\* P() turns interrupts off.
LEMMA EnterKeepsThreads ==
    ASSUME ThreadsInv, NEW t \in Threads, NEW s \in Semaphores, IPEnter(t, s),
           UNCHANGED << pc, caller >>,
           s = readAvail => t = Main /\ pc = "readAvail",
           s = writeDone => t = Main /\ pc = "writeDone",
           s = disk => t = caller
    PROVE  ThreadsInv'
<1>1. /\ Executing(t) /\ servicing = "none" /\ UNCHANGED intVars /\ PEnter(t, s)
      /\ inP' = [inP EXCEPT ![t] = s]
      /\ UNCHANGED << currentThread, status, readyList, value, queue, mode >>
  BY DEF IPEnter, PEnter, threadVars
<1>2. KNext
  BY <1>1 DEF KNext, ThreadStep
<1>3. KTypeOK' /\ QInv'
  BY <1>2, StepKeepsTypes, StepKeepsQueues DEF ThreadsInv
<1>4. InService'
  BY <1>1 DEF ThreadsInv, InService, intVars
<1>5. inP \in [Threads -> Semaphores \cup {NULL}] /\ status[t] = "RUNNING"
  BY <1>1 DEF ThreadsInv, KTypeOK, Executing
<1>6. Callers'
  BY <1>1, <1>5, ThreeSemaphores DEF ThreadsInv, Callers, Finished
<1>7. Sleepers'
  BY <1>1, <1>5 DEF ThreadsInv, Sleepers
<1> QED
  BY <1>3, <1>4, <1>6, <1>7 DEF ThreadsInv

\* P() finds the value 0.
LEMMA SleepKeepsThreads ==
    ASSUME ThreadsInv, NEW t \in Threads, NEW s \in Semaphores, IPSleep(t, s),
           UNCHANGED << pc, caller >>
    PROVE  ThreadsInv'
<1>1. /\ InsideP(t, s) /\ value[s] = 0 /\ PSleep(t, s)
      /\ servicing = "none" /\ UNCHANGED << events, yieldOnReturn >>
      /\ servicing' = IF readyList = << >> THEN "idle" ELSE "none"
      /\ status' = [status EXCEPT ![t] = "BLOCKED"]
      /\ mode' = IF readyList = << >> THEN "IdleMode" ELSE mode
      /\ UNCHANGED << currentThread, readyList, inP, value >>
  BY DEF IPSleep, Sleeping, PSleep, Block, InsideP
<1>2. KNext
  BY <1>1 DEF KNext, ThreadStep
<1>3. KTypeOK' /\ QInv'
  BY <1>2, StepKeepsTypes, StepKeepsQueues DEF ThreadsInv
<1>4. /\ status \in [Threads -> ThreadStatus]
      /\ mode = "SystemMode" /\ currentThread = t /\ inP[t] = s /\ s # NULL
      /\ \A u \in Threads : status[u] = "RUNNING" => u = currentThread
  BY <1>1, KernelAssumption DEF ThreadsInv, KTypeOK, QInv, ReadyListExact, InsideP
<1>5. InService'
  BY <1>1, <1>4 DEF ThreadsInv, InService
<1>6. Callers'
  BY <1>1, <1>4 DEF ThreadsInv, Callers, Finished
<1>7. Sleepers'
  BY <1>1, <1>4 DEF ThreadsInv, Sleepers
<1> QED
  BY <1>3, <1>5, <1>6, <1>7 DEF ThreadsInv

\* P() is through.
LEMMA TakeKeepsThreads ==
    ASSUME ThreadsInv, NEW t \in Threads, NEW s \in Semaphores, IPTake(t, s),
           s # disk => UNCHANGED caller /\ pc' # "finished",
           s = disk => UNCHANGED pc /\ t = caller /\ caller' = NULL
    PROVE  ThreadsInv'
<1>1. /\ InsideP(t, s) /\ PTake(t, s)
      /\ servicing' = "tick" /\ UNCHANGED yieldOnReturn
      /\ value' = [value EXCEPT ![s] = @ - 1]
      /\ inP' = [inP EXCEPT ![t] = NULL]
      /\ UNCHANGED << currentThread, status, readyList, mode >>
  BY DEF IPTake, PTake, OneTick, threadVars
<1>2. KNext
  BY <1>1 DEF KNext, ThreadStep
<1>3. KTypeOK' /\ QInv'
  BY <1>2, StepKeepsTypes, StepKeepsQueues DEF ThreadsInv
<1>4. /\ inP \in [Threads -> Semaphores \cup {NULL}]
      /\ value \in [Semaphores -> 0..MaxValue]
      /\ mode = "SystemMode" /\ currentThread = t /\ status[t] = "RUNNING"
      /\ inP[t] = s /\ value[s] # 0
  BY <1>1 DEF ThreadsInv, KTypeOK, InsideP, PTake
<1>5. InService'
  BY <1>1, <1>4 DEF ThreadsInv, InService, Executing
<1>6. s \in {readAvail, writeDone, disk}
  BY ThreeSemaphores
<1>7. \A u \in Threads : inP[u] = s => u = t
  BY <1>4, <1>6, ThreeSemaphores DEF ThreadsInv, Callers
<1>8. Callers'
  <2>1. CASE s = disk
    <3>1. \A u \in Threads : inP'[u] # disk /\ (u # t => inP'[u] = inP[u]) /\ inP'[t] = NULL
      BY <1>1, <1>4, <1>7, <2>1, ThreeSemaphores
    <3> QED
      BY <1>1, <1>4, <2>1, <3>1, ThreeSemaphores, KernelAssumption DEF ThreadsInv, Callers, Finished
  <2>2. CASE s # disk
    <3>1. t = Main
      BY <1>4, <1>6, <2>2 DEF ThreadsInv, Callers
    <3>2. \A u \in Threads : inP'[u] \notin {readAvail, writeDone}
      BY <1>1, <1>4, <3>1, ThreeSemaphores DEF ThreadsInv, Callers
    <3> QED
      BY <1>1, <1>4, <2>2, <3>1, <3>2, ThreeSemaphores DEF ThreadsInv, Callers, Finished
  <2> QED
    BY <2>1, <2>2
<1>9. Sleepers'
  BY <1>1, <1>4, <1>7 DEF ThreadsInv, Sleepers
<1> QED
  BY <1>3, <1>5, <1>8, <1>9 DEF ThreadsInv

\* Thread::Finish.
LEMMA FinishKeepsThreads ==
    ASSUME ThreadsInv, NEW t \in Threads, IFinish(t), UNCHANGED caller, caller # t,
           pc' = pc \/ pc \notin {"readAvail", "writeDone", "finished"},
           t = Main => pc' = "finished"
    PROVE  ThreadsInv'
<1>1. /\ Executing(t) /\ Finish
      /\ servicing = "none" /\ UNCHANGED << events, yieldOnReturn >>
      /\ servicing' = IF readyList = << >> THEN "idle" ELSE "none"
      /\ status' = [status EXCEPT ![t] = "BLOCKED"]
      /\ mode' = IF readyList = << >> THEN "IdleMode" ELSE mode
      /\ UNCHANGED << currentThread, readyList, inP, value >>
  BY DEF IFinish, Sleeping, Finish, Block, Executing, semaphoreVars
<1>2. KNext
  BY <1>1 DEF KNext, ThreadStep
<1>3. KTypeOK' /\ QInv'
  BY <1>2, StepKeepsTypes, StepKeepsQueues DEF ThreadsInv
<1>4. /\ status \in [Threads -> ThreadStatus]
      /\ mode = "SystemMode" /\ currentThread = t /\ inP[t] = NULL
      /\ \A u \in Threads : status[u] = "RUNNING" => u = currentThread
  BY <1>1 DEF ThreadsInv, KTypeOK, QInv, ReadyListExact, Executing
<1>5. InService'
  BY <1>1, <1>4 DEF ThreadsInv, InService
<1>6. Callers'
  BY <1>1, <1>4 DEF ThreadsInv, Callers, Finished
<1>7. Sleepers'
  BY <1>1, <1>4, KernelAssumption DEF ThreadsInv, Sleepers
<1> QED
  BY <1>3, <1>5, <1>6, <1>7 DEF ThreadsInv

\* Thread::Fork.
LEMMA ForkKeepsThreads ==
    ASSUME ThreadsInv, NEW t \in Threads, NEW u \in Threads, IFork(t, u),
           UNCHANGED << pc, caller >>
    PROVE  ThreadsInv'
<1>1. /\ Executing(t) /\ Fork(u)
      /\ servicing' = "tick" /\ UNCHANGED yieldOnReturn
      /\ status[u] = "JUST_CREATED"
      /\ status' = [status EXCEPT ![u] = "READY"]
      /\ UNCHANGED << currentThread, inP, value, mode >>
  BY DEF IFork, Ticking, OneTick, Fork, ReadyToRun, semaphoreVars
<1>2. KNext
  BY <1>1 DEF KNext, ThreadStep
<1>3. KTypeOK' /\ QInv'
  BY <1>2, StepKeepsTypes, StepKeepsQueues DEF ThreadsInv
<1>4. /\ status \in [Threads -> ThreadStatus]
      /\ mode = "SystemMode" /\ currentThread = t /\ status[t] = "RUNNING" /\ inP[t] = NULL
  BY <1>1 DEF ThreadsInv, KTypeOK, Executing
<1>5. InService'
  BY <1>1, <1>4 DEF ThreadsInv, InService, Executing
<1>6. Callers'
  BY <1>1, <1>4 DEF ThreadsInv, Callers, Finished
<1>7. Sleepers'
  BY <1>1, <1>4 DEF ThreadsInv, Sleepers
<1> QED
  BY <1>3, <1>5, <1>6, <1>7 DEF ThreadsInv

\* The thread that has been switched to goes on.
LEMMA ResumeInService ==
    ASSUME NEW h, Resume(h), UNCHANGED inP, UNCHANGED yieldOnReturn, ~yieldOnReturn,
           currentThread' = h, mode' = "SystemMode", status'[h] = "RUNNING"
    PROVE  InService'
BY DEF Resume, OneTick, InService, Executing

\* Scheduler::Run after a thread has gone to sleep.
LEMMA DispatchKeepsThreads ==
    ASSUME ThreadsInv, IDispatch, UNCHANGED << pc, caller >>
    PROVE  ThreadsInv'
<1> DEFINE h == Head(readyList)
<1>1. /\ servicing = "none" /\ Dispatch /\ Resume(h) /\ UNCHANGED yieldOnReturn
      /\ currentThread' = h
      /\ status' = [status EXCEPT ![h] = "RUNNING"]
      /\ mode' = "SystemMode"
      /\ UNCHANGED << inP, value >>
  BY DEF IDispatch, Dispatch, Run, semaphoreVars
<1>2. KNext
  BY <1>1 DEF KNext, MachineStep
<1>3. KTypeOK' /\ QInv'
  BY <1>2, StepKeepsTypes, StepKeepsQueues DEF ThreadsInv
<1>4. h \in Threads /\ status[h] = "READY"
  <2>1. h \in Threads /\ h \in Range(readyList)
    BY <1>1, TailFresh DEF Dispatch, ThreadsInv, KTypeOK
  <2> QED
    BY <2>1 DEF ThreadsInv, QInv, ReadyListExact
<1>5. status \in [Threads -> ThreadStatus]
  BY DEF ThreadsInv, KTypeOK
<1> HIDE DEF h
<1>6. InService'
  <2>1. ~yieldOnReturn
    BY <1>1 DEF ThreadsInv, InService
  <2> QED
    BY <1>1, <1>4, <1>5, <2>1, ResumeInService
<1>7. Callers'
  BY <1>1, <1>4, <1>5 DEF ThreadsInv, Callers, Finished
<1>8. Sleepers'
  BY <1>1, <1>4, <1>5 DEF ThreadsInv, Sleepers
<1> QED
  BY <1>3, <1>6, <1>7, <1>8 DEF ThreadsInv

\* Thread::Yield on behalf of the thread that has been preempted.
LEMMA YieldKeepsThreads ==
    ASSUME ThreadsInv, TickYield, UNCHANGED << pc, caller >>
    PROVE  ThreadsInv'
<1>1. servicing = "yield" /\ Executing(currentThread) /\ UNCHANGED yieldOnReturn /\ ~yieldOnReturn
  BY DEF TickYield, ThreadsInv, InService
<1>2. CASE readyList = << >>
  <2>1. servicing' = "tick" /\ UNCHANGED kvars
    BY <1>2 DEF TickYield, YieldTick, OneTick, SwitchAway
  <2>2. mode # "Halted"
    BY <1>1 DEF Executing
  <2> QED
    BY <1>1, <2>1, <2>2, ThreadsKept
<1>3. CASE readyList # << >>
  <2> DEFINE h == Head(readyList)
  <2>1. /\ SwitchAway /\ Resume(h)
        /\ currentThread' = h
        /\ status' = [status EXCEPT ![currentThread] = "READY", ![h] = "RUNNING"]
        /\ UNCHANGED << inP, value, mode >>
    BY <1>3 DEF TickYield, YieldTick, SwitchAway, Run, semaphoreVars
  <2>2. currentThread \in Threads /\ status \in [Threads -> ThreadStatus]
    BY DEF ThreadsInv, KTypeOK
  <2>3. KNext
    BY <1>1, <2>1, <2>2 DEF KNext, ThreadStep, Yield
  <2>4. KTypeOK' /\ QInv'
    BY <2>3, StepKeepsTypes, StepKeepsQueues DEF ThreadsInv
  <2>5. h \in Threads /\ status[h] = "READY"
    <3>1. h \in Threads /\ h \in Range(readyList)
      BY <1>3, TailFresh DEF ThreadsInv, KTypeOK
    <3> QED
      BY <3>1 DEF ThreadsInv, QInv, ReadyListExact
  <2>6. /\ mode = "SystemMode" /\ status[currentThread] = "RUNNING"
        /\ inP[currentThread] = NULL /\ h # currentThread
    BY <1>1, <2>5 DEF Executing
  <2> HIDE DEF h
  <2>7. InService'
    <3>1. status'[h] = "RUNNING"
      BY <2>1, <2>2, <2>5
    <3> QED
      BY <1>1, <2>1, <2>6, <3>1, ResumeInService
  <2>8. Callers'
    <3>1. \A t \in Threads : /\ status'[t] = "JUST_CREATED" <=> status[t] = "JUST_CREATED"
                             /\ status'[t] = "BLOCKED" <=> status[t] = "BLOCKED"
      BY <2>1, <2>2, <2>5, <2>6
    <3> QED
      BY <2>1, <3>1, KernelAssumption DEF ThreadsInv, Callers, Finished
  <2>9. Sleepers'
    BY <2>1, <2>2, <2>5, <2>6 DEF ThreadsInv, Sleepers
  <2> QED
    BY <2>4, <2>7, <2>8, <2>9 DEF ThreadsInv
<1> QED
  BY <1>2, <1>3

\* V() in a handler.
LEMMA HandlerKeepsThreads ==
    ASSUME ThreadsInv, NEW s \in Semaphores, V(s),
           pending' \in [Semaphores -> 0..MaxPending],
           NEW advanceClock \in BOOLEAN, HandlerStep(advanceClock),
           UNCHANGED << yieldOnReturn, pc, caller >>
    PROVE  ThreadsInv'
<1>1. KTypeOK' /\ QInv'
  BY VKeepsTypes, VKeepsQueues DEF ThreadsInv
<1>2. /\ value' = [value EXCEPT ![s] = @ + 1]
      /\ UNCHANGED << currentThread, inP, mode >>
  BY DEF V
<1>3. /\ status \in [Threads -> ThreadStatus]
      /\ inP \in [Threads -> Semaphores \cup {NULL}]
      /\ value \in [Semaphores -> 0..MaxValue]
      /\ queue[s] \in Seq(Threads)
      /\ Range(queue[s]) = {t \in Threads : status[t] = "BLOCKED" /\ inP[t] = s}
      /\ currentThread \in Threads
  BY DEF ThreadsInv, KTypeOK, QInv, WaitQueuesExact
<1>4. \A t, u \in Threads : inP[t] = s /\ inP[u] = s => t = u
  <2>1. s \in {readAvail, writeDone, disk}
    BY ThreeSemaphores
  <2> QED
    BY <2>1 DEF ThreadsInv, Callers
<1>5. /\ \A t \in Threads : status'[t] # status[t] =>
           /\ status[t] = "BLOCKED" /\ status'[t] = "READY" /\ inP[t] = s
      /\ \A t \in Threads : inP[t] = s => status'[t] # "BLOCKED"
  <2>1. CASE queue[s] = << >>
    <3>1. UNCHANGED status
      BY <2>1 DEF V
    <3>2. Range(queue[s]) = {}
      BY <2>1, EmptyFresh
    <3> QED
      BY <1>3, <3>1, <3>2
  <2>2. CASE queue[s] # << >>
    <3> DEFINE h == Head(queue[s])
    <3>1. status' = [status EXCEPT ![h] = "READY"]
      BY <2>2, Zenon DEF V, ReadyToRun
    <3>2. h \in Threads /\ status[h] = "BLOCKED" /\ inP[h] = s
      BY <1>3, <2>2, TailFresh
    <3> HIDE DEF h
    <3> QED
      BY <1>3, <1>4, <3>1, <3>2
  <2> QED
    BY <2>1, <2>2
<1>6. \/ servicing = "tick" /\ UNCHANGED servicing /\ ~advanceClock
      \/ servicing \in {"idle", "idling"} /\ servicing' = "idling"
  BY DEF HandlerStep, TickHandler, IdleHandler
<1>7. InService'
  <2>1. servicing = "tick" => Executing(currentThread)'
    BY <1>2, <1>3, <1>5 DEF ThreadsInv, InService, Executing
  <2>2. mode' = "IdleMode" => \A t \in Threads : status'[t] # "RUNNING"
    BY <1>2, <1>5 DEF ThreadsInv, InService
  <2> QED
    BY <1>2, <1>6, <2>1, <2>2 DEF ThreadsInv, InService
<1>8. Callers'
  BY <1>2, <1>3, <1>5, KernelAssumption DEF ThreadsInv, Callers, Finished
<1>9. Sleepers'
  <2> SUFFICES ASSUME NEW t \in Threads, NEW r \in Semaphores,
                      status'[t] = "BLOCKED", inP'[t] = r
               PROVE  value'[r] = 0
    BY DEF Sleepers
  <2>1. r # s /\ status[t] = "BLOCKED"
    BY <1>2, <1>5
  <2> QED
    BY <1>2, <1>3, <2>1 DEF ThreadsInv, Sleepers
<1> QED
  BY <1>1, <1>7, <1>8, <1>9 DEF ThreadsInv

\* A request of a device.
LEMMA RequestKeepsThreads ==
    ASSUME ThreadsInv, NEW t \in Threads, NEW s \in Semaphores, Executing(t), Schedule(s),
           servicing = "none", UNCHANGED << servicing, yieldOnReturn >>,
           \/ UNCHANGED caller /\ pc \notin {"readAvail", "writeDone", "finished"}
           \/ UNCHANGED pc /\ t # Main /\ caller = NULL /\ caller' = t
    PROVE  ThreadsInv'
<1>1. UNCHANGED << currentThread, status, readyList, inP, value, queue, mode >>
  BY DEF Schedule, threadVars, semaphoreVars
<1>2. KNext
  BY DEF KNext, ThreadStep
<1>3. KTypeOK' /\ QInv'
  BY <1>2, StepKeepsTypes, StepKeepsQueues DEF ThreadsInv
<1>4. InService'
  BY <1>1 DEF ThreadsInv, InService, Executing
<1>5. Callers'
  BY <1>1, KernelAssumption DEF ThreadsInv, Callers, Finished, Executing
<1>6. Sleepers'
  BY <1>1 DEF ThreadsInv, Sleepers
<1> QED
  BY <1>3, <1>4, <1>5, <1>6 DEF ThreadsInv

\* Interrupt::Halt, when nothing is left to wait for.
LEMMA HaltKeepsThreads ==
    ASSUME ThreadsInv, IdleHalt, UNCHANGED << pc, caller >>
    PROVE  ThreadsInv'
<1>1. /\ servicing = "idle" /\ Halt /\ servicing' = "none" /\ UNCHANGED yieldOnReturn
      /\ mode' = "Halted"
      /\ UNCHANGED << currentThread, status, readyList, inP, value >>
  BY DEF IdleHalt, Halt, semaphoreVars
<1>2. KNext
  BY <1>1 DEF KNext, MachineStep
<1>3. KTypeOK' /\ QInv'
  BY <1>2, StepKeepsTypes, StepKeepsQueues DEF ThreadsInv
<1>4. InService'
  BY <1>1 DEF ThreadsInv, InService
<1>5. Callers'
  BY <1>1 DEF ThreadsInv, Callers, Finished
<1>6. Sleepers'
  BY <1>1 DEF ThreadsInv, Sleepers
<1> QED
  BY <1>3, <1>4, <1>5, <1>6 DEF ThreadsInv

\* Interrupt::Halt, called by main().
LEMMA MainHaltsKeepsThreads ==
    ASSUME ThreadsInv, MainHalts
    PROVE  ThreadsInv'
<1>1. /\ servicing = "none" /\ mode' = "Halted"
      /\ UNCHANGED << currentThread, status, readyList, threadToBeDestroyed, deleted,
                      started, inP, value, queue, pending, servicing, yieldOnReturn,
                      pc, caller >>
  BY DEF MainHalts, AtStatement, semaphoreVars, intVars, callVars
<1>2. KTypeOK' /\ QInv'
  BY <1>1 DEF ThreadsInv, KTypeOK, MachineStatus, QInv, ReadyListExact, WaitQueuesExact
<1>3. InService'
  BY <1>1 DEF ThreadsInv, InService
<1>4. Callers'
  BY <1>1 DEF ThreadsInv, Callers, Finished
<1>5. Sleepers'
  BY <1>1 DEF ThreadsInv, Sleepers
<1> QED
  BY <1>2, <1>3, <1>4, <1>5 DEF ThreadsInv

-----------------------------------------------------------------------------
(* The events.                                                             *)

\* A step that leaves the list alone.
LEMMA EventsKept ==
    ASSUME EventsInv, UNCHANGED << events, putBusy >>, pending'[disk] = pending[disk],
           pc' \in {"start", "finished"} <=> pc \in {"start", "finished"},
           servicing' \in {"none", "yield", "idle"} /\ mode' # "Halted" =>
               servicing \in {"none", "yield", "idle"} /\ mode # "Halted"
    PROVE  EventsInv'
<1>1. ListOK' /\ OnTime'
  BY DEF EventsInv, ListOK, OnTime
<1>2. /\ (pc \notin {"start", "finished"})' = (pc \notin {"start", "finished"})
      /\ (pending[disk] > 0)' = (pending[disk] > 0)
  OBVIOUS
<1>3. Arms'
  BY <1>2 DEF EventsInv, Arms
<1> QED
  BY <1>1, <1>3 DEF EventsInv

\* The list has changed, but not the events that each device has on it.
LEMMA ArmsCarried ==
    ASSUME Arms, UNCHANGED putBusy, pending'[disk] = pending[disk],
           pc' \in {"start", "finished"} <=> pc \in {"start", "finished"},
           \A type \in EventTypes, b \in BOOLEAN :
               Armed(events, type, b) => Armed(events', type, b)
    PROVE  Arms'
<1>1. ASSUME NEW type \in EventTypes, NEW b, Armed(events, type, b)
      PROVE  Armed(events', type, b)
  <2>1. CASE b
    <3>1. Armed(events, type, TRUE)
      BY <1>1, <2>1 DEF Armed
    <3>2. Armed(events', type, TRUE)
      BY <3>1
    <3> QED
      BY <2>1, <3>2 DEF Armed
  <2>2. CASE ~b
    <3>1. Armed(events, type, FALSE)
      BY <1>1, <2>2 DEF Armed
    <3>2. Armed(events', type, FALSE)
      BY <3>1
    <3> QED
      BY <2>2, <3>2 DEF Armed
  <2> QED
    BY <2>1, <2>2
<1>2. /\ (pc \notin {"start", "finished"})' = (pc \notin {"start", "finished"})
      /\ (pending[disk] > 0)' = (pending[disk] > 0)
  OBVIOUS
<1> QED
  BY <1>1, <1>2 DEF Arms, EventTypes

\* A tick of the clock.
LEMMA EventsElapse ==
    ASSUME EventsInv, OneTick, UNCHANGED putBusy, pending'[disk] = pending[disk],
           pc' \in {"start", "finished"} <=> pc \in {"start", "finished"}
    PROVE  EventsInv'
<1>1. SystemTick \in Int
  BY InterruptAssumption
<1>2. events' = Elapse(events, SystemTick) /\ servicing' = "tick"
  BY DEF OneTick
<1>3. /\ ListOK'
      /\ \A type \in EventTypes, b \in BOOLEAN :
           Armed(events, type, b) => Armed(events', type, b)
  BY <1>1, <1>2, ElapseArms DEF EventsInv, ListOK
<1>4. OnTime'
  BY <1>2 DEF OnTime
<1>5. Arms'
  BY <1>3, ArmsCarried DEF EventsInv
<1> QED
  BY <1>3, <1>4, <1>5 DEF EventsInv

\* CheckIfDue returns FALSE.
LEMMA EventsPutBack ==
    ASSUME EventsInv, NEW advanceClock \in BOOLEAN, PutBack(advanceClock),
           UNCHANGED putBusy, pending'[disk] = pending[disk],
           pc' \in {"start", "finished"} <=> pc \in {"start", "finished"}
    PROVE  EventsInv'
<1>1. /\ ListOK'
      /\ \A type \in EventTypes, b \in BOOLEAN :
           Armed(events, type, b) => Armed(events', type, b)
      /\ \/ ~advanceClock /\ \A i \in DOMAIN events' : events'[i].when > 0
         \/ \A i \in DOMAIN events' : Idling /\ events'[i].type = "TimerInt"
  BY PutBackArms DEF EventsInv
<1>2. OnTime'
  BY <1>1 DEF OnTime
<1>3. Arms'
  BY <1>1, ArmsCarried DEF EventsInv
<1> QED
  BY <1>1, <1>2, <1>3 DEF EventsInv

\* A device or the timer asks for an interrupt.
LEMMA EventsScheduled ==
    ASSUME ListOK, OnTime, NEW type \in EventTypes, NEW fromNow \in Nat \ {0},
           events' = Scheduled(events, type, fromNow),
           UNCHANGED << servicing, mode >>
    PROVE  /\ ListOK' /\ OnTime'
           /\ \A other \in EventTypes, b \in BOOLEAN :
                other # type /\ Armed(events, other, b) => Armed(events', other, b)
           /\ Armed(events, type, FALSE) => Armed(events', type, TRUE)
<1>1. fromNow \in Int
  OBVIOUS
<1>2. /\ events' \in Seq(Event) /\ Sorted(events')
      /\ \A other \in EventTypes, b \in BOOLEAN :
           other # type /\ Armed(events, other, b) => Armed(events', other, b)
      /\ Armed(events, type, FALSE) => Armed(events', type, TRUE)
      /\ Within(events', events, [type |-> type, when |-> fromNow])
  BY <1>1, ScheduledArms DEF ListOK
<1>3. OnTime'
  <2> SUFFICES ASSUME servicing \in {"none", "yield", "idle"}, mode # "Halted",
                      NEW i \in DOMAIN events', events'[i].type # "TimerInt"
               PROVE  events'[i].when > 0
    BY DEF OnTime
  <2>1. \A j \in DOMAIN events : events[j].type # "TimerInt" => events[j].when > 0
    BY DEF OnTime
  <2>2. \/ events'[i] = [type |-> type, when |-> fromNow]
        \/ \E j \in DOMAIN events : events'[i] = events[j]
    BY <1>2 DEF Within
  <2> QED
    BY <2>1, <2>2
<1> QED
  BY <1>2, <1>3 DEF ListOK

-----------------------------------------------------------------------------
(* The program and the device.                                             *)

\* Sequences of characters.
LEMMA CharSequences ==
    /\ << >> \in Seq(Chars)
    /\ \A x \in Chars : << x >> \in Seq(Chars)
    /\ \A u, v, w \in Seq(Chars) : (u \o v) \o w = u \o (v \o w)
    /\ \A u \in Seq(Chars) : << >> \o u = u /\ u \o << >> = u
    /\ \A u \in Seq(Chars), x \in Chars :
         Append(u, x) = u \o << x >> /\ Append(u, x) \in Seq(Chars)
<1>1. \A u, v, w \in Seq(Chars) : (u \o v) \o w = u \o (v \o w)
  BY ConcatAssociative
<1>2. \A u \in Seq(Chars) : << >> \o u = u /\ u \o << >> = u
  BY ConcatEmptySeq
<1>3. \A u \in Seq(Chars), x \in Chars :
         Append(u, x) = u \o << x >> /\ Append(u, x) \in Seq(Chars)
  BY AppendIsConcat, AppendProperties
<1> QED
  BY <1>1, <1>2, <1>3

\* A step of neither.
LEMMA ProgramKept ==
    ASSUME ProgramInv, UNCHANGED << deviceVars, pc, ch, callVars, value, pending >>,
           servicing' \in Servicing, yieldOnReturn' \in BOOLEAN
    PROVE  ProgramInv'
<1>1. UNCHANGED << typed, nread, shown, incoming, putBusy, pc, ch, requests, caller,
                   value, pending >>
  BY DEF deviceVars, callVars
<1>2. ConsoleTypes'
  BY <1>1 DEF ProgramInv, ConsoleTypes
<1>3. Balance'
  BY <1>1 DEF ProgramInv, Balance
<1>4. EchoFaithful'
  BY <1>1 DEF ProgramInv, EchoFaithful, Held
<1> QED
  BY <1>2, <1>3, <1>4 DEF ProgramInv

\* A step of the program or the device that moves no character.
LEMMA EchoKept ==
    ASSUME EchoFaithful, UNCHANGED << typed, nread, shown, incoming, ch >>,
           pc' = "put" <=> pc = "put"
    PROVE  EchoFaithful'
BY DEF EchoFaithful, Held

\* The user types while nobody looks.
LEMMA TypeKeeps ==
    ASSUME ConInv, NEW c \in Chars, Type(c)
    PROVE  ConInv'
<1>1. /\ typed' = Append(typed, c) /\ mode # "Halted"
      /\ UNCHANGED << kvars, events, servicing, yieldOnReturn, nread, shown, incoming,
                      putBusy, pc, ch, requests, caller >>
  BY DEF Type, ivars, intVars, callVars
<1>2. UNCHANGED << value, pending, mode >>
  BY <1>1 DEF kvars
<1>3. EventsInv'
  BY <1>1, <1>2, EventsKept DEF ConInv
<1>4. ThreadsInv'
  BY <1>1, ThreadsKept DEF ConInv, ThreadsInv, InService
<1>5. typed \in Seq(Chars) /\ nread \in 0..Len(typed)
  BY DEF ConInv, ProgramInv, ConsoleTypes
<1>6. /\ typed' \in Seq(Chars) /\ Len(typed') = Len(typed) + 1 /\ Len(typed) \in Nat
      /\ typed' = typed \o << c >>
  BY <1>1, <1>5, AppendProperties, AppendIsConcat, LenProperties
<1>7. ConsoleTypes'
  <2>1. nread' \in 0..Len(typed')
    BY <1>1, <1>5, <1>6
  <2> QED
    BY <1>1, <1>6, <2>1 DEF ConInv, ProgramInv, ConsoleTypes
<1>8. Balance'
  BY <1>1, <1>2 DEF ConInv, ProgramInv, Balance
<1>9. SubSeq(typed', 1, nread) = SubSeq(typed, 1, nread)
  <2>1. CASE nread = 0
    BY <2>1, SubSeqEmpty
  <2>2. CASE nread # 0
    <3>1. 1 \in 1..Len(typed) /\ nread \in 1..Len(typed)
      BY <1>5, <1>6, <2>2
    <3>2. << c >> \in Seq(Chars)
      BY CharSequences
    <3> QED
      BY <1>5, <1>6, <3>1, <3>2, SubSeqOfConcat1
  <2> QED
    BY <2>1, <2>2
<1>10. EchoFaithful'
  BY <1>1, <1>9 DEF ConInv, ProgramInv, EchoFaithful, Held
<1>11. HaltsWhenQuiet'
  BY <1>1, <1>2 DEF HaltsWhenQuiet
<1> QED
  BY <1>3, <1>4, <1>7, <1>8, <1>10, <1>11 DEF ConInv, ProgramInv

\* new Console(...).
LEMMA StartKeeps ==
    ASSUME ConInv, Start
    PROVE  ConInv'
<1>1. /\ servicing = "none" /\ Executing(Main)
      /\ pc = "start" /\ pc' = "readAvail"
      /\ events' = Scheduled(events, "ConsoleReadInt", ConsoleTime)
      /\ UNCHANGED << kvars, servicing, yieldOnReturn, typed, nread, shown, incoming,
                      putBusy, ch, requests, caller >>
  BY DEF Start, AtStatement, Goto, deviceVars, callVars
<1>2. UNCHANGED << value, pending, mode >> /\ mode = "SystemMode"
  BY <1>1 DEF kvars, Executing
<1>3. /\ ListOK' /\ OnTime'
      /\ \A other \in EventTypes, b \in BOOLEAN :
           other # "ConsoleReadInt" /\ Armed(events, other, b) => Armed(events', other, b)
      /\ Armed(events, "ConsoleReadInt", FALSE) => Armed(events', "ConsoleReadInt", TRUE)
  <2>1. "ConsoleReadInt" \in EventTypes /\ ConsoleTime \in Nat \ {0}
    BY ConsoleAssumption DEF EventTypes
  <2> QED
    BY <1>1, <1>2, <2>1, EventsScheduled DEF ConInv, EventsInv
<1>4. /\ RandomYield \in BOOLEAN /\ putBusy \in BOOLEAN /\ (pending[disk] > 0) \in BOOLEAN
  BY KernelAssumption DEF ConInv, ProgramInv, ConsoleTypes
<1>5. Arms'
  <2>1. Armed(events', "ConsoleReadInt", TRUE)
    BY <1>1, <1>3 DEF ConInv, EventsInv, Arms, Armed
  <2>2. /\ Armed(events', "TimerInt", RandomYield)
        /\ Armed(events', "DiskInt", pending[disk] > 0)
        /\ Armed(events', "ConsoleWriteInt", putBusy)
    BY <1>3, <1>4 DEF ConInv, EventsInv, Arms, EventTypes
  <2> QED
    BY <1>1, <1>2, <2>1, <2>2 DEF Arms, Armed
<1>6. ThreadsInv'
  BY <1>1, <1>2, ThreadsKept DEF ConInv, ThreadsInv, InService
<1>7. ConsoleTypes'
  BY <1>1 DEF ConInv, ProgramInv, ConsoleTypes, ConsolePoints
<1>8. Balance'
  BY <1>1, <1>2 DEF ConInv, ProgramInv, Balance
<1>9. EchoFaithful'
  BY <1>1, EchoKept DEF ConInv, ProgramInv
<1>10. HaltsWhenQuiet'
  BY <1>1, <1>2 DEF HaltsWhenQuiet
<1> QED
  BY <1>3, <1>5, <1>6, <1>7, <1>8, <1>9, <1>10 DEF ConInv, EventsInv, ProgramInv

\* Console::GetChar.
LEMMA GetCharKeeps ==
    ASSUME ConInv, GetChar
    PROVE  ConInv'
<1>1. /\ servicing = "none" /\ Executing(Main)
      /\ pc = "get" /\ pc' = "put"
      /\ ch' = incoming /\ incoming' = NULL
      /\ UNCHANGED << kvars, events, servicing, yieldOnReturn, typed, nread, shown,
                      putBusy, requests, caller >>
  BY DEF GetChar, AtStatement, Goto, ivars, intVars, callVars
<1>2. UNCHANGED << value, pending, mode >> /\ mode = "SystemMode"
  BY <1>1 DEF kvars, Executing
<1>3. EventsInv'
  BY <1>1, <1>2, EventsKept DEF ConInv
<1>4. ThreadsInv'
  BY <1>1, <1>2, ThreadsKept DEF ConInv, ThreadsInv, InService
<1>5. incoming \in Chars
  BY <1>1 DEF ConInv, ProgramInv, ConsoleTypes, Balance
<1>6. ConsoleTypes'
  BY <1>1, <1>5 DEF ConInv, ProgramInv, ConsoleTypes, ConsolePoints
<1>7. Balance'
  BY <1>1, <1>2, <1>5 DEF ConInv, ProgramInv, Balance
<1>8. EchoFaithful'
  <2>1. incoming # NULL
    BY <1>5, ConsoleAssumption
  <2>2. Held = << >> \o << incoming >>
    BY <1>1, <2>1 DEF Held
  <2>3. Held' = << incoming >> \o << >>
    BY <1>1 DEF Held
  <2>4. Held = Held'
    BY <1>5, <2>2, <2>3, CharSequences
  <2> QED
    BY <1>1, <2>4 DEF ConInv, ProgramInv, EchoFaithful
<1>9. HaltsWhenQuiet'
  BY <1>1, <1>2 DEF HaltsWhenQuiet
<1> QED
  BY <1>3, <1>4, <1>6, <1>7, <1>8, <1>9 DEF ConInv, ProgramInv

\* Console::PutChar.
LEMMA PutCharKeeps ==
    ASSUME ConInv, PutChar
    PROVE  ConInv'
<1>1. /\ servicing = "none" /\ Executing(Main)
      /\ pc = "put" /\ pc' = "writeDone"
      /\ shown' = Append(shown, ch) /\ putBusy' = TRUE
      /\ events' = Scheduled(events, "ConsoleWriteInt", ConsoleTime)
      /\ Schedule(writeDone)
      /\ pending' = [pending EXCEPT ![writeDone] = @ + 1]
      /\ UNCHANGED << value, mode, servicing, yieldOnReturn, typed, nread, incoming, ch,
                      requests, caller >>
  BY DEF PutChar, AtStatement, Goto, callVars, Schedule, threadVars, semaphoreVars
<1>2. mode = "SystemMode"
  BY <1>1 DEF Executing
<1>3. ~putBusy /\ ch \in Chars
  BY <1>1 DEF ConInv, ProgramInv, Balance
<1>4. /\ pending \in [Semaphores -> 0..MaxPending]
      /\ pending'[disk] = pending[disk]
      /\ pending'[readAvail] = pending[readAvail]
      /\ pending'[writeDone] = pending[writeDone] + 1
  <2>1. pending \in [Semaphores -> 0..MaxPending]
    BY DEF ConInv, ThreadsInv, KTypeOK
  <2> QED
    BY <1>1, <2>1, ThreeSemaphores
<1>5. /\ ListOK' /\ OnTime'
      /\ \A other \in EventTypes, b \in BOOLEAN :
           other # "ConsoleWriteInt" /\ Armed(events, other, b) => Armed(events', other, b)
      /\ Armed(events, "ConsoleWriteInt", FALSE) => Armed(events', "ConsoleWriteInt", TRUE)
  <2>1. "ConsoleWriteInt" \in EventTypes /\ ConsoleTime \in Nat \ {0}
    BY ConsoleAssumption DEF EventTypes
  <2> QED
    BY <1>1, <2>1, EventsScheduled DEF ConInv, EventsInv
<1>6. Arms'
  <2>1. Armed(events', "ConsoleWriteInt", TRUE)
    BY <1>3, <1>5 DEF ConInv, EventsInv, Arms, Armed
  <2>2. Armed(events, "ConsoleReadInt", TRUE)
    BY <1>1 DEF ConInv, EventsInv, Arms, Armed
  <2>3. /\ Armed(events', "TimerInt", RandomYield)
        /\ Armed(events', "DiskInt", pending[disk] > 0)
        /\ Armed(events', "ConsoleReadInt", TRUE)
    <3>1. RandomYield \in BOOLEAN /\ (pending[disk] > 0) \in BOOLEAN
      BY KernelAssumption
    <3> QED
      BY <1>5, <2>2, <3>1 DEF ConInv, EventsInv, Arms, EventTypes
  <2> QED
    BY <1>1, <1>4, <2>1, <2>3 DEF Arms, Armed
<1>7. ThreadsInv'
  BY <1>1, KernelAssumption, ThreeSemaphores, RequestKeepsThreads DEF ConInv
<1>8. ConsoleTypes'
  BY <1>1, <1>3, CharSequences DEF ConInv, ProgramInv, ConsoleTypes, ConsolePoints
<1>9. Balance'
  BY <1>1, <1>3, <1>4 DEF ConInv, ProgramInv, Balance
<1>10. EchoFaithful'
  <2> DEFINE Q == IF incoming # NULL THEN << incoming >> ELSE << >>
  <2>1. Q \in Seq(Chars) /\ shown \in Seq(Chars)
    BY CharSequences DEF ConInv, ProgramInv, ConsoleTypes
  <2>2. Held = << ch >> \o Q /\ Held' = << >> \o Q
    BY <1>1 DEF Held
  <2> HIDE DEF Q
  <2>3. shown' \o Held' = shown \o Held
    <3>1. Held' = Q /\ shown' = shown \o << ch >> /\ << ch >> \in Seq(Chars)
      BY <1>1, <1>3, <2>1, <2>2, CharSequences
    <3> QED
      BY <2>1, <2>2, <3>1, CharSequences
  <2> QED
    BY <1>1, <2>3 DEF ConInv, ProgramInv, EchoFaithful
<1>11. HaltsWhenQuiet'
  BY <1>1, <1>2 DEF HaltsWhenQuiet
<1> QED
  BY <1>5, <1>6, <1>7, <1>8, <1>9, <1>10, <1>11 DEF ConInv, EventsInv, ProgramInv

\* The comparison with 'q'.
LEMMA TestKeeps ==
    ASSUME ConInv, Test
    PROVE  ConInv'
<1>1. /\ servicing = "none" /\ Executing(Main)
      /\ pc = "test" /\ pc' \in {"halt", "readAvail"}
      /\ UNCHANGED << kvars, events, servicing, yieldOnReturn, typed, nread, shown,
                      incoming, putBusy, ch, requests, caller >>
  BY DEF Test, AtStatement, Goto, ivars, intVars, deviceVars, callVars
<1>2. UNCHANGED << value, pending, mode >> /\ mode = "SystemMode"
  BY <1>1 DEF kvars, Executing
<1>3. EventsInv'
  BY <1>1, <1>2, EventsKept DEF ConInv
<1>4. ThreadsInv'
  BY <1>1, <1>2, ThreadsKept DEF ConInv, ThreadsInv, InService
<1>5. ConsoleTypes'
  BY <1>1 DEF ConInv, ProgramInv, ConsoleTypes, ConsolePoints
<1>6. Balance'
  BY <1>1, <1>2 DEF ConInv, ProgramInv, Balance
<1>7. EchoFaithful'
  BY <1>1, EchoKept DEF ConInv, ProgramInv
<1>8. HaltsWhenQuiet'
  BY <1>1, <1>2 DEF HaltsWhenQuiet
<1> QED
  BY <1>3, <1>4, <1>5, <1>6, <1>7, <1>8 DEF ConInv, ProgramInv

\* main() halts the machine.
LEMMA MainHaltsKeeps ==
    ASSUME ConInv, MainHalts
    PROVE  ConInv'
<1>1. /\ mode' = "Halted" /\ pc = "halt" /\ servicing = "none" /\ mode = "SystemMode"
      /\ UNCHANGED << value, pending, events, servicing, yieldOnReturn, deviceVars, pc, ch,
                      callVars, putBusy >>
  BY DEF MainHalts, AtStatement, Executing, semaphoreVars, intVars, deviceVars
<1>2. EventsInv'
  BY <1>1, EventsKept DEF ConInv
<1>3. ThreadsInv'
  BY MainHaltsKeepsThreads DEF ConInv
<1>4. ProgramInv'
  BY <1>1, ProgramKept DEF ConInv, ProgramInv, ConsoleTypes
<1>5. HaltsWhenQuiet'
  BY <1>1 DEF HaltsWhenQuiet
<1> QED
  BY <1>2, <1>3, <1>4, <1>5 DEF ConInv

\* P() turns interrupts off.
LEMMA EnterKeeps ==
    ASSUME ConInv, NEW t \in Threads, NEW s \in Semaphores, IPEnter(t, s),
           UNCHANGED << deviceVars, pc, ch, callVars >>,
           s = readAvail => t = Main /\ pc = "readAvail",
           s = writeDone => t = Main /\ pc = "writeDone",
           s = disk => t = caller
    PROVE  ConInv'
<1>1. /\ mode = "SystemMode"
      /\ UNCHANGED << value, pending, mode, events, servicing, yieldOnReturn, putBusy, caller >>
  BY DEF IPEnter, PEnter, threadVars, intVars, deviceVars, callVars, Executing
<1>2. EventsInv'
  BY <1>1, EventsKept DEF ConInv
<1>3. ThreadsInv'
  BY <1>1, EnterKeepsThreads DEF ConInv
<1>4. ProgramInv'
  BY <1>1, ProgramKept DEF ConInv, ProgramInv, ConsoleTypes
<1>5. HaltsWhenQuiet'
  BY <1>1 DEF HaltsWhenQuiet
<1> QED
  BY <1>2, <1>3, <1>4, <1>5 DEF ConInv

\* P() finds the value 0.
LEMMA SleepKeeps ==
    ASSUME ConInv, NEW t \in Threads, NEW s \in Semaphores, IPSleep(t, s),
           UNCHANGED << deviceVars, pc, ch, callVars >>
    PROVE  ConInv'
<1>1. /\ mode = "SystemMode" /\ mode' \in {"SystemMode", "IdleMode"}
      /\ servicing = "none" /\ servicing' \in {"none", "idle"}
      /\ UNCHANGED << value, pending, events, yieldOnReturn, putBusy, caller >>
  BY DEF IPSleep, Sleeping, PSleep, Block, InsideP, deviceVars, callVars
<1>2. EventsInv'
  BY <1>1, EventsKept DEF ConInv
<1>3. ThreadsInv'
  BY <1>1, SleepKeepsThreads DEF ConInv
<1>4. ProgramInv'
  BY <1>1, ProgramKept DEF ConInv, ProgramInv, ConsoleTypes, Servicing
<1>5. HaltsWhenQuiet'
  BY <1>1 DEF HaltsWhenQuiet
<1> QED
  BY <1>2, <1>3, <1>4, <1>5 DEF ConInv

\* A thread's P() takes a unit.
LEMMA TakeFacts ==
    ASSUME ConInv, NEW t \in Threads, NEW s \in Semaphores, IPTake(t, s)
    PROVE  /\ mode = "SystemMode" /\ UNCHANGED << mode, pending, yieldOnReturn >>
           /\ OneTick /\ servicing' = "tick"
           /\ inP[t] = s
           /\ value[s] \in Nat \ {0} /\ value'[s] = value[s] - 1
           /\ \A r \in Semaphores : r # s => value'[r] = value[r]
<1>1. /\ mode = "SystemMode" /\ inP[t] = s /\ value[s] # 0
      /\ value' = [value EXCEPT ![s] = @ - 1]
      /\ OneTick /\ servicing' = "tick"
      /\ UNCHANGED << mode, pending, yieldOnReturn >>
  BY DEF IPTake, PTake, InsideP, OneTick, threadVars
<1>2. value \in [Semaphores -> 0..MaxValue] /\ MaxValue \in Nat
  BY KernelAssumption DEF ConInv, ThreadsInv, KTypeOK
<1> QED
  BY <1>1, <1>2

\* readAvail->P() returns.
LEMMA ReadAvailKeeps ==
    ASSUME ConInv, Goto("readAvail", "get"), IPTake(Main, readAvail),
           UNCHANGED << deviceVars, ch, callVars >>
    PROVE  ConInv'
<1>1. /\ pc = "readAvail" /\ pc' = "get"
      /\ UNCHANGED << typed, nread, shown, incoming, putBusy, ch, requests, caller >>
  BY DEF Goto, deviceVars, callVars
<1>2. /\ mode = "SystemMode" /\ UNCHANGED << mode, pending, yieldOnReturn >>
      /\ OneTick /\ servicing' = "tick"
      /\ value[readAvail] \in Nat \ {0} /\ value'[readAvail] = value[readAvail] - 1
      /\ value'[writeDone] = value[writeDone] /\ value'[disk] = value[disk]
  BY TakeFacts, ThreeSemaphores, KernelAssumption
<1>3. EventsInv'
  BY <1>1, <1>2, EventsElapse DEF ConInv
<1>4. ThreadsInv'
  BY <1>1, ThreeSemaphores, KernelAssumption, TakeKeepsThreads DEF ConInv
<1>5. ConsoleTypes'
  BY <1>1, <1>2 DEF ConInv, ProgramInv, ConsoleTypes, ConsolePoints, Servicing
<1>6. Balance'
  BY <1>1, <1>2 DEF ConInv, ProgramInv, Balance
<1>7. EchoFaithful'
  BY <1>1, EchoKept DEF ConInv, ProgramInv
<1>8. HaltsWhenQuiet'
  BY <1>2 DEF HaltsWhenQuiet
<1> QED
  BY <1>3, <1>4, <1>5, <1>6, <1>7, <1>8 DEF ConInv, ProgramInv

\* writeDone->P() returns.
LEMMA WriteDoneKeeps ==
    ASSUME ConInv, Goto("writeDone", "test"), IPTake(Main, writeDone),
           UNCHANGED << deviceVars, ch, callVars >>
    PROVE  ConInv'
<1>1. /\ pc = "writeDone" /\ pc' = "test"
      /\ UNCHANGED << typed, nread, shown, incoming, putBusy, ch, requests, caller >>
  BY DEF Goto, deviceVars, callVars
<1>2. /\ mode = "SystemMode" /\ UNCHANGED << mode, pending, yieldOnReturn >>
      /\ OneTick /\ servicing' = "tick"
      /\ value[writeDone] \in Nat \ {0} /\ value'[writeDone] = value[writeDone] - 1
      /\ value'[readAvail] = value[readAvail] /\ value'[disk] = value[disk]
  BY TakeFacts, ThreeSemaphores, KernelAssumption
<1>3. EventsInv'
  BY <1>1, <1>2, EventsElapse DEF ConInv
<1>4. ThreadsInv'
  BY <1>1, ThreeSemaphores, KernelAssumption, TakeKeepsThreads DEF ConInv
<1>5. ConsoleTypes'
  BY <1>1, <1>2 DEF ConInv, ProgramInv, ConsoleTypes, ConsolePoints, Servicing
<1>6. Balance'
  BY <1>1, <1>2 DEF ConInv, ProgramInv, Balance
<1>7. EchoFaithful'
  BY <1>1, EchoKept DEF ConInv, ProgramInv
<1>8. HaltsWhenQuiet'
  BY <1>2 DEF HaltsWhenQuiet
<1> QED
  BY <1>3, <1>4, <1>5, <1>6, <1>7, <1>8 DEF ConInv, ProgramInv

\* The thread that has asked for the disk is answered.
LEMMA DiskTakeKeeps ==
    ASSUME ConInv, NEW t \in Threads, caller = t, IPTake(t, disk), caller' = NULL,
           UNCHANGED << deviceVars, pc, ch, requests >>
    PROVE  ConInv'
<1>1. UNCHANGED << typed, nread, shown, incoming, putBusy, pc, ch, requests >>
  BY DEF deviceVars
<1>2. /\ mode = "SystemMode" /\ UNCHANGED << mode, pending, yieldOnReturn >>
      /\ OneTick /\ servicing' = "tick"
      /\ value[disk] \in Nat \ {0} /\ value'[disk] = value[disk] - 1
      /\ value'[readAvail] = value[readAvail] /\ value'[writeDone] = value[writeDone]
  BY TakeFacts, ThreeSemaphores
<1>3. EventsInv'
  BY <1>1, <1>2, EventsElapse DEF ConInv
<1>4. ThreadsInv'
  BY <1>1, ThreeSemaphores, TakeKeepsThreads DEF ConInv
<1>5. ConsoleTypes'
  BY <1>1, <1>2 DEF ConInv, ProgramInv, ConsoleTypes, Servicing
<1>6. Balance'
  <2>1. pending[disk] \in Nat
    BY ThreeSemaphores DEF ConInv, ThreadsInv, KTypeOK
  <2>2. caller # NULL
    BY KernelAssumption
  <2> QED
    BY <1>1, <1>2, <2>1, <2>2 DEF ConInv, ProgramInv, Balance
<1>7. EchoFaithful'
  BY <1>1, EchoKept DEF ConInv, ProgramInv
<1>8. HaltsWhenQuiet'
  BY <1>2 DEF HaltsWhenQuiet
<1> QED
  BY <1>3, <1>4, <1>5, <1>6, <1>7, <1>8 DEF ConInv, ProgramInv

\* A thread asks for the disk.
LEMMA DiskRequestKeeps ==
    ASSUME ConInv, NEW t \in Threads, t # Main, DiskRequest(t),
           UNCHANGED << deviceVars, pc, ch >>
    PROVE  ConInv'
<1>1. /\ servicing = "none" /\ Executing(t) /\ mode = "SystemMode"
      /\ caller = NULL /\ caller' = t
      /\ requests < MaxRequests /\ requests' = requests + 1
      /\ events' = Scheduled(events, "DiskInt", DiskTime)
      /\ Schedule(disk)
      /\ pending' = [pending EXCEPT ![disk] = @ + 1]
      /\ UNCHANGED << value, mode, servicing, yieldOnReturn, typed, nread, shown,
                      incoming, putBusy, pc, ch >>
  BY DEF DiskRequest, Executing, Schedule, threadVars, semaphoreVars, deviceVars
<1>2. /\ pending \in [Semaphores -> 0..MaxPending]
      /\ pending'[disk] = pending[disk] + 1
      /\ pending'[readAvail] = pending[readAvail]
      /\ pending'[writeDone] = pending[writeDone]
  <2>1. pending \in [Semaphores -> 0..MaxPending]
    BY DEF ConInv, ThreadsInv, KTypeOK
  <2> QED
    BY <1>1, <2>1, ThreeSemaphores
<1>3. pending[disk] = 0 /\ value[disk] = 0
  <2>1. value[disk] \in Nat /\ pending[disk] \in Nat
    BY ThreeSemaphores, KernelAssumption DEF ConInv, ThreadsInv, KTypeOK
  <2> QED
    BY <1>1, <2>1 DEF ConInv, ProgramInv, Balance
<1>4. /\ ListOK' /\ OnTime'
      /\ \A other \in EventTypes, b \in BOOLEAN :
           other # "DiskInt" /\ Armed(events, other, b) => Armed(events', other, b)
      /\ Armed(events, "DiskInt", FALSE) => Armed(events', "DiskInt", TRUE)
  <2>1. "DiskInt" \in EventTypes /\ DiskTime \in Nat \ {0}
    BY ConsoleAssumption DEF EventTypes
  <2> QED
    BY <1>1, <2>1, EventsScheduled DEF ConInv, EventsInv
<1>5. Arms'
  <2>1. Armed(events', "DiskInt", TRUE)
    <3>1. Armed(events, "DiskInt", FALSE)
      BY <1>3 DEF ConInv, EventsInv, Arms, Armed
    <3> QED
      BY <1>4, <3>1
  <2>2. /\ RandomYield \in BOOLEAN /\ putBusy \in BOOLEAN
        /\ (pc \notin {"start", "finished"}) \in BOOLEAN
    BY KernelAssumption DEF ConInv, ProgramInv, ConsoleTypes
  <2>3. /\ Armed(events', "TimerInt", RandomYield)
        /\ Armed(events', "ConsoleReadInt", pc \notin {"start", "finished"})
        /\ Armed(events', "ConsoleWriteInt", putBusy)
    BY <1>4, <2>2 DEF ConInv, EventsInv, Arms, EventTypes
  <2>4. pending'[disk] > 0
    BY <1>2, <1>3
  <2> QED
    BY <1>1, <2>1, <2>3, <2>4 DEF Arms, Armed
<1>6. ThreadsInv'
  BY <1>1, ThreeSemaphores, RequestKeepsThreads DEF ConInv
<1>7. ConsoleTypes'
  <2>1. requests' \in 0..MaxRequests
    <3>1. requests \in 0..MaxRequests /\ MaxRequests \in Nat
      BY ConsoleAssumption DEF ConInv, ProgramInv, ConsoleTypes
    <3> QED
      BY <1>1, <3>1
  <2> QED
    BY <1>1, <2>1 DEF ConInv, ProgramInv, ConsoleTypes
<1>8. Balance'
  <2>1. caller' # NULL
    BY <1>1, KernelAssumption
  <2> QED
    BY <1>1, <1>2, <1>3, <2>1 DEF ConInv, ProgramInv, Balance
<1>9. EchoFaithful'
  BY <1>1, EchoKept DEF ConInv, ProgramInv
<1>10. HaltsWhenQuiet'
  BY <1>1 DEF HaltsWhenQuiet
<1> QED
  BY <1>4, <1>5, <1>6, <1>7, <1>8, <1>9, <1>10 DEF ConInv, EventsInv, ProgramInv

\* A thread finishes; Main only if it has not made a console.
LEMMA FinishKeeps ==
    ASSUME ConInv, NEW t \in Threads, IFinish(t), caller # t,
           UNCHANGED << deviceVars, ch, callVars >>,
           \/ t # Main /\ pc' = pc
           \/ t = Main /\ pc = "start" /\ pc' = "finished"
    PROVE  ConInv'
<1>1. /\ mode = "SystemMode" /\ mode' \in {"SystemMode", "IdleMode"}
      /\ servicing = "none" /\ servicing' \in {"none", "idle"}
      /\ UNCHANGED << value, pending, events, yieldOnReturn, typed, nread, shown, incoming,
                      putBusy, ch, requests, caller >>
  BY DEF IFinish, Executing, Sleeping, Finish, Block, semaphoreVars, deviceVars, callVars
<1>2. EventsInv'
  BY <1>1, EventsKept DEF ConInv
<1>3. ThreadsInv'
  BY <1>1, FinishKeepsThreads DEF ConInv
<1>4. ConsoleTypes'
  BY <1>1 DEF ConInv, ProgramInv, ConsoleTypes, ConsolePoints, Servicing
<1>5. Balance'
  BY <1>1 DEF ConInv, ProgramInv, Balance
<1>6. EchoFaithful'
  BY <1>1, EchoKept DEF ConInv, ProgramInv
<1>7. HaltsWhenQuiet'
  BY <1>1 DEF HaltsWhenQuiet
<1> QED
  BY <1>2, <1>3, <1>4, <1>5, <1>6, <1>7 DEF ConInv, ProgramInv

\* A call that turns interrupts off and on again.
LEMMA TickingKeeps ==
    ASSUME ConInv, NEW t \in Threads, Ticking(t), UNCHANGED kvars,
           UNCHANGED << deviceVars, pc, ch, callVars >>
    PROVE  ConInv'
<1>1. /\ mode = "SystemMode" /\ Executing(currentThread)
      /\ OneTick /\ servicing' = "tick"
      /\ UNCHANGED << value, pending, mode, yieldOnReturn, putBusy, caller >>
  BY DEF Ticking, OneTick, Executing, kvars, deviceVars, callVars
<1>2. EventsInv'
  BY <1>1, EventsElapse DEF ConInv
<1>3. ThreadsInv'
  BY <1>1, ThreadsKept DEF ConInv
<1>4. ProgramInv'
  BY <1>1, ProgramKept DEF ConInv, ProgramInv, ConsoleTypes, Servicing
<1>5. HaltsWhenQuiet'
  BY <1>1 DEF HaltsWhenQuiet
<1> QED
  BY <1>2, <1>3, <1>4, <1>5 DEF ConInv

\* Main forks the threads of ThreadTest.
LEMMA ForksKeeps ==
    ASSUME ConInv, NEW t \in Threads, Forks(t)
    PROVE  ConInv'
<1>1. /\ IFork(Main, t)
      /\ mode = "SystemMode" /\ OneTick /\ servicing' = "tick"
      /\ UNCHANGED << value, pending, mode, yieldOnReturn, deviceVars, pc, ch, callVars,
                      putBusy, caller >>
  BY DEF Forks, IFork, Ticking, Executing, OneTick, Fork, semaphoreVars, deviceVars, callVars
<1>2. EventsInv'
  BY <1>1, EventsElapse DEF ConInv
<1>3. ThreadsInv'
  BY <1>1, KernelAssumption, ForkKeepsThreads DEF ConInv
<1>4. ProgramInv'
  BY <1>1, ProgramKept DEF ConInv, ProgramInv, ConsoleTypes, Servicing
<1>5. HaltsWhenQuiet'
  BY <1>1 DEF HaltsWhenQuiet
<1> QED
  BY <1>2, <1>3, <1>4, <1>5 DEF ConInv

-----------------------------------------------------------------------------
(* The simulation.                                                         *)

\* The step to the next ready thread, a tick, or the end of one.
LEMMA QuietKeeps ==
    ASSUME ConInv, IDispatch \/ TickEnd \/ TickYield \/ IdleEnd,
           UNCHANGED << deviceVars, pc, ch, callVars >>
    PROVE  ConInv'
<1>1. UNCHANGED << putBusy, caller >>
  BY DEF deviceVars, callVars
<1>2. CASE IDispatch
  <2>1. /\ servicing = "none" /\ Resume(Head(readyList))
        /\ UNCHANGED << value, pending, yieldOnReturn >>
        /\ mode # "Halted" /\ mode' = "SystemMode"
    BY <1>2 DEF IDispatch, Dispatch, semaphoreVars
  <2>2. OneTick \/ (servicing' = "none" /\ UNCHANGED events)
    BY <2>1 DEF Resume
  <2>3. EventsInv'
    <3>1. CASE OneTick
      BY <1>1, <2>1, <3>1, EventsElapse DEF ConInv
    <3>2. CASE servicing' = "none" /\ UNCHANGED events
      BY <1>1, <2>1, <3>2, EventsKept DEF ConInv
    <3> QED
      BY <2>2, <3>1, <3>2
  <2>4. ThreadsInv'
    BY <1>1, <1>2, DispatchKeepsThreads DEF ConInv
  <2>5. ProgramInv'
    BY <2>1, <2>2, ProgramKept DEF ConInv, ProgramInv, ConsoleTypes, Servicing, OneTick
  <2> QED
    BY <2>1, <2>3, <2>4, <2>5 DEF ConInv, HaltsWhenQuiet
<1>3. CASE TickEnd
  <2>1. /\ servicing = "tick" /\ PutBack(FALSE) /\ UNCHANGED kvars
        /\ servicing' \in {"none", "yield"} /\ yieldOnReturn' = FALSE
        /\ Executing(currentThread) /\ mode = "SystemMode"
        /\ UNCHANGED << value, pending, mode >>
    BY <1>3 DEF TickEnd, kvars, ConInv, ThreadsInv, InService, Executing
  <2>2. EventsInv'
    BY <1>1, <2>1, EventsPutBack DEF ConInv
  <2>3. ThreadsInv'
    BY <1>1, <2>1, ThreadsKept DEF ConInv
  <2>4. ProgramInv'
    BY <2>1, ProgramKept DEF ConInv, Servicing
  <2> QED
    BY <2>1, <2>2, <2>3, <2>4 DEF ConInv, HaltsWhenQuiet
<1>4. CASE TickYield
  <2>1. /\ servicing = "yield" /\ Executing(currentThread) /\ mode = "SystemMode"
        /\ UNCHANGED << value, pending, mode, yieldOnReturn >>
        /\ OneTick \/ (servicing' = "none" /\ UNCHANGED events)
    BY <1>4 DEF TickYield, YieldTick, SwitchAway, Resume, kvars, semaphoreVars, ConInv,
         ThreadsInv, InService, Executing
  <2>2. EventsInv'
    <3>1. CASE OneTick
      BY <1>1, <2>1, <3>1, EventsElapse DEF ConInv
    <3>2. CASE servicing' = "none" /\ UNCHANGED events
      BY <1>1, <2>1, <3>2, EventsKept DEF ConInv
    <3> QED
      BY <2>1, <3>1, <3>2
  <2>3. ThreadsInv'
    BY <1>1, <1>4, YieldKeepsThreads DEF ConInv
  <2>4. ProgramInv'
    BY <2>1, ProgramKept DEF ConInv, ProgramInv, ConsoleTypes, Servicing, OneTick
  <2> QED
    BY <2>1, <2>2, <2>3, <2>4 DEF ConInv, HaltsWhenQuiet
<1>5. CASE IdleEnd
  <2>1. /\ servicing = "idling" /\ PutBack(FALSE) /\ UNCHANGED kvars
        /\ servicing' \in {"none", "idle"} /\ yieldOnReturn' = FALSE
        /\ servicing' = "idle" => readyList = << >>
        /\ mode = "IdleMode"
        /\ UNCHANGED << value, pending, mode >>
    BY <1>5 DEF IdleEnd, kvars, ConInv, ThreadsInv, InService
  <2>2. EventsInv'
    BY <1>1, <2>1, EventsPutBack DEF ConInv
  <2>3. ThreadsInv'
    BY <1>1, <2>1, ThreadsKept DEF ConInv
  <2>4. ProgramInv'
    BY <2>1, ProgramKept DEF ConInv, Servicing
  <2> QED
    BY <2>1, <2>2, <2>3, <2>4 DEF ConInv, HaltsWhenQuiet
<1> QED
  BY <1>2, <1>3, <1>4, <1>5

\* The machine halts: nobody waits for the keyboard, the display or the disk.
LEMMA IdleHaltKeeps ==
    ASSUME ConInv, IdleHalt, UNCHANGED << deviceVars, pc, ch, callVars >>
    PROVE  ConInv'
<1>1. /\ servicing = "idle" /\ PutBack(TRUE)
      /\ mode = "IdleMode" /\ mode' = "Halted" /\ servicing' = "none"
      /\ readyList = << >>
      /\ \A s \in Semaphores : pending[s] = 0
      /\ UNCHANGED << status, inP, value, pending, yieldOnReturn, putBusy, caller >>
  BY DEF IdleHalt, Halt, semaphoreVars, deviceVars, callVars
<1>2. EventsInv'
  BY <1>1, EventsPutBack DEF ConInv
<1>3. ThreadsInv'
  BY <1>1, HaltKeepsThreads DEF ConInv
<1>4. ProgramInv'
  BY <1>1, ProgramKept DEF ConInv, ProgramInv, ConsoleTypes, Servicing
<1>5. \A i \in DOMAIN events' : events'[i].type = "TimerInt"
  BY <1>1, PutBackArms DEF ConInv, EventsInv
<1>6. pc \in {"start", "finished"}
  <2>1. \A i \in DOMAIN events' : events'[i].type # "ConsoleReadInt"
    BY <1>5
  <2> QED
    BY <1>2, <2>1 DEF EventsInv, Arms, Armed
<1>7. ASSUME NEW t \in Threads
      PROVE  Finished(t) \/ status[t] = "JUST_CREATED"
  <2>1. status[t] # "RUNNING"
    BY <1>1 DEF ConInv, ThreadsInv, InService
  <2>2. status[t] # "READY"
    BY <1>1, EmptyFresh DEF ConInv, ThreadsInv, QInv, ReadyListExact
  <2>3. status[t] \in ThreadStatus /\ inP[t] \in Semaphores \cup {NULL}
    BY DEF ConInv, ThreadsInv, KTypeOK
  <2>4. inP[t] \notin {readAvail, writeDone}
    BY <1>6 DEF ConInv, ThreadsInv, Callers
  <2>5. ASSUME inP[t] = disk, status[t] = "BLOCKED"
        PROVE  FALSE
    <3>1. caller # NULL
      BY <2>5, KernelAssumption DEF ConInv, ThreadsInv, Callers
    <3>2. value[disk] = 0 /\ pending[disk] = 0
      BY <1>1, <2>5, ThreeSemaphores DEF ConInv, ThreadsInv, Sleepers
    <3> QED
      BY <3>1, <3>2 DEF ConInv, ProgramInv, Balance
  <2> QED
    BY <2>1, <2>2, <2>3, <2>4, <2>5, ThreeSemaphores DEF ThreadStatus, Finished
<1>8. HaltsWhenQuiet'
  <2>1. \A e \in Range(events') : e.type = "TimerInt"
    BY <1>5 DEF Range
  <2> QED
    BY <1>1, <1>7, <2>1 DEF HaltsWhenQuiet, Finished
<1> QED
  BY <1>2, <1>3, <1>4, <1>8 DEF ConInv

\* A handler runs.
LEMMA HandlerFacts ==
    ASSUME ConInv, NEW advanceClock \in BOOLEAN, HandlerStep(advanceClock)
    PROVE  /\ Head(events).type \in EventTypes
           /\ Remaining(advanceClock) \in Seq(Event) /\ Sorted(Remaining(advanceClock))
           /\ \A type \in EventTypes, b \in BOOLEAN :
                Head(events).type # type /\ Armed(events, type, b) =>
                    Armed(Remaining(advanceClock), type, b)
           /\ \A b \in BOOLEAN : Armed(events, Head(events).type, b) =>
                b /\ Armed(Remaining(advanceClock), Head(events).type, FALSE)
           /\ mode # "Halted"
           /\ servicing' \in {"tick", "idling"}
           /\ servicing' = "tick" => Executing(currentThread)
           /\ servicing' = "idling" => mode = "IdleMode"
           /\ RandomYield \in BOOLEAN /\ putBusy \in BOOLEAN
           /\ (pending[disk] > 0) \in BOOLEAN
           /\ (pc \notin {"start", "finished"}) \in BOOLEAN
<1>1. Due(advanceClock)
  BY DEF HandlerStep
<1>2. \/ servicing = "tick" /\ servicing' = "tick"
      \/ servicing \in {"idle", "idling"} /\ servicing' = "idling"
  BY DEF HandlerStep, TickHandler, IdleHandler
<1>3. /\ mode # "Halted"
      /\ servicing' = "tick" => Executing(currentThread)
      /\ servicing' = "idling" => mode = "IdleMode"
  BY <1>2 DEF ConInv, ThreadsInv, InService
<1>4. RandomYield \in BOOLEAN /\ putBusy \in BOOLEAN
  BY KernelAssumption DEF ConInv, ProgramInv, ConsoleTypes
<1>5. /\ Head(events).type \in EventTypes
      /\ Remaining(advanceClock) \in Seq(Event) /\ Sorted(Remaining(advanceClock))
      /\ \A type \in EventTypes, b \in BOOLEAN :
           Head(events).type # type /\ Armed(events, type, b) =>
               Armed(Remaining(advanceClock), type, b)
      /\ \A b \in BOOLEAN : Armed(events, Head(events).type, b) =>
           b /\ Armed(Remaining(advanceClock), Head(events).type, FALSE)
  <2>1. ListOK
    BY DEF ConInv, EventsInv
  <2> QED
    BY <1>1, <2>1, RemainingArms
<1>6. /\ (pending[disk] > 0) \in BOOLEAN
      /\ (pc \notin {"start", "finished"}) \in BOOLEAN
  OBVIOUS
<1>7. servicing' \in {"tick", "idling"}
  BY <1>2
<1> QED
  BY <1>3, <1>4, <1>5, <1>6, <1>7

\* Timer::TimerExpired.
LEMMA TimerKeeps ==
    ASSUME ConInv, NEW advanceClock \in BOOLEAN, HandlerStep(advanceClock),
           Head(events).type = "TimerInt", TimerExpired(Remaining(advanceClock)),
           UNCHANGED << deviceVars, pc, ch, callVars >>
    PROVE  ConInv'
<1> DEFINE R == Remaining(advanceClock)
<1>1. PICK delay \in TimeOfNextInterrupt : events' = Scheduled(R, "TimerInt", delay)
  BY DEF TimerExpired
<1>2. delay \in Int /\ "TimerInt" \in EventTypes
  BY <1>1 DEF TimeOfNextInterrupt, EventTypes
<1>3. /\ UNCHANGED kvars /\ yieldOnReturn' = TRUE
      /\ UNCHANGED << value, pending, mode, putBusy, caller >>
  BY DEF TimerExpired, kvars, deviceVars, callVars
<1> HIDE DEF R
<1>4. /\ events' \in Seq(Event) /\ Sorted(events')
      /\ \A other \in EventTypes, b \in BOOLEAN :
           other # "TimerInt" /\ Armed(R, other, b) => Armed(events', other, b)
      /\ Armed(R, "TimerInt", FALSE) => Armed(events', "TimerInt", TRUE)
  BY <1>1, <1>2, HandlerFacts, ScheduledArms DEF R
<1>5. EventsInv'
  <2>1. RandomYield /\ Armed(events', "TimerInt", TRUE)
    BY <1>4, HandlerFacts DEF ConInv, EventsInv, Arms, R
  <2>2. /\ Armed(events', "ConsoleReadInt", pc \notin {"start", "finished"})
        /\ Armed(events', "DiskInt", pending[disk] > 0)
        /\ Armed(events', "ConsoleWriteInt", putBusy)
    BY <1>4, HandlerFacts DEF ConInv, EventsInv, Arms, EventTypes, R
  <2>3. Arms'
    BY <1>3, <2>1, <2>2 DEF Arms, Armed
  <2> QED
    BY <1>4, <2>3, HandlerFacts DEF EventsInv, ListOK, OnTime
<1>6. ThreadsInv'
  BY <1>3, HandlerFacts, ThreadsKept DEF ConInv
<1>7. ProgramInv'
  BY <1>3, HandlerFacts, ProgramKept DEF ConInv, Servicing
<1>8. HaltsWhenQuiet'
  BY <1>3, HandlerFacts DEF HaltsWhenQuiet
<1> QED
  BY <1>5, <1>6, <1>7, <1>8 DEF ConInv

\* Console::CheckCharAvail.
LEMMA PollKeeps ==
    ASSUME ConInv, NEW advanceClock \in BOOLEAN, HandlerStep(advanceClock),
           Head(events).type = "ConsoleReadInt", CheckCharAvail(Remaining(advanceClock)),
           UNCHANGED << pc, ch, callVars >>
    PROVE  ConInv'
<1> DEFINE R == Remaining(advanceClock)
<1>1. /\ events' = Scheduled(R, "ConsoleReadInt", ConsoleTime)
      /\ UNCHANGED << yieldOnReturn, typed, shown, putBusy, requests, caller, mode, pending >>
  BY DEF CheckCharAvail, callVars, kvars, V
<1>2. ConsoleTime \in Int /\ "ConsoleReadInt" \in EventTypes
  BY ConsoleAssumption DEF EventTypes
<1> HIDE DEF R
<1>3. /\ events' \in Seq(Event) /\ Sorted(events')
      /\ \A other \in EventTypes, b \in BOOLEAN :
           other # "ConsoleReadInt" /\ Armed(R, other, b) => Armed(events', other, b)
      /\ Armed(R, "ConsoleReadInt", FALSE) => Armed(events', "ConsoleReadInt", TRUE)
  BY <1>1, <1>2, HandlerFacts, ScheduledArms DEF R
<1>4. EventsInv'
  <2>1. pc \notin {"start", "finished"} /\ Armed(events', "ConsoleReadInt", TRUE)
    BY <1>3, HandlerFacts DEF ConInv, EventsInv, Arms, R
  <2>2. /\ Armed(events', "TimerInt", RandomYield)
        /\ Armed(events', "DiskInt", pending[disk] > 0)
        /\ Armed(events', "ConsoleWriteInt", putBusy)
    BY <1>3, HandlerFacts DEF ConInv, EventsInv, Arms, EventTypes, R
  <2>3. Arms'
    BY <1>1, <2>1, <2>2 DEF Arms, Armed
  <2> QED
    BY <1>3, <2>3, HandlerFacts DEF EventsInv, ListOK, OnTime
<1>5. HaltsWhenQuiet'
  BY <1>1, HandlerFacts DEF HaltsWhenQuiet
<1>6. CASE incoming # NULL \/ nread = Len(typed)
  <2>1. UNCHANGED << kvars, nread, incoming >>
    BY <1>6 DEF CheckCharAvail
  <2>2. UNCHANGED value /\ UNCHANGED deviceVars
    BY <1>1, <2>1 DEF kvars, deviceVars
  <2>3. ThreadsInv'
    BY <1>1, <2>1, HandlerFacts, ThreadsKept DEF ConInv, ThreadsInv, InService
  <2>4. yieldOnReturn' \in BOOLEAN /\ servicing' \in Servicing
    BY <1>1, HandlerFacts DEF ConInv, ProgramInv, ConsoleTypes, Servicing
  <2>5. ProgramInv'
    BY <1>1, <2>2, <2>4, ProgramKept DEF ConInv
  <2> QED
    BY <1>4, <1>5, <2>3, <2>5 DEF ConInv
<1>7. CASE incoming = NULL /\ nread # Len(typed)
  <2> DEFINE x == typed[nread + 1]
  <2>1. /\ incoming' = x /\ nread' = nread + 1
        /\ V(readAvail) /\ UNCHANGED pending
    BY <1>7 DEF CheckCharAvail
  <2>2. typed \in Seq(Chars) /\ shown \in Seq(Chars) /\ nread \in 0..Len(typed)
    BY DEF ConInv, ProgramInv, ConsoleTypes
  <2>3. /\ Len(typed) \in Nat /\ nread \in Nat
        /\ nread + 1 \in 1..Len(typed)
    BY <1>7, <2>2, LenProperties
  <2>4. x \in Chars /\ x # NULL
    BY <2>2, <2>3, ElementOfSeq, ConsoleAssumption
  <2> HIDE DEF x
  <2>5. /\ pending \in [Semaphores -> 0..MaxPending]
        /\ value \in [Semaphores -> 0..MaxValue] /\ MaxValue \in Nat
    BY KernelAssumption DEF ConInv, ThreadsInv, KTypeOK
  <2>6. ThreadsInv'
    BY <1>1, <2>1, <2>5, ThreeSemaphores, HandlerKeepsThreads DEF ConInv
  <2>7. /\ value'[readAvail] = value[readAvail] + 1
        /\ value'[writeDone] = value[writeDone] /\ value'[disk] = value[disk]
    BY <2>1, <2>5, ThreeSemaphores DEF V
  <2>8. ConsoleTypes'
    <3>1. servicing' \in Servicing
      BY HandlerFacts DEF Servicing
    <3>2. incoming' \in Chars \cup {NULL} /\ nread' \in 0..Len(typed)
      BY <2>1, <2>3, <2>4
    <3> QED
      BY <1>1, <3>1, <3>2 DEF ConInv, ProgramInv, ConsoleTypes
  <2>9. Balance'
    BY <1>1, <1>7, <2>1, <2>4, <2>7 DEF ConInv, ProgramInv, Balance
  <2>10. SubSeq(typed, 1, nread + 1) = SubSeq(typed, 1, nread) \o << x >>
    <3>1. /\ 1 \in 1..Len(typed) /\ nread + 1 \in 1..Len(typed)
          /\ (nread + 1) - 1 = nread
      BY <2>3
    <3> QED
      BY <2>2, <3>1, SubSeqRecursiveSecond DEF x
  <2>11. EchoFaithful'
    <3> DEFINE P == IF pc = "put" THEN << ch >> ELSE << >>
    <3>1. P \in Seq(Chars)
      BY CharSequences DEF ConInv, ProgramInv, Balance
    <3>2. Held = P \o << >>
      BY <1>7 DEF Held
    <3>3. Held' = P \o << x >>
      BY <2>1, <2>4 DEF Held
    <3> HIDE DEF P
    <3>4. SubSeq(typed, 1, nread) = shown \o P
      BY <3>1, <3>2, CharSequences DEF ConInv, ProgramInv, EchoFaithful
    <3>5. << x >> \in Seq(Chars)
      BY <2>4, CharSequences
    <3>6. (shown \o P) \o << x >> = shown \o (P \o << x >>)
      BY <2>2, <3>1, <3>5, CharSequences
    <3> QED
      BY <1>1, <2>1, <2>10, <3>3, <3>4, <3>6 DEF EchoFaithful
  <2> QED
    BY <1>4, <1>5, <2>6, <2>8, <2>9, <2>11 DEF ConInv, ProgramInv
<1> QED
  BY <1>6, <1>7

\* Console::WriteDone.
LEMMA DisplayedKeeps ==
    ASSUME ConInv, NEW advanceClock \in BOOLEAN, HandlerStep(advanceClock),
           Head(events).type = "ConsoleWriteInt", WriteDone(Remaining(advanceClock)),
           UNCHANGED << pc, ch, callVars >>
    PROVE  ConInv'
<1>1. /\ events' = Remaining(advanceClock)
      /\ putBusy' = FALSE
      /\ pending' = [pending EXCEPT ![writeDone] = @ - 1]
      /\ V(writeDone)
      /\ UNCHANGED << yieldOnReturn, typed, nread, shown, incoming, requests, caller, mode >>
  BY DEF WriteDone, callVars, V
<1>2. putBusy /\ Armed(events', "ConsoleWriteInt", FALSE)
  BY <1>1, HandlerFacts DEF ConInv, EventsInv, Arms
<1>3. pc = "writeDone" /\ pending[writeDone] = 1
  BY <1>2 DEF ConInv, ProgramInv, Balance
<1>4. /\ pending \in [Semaphores -> 0..MaxPending] /\ MaxPending \in Nat
      /\ value \in [Semaphores -> 0..MaxValue] /\ MaxValue \in Nat
  BY KernelAssumption DEF ConInv, ThreadsInv, KTypeOK
<1>5. /\ pending' \in [Semaphores -> 0..MaxPending]
      /\ pending'[writeDone] = 0
      /\ pending'[readAvail] = pending[readAvail] /\ pending'[disk] = pending[disk]
      /\ value'[writeDone] = value[writeDone] + 1
      /\ value'[readAvail] = value[readAvail] /\ value'[disk] = value[disk]
  BY <1>1, <1>3, <1>4, ThreeSemaphores DEF V
<1>6. EventsInv'
  <2>1. /\ Armed(events', "TimerInt", RandomYield)
        /\ Armed(events', "DiskInt", pending[disk] > 0)
        /\ Armed(events', "ConsoleReadInt", pc \notin {"start", "finished"})
    BY <1>1, HandlerFacts DEF ConInv, EventsInv, Arms, EventTypes
  <2>2. Arms'
    BY <1>1, <1>2, <1>5, <2>1 DEF Arms, Armed
  <2> QED
    BY <1>1, <2>2, HandlerFacts DEF EventsInv, ListOK, OnTime
<1>7. ThreadsInv'
  BY <1>1, <1>5, ThreeSemaphores, HandlerKeepsThreads DEF ConInv
<1>8. ConsoleTypes'
  BY <1>1, HandlerFacts DEF ConInv, ProgramInv, ConsoleTypes, Servicing
<1>9. Balance'
  BY <1>1, <1>2, <1>3, <1>5 DEF ConInv, ProgramInv, Balance
<1>10. EchoFaithful'
  BY <1>1, EchoKept DEF ConInv, ProgramInv
<1>11. HaltsWhenQuiet'
  BY <1>1, HandlerFacts DEF HaltsWhenQuiet
<1> QED
  BY <1>6, <1>7, <1>8, <1>9, <1>10, <1>11 DEF ConInv, ProgramInv

\* SynchDisk::RequestDone.
LEMMA DiskDoneKeeps ==
    ASSUME ConInv, NEW advanceClock \in BOOLEAN, HandlerStep(advanceClock),
           Head(events).type = "DiskInt", DiskDone(Remaining(advanceClock)),
           UNCHANGED << pc, ch, callVars >>
    PROVE  ConInv'
<1>1. /\ events' = Remaining(advanceClock)
      /\ pending' = [pending EXCEPT ![disk] = @ - 1]
      /\ V(disk)
      /\ UNCHANGED << yieldOnReturn, typed, nread, shown, incoming, putBusy, requests,
                      caller, mode >>
  BY DEF DiskDone, deviceVars, callVars, V
<1>2. pending[disk] > 0 /\ Armed(events', "DiskInt", FALSE)
  BY <1>1, HandlerFacts DEF ConInv, EventsInv, Arms
<1>3. /\ pending \in [Semaphores -> 0..MaxPending] /\ MaxPending \in Nat
      /\ value \in [Semaphores -> 0..MaxValue] /\ MaxValue \in Nat
  BY KernelAssumption DEF ConInv, ThreadsInv, KTypeOK
<1>4. pending[disk] = 1
  <2>1. pending[disk] \in Nat /\ value[disk] \in Nat
    BY <1>3, ThreeSemaphores
  <2> QED
    BY <1>2, <2>1 DEF ConInv, ProgramInv, Balance
<1>5. /\ pending' \in [Semaphores -> 0..MaxPending]
      /\ pending'[disk] = 0
      /\ pending'[readAvail] = pending[readAvail] /\ pending'[writeDone] = pending[writeDone]
      /\ value'[disk] = value[disk] + 1
      /\ value'[readAvail] = value[readAvail] /\ value'[writeDone] = value[writeDone]
  BY <1>1, <1>3, <1>4, ThreeSemaphores DEF V
<1>6. EventsInv'
  <2>1. /\ Armed(events', "TimerInt", RandomYield)
        /\ Armed(events', "ConsoleWriteInt", putBusy)
        /\ Armed(events', "ConsoleReadInt", pc \notin {"start", "finished"})
    BY <1>1, HandlerFacts DEF ConInv, EventsInv, Arms, EventTypes
  <2>2. Arms'
    BY <1>1, <1>2, <1>5, <2>1 DEF Arms, Armed
  <2> QED
    BY <1>1, <2>2, HandlerFacts DEF EventsInv, ListOK, OnTime
<1>7. ThreadsInv'
  BY <1>1, <1>5, ThreeSemaphores, HandlerKeepsThreads DEF ConInv
<1>8. ConsoleTypes'
  BY <1>1, HandlerFacts DEF ConInv, ProgramInv, ConsoleTypes, Servicing
<1>9. Balance'
  BY <1>1, <1>4, <1>5 DEF ConInv, ProgramInv, Balance
<1>10. EchoFaithful'
  BY <1>1, EchoKept DEF ConInv, ProgramInv
<1>11. HaltsWhenQuiet'
  BY <1>1, HandlerFacts DEF HaltsWhenQuiet
<1> QED
  BY <1>6, <1>7, <1>8, <1>9, <1>10, <1>11 DEF ConInv, ProgramInv

\* The handler of the first event.
LEMMA HandlesKeeps ==
    ASSUME ConInv, Handles
    PROVE  ConInv'
<1>1. PICK advanceClock \in BOOLEAN :
        HandlerStep(advanceClock) /\ Handle(Head(events), Remaining(advanceClock))
  BY DEF Handles
<1>2. UNCHANGED << pc, ch, callVars >>
  BY <1>1 DEF Handle
<1>3. CASE Head(events).type = "TimerInt"
  <2>1. TimerExpired(Remaining(advanceClock)) /\ UNCHANGED deviceVars
    BY <1>1, <1>3, Zenon DEF Handle
  <2> QED
    BY <1>1, <1>2, <1>3, <2>1, TimerKeeps
<1>4. CASE Head(events).type = "ConsoleReadInt"
  <2>1. CheckCharAvail(Remaining(advanceClock))
    BY <1>1, <1>4 DEF Handle
  <2> QED
    BY <1>1, <1>2, <1>4, <2>1, PollKeeps
<1>5. CASE Head(events).type = "ConsoleWriteInt"
  <2>1. WriteDone(Remaining(advanceClock))
    BY <1>1, <1>5 DEF Handle
  <2> QED
    BY <1>1, <1>2, <1>5, <2>1, DisplayedKeeps
<1>6. CASE Head(events).type = "DiskInt"
  <2>1. DiskDone(Remaining(advanceClock))
    BY <1>1, <1>6 DEF Handle
  <2> QED
    BY <1>1, <1>2, <1>6, <2>1, DiskDoneKeeps
<1>7. Head(events).type \in EventTypes
  BY <1>1, HandlerFacts
<1> QED
  BY <1>3, <1>4, <1>5, <1>6, <1>7 DEF EventTypes

-----------------------------------------------------------------------------
(* The theorems.                                                           *)

\* A statement of ConsoleTest.
LEMMA ConsoleTestKeeps ==
    ASSUME ConInv, ConsoleTest
    PROVE  ConInv'
<1>1. Main \in Threads
  BY KernelAssumption
<1>2. CASE Await(readAvail, "readAvail", "get")
  <2>1. UNCHANGED << deviceVars, ch, callVars >>
    BY <1>2 DEF Await
  <2>2. CASE pc = "readAvail" /\ UNCHANGED pc /\ IPEnter(Main, readAvail)
    BY <1>1, <2>1, <2>2, ThreeSemaphores, EnterKeeps
  <2>3. CASE UNCHANGED pc /\ IPSleep(Main, readAvail)
    BY <1>1, <2>1, <2>3, ThreeSemaphores, SleepKeeps
  <2>4. CASE Goto("readAvail", "get") /\ IPTake(Main, readAvail)
    BY <2>1, <2>4, ReadAvailKeeps
  <2> QED
    BY <1>2, <2>2, <2>3, <2>4 DEF Await
<1>3. CASE Await(writeDone, "writeDone", "test")
  <2>1. UNCHANGED << deviceVars, ch, callVars >>
    BY <1>3 DEF Await
  <2>2. CASE pc = "writeDone" /\ UNCHANGED pc /\ IPEnter(Main, writeDone)
    BY <1>1, <2>1, <2>2, ThreeSemaphores, EnterKeeps
  <2>3. CASE UNCHANGED pc /\ IPSleep(Main, writeDone)
    BY <1>1, <2>1, <2>3, ThreeSemaphores, SleepKeeps
  <2>4. CASE Goto("writeDone", "test") /\ IPTake(Main, writeDone)
    BY <2>1, <2>4, WriteDoneKeeps
  <2> QED
    BY <1>3, <2>2, <2>3, <2>4 DEF Await
<1> QED
  BY <1>2, <1>3, StartKeeps, GetCharKeeps, PutCharKeeps, TestKeeps, MainHaltsKeeps
     DEF ConsoleTest

\* A step of a thread of ThreadTest.
LEMMA OtherThreadKeeps ==
    ASSUME ConInv, NEW t \in Threads, OtherThread(t)
    PROVE  ConInv'
<1>1. t # Main /\ UNCHANGED << deviceVars, pc, ch >>
  BY DEF OtherThread
<1>2. CASE DiskRequest(t)
  BY <1>1, <1>2, DiskRequestKeeps
<1>3. CASE DiskAwait(t)
  <2>1. caller = t /\ UNCHANGED requests
    BY <1>3 DEF DiskAwait
  <2>2. CASE IPEnter(t, disk) /\ UNCHANGED caller
    BY <1>1, <2>1, <2>2, ThreeSemaphores, EnterKeeps DEF callVars
  <2>3. CASE IPSleep(t, disk) /\ UNCHANGED caller
    BY <1>1, <2>1, <2>3, ThreeSemaphores, SleepKeeps DEF callVars
  <2>4. CASE IPTake(t, disk) /\ caller' = NULL
    BY <1>1, <2>1, <2>4, DiskTakeKeeps
  <2> QED
    BY <1>3, <2>2, <2>3, <2>4 DEF DiskAwait
<1>4. CASE caller # t /\ IFinish(t) /\ UNCHANGED callVars
  BY <1>1, <1>4, FinishKeeps
<1>5. CASE Ticking(t) /\ UNCHANGED << kvars, callVars >>
  BY <1>1, <1>5, TickingKeeps
<1> QED
  BY <1>2, <1>3, <1>4, <1>5 DEF OtherThread

\* No step at all.
LEMMA StutterKeeps ==
    ASSUME ConInv, UNCHANGED convars
    PROVE  ConInv'
<1>1. UNCHANGED << kvars, events, servicing, yieldOnReturn, typed, nread, shown, incoming,
                   putBusy, pc, ch, requests, caller >>
  BY DEF convars, ivars, intVars, deviceVars, callVars
<1>2. UNCHANGED << value, pending, mode, status >>
  BY <1>1 DEF kvars
<1>3. EventsInv'
  BY <1>1, <1>2, EventsKept DEF ConInv
<1>4. ThreadsInv'
  BY <1>1, ThreadsKept DEF ConInv, ThreadsInv, InService
<1>5. ProgramInv'
  BY <1>1, <1>2, ProgramKept DEF ConInv, ProgramInv, ConsoleTypes, deviceVars, callVars
<1>6. HaltsWhenQuiet'
  BY <1>1, <1>2 DEF ConInv, HaltsWhenQuiet, Finished, kvars
<1> QED
  BY <1>3, <1>4, <1>5, <1>6 DEF ConInv

\* Every step.
LEMMA StepInv == ConInv /\ [ConNext]_convars => ConInv'
<1> SUFFICES ASSUME ConInv, [ConNext]_convars
             PROVE  ConInv'
  OBVIOUS
<1>1. CASE QuietStep /\ UNCHANGED << deviceVars, pc, ch, callVars >>
  BY <1>1, QuietKeeps, IdleHaltKeeps DEF QuietStep
<1>2. CASE Handles
  BY <1>2, HandlesKeeps
<1>3. CASE ConsoleTest
  BY <1>3, ConsoleTestKeeps
<1>4. CASE MainFinishes
  <2>1. /\ IFinish(Main) /\ pc = "start" /\ pc' = "finished"
        /\ UNCHANGED << deviceVars, ch, callVars >>
    BY <1>4 DEF MainFinishes, Goto
  <2>2. Main \in Threads /\ caller # Main
    BY KernelAssumption DEF ConInv, ThreadsInv, Callers
  <2> QED
    BY <2>1, <2>2, FinishKeeps
<1>5. CASE \E t \in Threads : OtherThread(t) \/ Forks(t)
  BY <1>5, OtherThreadKeeps, ForksKeeps
<1>6. CASE \E c \in Chars : Type(c)
  BY <1>6, TypeKeeps
<1>7. CASE UNCHANGED convars
  BY <1>7, StutterKeeps
<1> QED
  BY <1>1, <1>2, <1>3, <1>4, <1>5, <1>6, <1>7 DEF ConNext, Machine, ConMachineStep

\* What every reachable state of the simulation satisfies.
LEMMA AlwaysConInv == ConSpec => []ConInv
BY InitInv, StepInv, PTL DEF ConSpec

\* One event or none, as a number.
LEMMA ArmedCounts ==
    ASSUME NEW type, NEW b \in BOOLEAN, Armed(events, type, b)
    PROVE  CountEvents(type) = IF b THEN 1 ELSE 0
<1> DEFINE I == {i \in DOMAIN events : events[i].type = type}
<1>1. CASE b
  <2>1. PICK i \in DOMAIN events : events[i].type = type
    BY <1>1 DEF Armed
  <2>2. I = {i}
    BY <2>1 DEF Armed
  <2> QED
    BY <1>1, <2>2, FS_Singleton DEF CountEvents
<1>2. CASE ~b
  <2>1. I = {}
    BY <1>2 DEF Armed
  <2> QED
    BY <1>2, <2>1, FS_EmptySet DEF CountEvents
<1> QED
  BY <1>1, <1>2

\* The echo of the console is faithful whatever the other threads, the disk and the timer
\* do: every character that was read from the keyboard is on the display or on its way
\* there, once and in order (progtest.cc:60-85).
THEOREM EchoIsFaithful == ConSpec => []EchoFaithful
<1>1. ConInv => EchoFaithful
  BY DEF ConInv, ProgramInv
<1> QED
  BY <1>1, AlwaysConInv, PTL

\* The simulation halts by itself only when no device has anything left to do, so that it
\* gives up no thread that waits for one, however many threads there are
\* (interrupt.cc:225-233).
THEOREM HaltsOnlyWhenQuiet == ConSpec => []HaltsWhenQuiet
<1>1. ConInv => HaltsWhenQuiet
  BY DEF ConInv
<1> QED
  BY <1>1, AlwaysConInv, PTL

\* The program, its semaphores, the console and the list of events are in step: each
\* device has exactly the event it needs, none is late, GetChar never finds the buffer
\* empty and PutChar never the display busy (interrupt.cc:300-319, console.cc:90, 145).
THEOREM ConsoleIsConsistent == ConSpec => []ConConsistent
<1>1. ASSUME ConInv
      PROVE  ConTypeOK
  <2>1. ASSUME NEW e \in Range(events)
        PROVE  e.when \in Int
    <3>1. PICK i \in DOMAIN events : e = events[i]
      BY DEF Range
    <3>2. events[i] \in Event
      BY <1>1, ElementOfSeq, LenProperties DEF ConInv, EventsInv, ListOK
    <3> QED
      BY <3>1, <3>2 DEF Event
  <2> QED
    BY <1>1, <2>1 DEF ConInv, ThreadsInv, ProgramInv, ConsoleTypes, ConTypeOK, ITypeOK
<1>2. ASSUME ConInv
      PROVE  DevicesArmed
  <2>1. /\ RandomYield \in BOOLEAN /\ putBusy \in BOOLEAN
        /\ (pending[disk] > 0) \in BOOLEAN
        /\ (pc \notin {"start", "finished"}) \in BOOLEAN
    BY <1>2, KernelAssumption DEF ConInv, ProgramInv, ConsoleTypes
  <2>2. /\ CountEvents("TimerInt") = IF RandomYield THEN 1 ELSE 0
        /\ CountEvents("ConsoleReadInt") = IF pc \notin {"start", "finished"} THEN 1 ELSE 0
        /\ CountEvents("DiskInt") = IF pending[disk] > 0 THEN 1 ELSE 0
        /\ CountEvents("ConsoleWriteInt") = IF putBusy THEN 1 ELSE 0
    BY <1>2, <2>1, ArmedCounts DEF ConInv, EventsInv, Arms
  <2>3. pending[disk] \in {0, 1}
    <3>1. pending[disk] \in Nat /\ value[disk] \in Nat
      BY <1>2, KernelAssumption, ThreeSemaphores DEF ConInv, ThreadsInv, KTypeOK
    <3> QED
      BY <1>2, <3>1 DEF ConInv, ProgramInv, Balance
  <2> QED
    BY <2>2, <2>3 DEF DevicesArmed
<1>3. ASSUME ConInv
      PROVE  EventsOnTime
  <2>1. EventsSorted
    BY <1>3 DEF ConInv, EventsInv, ListOK, Sorted, EventsSorted
  <2>2. NoOverdueDevice
    BY <1>3 DEF ConInv, EventsInv, OnTime, NoOverdueDevice, Range
  <2>3. NoStaleYield
    BY <1>3 DEF ConInv, ThreadsInv, InService, NoStaleYield
  <2> QED
    BY <2>1, <2>2, <2>3 DEF EventsOnTime
<1>4. ASSUME ConInv
      PROVE  SignalsMatchBuffer /\ NeverBusy
  BY <1>4 DEF ConInv, ProgramInv, Balance, SignalsMatchBuffer, NeverBusy
<1>5. ConInv => ConConsistent
  BY <1>1, <1>2, <1>3, <1>4 DEF ConConsistent
<1> QED
  BY <1>5, AlwaysConInv, PTL
=============================================================================
