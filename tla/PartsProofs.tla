----------------------------- MODULE PartsProofs ----------------------------
(***************************************************************************)
(* Theorems about class List, for every set of items and of keys, and      *)
(* however many elements new can give; about the echo servers, for every   *)
(* set of clients, whatever their users type, however many processes       *)
(* server1 may fork, and whatever the size of recv_msg; about the time of  *)
(* the requests of class Disk, for any disk; about the converters, for     *)
(* every COFF file; and about timewrite, for every input.                  *)
(*                                                                         *)
(* The parts have nothing to do with each other.  The first two share the  *)
(* lemmas about sequences: the invariant of a list is the sequence of its  *)
(* elements, that of a server the bytes that a client has sent.            *)
(***************************************************************************)
EXTENDS List, Echo, DiskTime, Coff, Homework, FiniteSetTheorems, SequenceTheorems, WellFoundedInduction, TLAPS

-----------------------------------------------------------------------------
(* Lemmas about numbers and sequences.                                     *)

\* Every set of numbers has a least one.
LEMMA Least ==
    ASSUME NEW S \in SUBSET Nat, S # {}
    PROVE  \E m \in S : \A n \in S : m <= n
<1> DEFINE R == {p \in Nat \X Nat : p[1] < p[2]}
<1>1. IsWellFoundedOn(R, Nat)
  BY NatLessThanWellFounded DEF OpToRel
<1>2. PICK m \in S : \A n \in S : << n, m >> \notin R
  BY <1>1, WFMin
<1>3. \A n \in S : m \in Nat /\ n \in Nat /\ ~(n < m)
  BY <1>2
<1> QED
  BY <1>2, <1>3

\* Sequence s with x put before its member number i.
Inserted(s, i, x) ==
    [k \in 1..Len(s) + 1 |-> IF k < i THEN s[k] ELSE IF k = i THEN x ELSE s[k - 1]]

\* It has everything that s has, and x.
LEMMA InsertedIs ==
    ASSUME NEW S, NEW s \in Seq(S), NEW i \in 1..Len(s) + 1, NEW x \in S
    PROVE  LET r == Inserted(s, i, x)
               from(k) == IF k < i THEN k ELSE k - 1 IN
           /\ r \in Seq(S) /\ Len(r) = Len(s) + 1
           /\ r[i] = x
           /\ \A k \in 1..Len(s) + 1 : k # i => from(k) \in 1..Len(s) /\ r[k] = s[from(k)]
           /\ \A j \in 1..Len(s) : IF j < i THEN r[j] = s[j] ELSE r[j + 1] = s[j]
<1> DEFINE r == Inserted(s, i, x)
           N == Len(s)
           from(k) == IF k < i THEN k ELSE k - 1
<1>1. N \in Nat /\ i \in 1..N + 1 /\ \A j \in 1..N : s[j] \in S
  OBVIOUS
<1>2. r = [k \in 1..N + 1 |-> IF k < i THEN s[k] ELSE IF k = i THEN x ELSE s[k - 1]]
  BY DEF Inserted
<1> HIDE DEF N, r
<1>3. \A k \in 1..N + 1 : r[k] = IF k < i THEN s[k] ELSE IF k = i THEN x ELSE s[k - 1]
  BY <1>2
<1>4. \A k \in 1..N + 1 : k # i => from(k) \in 1..N /\ r[k] = s[from(k)]
  <2> SUFFICES ASSUME NEW k \in 1..N + 1, k # i
               PROVE  from(k) \in 1..N /\ r[k] = s[from(k)]
    OBVIOUS
  <2>1. CASE k < i
    BY <1>1, <1>3, <2>1
  <2>2. CASE k > i
    BY <1>1, <1>3, <2>2
  <2> QED
    BY <1>1, <2>1, <2>2
<1>5. r[i] = x
  BY <1>1, <1>3
<1>6. r \in Seq(S) /\ Len(r) = N + 1
  <2>1. \A k \in 1..N + 1 : r[k] \in S
    BY <1>1, <1>4, <1>5
  <2>2. r \in [1..N + 1 -> S] /\ N + 1 \in Nat
    BY <1>1, <1>2, <2>1
  <2> QED
    BY <2>2
<1>7. \A j \in 1..N : IF j < i THEN r[j] = s[j] ELSE r[j + 1] = s[j]
  <2> SUFFICES ASSUME NEW j \in 1..N
               PROVE  IF j < i THEN r[j] = s[j] ELSE r[j + 1] = s[j]
    OBVIOUS
  <2>1. CASE j < i
    BY <1>1, <1>3, <2>1
  <2>2. CASE ~(j < i)
    <3>1. j + 1 \in 1..N + 1 /\ ~(j + 1 < i) /\ j + 1 # i /\ (j + 1) - 1 = j
      BY <1>1, <2>2
    <3> QED
      BY <1>3, <2>2, <3>1
  <2> QED
    BY <2>1, <2>2
<1> QED
  BY <1>4, <1>5, <1>6, <1>7 DEF N, r

\* Insertion after the last, before the first and anywhere between.
LEMMA InsertedAtEnd ==
    ASSUME NEW S, NEW s \in Seq(S), NEW x \in S
    PROVE  Inserted(s, Len(s) + 1, x) = Append(s, x)
<1> DEFINE N == Len(s)
           r == Append(s, x)
<1>1. /\ N \in Nat /\ r \in Seq(S) /\ Len(r) = N + 1
      /\ \A k \in 1..N + 1 : r[k] = IF k <= N THEN s[k] ELSE x
  OBVIOUS
<1> HIDE DEF r, N
<1>2. r = [k \in 1..N + 1 |-> r[k]]
  BY <1>1
<1>3. \A k \in 1..N + 1 : r[k] = IF k < N + 1 THEN s[k] ELSE IF k = N + 1 THEN x ELSE s[k - 1]
  BY <1>1
<1> QED
  BY <1>2, <1>3 DEF Inserted, N, r

\* An insertion is between what is before its place and what is behind.
LEMMA InsertedBetween ==
    ASSUME NEW S, NEW s \in Seq(S), NEW x \in S, NEW n \in 0..Len(s)
    PROVE  Inserted(s, n + 1, x) = SubSeq(s, 1, n) \o << x >> \o SubSeq(s, n + 1, Len(s))
<1> DEFINE N == Len(s)
           a == SubSeq(s, 1, n)
           b == SubSeq(s, n + 1, N)
           r == a \o << x >> \o b
<1>1. N \in Nat /\ n \in 0..N /\ \A j \in 1..N : s[j] \in S
  OBVIOUS
<1>2. a \in Seq(S) /\ Len(a) = n /\ \A k \in 1..n : a[k] = s[k]
  OBVIOUS
<1>3. b \in Seq(S) /\ Len(b) = N - n /\ \A k \in 1..N - n : b[k] = s[k + n]
  OBVIOUS
<1> HIDE DEF a, b, N
<1>4. /\ a \o << x >> \in Seq(S) /\ Len(a \o << x >>) = n + 1
      /\ \A k \in 1..n + 1 : (a \o << x >>)[k] = IF k <= n THEN s[k] ELSE x
  BY <1>1, <1>2
<1>5. /\ r \in Seq(S) /\ Len(r) = N + 1
      /\ \A k \in 1..N + 1 : r[k] = IF k <= n + 1 THEN (a \o << x >>)[k] ELSE b[k - (n + 1)]
  BY <1>1, <1>3, <1>4, SMTT(30)
<1> HIDE DEF r
<1>6. ASSUME NEW k \in 1..N + 1
      PROVE  r[k] = IF k < n + 1 THEN s[k] ELSE IF k = n + 1 THEN x ELSE s[k - 1]
  <2>1. CASE k < n + 1
    <3>1. k \in 1..n + 1 /\ k <= n /\ k <= n + 1
      BY <1>1, <1>6, <2>1
    <3> QED
      BY <1>4, <1>5, <2>1, <3>1
  <2>2. CASE k = n + 1
    <3>1. k \in 1..n + 1 /\ ~(k <= n) /\ k <= n + 1
      BY <1>1, <1>6, <2>2
    <3> QED
      BY <1>4, <1>5, <2>2, <3>1
  <2>3. CASE k > n + 1
    <3>1. k - (n + 1) \in 1..N - n /\ (k - (n + 1)) + n = k - 1
      BY <1>1, <2>3
    <3>2. b[k - (n + 1)] = s[k - 1]
      BY <1>3, <3>1
    <3> QED
      BY <1>1, <1>5, <2>3, <3>2
  <2> QED
    BY <1>1, <2>1, <2>2, <2>3
<1>7. r = [k \in 1..N + 1 |-> r[k]]
  BY <1>5, <1>1
<1>8. r = [k \in 1..N + 1 |-> IF k < n + 1 THEN s[k] ELSE IF k = n + 1 THEN x ELSE s[k - 1]]
  BY <1>6, <1>7
<1> QED
  BY <1>8 DEF Inserted, N, r, a, b

\* An insertion at the first place is in front of everything.
LEMMA InsertedInFront ==
    ASSUME NEW S, NEW s \in Seq(S), NEW x \in S
    PROVE  Inserted(s, 1, x) = << x >> \o s
<1>1. Inserted(s, 0 + 1, x) = SubSeq(s, 1, 0) \o << x >> \o SubSeq(s, 0 + 1, Len(s))
  <2>1. Len(s) \in Nat /\ 0 \in 0..Len(s)
    OBVIOUS
  <2> QED
    BY <2>1, InsertedBetween
<1>2. SubSeq(s, 1, 0) = << >> /\ << x >> \in Seq(S) /\ SubSeq(s, 1, Len(s)) = s
  OBVIOUS
<1>3. << >> \o << x >> = << x >> /\ 0 + 1 = 1
  OBVIOUS
<1> QED
  BY <1>1, <1>2, <1>3

\* Prefixes of a sequence.
LEMMA SubSeqAppended ==
    ASSUME NEW S, NEW s \in Seq(S), NEW n \in Nat, n < Len(s)
    PROVE  /\ Len(SubSeq(s, 1, n)) = n
           /\ \A k \in 1..n : SubSeq(s, 1, n)[k] = s[k]
           /\ SubSeq(s, 1, n + 1) = Append(SubSeq(s, 1, n), s[n + 1])
<1> DEFINE a == SubSeq(s, 1, n)
           b == SubSeq(s, 1, n + 1)
<1>1. a \in Seq(S) /\ Len(a) = n /\ \A k \in 1..n : a[k] = s[k]
  OBVIOUS
<1>2. b \in Seq(S) /\ Len(b) = n + 1 /\ \A k \in 1..n + 1 : b[k] = s[k]
  OBVIOUS
<1>3. s[n + 1] \in S
  OBVIOUS
<1> HIDE DEF a, b
<1>4. /\ Append(a, s[n + 1]) \in Seq(S) /\ Len(Append(a, s[n + 1])) = n + 1
      /\ \A k \in 1..n + 1 : Append(a, s[n + 1])[k] = IF k <= n THEN a[k] ELSE s[n + 1]
  BY <1>1, <1>3
<1>5. b = Append(a, s[n + 1])
  <2>1. \A k \in 1..n + 1 : b[k] = Append(a, s[n + 1])[k]
    BY <1>1, <1>2, <1>4
  <2> QED
    BY <1>2, <1>4, <2>1, SeqEqual
<1> QED
  BY <1>1, <1>5 DEF a, b

-----------------------------------------------------------------------------
(* The elements that are linked.                                           *)

\* The elements of s, in that order, are what one meets from f on, l is the last of
\* them, and there are no others in h.
Linked(s, f, l, h) ==
    /\ s \in Seq(Elements)
    /\ \A i, j \in 1..Len(s) : s[i] = s[j] => i = j
    /\ f = IF s = << >> THEN Nil ELSE s[1]
    /\ l = IF s = << >> THEN Nil ELSE s[Len(s)]
    /\ \A i \in 1..Len(s) : h[s[i]].next = IF i = Len(s) THEN Nil ELSE s[i + 1]
    /\ \A e \in Elements : h[e] # Nil <=> \E i \in 1..Len(s) : s[i] = e

\* The walk that defines Visited.
UpTo[n \in Nat] ==
    IF n = 0 THEN IF IsEmpty THEN << >> ELSE << first >>
    ELSE LET v == UpTo[n - 1] IN
         IF v = << >> \/ heap[v[Len(v)]].next = Nil THEN v
         ELSE Append(v, heap[v[Len(v)]].next)

\* The walk of Mapcar takes as many steps as there are elements.
LEMMA VisitedIsWalk == Visited = UpTo[Cardinality(Elements)]
BY DEF Visited, UpTo

\* There are no more places than elements.
LEMMA LinkedFits ==
    ASSUME NEW s, NEW f, NEW l, NEW h, Linked(s, f, l, h)
    PROVE  Len(s) \in Nat /\ Cardinality(Elements) \in Nat /\ Len(s) <= Cardinality(Elements)
<1> USE ListAssumption
<1>1. /\ s \in Seq(Elements) /\ Len(s) \in Nat
      /\ \A i \in 1..Len(s) : s[i] \in Elements
      /\ \A i, j \in 1..Len(s) : s[i] = s[j] => i = j
      /\ s = [k \in 1..Len(s) |-> s[k]]
  BY DEF Linked
<1>2. s \in Injection(1..Len(s), Elements)
  BY <1>1 DEF Injection, IsInjective
<1>3. Cardinality(1..Len(s)) = Len(s) /\ IsFiniteSet(1..Len(s))
  <2>1. 1 \in Int /\ Len(s) \in Int
    BY <1>1
  <2> QED
    BY <1>1, <2>1, FS_Interval
<1>4. Cardinality(Elements) \in Nat
  BY FS_CardinalityType
<1> QED
  BY <1>1, <1>2, <1>3, <1>4, FS_Injection

\* A walk meets the linked elements, and nothing after them.
LEMMA VisitedIs ==
    ASSUME NEW s, Linked(s, first, last, heap)
    PROVE  Visited = s
<1> DEFINE N == Len(s)
           g == [n \in Nat |-> IF n < N THEN SubSeq(s, 1, n + 1) ELSE s]
<1>1. /\ s \in Seq(Elements) /\ N \in Nat
      /\ \A i \in 1..N : s[i] \in Elements /\ s[i] # Nil
      /\ first = IF s = << >> THEN Nil ELSE s[1]
      /\ \A i \in 1..N : heap[s[i]].next = IF i = N THEN Nil ELSE s[i + 1]
      /\ s = << >> <=> N = 0
  BY ListAssumption DEF Linked
<1> HIDE DEF N
\* The function that UpTo should be solves the equation that defines it.
<1>3. g = [n \in Nat |->
             IF n = 0 THEN IF IsEmpty THEN << >> ELSE << first >>
             ELSE LET v == g[n - 1] IN
                  IF v = << >> \/ heap[v[Len(v)]].next = Nil THEN v
                  ELSE Append(v, heap[v[Len(v)]].next)]
  <2> SUFFICES ASSUME NEW n \in Nat
               PROVE  g[n] = IF n = 0 THEN IF IsEmpty THEN << >> ELSE << first >>
                             ELSE LET v == g[n - 1] IN
                                  IF v = << >> \/ heap[v[Len(v)]].next = Nil THEN v
                                  ELSE Append(v, heap[v[Len(v)]].next)
    OBVIOUS
  <2>1. CASE n = 0
    <3>1. CASE N = 0
      BY <1>1, <2>1, <3>1 DEF IsEmpty
    <3>2. CASE N # 0
      <4>1. 0 < N /\ s[1] \in Elements /\ s[1] # Nil
        BY <1>1, <3>2
      <4>2. SubSeq(s, 1, 0 + 1) = Append(SubSeq(s, 1, 0), s[0 + 1]) /\ Len(SubSeq(s, 1, 0)) = 0
        BY <1>1, <4>1, SubSeqAppended DEF N
      <4>3. SubSeq(s, 1, 0) = << >> /\ Append(<< >>, s[1]) = << s[1] >> /\ 0 + 1 = 1
        BY <1>1, <4>1 DEF N
      <4>4. g[n] = SubSeq(s, 1, 0 + 1)
        BY <2>1, <4>1
      <4>5. g[n] = << s[1] >>
        BY <4>2, <4>3, <4>4
      <4> QED
        BY <1>1, <2>1, <3>2, <4>1, <4>5 DEF IsEmpty
    <3> QED
      BY <3>1, <3>2
  <2>2. CASE n # 0
    <3> DEFINE v == g[n - 1]
    <3>1. n - 1 \in Nat
      BY <2>2
    <3>2. CASE n < N
      <4>1. v = SubSeq(s, 1, n) /\ g[n] = SubSeq(s, 1, n + 1)
        BY <1>1, <2>2, <3>1, <3>2
      <4>2. n \in 1..N /\ n # N
        BY <1>1, <2>2, <3>2
      <4> HIDE DEF v
      <4>3. /\ Len(v) = n /\ v[n] = s[n]
            /\ SubSeq(s, 1, n + 1) = Append(v, s[n + 1])
        <5>1. s \in Seq(Elements) /\ n \in Nat /\ n < Len(s) /\ n \in 1..n
          BY <1>1, <2>2, <3>2 DEF N
        <5>2. /\ Len(SubSeq(s, 1, n)) = n
              /\ \A k \in 1..n : SubSeq(s, 1, n)[k] = s[k]
              /\ SubSeq(s, 1, n + 1) = Append(SubSeq(s, 1, n), s[n + 1])
          BY <5>1, SubSeqAppended
        <5> QED
          BY <4>1, <5>1, <5>2
      <4>4. heap[v[Len(v)]].next = s[n + 1] /\ s[n + 1] # Nil
        <5>1. heap[s[n]].next = s[n + 1] /\ n + 1 \in 1..N
          BY <1>1, <4>2
        <5> QED
          BY <1>1, <4>3, <5>1
      <4>5. v # << >>
        BY <2>2, <4>3
      <4>6. g[n] = Append(v, heap[v[Len(v)]].next)
        BY <4>1, <4>3, <4>4
      <4>7. ~(v = << >> \/ heap[v[Len(v)]].next = Nil)
        BY <4>4, <4>5
      <4> HIDE DEF g
      <4> QED
        BY <2>2, <4>6, <4>7 DEF v
    <3>3. CASE ~(n < N)
      <4>1. g[n] = s
        BY <3>3
      <4>2. v = s
        BY <1>1, <2>2, <3>1, <3>3, SubSeqFull DEF N
      <4>3. v = << >> \/ heap[v[Len(v)]].next = Nil
        BY <1>1, <4>2 DEF N
      <4> QED
        BY <2>2, <4>1, <4>2, <4>3
    <3> QED
      BY <3>2, <3>3
  <2> QED
    BY <2>1, <2>2
<1> HIDE DEF g
<1>4. UpTo = [n \in Nat |->
             IF n = 0 THEN IF IsEmpty THEN << >> ELSE << first >>
             ELSE LET v == UpTo[n - 1] IN
                  IF v = << >> \/ heap[v[Len(v)]].next = Nil THEN v
                  ELSE Append(v, heap[v[Len(v)]].next)]
  BY <1>3 DEF UpTo
\* And there is only one that does.
<1>5. \A n \in Nat : UpTo[n] = g[n]
  <2> DEFINE S == {n \in Nat : UpTo[n] # g[n]}
  <2> SUFFICES ASSUME S # {}
               PROVE  FALSE
    OBVIOUS
  <2>1. PICK m \in S : \A n \in S : m <= n
    BY Least
  <2>2. CASE m = 0
    BY <1>3, <1>4, <2>1, <2>2
  <2>3. CASE m # 0
    <3>1. m \in Nat /\ m - 1 \in Nat /\ ~(m <= m - 1)
      BY <2>3
    <3>2. UpTo[m - 1] = g[m - 1]
      BY <2>1, <3>1
    <3>3. UpTo[m] = g[m]
      <4> DEFINE next(w) == IF w = << >> \/ heap[w[Len(w)]].next = Nil THEN w
                            ELSE Append(w, heap[w[Len(w)]].next)
      <4>1. UpTo[m] = next(UpTo[m - 1])
        BY <1>4, <2>3, <3>1
      <4>2. g[m] = next(g[m - 1])
        BY <1>3, <2>3, <3>1
      <4> QED
        BY <3>2, <4>1, <4>2
    <3> QED
      BY <2>1, <3>3
  <2> QED
    BY <2>2, <2>3
<1>6. Cardinality(Elements) \in Nat /\ ~(Cardinality(Elements) < N)
  BY LinkedFits DEF N
<1> QED
  BY <1>5, <1>6, VisitedIsWalk DEF g

-----------------------------------------------------------------------------
(* What the operations do to the linked elements.                          *)

ListElement == [item : Items, key : Keys, next : Elements \cup {Nil}]

\* Element e, made from item and key, is linked before the one that is number i.
Links(s, i, e, item, key) ==
    /\ e \in Elements /\ heap[e] = Nil
    /\ heap' \in [Elements -> ListElement \cup {Nil}]
    /\ heap'[e] = Made(item, key, IF i = Len(s) + 1 THEN Nil ELSE s[i])
    /\ \A d \in Elements \ {e} :
         heap'[d] = IF i > 1 /\ d = s[i - 1] THEN [heap[d] EXCEPT !.next = e] ELSE heap[d]
    /\ first' = IF i = 1 THEN e ELSE first
    /\ last' = IF i = Len(s) + 1 THEN e ELSE last

\* What the callers see of the elements in s.
ItemsOf(s, h) == [n \in 1..Len(s) |-> << h[s[n]].item, h[s[n]].key >>]

\* Facts about linked elements that the proofs below start from.
LEMMA LinkedFacts ==
    ASSUME NEW s, NEW f, NEW l, NEW h, Linked(s, f, l, h),
           h \in [Elements -> ListElement \cup {Nil}]
    PROVE  /\ s \in Seq(Elements) /\ Len(s) \in Nat /\ (s = << >> <=> Len(s) = 0)
           /\ \A i \in 1..Len(s) : s[i] \in Elements /\ s[i] # Nil /\ h[s[i]] \in ListElement
                                   /\ h[s[i]] # Nil
           /\ \A i, j \in 1..Len(s) : s[i] = s[j] => i = j
           /\ f = IF Len(s) = 0 THEN Nil ELSE s[1]
           /\ l = IF Len(s) = 0 THEN Nil ELSE s[Len(s)]
           /\ \A i \in 1..Len(s) : h[s[i]].next = IF i = Len(s) THEN Nil ELSE s[i + 1]
           /\ \A e \in Elements : h[e] # Nil <=> \E i \in 1..Len(s) : s[i] = e
<1>1. /\ s \in Seq(Elements) /\ Len(s) \in Nat /\ (s = << >> <=> Len(s) = 0)
      /\ \A i \in 1..Len(s) : s[i] \in Elements
  BY DEF Linked
<1>2. \A e \in Elements : h[e] # Nil <=> \E i \in 1..Len(s) : s[i] = e
  BY DEF Linked
<1>3. \A i \in 1..Len(s) : s[i] # Nil /\ h[s[i]] # Nil /\ h[s[i]] \in ListElement
  BY <1>1, <1>2, ListAssumption
<1> QED
  BY <1>1, <1>2, <1>3 DEF Linked

\* An element linked at place i of s makes it s with the element put in there, and what
\* the callers see, with the item and its key.
LEMMA LinkedInserted ==
    ASSUME NEW s, Linked(s, first, last, heap), heap \in [Elements -> ListElement \cup {Nil}],
           NEW i \in 1..Len(s) + 1, NEW e, NEW item \in Items, NEW key \in Keys,
           Links(s, i, e, item, key)
    PROVE  /\ Linked(Inserted(s, i, e), first', last', heap')
           /\ ItemsOf(s, heap) \in Seq(Items \X Keys) /\ Len(ItemsOf(s, heap)) = Len(s)
           /\ ItemsOf(Inserted(s, i, e), heap')
                = Inserted(ItemsOf(s, heap), i, << item, key >>)
<1> DEFINE N == Len(s)
           r == Inserted(s, i, e)
           from(k) == IF k < i THEN k ELSE k - 1
<1>1. /\ s \in Seq(Elements) /\ N \in Nat
      /\ \A k \in 1..N : s[k] \in Elements /\ s[k] # Nil /\ heap[s[k]] \in ListElement
                         /\ heap[s[k]] # Nil
      /\ \A j, k \in 1..N : s[j] = s[k] => j = k
      /\ first = IF N = 0 THEN Nil ELSE s[1]
      /\ last = IF N = 0 THEN Nil ELSE s[N]
      /\ \A k \in 1..N : heap[s[k]].next = IF k = N THEN Nil ELSE s[k + 1]
      /\ \A d \in Elements : heap[d] # Nil <=> \E k \in 1..N : s[k] = d
  BY LinkedFacts
<1>2. /\ e \in Elements /\ heap[e] = Nil
      /\ heap' \in [Elements -> ListElement \cup {Nil}]
      /\ heap'[e] = [item |-> item, key |-> key, next |-> IF i = N + 1 THEN Nil ELSE s[i]]
      /\ \A d \in Elements \ {e} :
           heap'[d] = IF i > 1 /\ d = s[i - 1] THEN [heap[d] EXCEPT !.next = e] ELSE heap[d]
      /\ first' = IF i = 1 THEN e ELSE first
      /\ last' = IF i = N + 1 THEN e ELSE last
  BY DEF Links, Made
<1>3. i \in 1..N + 1 /\ \A k \in 1..N : s[k] # e
  BY <1>1, <1>2
<1>4. /\ r \in Seq(Elements) /\ Len(r) = N + 1 /\ r[i] = e
      /\ \A k \in 1..N + 1 : k # i => from(k) \in 1..N /\ r[k] = s[from(k)]
      /\ \A j \in 1..N : IF j < i THEN r[j] = s[j] ELSE r[j + 1] = s[j]
  <2>1. s \in Seq(Elements) /\ i \in 1..Len(s) + 1 /\ e \in Elements
    BY <1>1, <1>2
  <2> QED
    BY <2>1, InsertedIs
<1> HIDE DEF N, r
<1>5. \A j, k \in 1..N + 1 : r[j] = r[k] => j = k
  <2> SUFFICES ASSUME NEW j \in 1..N + 1, NEW k \in 1..N + 1, r[j] = r[k]
               PROVE  j = k
    OBVIOUS
  <2>1. j = i <=> k = i
    BY <1>3, <1>4
  <2>2. CASE j # i
    <3>1. from(j) \in 1..N /\ from(k) \in 1..N /\ s[from(j)] = s[from(k)]
      BY <1>4, <2>1, <2>2
    <3>2. from(j) = from(k)
      BY <1>1, <3>1
    <3> QED
      BY <1>1, <1>3, <2>1, <2>2, <3>2
  <2> QED
    BY <2>1, <2>2
<1>6. first' = r[1]
  <2>1. CASE i = 1
    BY <1>2, <1>4, <2>1
  <2>2. CASE i # 1
    <3>1. 1 \in 1..N + 1 /\ 1 < i /\ N # 0
      BY <1>1, <1>3, <2>2
    <3> QED
      BY <1>1, <1>2, <1>4, <2>2, <3>1
  <2> QED
    BY <2>1, <2>2
<1>7. last' = r[N + 1]
  <2>1. CASE i = N + 1
    BY <1>2, <1>4, <2>1
  <2>2. CASE i # N + 1
    <3>1. N \in 1..N /\ ~(N + 1 < i) /\ N + 1 # i /\ N + 1 \in 1..N + 1
      BY <1>1, <1>3, <2>2
    <3>2. from(N + 1) = N
      BY <1>1, <3>1
    <3> QED
      BY <1>1, <1>2, <1>4, <2>2, <3>1, <3>2
  <2> QED
    BY <2>1, <2>2
\* An element that was linked keeps what it has, but for the one before e.
<1>8. ASSUME NEW j \in 1..N
      PROVE  /\ heap'[s[j]] # Nil
             /\ heap'[s[j]].item = heap[s[j]].item /\ heap'[s[j]].key = heap[s[j]].key
             /\ heap'[s[j]].next = IF j = i - 1 THEN e ELSE heap[s[j]].next
  <2>1. s[j] \in Elements \ {e} /\ heap[s[j]] \in ListElement /\ heap[s[j]] # Nil
    BY <1>1, <1>3
  <2>2. CASE j = i - 1
    <3>1. i > 1 /\ s[j] = s[i - 1]
      BY <1>1, <1>3, <2>2
    <3>2. heap'[s[j]] = [heap[s[j]] EXCEPT !.next = e]
      BY <1>2, <2>1, <3>1
    <3>3. heap'[s[j]] \in ListElement
      BY <1>2, <2>1, <3>2 DEF ListElement
    <3> QED
      BY <2>1, <2>2, <3>2, <3>3, ListAssumption DEF ListElement
  <2>3. CASE j # i - 1
    <3>1. ~(i > 1 /\ s[j] = s[i - 1])
      <4> SUFFICES ASSUME i > 1, s[j] = s[i - 1]
                   PROVE  FALSE
        OBVIOUS
      <4>1. i - 1 \in 1..N
        BY <1>1, <1>3
      <4> QED
        BY <1>1, <2>3, <4>1
    <3> QED
      BY <1>2, <2>1, <2>3, <3>1
  <2> QED
    BY <2>2, <2>3
<1>9. ASSUME NEW k \in 1..N + 1
      PROVE  heap'[r[k]].next = IF k = N + 1 THEN Nil ELSE r[k + 1]
  <2>1. CASE k < i - 1
    <3>1. k \in 1..N /\ k + 1 \in 1..N /\ k < i /\ k + 1 < i /\ k # N /\ k # N + 1 /\ k # i - 1
      BY <1>1, <1>3, <2>1
    <3>2. r[k] = s[k] /\ r[k + 1] = s[k + 1]
      BY <1>4, <3>1
    <3> QED
      BY <1>1, <1>8, <3>1, <3>2
  <2>2. CASE k = i - 1
    <3>1. k \in 1..N /\ k < i /\ k # N + 1 /\ k + 1 = i
      BY <1>1, <1>3, <2>2
    <3>2. r[k] = s[k] /\ r[k + 1] = e
      BY <1>4, <3>1
    <3> QED
      BY <1>8, <2>2, <3>1, <3>2
  <2>3. CASE k = i
    <3>1. heap'[r[k]].next = IF i = N + 1 THEN Nil ELSE s[i]
      BY <1>2, <1>4, <2>3
    <3>2. i # N + 1 => i \in 1..N /\ ~(i < i)
      BY <1>1, <1>3
    <3>3. i # N + 1 => r[i + 1] = s[i]
      BY <1>4, <3>2
    <3> QED
      BY <2>3, <3>1, <3>3
  <2>4. CASE k > i
    <3>1. k - 1 \in 1..N /\ k # i /\ from(k) = k - 1 /\ k - 1 # i - 1
      BY <1>1, <1>3, <2>4
    <3>2. r[k] = s[k - 1]
      BY <1>4, <3>1
    <3>3. heap'[r[k]].next = IF k - 1 = N THEN Nil ELSE s[(k - 1) + 1]
      BY <1>1, <1>8, <3>1, <3>2
    <3>4. (k - 1 = N <=> k = N + 1) /\ (k - 1) + 1 = k
      <4>1. N \in Nat /\ k \in Int
        BY <1>1
      <4> QED
        BY <4>1
    <3>5. k # N + 1 => k \in 1..N /\ ~(k < i)
      <4>1. N \in Nat /\ k \in Int /\ k <= N + 1 /\ i \in Int /\ 1 <= i
        BY <1>1, <1>3
      <4> QED
        BY <2>4, <4>1
    <3>6. k # N + 1 => r[k + 1] = s[k]
      BY <1>4, <3>5
    <3> QED
      BY <3>3, <3>4, <3>6
  <2> QED
    BY <1>1, <1>3, <2>1, <2>2, <2>3, <2>4
<1>10. ASSUME NEW d \in Elements
       PROVE  heap'[d] # Nil <=> \E k \in 1..N + 1 : r[k] = d
  <2>1. CASE d = e
    <3>1. heap'[e] # Nil
      <4>1. heap'[e] \in ListElement
        <5>1. (IF i = N + 1 THEN Nil ELSE s[i]) \in Elements \cup {Nil}
          BY <1>1, <1>3
        <5> QED
          BY <1>2, <5>1 DEF ListElement
      <4> QED
        BY <4>1, ListAssumption DEF ListElement
    <3> QED
      BY <1>3, <1>4, <2>1, <3>1
  <2>2. CASE d # e
    <3>1. ASSUME heap'[d] # Nil
          PROVE  \E k \in 1..N + 1 : r[k] = d
      <4>1. heap[d] # Nil
        <5>1. CASE i > 1 /\ d = s[i - 1]
          <6>1. i - 1 \in 1..N
            BY <1>1, <1>3, <5>1
          <6> QED
            BY <1>1, <5>1, <6>1
        <5>2. CASE ~(i > 1 /\ d = s[i - 1])
          BY <1>2, <2>2, <3>1, <5>2
        <5> QED
          BY <5>1, <5>2
      <4>2. PICK j \in 1..N : s[j] = d
        BY <1>1, <4>1
      <4>3. j \in 1..N + 1 /\ j + 1 \in 1..N + 1
        BY <1>1
      <4> QED
        BY <1>4, <4>2, <4>3
    <3>2. ASSUME NEW k \in 1..N + 1, r[k] = d
          PROVE  heap'[d] # Nil
      <4>1. from(k) \in 1..N /\ s[from(k)] = d
        BY <1>4, <2>2, <3>2
      <4> QED
        BY <1>8, <4>1
    <3> QED
      BY <3>1, <3>2
  <2> QED
    BY <2>1, <2>2
<1>11. Linked(r, first', last', heap')
  BY <1>1, <1>4, <1>5, <1>6, <1>7, <1>9, <1>10 DEF Linked
<1> DEFINE c == ItemsOf(s, heap)
           m == << item, key >>
<1>12. /\ c \in Seq(Items \X Keys) /\ Len(c) = N
       /\ \A k \in 1..N : c[k] = << heap[s[k]].item, heap[s[k]].key >>
  <2>1. \A k \in 1..N : << heap[s[k]].item, heap[s[k]].key >> \in Items \X Keys
    BY <1>1 DEF ListElement
  <2>2. c = [k \in 1..N |-> << heap[s[k]].item, heap[s[k]].key >>]
    BY DEF ItemsOf, N
  <2>3. N \in Nat
    BY <1>1
  <2> HIDE DEF c, N
  <2> QED
    BY <2>1, <2>2, <2>3
<1>13. ItemsOf(r, heap') = [k \in 1..N + 1 |-> << heap'[r[k]].item, heap'[r[k]].key >>]
  BY <1>4 DEF ItemsOf
<1>14. ASSUME NEW k \in 1..N + 1
       PROVE  << heap'[r[k]].item, heap'[r[k]].key >>
                = IF k < i THEN c[k] ELSE IF k = i THEN m ELSE c[k - 1]
  <2>1. CASE k = i
    BY <1>2, <1>4, <2>1, <1>3
  <2>2. CASE k # i
    <3>1. from(k) \in 1..N /\ r[k] = s[from(k)]
      BY <1>4, <2>2
    <3>2. << heap'[r[k]].item, heap'[r[k]].key >> = c[from(k)]
      BY <1>8, <1>12, <3>1
    <3> QED
      BY <2>2, <3>2
  <2> QED
    BY <2>1, <2>2
<1> HIDE DEF c, m
<1>15. ItemsOf(r, heap') = Inserted(c, i, m)
  <2>1. Inserted(c, i, m)
          = [k \in 1..N + 1 |-> IF k < i THEN c[k] ELSE IF k = i THEN m ELSE c[k - 1]]
    BY <1>12 DEF Inserted
  <2> QED
    BY <1>13, <1>14, <2>1
<1> QED
  BY <1>11, <1>12, <1>15 DEF N, r, c, m

\* Removing the first element leaves the others linked (SortedRemove).
LEMMA LinkedTail ==
    ASSUME NEW s, Linked(s, first, last, heap), heap \in [Elements -> ListElement \cup {Nil}],
           s # << >>,
           first' = IF first = last THEN Nil ELSE heap[first].next,
           last' = IF first = last THEN Nil ELSE last,
           heap' = [heap EXCEPT ![first] = Nil]
    PROVE  /\ Linked(Tail(s), first', last', heap')
           /\ heap' \in [Elements -> ListElement \cup {Nil}]
           /\ ItemsOf(Tail(s), heap') = Tail(ItemsOf(s, heap))
           /\ ItemsOf(s, heap) # << >>
           /\ Head(ItemsOf(s, heap)) = << heap[first].item, heap[first].key >>
           /\ Head(ItemsOf(s, heap)) \in Items \X Keys
<1> DEFINE N == Len(s)
           r == Tail(s)
<1>1. /\ s \in Seq(Elements) /\ N \in Nat /\ N # 0
      /\ \A k \in 1..N : s[k] \in Elements /\ s[k] # Nil /\ heap[s[k]] \in ListElement
                         /\ heap[s[k]] # Nil
      /\ \A j, k \in 1..N : s[j] = s[k] => j = k
      /\ first = s[1]
      /\ last = s[N]
      /\ \A k \in 1..N : heap[s[k]].next = IF k = N THEN Nil ELSE s[k + 1]
      /\ \A d \in Elements : heap[d] # Nil <=> \E k \in 1..N : s[k] = d
  BY LinkedFacts
<1>2. /\ r \in Seq(Elements) /\ Len(r) = N - 1 /\ N - 1 \in Nat
      /\ \A k \in 1..N - 1 : r[k] = s[k + 1]
      /\ (r = << >> <=> N = 1)
  <2>1. s \in Seq(Elements) /\ s # << >> /\ Len(s) \in Nat /\ Len(s) # 0
    BY <1>1
  <2>2. /\ r \in Seq(Elements) /\ Len(r) = Len(s) - 1
        /\ \A k \in 1..Len(s) - 1 : r[k] = s[k + 1]
    BY <2>1
  <2>3. Len(s) - 1 \in Nat
    BY <2>1
  <2>4. \A q \in Seq(Elements) : q = << >> <=> Len(q) = 0
    OBVIOUS
  <2> HIDE DEF r
  <2>5. r = << >> <=> Len(r) = 0
    BY <2>2, <2>4
  <2>6. r = << >> <=> Len(s) = 1
    BY <2>1, <2>2, <2>5
  <2> QED
    BY <2>1, <2>2, <2>3, <2>6 DEF N
<1> HIDE DEF N, r
<1>3. /\ 1 \in 1..N /\ N \in 1..N
      /\ \A k \in 1..N - 1 : k + 1 \in 1..N /\ k + 1 # 1 /\ s[k + 1] # s[1]
      /\ (first = last <=> N = 1)
  <2>1. 1 \in 1..N /\ N \in 1..N /\ \A k \in 1..N - 1 : k + 1 \in 1..N /\ k + 1 # 1
    BY <1>1
  <2> QED
    BY <1>1, <2>1
<1>4. /\ \A d \in Elements : heap'[d] = IF d = s[1] THEN Nil ELSE heap[d]
      /\ heap' \in [Elements -> ListElement \cup {Nil}]
  BY <1>1, <1>3
<1>5. \A j, k \in 1..N - 1 : r[j] = r[k] => j = k
  <2> SUFFICES ASSUME NEW j \in 1..N - 1, NEW k \in 1..N - 1, r[j] = r[k]
               PROVE  j = k
    OBVIOUS
  <2>1. j + 1 = k + 1
    BY <1>1, <1>2, <1>3
  <2> QED
    BY <2>1, <1>1
<1>6. first' = IF r = << >> THEN Nil ELSE r[1]
  <2>1. CASE N = 1
    BY <1>2, <1>3, <2>1
  <2>2. CASE N # 1
    <3>1. 1 \in 1..N - 1
      BY <1>1, <2>2
    <3>2. r[1] = s[2] /\ heap[first].next = s[2]
      BY <1>1, <1>2, <1>3, <2>2, <3>1
    <3> QED
      BY <1>2, <1>3, <2>2, <3>2
  <2> QED
    BY <2>1, <2>2
<1>7. last' = IF r = << >> THEN Nil ELSE r[N - 1]
  <2>1. CASE N = 1
    BY <1>2, <1>3, <2>1
  <2>2. CASE N # 1
    <3>1. N - 1 \in 1..N - 1 /\ (N - 1) + 1 = N
      BY <1>1, <2>2
    <3>2. r[N - 1] = s[N]
      BY <1>2, <3>1
    <3> QED
      BY <1>1, <1>2, <1>3, <2>2, <3>2
  <2> QED
    BY <2>1, <2>2
<1>8. ASSUME NEW k \in 1..N - 1
      PROVE  /\ r[k] = s[k + 1] /\ r[k] \in Elements
             /\ heap'[r[k]] = heap[r[k]]
             /\ heap'[r[k]].next = IF k = N - 1 THEN Nil ELSE r[k + 1]
  <2>1. k + 1 \in 1..N /\ r[k] = s[k + 1] /\ r[k] \in Elements /\ r[k] # s[1]
    BY <1>1, <1>2, <1>3
  <2>2. heap'[r[k]] = heap[r[k]]
    BY <1>4, <2>1
  <2>3. heap[r[k]].next = IF k + 1 = N THEN Nil ELSE s[(k + 1) + 1]
    BY <1>1, <2>1
  <2>4. /\ k + 1 = N <=> k = N - 1
        /\ k # N - 1 => k + 1 \in 1..N - 1
    BY <1>1
  <2> QED
    BY <1>2, <2>1, <2>2, <2>3, <2>4
<1>9. ASSUME NEW d \in Elements
      PROVE  heap'[d] # Nil <=> \E k \in 1..N - 1 : r[k] = d
  <2>1. CASE d = s[1]
    BY <1>3, <1>4, <1>8, <2>1
  <2>2. CASE d # s[1]
    <3>1. ASSUME NEW j \in 1..N, s[j] = d
          PROVE  \E k \in 1..N - 1 : r[k] = d
      <4>1. j - 1 \in 1..N - 1 /\ (j - 1) + 1 = j
        BY <1>1, <2>2, <3>1
      <4> QED
        BY <1>8, <3>1, <4>1
    <3> QED
      BY <1>1, <1>3, <1>4, <1>8, <2>2, <3>1
  <2> QED
    BY <2>1, <2>2
<1>10. Linked(r, first', last', heap')
  BY <1>2, <1>5, <1>6, <1>7, <1>8, <1>9 DEF Linked
<1> DEFINE c == ItemsOf(s, heap)
<1>11. /\ c \in Seq(Items \X Keys) /\ Len(c) = N
       /\ \A k \in 1..N : c[k] = << heap[s[k]].item, heap[s[k]].key >>
  <2>1. \A k \in 1..N : << heap[s[k]].item, heap[s[k]].key >> \in Items \X Keys
    BY <1>1 DEF ListElement
  <2>2. c = [k \in 1..N |-> << heap[s[k]].item, heap[s[k]].key >>]
    BY DEF ItemsOf, N
  <2>3. N \in Nat
    BY <1>1
  <2> HIDE DEF c, N
  <2> QED
    BY <2>1, <2>2, <2>3
<1>12. ItemsOf(r, heap') = [k \in 1..N - 1 |-> << heap'[r[k]].item, heap'[r[k]].key >>]
  BY <1>2 DEF ItemsOf
<1> HIDE DEF c
<1>13. /\ Tail(c) \in Seq(Items \X Keys) /\ Len(Tail(c)) = N - 1
       /\ \A k \in 1..N - 1 : Tail(c)[k] = c[k + 1]
       /\ Head(c) = c[1] /\ c # << >> /\ c[1] \in Items \X Keys
  BY <1>1, <1>11
<1>14. \A k \in 1..N - 1 : << heap'[r[k]].item, heap'[r[k]].key >> = Tail(c)[k]
  <2> SUFFICES ASSUME NEW k \in 1..N - 1
               PROVE  << heap'[r[k]].item, heap'[r[k]].key >> = Tail(c)[k]
    OBVIOUS
  <2>1. Tail(c)[k] = << heap[s[k + 1]].item, heap[s[k + 1]].key >>
    BY <1>3, <1>11, <1>13
  <2> QED
    BY <1>8, <2>1
<1>15. Tail(c) = [k \in 1..N - 1 |-> Tail(c)[k]]
  <2>1. \A q \in Seq(Items \X Keys) : q = [k \in 1..Len(q) |-> q[k]]
    OBVIOUS
  <2> QED
    BY <1>13, <2>1
<1>16. ItemsOf(r, heap') = Tail(c)
  BY <1>12, <1>14, <1>15
<1>17. Head(c) = << heap[first].item, heap[first].key >>
  BY <1>1, <1>3, <1>11, <1>13
<1> QED
  BY <1>4, <1>10, <1>13, <1>16, <1>17 DEF r, c

-----------------------------------------------------------------------------
(* The operations.                                                         *)

ListTypeOK ==
    /\ heap \in [Elements -> ListElement \cup {Nil}]
    /\ first \in Elements \cup {Nil}
    /\ last \in Elements \cup {Nil}
    /\ thing \in (Items \X Keys) \cup {Nil}
    /\ destructor \in {"no", "running", "done"}

\* The elements are linked in some order, and there are none after the destructor.
ListInv ==
    /\ ListTypeOK
    /\ \E s : Linked(s, first, last, heap)
    /\ destructor = "done" => first = Nil

\* The ways to link an element.
LEMMA AloneLinks ==
    ASSUME heap \in [Elements -> ListElement \cup {Nil}],
           NEW s, Linked(s, first, last, heap), s = << >>,
           NEW e \in Elements, Unallocated(e), NEW item \in Items, NEW key \in Keys,
           Alone(e, item, key)
    PROVE  Links(s, 1, e, item, key)
<1>1. Len(s) = 0
  OBVIOUS
<1>2. Made(item, key, Nil) \in ListElement
  BY DEF Made, ListElement
<1>3. \A d \in Elements : heap'[d] = IF d = e THEN Made(item, key, Nil) ELSE heap[d]
  BY DEF Alone
<1>4. heap' \in [Elements -> ListElement \cup {Nil}]
  BY <1>2 DEF Alone
<1> QED
  BY <1>1, <1>3, <1>4 DEF Links, Alone, Unallocated

\* Putting an element before `first` links it at the first place (Prepend).
LEMMA InFrontLinks ==
    ASSUME heap \in [Elements -> ListElement \cup {Nil}],
           NEW s, Linked(s, first, last, heap), s # << >>,
           NEW e \in Elements, Unallocated(e), NEW item \in Items, NEW key \in Keys,
           InFront(e, item, key)
    PROVE  Links(s, 1, e, item, key)
<1>1. Len(s) \in Nat /\ Len(s) # 0 /\ first = s[1] /\ s[1] \in Elements
  BY LinkedFacts
<1>2. Made(item, key, first) \in ListElement
  BY <1>1 DEF Made, ListElement
<1>3. \A d \in Elements : heap'[d] = IF d = e THEN Made(item, key, first) ELSE heap[d]
  BY DEF InFront
<1>4. heap' \in [Elements -> ListElement \cup {Nil}]
  BY <1>2 DEF InFront
<1> QED
  BY <1>1, <1>3, <1>4 DEF Links, InFront, Unallocated

\* After ptr, which is number n, an element is made, and ptr is linked with it.
LEMMA AfterLinks ==
    ASSUME heap \in [Elements -> ListElement \cup {Nil}],
           NEW s, Linked(s, first, last, heap), NEW n \in 1..Len(s),
           NEW e \in Elements, Unallocated(e), NEW item \in Items, NEW key \in Keys,
           heap' = [heap EXCEPT ![s[n]].next = e, ![e] = Made(item, key, heap[s[n]].next)],
           first' = first,
           last' = IF n = Len(s) THEN e ELSE last
    PROVE  Links(s, n + 1, e, item, key)
<1>1. /\ Len(s) \in Nat /\ n \in 1..Len(s)
      /\ s[n] \in Elements /\ heap[s[n]] \in ListElement /\ heap[s[n]] # Nil
      /\ heap[s[n]].next = IF n = Len(s) THEN Nil ELSE s[n + 1]
      /\ \A i \in 1..Len(s) : s[i] \in Elements
  BY LinkedFacts
<1>2. s[n] # e /\ heap[e] = Nil
  BY <1>1 DEF Unallocated
<1>3. heap[s[n]].next \in Elements \cup {Nil}
  BY <1>1 DEF ListElement
<1>4. Made(item, key, heap[s[n]].next) \in ListElement
  BY <1>3 DEF Made, ListElement
<1>5. [heap[s[n]] EXCEPT !.next = e] \in ListElement
  BY <1>1 DEF ListElement
<1>6. \A d \in Elements : heap'[d] = IF d = e THEN Made(item, key, heap[s[n]].next)
                                    ELSE IF d = s[n] THEN [heap[d] EXCEPT !.next = e]
                                    ELSE heap[d]
  BY <1>1, <1>2
<1>7. heap' = [d \in Elements |-> heap'[d]]
  OBVIOUS
<1>8. heap' \in [Elements -> ListElement \cup {Nil}]
  <2>1. \A d \in Elements : heap'[d] \in ListElement \cup {Nil}
    BY <1>4, <1>5, <1>6
  <2> QED
    BY <1>7, <2>1
<1>9. /\ n = Len(s) <=> n + 1 = Len(s) + 1
      /\ (n + 1) - 1 = n /\ n + 1 > 1 /\ n + 1 # 1
  BY <1>1
<1>10. heap'[e] = Made(item, key, IF n + 1 = Len(s) + 1 THEN Nil ELSE s[n + 1])
  BY <1>1, <1>6, <1>9
<1>11. \A d \in Elements \ {e} :
         heap'[d] = IF n + 1 > 1 /\ d = s[(n + 1) - 1] THEN [heap[d] EXCEPT !.next = e]
                    ELSE heap[d]
  BY <1>6, <1>9
<1> QED
  BY <1>2, <1>8, <1>9, <1>10, <1>11 DEF Links

\* Putting an element behind `last` links it at the last place (Append).
LEMMA AtEndLinks ==
    ASSUME heap \in [Elements -> ListElement \cup {Nil}],
           NEW s, Linked(s, first, last, heap), s # << >>,
           NEW e \in Elements, Unallocated(e), NEW item \in Items, NEW key \in Keys,
           AtEnd(e, item, key)
    PROVE  Links(s, Len(s) + 1, e, item, key)
<1>1. /\ Len(s) \in Nat /\ Len(s) # 0 /\ last = s[Len(s)]
      /\ \A i \in 1..Len(s) : heap[s[i]].next = IF i = Len(s) THEN Nil ELSE s[i + 1]
  BY LinkedFacts
<1>2. Len(s) \in 1..Len(s) /\ heap[s[Len(s)]].next = Nil
  BY <1>1
<1>3. /\ heap' = [heap EXCEPT ![s[Len(s)]].next = e,
                              ![e] = Made(item, key, heap[s[Len(s)]].next)]
      /\ first' = first /\ last' = e
  BY <1>1, <1>2 DEF AtEnd
<1> QED
  BY <1>2, <1>3, AfterLinks

\* What the callers see, now and after a step.
LEMMA ContentsIs == \A s : Linked(s, first, last, heap) => Contents = ItemsOf(s, heap)
BY VisitedIs DEF Contents, ItemsOf

\* The same after a step.
LEMMA ContentsBecome ==
    \A s : Linked(s, first', last', heap') => Contents' = ItemsOf(s, heap')
<1>1. (\A s : Linked(s, first, last, heap) => Contents = ItemsOf(s, heap))'
  BY ContentsIs, PTL
<1> QED
  BY <1>1 DEF Linked, ItemsOf

\* An element that is linked leaves the elements linked, and is inserted in what the
\* callers see.
LEMMA LinksFit ==
    ASSUME ListInv, NEW s, Linked(s, first, last, heap),
           NEW i \in 1..Len(s) + 1, NEW e, NEW item \in Items, NEW key \in Keys,
           Links(s, i, e, item, key), thing' = thing, destructor' = destructor,
           destructor = "no"
    PROVE  /\ ListInv'
           /\ Contents = ItemsOf(s, heap)
           /\ Contents \in Seq(Items \X Keys) /\ Len(Contents) = Len(s)
           /\ Contents' = Inserted(Contents, i, << item, key >>)
<1>1. heap \in [Elements -> ListElement \cup {Nil}]
  BY DEF ListInv, ListTypeOK
<1>2. /\ Linked(Inserted(s, i, e), first', last', heap')
      /\ ItemsOf(s, heap) \in Seq(Items \X Keys) /\ Len(ItemsOf(s, heap)) = Len(s)
      /\ ItemsOf(Inserted(s, i, e), heap') = Inserted(ItemsOf(s, heap), i, << item, key >>)
  BY <1>1, LinkedInserted
<1>3. Contents = ItemsOf(s, heap) /\ Contents' = ItemsOf(Inserted(s, i, e), heap')
  BY <1>2, ContentsIs, ContentsBecome
<1>4. (\E r : Linked(r, first, last, heap))'
  <2>1. \E r : Linked(r, first', last', heap')
    BY <1>2
  <2> QED
    BY <2>1 DEF Linked
<1>5. ListTypeOK'
  <2>1. e \in Elements
    BY DEF Links
  <2> QED
    BY <2>1 DEF ListInv, ListTypeOK, Links
<1>6. destructor' # "done"
  OBVIOUS
<1> QED
  BY <1>2, <1>3, <1>4, <1>5, <1>6 DEF ListInv

\* Append puts an item at the back.
LEMMA AppendFits ==
    ASSUME ListInv, destructor = "no", NEW item \in Items, ListAppend(item)
    PROVE  ListInv' /\ ASequence!ToBack(item)
<1>1. heap \in [Elements -> ListElement \cup {Nil}] /\ 0 \in Keys
  BY ListAssumption DEF ListInv, ListTypeOK
<1>2. PICK s : Linked(s, first, last, heap)
  BY DEF ListInv
<1>3. Len(s) \in Nat /\ (s = << >> <=> IsEmpty) /\ (s = << >> <=> Len(s) = 0)
  <2>1. /\ Len(s) \in Nat /\ (s = << >> <=> Len(s) = 0)
        /\ \A i \in 1..Len(s) : s[i] # Nil
        /\ first = IF Len(s) = 0 THEN Nil ELSE s[1]
    BY <1>1, <1>2, LinkedFacts
  <2> QED
    BY <2>1 DEF IsEmpty
<1>4. PICK e \in Elements : /\ Unallocated(e)
                            /\ IF IsEmpty THEN Alone(e, item, 0) ELSE AtEnd(e, item, 0)
                            /\ UNCHANGED << thing, destructor >>
  BY DEF ListAppend
<1>5. Links(s, Len(s) + 1, e, item, 0)
  <2>1. CASE IsEmpty
    <3>1. Links(s, 1, e, item, 0)
      BY <1>1, <1>2, <1>3, <1>4, <2>1, AloneLinks
    <3>2. Len(s) + 1 = 1
      BY <1>3, <2>1
    <3> QED
      BY <3>1, <3>2
  <2>2. CASE ~IsEmpty
    BY <1>1, <1>2, <1>3, <1>4, <2>2, AtEndLinks
  <2> QED
    BY <2>1, <2>2
<1>6. /\ ListInv'
      /\ Contents \in Seq(Items \X Keys) /\ Len(Contents) = Len(s)
      /\ Contents' = Inserted(Contents, Len(s) + 1, << item, 0 >>)
  <2>1. Len(s) + 1 \in 1..Len(s) + 1
    BY <1>3
  <2> QED
    BY <1>1, <1>2, <1>4, <1>5, <2>1, LinksFit
<1>7. Contents' = Append(Contents, << item, 0 >>)
  <2>1. << item, 0 >> \in Items \X Keys
    BY <1>1
  <2> QED
    BY <1>6, <2>1, InsertedAtEnd
<1> QED
  BY <1>6, <1>7 DEF ASequence!ToBack

\* Prepend puts it at the front.
LEMMA PrependFits ==
    ASSUME ListInv, destructor = "no", NEW item \in Items, Prepend(item)
    PROVE  ListInv' /\ ASequence!ToFront(item)
<1>1. heap \in [Elements -> ListElement \cup {Nil}] /\ 0 \in Keys
  BY ListAssumption DEF ListInv, ListTypeOK
<1>2. PICK s : Linked(s, first, last, heap)
  BY DEF ListInv
<1>3. Len(s) \in Nat /\ (s = << >> <=> IsEmpty)
  <2>1. /\ Len(s) \in Nat /\ (s = << >> <=> Len(s) = 0)
        /\ \A i \in 1..Len(s) : s[i] # Nil
        /\ first = IF Len(s) = 0 THEN Nil ELSE s[1]
    BY <1>1, <1>2, LinkedFacts
  <2> QED
    BY <2>1 DEF IsEmpty
<1>4. PICK e \in Elements : /\ Unallocated(e)
                            /\ IF IsEmpty THEN Alone(e, item, 0) ELSE InFront(e, item, 0)
                            /\ UNCHANGED << thing, destructor >>
  BY DEF Prepend
<1>5. Links(s, 1, e, item, 0)
  BY <1>1, <1>2, <1>3, <1>4, AloneLinks, InFrontLinks
<1>6. /\ ListInv'
      /\ Contents \in Seq(Items \X Keys)
      /\ Contents' = Inserted(Contents, 1, << item, 0 >>)
  <2>1. 1 \in 1..Len(s) + 1
    BY <1>3
  <2> QED
    BY <1>1, <1>2, <1>4, <1>5, <2>1, LinksFit
<1>7. Contents' = << << item, 0 >> >> \o Contents
  <2>1. << item, 0 >> \in Items \X Keys
    BY <1>1
  <2> QED
    BY <1>6, <2>1, InsertedInFront
<1> QED
  BY <1>6, <1>7 DEF ASequence!ToFront

\* SortedInsert puts an item before the first one of a larger key.
LEMMA SortedInsertFits ==
    ASSUME ListInv, destructor = "no", NEW item \in Items, NEW key \in Keys,
           ListSortedInsert(item, key)
    PROVE  ListInv' /\ ASequence!InOrder(item, key)
<1>1. heap \in [Elements -> ListElement \cup {Nil}] /\ Keys \subseteq Int
  BY ListAssumption DEF ListInv, ListTypeOK
<1>2. PICK s : Linked(s, first, last, heap)
  BY DEF ListInv
<1> DEFINE N == Len(s)
<1>3. /\ N \in Nat /\ (s = << >> <=> IsEmpty) /\ (IsEmpty <=> N = 0)
      /\ ~IsEmpty => first = s[1]
      /\ \A i \in 1..N : heap[s[i]].key \in Int
  <2>1. /\ Len(s) \in Nat /\ (s = << >> <=> Len(s) = 0)
        /\ \A i \in 1..Len(s) : s[i] # Nil /\ heap[s[i]] \in ListElement
        /\ first = IF Len(s) = 0 THEN Nil ELSE s[1]
    BY <1>1, <1>2, LinkedFacts
  <2>2. \A i \in 1..Len(s) : heap[s[i]].key \in Int
    BY <1>1, <2>1 DEF ListElement
  <2>3. Len(s) # 0 => 1 \in 1..Len(s)
    BY <2>1
  <2> QED
    BY <2>1, <2>2, <2>3 DEF IsEmpty
<1>4. Visited = s
  BY <1>2, VisitedIs
<1> DEFINE stops == {n \in 1..N - 1 : /\ key < heap[s[n + 1]].key
                                      /\ \A k \in 1..n - 1 : key >= heap[s[k + 1]].key}
<1>5. StopsAt(key) = stops
  BY <1>4 DEF StopsAt
<1>6. PICK e \in Elements :
        /\ Unallocated(e)
        /\ IF IsEmpty THEN Alone(e, item, key)
           ELSE IF key < heap[first].key THEN InFront(e, item, key)
           ELSE IF stops = {} THEN AtEnd(e, item, key)
           ELSE LET ptr == s[CHOOSE n \in stops : TRUE] IN
                /\ heap' = [heap EXCEPT ![ptr].next = e,
                                        ![e] = Made(item, key, heap[ptr].next)]
                /\ UNCHANGED << first, last >>
        /\ UNCHANGED << thing, destructor >>
  BY <1>4, <1>5 DEF ListSortedInsert
\* The place: all before it are of no larger key, and the one after it is of one.
<1>7. PICK n \in 0..N :
        /\ Links(s, n + 1, e, item, key)
        /\ \A k \in 1..n : heap[s[k]].key <= key
        /\ n < N => heap[s[n + 1]].key > key
  <2>1. CASE IsEmpty
    <3>1. Links(s, 1, e, item, key)
      BY <1>1, <1>2, <1>3, <1>6, <2>1, AloneLinks
    <3> QED
      BY <1>3, <2>1, <3>1
  <2>2. CASE ~IsEmpty /\ key < heap[first].key
    <3>1. Links(s, 1, e, item, key)
      BY <1>1, <1>2, <1>3, <1>6, <2>2, InFrontLinks
    <3>2. heap[s[0 + 1]].key > key
      <4>1. 1 \in 1..N /\ 0 + 1 = 1
        BY <1>3, <2>2
      <4> QED
        BY <1>1, <1>3, <2>2, <4>1
    <3>3. 0 \in 0..N /\ 1..0 = {}
      BY <1>3
    <3> QED
      BY <3>1, <3>2, <3>3
  <2>3. CASE ~IsEmpty /\ ~(key < heap[first].key) /\ stops = {}
    <3>1. Links(s, N + 1, e, item, key)
      BY <1>1, <1>2, <1>3, <1>6, <2>3, AtEndLinks
    <3>2. \A k \in 1..N : heap[s[k]].key <= key
      <4> DEFINE larger == {n \in 1..N - 1 : key < heap[s[n + 1]].key}
      <4>1. larger = {}
        <5> SUFFICES ASSUME larger # {}
                     PROVE  FALSE
          OBVIOUS
        <5>1. larger \in SUBSET Nat
          OBVIOUS
        <5>2. PICK m \in larger : \A n \in larger : m <= n
          BY <5>1, Least
        <5>3. ASSUME NEW k \in 1..m - 1
              PROVE  key >= heap[s[k + 1]].key
          <6>1. k \in 1..N - 1 /\ ~(m <= k) /\ k + 1 \in 1..N
            BY <1>3
          <6>2. ~(key < heap[s[k + 1]].key)
            BY <5>2, <6>1
          <6> QED
            BY <1>1, <1>3, <6>1, <6>2
        <5> QED
          BY <2>3, <5>2, <5>3
      <4>2. ASSUME NEW k \in 1..N
            PROVE  heap[s[k]].key <= key
        <5>1. CASE k = 1
          BY <1>1, <1>3, <2>3, <5>1
        <5>2. CASE k # 1
          <6>1. k - 1 \in 1..N - 1 /\ (k - 1) + 1 = k
            BY <1>3, <5>2
          <6>2. ~(key < heap[s[k]].key)
            BY <4>1, <6>1
          <6> QED
            BY <1>1, <1>3, <6>2
        <5> QED
          BY <5>1, <5>2
      <4> QED
        BY <4>2
    <3> QED
      BY <1>3, <3>1, <3>2
  <2>4. CASE ~IsEmpty /\ ~(key < heap[first].key) /\ stops # {}
    <3> DEFINE n == CHOOSE n \in stops : TRUE
    <3>1. n \in stops
      BY <2>4
    <3>2. /\ heap' = [heap EXCEPT ![s[n]].next = e, ![e] = Made(item, key, heap[s[n]].next)]
          /\ UNCHANGED << first, last >>
      BY <1>6, <2>4
    <3> HIDE DEF n
    <3>3. /\ n \in 1..N - 1 /\ n \in 1..N /\ n # N /\ n < N /\ n \in 0..N
          /\ key < heap[s[n + 1]].key /\ n + 1 \in 1..N
          /\ \A k \in 1..n - 1 : key >= heap[s[k + 1]].key
      BY <1>3, <3>1
    <3>4. Links(s, n + 1, e, item, key)
      BY <1>1, <1>2, <1>6, <3>2, <3>3, AfterLinks
    <3>5. ASSUME NEW k \in 1..n
          PROVE  heap[s[k]].key <= key
      <4>1. CASE k = 1
        BY <1>1, <1>3, <2>4, <3>3, <4>1
      <4>2. CASE k # 1
        <5>1. k - 1 \in 1..n - 1 /\ (k - 1) + 1 = k /\ k \in 1..N
          BY <1>3, <3>3, <4>2
        <5>2. key >= heap[s[k]].key
          BY <3>3, <5>1
        <5> QED
          BY <1>1, <1>3, <5>1, <5>2
      <4> QED
        BY <4>1, <4>2
    <3>6. heap[s[n + 1]].key > key
      BY <1>1, <1>3, <3>3
    <3> QED
      BY <3>3, <3>4, <3>5, <3>6
  <2> QED
    BY <2>1, <2>2, <2>3, <2>4
<1>8. /\ ListInv'
      /\ Contents = ItemsOf(s, heap)
      /\ Contents \in Seq(Items \X Keys) /\ Len(Contents) = N
      /\ Contents' = Inserted(Contents, n + 1, << item, key >>)
  <2>1. n + 1 \in 1..Len(s) + 1
    BY <1>3
  <2>2. thing' = thing /\ destructor' = destructor
    BY <1>6
  <2>3. Links(s, n + 1, e, item, key)
    BY <1>7
  <2> HIDE DEF stops
  <2> QED
    BY <1>2, <2>1, <2>2, <2>3, LinksFit
<1>9. Contents' = SubSeq(Contents, 1, n) \o << << item, key >> >>
                    \o SubSeq(Contents, n + 1, Len(Contents))
  <2>1. << item, key >> \in Items \X Keys
    OBVIOUS
  <2> QED
    BY <1>8, <2>1, InsertedBetween
<1>10. \A k \in 1..N : Contents[k][2] = heap[s[k]].key
  BY <1>8 DEF ItemsOf
<1>11. \A k \in 1..n : Contents[k][2] <= key
  BY <1>3, <1>7, <1>10
<1>12. n < Len(Contents) => Contents[n + 1][2] > key
  <2>1. n < N => n + 1 \in 1..N
    BY <1>3
  <2> QED
    BY <1>7, <1>8, <1>10, <2>1
<1> QED
  BY <1>8, <1>9, <1>11, <1>12 DEF ASequence!InOrder

\* Remove takes from the front.
LEMMA RemoveFits ==
    ASSUME ListInv, SortedRemove, destructor' \in {"no", "running", "done"},
           destructor' = "done" => IsEmpty
    PROVE  ListInv' /\ ASequence!Take
<1>1. heap \in [Elements -> ListElement \cup {Nil}]
  BY DEF ListInv, ListTypeOK
<1>2. PICK s : Linked(s, first, last, heap)
  BY DEF ListInv
<1>3. Contents = ItemsOf(s, heap)
  BY <1>2, ContentsIs
<1>4. /\ Len(s) \in Nat /\ (s = << >> <=> Len(s) = 0) /\ (s = << >> <=> IsEmpty)
      /\ \A i \in 1..Len(s) : s[i] \in Elements /\ heap[s[i]] \in ListElement
      /\ s # << >> => first = s[1]
      /\ \A i \in 1..Len(s) : heap[s[i]].next \in Elements \cup {Nil}
  <2>1. /\ Len(s) \in Nat /\ (s = << >> <=> Len(s) = 0)
        /\ \A i \in 1..Len(s) : s[i] \in Elements /\ s[i] # Nil /\ heap[s[i]] \in ListElement
        /\ first = IF Len(s) = 0 THEN Nil ELSE s[1]
    BY <1>1, <1>2, LinkedFacts
  <2>2. \A i \in 1..Len(s) : heap[s[i]].next \in Elements \cup {Nil}
    BY <2>1 DEF ListElement
  <2>3. Len(s) # 0 => 1 \in 1..Len(s)
    BY <2>1
  <2> QED
    BY <2>1, <2>2, <2>3 DEF IsEmpty
<1>5. CASE IsEmpty
  <2>1. thing' = Nil /\ UNCHANGED << heap, first, last >>
    BY <1>5 DEF SortedRemove
  <2>2. Linked(s, first', last', heap')
    BY <1>2, <2>1
  <2>3. Contents' = ItemsOf(s, heap')
    BY <2>2, ContentsBecome
  <2>4. Contents = << >> /\ Contents' = Contents
    BY <1>3, <1>4, <1>5, <2>1, <2>3 DEF ItemsOf
  <2>5. ListTypeOK'
    BY <2>1 DEF ListInv, ListTypeOK
  <2>6. (\E r : Linked(r, first, last, heap))' /\ (destructor' = "done" => first' = Nil)
    BY <1>5, <2>1, <2>2 DEF Linked, IsEmpty
  <2> QED
    BY <2>1, <2>4, <2>5, <2>6 DEF ListInv, ASequence!Take
<1>6. CASE ~IsEmpty
  <2>1. /\ thing' = << heap[first].item, heap[first].key >>
        /\ first' = IF first = last THEN Nil ELSE heap[first].next
        /\ last' = IF first = last THEN Nil ELSE last
        /\ heap' = [heap EXCEPT ![first] = Nil]
    BY <1>6 DEF SortedRemove
  <2>2. s # << >>
    BY <1>4, <1>6
  <2>3. /\ Linked(Tail(s), first', last', heap')
        /\ heap' \in [Elements -> ListElement \cup {Nil}]
        /\ ItemsOf(Tail(s), heap') = Tail(ItemsOf(s, heap))
        /\ ItemsOf(s, heap) # << >>
        /\ Head(ItemsOf(s, heap)) = << heap[first].item, heap[first].key >>
        /\ Head(ItemsOf(s, heap)) \in Items \X Keys
    BY <1>1, <1>2, <2>1, <2>2, LinkedTail
  <2>4. Contents' = ItemsOf(Tail(s), heap')
    BY <2>3, ContentsBecome
  <2>5. ListTypeOK'
    <3>1. first \in Elements /\ heap[first].next \in Elements \cup {Nil} /\ last \in Elements \cup {Nil}
      BY <1>4, <2>2 DEF ListInv, ListTypeOK
    <3> QED
      BY <2>1, <2>3, <3>1 DEF ListTypeOK
  <2>6. (\E r : Linked(r, first, last, heap))' /\ destructor' # "done"
    BY <1>6, <2>3 DEF Linked
  <2> QED
    BY <1>3, <2>1, <2>3, <2>4, <2>5, <2>6 DEF ListInv, ASequence!Take
<1> QED
  BY <1>5, <1>6

-----------------------------------------------------------------------------
(* Theorems.                                                               *)

\* A new list is empty.
LEMMA NoElements == ListInit => ListInv /\ ASequence!AInit
<1> SUFFICES ASSUME ListInit
             PROVE  ListInv /\ ASequence!AInit
  OBVIOUS
<1>1. ListTypeOK
  BY DEF ListInit, ListTypeOK
<1>2. Linked(<< >>, first, last, heap)
  BY DEF Linked, ListInit
<1>3. Contents = ItemsOf(<< >>, heap)
  BY <1>2, ContentsIs
<1>4. Contents = << >>
  BY <1>3 DEF ItemsOf
<1>5. destructor # "done" /\ thing = Nil
  BY DEF ListInit
<1> QED
  BY <1>1, <1>2, <1>4, <1>5 DEF ListInv, ASequence!AInit

\* Every operation keeps the invariant and is the operation on the sequence.
LEMMA ListSteps ==
    ListInv /\ [ListNext]_listVars => ListInv' /\ [ASequence!ANext]_(ASequence!alistvars)
<1> SUFFICES ASSUME ListInv, [ListNext]_listVars
             PROVE  ListInv' /\ (ASequence!ANext \/ UNCHANGED << Contents, thing >>)
  BY DEF ASequence!alistvars
<1>1. ASSUME destructor = "no", NEW item \in Items, ListAppend(item)
      PROVE  ListInv' /\ ASequence!ANext
  <2>1. ListInv' /\ ASequence!ToBack(item)
    BY <1>1, AppendFits
  <2>2. thing' = thing
    BY <1>1 DEF ListAppend
  <2> QED
    BY <2>1, <2>2 DEF ASequence!ANext
<1>2. ASSUME destructor = "no", NEW item \in Items, Prepend(item)
      PROVE  ListInv' /\ ASequence!ANext
  <2>1. ListInv' /\ ASequence!ToFront(item)
    BY <1>2, PrependFits
  <2>2. thing' = thing
    BY <1>2 DEF Prepend
  <2> QED
    BY <2>1, <2>2 DEF ASequence!ANext
<1>3. ASSUME destructor = "no", NEW item \in Items, NEW key \in Keys,
             ListSortedInsert(item, key)
      PROVE  ListInv' /\ ASequence!ANext
  <2>1. ListInv' /\ ASequence!InOrder(item, key)
    BY <1>3, SortedInsertFits
  <2>2. thing' = thing
    BY <1>3 DEF ListSortedInsert
  <2> QED
    BY <2>1, <2>2 DEF ASequence!ANext
<1>4. ASSUME destructor = "no", SortedRemove, UNCHANGED destructor
      PROVE  ListInv' /\ ASequence!ANext
  <2>1. ListInv' /\ ASequence!Take
    BY <1>4, RemoveFits
  <2> QED
    BY <2>1 DEF ASequence!ANext
<1>5. ASSUME DestroyList
      PROVE  ListInv' /\ ASequence!ANext
  <2>1. /\ SortedRemove
        /\ destructor' = IF IsEmpty THEN "done" ELSE "running"
    BY <1>5 DEF DestroyList
  <2>2. ListInv' /\ ASequence!Take
    BY <2>1, RemoveFits
  <2> QED
    BY <2>2 DEF ASequence!ANext
<1>6. ASSUME UNCHANGED listVars
      PROVE  ListInv' /\ UNCHANGED << Contents, thing >>
  <2>1. UNCHANGED << heap, first, last, thing, destructor >>
    BY <1>6 DEF listVars
  <2>2. PICK s : Linked(s, first, last, heap)
    BY DEF ListInv
  <2>3. Linked(s, first', last', heap')
    BY <2>1, <2>2
  <2>4. Contents = ItemsOf(s, heap) /\ Contents' = ItemsOf(s, heap')
    BY <2>2, <2>3, ContentsIs, ContentsBecome
  <2>5. (\E r : Linked(r, first, last, heap))'
    BY <2>3 DEF Linked
  <2>6. ListTypeOK'
    BY <2>1 DEF ListInv, ListTypeOK
  <2> QED
    BY <2>1, <2>4, <2>5, <2>6 DEF ListInv
<1> QED
  BY <1>1, <1>2, <1>3, <1>4, <1>5, <1>6 DEF ListNext

\* The heap, the two pointers and what was removed are always of their types, and the
\* elements are linked in some order (list.cc:55-246).
THEOREM ListInvariant == ListSpec => []ListInv
<1>1. ListInit => ListInv
  BY NoElements
<1>2. ListInv /\ [ListNext]_listVars => ListInv'
  BY ListSteps
<1> QED
  BY <1>1, <1>2, PTL DEF ListSpec

\* The chain from first ends at last, and has every element that is allocated once;
\* after the destructor there is none (list.cc:35-51, 55-246).
THEOREM ListStaysWellFormed == ListSpec => []ListWellFormed
<1>1. ListInv => ListWellFormed
  <2> SUFFICES ASSUME ListInv
               PROVE  ListWellFormed
    OBVIOUS
  <2> DEFINE allocated == {e \in Elements : heap[e] # Nil}
  <2>1. heap \in [Elements -> ListElement \cup {Nil}] /\ (destructor = "done" => first = Nil)
    BY DEF ListInv, ListTypeOK
  <2>2. PICK s : Linked(s, first, last, heap)
    BY DEF ListInv
  <2>3. /\ s \in Seq(Elements) /\ Len(s) \in Nat /\ (s = << >> <=> Len(s) = 0)
        /\ \A i \in 1..Len(s) : s[i] \in Elements /\ s[i] # Nil
        /\ \A i, j \in 1..Len(s) : s[i] = s[j] => i = j
        /\ first = IF Len(s) = 0 THEN Nil ELSE s[1]
        /\ last = IF Len(s) = 0 THEN Nil ELSE s[Len(s)]
        /\ \A e \in Elements : heap[e] # Nil <=> \E i \in 1..Len(s) : s[i] = e
    BY <2>1, <2>2, LinkedFacts
  <2>4. Visited = s
    BY <2>2, VisitedIs
  <2>5. DOMAIN s = 1..Len(s)
    BY <2>3
  <2>6. allocated = Range(s)
    BY <2>3, <2>5 DEF Range
  <2>7. IsInjective(s)
    BY <2>3, <2>5 DEF IsInjective
  <2>8. IsEmpty <=> Len(s) = 0
    <3>1. Len(s) # 0 => 1 \in 1..Len(s)
      BY <2>3
    <3> QED
      BY <2>3, <3>1 DEF IsEmpty
  <2>9. destructor = "done" => allocated = {}
    <3>1. destructor = "done" => Len(s) = 0
      BY <2>1, <2>8 DEF IsEmpty
    <3>2. Len(s) = 0 => 1..Len(s) = {}
      OBVIOUS
    <3> QED
      BY <2>3, <3>1, <3>2
  <2>10. last = IF IsEmpty THEN Nil ELSE s[Len(s)]
    BY <2>3, <2>8
  <2> QED
    BY <2>4, <2>6, <2>7, <2>9, <2>10 DEF ListWellFormed
<1> QED
  BY <1>1, ListInvariant, PTL

\* The list is the sequence that its callers work with: each operation changes it as
\* that sequence promises (list.h:43-65).
THEOREM ListIsSequence == ListSpec => ImplementsList
<1>1. ListInit => ASequence!AInit
  BY NoElements
<1>2. ListInv /\ [ListNext]_listVars => [ASequence!ANext]_(ASequence!alistvars)
  BY ListSteps
<1> QED
  BY <1>1, <1>2, ListInvariant, PTL DEF ListSpec, ImplementsList, ASequence!AListSpec

-----------------------------------------------------------------------------
(* The echo servers: what their operators on sequences do.                 *)

\* A sequence that is read in two parts.
LEMMA Parts ==
    ASSUME NEW S, NEW s \in Seq(S), NEW n \in 0..Len(s)
    PROVE  /\ SubSeq(s, 1, n) \in Seq(S) /\ SubSeq(s, n + 1, Len(s)) \in Seq(S)
           /\ SubSeq(s, 1, n) \o SubSeq(s, n + 1, Len(s)) = s
<1>1. 1 \in 1..Len(s) + 1 /\ n \in 1 - 1..Len(s) /\ Len(s) \in n..Len(s)
  OBVIOUS
<1>2. SubSeq(s, 1, n) \o SubSeq(s, n + 1, Len(s)) = SubSeq(s, 1, Len(s))
  BY <1>1, ConcatAdjacentSubSeq
<1>3. SubSeq(s, 1, Len(s)) = s
  BY SubSeqFull
<1>4. SubSeq(s, 1, n) \in Seq(S) /\ SubSeq(s, n + 1, Len(s)) \in Seq(S)
  OBVIOUS
<1> QED
  BY <1>2, <1>3, <1>4

\* The same behind another sequence.
LEMMA PartsAfter ==
    ASSUME NEW S, NEW r \in Seq(S), NEW s \in Seq(S), NEW n \in 0..Len(s)
    PROVE  (r \o SubSeq(s, 1, n)) \o SubSeq(s, n + 1, Len(s)) = r \o s
<1>1. /\ SubSeq(s, 1, n) \in Seq(S) /\ SubSeq(s, n + 1, Len(s)) \in Seq(S)
      /\ SubSeq(s, 1, n) \o SubSeq(s, n + 1, Len(s)) = s
  BY Parts
<1>2. ASSUME NEW a \in Seq(S), NEW b \in Seq(S), a \o b = s
      PROVE  (r \o a) \o b = r \o s
  <2>1. (r \o a) \o b = r \o (a \o b)
    BY ConcatAssociative, SMTT(30)
  <2> QED
    BY <1>2, <2>1
<1> QED
  BY <1>1, <1>2

\* F has the first n of ss, one after the other.
FlatOf(F, ss, n) == F = [i \in 1..n |-> IF i = 1 THEN ss[i] ELSE F[i - 1] \o ss[i]]

\* Such a function exists for every n: there is no least n without.
LEMMA FlatExists ==
    ASSUME NEW S, NEW ss \in Seq(Seq(S))
    PROVE  \A n \in 0..Len(ss) : \E F : FlatOf(F, ss, n)
<1> DEFINE bad == {n \in 0..Len(ss) : ~ \E F : FlatOf(F, ss, n)}
<1> SUFFICES ASSUME bad # {}
             PROVE  FALSE
  OBVIOUS
<1>1. bad \in SUBSET Nat
  OBVIOUS
<1>2. PICK m \in bad : \A n \in bad : m <= n
  BY <1>1, Least
<1>3. CASE m = 0
  <2> DEFINE F == [i \in 1..0 |-> IF i = 1 THEN ss[i] ELSE << >>]
  <2>1. F = [i \in 1..0 |-> IF i = 1 THEN ss[i] ELSE F[i - 1] \o ss[i]]
    OBVIOUS
  <2> QED
    BY <1>2, <1>3, <2>1 DEF FlatOf
<1>4. CASE m # 0
  <2>1. m \in 0..Len(ss) /\ m - 1 \in 0..Len(ss) /\ ~(m <= m - 1)
    BY <1>4
  <2>2. PICK G : FlatOf(G, ss, m - 1)
    BY <1>2, <2>1
  <2> DEFINE F == [i \in 1..m |-> IF i # m THEN G[i]
                                 ELSE IF i = 1 THEN ss[i] ELSE G[i - 1] \o ss[i]]
  <2>3. ASSUME NEW i \in 1..m
        PROVE  F[i] = IF i = 1 THEN ss[i] ELSE F[i - 1] \o ss[i]
    <3>1. CASE i = m
      <4>1. F[i] = IF i = 1 THEN ss[i] ELSE G[i - 1] \o ss[i]
        BY <3>1
      <4>2. i # 1 => i - 1 \in 1..m /\ i - 1 # m
        BY <2>1
      <4>3. i # 1 => F[i - 1] = G[i - 1]
        BY <4>2
      <4> QED
        BY <4>1, <4>3
    <3>2. CASE i # m
      <4>1. i \in 1..m - 1 /\ (i # 1 => i - 1 \in 1..m - 1 /\ i - 1 \in 1..m /\ i - 1 # m)
        BY <2>1, <3>2
      <4>2. F[i] = G[i] /\ (i # 1 => F[i - 1] = G[i - 1])
        BY <3>2, <4>1
      <4> HIDE DEF F
      <4>3. G = [j \in 1..m - 1 |-> IF j = 1 THEN ss[j] ELSE G[j - 1] \o ss[j]]
        BY <2>2 DEF FlatOf
      <4>4. G[i] = IF i = 1 THEN ss[i] ELSE G[i - 1] \o ss[i]
        BY <4>1, <4>3
      <4> QED
        BY <4>2, <4>4
    <3> QED
      BY <3>1, <3>2
  <2>4. F = [i \in 1..m |-> F[i]]
    OBVIOUS
  <2> HIDE DEF F
  <2>5. F = [i \in 1..m |-> IF i = 1 THEN ss[i] ELSE F[i - 1] \o ss[i]]
    BY <2>3, <2>4
  <2> QED
    BY <1>2, <2>5 DEF FlatOf
<1> QED
  BY <1>3, <1>4

\* Two such functions agree as far as the sequences do.
LEMMA FlatAgrees ==
    ASSUME NEW S, NEW ss \in Seq(Seq(S)), NEW tt, NEW n \in 0..Len(ss), NEW m \in Nat, n <= m,
           \A i \in 1..n : ss[i] = tt[i],
           NEW F, FlatOf(F, ss, n), NEW G, FlatOf(G, tt, m)
    PROVE  \A i \in 1..n : F[i] = G[i] /\ F[i] \in Seq(S)
<1> DEFINE bad == {i \in 1..n : ~(F[i] = G[i] /\ F[i] \in Seq(S))}
<1> SUFFICES ASSUME bad # {}
             PROVE  FALSE
  OBVIOUS
<1>1. bad \in SUBSET Nat
  OBVIOUS
<1>2. PICK k \in bad : \A i \in bad : k <= i
  BY <1>1, Least
<1>3. /\ k \in 1..n /\ k \in 1..m /\ ss[k] = tt[k] /\ ss[k] \in Seq(S)
      /\ k # 1 => k - 1 \in 1..n /\ ~(k <= k - 1)
  OBVIOUS
<1>4. F[k] = IF k = 1 THEN ss[k] ELSE F[k - 1] \o ss[k]
  <2>1. F = [i \in 1..n |-> IF i = 1 THEN ss[i] ELSE F[i - 1] \o ss[i]]
    BY DEF FlatOf
  <2> QED
    BY <1>3, <2>1
<1>5. G[k] = IF k = 1 THEN tt[k] ELSE G[k - 1] \o tt[k]
  <2>1. G = [i \in 1..m |-> IF i = 1 THEN tt[i] ELSE G[i - 1] \o tt[i]]
    BY DEF FlatOf
  <2> QED
    BY <1>3, <2>1
<1>6. k # 1 => F[k - 1] = G[k - 1] /\ F[k - 1] \in Seq(S)
  BY <1>2, <1>3
<1>7. F[k] = G[k] /\ F[k] \in Seq(S)
  <2>1. CASE k = 1
    BY <1>3, <1>4, <1>5, <2>1
  <2>2. CASE k # 1
    <3>1. F[k - 1] \o ss[k] \in Seq(S)
      BY <1>3, <1>6, <2>2, ConcatProperties
    <3> QED
      BY <1>3, <1>4, <1>5, <1>6, <2>2, <3>1
  <2> QED
    BY <2>1, <2>2
<1> QED
  BY <1>2, <1>7

\* What FlattenSeq gives: nothing for nothing, and one more line at the end.
LEMMA FlattenIs ==
    ASSUME NEW S, NEW ss \in Seq(Seq(S)), Len(ss) # 0
    PROVE  \E F : FlatOf(F, ss, Len(ss)) /\ FlattenSeq(ss) = F[Len(ss)]
<1> DEFINE F == CHOOSE F : FlatOf(F, ss, Len(ss))
<1>1. Len(ss) \in 0..Len(ss)
  OBVIOUS
<1>2. FlatOf(F, ss, Len(ss))
  BY <1>1, FlatExists
<1>3. FlattenSeq(ss) = F[Len(ss)]
  BY DEF FlattenSeq, FlatOf
<1> QED
  BY <1>2, <1>3

\* One more sequence adds its elements at the end.
LEMMA FlattenGrows ==
    ASSUME NEW S, NEW ss \in Seq(Seq(S)), NEW n \in Nat, n < Len(ss)
    PROVE  /\ FlattenSeq(SubSeq(ss, 1, 0)) = << >>
           /\ FlattenSeq(SubSeq(ss, 1, n)) \in Seq(S)
           /\ FlattenSeq(SubSeq(ss, 1, n + 1)) = FlattenSeq(SubSeq(ss, 1, n)) \o ss[n + 1]
<1> DEFINE a == SubSeq(ss, 1, n)
           b == SubSeq(ss, 1, n + 1)
<1>1. a \in Seq(Seq(S)) /\ Len(a) = n /\ \A k \in 1..n : a[k] = ss[k]
  OBVIOUS
<1>2. b \in Seq(Seq(S)) /\ Len(b) = n + 1 /\ \A k \in 1..n + 1 : b[k] = ss[k]
  OBVIOUS
<1>3. ss[n + 1] \in Seq(S) /\ n + 1 \in 1..n + 1
  <2>1. n + 1 \in 1..Len(ss) /\ n + 1 \in 1..n + 1
    BY LenProperties
  <2> QED
    BY <2>1, ElementOfSeq
<1>4. SubSeq(ss, 1, 0) = << >> /\ FlattenSeq(<< >>) = << >>
  BY DEF FlattenSeq
<1> HIDE DEF a, b
<1>5. PICK G : FlatOf(G, b, n + 1) /\ FlattenSeq(b) = G[n + 1]
  <2>1. Len(b) = n + 1 /\ Len(b) # 0 /\ b \in Seq(Seq(S))
    BY <1>2
  <2> QED
    BY <2>1, FlattenIs
<1>6. G[n + 1] = IF n + 1 = 1 THEN b[n + 1] ELSE G[n] \o b[n + 1]
  <2>1. G = [i \in 1..n + 1 |-> IF i = 1 THEN b[i] ELSE G[i - 1] \o b[i]]
    BY <1>5 DEF FlatOf
  <2>2. (n + 1) - 1 = n
    OBVIOUS
  <2> QED
    BY <1>3, <2>1, <2>2
<1>7. FlattenSeq(a) \in Seq(S) /\ FlattenSeq(b) = FlattenSeq(a) \o ss[n + 1]
  <2>1. CASE n = 0
    <3>1. a = << >> /\ << >> \in Seq(S)
      BY <1>1, <2>1
    <3>2. FlattenSeq(b) = ss[n + 1]
      BY <1>2, <1>3, <1>5, <1>6, <2>1
    <3>3. << >> \o ss[n + 1] = ss[n + 1]
      BY <1>3, ConcatEmptySeq
    <3> QED
      BY <1>4, <3>1, <3>2, <3>3
  <2>2. CASE n # 0
    <3>1. PICK F : FlatOf(F, a, n) /\ FlattenSeq(a) = F[n]
      <4>1. a \in Seq(Seq(S)) /\ Len(a) = n /\ Len(a) # 0
        BY <1>1, <2>2
      <4>2. \E F : FlatOf(F, a, Len(a)) /\ FlattenSeq(a) = F[Len(a)]
        BY <4>1, FlattenIs
      <4> QED
        BY <4>1, <4>2
    <3>2. n \in 0..Len(a) /\ n + 1 \in Nat /\ n <= n + 1 /\ \A k \in 1..n : a[k] = b[k]
      <4>1. \A k \in 1..n : k \in 1..n + 1
        OBVIOUS
      <4>2. \A k \in 1..n : a[k] = b[k]
        BY <1>1, <1>2, <4>1
      <4> QED
        BY <1>1, <4>2
    <3>3. \A k \in 1..n : F[k] = G[k] /\ F[k] \in Seq(S)
      BY <1>1, <1>5, <3>1, <3>2, FlatAgrees
    <3>4. F[n] = G[n] /\ F[n] \in Seq(S)
      BY <2>2, <3>3
    <3>5. n + 1 # 1 /\ b[n + 1] = ss[n + 1]
      BY <1>2, <1>3, <2>2
    <3> QED
      BY <1>5, <1>6, <3>1, <3>4, <3>5
  <2> QED
    BY <2>1, <2>2
<1> QED
  BY <1>4, <1>7 DEF a, b

\* F has what is left of the first n of s without junk.
CleanOf(F, s, n) ==
    F = [i \in 0..n |-> IF i = 0 THEN << >>
                        ELSE IF s[i] = Junk THEN F[i - 1] ELSE Append(F[i - 1], s[i])]

\* Such a function exists for every n: there is no least n without.
LEMMA CleanExists ==
    ASSUME NEW S, NEW s \in Seq(S)
    PROVE  \A n \in 0..Len(s) : \E F : CleanOf(F, s, n)
<1> DEFINE bad == {n \in 0..Len(s) : ~ \E F : CleanOf(F, s, n)}
<1> SUFFICES ASSUME bad # {}
             PROVE  FALSE
  OBVIOUS
<1>1. bad \in SUBSET Nat
  OBVIOUS
<1>2. PICK m \in bad : \A n \in bad : m <= n
  BY <1>1, Least
<1>3. CASE m = 0
  <2> DEFINE F == [i \in 0..0 |-> << >>]
  <2>1. F = [i \in 0..0 |-> IF i = 0 THEN << >>
                            ELSE IF s[i] = Junk THEN F[i - 1] ELSE Append(F[i - 1], s[i])]
    OBVIOUS
  <2> QED
    BY <1>2, <1>3, <2>1 DEF CleanOf
<1>4. CASE m # 0
  <2>1. m \in 0..Len(s) /\ m - 1 \in 0..Len(s) /\ ~(m <= m - 1) /\ m # 0
    BY <1>4
  <2>2. PICK G : CleanOf(G, s, m - 1)
    BY <1>2, <2>1
  <2> DEFINE one(H, i) == IF s[i] = Junk THEN H[i - 1] ELSE Append(H[i - 1], s[i])
             F == [i \in 0..m |-> IF i # m THEN G[i] ELSE one(G, i)]
  <2>3. ASSUME NEW i \in 0..m
        PROVE  F[i] = IF i = 0 THEN << >> ELSE one(F, i)
    <3>1. CASE i = m
      <4>1. F[i] = one(G, i) /\ i # 0
        BY <2>1, <3>1
      <4>2. i - 1 \in 0..m /\ i - 1 # m
        BY <2>1, <3>1
      <4>3. F[i - 1] = G[i - 1]
        BY <4>2
      <4> QED
        BY <4>1, <4>3
    <3>2. CASE i # m
      <4>1. i \in 0..m - 1 /\ (i # 0 => i - 1 \in 0..m /\ i - 1 # m)
        BY <2>1, <3>2
      <4>2. F[i] = G[i] /\ (i # 0 => F[i - 1] = G[i - 1])
        BY <3>2, <4>1
      <4> HIDE DEF F
      <4>3. G = [j \in 0..m - 1 |-> IF j = 0 THEN << >> ELSE one(G, j)]
        BY <2>2 DEF CleanOf
      <4>4. G[i] = IF i = 0 THEN << >> ELSE one(G, i)
        BY <4>1, <4>3
      <4> QED
        BY <4>2, <4>4
    <3> QED
      BY <3>1, <3>2
  <2>4. F = [i \in 0..m |-> F[i]]
    OBVIOUS
  <2> HIDE DEF F
  <2>5. F = [i \in 0..m |-> IF i = 0 THEN << >> ELSE one(F, i)]
    BY <2>3, <2>4
  <2> QED
    BY <1>2, <2>5 DEF CleanOf
<1> QED
  BY <1>3, <1>4

\* Sequences that begin alike are cleaned alike, as far as they do.
LEMMA CleanAgrees ==
    ASSUME NEW S, NEW s \in Seq(S), NEW t, NEW n \in 0..Len(s), NEW m \in Nat, n <= m,
           \A i \in 1..n : s[i] = t[i],
           NEW F, CleanOf(F, s, n), NEW G, CleanOf(G, t, m)
    PROVE  \A i \in 0..n : F[i] = G[i] /\ F[i] \in Seq(S)
<1> DEFINE bad == {i \in 0..n : ~(F[i] = G[i] /\ F[i] \in Seq(S))}
<1> SUFFICES ASSUME bad # {}
             PROVE  FALSE
  OBVIOUS
<1>1. bad \in SUBSET Nat
  OBVIOUS
<1>2. PICK k \in bad : \A i \in bad : k <= i
  BY <1>1, Least
<1>3. /\ k \in 0..n /\ k \in 0..m
      /\ k # 0 => k - 1 \in 0..n /\ ~(k <= k - 1) /\ s[k] = t[k] /\ s[k] \in S
  OBVIOUS
<1>4. F[k] = IF k = 0 THEN << >> ELSE IF s[k] = Junk THEN F[k - 1] ELSE Append(F[k - 1], s[k])
  <2>1. F = [i \in 0..n |-> IF i = 0 THEN << >>
                            ELSE IF s[i] = Junk THEN F[i - 1] ELSE Append(F[i - 1], s[i])]
    BY DEF CleanOf
  <2> QED
    BY <1>3, <2>1
<1>5. G[k] = IF k = 0 THEN << >> ELSE IF t[k] = Junk THEN G[k - 1] ELSE Append(G[k - 1], t[k])
  <2>1. G = [i \in 0..m |-> IF i = 0 THEN << >>
                            ELSE IF t[i] = Junk THEN G[i - 1] ELSE Append(G[i - 1], t[i])]
    BY DEF CleanOf
  <2> QED
    BY <1>3, <2>1
<1>6. k # 0 => F[k - 1] = G[k - 1] /\ F[k - 1] \in Seq(S)
  BY <1>2, <1>3
<1>7. F[k] = G[k] /\ F[k] \in Seq(S)
  <2>1. CASE k = 0
    BY <1>4, <1>5, <2>1
  <2>2. CASE k # 0
    <3>1. Append(F[k - 1], s[k]) \in Seq(S)
      BY <1>3, <1>6, <2>2, AppendProperties
    <3> QED
      BY <1>3, <1>4, <1>5, <1>6, <2>2, <3>1
  <2> QED
    BY <2>1, <2>2
<1> QED
  BY <1>2, <1>7

\* WithoutJunk is the last value of such a function.
LEMMA WithoutJunkIs ==
    ASSUME NEW S, NEW s \in Seq(S)
    PROVE  \E F : CleanOf(F, s, Len(s)) /\ WithoutJunk(s) = F[Len(s)]
<1> DEFINE F == CHOOSE F : CleanOf(F, s, Len(s))
<1>1. Len(s) \in 0..Len(s)
  OBVIOUS
<1>2. CleanOf(F, s, Len(s))
  BY <1>1, CleanExists
<1>3. WithoutJunk(s) = F[Len(s)]
  BY DEF WithoutJunk, CleanOf
<1> QED
  BY <1>2, <1>3

\* Junk does not count, and all else does.
LEMMA WithoutJunkGrows ==
    ASSUME NEW S, NEW s \in Seq(S), NEW x \in S
    PROVE  /\ WithoutJunk(<< >>) = << >>
           /\ WithoutJunk(s) \in Seq(S)
           /\ WithoutJunk(Append(s, x))
                = IF x = Junk THEN WithoutJunk(s) ELSE Append(WithoutJunk(s), x)
<1> DEFINE n == Len(s)
           t == Append(s, x)
<1>1. n \in Nat /\ n \in 0..n
  OBVIOUS
<1>2. t \in Seq(S) /\ Len(t) = n + 1 /\ (\A i \in 1..n : s[i] = t[i]) /\ t[n + 1] = x
  BY AppendProperties
<1>3. PICK F : CleanOf(F, s, n) /\ WithoutJunk(s) = F[n]
  BY WithoutJunkIs
<1> HIDE DEF t
<1>4. PICK G : CleanOf(G, t, n + 1) /\ WithoutJunk(t) = G[n + 1]
  <2>1. \E G : CleanOf(G, t, Len(t)) /\ WithoutJunk(t) = G[Len(t)]
    BY <1>2, WithoutJunkIs
  <2> QED
    BY <1>2, <2>1
<1> HIDE DEF n
<1>5. F[n] = G[n] /\ F[n] \in Seq(S)
  <2>1. n + 1 \in Nat /\ n <= n + 1 /\ n \in 0..Len(s)
    BY <1>1 DEF n
  <2>2. \A i \in 0..n : F[i] = G[i] /\ F[i] \in Seq(S)
    BY <1>2, <1>3, <1>4, <2>1, CleanAgrees
  <2> QED
    BY <1>1, <2>2
<1>6. G[n + 1] = IF t[n + 1] = Junk THEN G[n] ELSE Append(G[n], t[n + 1])
  <2>1. G = [i \in 0..n + 1 |-> IF i = 0 THEN << >>
                                ELSE IF t[i] = Junk THEN G[i - 1] ELSE Append(G[i - 1], t[i])]
    BY <1>4 DEF CleanOf
  <2>2. n + 1 \in 0..n + 1 /\ n + 1 # 0 /\ (n + 1) - 1 = n
    BY <1>1
  <2> QED
    BY <2>1, <2>2
<1>7. WithoutJunk(<< >>) = << >>
  <2>1. << >> \in Seq(S) /\ Len(<< >>) = 0
    OBVIOUS
  <2>2. PICK H : CleanOf(H, << >>, 0) /\ WithoutJunk(<< >>) = H[0]
    BY <2>1, WithoutJunkIs
  <2>3. H = [i \in 0..0 |-> IF i = 0 THEN << >>
                            ELSE IF << >>[i] = Junk THEN H[i - 1] ELSE Append(H[i - 1], << >>[i])]
    BY <2>2 DEF CleanOf
  <2>4. H[0] = << >>
    BY <2>3
  <2> QED
    BY <2>2, <2>4
<1> QED
  BY <1>2, <1>3, <1>4, <1>5, <1>6, <1>7 DEF t

\* What is sent of a message is added as it is.
LEMMA WithoutJunkOfMessage ==
    ASSUME NEW S, NEW s \in Seq(S), NEW t \in Seq(S), \A i \in 1..Len(t) : t[i] # Junk
    PROVE  WithoutJunk(s \o t) = WithoutJunk(s) \o t
<1> DEFINE a(n) == SubSeq(t, 1, n)
           bad == {n \in 0..Len(t) : WithoutJunk(s \o a(n)) # WithoutJunk(s) \o a(n)}
<1>1. bad \in SUBSET Nat
  OBVIOUS
<1>2. WithoutJunk(s) \in Seq(S) \/ S = {}
  BY WithoutJunkGrows
<1>3. WithoutJunk(s) \in Seq(S)
  <2>1. PICK F : CleanOf(F, s, Len(s)) /\ WithoutJunk(s) = F[Len(s)]
    BY WithoutJunkIs
  <2>2. Len(s) \in Nat /\ Len(s) \in 0..Len(s)
    OBVIOUS
  <2>3. \A i \in 0..Len(s) : F[i] = F[i] /\ F[i] \in Seq(S)
    BY <2>1, <2>2, CleanAgrees
  <2> QED
    BY <2>1, <2>2, <2>3
<1>4. bad = {}
  <2> SUFFICES ASSUME bad # {}
               PROVE  FALSE
    OBVIOUS
  <2>1. PICK m \in bad : \A n \in bad : m <= n
    BY <1>1, Least
  <2>2. CASE m = 0
    <3>1. a(m) = << >>
      BY <2>2
    <3>2. s \o << >> = s /\ WithoutJunk(s) \o << >> = WithoutJunk(s)
      BY <1>3, ConcatEmptySeq
    <3> QED
      BY <2>1, <3>1, <3>2
  <2>3. CASE m # 0
    <3>1. /\ m - 1 \in 0..Len(t) /\ ~(m <= m - 1) /\ m \in 1..Len(t) /\ m \in Nat
          /\ (m - 1) + 1 = m /\ 1 \in 1..Len(t) /\ m \in 1..Len(t)
      BY <2>3
    <3> DEFINE b == a(m - 1)
               y == t[m]
    <3>2. WithoutJunk(s \o b) = WithoutJunk(s) \o b
      BY <2>1, <3>1
    <3>3. b \in Seq(S) /\ y \in S /\ y # Junk /\ << y >> \in Seq(S)
      BY <3>1
    <3>4. a(m) = b \o << y >>
      BY <3>1, SubSeqRecursiveSecond
    <3> HIDE DEF b, y
    <3> DEFINE v == WithoutJunk(s)
               sb == s \o b
    <3> HIDE DEF a, v
    <3>5. s \o a(m) = sb \o << y >>
      BY <3>3, <3>4, ConcatAssociative, SMTT(30)
    <3>6. sb \in Seq(S)
      BY <3>3, ConcatProperties
    <3> HIDE DEF sb
    <3>7. s \o a(m) = Append(sb, y)
      BY <3>3, <3>5, <3>6, AppendIsConcat
    <3>8. WithoutJunk(Append(sb, y)) = Append(WithoutJunk(sb), y)
      BY <3>3, <3>6, WithoutJunkGrows
    <3>9. WithoutJunk(s \o a(m)) = Append(v \o b, y)
      BY <3>2, <3>7, <3>8 DEF sb, v
    <3>10. v \in Seq(S)
      BY <1>3 DEF v
    <3>11. v \o b \in Seq(S)
      BY <3>3, <3>10, ConcatProperties
    <3>12. Append(v \o b, y) = (v \o b) \o << y >>
      BY <3>3, <3>11, AppendIsConcat
    <3>13. (v \o b) \o << y >> = v \o a(m)
      <4>1. (v \o b) \o << y >> = v \o (b \o << y >>)
        <5>1. v \in Seq(S) /\ b \in Seq(S) /\ << y >> \in Seq(S)
          BY <3>3, <3>10
        <5> HIDE DEF bad
        <5> QED
          BY <5>1, ConcatAssociative
      <4> QED
        BY <3>4, <4>1
    <3>14. WithoutJunk(s \o a(m)) = WithoutJunk(s) \o a(m)
      BY <3>9, <3>12, <3>13 DEF v
    <3> QED
      BY <2>1, <3>14
  <2> QED
    BY <2>2, <2>3
<1>5. Len(t) \in 0..Len(t) /\ a(Len(t)) = t
  BY SubSeqFull
<1> QED
  BY <1>4, <1>5

-----------------------------------------------------------------------------
(* The invariant.                                                          *)

Connection == [state : {"none", "queued", "open", "closed"}, up : Seq(Bytes),
               down : Seq(Bytes \cup {Junk}), reset : BOOLEAN]

Process == [at : {"none", "accept", "recv", "send", "failed", "killed"},
            peer : Clients \cup {"none"}, recv_msg : Seq(Bytes)]

EchoTypeOK ==
    /\ server \in {"server", "server1"}
    /\ script \in Scripts
    /\ client \in [Clients -> {"connect", "send", "recv", "done", "killed", "refused"}]
    /\ typed \in [Clients -> Nat]
    /\ got \in [Clients -> Seq(Bytes \cup {Junk})]
    /\ conn \in [Clients -> Connection]
    /\ proc \in [Processes -> Process]
    /\ \A p \in Processes : proc[p].at \in {"recv", "send"} => proc[p].peer \in Clients

Talks(p, c) == proc[p].at \in {"recv", "send"} /\ proc[p].peer = c

\* An open connection has one process, and there is no other to talk to a client.
OnePerConnection ==
    \A c \in Clients :
        /\ conn[c].state = "open" => \E p \in Processes : Talks(p, c)
        /\ \A p \in Processes : Talks(p, c) => conn[c].state = "open"
        /\ \A p, q \in Processes : Talks(p, c) /\ Talks(q, c) => p = q

\* A client that has no connection has said nothing and got nothing.
NothingBefore ==
    \A c \in Clients :
        /\ typed[c] <= Len(script[c])
        /\ client[c] \in {"connect", "refused"} => conn[c].state = "none"
        /\ conn[c].state = "none" =>
             /\ client[c] \in {"connect", "refused"}
             /\ conn[c].up = << >> /\ conn[c].down = << >>
             /\ got[c] = << >> /\ typed[c] = 0

\* A client that is there, with a connection that the server has not closed.
Served(c) == ~Ended(c) /\ conn[c].state \in {"queued", "open"}

\* All it has said, in hand or on the way.
Balanced(c) == Said(c) = WithoutJunk(got[c] \o conn[c].down) \o InHand(c) \o conn[c].up

EchoInv ==
    /\ EchoTypeOK
    /\ OnePerConnection
    /\ NothingBefore
    /\ \A c \in Clients : Served(c) => Balanced(c)

\* What a client's process has in hand.
LEMMA InHandIs ==
    OnePerConnection =>
        \A c \in Clients :
            /\ \A p \in Processes : Talks(p, c) =>
                 InHand(c) = IF proc[p].at = "send" THEN proc[p].recv_msg ELSE << >>
            /\ (\A p \in Processes : ~Talks(p, c)) => InHand(c) = << >>
<1> SUFFICES ASSUME OnePerConnection, NEW c \in Clients
             PROVE  /\ \A p \in Processes : Talks(p, c) =>
                         InHand(c) = IF proc[p].at = "send" THEN proc[p].recv_msg ELSE << >>
                    /\ (\A p \in Processes : ~Talks(p, c)) => InHand(c) = << >>
  OBVIOUS
<1> DEFINE busy == {p \in TalkingTo(c) : proc[p].at = "send"}
<1>1. InHand(c) = IF busy = {} THEN << >> ELSE proc[CHOOSE p \in busy : TRUE].recv_msg
  BY DEF InHand
<1>2. TalkingTo(c) = {p \in Processes : Talks(p, c)}
  BY DEF TalkingTo, Talks
<1>3. ASSUME NEW p \in Processes, Talks(p, c)
      PROVE  InHand(c) = IF proc[p].at = "send" THEN proc[p].recv_msg ELSE << >>
  <2>1. TalkingTo(c) = {p}
    BY <1>2, <1>3 DEF OnePerConnection
  <2>2. CASE proc[p].at = "send"
    <3>1. busy = {p}
      BY <2>1, <2>2
    <3>2. (CHOOSE q \in busy : TRUE) = p /\ busy # {}
      BY <3>1
    <3> QED
      BY <1>1, <2>2, <3>2
  <2>3. CASE proc[p].at # "send"
    <3>1. busy = {}
      BY <2>1, <2>3
    <3> QED
      BY <1>1, <2>3, <3>1
  <2> QED
    BY <2>2, <2>3
<1>4. ASSUME \A p \in Processes : ~Talks(p, c)
      PROVE  InHand(c) = << >>
  <2>1. busy = {}
    BY <1>2, <1>4
  <2> QED
    BY <1>1, <2>1
<1> QED
  BY <1>3, <1>4

\* The same after a step.
LEMMA InHandBecomes ==
    OnePerConnection' =>
        \A c \in Clients :
            /\ \A p \in Processes : Talks(p, c)' =>
                 InHand(c)' = IF proc'[p].at = "send" THEN proc'[p].recv_msg ELSE << >>
            /\ (\A p \in Processes : ~Talks(p, c)') => InHand(c)' = << >>
<1>1. (OnePerConnection =>
        \A c \in Clients :
            /\ \A p \in Processes : Talks(p, c) =>
                 InHand(c) = IF proc[p].at = "send" THEN proc[p].recv_msg ELSE << >>
            /\ (\A p \in Processes : ~Talks(p, c)) => InHand(c) = << >>)'
  BY InHandIs, PTL
<1> QED
  BY <1>1

\* A message in hand that no process has touched is still in hand.
LEMMA InHandKept ==
    ASSUME OnePerConnection, OnePerConnection', NEW c \in Clients,
           \A p \in Processes : Talks(p, c) \/ Talks(p, c)' => proc'[p] = proc[p]
    PROVE  InHand(c)' = InHand(c)
<1>1. \A p \in Processes : Talks(p, c)' <=> Talks(p, c)
  BY DEF Talks
<1>2. CASE \E p \in Processes : Talks(p, c)
  <2>1. PICK p \in Processes : Talks(p, c)
    BY <1>2
  <2>2. Talks(p, c)' /\ proc'[p] = proc[p]
    BY <1>1, <2>1
  <2>3. InHand(c) = IF proc[p].at = "send" THEN proc[p].recv_msg ELSE << >>
    BY <2>1, InHandIs
  <2>4. InHand(c)' = IF proc'[p].at = "send" THEN proc'[p].recv_msg ELSE << >>
    BY <2>2, InHandBecomes
  <2> QED
    BY <2>2, <2>3, <2>4
<1>3. CASE \A p \in Processes : ~Talks(p, c)
  <2>1. \A p \in Processes : ~Talks(p, c)'
    BY <1>1, <1>3
  <2>2. InHand(c) = << >>
    BY <1>3, InHandIs
  <2>3. InHand(c)' = << >>
    BY <2>1, InHandBecomes
  <2> QED
    BY <2>2, <2>3
<1> QED
  BY <1>2, <1>3

\* A process has bytes in hand.
LEMMA InHandTyped ==
    ASSUME EchoTypeOK, OnePerConnection
    PROVE  \A c \in Clients : InHand(c) \in Seq(Bytes)
<1> SUFFICES ASSUME NEW c \in Clients
             PROVE  InHand(c) \in Seq(Bytes)
  OBVIOUS
<1>1. \A p \in Processes : proc[p].recv_msg \in Seq(Bytes)
  BY DEF EchoTypeOK, Process
<1>2. CASE \E p \in Processes : Talks(p, c)
  <2>1. PICK p \in Processes : Talks(p, c)
    BY <1>2
  <2>2. InHand(c) = IF proc[p].at = "send" THEN proc[p].recv_msg ELSE << >>
    BY <2>1, InHandIs
  <2> QED
    BY <1>1, <2>2
<1>3. CASE \A p \in Processes : ~Talks(p, c)
  <2>1. InHand(c) = << >>
    BY <1>3, InHandIs
  <2> QED
    BY <2>1
<1> QED
  BY <1>2, <1>3

-----------------------------------------------------------------------------
(* The steps of the clients.                                               *)

\* What is not touched stays balanced.
LEMMA BalancedKept ==
    ASSUME NEW c \in Clients, Balanced(c), script' = script, typed'[c] = typed[c],
           got'[c] = got[c], conn'[c].up = conn[c].up, conn'[c].down = conn[c].down,
           InHand(c)' = InHand(c)
    PROVE  Balanced(c)'
BY DEF Balanced, Said

\* The words of a user are bytes without junk.
LEMMA LinesAreBytes ==
    ASSUME EchoTypeOK, NEW c \in Clients, typed[c] <= Len(script[c])
    PROVE  /\ script[c] \in Seq(Seq(Bytes)) /\ Junk \notin Bytes
           /\ Line(c) \in Seq(Bytes)
<1>1. script[c] \in Seq(Seq(Bytes)) /\ typed[c] \in Nat /\ Junk \notin Bytes
  BY EchoAssumption DEF EchoTypeOK
<1>2. CASE typed[c] < Len(script[c])
  <2>1. typed[c] + 1 \in 1..Len(script[c]) /\ Line(c) = script[c][typed[c] + 1]
    BY <1>1, <1>2 DEF Line
  <2> QED
    BY <1>1, <2>1
<1>3. CASE ~(typed[c] < Len(script[c]))
  BY <1>1, <1>3 DEF Line
<1> QED
  BY <1>1, <1>2, <1>3

\* connect(): refused, or queued with nothing said.
LEMMA ConnectFits ==
    ASSUME EchoInv, NEW c \in Clients, Connect(c)
    PROVE  EchoInv'
<1>1. EchoTypeOK /\ OnePerConnection /\ NothingBefore /\ \A d \in Clients : Served(d) => Balanced(d)
  BY DEF EchoInv
<1>2. /\ client[c] = "connect" /\ UNCHANGED << server, script, typed, got, proc >>
      /\ \/ client' = [client EXCEPT ![c] = "refused"] /\ UNCHANGED conn
         \/ /\ client' = [client EXCEPT ![c] = "send"]
            /\ conn' = [conn EXCEPT ![c].state = "queued"]
  BY DEF Connect
<1>3. conn[c].state = "none" /\ conn \in [Clients -> Connection]
  BY <1>1, <1>2 DEF NothingBefore, EchoTypeOK, Connection
<1>4. /\ conn' \in [Clients -> Connection]
      /\ \A d \in Clients : d # c => conn'[d] = conn[d] /\ client'[d] = client[d]
      /\ conn'[c].up = conn[c].up /\ conn'[c].down = conn[c].down
      /\ \/ conn'[c].state = "none" /\ client'[c] = "refused"
         \/ conn'[c].state = "queued" /\ client'[c] = "send"
  <2>1. client \in [Clients -> {"connect", "send", "recv", "done", "killed", "refused"}]
    BY <1>1 DEF EchoTypeOK
  <2>2. CASE client' = [client EXCEPT ![c] = "refused"] /\ UNCHANGED conn
    BY <1>3, <2>1, <2>2
  <2>3. CASE /\ client' = [client EXCEPT ![c] = "send"]
             /\ conn' = [conn EXCEPT ![c].state = "queued"]
    BY <1>3, <2>1, <2>3 DEF Connection
  <2> QED
    BY <1>2, <2>2, <2>3
<1>5. EchoTypeOK'
  <2>1. client' \in [Clients -> {"connect", "send", "recv", "done", "killed", "refused"}]
    BY <1>1, <1>2 DEF EchoTypeOK
  <2> QED
    BY <1>1, <1>2, <1>4, <2>1 DEF EchoTypeOK
<1>6. \A p \in Processes : ~Talks(p, c)
  BY <1>1, <1>3 DEF OnePerConnection
<1>7. OnePerConnection'
  <2>1. \A p \in Processes, d \in Clients : Talks(p, d)' <=> Talks(p, d)
    BY <1>2 DEF Talks
  <2> QED
    BY <1>1, <1>4, <1>6, <2>1 DEF OnePerConnection
<1>8. NothingBefore'
  BY <1>1, <1>2, <1>3, <1>4 DEF NothingBefore
<1>9. ASSUME NEW d \in Clients, Served(d)'
      PROVE  Balanced(d)'
  <2>1. InHand(d)' = InHand(d)
    BY <1>1, <1>2, <1>7, InHandKept
  <2>2. Balanced(d)
    <3>1. CASE d # c
      <4>1. Served(d)
        BY <1>4, <1>9, <3>1 DEF Served, Ended
      <4> QED
        BY <1>1, <4>1
    <3>2. CASE d = c
      <4>1. /\ conn[c].up = << >> /\ conn[c].down = << >> /\ got[c] = << >> /\ typed[c] = 0
        BY <1>1, <1>3 DEF NothingBefore
      <4>2. InHand(c) = << >>
        BY <1>1, <1>6, InHandIs
      <4>3. WithoutJunk(<< >>) = << >>
        <5>1. Bytes \cup {Junk} # {} /\ << >> \in Seq(Bytes \cup {Junk})
          OBVIOUS
        <5> QED
          BY <5>1, WithoutJunkGrows
      <4>4. Said(c) = << >>
        BY <4>1 DEF Said, FlattenSeq
      <4>5. << >> \o << >> = << >>
        OBVIOUS
      <4> QED
        BY <3>2, <4>1, <4>2, <4>3, <4>4, <4>5 DEF Balanced
    <3> QED
      BY <3>1, <3>2
  <2> QED
    BY <1>2, <1>4, <2>1, <2>2, BalancedKept
<1> QED
  BY <1>5, <1>7, <1>8, <1>9 DEF EchoInv

\* The client sends its line: it is typed and on its way.
LEMMA ClientSendFits ==
    ASSUME EchoInv, NEW c \in Clients, ClientSend(c)
    PROVE  EchoInv'
<1> DEFINE n == typed[c]
<1>1. EchoTypeOK /\ OnePerConnection /\ NothingBefore /\ \A d \in Clients : Served(d) => Balanced(d)
  BY DEF EchoInv
<1>2. /\ conn \in [Clients -> Connection] /\ typed \in [Clients -> Nat]
      /\ client \in [Clients -> {"connect", "send", "recv", "done", "killed", "refused"}]
      /\ n \in Nat /\ n <= Len(script[c])
  BY <1>1 DEF EchoTypeOK, NothingBefore, Connection
<1>3. script[c] \in Seq(Seq(Bytes)) /\ Line(c) \in Seq(Bytes)
  BY <1>1, <1>2, LinesAreBytes
<1>4. /\ client[c] = "send" /\ UNCHANGED << server, script, got, proc >>
      /\ \A d \in Clients : d # c => client'[d] = client[d]
      /\ client'[c] \in {"killed", "done", "recv"}
      /\ client' \in [Clients -> {"connect", "send", "recv", "done", "killed", "refused"}]
  BY <1>2 DEF ClientSend
<1>5. PICK reset \in BOOLEAN :
        conn' = [conn EXCEPT ![c].up = IF conn[c].state = "closed" THEN @ ELSE @ \o Line(c),
                             ![c].reset = reset]
  <2> DEFINE shut == conn[c].state = "closed"
             broken == shut /\ conn[c].reset
             leaves == Line(c) = Bye \/ broken
             reset == conn[c].reset \/ (shut /\ Line(c) # << >>) \/ (leaves /\ conn[c].down # << >>)
  <2>1. conn' = [conn EXCEPT ![c].up = IF shut THEN @ ELSE @ \o Line(c), ![c].reset = reset]
    BY <1>2 DEF ClientSend, Connection
  <2>2. reset \in BOOLEAN
    BY <1>2 DEF Connection
  <2> QED
    BY <2>1, <2>2
<1>6. /\ conn' \in [Clients -> Connection]
      /\ \A d \in Clients : d # c => conn'[d] = conn[d]
      /\ conn'[c].state = conn[c].state /\ conn'[c].down = conn[c].down
      /\ conn'[c].up = IF conn[c].state = "closed" THEN conn[c].up ELSE conn[c].up \o Line(c)
  <2>1. conn[c].up \o Line(c) \in Seq(Bytes)
    BY <1>2, <1>3, ConcatProperties DEF Connection
  <2>2. conn[c] \in Connection
    BY <1>2
  <2> DEFINE new == [conn[c] EXCEPT !.up = IF conn[c].state = "closed" THEN @ ELSE @ \o Line(c),
                                    !.reset = reset]
  <2>3. /\ new \in Connection /\ new.state = conn[c].state /\ new.down = conn[c].down
        /\ new.up = IF conn[c].state = "closed" THEN conn[c].up ELSE conn[c].up \o Line(c)
    BY <2>1, <2>2 DEF Connection
  <2>4. conn' = [conn EXCEPT ![c] = new]
    BY <1>2, <1>5, <2>2 DEF Connection
  <2> HIDE DEF new
  <2> QED
    BY <1>2, <2>3, <2>4
<1>7. /\ typed' = [typed EXCEPT ![c] = IF n < Len(script[c]) THEN n + 1 ELSE n]
      /\ typed' \in [Clients -> Nat] /\ typed'[c] <= Len(script[c])
      /\ \A d \in Clients : d # c => typed'[d] = typed[d]
  <2>1. typed' = [typed EXCEPT ![c] = IF n < Len(script[c]) THEN n + 1 ELSE n]
    BY <1>2 DEF ClientSend
  <2>2. Len(script[c]) \in Nat
    BY <1>3
  <2> QED
    BY <1>2, <2>1, <2>2
<1>8. EchoTypeOK'
  BY <1>1, <1>4, <1>6, <1>7 DEF EchoTypeOK
<1>9. OnePerConnection'
  <2>1. \A p \in Processes, d \in Clients : Talks(p, d)' <=> Talks(p, d)
    BY <1>4 DEF Talks
  <2>2. \A d \in Clients : conn'[d].state = conn[d].state
    BY <1>6
  <2> QED
    BY <1>1, <2>1, <2>2 DEF OnePerConnection
<1>10. NothingBefore'
  <2>1. conn[c].state # "none"
    BY <1>1, <1>4 DEF NothingBefore
  <2> QED
    BY <1>1, <1>4, <1>6, <1>7, <2>1 DEF NothingBefore
<1>11. ASSUME NEW d \in Clients, Served(d)'
       PROVE  Balanced(d)'
  <2>1. InHand(d)' = InHand(d)
    BY <1>1, <1>4, <1>9, InHandKept
  <2>2. Served(d) /\ Balanced(d)
    BY <1>1, <1>4, <1>6, <1>11 DEF Served, Ended
  <2>3. CASE d # c
    BY <1>4, <1>6, <1>7, <2>1, <2>2, <2>3, BalancedKept
  <2>4. CASE d = c
    <3> DEFINE X == Bytes \cup {Junk}
               A == WithoutJunk(got[c] \o conn[c].down)
               H == InHand(c)
               U == conn[c].up
    <3>1. Said(c) = A \o H \o U
      BY <2>2, <2>4 DEF Balanced
    <3>2. A \in Seq(X) /\ H \in Seq(X) /\ U \in Seq(X) /\ Line(c) \in Seq(X)
      <4>1. got[c] \o conn[c].down \in Seq(X) /\ Junk \in X
        BY <1>1, <1>2, ConcatProperties DEF EchoTypeOK, Connection
      <4>2. A \in Seq(X)
        BY <4>1, WithoutJunkGrows
      <4>3. H \in Seq(Bytes)
        BY <1>1, InHandTyped
      <4> QED
        BY <1>2, <1>3, <4>2, <4>3, SeqMonotonic DEF Connection
    <3>3. Said(c)' = Said(c) \o Line(c)
      <4>1. CASE n < Len(script[c])
        <5>1. typed'[c] = n + 1 /\ Line(c) = script[c][n + 1]
          BY <1>2, <1>7, <4>1 DEF Line
        <5>2. FlattenSeq(SubSeq(script[c], 1, n + 1))
                = FlattenSeq(SubSeq(script[c], 1, n)) \o script[c][n + 1]
          BY <1>2, <1>3, <4>1, FlattenGrows
        <5> QED
          BY <1>4, <5>1, <5>2 DEF Said
      <4>2. CASE ~(n < Len(script[c]))
        <5>1. typed'[c] = n /\ Line(c) = << >>
          BY <1>2, <1>7, <4>2 DEF Line
        <5>2. Said(c)' = Said(c)
          BY <1>4, <5>1 DEF Said
        <5>3. A \o H \o U \in Seq(X)
          BY <3>2, ConcatProperties
        <5>4. Said(c) \o << >> = Said(c)
          BY <3>1, <5>3, ConcatEmptySeq
        <5> QED
          BY <5>1, <5>2, <5>4
      <4> QED
        BY <4>1, <4>2
    <3>4. conn'[c].up = U \o Line(c)
      BY <1>6, <2>2, <2>4 DEF Served
    <3>5. WithoutJunk(got[c] \o conn[c].down)' = A
      BY <1>4, <1>6
    <3> HIDE DEF A, H, U, X
    <3>6. (A \o H \o U) \o Line(c) = A \o H \o (U \o Line(c))
      <4>1. A \o H \in Seq(X)
        BY <3>2, ConcatProperties
      <4> QED
        BY <3>2, <4>1, ConcatAssociative
    <3> QED
      BY <2>1, <2>4, <3>1, <3>3, <3>4, <3>5, <3>6 DEF Balanced, A, H, U
  <2> QED
    BY <2>3, <2>4
<1> QED
  BY <1>8, <1>9, <1>10, <1>11 DEF EchoInv

\* Some of what is on its way down is then with the client.
LEMMA ClientRecvFits ==
    ASSUME EchoInv, NEW c \in Clients, ClientRecv(c)
    PROVE  EchoInv'
<1> DEFINE X == Bytes \cup {Junk}
<1>1. EchoTypeOK /\ OnePerConnection /\ NothingBefore /\ \A d \in Clients : Served(d) => Balanced(d)
  BY DEF EchoInv
<1>2. /\ conn \in [Clients -> Connection] /\ got \in [Clients -> Seq(X)]
      /\ client \in [Clients -> {"connect", "send", "recv", "done", "killed", "refused"}]
      /\ got[c] \in Seq(X) /\ conn[c].down \in Seq(X)
  BY <1>1 DEF EchoTypeOK, Connection
<1>3. /\ client[c] = "recv" /\ UNCHANGED << server, script, typed, proc >>
      /\ client' = [client EXCEPT ![c] = "send"]
  BY DEF ClientRecv
<1> DEFINE D == conn[c].down
           G == got[c]
<1>4. PICK n \in 0..Len(D) :
        /\ got' = [got EXCEPT ![c] = G \o SubSeq(D, 1, n)]
        /\ conn' = [conn EXCEPT ![c].down = SubSeq(D, n + 1, Len(D))]
  <2>1. ASSUME NEW n \in 1..Len(D),
               got' = [got EXCEPT ![c] = G \o SubSeq(D, 1, n)],
               conn' = [conn EXCEPT ![c].down = SubSeq(D, n + 1, Len(D))]
        PROVE  \E k \in 0..Len(D) :
                 /\ got' = [got EXCEPT ![c] = G \o SubSeq(D, 1, k)]
                 /\ conn' = [conn EXCEPT ![c].down = SubSeq(D, k + 1, Len(D))]
    <3>1. n \in 0..Len(D)
      OBVIOUS
    <3> QED
      BY <2>1, <3>1
  <2>2. ASSUME D = << >>, UNCHANGED << got, conn >>
        PROVE  \E k \in 0..Len(D) :
                 /\ got' = [got EXCEPT ![c] = G \o SubSeq(D, 1, k)]
                 /\ conn' = [conn EXCEPT ![c].down = SubSeq(D, k + 1, Len(D))]
    <3>1. SubSeq(D, 1, 0) = << >> /\ SubSeq(D, 0 + 1, Len(D)) = D /\ 0 \in 0..Len(D)
      BY <2>2
    <3>2. G \o << >> = G
      BY <1>2, ConcatEmptySeq
    <3>3. got = [got EXCEPT ![c] = G] /\ conn = [conn EXCEPT ![c].down = D]
      BY <1>2 DEF Connection
    <3> QED
      BY <2>2, <3>1, <3>2, <3>3
  <2> QED
    BY <2>1, <2>2 DEF ClientRecv
<1>5. SubSeq(D, 1, n) \in Seq(X) /\ SubSeq(D, n + 1, Len(D)) \in Seq(X)
  BY <1>2, Parts
<1>6. G \o SubSeq(D, 1, n) \in Seq(X)
  BY <1>2, <1>5, ConcatProperties
<1>7. /\ conn' \in [Clients -> Connection] /\ got' \in [Clients -> Seq(X)]
      /\ \A d \in Clients : d # c => conn'[d] = conn[d] /\ got'[d] = got[d]
      /\ conn'[c].state = conn[c].state /\ conn'[c].up = conn[c].up
      /\ conn'[c].down = SubSeq(D, n + 1, Len(D)) /\ got'[c] = G \o SubSeq(D, 1, n)
  BY <1>2, <1>4, <1>5, <1>6 DEF Connection
<1>8. got'[c] \o conn'[c].down = got[c] \o conn[c].down
  <2>1. (G \o SubSeq(D, 1, n)) \o SubSeq(D, n + 1, Len(D)) = G \o D
    BY <1>2, PartsAfter
  <2> QED
    BY <1>7, <2>1
<1>9. EchoTypeOK'
  <2>1. client' \in [Clients -> {"connect", "send", "recv", "done", "killed", "refused"}]
    BY <1>2, <1>3
  <2> QED
    BY <1>1, <1>3, <1>7, <2>1 DEF EchoTypeOK
<1>10. OnePerConnection'
  <2>1. \A p \in Processes, d \in Clients : Talks(p, d)' <=> Talks(p, d)
    BY <1>3 DEF Talks
  <2>2. \A d \in Clients : conn'[d].state = conn[d].state
    BY <1>7
  <2> QED
    BY <1>1, <2>1, <2>2 DEF OnePerConnection
<1>11. client'[c] = "send" /\ \A d \in Clients : d # c => client'[d] = client[d]
  BY <1>2, <1>3
<1>12. NothingBefore'
  <2>1. conn[c].state # "none"
    BY <1>1, <1>3 DEF NothingBefore
  <2> QED
    BY <1>1, <1>3, <1>7, <1>11, <2>1 DEF NothingBefore
<1>13. ASSUME NEW d \in Clients, Served(d)'
       PROVE  Balanced(d)'
  <2>1. InHand(d)' = InHand(d)
    BY <1>1, <1>3, <1>10, InHandKept
  <2>2. Served(d) /\ Balanced(d)
    <3>1. ~Ended(d) /\ conn'[d].state = conn[d].state
      BY <1>3, <1>7, <1>11, <1>13 DEF Served, Ended
    <3> QED
      BY <1>1, <1>13, <3>1 DEF Served
  <2>3. got'[d] \o conn'[d].down = got[d] \o conn[d].down /\ conn'[d].up = conn[d].up
    BY <1>7, <1>8
  <2> QED
    BY <1>3, <2>1, <2>2, <2>3 DEF Balanced, Said
<1> QED
  BY <1>9, <1>10, <1>12, <1>13 DEF EchoInv

\* A client that is interrupted is no longer served.
LEMMA InterruptedFits ==
    ASSUME EchoInv, NEW c \in Clients, Interrupted(c)
    PROVE  EchoInv'
<1>1. EchoTypeOK /\ OnePerConnection /\ NothingBefore /\ \A d \in Clients : Served(d) => Balanced(d)
  BY DEF EchoInv
<1>2. /\ conn \in [Clients -> Connection]
      /\ client \in [Clients -> {"connect", "send", "recv", "done", "killed", "refused"}]
  BY <1>1 DEF EchoTypeOK
<1>3. /\ client[c] \in {"send", "recv"} /\ UNCHANGED << server, script, typed, got, proc >>
      /\ client' = [client EXCEPT ![c] = "killed"]
  BY DEF Interrupted
<1>4. PICK reset \in BOOLEAN : conn' = [conn EXCEPT ![c].reset = reset]
  <2>1. conn' = [conn EXCEPT ![c].reset = conn[c].reset \/ conn[c].down # << >>]
    BY <1>2 DEF Interrupted, Connection
  <2>2. (conn[c].reset \/ conn[c].down # << >>) \in BOOLEAN
    BY <1>2 DEF Connection
  <2> QED
    BY <2>1, <2>2
<1>5. /\ conn' \in [Clients -> Connection]
      /\ client' \in [Clients -> {"connect", "send", "recv", "done", "killed", "refused"}]
      /\ client'[c] = "killed"
      /\ \A d \in Clients : d # c => client'[d] = client[d]
      /\ \A d \in Clients : /\ conn'[d].state = conn[d].state /\ conn'[d].up = conn[d].up
                            /\ conn'[d].down = conn[d].down
  BY <1>2, <1>3, <1>4 DEF Connection
<1>6. EchoTypeOK'
  BY <1>1, <1>3, <1>5 DEF EchoTypeOK
<1>7. OnePerConnection'
  <2>1. \A p \in Processes, d \in Clients : Talks(p, d)' <=> Talks(p, d)
    BY <1>3 DEF Talks
  <2> QED
    BY <1>1, <1>5, <2>1 DEF OnePerConnection
<1>8. NothingBefore'
  <2>1. conn[c].state # "none"
    BY <1>1, <1>3 DEF NothingBefore
  <2> QED
    BY <1>1, <1>3, <1>5, <2>1 DEF NothingBefore
<1>9. ASSUME NEW d \in Clients, Served(d)'
      PROVE  Balanced(d)'
  <2>1. d # c /\ Served(d)
    BY <1>5, <1>9 DEF Served, Ended
  <2>2. InHand(d)' = InHand(d)
    BY <1>1, <1>3, <1>7, InHandKept
  <2> QED
    BY <1>1, <1>3, <1>5, <2>1, <2>2, BalancedKept
<1> QED
  BY <1>6, <1>7, <1>8, <1>9 DEF EchoInv

-----------------------------------------------------------------------------
(* The steps of the servers.                                               *)

\* accept() and fork(): the connection gets its one process.
LEMMA AcceptFits ==
    ASSUME EchoInv, NEW p \in Processes, Accept(p)
    PROVE  EchoInv'
<1>1. EchoTypeOK /\ OnePerConnection /\ NothingBefore /\ \A d \in Clients : Served(d) => Balanced(d)
  BY DEF EchoInv
<1>2. conn \in [Clients -> Connection] /\ proc \in [Processes -> Process]
  BY <1>1 DEF EchoTypeOK
<1>3. UNCHANGED << server, script, client, typed, got >> /\ proc[p].at = "accept"
  BY DEF Accept
<1>4. PICK c \in Clients, q \in Processes :
        /\ conn[c].state = "queued" /\ proc[q].at \in {"none", "accept"}
        /\ conn' = [conn EXCEPT ![c].state = "open"]
        /\ proc' = [proc EXCEPT ![q] = Talking(c)]
  BY <1>3 DEF Accept, Queued
<1>5. Talking(c) = [at |-> "recv", peer |-> c, recv_msg |-> << >>] /\ Talking(c) \in Process
  <2>1. [Absence EXCEPT !.at = "recv"] = [at |-> "recv", peer |-> "none", recv_msg |-> << >>]
    BY DEF Absence
  <2>2. Talking(c) = [[Absence EXCEPT !.at = "recv"] EXCEPT !.peer = c]
    BY Zenon DEF Talking
  <2>3. Talking(c) = [at |-> "recv", peer |-> c, recv_msg |-> << >>]
    BY <2>1, <2>2
  <2> QED
    BY <2>3 DEF Process
<1>6. /\ conn' \in [Clients -> Connection]
      /\ conn'[c].state = "open"
      /\ \A d \in Clients : d # c => conn'[d].state = conn[d].state
      /\ \A d \in Clients : conn'[d].up = conn[d].up /\ conn'[d].down = conn[d].down
  BY <1>2, <1>4 DEF Connection
<1>7. /\ proc' \in [Processes -> Process]
      /\ proc'[q] = Talking(c)
      /\ \A r \in Processes : r # q => proc'[r] = proc[r]
  BY <1>2, <1>4, <1>5
<1>8. EchoTypeOK'
  <2>1. proc'[q].peer = c
    BY <1>5, <1>7
  <2>2. \A r \in Processes : proc'[r].at \in {"recv", "send"} => proc'[r].peer \in Clients
    <3> SUFFICES ASSUME NEW r \in Processes, proc'[r].at \in {"recv", "send"}
                 PROVE  proc'[r].peer \in Clients
      OBVIOUS
    <3>1. CASE r = q
      BY <2>1, <3>1
    <3>2. CASE r # q
      <4>1. proc'[r] = proc[r]
        BY <1>7, <3>2
      <4> QED
        BY <1>1, <4>1 DEF EchoTypeOK
    <3> QED
      BY <3>1, <3>2
  <2> QED
    BY <1>1, <1>3, <1>6, <1>7, <2>2 DEF EchoTypeOK
<1>9. /\ \A r \in Processes : ~Talks(r, c)
      /\ \A d \in Clients : ~Talks(q, d)
  BY <1>1, <1>4 DEF OnePerConnection, Talks
<1>10. \A r \in Processes, d \in Clients : Talks(r, d)' <=> (Talks(r, d) \/ (r = q /\ d = c))
  BY <1>5, <1>7, <1>9 DEF Talks
<1>11. OnePerConnection'
  BY <1>1, <1>6, <1>9, <1>10 DEF OnePerConnection
<1>12. NothingBefore'
  BY <1>1, <1>3, <1>4, <1>6 DEF NothingBefore
<1>13. ASSUME NEW d \in Clients, Served(d)'
       PROVE  Balanced(d)'
  <2>1. Served(d) /\ Balanced(d)
    <3>1. Served(d)
      BY <1>3, <1>4, <1>6, <1>13 DEF Served, Ended
    <3> QED
      BY <1>1, <3>1
  <2>2. InHand(d)' = InHand(d)
    <3>1. CASE d = c
      <4>1. InHand(c) = << >>
        BY <1>1, <1>9, InHandIs
      <4>2. Talks(q, c)' /\ proc'[q].at = "recv"
        BY <1>5, <1>7, <1>10
      <4>3. InHand(c)' = << >>
        BY <1>11, <4>2, InHandBecomes
      <4> QED
        BY <3>1, <4>1, <4>3
    <3>2. CASE d # c
      <4>1. \A r \in Processes : Talks(r, d) \/ Talks(r, d)' => proc'[r] = proc[r]
        BY <1>7, <1>9, <1>10, <3>2
      <4> QED
        BY <1>1, <1>11, <4>1, InHandKept
    <3> QED
      BY <3>1, <3>2
  <2> QED
    BY <1>3, <1>6, <2>1, <2>2, BalancedKept
<1> QED
  BY <1>8, <1>11, <1>12, <1>13 DEF EchoInv

\* A process that ends leaves no connection to a client that is still there.
LEMMA ExitsFit ==
    ASSUME EchoInv, NEW p \in Processes, NEW c \in Clients, NEW how \in {"failed", "killed"},
           Exits(p, c, how), UNCHANGED << server, script, client, typed, got >>,
           \/ proc[p].at = "accept" /\ conn[c].state = "queued"
           \/ Talks(p, c)
    PROVE  EchoInv'
<1>1. EchoTypeOK /\ OnePerConnection /\ NothingBefore /\ \A d \in Clients : Served(d) => Balanced(d)
  BY DEF EchoInv
<1>2. conn \in [Clients -> Connection] /\ proc \in [Processes -> Process]
  BY <1>1 DEF EchoTypeOK
<1> DEFINE shut(d) == d = c \/ (Alive = {p} /\ d \in Queued)
           gone == [Absence EXCEPT !.at = how]
<1>3. /\ proc' = [proc EXCEPT ![p] = gone]
      /\ conn' = [d \in Clients |->
                    IF shut(d) THEN [conn[d] EXCEPT !.state = "closed", !.reset = conn[d].up # << >>]
                    ELSE conn[d]]
  BY DEF Exits
<1>4. gone = [at |-> how, peer |-> "none", recv_msg |-> << >>] /\ gone \in Process
  <2>1. gone = [at |-> how, peer |-> "none", recv_msg |-> << >>]
    BY DEF Absence
  <2> HIDE DEF gone
  <2> QED
    BY <2>1 DEF Process
<1>5. ASSUME NEW d \in Clients
      PROVE  /\ conn'[d] \in Connection
             /\ conn'[d].state = IF shut(d) THEN "closed" ELSE conn[d].state
             /\ conn'[d].up = conn[d].up /\ conn'[d].down = conn[d].down
  <2>1. conn[d] \in Connection /\ (conn[d].up # << >>) \in BOOLEAN
    BY <1>2
  <2>2. CASE shut(d)
    <3>1. conn'[d] = [conn[d] EXCEPT !.state = "closed", !.reset = conn[d].up # << >>]
      BY <1>3, <2>2
    <3> HIDE DEF shut
    <3> QED
      BY <2>1, <2>2, <3>1 DEF Connection
  <2>3. CASE ~shut(d)
    BY <1>3, <2>1, <2>3
  <2> QED
    BY <2>2, <2>3
<1>6. conn' \in [Clients -> Connection]
  <2>1. conn' = [d \in Clients |-> conn'[d]]
    BY <1>3
  <2> QED
    BY <1>5, <2>1
<1>7. /\ proc' \in [Processes -> Process]
      /\ proc'[p].at = how
      /\ \A r \in Processes : r # p => proc'[r] = proc[r]
  BY <1>2, <1>3, <1>4
<1>8. EchoTypeOK'
  BY <1>1, <1>6, <1>7 DEF EchoTypeOK
<1>9. \A d \in Clients : shut(d) => \A r \in Processes : Talks(r, d) => r = p
  BY <1>1 DEF OnePerConnection, Queued, Talks
<1>10. \A d \in Clients : Talks(p, d) => d = c
  BY DEF Talks
<1>11. \A r \in Processes, d \in Clients : Talks(r, d)' <=> (Talks(r, d) /\ r # p)
  BY <1>7 DEF Talks
<1> HIDE DEF gone
<1>12. OnePerConnection'
  <2>1. ASSUME NEW d \in Clients, conn'[d].state = "open"
        PROVE  \E r \in Processes : Talks(r, d)'
    <3>1. ~shut(d) /\ conn[d].state = "open"
      BY <1>5, <2>1
    <3>2. PICK r \in Processes : Talks(r, d)
      BY <1>1, <3>1 DEF OnePerConnection
    <3>3. r # p
      BY <1>10, <3>1, <3>2
    <3> QED
      BY <1>11, <3>2, <3>3
  <2>2. ASSUME NEW d \in Clients, NEW r \in Processes, Talks(r, d)'
        PROVE  conn'[d].state = "open"
    <3>1. Talks(r, d) /\ r # p
      BY <1>11, <2>2
    <3>2. ~shut(d) /\ conn[d].state = "open"
      BY <1>1, <1>9, <3>1 DEF OnePerConnection
    <3> QED
      BY <1>5, <3>2
  <2>3. \A d \in Clients, q, r \in Processes : Talks(q, d)' /\ Talks(r, d)' => q = r
    BY <1>1, <1>11 DEF OnePerConnection
  <2> QED
    BY <2>1, <2>2, <2>3 DEF OnePerConnection
<1>13. \A d \in Clients : shut(d) => conn[d].state \in {"queued", "open"}
  BY <1>1 DEF Queued, OnePerConnection
<1>14. NothingBefore'
  <2>1. \A d \in Clients : conn'[d].state = "none" <=> conn[d].state = "none"
    BY <1>5, <1>13
  <2> QED
    BY <1>1, <1>5, <2>1 DEF NothingBefore
<1>15. ASSUME NEW d \in Clients, Served(d)'
       PROVE  Balanced(d)'
  <2>1. ~shut(d) /\ Served(d)
    BY <1>5, <1>15 DEF Served, Ended
  <2>2. \A r \in Processes : Talks(r, d) \/ Talks(r, d)' => proc'[r] = proc[r]
    BY <1>7, <1>10, <1>11, <2>1
  <2>3. InHand(d)' = InHand(d)
    BY <1>1, <1>12, <2>2, InHandKept
  <2> QED
    BY <1>1, <1>5, <2>1, <2>3, BalancedKept
<1> QED
  BY <1>8, <1>12, <1>14, <1>15 DEF EchoInv

\* A fork() that fails ends the parent, and closes the connection.
LEMMA ForkErrorFits ==
    ASSUME EchoInv, NEW p \in Processes, ForkError(p)
    PROVE  EchoInv'
<1>1. PICK c \in Queued : Exits(p, c, "failed")
  BY DEF ForkError
<1>2. c \in Clients /\ conn[c].state = "queued"
  BY DEF Queued
<1>3. proc[p].at = "accept" /\ UNCHANGED << server, script, client, typed, got >>
  BY DEF ForkError
<1> QED
  BY <1>1, <1>2, <1>3, ExitsFit

\* The process that has read "bye" is done with its client.
LEMMA ByeFits ==
    ASSUME EchoInv, NEW p \in Processes, NEW c \in Clients, Talks(p, c), NEW reset \in BOOLEAN,
           proc' = [proc EXCEPT ![p] = Accepting],
           conn' = [conn EXCEPT ![c].up = << >>, ![c].state = "closed", ![c].reset = reset],
           UNCHANGED << server, script, client, typed, got >>
    PROVE  EchoInv'
<1>1. EchoTypeOK /\ OnePerConnection /\ NothingBefore /\ \A d \in Clients : Served(d) => Balanced(d)
  BY DEF EchoInv
<1>2. conn \in [Clients -> Connection] /\ proc \in [Processes -> Process]
  BY <1>1 DEF EchoTypeOK
<1>3. Accepting \in Process /\ Accepting.at = "accept"
  <2>1. Accepting = [at |-> "accept", peer |-> "none", recv_msg |-> << >>]
    BY DEF Accepting, Absence
  <2> QED
    BY <2>1 DEF Process
<1>4. /\ conn' \in [Clients -> Connection]
      /\ conn'[c].state = "closed" /\ \A d \in Clients : d # c => conn'[d] = conn[d]
  <2> DEFINE new == [conn[c] EXCEPT !.up = << >>, !.state = "closed", !.reset = reset]
  <2>1. conn[c] \in Connection /\ << >> \in Seq(Bytes)
    BY <1>2
  <2>2. new \in Connection /\ new.state = "closed"
    BY <2>1 DEF Connection
  <2>3. conn' = [conn EXCEPT ![c] = new]
    BY <1>2, <2>1 DEF Connection
  <2> HIDE DEF new
  <2> QED
    BY <1>2, <2>2, <2>3
<1>5. /\ proc' \in [Processes -> Process] /\ proc'[p].at = "accept"
      /\ \A r \in Processes : r # p => proc'[r] = proc[r]
  BY <1>2, <1>3
<1>6. EchoTypeOK'
  BY <1>1, <1>4, <1>5 DEF EchoTypeOK
<1>7. conn[c].state = "open" /\ \A r \in Processes : Talks(r, c) => r = p
  BY <1>1 DEF OnePerConnection
<1>8. \A d \in Clients : Talks(p, d) => d = c
  BY DEF Talks
<1>9. \A r \in Processes, d \in Clients : Talks(r, d)' <=> (Talks(r, d) /\ r # p)
  BY <1>5 DEF Talks
<1>10. OnePerConnection'
  <2>1. ASSUME NEW d \in Clients, conn'[d].state = "open"
        PROVE  \E r \in Processes : Talks(r, d)'
    <3>1. d # c /\ conn[d].state = "open"
      BY <1>4, <2>1
    <3>2. PICK r \in Processes : Talks(r, d)
      BY <1>1, <3>1 DEF OnePerConnection
    <3>3. r # p
      BY <1>8, <3>1, <3>2
    <3> QED
      BY <1>9, <3>2, <3>3
  <2>2. ASSUME NEW d \in Clients, NEW r \in Processes, Talks(r, d)'
        PROVE  conn'[d].state = "open"
    <3>1. Talks(r, d) /\ r # p
      BY <1>9, <2>2
    <3>2. d # c /\ conn[d].state = "open"
      BY <1>1, <1>7, <3>1 DEF OnePerConnection
    <3> QED
      BY <1>4, <3>2
  <2>3. \A d \in Clients, q, r \in Processes : Talks(q, d)' /\ Talks(r, d)' => q = r
    BY <1>1, <1>9 DEF OnePerConnection
  <2> QED
    BY <2>1, <2>2, <2>3 DEF OnePerConnection
<1>11. NothingBefore'
  BY <1>1, <1>4, <1>7 DEF NothingBefore
<1>12. ASSUME NEW d \in Clients, Served(d)'
       PROVE  Balanced(d)'
  <2>1. d # c /\ conn'[d] = conn[d]
    BY <1>4, <1>12 DEF Served
  <2>2. Served(d)
    BY <1>12, <2>1 DEF Served, Ended
  <2>3. \A r \in Processes : Talks(r, d) \/ Talks(r, d)' => proc'[r] = proc[r]
    BY <1>5, <1>8, <1>9, <2>1
  <2>4. InHand(d)' = InHand(d)
    BY <1>1, <1>10, <2>3, InHandKept
  <2> QED
    BY <1>1, <2>1, <2>2, <2>4, BalancedKept
<1> QED
  BY <1>6, <1>10, <1>11, <1>12 DEF EchoInv

\* A process and its client, and what both servers leave alone.
LEMMA TheirClient ==
    ASSUME EchoInv, NEW p \in Processes, proc[p].at \in {"recv", "send"}
    PROVE  /\ proc[p].peer \in Clients /\ Talks(p, proc[p].peer)
           /\ conn[proc[p].peer].state = "open"
BY DEF EchoInv, EchoTypeOK, OnePerConnection, Talks

\* While a process goes from recv() to send() or back it keeps its client.
LEMMA StaysWithClient ==
    ASSUME EchoInv, NEW p \in Processes, NEW c \in Clients, Talks(p, c),
           NEW at \in {"recv", "send"}, NEW msg \in Seq(Bytes),
           proc' = [proc EXCEPT ![p].at = at, ![p].recv_msg = msg],
           conn' \in [Clients -> Connection],
           \A d \in Clients : d # c => conn'[d] = conn[d],
           conn'[c].state = "open",
           UNCHANGED << server, script, client, typed, got >>,
           Served(c) /\ Balanced(c) =>
             Said(c) = WithoutJunk(got[c] \o conn'[c].down)
                         \o (IF at = "send" THEN msg ELSE << >>) \o conn'[c].up
    PROVE  EchoInv'
<1>1. EchoTypeOK /\ OnePerConnection /\ NothingBefore /\ \A d \in Clients : Served(d) => Balanced(d)
  BY DEF EchoInv
<1>2. proc \in [Processes -> Process]
  BY <1>1 DEF EchoTypeOK
<1>3. /\ proc' \in [Processes -> Process]
      /\ proc'[p].at = at /\ proc'[p].peer = c /\ proc'[p].recv_msg = msg
      /\ \A r \in Processes : r # p => proc'[r] = proc[r]
  BY <1>2 DEF Process, Talks
<1>4. EchoTypeOK'
  <2>1. ASSUME NEW r \in Processes, proc'[r].at \in {"recv", "send"}
        PROVE  proc'[r].peer \in Clients
    <3>1. CASE r = p
      BY <1>3, <3>1
    <3>2. CASE r # p
      <4>1. proc'[r] = proc[r]
        BY <1>3, <3>2
      <4> QED
        BY <1>1, <2>1, <4>1 DEF EchoTypeOK
    <3> QED
      BY <3>1, <3>2
  <2> QED
    BY <1>1, <1>3, <2>1 DEF EchoTypeOK
<1>5. \A r \in Processes, d \in Clients : Talks(r, d)' <=> Talks(r, d)
  BY <1>3 DEF Talks
<1>6. conn[c].state = "open" /\ \A d \in Clients : conn'[d].state = conn[d].state
  BY <1>1 DEF OnePerConnection
<1>7. OnePerConnection'
  BY <1>1, <1>5, <1>6 DEF OnePerConnection
<1>8. NothingBefore'
  BY <1>1, <1>6 DEF NothingBefore
<1>9. ASSUME NEW d \in Clients, Served(d)'
      PROVE  Balanced(d)'
  <2>1. Served(d) /\ Balanced(d)
    <3>1. Served(d)
      BY <1>6, <1>9 DEF Served, Ended
    <3> QED
      BY <1>1, <3>1
  <2>2. CASE d # c
    <3>1. \A r \in Processes : Talks(r, d) \/ Talks(r, d)' => proc'[r] = proc[r]
      BY <1>3, <1>5, <2>2 DEF Talks
    <3>2. InHand(d)' = InHand(d)
      BY <1>1, <1>7, <3>1, InHandKept
    <3> QED
      BY <2>1, <2>2, <3>2, BalancedKept
  <2>3. CASE d = c
    <3>1. Talks(p, c)'
      BY <1>5
    <3>2. InHand(c)' = IF at = "send" THEN msg ELSE << >>
      BY <1>3, <1>7, <3>1, InHandBecomes
    <3>3. Said(c)' = Said(c)
      BY DEF Said
    <3> QED
      BY <2>1, <2>3, <3>2, <3>3 DEF Balanced
  <2> QED
    BY <2>2, <2>3
<1> QED
  BY <1>4, <1>7, <1>8, <1>9 DEF EchoInv

\* recv(): what was on the way comes into the hand of the process.
LEMMA ServerRecvFits ==
    ASSUME EchoInv, NEW p \in Processes, ServerRecv(p)
    PROVE  EchoInv'
<1> DEFINE c == proc[p].peer
           U == conn[c].up
           msg(n) == SubSeq(U, 1, n)
           rest(n) == SubSeq(U, n + 1, Len(U))
<1>1. proc[p].at = "recv" /\ UNCHANGED << server, script, client, typed, got >>
  BY DEF ServerRecv
<1>2. c \in Clients /\ Talks(p, c) /\ conn[c].state = "open"
  BY <1>1, TheirClient
<1>3. /\ EchoTypeOK /\ OnePerConnection
      /\ conn \in [Clients -> Connection] /\ conn[c] \in Connection /\ U \in Seq(Bytes)
  BY <1>2 DEF EchoInv, EchoTypeOK, Connection
<1>4. PICK n \in 0..Len(U) :
        IF msg(n) = Bye
          THEN /\ proc' = [proc EXCEPT ![p] = Accepting]
               /\ conn' = [conn EXCEPT ![c].up = << >>, ![c].state = "closed",
                                       ![c].reset = rest(n) # << >>]
        ELSE /\ proc' = [proc EXCEPT ![p].at = "send", ![p].recv_msg = msg(n)]
             /\ conn' = [conn EXCEPT ![c].up = rest(n)]
  <2>1. 0 \in 0..Len(U) /\ \A n \in 1..Len(U) : n \in 0..Len(U)
    BY <1>3
  <2> QED
    BY <2>1 DEF ServerRecv, Received
<1>5. CASE msg(n) = Bye
  <2>1. (rest(n) # << >>) \in BOOLEAN
    OBVIOUS
  <2>2. /\ proc' = [proc EXCEPT ![p] = Accepting]
        /\ conn' = [conn EXCEPT ![c].up = << >>, ![c].state = "closed",
                                ![c].reset = rest(n) # << >>]
    BY <1>4, <1>5
  <2> QED
    BY <1>1, <1>2, <2>1, <2>2, ByeFits
<1>6. CASE msg(n) # Bye
  <2>1. /\ proc' = [proc EXCEPT ![p].at = "send", ![p].recv_msg = msg(n)]
        /\ conn' = [conn EXCEPT ![c].up = rest(n)]
    BY <1>4, <1>6
  <2>2. msg(n) \in Seq(Bytes) /\ rest(n) \in Seq(Bytes)
    BY <1>3, Parts
  <2> DEFINE m == msg(n)
             r == rest(n)
  <2> HIDE DEF m, r
  <2>3. /\ conn' \in [Clients -> Connection]
        /\ \A d \in Clients : d # c => conn'[d] = conn[d]
        /\ conn'[c].state = "open" /\ conn'[c].up = r /\ conn'[c].down = conn[c].down
    <3>1. conn' = [conn EXCEPT ![c].up = r] /\ r \in Seq(Bytes)
      BY <2>1, <2>2 DEF r
    <3> QED
      BY <1>2, <1>3, <3>1 DEF Connection
  <2>4. ASSUME Balanced(c)
        PROVE  Said(c) = WithoutJunk(got[c] \o conn'[c].down) \o m \o conn'[c].up
    <3> DEFINE A == WithoutJunk(got[c] \o conn[c].down)
               X == Bytes \cup {Junk}
    <3>1. got[c] \o conn[c].down \in Seq(X) /\ Junk \in X
      BY <1>2, <1>3, ConcatProperties DEF EchoTypeOK, Connection
    <3>2. A \in Seq(X)
      BY <3>1, WithoutJunkGrows
    <3>3. U \in Seq(X)
      BY <1>3, SeqMonotonic
    <3>4. InHand(c) = << >>
      BY <1>1, <1>2, <1>3, InHandIs
    <3>5. A \o << >> = A
      BY <3>2, ConcatEmptySeq
    <3>6. Said(c) = A \o U
      BY <2>4, <3>4, <3>5 DEF Balanced
    <3>7. (A \o msg(n)) \o rest(n) = A \o U
      BY <3>2, <3>3, PartsAfter
    <3> QED
      BY <2>3, <3>6, <3>7 DEF m, r
  <2>5. proc' = [proc EXCEPT ![p].at = "send", ![p].recv_msg = m] /\ m \in Seq(Bytes)
    BY <2>1, <2>2 DEF m
  <2> HIDE DEF c
  <2> QED
    BY <1>1, <1>2, <2>3, <2>4, <2>5, StaysWithClient
<1> QED
  BY <1>5, <1>6

\* strlen() may find more than the message in a full recv_msg, but only junk.
LEMMA EchoedIs ==
    ASSUME NEW g \in Seq(Bytes \cup {Junk}), NEW d \in Seq(Bytes \cup {Junk}),
           NEW m \in Seq(Bytes), NEW text \in Echoed(m)
    PROVE  /\ d \o text \in Seq(Bytes \cup {Junk})
           /\ WithoutJunk(g \o (d \o text)) = WithoutJunk(g \o d) \o m
<1> DEFINE X == Bytes \cup {Junk}
           s == g \o d
<1>0. s \in Seq(X)
  BY ConcatProperties
<1> HIDE DEF s
<1>1. m \in Seq(X) /\ Junk \in X /\ s \o m \in Seq(X)
  BY <1>0, SeqMonotonic, ConcatProperties
<1>2. WithoutJunk(s \o m) = WithoutJunk(s) \o m
  <2>1. \A i \in 1..Len(m) : m[i] # Junk
    BY EchoAssumption
  <2> QED
    BY <1>0, <1>1, <2>1, WithoutJunkOfMessage
<1>3. text = m => text \in Seq(X) /\ WithoutJunk(s \o text) = WithoutJunk(s) \o m
  BY <1>1, <1>2
<1>4. ASSUME text = Append(m, Junk)
      PROVE  text \in Seq(X) /\ WithoutJunk(s \o text) = WithoutJunk(s) \o m
  <2>1. text \in Seq(X)
    BY <1>1, <1>4, AppendProperties
  <2>2. s \o text = Append(s \o m, Junk)
    <3>1. << Junk >> \in Seq(X)
      OBVIOUS
    <3>2. text = m \o << Junk >> /\ Append(s \o m, Junk) = (s \o m) \o << Junk >>
      BY <1>1, <1>4, AppendIsConcat
    <3>3. (s \o m) \o << Junk >> = s \o (m \o << Junk >>)
      BY <1>0, <1>1, <3>1, ConcatAssociative
    <3> QED
      BY <3>2, <3>3
  <2>3. WithoutJunk(Append(s \o m, Junk)) = WithoutJunk(s \o m)
    BY <1>1, WithoutJunkGrows
  <2> QED
    BY <1>2, <2>1, <2>2, <2>3
<1>5. text \in Seq(X) /\ WithoutJunk(s \o text) = WithoutJunk(s) \o m
  BY <1>1, <1>2, <1>3, <1>4 DEF Echoed
<1>6. d \o text \in Seq(X) /\ g \o (d \o text) = (g \o d) \o text
  <2>1. text \in Seq(X)
    BY <1>5
  <2> HIDE DEF X
  <2> QED
    BY <2>1, ConcatProperties, ConcatAssociative, SMTT(30) DEF X
<1> QED
  BY <1>5, <1>6 DEF s

\* send(): the message leaves the hand for the way back, or the process ends.
LEMMA ServerSendFits ==
    ASSUME EchoInv, NEW p \in Processes, ServerSend(p)
    PROVE  EchoInv'
<1> DEFINE c == proc[p].peer
           m == proc[p].recv_msg
<1>1. proc[p].at = "send" /\ UNCHANGED << server, script, client, typed, got >>
  BY DEF ServerSend
<1>2. c \in Clients /\ Talks(p, c) /\ conn[c].state = "open"
  BY <1>1, TheirClient
<1>3. /\ EchoTypeOK /\ OnePerConnection
      /\ conn \in [Clients -> Connection] /\ conn[c] \in Connection
      /\ proc \in [Processes -> Process] /\ proc[p] \in Process /\ m \in Seq(Bytes)
  BY <1>2 DEF EchoInv, EchoTypeOK, Process
<1>4. PICK text \in Echoed(m) :
        IF Ended(c) /\ conn[c].reset THEN Exits(p, c, "killed")
        ELSE /\ proc' = [proc EXCEPT ![p].at = "recv"]
             /\ conn' = IF Ended(c) THEN [conn EXCEPT ![c].reset = text # << >>]
                        ELSE [conn EXCEPT ![c].down = conn[c].down \o text]
  <2>1. \A text : [conn EXCEPT ![c].down = conn[c].down \o text]
                    = [conn EXCEPT ![c].down = @ \o text]
    BY <1>2, <1>3
  <2> QED
    BY <2>1 DEF ServerSend
<1>5. CASE Ended(c) /\ conn[c].reset
  BY <1>1, <1>2, <1>4, <1>5, ExitsFit
<1>6. CASE ~(Ended(c) /\ conn[c].reset)
  <2>1. proc' = [proc EXCEPT ![p].at = "recv", ![p].recv_msg = m]
    <3>1. proc' = [proc EXCEPT ![p].at = "recv"]
      BY <1>4, <1>6
    <3>2. [proc[p] EXCEPT !.at = "recv", !.recv_msg = m] = [proc[p] EXCEPT !.at = "recv"]
      BY <1>3 DEF Process
    <3> QED
      BY <1>3, <3>1, <3>2
  <2>2. /\ conn[c].down \in Seq(Bytes \cup {Junk}) /\ got[c] \in Seq(Bytes \cup {Junk})
        /\ got[c] \o conn[c].down \in Seq(Bytes \cup {Junk})
    BY <1>2, <1>3, ConcatProperties DEF Connection, EchoTypeOK
  <2>3. /\ conn[c].down \o text \in Seq(Bytes \cup {Junk})
        /\ WithoutJunk(got[c] \o (conn[c].down \o text))
             = WithoutJunk(got[c] \o conn[c].down) \o m
    <3>1. text \in Echoed(m) /\ m \in Seq(Bytes)
      BY <1>3
    <3> HIDE DEF c, m
    <3> QED
      BY <2>2, <3>1, EchoedIs
  <2>5. /\ conn' \in [Clients -> Connection]
        /\ \A d \in Clients : d # c => conn'[d] = conn[d]
        /\ conn'[c].state = "open" /\ conn'[c].up = conn[c].up
        /\ ~Ended(c) => conn'[c].down = conn[c].down \o text
    <3>1. CASE Ended(c)
      <4>1. conn' = [conn EXCEPT ![c].reset = text # << >>] /\ (text # << >>) \in BOOLEAN
        BY <1>4, <1>6, <3>1
      <4> HIDE DEF c
      <4> QED
        BY <1>2, <1>3, <3>1, <4>1 DEF Connection
    <3>2. CASE ~Ended(c)
      <4> DEFINE down == conn[c].down \o text
      <4>1. conn' = [conn EXCEPT ![c].down = down] /\ down \in Seq(Bytes \cup {Junk})
        BY <1>4, <2>3, <3>2
      <4>2. conn[c].up = conn[c].up /\ down = conn[c].down \o text
        OBVIOUS
      <4> HIDE DEF c, down
      <4> QED
        BY <1>2, <1>3, <4>1, <4>2 DEF Connection
    <3> QED
      BY <3>1, <3>2
  <2>6. ASSUME Served(c), Balanced(c)
        PROVE  Said(c) = WithoutJunk(got[c] \o conn'[c].down) \o << >> \o conn'[c].up
    <3> DEFINE A == WithoutJunk(got[c] \o conn[c].down)
    <3>1. conn'[c].down = conn[c].down \o text
      BY <2>5, <2>6 DEF Served
    <3>3. InHand(c) = m
      BY <1>1, <1>2, <1>3, InHandIs
    <3>4. Said(c) = (A \o m) \o conn[c].up
      BY <2>6, <3>3 DEF Balanced
    <3>5. A \in Seq(Bytes \cup {Junk}) /\ m \in Seq(Bytes \cup {Junk})
      <4>1. Junk \in Bytes \cup {Junk}
        OBVIOUS
      <4> QED
        BY <1>3, <2>2, <4>1, WithoutJunkGrows, SeqMonotonic
    <3>6. (A \o m) \o << >> = A \o m
      BY <3>5, ConcatProperties, ConcatEmptySeq
    <3> QED
      BY <2>3, <2>5, <3>1, <3>4, <3>6
  <2> HIDE DEF c, m
  <2> QED
    BY <1>1, <1>2, <1>3, <2>1, <2>5, <2>6, StaysWithClient
<1> QED
  BY <1>5, <1>6

-----------------------------------------------------------------------------
(* The theorems.                                                           *)

\* At the start nobody is connected.
LEMMA EchoInitFits == EchoInit => EchoInv
<1> SUFFICES ASSUME EchoInit
             PROVE  EchoInv
  OBVIOUS
<1>1. /\ server \in {"server", "server1"} /\ script \in Scripts
      /\ client = [c \in Clients |-> "connect"] /\ typed = [c \in Clients |-> 0]
      /\ got = [c \in Clients |-> << >>] /\ conn = [c \in Clients |-> NoConnection]
      /\ proc = [p \in Processes |-> IF p = TheFirst THEN Accepting ELSE Absence]
  BY DEF EchoInit, Listening
<1>2. NoConnection \in Connection /\ NoConnection.state = "none"
  BY DEF NoConnection, Connection
<1>3. /\ Absence \in Process /\ Absence.at = "none"
      /\ Accepting \in Process /\ Accepting.at = "accept"
  <2>1. Accepting = [at |-> "accept", peer |-> "none", recv_msg |-> << >>]
    BY DEF Accepting, Absence
  <2> QED
    BY <2>1 DEF Absence, Process
<1>4. \A p \in Processes : proc[p] \in Process /\ proc[p].at \in {"none", "accept"}
  BY <1>1, <1>3
<1>5. EchoTypeOK
  <2>1. proc \in [Processes -> Process]
    BY <1>1, <1>3
  <2>2. conn \in [Clients -> Connection]
    BY <1>1, <1>2
  <2>3. got \in [Clients -> Seq(Bytes \cup {Junk})]
    BY <1>1
  <2> QED
    BY <1>1, <1>4, <2>1, <2>2, <2>3 DEF EchoTypeOK
<1>6. OnePerConnection
  BY <1>1, <1>2, <1>4 DEF OnePerConnection, Talks
<1>7. NothingBefore
  <2>1. \A c \in Clients : Len(script[c]) \in Nat
    BY <1>1, EchoAssumption
  <2> QED
    BY <1>1, <2>1 DEF NothingBefore, NoConnection
<1> QED
  BY <1>1, <1>2, <1>5, <1>6, <1>7 DEF EchoInv, Served

\* Every step of the servers and their clients keeps the connections in order:
\* an open connection has exactly one process of the server, a closed one has
\* none, no process has two clients, and what a client has said is accounted
\* for byte by byte (server.c:43-70, server1.c:45-78).
THEOREM EchoInvariant == EchoSpec => []EchoInv
<1>1. EchoInv /\ [EchoNext]_echoVars => EchoInv'
  <2> SUFFICES ASSUME EchoInv, [EchoNext]_echoVars
               PROVE  EchoInv'
    OBVIOUS
  <2>1. CASE \E c \in Clients : ClientStep(c) \/ Interrupted(c)
    BY <2>1, ConnectFits, ClientSendFits, ClientRecvFits, InterruptedFits DEF ClientStep
  <2>2. CASE \E p \in Processes : ServerStep(p) \/ ForkError(p)
    BY <2>2, AcceptFits, ServerRecvFits, ServerSendFits, ForkErrorFits DEF ServerStep
  <2>3. CASE UNCHANGED echoVars
    <3>1. UNCHANGED << server, script, client, typed, got, conn, proc >>
      BY <2>3 DEF echoVars
    <3>2. EchoTypeOK' /\ OnePerConnection' /\ NothingBefore'
      BY <3>1 DEF EchoInv, EchoTypeOK, OnePerConnection, NothingBefore, Talks
    <3>3. ASSUME NEW c \in Clients, Served(c)'
          PROVE  Balanced(c)'
      <4>1. Served(c)
        BY <3>1, <3>3 DEF Served, Ended
      <4>2. InHand(c)' = InHand(c)
        BY <3>1, <3>2, InHandKept DEF EchoInv
      <4> QED
        BY <3>1, <4>1, <4>2, BalancedKept DEF EchoInv
    <3> QED
      BY <3>2, <3>3 DEF EchoInv
  <2> QED
    BY <2>1, <2>2, <2>3 DEF EchoNext
<1> QED
  BY <1>1, EchoInitFits, PTL DEF EchoSpec

\* What a client of either server gets back is what it has said, in its order,
\* with no other client's words, however its user types, whatever pieces recv()
\* takes, and whoever else comes, goes or is killed: all of EchoesExact
\* (server.c:51-63).
THEOREM EchoesStayExact == EchoSpec => []EchoesExact
<1>1. EchoInv => EchoesExact
  <2> SUFFICES ASSUME EchoInv, NEW c \in Clients, ~Ended(c), conn[c].state \in {"queued", "open"}
               PROVE  /\ Cardinality(TalkingTo(c)) = IF conn[c].state = "open" THEN 1 ELSE 0
                      /\ Said(c) = WithoutJunk(got[c] \o conn[c].down) \o InHand(c) \o conn[c].up
    BY DEF EchoesExact
  <2>1. Balanced(c)
    BY DEF EchoInv, Served
  <2>2. OnePerConnection /\ TalkingTo(c) = {p \in Processes : Talks(p, c)}
    BY DEF EchoInv, TalkingTo, Talks
  <2>3. CASE conn[c].state = "open"
    <3>1. PICK p \in Processes : Talks(p, c)
      BY <2>2, <2>3 DEF OnePerConnection
    <3>2. TalkingTo(c) = {p}
      BY <2>2, <3>1 DEF OnePerConnection
    <3>3. Cardinality({p}) = 1
      BY FS_Singleton
    <3> QED
      BY <2>1, <2>3, <3>2, <3>3 DEF Balanced
  <2>4. CASE conn[c].state = "queued"
    <3>1. TalkingTo(c) = {}
      BY <2>2, <2>4 DEF OnePerConnection
    <3>2. Cardinality({}) = 0
      BY FS_EmptySet
    <3> QED
      BY <2>1, <2>4, <3>1, <3>2 DEF Balanced
  <2> QED
    BY <2>3, <2>4
<1> QED
  BY <1>1, EchoInvariant, PTL

-----------------------------------------------------------------------------
(* How long the requests of the disk take.                                 *)

\* Quotient and remainder.
LEMMA Remainder ==
    ASSUME NEW s \in Nat \ {0}, NEW q \in Nat
    PROVE  /\ q \div s \in Nat /\ q % s \in 0..(s - 1)
           /\ (q \div s) * s + (q % s) = q
OBVIOUS

\* The number n has a times s in it, and r more.
Splits(n, s, a, r) == a \in Nat /\ r \in 0..(s - 1) /\ n = a * s + r

\* Quotient and remainder are those of which the second is less than the divisor.
LEMMA RemainderIs ==
    ASSUME NEW s \in Nat \ {0}, NEW n, NEW a, NEW r, Splits(n, s, a, r)
    PROVE  n % s = r /\ n \div s = a
<1>1. n \in Nat /\ a \in Nat /\ r \in 0..(s - 1) /\ n = a * s + r
  BY DEF Splits
<1>2. PICK b \in Nat, m \in 0..(s - 1) : b = n \div s /\ m = n % s /\ b * s + m = n
  BY <1>1, Remainder
<1>3. b * s + m = a * s + r
  BY <1>1, <1>2
<1>4. ~(b > a)
  <2> SUFFICES ASSUME b > a PROVE FALSE
    OBVIOUS
  <2>1. PICK j \in Nat : b = a + 1 + j
    <3>1. b - a - 1 \in Nat /\ b = a + 1 + (b - a - 1)
      BY <1>1
    <3> QED
      BY <3>1
  <2>2. b * s = a * s + s + j * s /\ j * s \in Nat /\ a * s \in Nat
    BY <1>1, <2>1
  <2> QED
    BY <1>1, <1>3, <2>2
<1>5. ~(a > b)
  <2> SUFFICES ASSUME a > b PROVE FALSE
    OBVIOUS
  <2>1. PICK j \in Nat : a = b + 1 + j
    <3>1. a - b - 1 \in Nat /\ a = b + 1 + (a - b - 1)
      BY <1>1
    <3> QED
      BY <3>1
  <2>2. a * s = b * s + s + j * s /\ j * s \in Nat /\ b * s \in Nat
    BY <1>1, <2>1
  <2> QED
    BY <1>1, <1>3, <2>2
<1>6. b = a
  BY <1>1, <1>4, <1>5
<1>7. m = r
  BY <1>1, <1>3, <1>6
<1> QED
  BY <1>2, <1>6, <1>7

\* Every number is some times s and a rest below s.
LEMMA Divided ==
    ASSUME NEW s \in Nat \ {0}, NEW n \in Nat
    PROVE  \E a \in Nat, r \in 0..(s - 1) : r = n % s /\ Splits(n, s, a, r)
BY Remainder DEF Splits

\* The next time, from n on, at which a sector begins to pass under the head.
NextFull(n) == n + (IF n % RotationTime > 0 THEN RotationTime - (n % RotationTime) ELSE 0)

\* It is the first full sector from n on, less than one rotation later.
LEMMA NextFullIs ==
    ASSUME NEW n \in Nat
    PROVE  /\ NextFull(n) \in Nat /\ NextFull(n) % RotationTime = 0
           /\ n <= NextFull(n) /\ NextFull(n) < n + RotationTime
           /\ \A t \in Nat : t % RotationTime = 0 /\ t >= n => t >= NextFull(n)
<1>1. RotationTime \in Nat \ {0}
  BY DiskTimeAssumption
<1> PICK R \in Nat \ {0} : R = RotationTime
  BY <1>1
<1>2. PICK c \in Nat, m \in 0..(R - 1) : m = n % R /\ Splits(n, R, c, m)
  BY Divided
<1>2a. c * R + m = n
  BY <1>2 DEF Splits
<1>3. PICK b \in Nat : b = IF m > 0 THEN c + 1 ELSE c
  OBVIOUS
<1>4. NextFull(n) = b * R + 0 /\ n <= b * R /\ b * R < n + R /\ b * R \in Nat
  <2>1. CASE m > 0
    <3>0. b = c + 1
      BY <1>3, <2>1
    <3>1. b * R = c * R + R /\ c * R \in Nat
      BY <3>0
    <3>2. NextFull(n) = n + (R - m)
      BY <1>2, <2>1 DEF NextFull
    <3> QED
      BY <1>2a, <2>1, <3>1, <3>2
  <2>2. CASE ~(m > 0)
    <3>1. b * R = c * R /\ NextFull(n) = n + 0 /\ m = 0 /\ c * R \in Nat
      BY <1>2, <1>3, <2>2 DEF NextFull
    <3> QED
      BY <1>2a, <3>1
  <2> QED
    BY <2>1, <2>2
<1>5. NextFull(n) % R = 0
  <2>1. Splits(NextFull(n), R, b, 0)
    BY <1>4 DEF Splits
  <2> QED
    BY <2>1, RemainderIs
<1>6. ASSUME NEW t \in Nat, t % R = 0, t >= n
      PROVE  t >= b * R
  <2>1. PICK e \in Nat : e * R = t
    <3>1. PICK e \in Nat, x \in 0..(R - 1) : x = t % R /\ Splits(t, R, e, x)
      BY Divided
    <3>2. x = 0
      BY <1>6, <3>1
    <3>3. t = e * R + x /\ e * R \in Int
      BY <3>1 DEF Splits
    <3> QED
      BY <3>2, <3>3
  <2> SUFFICES ASSUME e * R < b * R PROVE FALSE
    BY <1>4, <2>1
  <2>2. e < b
    <3> SUFFICES ASSUME e >= b PROVE FALSE
      OBVIOUS
    <3>1. PICK j \in Nat : e = b + j
      <4>1. e - b \in Nat /\ e = b + (e - b)
        OBVIOUS
      <4> QED
        BY <4>1
    <3>2. e * R = b * R + j * R /\ j * R \in Nat
      BY <3>1
    <3> QED
      BY <1>4, <2>1, <3>2
  <2>3. PICK j \in Nat : b = e + 1 + j
    <3>1. b - e - 1 \in Nat /\ b = e + 1 + (b - e - 1)
      BY <2>2
    <3> QED
      BY <3>1
  <2>4. b * R = e * R + R + j * R /\ j * R \in Nat
    BY <2>3
  <2> QED
    BY <1>4, <1>6, <2>1, <2>4
<1> QED
  BY <1>4, <1>5, <1>6

\* ModuloDiff is by how much the head must turn to the sector, and no less will do.
LEMMA ModuloDiffIs ==
    ASSUME NEW a \in Nat, NEW b \in Nat
    PROVE  /\ ModuloDiff(a, b) \in 0..(SectorsPerTrack - 1)
           /\ (b + ModuloDiff(a, b)) % SectorsPerTrack = a % SectorsPerTrack
           /\ \A j \in Nat : j < ModuloDiff(a, b)
                => (b + j) % SectorsPerTrack # a % SectorsPerTrack
<1>1. SectorsPerTrack \in Nat \ {0}
  BY DiskTimeAssumption
<1> PICK S \in Nat \ {0} : S = SectorsPerTrack
  BY <1>1
<1>2. PICK c \in Nat, m \in 0..(S - 1) : m = b % S /\ Splits(b, S, c, m)
  BY Divided
<1>2a. c * S + m = b
  BY <1>2 DEF Splits
<1>3. PICK r \in 0..(S - 1) : r = a % S
  BY Divided
<1>4. ModuloDiff(a, b) = ((r - m) + S) % S
  BY <1>2, <1>3 DEF ModuloDiff
<1>5. CASE r >= m
  <2>1. ModuloDiff(a, b) = r - m
    <3>1. Splits((r - m) + S, S, 1, r - m)
      BY <1>5 DEF Splits
    <3> QED
      BY <1>4, <3>1, RemainderIs
  <2>2. (b + (r - m)) % S = r
    <3>1. Splits(b + (r - m), S, c, r)
      BY <1>2a, <1>5 DEF Splits
    <3> QED
      BY <3>1, RemainderIs
  <2>3. ASSUME NEW j \in Nat, j < r - m
        PROVE  (b + j) % S # r
    <3>1. Splits(b + j, S, c, m + j)
      BY <1>2a, <2>3 DEF Splits
    <3>2. (b + j) % S = m + j
      BY <3>1, RemainderIs
    <3> QED
      BY <2>3, <3>2
  <2> QED
    BY <1>3, <1>5, <2>1, <2>2, <2>3
<1>6. CASE r < m
  <2>0. (c + 1) * S = c * S + S
    OBVIOUS
  <2>1. ModuloDiff(a, b) = (r - m) + S
    <3>1. Splits((r - m) + S, S, 0, (r - m) + S)
      BY <1>6 DEF Splits
    <3> QED
      BY <1>4, <3>1, RemainderIs
  <2>2. (b + ((r - m) + S)) % S = r
    <3>1. Splits(b + ((r - m) + S), S, c + 1, r)
      BY <1>2a, <2>0 DEF Splits
    <3> QED
      BY <3>1, RemainderIs
  <2>3. ASSUME NEW j \in Nat, j < (r - m) + S
        PROVE  (b + j) % S # r
    <3>1. CASE m + j < S
      <4>1. Splits(b + j, S, c, m + j)
        BY <1>2a, <3>1 DEF Splits
      <4>2. (b + j) % S = m + j
        BY <4>1, RemainderIs
      <4> QED
        BY <1>6, <4>2
    <3>2. CASE m + j >= S
      <4>1. Splits(b + j, S, c + 1, m + j - S)
        BY <1>2a, <2>0, <2>3, <3>2 DEF Splits
      <4>2. (b + j) % S = m + j - S
        BY <4>1, RemainderIs
      <4> QED
        BY <2>3, <4>2
    <3> QED
      BY <3>1, <3>2
  <2> QED
    BY <1>3, <1>6, <2>1, <2>2, <2>3
<1> QED
  BY <1>5, <1>6

\* A product with a positive number keeps the order.
LEMMA Multiples ==
    ASSUME NEW r \in Nat \ {0}, NEW a \in Nat, NEW b \in Nat
    PROVE  /\ (a + b) * r = a * r + b * r /\ a * r \in Nat /\ b * r \in Nat
           /\ a < b => a * r + r <= b * r
           /\ a <= b <=> a * r <= b * r
<1>1. (a + b) * r = a * r + b * r /\ a * r \in Nat /\ b * r \in Nat
  OBVIOUS
<1>2. ASSUME NEW m \in Nat, NEW n \in Nat, m < n
      PROVE  m * r + r <= n * r
  <2>1. PICK j \in Nat : n = m + 1 + j
    <3>1. n - m - 1 \in Nat /\ n = m + 1 + (n - m - 1)
      BY <1>2
    <3> QED
      BY <3>1
  <2>2. n * r = m * r + r + j * r /\ j * r \in Nat /\ m * r \in Nat
    BY <2>1
  <2> QED
    BY <2>2
<1>3. a <= b => a * r <= b * r
  <2>1. CASE a = b
    BY <1>1, <2>1
  <2>2. CASE a < b
    BY <1>1, <1>2, <2>2
  <2> QED
    BY <2>1, <2>2
<1>4. b < a => b * r < a * r
  BY <1>1, <1>2
<1> QED
  BY <1>1, <1>2, <1>3, <1>4

\* A multiple of r, divided by it.
LEMMA MultipleIs ==
    ASSUME NEW r \in Nat \ {0}, NEW a \in Nat
    PROVE  (a * r) % r = 0 /\ (a * r) \div r = a
<1>1. Splits(a * r, r, a, 0)
  BY DEF Splits
<1> QED
  BY <1>1, RemainderIs

\* A number without a rest is a multiple.
LEMMA IsMultiple ==
    ASSUME NEW r \in Nat \ {0}, NEW n \in Nat, n % r = 0
    PROVE  \E a \in Nat : n = a * r
<1>1. PICK a \in Nat, x \in 0..(r - 1) : x = n % r /\ Splits(n, r, a, x)
  BY Divided
<1>2. x = 0
  BY <1>1
<1>3. n = a * r + x /\ a * r \in Int
  BY <1>1 DEF Splits
<1> QED
  BY <1>2, <1>3

\* From time n on, sector s is first under the head when it has passed the
\* sectors that are between it and the next full one.
LEMMA FirstUnderHead ==
    ASSUME NEW n \in Nat, NEW s \in Nat
    PROVE  LET begin == NextFull(n) + ModuloDiff(s, NextFull(n) \div RotationTime) * RotationTime IN
           /\ begin \in Nat /\ begin >= n /\ begin >= NextFull(n)
           /\ UnderHead(s, begin)
           /\ \A t \in n..begin - 1 : ~UnderHead(s, t)
<1>1. RotationTime \in Nat \ {0} /\ SectorsPerTrack \in Nat \ {0}
  BY DiskTimeAssumption
<1> DEFINE R == RotationTime
<1>2. /\ NextFull(n) \in Nat /\ NextFull(n) % R = 0 /\ n <= NextFull(n)
      /\ \A t \in Nat : t % R = 0 /\ t >= n => t >= NextFull(n)
  BY NextFullIs
<1>3. PICK q \in Nat : NextFull(n) = q * R
  BY <1>1, <1>2, IsMultiple
<1>4. NextFull(n) \div R = q
  BY <1>1, <1>3, MultipleIs
<1>5. PICK d \in 0..(SectorsPerTrack - 1) :
        /\ d = ModuloDiff(s, q)
        /\ (q + d) % SectorsPerTrack = s % SectorsPerTrack
        /\ \A j \in Nat : j < d => (q + j) % SectorsPerTrack # s % SectorsPerTrack
  BY ModuloDiffIs
<1>6. d \in Nat
  BY <1>1
<1> DEFINE begin == NextFull(n) + d * R
<1>7. begin = (q + d) * R /\ begin \in Nat /\ begin >= NextFull(n)
  <2>1. (q + d) * R = q * R + d * R /\ q * R \in Nat /\ d * R \in Nat
    BY <1>1, <1>6, Multiples
  <2> QED
    BY <1>3, <2>1
<1>8. UnderHead(s, begin)
  <2>1. begin % R = 0 /\ begin \div R = q + d
    BY <1>1, <1>6, <1>7, MultipleIs
  <2> QED
    BY <1>5, <2>1 DEF UnderHead
<1>9. ASSUME NEW t \in n..begin - 1, UnderHead(s, t)
      PROVE  FALSE
  <2>1. t \in Nat /\ t >= n /\ t < begin
    BY <1>7
  <2>2. t % R = 0 /\ (t \div R) % SectorsPerTrack = s % SectorsPerTrack
    BY <1>9 DEF UnderHead
  <2>3. PICK e \in Nat : t = e * R
    BY <1>1, <2>1, <2>2, IsMultiple
  <2>4. t \div R = e
    BY <1>1, <2>3, MultipleIs
  <2>5. q * R <= e * R
    BY <1>2, <1>3, <2>1, <2>2, <2>3
  <2>6. q <= e
    BY <1>1, <2>5, Multiples
  <2>7. ~(q + d <= e)
    <3>1. ~((q + d) * R <= e * R)
      BY <1>7, <2>1, <2>3
    <3>2. q + d \in Nat
      BY <1>6
    <3> QED
      BY <1>1, <3>1, <3>2, Multiples
  <2>8. e - q \in Nat /\ e - q < d /\ q + (e - q) = e
    BY <1>6, <2>6, <2>7
  <2> QED
    BY <1>5, <2>2, <2>4, <2>8
<1>10. begin >= n
  BY <1>2, <1>7
<1> HIDE DEF begin
<1>11. NextFull(n) + ModuloDiff(s, NextFull(n) \div RotationTime) * RotationTime = begin
  BY <1>4, <1>5 DEF begin
<1> QED
  BY <1>7, <1>8, <1>9, <1>10, <1>11

\* Between one request and the next the head came to its track at a full sector,
\* and not later than now, or than the end of the request that is being served.
DiskTimeInv ==
    /\ {diskTicks, bufferInit, due} \subseteq Nat
    /\ lastSector \in SectorNumbers
    /\ bufferInit % RotationTime = 0
    /\ bufferInit <= diskTicks \/ bufferInit <= due

\* What is known of a request when it is made.
LEMMA RequestFacts ==
    ASSUME DiskTimeInv, NEW s \in SectorNumbers
    PROVE  /\ s \in Nat
           /\ TimeToSeek(s) \in Nat
           /\ TimeToSeek(s) = 0 => Track(s) = Track(lastSector)
           /\ diskTicks + TimeToSeek(s) + Rotation(s) = NextFull(diskTicks + TimeToSeek(s))
<1>1. SectorsPerTrack \in Nat \ {0} /\ NumTracks \in Nat /\ SeekTime \in Nat \ {0}
      /\ RotationTime \in Nat \ {0}
  BY DiskTimeAssumption
<1>2. s \in Nat /\ lastSector \in Nat /\ diskTicks \in Nat
  BY <1>1 DEF DiskTimeInv, SectorNumbers
<1>3. Track(s) \in Nat /\ Track(lastSector) \in Nat
  BY <1>1, <1>2, Remainder DEF Track
<1>4. PICK d \in Nat : /\ d = Distance(Track(s), Track(lastSector))
                       /\ d = 0 => Track(s) = Track(lastSector)
  BY <1>3 DEF Distance
<1>5. TimeToSeek(s) = d * SeekTime
  BY <1>4 DEF TimeToSeek
<1>6. TimeToSeek(s) \in Nat
  BY <1>1, <1>5
<1>7. TimeToSeek(s) = 0 => Track(s) = Track(lastSector)
  <2> SUFFICES ASSUME TimeToSeek(s) = 0, d # 0 PROVE FALSE
    BY <1>4
  <2>1. 0 < d /\ 0 \in Nat
    OBVIOUS
  <2>2. 0 * SeekTime + SeekTime <= d * SeekTime
    BY <1>1, <2>1, Multiples
  <2> QED
    BY <1>1, <1>5, <2>2
<1>8. diskTicks + TimeToSeek(s) + Rotation(s) = NextFull(diskTicks + TimeToSeek(s))
  BY <1>2, <1>6 DEF Rotation, NextFull
<1> QED
  BY <1>2, <1>6, <1>7, <1>8

\* The time a request is given, by the case that ComputeLatency decides.
LEMMA LatencyIs ==
    ASSUME DiskTimeInv, NEW s \in SectorNumbers, NEW writing \in BOOLEAN,
           DiskTimeRequest(s, writing)
    PROVE  LET full == NextFull(diskTicks + TimeToSeek(s)) IN
           \/ due' = full + ModuloDiff(s, full \div RotationTime) * RotationTime + RotationTime
           \/ /\ ~writing /\ TimeToSeek(s) = 0
              /\ due' = diskTicks + RotationTime
              /\ (full - bufferInit) \div RotationTime
                   > ModuloDiff(s, bufferInit \div RotationTime)
<1> DEFINE full == NextFull(diskTicks + TimeToSeek(s))
           turn == ModuloDiff(s, full \div RotationTime)
<1>1. /\ s \in Nat /\ TimeToSeek(s) \in Nat /\ diskTicks \in Nat
      /\ diskTicks + TimeToSeek(s) + Rotation(s) = full
  BY RequestFacts DEF DiskTimeInv
<1>2. RotationTime \in Nat \ {0} /\ SectorsPerTrack \in Nat \ {0}
  BY DiskTimeAssumption
<1>3. full \in Nat
  BY <1>1, NextFullIs
<1>4. turn \in Nat
  <2>1. full \div RotationTime \in Nat
    BY <1>2, <1>3, Remainder
  <2>2. turn \in 0..(SectorsPerTrack - 1)
    BY <1>1, <2>1, ModuloDiffIs
  <2> QED
    BY <1>2, <2>2
<1>5. Rotation(s) \in Int
  BY <1>1, <1>2, Remainder DEF Rotation
<1>6. turn * RotationTime \in Nat
  BY <1>2, <1>4
<1>7. due' = diskTicks + ComputeLatency(s, writing)
  BY DEF DiskTimeRequest
<1> HIDE DEF turn, full
<1>8. \/ ComputeLatency(s, writing)
            = TimeToSeek(s) + Rotation(s) + turn * RotationTime + RotationTime
      \/ /\ ~writing /\ TimeToSeek(s) = 0
         /\ ComputeLatency(s, writing) = RotationTime
         /\ (full - bufferInit) \div RotationTime > ModuloDiff(s, bufferInit \div RotationTime)
  BY <1>1, Zenon DEF ComputeLatency, turn
<1>9. CASE ComputeLatency(s, writing)
             = TimeToSeek(s) + Rotation(s) + turn * RotationTime + RotationTime
  <2>1. due' = full + turn * RotationTime + RotationTime
    BY <1>1, <1>2, <1>3, <1>5, <1>6, <1>7, <1>9
  <2> QED
    BY <2>1 DEF turn, full
<1>10. CASE /\ ~writing /\ TimeToSeek(s) = 0
            /\ ComputeLatency(s, writing) = RotationTime
            /\ (full - bufferInit) \div RotationTime
                 > ModuloDiff(s, bufferInit \div RotationTime)
  BY <1>7, <1>10 DEF full
<1> QED
  BY <1>8, <1>9, <1>10

\* A sector that is in the track buffer passed under the head after it came to
\* the track, and before now.
LEMMA Buffered ==
    ASSUME NEW n \in Nat, NEW s \in Nat, NEW start \in Nat, start % RotationTime = 0,
           (NextFull(n) - start) \div RotationTime > ModuloDiff(s, start \div RotationTime)
    PROVE  \E t \in start..n : UnderHead(s, t)
<1> DEFINE R == RotationTime
<1>1. R \in Nat \ {0} /\ SectorsPerTrack \in Nat \ {0}
  BY DiskTimeAssumption
<1>2. NextFull(n) \in Nat /\ NextFull(n) % R = 0 /\ NextFull(n) < n + R
  BY NextFullIs
<1>3. PICK q \in Nat : NextFull(n) = q * R
  BY <1>1, <1>2, IsMultiple
<1>4. PICK p \in Nat : start = p * R
  BY <1>1, IsMultiple
<1>5. start \div R = p
  BY <1>1, <1>4, MultipleIs
<1>6. PICK d \in 0..(SectorsPerTrack - 1) :
        /\ d = ModuloDiff(s, p)
        /\ (p + d) % SectorsPerTrack = s % SectorsPerTrack
  BY ModuloDiffIs
<1>7. d \in Nat
  BY <1>1
<1>8. (NextFull(n) - start) \div R > d
  BY <1>5, <1>6
<1>9. p + d < q
  <2>1. CASE q >= p
    <3>1. q - p \in Nat /\ p + (q - p) = q
      BY <2>1
    <3>2. PICK j \in Nat : j = q - p
      BY <3>1
    <3>3. p + j = q
      BY <3>2
    <3>4. (p + j) * R = p * R + j * R /\ p * R \in Nat /\ j * R \in Nat
      BY <1>1, Multiples
    <3>5. NextFull(n) - start = j * R
      BY <1>3, <1>4, <3>3, <3>4
    <3>6. (j * R) \div R = j
      BY <1>1, MultipleIs
    <3> QED
      BY <1>7, <1>8, <3>3, <3>5, <3>6
  <2>2. CASE q < p
    <3>1. q * R + R <= p * R /\ q * R \in Nat /\ p * R \in Nat
      BY <1>1, <2>2, Multiples
    <3>2. NextFull(n) - start < 0 /\ NextFull(n) - start \in Int
      BY <1>1, <1>3, <1>4, <3>1
    <3>3. ASSUME NEW i \in Int, i < 0, i \div R > d PROVE FALSE
      BY <1>1, <1>7, <3>3
    <3> QED
      BY <1>8, <3>2, <3>3
  <2> QED
    BY <2>1, <2>2
<1>10. /\ (p + d) * R = p * R + d * R /\ p * R \in Nat /\ d * R \in Nat
       /\ (p + d) * R + R <= q * R
  <2>1. p + d \in Nat
    BY <1>7
  <2> QED
    BY <1>1, <1>7, <1>9, <2>1, Multiples
<1>11. start <= (p + d) * R /\ (p + d) * R <= n /\ (p + d) * R \in Nat
  BY <1>1, <1>2, <1>3, <1>4, <1>10
<1>12. UnderHead(s, (p + d) * R)
  <2>1. ((p + d) * R) % R = 0 /\ ((p + d) * R) \div R = p + d
    BY <1>1, <1>7, MultipleIs
  <2> QED
    BY <1>6, <2>1 DEF UnderHead
<1> QED
  BY <1>11, <1>12

\* Every step keeps the invariant.
THEOREM DiskTimeInvariant == DiskTimeSpec => []DiskTimeInv
<1>1. DiskTimeInit => DiskTimeInv
  <2>1. 0 \in SectorNumbers
    <3>1. SectorsPerTrack \in Nat \ {0} /\ NumTracks \in Nat \ {0}
      BY DiskTimeAssumption
    <3>2. SectorsPerTrack * NumTracks \in Nat \ {0}
      BY <3>1
    <3> QED
      BY <3>2 DEF SectorNumbers
  <2>2. 0 % RotationTime = 0
    BY DiskTimeAssumption
  <2> QED
    BY <2>1, <2>2 DEF DiskTimeInit, DiskTimeInv
<1>2. DiskTimeInv /\ [DiskTimeNext]_diskTimeVars => DiskTimeInv'
  <2> SUFFICES ASSUME DiskTimeInv, [DiskTimeNext]_diskTimeVars PROVE DiskTimeInv'
    OBVIOUS
  <2>1. ASSUME NEW s \in SectorNumbers, NEW writing \in BOOLEAN, DiskTimeRequest(s, writing)
        PROVE  DiskTimeInv'
    <3> DEFINE full == NextFull(diskTicks + TimeToSeek(s))
    <3>1. /\ RotationTime \in Nat \ {0} /\ SectorsPerTrack \in Nat \ {0}
          /\ s \in Nat /\ TimeToSeek(s) \in Nat
          /\ {diskTicks, bufferInit, due} \subseteq Nat
      BY RequestFacts, DiskTimeAssumption DEF DiskTimeInv
    <3>2. /\ full \in Nat /\ full % RotationTime = 0
      BY <3>1, NextFullIs
    <3>3. ModuloDiff(s, full \div RotationTime) * RotationTime \in Nat
      <4>1. full \div RotationTime \in Nat
        BY <3>1, <3>2, Remainder
      <4>2. ModuloDiff(s, full \div RotationTime) \in 0..(SectorsPerTrack - 1)
        BY <3>1, <4>1, ModuloDiffIs
      <4>3. ModuloDiff(s, full \div RotationTime) \in Nat
        BY <3>1, <4>2
      <4> QED
        BY <3>1, <4>3
    <3>4. /\ diskTicks' = diskTicks /\ lastSector' = s
          /\ bufferInit' = IF TimeToSeek(s) # 0 THEN full ELSE bufferInit
          /\ due <= diskTicks
      BY <2>1, RequestFacts DEF DiskTimeRequest, UpdateLast, Idle
    <3>5. \/ due' = full + ModuloDiff(s, full \div RotationTime) * RotationTime + RotationTime
          \/ TimeToSeek(s) = 0 /\ due' = diskTicks + RotationTime
      BY <2>1, LatencyIs
    <3> HIDE DEF full
    <3>6. bufferInit <= diskTicks /\ bufferInit % RotationTime = 0
      BY <3>1, <3>4 DEF DiskTimeInv
    <3>7. due' \in Nat /\ (TimeToSeek(s) # 0 => full <= due')
      BY <3>1, <3>2, <3>3, <3>5
    <3>8. bufferInit' \in Nat /\ bufferInit' % RotationTime = 0
      BY <3>1, <3>2, <3>4, <3>6
    <3>9. bufferInit' <= diskTicks' \/ bufferInit' <= due'
      BY <3>1, <3>4, <3>6, <3>7
    <3> QED
      BY <3>1, <3>4, <3>7, <3>8, <3>9 DEF DiskTimeInv, SectorNumbers
  <2>2. CASE DiskTimeTick
    BY <2>2 DEF DiskTimeInv, DiskTimeTick, SectorNumbers
  <2>3. CASE UNCHANGED diskTimeVars
    BY <2>3 DEF DiskTimeInv, diskTimeVars, SectorNumbers
  <2> QED
    BY <2>1, <2>2, <2>3 DEF DiskTimeNext
<1> QED
  BY <1>1, <1>2, PTL DEF DiskTimeSpec

\* A request ends when its sector has passed under the head for the first time
\* after the seek, or, if the track buffer has it, after the time of one sector:
\* Disk::ComputeLatency and UpdateLast, whatever the disk's size and speed.
THEOREM EveryRequestIsServed == DiskTimeSpec => ServedByTheHead
<1>1. ASSUME DiskTimeInv, NEW s \in SectorNumbers, NEW writing \in BOOLEAN,
             DiskTimeRequest(s, writing)
      PROVE  ServedInTime(s, writing)
  <2> DEFINE full == NextFull(diskTicks + TimeToSeek(s))
             soonest == full + ModuloDiff(s, full \div RotationTime) * RotationTime
  <2>1. /\ RotationTime \in Nat \ {0}
        /\ s \in Nat /\ TimeToSeek(s) \in Nat
        /\ {diskTicks, bufferInit, due} \subseteq Nat
        /\ bufferInit % RotationTime = 0
    BY <1>1, RequestFacts, DiskTimeAssumption DEF DiskTimeInv
  <2>2. bufferInit <= diskTicks
    BY <1>1, <2>1 DEF DiskTimeInv, DiskTimeRequest, Idle
  <2>3. CASE due' = soonest + RotationTime
    <3>1. /\ soonest \in Nat /\ soonest >= diskTicks + TimeToSeek(s)
          /\ UnderHead(s, soonest)
          /\ \A t \in diskTicks + TimeToSeek(s)..soonest - 1 : ~UnderHead(s, t)
      <4>1. diskTicks + TimeToSeek(s) \in Nat
        BY <2>1
      <4> QED
        BY <2>1, <4>1, FirstUnderHead
    <3> HIDE DEF soonest
    <3>2. due' - RotationTime = soonest
      BY <2>1, <2>3, <3>1
    <3> QED
      BY <2>2, <3>1, <3>2 DEF ServedInTime
  <2>4. CASE /\ ~writing /\ TimeToSeek(s) = 0
             /\ due' = diskTicks + RotationTime
             /\ (full - bufferInit) \div RotationTime
                  > ModuloDiff(s, bufferInit \div RotationTime)
    <3>1. Track(s) = Track(lastSector) /\ diskTicks + TimeToSeek(s) = diskTicks
      BY <1>1, <2>1, <2>4, RequestFacts
    <3>2. due' - RotationTime = diskTicks
      BY <2>1, <2>4
    <3>3. (NextFull(diskTicks) - bufferInit) \div RotationTime
            > ModuloDiff(s, bufferInit \div RotationTime)
      BY <2>4, <3>1
    <3>4. PICK t \in bufferInit..diskTicks : UnderHead(s, t)
      BY <2>1, <3>3, Buffered
    <3>5. t + RotationTime <= due'
      BY <2>1, <2>4, <3>4
    <3> QED
      BY <2>2, <2>4, <3>1, <3>2, <3>4, <3>5 DEF ServedInTime
  <2> QED
    BY <1>1, <2>3, <2>4, LatencyIs
<1>2. DiskTimeInv => \A s \in SectorNumbers, writing \in BOOLEAN :
          DiskTimeRequest(s, writing) => ServedInTime(s, writing)
  BY <1>1
<1> QED
  BY <1>2, DiskTimeInvariant, PTL DEF ServedByTheHead

-----------------------------------------------------------------------------
(* What the converters of COFF files write.                                *)

SectionHeaders == [s_name : STRING, s_paddr : Nat, s_size : Nat, raw : Seq(0..255)]

Uninit == {".bss", ".sbss"}

\* None of the first d sections of file c that have one of the names has bytes.
None(c, d, names) ==
    \A m \in 1..d : c.sections[m].s_name \in names => c.sections[m].s_size = 0

\* Section n is the only one of them.
Only(c, d, names, n) ==
    /\ c.sections[n].s_name \in names /\ c.sections[n].s_size # 0
    /\ \A m \in 1..d : c.sections[m].s_name \in names /\ c.sections[m].s_size # 0 => m = n

\* It was written, at the place that the segment says.
Written(s, seg, body) ==
    /\ seg.virtualAddr = s.s_paddr /\ seg.size = s.s_size /\ Len(s.raw) = s.s_size
    /\ \A k \in 1..s.s_size :
          /\ (seg.inFileAddr - NoffHeaderSize) + k \in 1..Len(body)
          /\ body[(seg.inFileAddr - NoffHeaderSize) + k] = s.raw[k]

InFile(c, d, names, seg, body) ==
    \/ seg.size = 0 /\ None(c, d, names)
    \/ \E n \in 1..d : Only(c, d, names, n) /\ Written(c.sections[n], seg, body)

\* They have z bytes.
Amount(c, d, names, z) ==
    \/ z = 0 /\ None(c, d, names)
    \/ \E n \in 1..d : Only(c, d, names, n) /\ z = c.sections[n].s_size

Segments == [virtualAddr : Nat, inFileAddr : Nat, size : Nat]

\* The header of a NOFF file, when d sections have been copied.
HeaderIs(c, d, h, body) ==
    /\ \A n \in 1..d : c.sections[n].s_size # 0
          => c.sections[n].s_name \in {".text", ".data", ".rdata", ".bss", ".sbss"}
    /\ InFile(c, d, {".text"}, h.code, body)
    /\ InFile(c, d, {".data", ".rdata"}, h.initData, body)
    /\ \E b, x \in 0..h.uninitData.size :
          /\ h.uninitData.size = b + x
          /\ Amount(c, d, {".bss"}, b)
          /\ Amount(c, d, {".sbss"}, x)

\* The flat file: every byte of it is of one of the d sections, and it ends
\* after them; the top is the end of these and of the uninitialised ones.
FlatIs(c, d, body) ==
    /\ \A n \in 1..d : c.sections[n].s_name \notin Uninit /\ c.sections[n].s_size # 0
          => c.sections[n].s_paddr + c.sections[n].s_size <= Len(body)
    /\ \A a \in 0..Len(body) - 1 : \E n \in 1..d :
          /\ c.sections[n].s_name \notin Uninit
          /\ Covers(c.sections[n], a)
          /\ body[a + 1] = c.sections[n].raw[a - c.sections[n].s_paddr + 1]

TopIs(c, d, m) ==
    /\ \A n \in 1..d : c.sections[n].s_paddr + c.sections[n].s_size <= m
    /\ m = 0 \/ \E n \in 1..d : m = c.sections[n].s_paddr + c.sections[n].s_size

CoffTypes ==
    /\ converter \in {"coff2noff", "coff2flat"}
    /\ coff \in CoffFiles \cup {Absent}
    /\ step \in {"open", "headers", "sections", "exit 0", "exit 1"}
    /\ section \in Nat \ {0} /\ top \in Nat
    /\ noffH \in [code : Segments, initData : Segments, uninitData : Segments]
    /\ step \in {"headers", "sections", "exit 0"} => coff \in CoffFiles
    /\ step \in {"headers", "sections"} /\ writable =>
          output \in [header : {Absent}, body : Seq(0..255)]
    /\ step \in {"open", "headers"} =>
          /\ section = 1 /\ top = 0 /\ noffH = NoffH0
          /\ step = "headers" /\ writable => output.body = << >>
          /\ step = "open" => output = Absent
    /\ step \in {"sections", "exit 0"} =>
          coff.f_nscns <= Len(coff.sections) /\ section <= coff.f_nscns + 1

CoffSoFar ==
    step = "sections" /\ writable =>
        /\ converter = "coff2noff" /\ OneOfEach => HeaderIs(coff, section - 1, noffH, output.body)
        /\ converter = "coff2flat" /\ LinkedAtZero /\ InOrder =>
              FlatIs(coff, section - 1, output.body) /\ TopIs(coff, section - 1, top)

CoffInv == CoffTypes /\ CoffSoFar /\ ConvertsFaithfully

\* A section that has no bytes, or another name, changes nothing.
Skipped(s, names) == s.s_name \in names => s.s_size = 0

\* A section that has no such bytes leaves none.
LEMMA NoneMore ==
    ASSUME NEW c, NEW d \in Nat, NEW names, None(c, d, names), Skipped(c.sections[d + 1], names)
    PROVE  None(c, d + 1, names)
<1>1. \A m \in 1..d + 1 : m \in 1..d \/ m = d + 1
  OBVIOUS
<1> QED
  BY <1>1 DEF None, Skipped

\* It leaves the only one the only one.
LEMMA OnlyMore ==
    ASSUME NEW c, NEW d \in Nat, NEW names, NEW n \in 1..d, Only(c, d, names, n),
           Skipped(c.sections[d + 1], names)
    PROVE  n \in 1..d + 1 /\ Only(c, d + 1, names, n)
<1>1. \A m \in 1..d + 1 : m \in 1..d \/ m = d + 1
  OBVIOUS
<1> QED
  BY <1>1 DEF Only, Skipped

\* It leaves the number of bytes.
LEMMA AmountMore ==
    ASSUME NEW c, NEW d \in Nat, NEW names, NEW z, Amount(c, d, names, z),
           Skipped(c.sections[d + 1], names)
    PROVE  Amount(c, d + 1, names, z)
BY NoneMore, OnlyMore DEF Amount

\* What was written stays when more is written behind it.
LEMMA WrittenMore ==
    ASSUME NEW s, NEW seg, NEW body \in Seq(0..255), NEW more \in Seq(0..255), Written(s, seg, body)
    PROVE  Written(s, seg, body \o more)
<1>1. /\ Len(body \o more) = Len(body) + Len(more) /\ Len(body) \in Nat /\ Len(more) \in Nat
      /\ \A j \in 1..Len(body) : (body \o more)[j] = body[j]
  BY ConcatProperties
<1>2. \A j \in 1..Len(body) : j \in 1..Len(body \o more)
  BY <1>1
<1> QED
  BY <1>1, <1>2 DEF Written

\* It leaves what is in the file, where more may be written behind.
LEMMA InFileMore ==
    ASSUME NEW c, NEW d \in Nat, NEW names, NEW seg, NEW body \in Seq(0..255),
           NEW more \in Seq(0..255), InFile(c, d, names, seg, body),
           Skipped(c.sections[d + 1], names)
    PROVE  InFile(c, d + 1, names, seg, body \o more)
BY NoneMore, OnlyMore, WrittenMore DEF InFile

\* A section that is copied.
LEMMA OnlyNew ==
    ASSUME NEW c, NEW d \in Nat, NEW names, None(c, d, names),
           c.sections[d + 1].s_name \in names, c.sections[d + 1].s_size # 0
    PROVE  d + 1 \in 1..d + 1 /\ Only(c, d + 1, names, d + 1)
<1>1. \A m \in 1..d + 1 : m \in 1..d \/ m = d + 1
  OBVIOUS
<1> QED
  BY <1>1 DEF Only, None

\* A section written at the end of the file, the first of its names, is in the file.
LEMMA InFileNew ==
    ASSUME NEW c, NEW d \in Nat, NEW names, NEW seg, NEW body \in Seq(0..255), None(c, d, names),
           NEW s \in SectionHeaders, s = c.sections[d + 1],
           s.s_name \in names, s.s_size # 0, Len(s.raw) = s.s_size,
           seg = [virtualAddr |-> s.s_paddr, inFileAddr |-> NoffHeaderSize + Len(body),
                  size |-> s.s_size]
    PROVE  InFile(c, d + 1, names, seg, body \o s.raw)
<1>1. PICK raw \in Seq(0..255) : raw = s.raw
  BY DEF SectionHeaders
<1>2. /\ Len(body \o raw) = Len(body) + Len(raw) /\ Len(body) \in Nat /\ Len(raw) \in Nat
      /\ \A k \in 1..Len(raw) : (body \o raw)[Len(body) + k] = raw[k]
  <2>1. Len(body \o raw) = Len(body) + Len(raw) /\ Len(body) \in Nat /\ Len(raw) \in Nat
    BY ConcatProperties, LenProperties
  <2>2. ASSUME NEW k \in 1..Len(raw)
        PROVE  (body \o raw)[Len(body) + k] = raw[k]
    <3>1. Len(body) + k \in 1..Len(body) + Len(raw) /\ ~(Len(body) + k <= Len(body))
          /\ (Len(body) + k) - Len(body) = k
      BY <2>1
    <3> QED
      BY <3>1, ConcatProperties
  <2> QED
    BY <2>1, <2>2
<1>3. seg.inFileAddr - NoffHeaderSize = Len(body)
  BY <1>2, CoffAssumption
<1>4. \A k \in 1..Len(raw) : Len(body) + k \in 1..Len(body \o raw)
  BY <1>2
<1>5. Written(s, seg, body \o raw)
  BY <1>1, <1>2, <1>3, <1>4 DEF Written
<1>6. d + 1 \in 1..d + 1 /\ Only(c, d + 1, names, d + 1)
  BY OnlyNew
<1> QED
  BY <1>1, <1>5, <1>6 DEF InFile

\* Of a name that no other section has there was nothing before.
LEMMA NoneBefore ==
    ASSUME NEW c, NEW d \in Nat, NEW name,
           \A m \in 1..d : c.sections[m].s_name # name
    PROVE  None(c, d, {name})
BY DEF None

HeadersOf == [code : Segments, initData : Segments, uninitData : Segments]
Known == {".text", ".data", ".rdata", ".bss", ".sbss"}

\* An empty section is left out.
LEMMA HeaderSkips ==
    ASSUME NEW c, NEW d \in Nat, NEW h, NEW body \in Seq(0..255), HeaderIs(c, d, h, body),
           c.sections[d + 1].s_size = 0
    PROVE  HeaderIs(c, d + 1, h, body)
<1>1. \A names : Skipped(c.sections[d + 1], names)
  BY DEF Skipped
<1>2. << >> \in Seq(0..255) /\ body \o << >> = body
  BY ConcatEmptySeq
<1>3. \A n \in 1..d + 1 : c.sections[n].s_size # 0 => c.sections[n].s_name \in Known
  <2>1. \A n \in 1..d + 1 : n \in 1..d \/ n = d + 1
    OBVIOUS
  <2> QED
    BY <2>1 DEF HeaderIs, Known
<1>4. \A names, seg : InFile(c, d, names, seg, body) => InFile(c, d + 1, names, seg, body)
  <2> SUFFICES ASSUME NEW names, NEW seg, InFile(c, d, names, seg, body)
               PROVE  InFile(c, d + 1, names, seg, body)
    OBVIOUS
  <2>1. InFile(c, d + 1, names, seg, body \o << >>)
    BY <1>1, <1>2, InFileMore
  <2> QED
    BY <1>2, <2>1
<1>5. \A names, z : Amount(c, d, names, z) => Amount(c, d + 1, names, z)
  BY <1>1, AmountMore
<1> QED
  BY <1>3, <1>4, <1>5 DEF HeaderIs, Known

\* The section of the code, and one of the initialised data.
LEMMA HeaderCode ==
    ASSUME NEW c, NEW d \in Nat, NEW h \in HeadersOf, NEW seg, NEW body \in Seq(0..255),
           HeaderIs(c, d, h, body),
           NEW s \in SectionHeaders, s = c.sections[d + 1],
           \A m \in 1..d : c.sections[m].s_name # s.s_name,
           s.s_name = ".text", s.s_size # 0, Len(s.raw) = s.s_size,
           seg = [virtualAddr |-> s.s_paddr, inFileAddr |-> NoffHeaderSize + Len(body),
                  size |-> s.s_size]
    PROVE  HeaderIs(c, d + 1, [h EXCEPT !.code = seg], body \o s.raw)
<1> DEFINE g == [h EXCEPT !.code = seg]
<1>1. g.code = seg /\ g.initData = h.initData /\ g.uninitData = h.uninitData
  BY DEF HeadersOf
<1>2. /\ Skipped(c.sections[d + 1], {".data", ".rdata"})
      /\ Skipped(c.sections[d + 1], {".bss"}) /\ Skipped(c.sections[d + 1], {".sbss"})
  BY DEF Skipped
<1>3. s.raw \in Seq(0..255)
  BY DEF SectionHeaders
<1>4. \A n \in 1..d + 1 : c.sections[n].s_size # 0 => c.sections[n].s_name \in Known
  <2>1. \A n \in 1..d + 1 : n \in 1..d \/ n = d + 1
    OBVIOUS
  <2> QED
    BY <2>1 DEF HeaderIs, Known
<1>5. InFile(c, d + 1, {".text"}, seg, body \o s.raw)
  <2>1. None(c, d, {".text"})
    BY NoneBefore
  <2>2. s.s_name \in {".text"}
    OBVIOUS
  <2> QED
    BY <2>1, <2>2, InFileNew
<1>6. InFile(c, d + 1, {".data", ".rdata"}, h.initData, body \o s.raw)
  BY <1>2, <1>3, InFileMore DEF HeaderIs
<1>7. \E b, x \in 0..h.uninitData.size :
          /\ h.uninitData.size = b + x
          /\ Amount(c, d + 1, {".bss"}, b)
          /\ Amount(c, d + 1, {".sbss"}, x)
  BY <1>2, AmountMore DEF HeaderIs
<1> HIDE DEF g
<1>8. HeaderIs(c, d + 1, g, body \o s.raw)
  BY <1>1, <1>4, <1>5, <1>6, <1>7 DEF HeaderIs, Known
<1> QED
  BY <1>8 DEF g

\* The code stays where it is.
LEMMA TextStays ==
    ASSUME NEW c, NEW d \in Nat, NEW h, NEW body \in Seq(0..255),
           HeaderIs(c, d, h, body), Skipped(c.sections[d + 1], {".text"})
    PROVE  \A more \in Seq(0..255) : InFile(c, d + 1, {".text"}, h.code, body \o more)
<1>1. InFile(c, d, {".text"}, h.code, body)
  BY DEF HeaderIs
<1> QED
  BY <1>1, InFileMore

\* A data section that was written.
LEMMA HeaderData ==
    ASSUME NEW c, NEW d \in Nat, NEW h \in HeadersOf, NEW seg, NEW body \in Seq(0..255),
           HeaderIs(c, d, h, body), h.initData.size = 0,
           NEW s \in SectionHeaders, s = c.sections[d + 1],
           s.s_name \in {".data", ".rdata"}, s.s_size # 0, Len(s.raw) = s.s_size,
           seg = [virtualAddr |-> s.s_paddr, inFileAddr |-> NoffHeaderSize + Len(body),
                  size |-> s.s_size]
    PROVE  HeaderIs(c, d + 1, [h EXCEPT !.initData = seg], body \o s.raw)
<1> DEFINE g == [h EXCEPT !.initData = seg]
<1>1. g.code = h.code /\ g.initData = seg /\ g.uninitData = h.uninitData
  BY DEF HeadersOf
<1>2. /\ Skipped(c.sections[d + 1], {".text"})
      /\ Skipped(c.sections[d + 1], {".bss"}) /\ Skipped(c.sections[d + 1], {".sbss"})
  BY DEF Skipped
<1>3. s.raw \in Seq(0..255)
  BY DEF SectionHeaders
<1>4. \A n \in 1..d + 1 : c.sections[n].s_size # 0 => c.sections[n].s_name \in Known
  <2>1. \A n \in 1..d + 1 : n \in 1..d \/ n = d + 1
    OBVIOUS
  <2> QED
    BY <2>1 DEF HeaderIs, Known
<1>5. InFile(c, d + 1, {".data", ".rdata"}, seg, body \o s.raw)
  <2>1. InFile(c, d, {".data", ".rdata"}, h.initData, body)
    BY DEF HeaderIs
  <2>2. ~(\E n \in 1..d : Only(c, d, {".data", ".rdata"}, n) /\ Written(c.sections[n], h.initData, body))
    BY DEF Only, Written
  <2>3. None(c, d, {".data", ".rdata"})
    BY <2>1, <2>2 DEF InFile
  <2>4. PICK names : names = {".data", ".rdata"}
    OBVIOUS
  <2>5. None(c, d, names) /\ s.s_name \in names
    BY <2>3, <2>4
  <2>6. InFile(c, d + 1, names, seg, body \o s.raw)
    BY <2>5, InFileNew
  <2> QED
    BY <2>4, <2>6
<1>6. InFile(c, d + 1, {".text"}, h.code, body \o s.raw)
  <2>1. Skipped(c.sections[d + 1], {".text"})
    BY <1>2
  <2>2. \A more \in Seq(0..255) : InFile(c, d + 1, {".text"}, h.code, body \o more)
    BY <2>1, TextStays
  <2> QED
    BY <1>3, <2>2
<1>7. \E b, x \in 0..h.uninitData.size :
          /\ h.uninitData.size = b + x
          /\ Amount(c, d + 1, {".bss"}, b)
          /\ Amount(c, d + 1, {".sbss"}, x)
  BY <1>2, AmountMore DEF HeaderIs
<1> HIDE DEF g
<1>8. HeaderIs(c, d + 1, g, body \o s.raw)
  BY <1>1, <1>4, <1>5, <1>6, <1>7 DEF HeaderIs, Known
<1> QED
  BY <1>8 DEF g

\* One of the uninitialised data: of its name there was none before.
LEMMA HeaderUninit ==
    ASSUME NEW c, NEW d \in Nat, NEW h \in HeadersOf, NEW g \in HeadersOf, NEW body \in Seq(0..255),
           HeaderIs(c, d, h, body),
           NEW s \in SectionHeaders, s = c.sections[d + 1],
           \A m \in 1..d : c.sections[m].s_name # s.s_name,
           s.s_name \in Uninit, s.s_size # 0,
           g.code = h.code, g.initData = h.initData,
           g.uninitData.size = h.uninitData.size + s.s_size
    PROVE  HeaderIs(c, d + 1, g, body)
<1>1. Skipped(c.sections[d + 1], {".text"}) /\ Skipped(c.sections[d + 1], {".data", ".rdata"})
  BY DEF Skipped, Uninit
<1>2. << >> \in Seq(0..255) /\ body \o << >> = body
  BY ConcatEmptySeq
<1>3. \A n \in 1..d + 1 : c.sections[n].s_size # 0 => c.sections[n].s_name \in Known
  <2>1. \A n \in 1..d + 1 : n \in 1..d \/ n = d + 1
    OBVIOUS
  <2> QED
    BY <2>1 DEF HeaderIs, Known, Uninit
<1>4. /\ InFile(c, d + 1, {".text"}, h.code, body)
      /\ InFile(c, d + 1, {".data", ".rdata"}, h.initData, body)
  <2>1. /\ InFile(c, d + 1, {".text"}, h.code, body \o << >>)
        /\ InFile(c, d + 1, {".data", ".rdata"}, h.initData, body \o << >>)
    BY <1>1, <1>2, InFileMore DEF HeaderIs
  <2> QED
    BY <1>2, <2>1
<1>5. PICK b \in Nat, x \in Nat :
          /\ h.uninitData.size = b + x
          /\ Amount(c, d, {".bss"}, b)
          /\ Amount(c, d, {".sbss"}, x)
  BY DEF HeaderIs
<1>6. s.s_size \in Nat
  BY DEF SectionHeaders
<1>7. \A name : s.s_name = name => Amount(c, d + 1, {name}, s.s_size) /\ None(c, d, {name})
  <2> SUFFICES ASSUME NEW name, s.s_name = name
               PROVE  Amount(c, d + 1, {name}, s.s_size) /\ None(c, d, {name})
    OBVIOUS
  <2>1. None(c, d, {name})
    BY NoneBefore
  <2>2. d + 1 \in 1..d + 1 /\ Only(c, d + 1, {name}, d + 1)
    BY <2>1, OnlyNew
  <2> QED
    BY <2>1, <2>2 DEF Amount
<1>8. \A names, z : None(c, d, names) /\ Amount(c, d, names, z) => z = 0
  BY DEF Amount, None, Only
<1>9. \E y, z \in Nat :
          /\ g.uninitData.size = y + z
          /\ Amount(c, d + 1, {".bss"}, y)
          /\ Amount(c, d + 1, {".sbss"}, z)
  <2>1. CASE s.s_name = ".bss"
    <3>1. b = 0 /\ Amount(c, d + 1, {".bss"}, s.s_size)
      BY <1>5, <1>7, <1>8, <2>1
    <3>2. Amount(c, d + 1, {".sbss"}, x)
      <4>1. Skipped(c.sections[d + 1], {".sbss"})
        BY <2>1 DEF Skipped
      <4> QED
        BY <1>5, <4>1, AmountMore
    <3>3. g.uninitData.size = s.s_size + x
      BY <1>5, <1>6, <3>1
    <3> QED
      BY <1>6, <3>1, <3>2, <3>3
  <2>2. CASE s.s_name = ".sbss"
    <3>1. x = 0 /\ Amount(c, d + 1, {".sbss"}, s.s_size)
      BY <1>5, <1>7, <1>8, <2>2
    <3>2. Amount(c, d + 1, {".bss"}, b)
      <4>1. Skipped(c.sections[d + 1], {".bss"})
        BY <2>2 DEF Skipped
      <4> QED
        BY <1>5, <4>1, AmountMore
    <3>3. g.uninitData.size = b + s.s_size
      BY <1>5, <1>6, <3>1
    <3> QED
      BY <1>6, <3>1, <3>2, <3>3
  <2> QED
    BY <2>1, <2>2 DEF Uninit
<1>10. \E y, z \in 0..g.uninitData.size :
          /\ g.uninitData.size = y + z
          /\ Amount(c, d + 1, {".bss"}, y)
          /\ Amount(c, d + 1, {".sbss"}, z)
  <2>1. PICK y \in Nat, z \in Nat :
          /\ g.uninitData.size = y + z
          /\ Amount(c, d + 1, {".bss"}, y)
          /\ Amount(c, d + 1, {".sbss"}, z)
    BY <1>9
  <2>2. y \in 0..g.uninitData.size /\ z \in 0..g.uninitData.size
    BY <2>1
  <2> QED
    BY <2>1, <2>2
<1> QED
  BY <1>3, <1>4, <1>10 DEF HeaderIs, Known

-----------------------------------------------------------------------------
(* What the memory of a COFF file is.                                      *)

\* The file can be converted as far as its header goes.
Readable == coff \in CoffFiles /\ coff.f_nscns <= Len(coff.sections)

\* Of finitely many numbers, and 0, one is the largest.
LEMMA Largest ==
    ASSUME NEW f, NEW n \in Nat, \A i \in 1..n : f[i] \in Nat
    PROVE  \E e \in {f[i] : i \in 1..n} \cup {0} : \A i \in 1..n : f[i] <= e
<1> DEFINE Has(m) == \E e \in {f[i] : i \in 1..m} \cup {0} : \A i \in 1..m : f[i] <= e
           Lacking == {m \in 0..n : ~Has(m)}
<1>0. Has(0)
  OBVIOUS
<1> HIDE DEF Has
<1>1. ASSUME Lacking # {} PROVE FALSE
  <2>1. PICK m \in Lacking : \A k \in Lacking : m <= k
    <3>1. Lacking \in SUBSET Nat
      OBVIOUS
    <3> QED
      BY <1>1, <3>1, Least
  <2>2. m # 0
    <3>1. Has(0)
      BY <1>0
    <3> QED
      BY <2>1, <3>1
  <2>3. m - 1 \in 0..n /\ m \in 1..n
    BY <2>1, <2>2
  <2>4. Has(m - 1)
    BY <2>1, <2>3
  <2>5. PICK e \in {f[i] : i \in 1..m - 1} \cup {0} : \A i \in 1..m - 1 : f[i] <= e
    BY <2>4 DEF Has
  <2>6. e \in {f[i] : i \in 1..m} \cup {0} /\ f[m] \in {f[i] : i \in 1..m} \cup {0}
        /\ e \in Nat /\ f[m] \in Nat
    BY <2>3, <2>5
  <2>7. \A i \in 1..m : i \in 1..m - 1 \/ i = m
    BY <2>3
  <2>8. \A i \in 1..m : f[i] \in Nat
    BY <2>3
  <2>9. CASE f[m] <= e
    <3>1. \A i \in 1..m : f[i] <= e
      BY <2>5, <2>7, <2>9
    <3>2. Has(m)
      BY <2>6, <3>1 DEF Has
    <3> QED
      BY <2>1, <3>2
  <2>10. CASE e <= f[m]
    <3>1. \A i \in 1..m : f[i] <= f[m]
      BY <2>5, <2>6, <2>7, <2>8, <2>10
    <3>2. Has(m)
      BY <2>6, <3>1 DEF Has
    <3> QED
      BY <2>1, <3>2
  <2> QED
    BY <2>6, <2>9, <2>10
<1>2. Has(n)
  BY <1>1
<1> QED
  BY <1>2 DEF Has

\* The sections are those that the file has room for in its headers.
LEMMA SectionsAre ==
    ASSUME Readable
    PROVE  /\ coff.f_nscns \in Nat
           /\ \A n \in 1..coff.f_nscns :
                  coff.sections[n] \in SectionHeaders /\ coff.sections[n] \in Sections
           /\ \A s \in Sections : s \in SectionHeaders /\ \E n \in 1..coff.f_nscns : s = coff.sections[n]
<1>1. coff.f_nscns \in Nat /\ coff.sections \in Seq(SectionHeaders)
  BY CoffAssumption DEF Readable, SectionHeaders
<1>2. ASSUME NEW n \in 1..coff.f_nscns
      PROVE  coff.sections[n] \in SectionHeaders
  <2>1. n \in 1..Len(coff.sections)
    BY <1>1, LenProperties DEF Readable
  <2> QED
    BY <1>1, <2>1, ElementOfSeq
<1> QED
  BY <1>1, <1>2 DEF Sections

\* The end of the memory is after every section, and right after one.
LEMMA EndIs ==
    ASSUME Readable
    PROVE  /\ End \in Nat
           /\ \A s \in Sections : s.s_paddr + s.s_size <= End
           /\ End = 0 \/ \E s \in Sections : End = s.s_paddr + s.s_size
<1> DEFINE n == coff.f_nscns
           f == [i \in 1..n |-> coff.sections[i].s_paddr + coff.sections[i].s_size]
           Ends == {s.s_paddr + s.s_size : s \in Sections} \cup {0}
<1>1. n \in Nat /\ \A i \in 1..n : f[i] \in Nat
  BY SectionsAre DEF SectionHeaders
<1>2. {f[i] : i \in 1..n} \cup {0} = Ends
  BY DEF Sections
<1> HIDE DEF n, f
<1>3. PICK e \in {f[i] : i \in 1..n} \cup {0} : \A i \in 1..n : f[i] <= e
  BY <1>1, Largest
<1>4. e \in Ends /\ \A s \in Sections : s.s_paddr + s.s_size <= e
  BY <1>2, <1>3 DEF f, n, Sections
<1>5. End \in Ends /\ \A s \in Sections : s.s_paddr + s.s_size <= End
  BY <1>4 DEF End
<1>6. Ends \subseteq Nat
  BY SectionsAre DEF SectionHeaders
<1> QED
  BY <1>5, <1>6

\* No address is in two sections of a file that is linked at 0.
LEMMA CoveredOnce ==
    ASSUME Readable, LinkedAtZero, NEW s \in Sections, NEW t \in Sections, NEW a \in Int,
           Covers(s, a), Covers(t, a)
    PROVE  s = t /\ a \in 0..End - 1
<1>1. s \in SectionHeaders /\ s.s_paddr \in Nat /\ s.s_size \in Nat
  BY SectionsAre DEF SectionHeaders
<1>2. End \in Nat /\ s.s_paddr + s.s_size <= End
  BY EndIs
<1>3. a \in 0..End - 1
  BY <1>1, <1>2 DEF Covers
<1> QED
  BY <1>3 DEF LinkedAtZero

\* The byte at an address is that of the section with contents that covers it.
LEMMA CoffByteIs ==
    ASSUME Readable, LinkedAtZero, NEW a \in Int
    PROVE  /\ \A s \in Sections : Covers(s, a) /\ s.s_name \notin Uninit
                => CoffByte(a) = s.raw[a - s.s_paddr + 1]
           /\ (\A s \in Sections : Covers(s, a) => s.s_name \in Uninit) => CoffByte(a) = 0
<1> DEFINE covers == {s \in Sections : Covers(s, a) /\ s.s_name \notin {".bss", ".sbss"}}
<1>1. ASSUME NEW s \in Sections, Covers(s, a), s.s_name \notin Uninit
      PROVE  CoffByte(a) = s.raw[a - s.s_paddr + 1]
  <2>1. s \in covers
    BY <1>1 DEF Uninit
  <2>2. \A t \in covers : t = s
    BY <1>1, CoveredOnce
  <2>3. (CHOOSE t \in covers : TRUE) = s /\ covers # {}
    BY <2>1, <2>2
  <2> QED
    BY <2>3 DEF CoffByte
<1>2. ASSUME \A s \in Sections : Covers(s, a) => s.s_name \in Uninit
      PROVE  CoffByte(a) = 0
  <2>1. covers = {}
    BY <1>2 DEF Uninit
  <2> QED
    BY <2>1 DEF CoffByte
<1> QED
  BY <1>1, <1>2

-----------------------------------------------------------------------------
(* A NOFF file that is finished.                                           *)

\* The addresses of the sections that have one of the names, and how many.
LEMMA AmountIs ==
    ASSUME Readable, NEW names, NEW z, Amount(coff, coff.f_nscns, names, z)
    PROVE  \E A : /\ IsFiniteSet(A) /\ Cardinality(A) = z /\ A \subseteq Int
                  /\ \A a \in Int : a \in A <=> \E s \in Sections : s.s_name \in names /\ Covers(s, a)
<1>1. CASE z = 0 /\ None(coff, coff.f_nscns, names)
  <2>1. ASSUME NEW a \in Int, NEW s \in Sections, s.s_name \in names, Covers(s, a)
        PROVE  FALSE
    <3>1. s.s_size = 0
      BY <1>1, <2>1, SectionsAre DEF None
    <3> QED
      BY <2>1, <3>1 DEF Covers
  <2>2. IsFiniteSet({}) /\ Cardinality({}) = 0 /\ {} \subseteq Int
    BY FS_EmptySet
  <2> QED
    BY <1>1, <2>1, <2>2
<1>2. CASE \E n \in 1..coff.f_nscns : Only(coff, coff.f_nscns, names, n) /\ z = coff.sections[n].s_size
  <2>1. PICK n \in 1..coff.f_nscns : Only(coff, coff.f_nscns, names, n) /\ z = coff.sections[n].s_size
    BY <1>2
  <2>2. PICK t \in Sections : t = coff.sections[n] /\ t \in SectionHeaders
    BY SectionsAre
  <2>3. t.s_paddr \in Nat /\ t.s_size \in Nat /\ z = t.s_size /\ t.s_size # 0 /\ t.s_name \in names
    BY <2>1, <2>2 DEF SectionHeaders, Only
  <2> DEFINE A == t.s_paddr..t.s_paddr + t.s_size - 1
  <2>4. IsFiniteSet(A) /\ Cardinality(A) = z /\ A \subseteq Int
    <3>1. IsFiniteSet(A) /\ Cardinality(A) = IF t.s_paddr > t.s_paddr + t.s_size - 1 THEN 0
              ELSE (t.s_paddr + t.s_size - 1) - t.s_paddr + 1
      <4>1. t.s_paddr \in Int /\ t.s_paddr + t.s_size - 1 \in Int
        BY <2>3
      <4> QED
        BY <4>1, FS_Interval
    <3>2. A \subseteq Int
      BY <2>3
    <3> HIDE DEF A
    <3> QED
      BY <2>3, <3>1, <3>2
  <2>5. \A a \in Int : a \in A <=> Covers(t, a)
    BY <2>3 DEF Covers
  <2>6. \A a \in Int, s \in Sections : s.s_name \in names /\ Covers(s, a) => s = t
    <3> SUFFICES ASSUME NEW a \in Int, NEW s \in Sections, s.s_name \in names, Covers(s, a)
                 PROVE  s = t
      OBVIOUS
    <3>1. s.s_size # 0
      BY DEF Covers
    <3> QED
      BY <2>1, <2>2, <3>1, SectionsAre DEF Only
  <2> HIDE DEF A
  <2> QED
    BY <2>3, <2>4, <2>5, <2>6
<1> QED
  BY <1>1, <1>2 DEF Amount

\* Disjoint sets count together.
LEMMA TwoParts ==
    ASSUME NEW A, NEW B, IsFiniteSet(A), IsFiniteSet(B), A \cap B = {}
    PROVE  IsFiniteSet(A \cup B) /\ Cardinality(A \cup B) = Cardinality(A) + Cardinality(B)
<1>1. /\ IsFiniteSet(A \cup B)
      /\ Cardinality(A \cup B) = Cardinality(A) + Cardinality(B) - Cardinality(A \cap B)
  BY FS_Union
<1>2. Cardinality(A \cap B) = 0
  BY FS_EmptySet
<1>3. Cardinality(A) \in Nat /\ Cardinality(B) \in Nat
  BY FS_CardinalityType
<1> QED
  BY <1>1, <1>2, <1>3

\* So do four of them.
LEMMA FourParts ==
    ASSUME NEW A, NEW B, NEW C, NEW D,
           IsFiniteSet(A), IsFiniteSet(B), IsFiniteSet(C), IsFiniteSet(D),
           A \cap B = {}, (A \cup B) \cap C = {}, (A \cup B \cup C) \cap D = {}
    PROVE  Cardinality(A \cup B \cup C \cup D)
             = Cardinality(A) + Cardinality(B) + (Cardinality(C) + Cardinality(D))
<1>1. /\ Cardinality(A) \in Nat /\ Cardinality(B) \in Nat
      /\ Cardinality(C) \in Nat /\ Cardinality(D) \in Nat
  BY FS_CardinalityType
<1>2. IsFiniteSet(A \cup B) /\ Cardinality(A \cup B) = Cardinality(A) + Cardinality(B)
  BY TwoParts
<1>3. IsFiniteSet(A \cup B \cup C)
      /\ Cardinality(A \cup B \cup C) = Cardinality(A \cup B) + Cardinality(C)
  BY <1>2, TwoParts
<1>4. Cardinality(A \cup B \cup C \cup D) = Cardinality(A \cup B \cup C) + Cardinality(D)
  BY <1>3, TwoParts
<1> QED
  BY <1>1, <1>2, <1>3, <1>4

\* An address is in a segment if the section of the segment covers it, and the
\* byte that the segment has for it is that of the section.
LEMMA SegmentIs ==
    ASSUME Readable, NEW names, NEW seg \in Segments, NEW body \in Seq(0..255),
           InFile(coff, coff.f_nscns, names, seg, body), NEW a \in Int
    PROVE  /\ Amount(coff, coff.f_nscns, names, seg.size)
           /\ \A s \in Sections : s.s_name \in names /\ Covers(s, a)
                => a - seg.virtualAddr \in 0..seg.size - 1
           /\ a - seg.virtualAddr \in 0..seg.size - 1 =>
                \E s \in Sections :
                    /\ s.s_name \in names /\ Covers(s, a)
                    /\ seg.inFileAddr - NoffHeaderSize + a - seg.virtualAddr + 1 \in DOMAIN body
                    /\ body[seg.inFileAddr - NoffHeaderSize + a - seg.virtualAddr + 1]
                         = s.raw[a - s.s_paddr + 1]
<1>1. CASE seg.size = 0 /\ None(coff, coff.f_nscns, names)
  <2>1. ASSUME NEW s \in Sections, s.s_name \in names, Covers(s, a)
        PROVE  FALSE
    <3>1. s.s_size = 0
      BY <1>1, <2>1, SectionsAre DEF None
    <3> QED
      BY <2>1, <3>1 DEF Covers
  <2>2. a - seg.virtualAddr \notin 0..seg.size - 1
    BY <1>1
  <2> QED
    BY <1>1, <2>1, <2>2 DEF Amount
<1>2. CASE \E n \in 1..coff.f_nscns :
              Only(coff, coff.f_nscns, names, n) /\ Written(coff.sections[n], seg, body)
  <2>1. PICK n \in 1..coff.f_nscns :
              Only(coff, coff.f_nscns, names, n) /\ Written(coff.sections[n], seg, body)
    BY <1>2
  <2>2. PICK t \in Sections : t = coff.sections[n] /\ t \in SectionHeaders
    BY SectionsAre
  <2>3. /\ t.s_paddr \in Nat /\ t.s_size \in Nat /\ t.s_name \in names
        /\ seg.virtualAddr = t.s_paddr /\ seg.size = t.s_size
        /\ \A k \in 1..t.s_size :
              /\ (seg.inFileAddr - NoffHeaderSize) + k \in 1..Len(body)
              /\ body[(seg.inFileAddr - NoffHeaderSize) + k] = t.raw[k]
    BY <2>1, <2>2 DEF SectionHeaders, Only, Written
  <2>4. \A s \in Sections : s.s_name \in names /\ Covers(s, a) => s = t
    <3> SUFFICES ASSUME NEW s \in Sections, s.s_name \in names, Covers(s, a)
                 PROVE  s = t
      OBVIOUS
    <3>1. s.s_size # 0
      BY DEF Covers
    <3> QED
      BY <2>1, <2>2, <3>1, SectionsAre DEF Only
  <2>5. Covers(t, a) <=> a - seg.virtualAddr \in 0..seg.size - 1
    BY <2>3 DEF Covers
  <2>6. ASSUME Covers(t, a)
        PROVE  /\ seg.inFileAddr - NoffHeaderSize + a - seg.virtualAddr + 1 \in DOMAIN body
               /\ body[seg.inFileAddr - NoffHeaderSize + a - seg.virtualAddr + 1]
                    = t.raw[a - t.s_paddr + 1]
    <3>1. seg.inFileAddr \in Nat /\ NoffHeaderSize \in Nat
      BY CoffAssumption DEF Segments
    <3>2. PICK k \in 1..t.s_size : k = a - t.s_paddr + 1
      BY <2>3, <2>6 DEF Covers
    <3>3. seg.inFileAddr - NoffHeaderSize + a - seg.virtualAddr + 1
            = (seg.inFileAddr - NoffHeaderSize) + k
      BY <2>3, <3>1, <3>2
    <3>4. DOMAIN body = 1..Len(body)
      BY LenProperties
    <3> QED
      BY <2>3, <3>2, <3>3, <3>4
  <2>7. Amount(coff, coff.f_nscns, names, seg.size)
    BY <2>1, <2>2, <2>3 DEF Amount
  <2> QED
    BY <2>3, <2>4, <2>5, <2>6, <2>7
<1> QED
  BY <1>1, <1>2 DEF InFile

\* The segments of the file are as long as the memory together, since no
\* address is in two sections, and every one before the end is in one.
LEMMA NoffSpaceIs ==
    ASSUME Readable, LinkedAtZero, NEW noff, noff.header \in HeadersOf, noff.body \in Seq(0..255),
           HeaderIs(coff, coff.f_nscns, noff.header, noff.body)
    PROVE  NoffSpace(noff) = End
<1> DEFINE N == coff.f_nscns
           OfNames(A, names) ==
               \A a \in Int : a \in A <=> \E s \in Sections : s.s_name \in names /\ Covers(s, a)
<1>1. noff.header.code \in Segments /\ noff.header.initData \in Segments
  BY DEF HeadersOf
<1>2. /\ Amount(coff, N, {".text"}, noff.header.code.size)
      /\ Amount(coff, N, {".data", ".rdata"}, noff.header.initData.size)
  <2>1. 0 \in Int
    OBVIOUS
  <2> QED
    BY <1>1, <2>1, SegmentIs DEF HeaderIs
<1>3. PICK b \in Nat, x \in Nat :
          /\ noff.header.uninitData.size = b + x
          /\ Amount(coff, N, {".bss"}, b)
          /\ Amount(coff, N, {".sbss"}, x)
  BY DEF HeaderIs
<1>4. PICK A : /\ IsFiniteSet(A) /\ Cardinality(A) = noff.header.code.size
               /\ A \subseteq Int /\ OfNames(A, {".text"})
  BY <1>2, AmountIs
<1>5. PICK B : /\ IsFiniteSet(B) /\ Cardinality(B) = noff.header.initData.size
               /\ B \subseteq Int /\ OfNames(B, {".data", ".rdata"})
  BY <1>2, AmountIs
<1>6. PICK C : IsFiniteSet(C) /\ Cardinality(C) = b /\ C \subseteq Int /\ OfNames(C, {".bss"})
  BY <1>3, AmountIs
<1>7. PICK D : IsFiniteSet(D) /\ Cardinality(D) = x /\ D \subseteq Int /\ OfNames(D, {".sbss"})
  BY <1>3, AmountIs
<1>8. ASSUME NEW P, NEW Q, NEW m, NEW n, P \subseteq Int, Q \subseteq Int,
             OfNames(P, m), OfNames(Q, n), m \cap n = {}
      PROVE  P \cap Q = {}
  <2> SUFFICES ASSUME NEW a \in P, a \in Q PROVE FALSE
    OBVIOUS
  <2>1. a \in Int
    BY <1>8
  <2>2. PICK s \in Sections : s.s_name \in m /\ Covers(s, a)
    BY <1>8, <2>1
  <2>3. PICK t \in Sections : t.s_name \in n /\ Covers(t, a)
    BY <1>8, <2>1
  <2>4. s = t
    BY <2>1, <2>2, <2>3, CoveredOnce
  <2> QED
    BY <1>8, <2>2, <2>3, <2>4
<1>9. /\ A \cap B = {} /\ A \cap C = {} /\ A \cap D = {}
      /\ B \cap C = {} /\ B \cap D = {} /\ C \cap D = {}
  <2>1. /\ {".text"} \cap {".data", ".rdata"} = {} /\ {".text"} \cap {".bss"} = {}
        /\ {".text"} \cap {".sbss"} = {} /\ {".data", ".rdata"} \cap {".bss"} = {}
        /\ {".data", ".rdata"} \cap {".sbss"} = {} /\ {".bss"} \cap {".sbss"} = {}
    OBVIOUS
  <2> HIDE DEF OfNames
  <2>2. A \cap B = {}
    BY <1>4, <1>5, <1>8, <2>1
  <2>3. A \cap C = {}
    BY <1>4, <1>6, <1>8, <2>1
  <2>4. A \cap D = {}
    BY <1>4, <1>7, <1>8, <2>1
  <2>5. B \cap C = {}
    BY <1>5, <1>6, <1>8, <2>1
  <2>6. B \cap D = {}
    BY <1>5, <1>7, <1>8, <2>1
  <2>7. C \cap D = {}
    BY <1>6, <1>7, <1>8, <2>1
  <2> QED
    BY <2>2, <2>3, <2>4, <2>5, <2>6, <2>7
<1>10. A \cup B \cup C \cup D = 0..End - 1
  <2>1. ASSUME NEW a \in A \cup B \cup C \cup D
        PROVE  a \in 0..End - 1
    <3>1. a \in Int /\ \E s \in Sections : Covers(s, a)
      BY <1>4, <1>5, <1>6, <1>7
    <3> QED
      BY <3>1, CoveredOnce
  <2>2. ASSUME NEW a \in 0..End - 1
        PROVE  a \in A \cup B \cup C \cup D
    <3>1. a \in Int /\ End \in Nat
      BY EndIs
    <3>2. PICK s \in Sections : Covers(s, a)
      BY DEF LinkedAtZero
    <3>3. s.s_name \in Known
      <4>1. s.s_size # 0
        BY <3>2 DEF Covers
      <4>2. PICK n \in 1..N : s = coff.sections[n]
        BY SectionsAre
      <4> QED
        BY <4>1, <4>2 DEF HeaderIs, Known
    <3>4. \/ s.s_name \in {".text"} \/ s.s_name \in {".data", ".rdata"}
          \/ s.s_name \in {".bss"} \/ s.s_name \in {".sbss"}
      BY <3>3 DEF Known
    <3> QED
      BY <1>4, <1>5, <1>6, <1>7, <3>1, <3>2, <3>4
  <2> QED
    BY <2>1, <2>2
<1>11. Cardinality(A \cup B \cup C \cup D)
         = Cardinality(A) + Cardinality(B) + (Cardinality(C) + Cardinality(D))
  <2>1. A \cap B = {} /\ (A \cup B) \cap C = {} /\ (A \cup B \cup C) \cap D = {}
    BY <1>9
  <2>2. IsFiniteSet(A) /\ IsFiniteSet(B) /\ IsFiniteSet(C) /\ IsFiniteSet(D)
    BY <1>4, <1>5, <1>6, <1>7
  <2> QED
    BY <2>1, <2>2, FourParts
<1>12. Cardinality(0..End - 1) = End
  <2>1. End \in Nat /\ 0 \in Int /\ End - 1 \in Int
    BY EndIs
  <2>2. Cardinality(0..End - 1) = IF 0 > End - 1 THEN 0 ELSE (End - 1) - 0 + 1
    BY <2>1, FS_Interval
  <2> QED
    BY <2>1, <2>2
<1>13. /\ noff.header.code.size \in Nat /\ noff.header.initData.size \in Nat
  BY <1>1 DEF Segments
<1> QED
  BY <1>3, <1>4, <1>5, <1>6, <1>7, <1>10, <1>11, <1>12, <1>13 DEF NoffSpace

\* The memory that NachOS builds from it.
LEMMA NoffByteIs ==
    ASSUME Readable, LinkedAtZero, NEW noff, noff.header \in HeadersOf, noff.body \in Seq(0..255),
           HeaderIs(coff, coff.f_nscns, noff.header, noff.body), NEW a \in Int
    PROVE  NoffByte(noff, a) = CoffByte(a)
<1> DEFINE code == noff.header.code
           data == noff.header.initData
           within(seg) == a - seg.virtualAddr \in 0..seg.size - 1
           n(seg) == seg.inFileAddr - NoffHeaderSize + a - seg.virtualAddr + 1
<1>1. code \in Segments /\ data \in Segments
  BY DEF HeadersOf
<1>2. /\ InFile(coff, coff.f_nscns, {".text"}, code, noff.body)
      /\ InFile(coff, coff.f_nscns, {".data", ".rdata"}, data, noff.body)
  BY DEF HeaderIs
<1> HIDE DEF code, data
<1> DEFINE Holds(seg, names) ==
              /\ \A s \in Sections : s.s_name \in names /\ Covers(s, a) => within(seg)
              /\ within(seg) => \E s \in Sections :
                    /\ s.s_name \in names /\ Covers(s, a)
                    /\ n(seg) \in DOMAIN noff.body
                    /\ noff.body[n(seg)] = s.raw[a - s.s_paddr + 1]
<1>3. ASSUME NEW seg \in Segments, NEW names, InFile(coff, coff.f_nscns, names, seg, noff.body)
      PROVE  Holds(seg, names)
  BY <1>3, SegmentIs
<1>4. Holds(code, {".text"}) /\ Holds(data, {".data", ".rdata"})
  <2> HIDE DEF Holds
  <2> QED
    BY <1>1, <1>2, <1>3
<1>5. NoffByte(noff, a) =
        CASE within(data) -> IF n(data) \in DOMAIN noff.body THEN noff.body[n(data)] ELSE Absent
          [] within(code) -> IF n(code) \in DOMAIN noff.body THEN noff.body[n(code)] ELSE Absent
          [] OTHER -> 0
  BY DEF NoffByte, code, data
<1>6. \A s \in Sections : s.s_name \in {".text", ".data", ".rdata"} => s.s_name \notin Uninit
  BY DEF Uninit
<1>7. ~(within(data) /\ within(code))
  <2> SUFFICES ASSUME within(data), within(code) PROVE FALSE
    OBVIOUS
  <2>1. PICK s \in Sections : s.s_name \in {".text"} /\ Covers(s, a)
    BY <1>4
  <2>2. PICK t \in Sections : t.s_name \in {".data", ".rdata"} /\ Covers(t, a)
    BY <1>4
  <2>3. s = t
    BY <2>1, <2>2, CoveredOnce
  <2> QED
    BY <2>1, <2>2, <2>3
<1> HIDE DEF within, n
<1>8. CASE within(data)
  <2>1. PICK s \in Sections :
            /\ s.s_name \in {".data", ".rdata"} /\ Covers(s, a)
            /\ n(data) \in DOMAIN noff.body /\ noff.body[n(data)] = s.raw[a - s.s_paddr + 1]
    BY <1>4, <1>8
  <2>2. CoffByte(a) = s.raw[a - s.s_paddr + 1]
    BY <1>6, <2>1, CoffByteIs
  <2> QED
    BY <1>5, <1>7, <1>8, <2>1, <2>2
<1>9. CASE within(code)
  <2>1. PICK s \in Sections :
            /\ s.s_name \in {".text"} /\ Covers(s, a)
            /\ n(code) \in DOMAIN noff.body /\ noff.body[n(code)] = s.raw[a - s.s_paddr + 1]
    BY <1>4, <1>9
  <2>2. CoffByte(a) = s.raw[a - s.s_paddr + 1]
    BY <1>6, <2>1, CoffByteIs
  <2> QED
    BY <1>5, <1>7, <1>9, <2>1, <2>2
<1>10. CASE ~within(data) /\ ~within(code)
  <2>1. ASSUME NEW s \in Sections, Covers(s, a)
        PROVE  s.s_name \in Uninit
    <3>1. s.s_size # 0
      BY <2>1 DEF Covers
    <3>2. s.s_name \in Known
      BY <3>1, SectionsAre DEF HeaderIs, Known
    <3>3. s.s_name \notin {".text"} /\ s.s_name \notin {".data", ".rdata"}
      BY <1>4, <1>10, <2>1
    <3> QED
      BY <3>2, <3>3 DEF Known, Uninit
  <2>2. CoffByte(a) = 0
    BY <2>1, CoffByteIs
  <2> QED
    BY <1>5, <1>10, <2>2
<1> QED
  BY <1>8, <1>9, <1>10

-----------------------------------------------------------------------------
(* A flat file.                                                            *)

\* The top after one more section.
LEMMA TopMore ==
    ASSUME Readable, NEW d \in Nat, d + 1 <= coff.f_nscns, NEW m \in Nat, TopIs(coff, d, m),
           NEW s, s = coff.sections[d + 1]
    PROVE  LET e == s.s_paddr + s.s_size IN
           /\ e \in Nat
           /\ TopIs(coff, d + 1, IF e > m THEN e ELSE m)
<1>1. PICK e \in Nat : e = s.s_paddr + s.s_size
  <2>1. s \in SectionHeaders
    BY SectionsAre
  <2> QED
    BY <2>1 DEF SectionHeaders
<1>2. \A n \in 1..d + 1 : n \in 1..d \/ n = d + 1
  OBVIOUS
<1>3. \A n \in 1..d + 1 : coff.sections[n].s_paddr + coff.sections[n].s_size \in Nat
  <2> SUFFICES ASSUME NEW n \in 1..d + 1
               PROVE  coff.sections[n].s_paddr + coff.sections[n].s_size \in Nat
    OBVIOUS
  <2>1. coff.f_nscns \in Nat
    BY SectionsAre
  <2>2. n \in 1..coff.f_nscns
    BY <2>1
  <2>3. coff.sections[n] \in SectionHeaders
    BY <2>2, SectionsAre
  <2> QED
    BY <2>3 DEF SectionHeaders
<1>4. d + 1 \in 1..d + 1 /\ \A n \in 1..d : n \in 1..d + 1
  OBVIOUS
<1>5. CASE e > m
  BY <1>1, <1>2, <1>3, <1>4, <1>5 DEF TopIs
<1>6. CASE ~(e > m)
  BY <1>1, <1>2, <1>3, <1>4, <1>6 DEF TopIs
<1> QED
  BY <1>1, <1>5, <1>6

\* What is not written does not change the file.
LEMMA FlatSkips ==
    ASSUME NEW c, NEW d \in Nat, NEW body, FlatIs(c, d, body),
           c.sections[d + 1].s_name \in Uninit \/ c.sections[d + 1].s_size = 0
    PROVE  FlatIs(c, d + 1, body)
<1>1. \A n \in 1..d + 1 : n \in 1..d \/ n = d + 1
  OBVIOUS
<1>2. \A n \in 1..d : n \in 1..d + 1
  OBVIOUS
<1> QED
  BY <1>1, <1>2 DEF FlatIs

\* A section that is written begins where the file ends.
LEMMA NextBegins ==
    ASSUME Readable, LinkedAtZero, InOrder, NEW d \in Nat, d + 1 <= coff.f_nscns,
           NEW body \in Seq(0..255), FlatIs(coff, d, body),
           NEW s \in SectionHeaders, s = coff.sections[d + 1], s.s_name \notin Uninit, s.s_size # 0
    PROVE  s.s_paddr = Len(body)
<1>1. s.s_paddr \in Nat /\ s.s_size \in Nat /\ Len(body) \in Nat
  BY LenProperties DEF SectionHeaders
<1>2. d + 1 \in 1..coff.f_nscns /\ s \in Sections /\ coff.f_nscns \in Nat
  BY SectionsAre
<1>3. Covers(s, s.s_paddr)
  BY <1>1 DEF Covers
<1>4. ASSUME s.s_paddr < Len(body) PROVE FALSE
  <2>1. s.s_paddr \in 0..Len(body) - 1
    BY <1>1, <1>4
  <2>2. PICK n \in 1..d : Covers(coff.sections[n], s.s_paddr)
    BY <2>1 DEF FlatIs
  <2>3. n \in 1..coff.f_nscns /\ coff.sections[n] \in Sections /\ n # d + 1
    BY <1>2, SectionsAre
  <2>4. coff.sections[n] = s
    BY <1>1, <1>2, <1>3, <2>2, <2>3, CoveredOnce
  <2> QED
    BY <1>2, <2>3, <2>4 DEF LinkedAtZero, OneOfEach
<1>5. ASSUME Len(body) < s.s_paddr PROVE FALSE
  <2>1. Len(body) \in 0..End - 1
    <3>1. End \in Nat /\ s.s_paddr + s.s_size <= End
      BY <1>2, EndIs
    <3> QED
      BY <1>1, <1>5, <3>1
  <2>2. PICK t \in Sections : Covers(t, Len(body))
    BY <2>1 DEF LinkedAtZero
  <2>3. PICK q \in 1..coff.f_nscns : t = coff.sections[q]
    BY SectionsAre
  <2>4. /\ t.s_paddr \in Nat /\ t.s_size \in Nat /\ t.s_size # 0
        /\ t.s_paddr <= Len(body) /\ Len(body) < t.s_paddr + t.s_size
    <3>1. t.s_paddr \in Nat /\ t.s_size \in Nat
      BY SectionsAre DEF SectionHeaders
    <3> QED
      BY <1>1, <2>2, <3>1 DEF Covers
  <2>5. q # d + 1
    BY <1>1, <1>5, <2>3, <2>4
  <2>6. CASE q < d + 1
    <3>1. q \in 1..d
      BY <2>3, <2>6
    <3>2. t.s_name \in Uninit
      <4>1. \A m \in 1..d : coff.sections[m].s_name \notin Uninit /\ coff.sections[m].s_size # 0
              => coff.sections[m].s_paddr + coff.sections[m].s_size <= Len(body)
        BY DEF FlatIs
      <4> QED
        BY <1>1, <2>3, <2>4, <3>1, <4>1
    <3>3. s.s_name \in Uninit
      BY <1>2, <2>3, <2>6, <3>2 DEF InOrder, Uninit
    <3> QED
      BY <3>3
  <2>7. CASE d + 1 < q
    <3>1. s.s_paddr <= t.s_paddr
      BY <1>2, <2>3, <2>7 DEF InOrder
    <3> QED
      BY <1>1, <1>5, <2>4, <3>1
  <2> QED
    BY <1>2, <2>3, <2>5, <2>6, <2>7
<1> QED
  BY <1>1, <1>4, <1>5

\* A section that is written is where the file ends, and so its bytes are where they belong.
LEMMA FlatMore ==
    ASSUME Readable, LinkedAtZero, InOrder, NEW d \in Nat, d + 1 <= coff.f_nscns,
           NEW body \in Seq(0..255), FlatIs(coff, d, body),
           NEW s \in SectionHeaders, s = coff.sections[d + 1], s.s_name \notin Uninit,
           Len(s.raw) = s.s_size
    PROVE  FlatIs(coff, d + 1, body \o s.raw)
<1>1. PICK raw \in Seq(0..255) : raw = s.raw
  BY DEF SectionHeaders
<1>2. s.s_paddr \in Nat /\ s.s_size \in Nat /\ Len(body) \in Nat
  BY LenProperties DEF SectionHeaders
<1>3. CASE s.s_size = 0
  <2>1. raw = << >>
    BY <1>1, <1>3, EmptySeq
  <2>2. body \o raw = body
    BY <2>1, ConcatEmptySeq
  <2>3. FlatIs(coff, d + 1, body)
    BY <1>3, FlatSkips
  <2> QED
    BY <1>1, <2>2, <2>3
<1>4. CASE s.s_size # 0
  <2>1. s.s_paddr = Len(body)
    BY <1>4, NextBegins
  <2> DEFINE out == body \o raw
  <2>2. /\ Len(out) = Len(body) + s.s_size
        /\ \A i \in 1..Len(body) + s.s_size :
              out[i] = IF i <= Len(body) THEN body[i] ELSE raw[i - Len(body)]
    BY <1>1, ConcatProperties
  <2> HIDE DEF out
  <2>3. ASSUME NEW n \in 1..d + 1, coff.sections[n].s_name \notin Uninit, coff.sections[n].s_size # 0
        PROVE  coff.sections[n].s_paddr + coff.sections[n].s_size <= Len(out)
    <3>1. CASE n = d + 1
      BY <1>2, <2>1, <2>2, <3>1
    <3>2. CASE n \in 1..d
      <4>1. coff.sections[n].s_paddr + coff.sections[n].s_size <= Len(body)
        BY <2>3, <3>2 DEF FlatIs
      <4>2. n \in 1..coff.f_nscns
        BY SectionsAre
      <4>3. coff.sections[n].s_paddr \in Nat /\ coff.sections[n].s_size \in Nat
        BY <4>2, SectionsAre DEF SectionHeaders
      <4>4. Len(body) <= Len(out) /\ Len(out) \in Nat
        BY <1>2, <2>2
      <4> QED
        BY <1>2, <4>1, <4>3, <4>4
    <3> QED
      BY <3>1, <3>2
  <2>4. ASSUME NEW a \in 0..Len(out) - 1
        PROVE  \E n \in 1..d + 1 :
                  /\ coff.sections[n].s_name \notin Uninit
                  /\ Covers(coff.sections[n], a)
                  /\ out[a + 1] = coff.sections[n].raw[a - coff.sections[n].s_paddr + 1]
    <3>0. a \in Nat /\ a + 1 \in 1..Len(body) + s.s_size
      <4>1. PICK l \in Nat, z \in Nat : l = Len(body) /\ z = s.s_size /\ Len(out) = l + z
        BY <1>2, <2>2
      <4>2. a \in 0..l + z - 1
        BY <4>1
      <4>3. a \in Nat /\ a + 1 \in 1..l + z
        BY <4>2
      <4> QED
        BY <4>1, <4>3
    <3>1. CASE a < Len(body)
      <4>0. a \in 0..Len(body) - 1 /\ a + 1 <= Len(body)
        <5>1. PICK l \in Nat : l = Len(body)
          BY <1>2
        <5>2. a \in Nat /\ a < l
          BY <3>0, <3>1, <5>1
        <5>3. a \in 0..l - 1 /\ a + 1 <= l
          BY <5>2
        <5> QED
          BY <5>1, <5>3
      <4>1. a \in 0..Len(body) - 1 /\ out[a + 1] = body[a + 1]
        BY <2>2, <3>0, <4>0
      <4>2. PICK n \in 1..d :
                  /\ coff.sections[n].s_name \notin Uninit
                  /\ Covers(coff.sections[n], a)
                  /\ body[a + 1] = coff.sections[n].raw[a - coff.sections[n].s_paddr + 1]
        <5>1. \A b \in 0..Len(body) - 1 : \E n \in 1..d :
                  /\ coff.sections[n].s_name \notin Uninit
                  /\ Covers(coff.sections[n], b)
                  /\ body[b + 1] = coff.sections[n].raw[b - coff.sections[n].s_paddr + 1]
          BY DEF FlatIs
        <5> QED
          BY <4>1, <5>1
      <4>3. n \in 1..d + 1
        OBVIOUS
      <4>4. out[a + 1] = coff.sections[n].raw[a - coff.sections[n].s_paddr + 1]
        BY <4>1, <4>2
      <4> WITNESS n \in 1..d + 1
      <4> QED
        BY <4>2, <4>4
    <3>2. CASE a >= Len(body)
      <4>1. Covers(s, a)
        <5>1. PICK l \in Nat, z \in Nat : l = Len(body) /\ l = s.s_paddr /\ z = s.s_size
          BY <1>2, <2>1
        <5>2. a \in Nat /\ a + 1 \in 1..l + z /\ a >= l
          BY <3>0, <3>2, <5>1
        <5>3. a - l \in 0..z - 1
          BY <5>2
        <5> QED
          BY <5>1, <5>3 DEF Covers
      <4>2. out[a + 1] = raw[(a + 1) - Len(body)] /\ (a + 1) - Len(body) = a - s.s_paddr + 1
        <5>1. PICK l \in Nat : l = Len(body) /\ l = s.s_paddr
          BY <1>2, <2>1
        <5>2. a \in Nat /\ a >= l
          BY <3>0, <3>2, <5>1
        <5>3. ~(a + 1 <= l) /\ (a + 1) - l = (a - l) + 1
          BY <5>2
        <5>4. out[a + 1] = raw[(a + 1) - Len(body)]
          BY <2>2, <3>0, <5>1, <5>3
        <5> QED
          BY <5>1, <5>3, <5>4
      <4>3. d + 1 \in 1..d + 1
        OBVIOUS
      <4>4. out[a + 1] = raw[a - s.s_paddr + 1]
        BY <4>2
      <4> WITNESS d + 1 \in 1..d + 1
      <4>5. out[a + 1] = coff.sections[d + 1].raw[a - coff.sections[d + 1].s_paddr + 1]
        BY <1>1, <4>4
      <4> QED
        BY <4>1, <4>5
    <3> QED
      BY <1>2, <3>0, <3>1, <3>2
  <2>5. FlatIs(coff, d + 1, out)
    BY <2>3, <2>4 DEF FlatIs
  <2> QED
    BY <1>1, <2>5 DEF out
<1> QED
  BY <1>3, <1>4

\* The file that is finished is the memory.
LEMMA FlatIsMemory ==
    ASSUME Readable, LinkedAtZero, NEW body \in Seq(0..255), top \in Nat,
           FlatIs(coff, coff.f_nscns, body), TopIs(coff, coff.f_nscns, top)
    PROVE  /\ Len(Extended(body)) = End + StackSize
           /\ \A a \in 0..End - 1 : Extended(body)[a + 1] = CoffByte(a)
<1>1. top = End
  <2>1. /\ End \in Nat /\ \A s \in Sections : s.s_paddr + s.s_size <= End
        /\ End = 0 \/ \E s \in Sections : End = s.s_paddr + s.s_size
    BY EndIs
  <2>2. \A s \in Sections : s.s_paddr + s.s_size <= top
    BY SectionsAre DEF TopIs
  <2>3. top = 0 \/ \E s \in Sections : top = s.s_paddr + s.s_size
    BY SectionsAre DEF TopIs
  <2>4. End <= top
    BY <2>1, <2>2
  <2>5. top <= End
    BY <2>1, <2>3
  <2> QED
    BY <2>1, <2>4, <2>5
<1>2. End \in Nat /\ StackSize \in Nat /\ StackSize >= 4 /\ Len(body) \in Nat
  BY EndIs, LenProperties, CoffAssumption
<1>3. Len(Extended(body)) = End + StackSize
  <2>1. top + StackSize \in Nat
    BY <1>2
  <2>2. DOMAIN Extended(body) = 1..top + StackSize
    BY DEF Extended
  <2>3. Extended(body) \in Seq({Extended(body)[i] : i \in 1..top + StackSize})
    BY <2>1 DEF Extended
  <2> QED
    BY <1>1, <2>1, <2>2, <2>3, LenProperties
<1>4. ASSUME NEW a \in 0..End - 1
      PROVE  Extended(body)[a + 1] = CoffByte(a)
  <2>1. Extended(body)[a + 1] = IF a + 1 > Len(body) THEN 0 ELSE body[a + 1]
    <3>1. a + 1 \in 1..top + StackSize /\ ~(a + 1 > top + StackSize - 4)
      BY <1>1, <1>2
    <3> QED
      BY <3>1 DEF Extended
  <2>2. CASE a + 1 > Len(body)
    <3>1. ASSUME NEW s \in Sections, Covers(s, a)
          PROVE  s.s_name \in Uninit
      <4>1. s.s_paddr \in Nat /\ s.s_size \in Nat /\ s.s_size # 0 /\ s.s_paddr + s.s_size > a
        <5>1. s.s_paddr \in Nat /\ s.s_size \in Nat
          BY SectionsAre DEF SectionHeaders
        <5> QED
          BY <3>1, <5>1 DEF Covers
      <4>2. PICK n \in 1..coff.f_nscns : s = coff.sections[n]
        BY SectionsAre
      <4>3. ~(s.s_paddr + s.s_size <= Len(body))
        BY <1>2, <2>2, <4>1
      <4> QED
        BY <4>1, <4>2, <4>3 DEF FlatIs
    <3>2. CoffByte(a) = 0
      BY <1>2, <3>1, CoffByteIs
    <3> QED
      BY <2>1, <2>2, <3>2
  <2>3. CASE ~(a + 1 > Len(body))
    <3>1. a \in 0..Len(body) - 1
      BY <1>2, <2>3
    <3>2. PICK n \in 1..coff.f_nscns :
                  /\ coff.sections[n].s_name \notin Uninit
                  /\ Covers(coff.sections[n], a)
                  /\ body[a + 1] = coff.sections[n].raw[a - coff.sections[n].s_paddr + 1]
      BY <3>1 DEF FlatIs
    <3>3. coff.sections[n] \in Sections
      BY SectionsAre
    <3>4. CoffByte(a) = coff.sections[n].raw[a - coff.sections[n].s_paddr + 1]
      BY <1>2, <3>2, <3>3, CoffByteIs
    <3> QED
      BY <2>1, <2>3, <3>2, <3>4
  <2> QED
    BY <2>2, <2>3
<1> QED
  BY <1>3, <1>4

-----------------------------------------------------------------------------
(* What every step of a converter keeps.                                   *)

\* What is said of the COFF file depends on nothing else.
LEMMA SameFile ==
    ASSUME coff' = coff
    PROVE  /\ OneOfEach' = OneOfEach /\ InOrder' = InOrder /\ LinkedAtZero' = LinkedAtZero
           /\ End' = End /\ \A a : CoffByte(a)' = CoffByte(a)
<1>1. Sections' = Sections
  BY DEF Sections
<1>2. End' = End
  BY <1>1 DEF End
<1>3. OneOfEach' = OneOfEach /\ InOrder' = InOrder
  BY DEF OneOfEach, InOrder
<1>4. LinkedAtZero' = LinkedAtZero
  BY <1>1, <1>2, <1>3 DEF LinkedAtZero
<1>5. \A a : CoffByte(a)' = CoffByte(a)
  BY <1>1 DEF CoffByte
<1> QED
  BY <1>2, <1>3, <1>4, <1>5

\* A failure ends the converter, which then promises nothing.
LEMMA FailKeeps ==
    ASSUME CoffInv, NEW message, Fail(message)
    PROVE  CoffInv'
<1>1. step' = "exit 1" /\ UNCHANGED << converter, coff, writable, noffH, section, top >>
      /\ (converter = "coff2noff" => output' = Absent)
  BY DEF Fail, NoffFail, FlatFail
<1>2. CoffTypes'
  BY <1>1 DEF CoffInv, CoffTypes
<1>3. CoffSoFar'
  BY <1>1 DEF CoffSoFar
<1>4. ConvertsFaithfully'
  BY <1>1 DEF ConvertsFaithfully, NoffFaithful, FlatFaithful
<1> QED
  BY <1>2, <1>3, <1>4 DEF CoffInv

\* The files are opened: nothing is written.
LEMMA OpenedKeeps ==
    ASSUME CoffInv, Opened
    PROVE  CoffInv'
<1>1. CoffTypes'
  <2>1. << >> \in Seq(0..255)
    BY EmptySeq
  <2>2. /\ step = "open" /\ output = Absent /\ coff \in CoffFiles \cup {Absent}
        /\ section = 1 /\ top = 0 /\ noffH = NoffH0
        /\ converter \in {"coff2noff", "coff2flat"}
        /\ noffH \in [code : Segments, initData : Segments, uninitData : Segments]
    BY DEF CoffInv, CoffTypes, Opened
  <2>3. UNCHANGED << converter, coff, writable, noffH, section, top >>
    BY DEF Opened
  <2>4. CASE coff = Absent /\ step' = "exit 1" /\ output' = output
    <3>1. /\ step' \in {"open", "headers", "sections", "exit 0", "exit 1"}
          /\ step' \notin {"headers", "sections", "exit 0"}
          /\ step' \notin {"open", "headers"}
      BY <2>4
    <3>2. /\ coff' \in CoffFiles \cup {Absent} /\ section' \in Nat \ {0} /\ top' \in Nat
          /\ noffH' \in [code : Segments, initData : Segments, uninitData : Segments]
          /\ converter' \in {"coff2noff", "coff2flat"}
      BY <2>2, <2>3
    <3> QED
      BY <3>1, <3>2 DEF CoffTypes
  <2>5. CASE /\ coff # Absent /\ step' = "headers"
             /\ output' = IF writable THEN [header |-> Absent, body |-> << >>] ELSE Absent
    BY <2>1, <2>2, <2>3, <2>5 DEF CoffTypes
  <2> QED
    BY <2>4, <2>5 DEF Opened
<1>2. CoffSoFar'
  BY DEF CoffSoFar, Opened
<1>3. ConvertsFaithfully'
  BY DEF CoffInv, CoffTypes, ConvertsFaithfully, NoffFaithful, FlatFaithful, Opened
<1> QED
  BY <1>1, <1>2, <1>3 DEF CoffInv

\* The headers are read: no section has been copied.
LEMMA HeadersKeep ==
    ASSUME CoffInv, Headers
    PROVE  CoffInv'
<1>1. CASE \E message : Fail(message)
  BY <1>1, FailKeeps
<1>2. CASE /\ step = "headers" /\ step' = "sections" /\ coff.f_nscns <= Len(coff.sections)
           /\ UNCHANGED << converter, coff, writable, output, noffH, section, top, complaint >>
  <2>1. /\ coff \in CoffFiles /\ section = 1 /\ top = 0 /\ noffH = NoffH0
        /\ writable => output.body = << >>
    BY <1>2 DEF CoffInv, CoffTypes
  <2>2. CoffTypes'
    <3>1. Readable
      BY <1>2, <2>1 DEF Readable
    <3>2. coff.f_nscns \in Nat
      BY <3>1, SectionsAre
    <3> QED
      BY <1>2, <2>1, <3>2 DEF CoffInv, CoffTypes
  <2>3. HeaderIs(coff, 0, NoffH0, << >>)
    <3>1. /\ NoffH0.code.size = 0 /\ NoffH0.initData.size = 0
          /\ NoffH0.uninitData.size = 0 /\ 0 = 0 + 0 /\ 0 \in 0..0
      BY DEF NoffH0, NoSegment
    <3>2. \A names : None(coff, 0, names) /\ Amount(coff, 0, names, 0)
      BY DEF None, Amount
    <3> QED
      BY <3>1, <3>2 DEF HeaderIs, InFile
  <2>4. FlatIs(coff, 0, << >>) /\ TopIs(coff, 0, 0)
    <3>1. Len(<< >>) = 0
      BY EmptySeq
    <3> QED
      BY <3>1 DEF FlatIs, TopIs
  <2>5. CoffSoFar'
    <3>1. section' - 1 = 0 /\ noffH' = NoffH0 /\ top' = 0 /\ coff' = coff
          /\ (writable' => output'.body = << >>)
      BY <1>2, <2>1
    <3> QED
      BY <2>3, <2>4, <3>1 DEF CoffSoFar
  <2>6. ConvertsFaithfully'
    BY <1>2 DEF ConvertsFaithfully, NoffFaithful, FlatFaithful
  <2> QED
    BY <2>2, <2>5, <2>6 DEF CoffInv
<1>3. step = "headers" /\ coff.f_nscns \in Nat /\ Len(coff.sections) \in Nat
  <2>1. step = "headers"
    BY DEF Headers, Fail
  <2>2. coff.f_nscns \in Nat /\ coff.sections \in Seq(SectionHeaders)
    BY <2>1, CoffAssumption DEF CoffInv, CoffTypes, SectionHeaders
  <2> QED
    BY <2>1, <2>2, LenProperties
<1>4. CASE coff.f_nscns > Len(coff.sections)
  <2>1. \E message : Fail(message)
    BY <1>4 DEF Headers
  <2> QED
    BY <1>1, <2>1
<1>5. CASE ~(coff.f_nscns > Len(coff.sections)) /\ ~(\E message : Fail(message))
  <2>1. coff.f_nscns <= Len(coff.sections)
    BY <1>3, <1>5
  <2>2. /\ step' = "sections"
        /\ UNCHANGED << converter, coff, writable, output, noffH, section, top, complaint >>
    BY <1>5 DEF Headers
  <2> QED
    BY <1>2, <1>3, <2>1, <2>2
<1> QED
  BY <1>1, <1>4, <1>5

Outputs == [header : {Absent}, body : Seq(0..255)]

\* What is known in the loop over the sections, of which d have been copied.
LEMMA CopyingFacts ==
    ASSUME CoffInv, Copying
    PROVE  /\ Readable
           /\ section - 1 \in Nat /\ (section - 1) + 1 = section /\ section <= coff.f_nscns
           /\ Current \in SectionHeaders /\ Current = coff.sections[(section - 1) + 1]
           /\ noffH \in HeadersOf /\ top \in Nat
           /\ writable => output \in Outputs /\ output.body \in Seq(0..255)
           /\ OneOfEach => \A m \in 1..section - 1 : coff.sections[m].s_name # Current.s_name
<1>1. /\ step = "sections" /\ section <= coff.f_nscns /\ coff \in CoffFiles
      /\ section \in Nat \ {0} /\ coff.f_nscns <= Len(coff.sections)
      /\ noffH \in HeadersOf /\ top \in Nat
      /\ writable => output \in Outputs /\ output.body \in Seq(0..255)
  BY DEF CoffInv, CoffTypes, Copying, HeadersOf, Outputs
<1>2. Readable
  BY <1>1 DEF Readable
<1>3. coff.f_nscns \in Nat /\ section \in 1..coff.f_nscns
  BY <1>1, <1>2, SectionsAre
<1>4. Current \in SectionHeaders
  BY <1>2, <1>3, SectionsAre DEF Current
<1>5. section - 1 \in Nat /\ (section - 1) + 1 = section
  BY <1>1
<1>6. OneOfEach => \A m \in 1..section - 1 : coff.sections[m].s_name # Current.s_name
  <2> SUFFICES ASSUME OneOfEach, NEW m \in 1..section - 1, coff.sections[m].s_name = Current.s_name
               PROVE  FALSE
    OBVIOUS
  <2>1. m \in 1..coff.f_nscns /\ m # section
    BY <1>1, <1>3
  <2> QED
    BY <1>3, <2>1 DEF OneOfEach, Current
<1> QED
  BY <1>1, <1>2, <1>4, <1>5, <1>6 DEF Current

\* The loop goes on to the next section.
LEMMA AdvanceKeeps ==
    ASSUME CoffInv, Copying, section' = section + 1,
           UNCHANGED << converter, coff, writable, step, complaint >>,
           noffH' \in HeadersOf, top' \in Nat,
           writable => output' \in Outputs,
           writable /\ converter = "coff2noff" /\ OneOfEach
             => HeaderIs(coff, section, noffH', output'.body),
           writable /\ converter = "coff2flat" /\ LinkedAtZero /\ InOrder
             => FlatIs(coff, section, output'.body) /\ TopIs(coff, section, top')
    PROVE  CoffInv'
<1>1. step = "sections" /\ step' = "sections" /\ section - 1 \in Nat /\ section <= coff.f_nscns
      /\ coff.f_nscns \in Nat /\ section \in Nat /\ section # 0
  BY CopyingFacts, SectionsAre DEF Copying, CoffInv, CoffTypes
<1>2. CoffTypes'
  <2>1. section' \in Nat \ {0} /\ section' <= coff.f_nscns + 1
    BY <1>1
  <2>2. /\ converter \in {"coff2noff", "coff2flat"} /\ coff \in CoffFiles \cup {Absent}
        /\ coff \in CoffFiles /\ coff.f_nscns <= Len(coff.sections)
    BY <1>1 DEF CoffInv, CoffTypes
  <2>3. /\ step' \in {"open", "headers", "sections", "exit 0", "exit 1"}
        /\ step' \notin {"open", "headers"}
    BY <1>1
  <2>4. writable' => output' \in [header : {Absent}, body : Seq(0..255)]
    BY DEF Outputs
  <2>5. noffH' \in [code : Segments, initData : Segments, uninitData : Segments]
    BY DEF HeadersOf
  <2>6. /\ converter' \in {"coff2noff", "coff2flat"} /\ coff' \in CoffFiles \cup {Absent}
        /\ coff' \in CoffFiles /\ coff'.f_nscns <= Len(coff'.sections)
        /\ section' \in Nat \ {0} /\ section' <= coff'.f_nscns + 1
    BY <2>1, <2>2
  <2> QED
    BY <2>3, <2>4, <2>5, <2>6 DEF CoffTypes
<1>3. CoffSoFar'
  <2>1. section' - 1 = section
    BY <1>1
  <2>2. /\ OneOfEach' = OneOfEach /\ InOrder' = InOrder /\ LinkedAtZero' = LinkedAtZero
    BY SameFile
  <2> QED
    BY <2>1, <2>2 DEF CoffSoFar
<1>4. ConvertsFaithfully'
  BY <1>1 DEF ConvertsFaithfully, NoffFaithful, FlatFaithful
<1> QED
  BY <1>2, <1>3, <1>4 DEF CoffInv

\* One section in coff2noff.
LEMMA NoffSectionKeeps ==
    ASSUME CoffInv, converter = "coff2noff", Copying, NoffSection
    PROVE  CoffInv'
<1> DEFINE d == section - 1
           s == Current
<1>1. /\ d \in Nat /\ d + 1 = section /\ s \in SectionHeaders /\ s = coff.sections[d + 1]
      /\ noffH \in HeadersOf /\ top \in Nat
      /\ writable => output \in Outputs /\ output.body \in Seq(0..255)
      /\ OneOfEach => \A m \in 1..d : coff.sections[m].s_name # s.s_name
  BY CopyingFacts
<1>2. writable /\ OneOfEach => HeaderIs(coff, d, noffH, output.body)
  BY DEF CoffInv, CoffSoFar, Copying
<1> HIDE DEF d
<1>3. Segment \in Segments
      /\ (writable => Segment = [virtualAddr |-> s.s_paddr,
                                 inFileAddr |-> NoffHeaderSize + Len(output.body), size |-> s.s_size])
  <2>1. InNoffFile \in Nat /\ (writable => InNoffFile = NoffHeaderSize + Len(output.body))
    BY <1>1, CoffAssumption, LenProperties DEF InNoffFile
  <2>2. s.s_paddr \in Nat /\ s.s_size \in Nat
    BY <1>1 DEF SectionHeaders
  <2> QED
    BY <2>1, <2>2 DEF Segment, Segments
<1>4. CASE \E message : Fail(message)
  BY <1>4, FailKeeps
<1>5. CASE s.s_size = 0 /\ Skips(noffH)
  <2>1. /\ noffH' = noffH /\ section' = section + 1
        /\ UNCHANGED << converter, coff, writable, output, top, step, complaint >>
    BY <1>5 DEF Skips
  <2>2. writable /\ OneOfEach => HeaderIs(coff, section, noffH, output.body)
    BY <1>1, <1>2, <1>5, HeaderSkips
  <2> QED
    BY <1>1, <2>1, <2>2, AdvanceKeeps
<1>6. CASE s.s_size # 0 /\ s.s_name = ".text" /\ Len(s.raw) = s.s_size /\ writable
           /\ output' = [output EXCEPT !.body = @ \o s.raw]
           /\ noffH' = [noffH EXCEPT !.code = Segment] /\ section' = section + 1
           /\ UNCHANGED << converter, coff, writable, top, step, complaint >>
  <2>1. OneOfEach => HeaderIs(coff, d + 1, [noffH EXCEPT !.code = Segment], output.body \o s.raw)
    BY <1>1, <1>2, <1>3, <1>6, HeaderCode
  <2>2. noffH' \in HeadersOf
    BY <1>1, <1>3, <1>6 DEF HeadersOf
  <2>3. output' \in Outputs /\ output'.body = output.body \o s.raw
    <3>1. s.raw \in Seq(0..255)
      BY <1>1 DEF SectionHeaders
    <3>2. output.body \o s.raw \in Seq(0..255)
      BY <1>1, <1>6, <3>1, ConcatProperties
    <3> QED
      BY <1>1, <1>6, <3>2 DEF Outputs
  <2>4. writable /\ OneOfEach => HeaderIs(coff, section, noffH', output'.body)
    BY <1>1, <1>6, <2>1, <2>3
  <2>5. section' = section + 1 /\ UNCHANGED << converter, coff, writable, top, step, complaint >>
    BY <1>6
  <2> QED
    BY <1>1, <2>2, <2>3, <2>4, <2>5, AdvanceKeeps
<1>7. CASE s.s_size # 0 /\ s.s_name \in {".data", ".rdata"} /\ noffH.initData.size = 0
           /\ Len(s.raw) = s.s_size /\ writable
           /\ output' = [output EXCEPT !.body = @ \o s.raw]
           /\ noffH' = [noffH EXCEPT !.initData = Segment] /\ section' = section + 1
           /\ UNCHANGED << converter, coff, writable, top, step, complaint >>
  <2>1. OneOfEach => HeaderIs(coff, d + 1, [noffH EXCEPT !.initData = Segment], output.body \o s.raw)
    BY <1>1, <1>2, <1>3, <1>7, HeaderData
  <2>2. noffH' \in HeadersOf
    BY <1>1, <1>3, <1>7 DEF HeadersOf
  <2>3. output' \in Outputs /\ output'.body = output.body \o s.raw
    <3>1. s.raw \in Seq(0..255)
      BY <1>1 DEF SectionHeaders
    <3>2. output.body \o s.raw \in Seq(0..255)
      BY <1>1, <1>7, <3>1, ConcatProperties
    <3> QED
      BY <1>1, <1>7, <3>2 DEF Outputs
  <2>4. writable /\ OneOfEach => HeaderIs(coff, section, noffH', output'.body)
    BY <1>1, <1>7, <2>1, <2>3
  <2>5. section' = section + 1 /\ UNCHANGED << converter, coff, writable, top, step, complaint >>
    BY <1>7
  <2> QED
    BY <1>1, <2>2, <2>3, <2>4, <2>5, AdvanceKeeps
<1>8. CASE s.s_size # 0 /\ s.s_name \in Uninit /\ AddUninitData /\ ~(\E message : Fail(message))
  <2>1. PICK h \in HeadersOf :
          /\ Skips(h) /\ h.code = noffH.code /\ h.initData = noffH.initData
          /\ h.uninitData.size = noffH.uninitData.size + s.s_size
    <3>1. s.s_size \in Nat /\ s.s_paddr \in Nat
      BY <1>1 DEF SectionHeaders
    <3>2. CASE noffH.uninitData.size = 0
      <4> DEFINE u == [Segment EXCEPT !.inFileAddr = 0]
                 h == [noffH EXCEPT !.uninitData = u]
      <4>1. u \in Segments /\ u.size = s.s_size
        BY <1>1, <1>3, <3>1 DEF Segments, Segment
      <4>2. h \in HeadersOf /\ h.code = noffH.code /\ h.initData = noffH.initData /\ h.uninitData = u
        BY <1>1, <4>1 DEF HeadersOf
      <4>3. Skips(h)
        BY <1>8, <3>2 DEF AddUninitData
      <4> HIDE DEF h, u
      <4>4. h.uninitData.size = noffH.uninitData.size + s.s_size
        BY <3>1, <3>2, <4>1, <4>2
      <4> QED
        BY <4>2, <4>3, <4>4
    <3>3. CASE noffH.uninitData.size # 0
      <4> DEFINE h == [noffH EXCEPT !.uninitData.size = @ + s.s_size]
      <4>1. noffH.uninitData.size \in Nat /\ noffH.uninitData \in Segments
        BY <1>1 DEF HeadersOf, Segments
      <4>2. h \in HeadersOf /\ h.code = noffH.code /\ h.initData = noffH.initData
            /\ h.uninitData.size = noffH.uninitData.size + s.s_size
        <5> DEFINE z == noffH.uninitData.size + s.s_size
                   v == [noffH.uninitData EXCEPT !.size = z]
        <5>1. z \in Nat
          BY <3>1, <4>1
        <5>2. v \in Segments /\ v.size = z
          BY <4>1, <5>1 DEF Segments
        <5>3. h = [noffH EXCEPT !.uninitData = v]
          OBVIOUS
        <5> HIDE DEF h, v
        <5>4. h \in HeadersOf /\ h.code = noffH.code /\ h.initData = noffH.initData
              /\ h.uninitData = v
          BY <1>1, <5>2, <5>3 DEF HeadersOf
        <5> QED
          BY <5>2, <5>4
      <4>3. Skips(h)
        BY <1>8, <3>3 DEF AddUninitData
      <4> QED
        BY <4>2, <4>3
    <3> QED
      BY <3>2, <3>3
  <2>2. /\ noffH' = h /\ section' = section + 1
        /\ UNCHANGED << converter, coff, writable, output, top, step, complaint >>
    BY <2>1 DEF Skips
  <2>3. writable /\ OneOfEach => HeaderIs(coff, section, h, output.body)
    <3> SUFFICES ASSUME writable, OneOfEach PROVE HeaderIs(coff, d + 1, h, output.body)
      BY <1>1
    <3>1. s.s_name \in Uninit /\ s.s_size # 0
      BY <1>8
    <3> QED
      BY <1>1, <1>2, <2>1, <3>1, HeaderUninit
  <2> QED
    BY <1>1, <2>1, <2>2, <2>3, AdvanceKeeps
<1>9. ASSUME ~(\E message : Fail(message)), NEW h, Copies(h)
      PROVE  /\ Len(s.raw) = s.s_size /\ writable
             /\ output' = [output EXCEPT !.body = @ \o s.raw]
             /\ noffH' = h /\ section' = section + 1
             /\ UNCHANGED << converter, coff, writable, top, step, complaint >>
  BY <1>9 DEF Copies
<1>10. CASE ~(\E message : Fail(message))
  <2>1. CASE s.s_size = 0
    <3>1. Skips(noffH)
      BY <2>1 DEF NoffSection
    <3> QED
      BY <1>5, <2>1, <3>1
  <2>2. CASE s.s_size # 0 /\ s.s_name = ".text"
    <3>1. Copies([noffH EXCEPT !.code = Segment])
      BY <2>2 DEF NoffSection
    <3> QED
      BY <1>6, <1>9, <1>10, <2>2, <3>1
  <2>3. CASE s.s_size # 0 /\ s.s_name \in {".data", ".rdata"}
    <3>1. noffH.initData.size = 0 /\ Copies([noffH EXCEPT !.initData = Segment])
      BY <1>10, <2>3 DEF NoffSection
    <3> QED
      BY <1>7, <1>9, <1>10, <2>3, <3>1
  <2>4. CASE s.s_size # 0 /\ s.s_name \in {".bss", ".sbss"}
    <3>1. AddUninitData /\ s.s_name \in Uninit
      BY <1>10, <2>4 DEF NoffSection, Uninit
    <3> QED
      BY <1>8, <1>10, <2>4, <3>1
  <2>5. CASE s.s_size # 0 /\ s.s_name \notin Known
    BY <1>10, <2>5 DEF NoffSection, Known
  <2> QED
    BY <2>1, <2>2, <2>3, <2>4, <2>5 DEF Known
<1> QED
  BY <1>4, <1>10

\* One section in coff2flat.
LEMMA FlatSectionKeeps ==
    ASSUME CoffInv, converter = "coff2flat", Copying, FlatSection
    PROVE  CoffInv'
<1> DEFINE d == section - 1
           s == Current
           end == s.s_paddr + s.s_size
<1>1. /\ Readable /\ d \in Nat /\ d + 1 = section /\ d + 1 <= coff.f_nscns
      /\ s \in SectionHeaders /\ s = coff.sections[d + 1]
      /\ noffH \in HeadersOf /\ top \in Nat
      /\ writable => output \in Outputs /\ output.body \in Seq(0..255)
  BY CopyingFacts
<1>2. writable /\ LinkedAtZero /\ InOrder => FlatIs(coff, d, output.body) /\ TopIs(coff, d, top)
  BY DEF CoffInv, CoffSoFar, Copying
<1> HIDE DEF d
<1>3. CASE \E message : Fail(message)
  BY <1>3, FailKeeps
<1>4. CASE /\ s.s_name \in Uninit \/ (Len(s.raw) = s.s_size /\ writable)
           /\ top' = IF end > top THEN end ELSE top
           /\ section' = section + 1
           /\ output' = IF s.s_name \in Uninit THEN output
                        ELSE [output EXCEPT !.body = @ \o s.raw]
           /\ UNCHANGED << converter, coff, writable, noffH, step, complaint >>
  <2>1. top' \in Nat
    <3>1. end \in Nat
      BY <1>1 DEF SectionHeaders
    <3> QED
      BY <1>1, <1>4, <3>1
  <2>2. writable /\ LinkedAtZero /\ InOrder => TopIs(coff, section, top')
    <3> SUFFICES ASSUME writable, LinkedAtZero, InOrder PROVE TopIs(coff, d + 1, top')
      BY <1>1
    <3>1. TopIs(coff, d + 1, IF end > top THEN end ELSE top)
      BY <1>1, <1>2, TopMore
    <3> QED
      BY <1>4, <3>1
  <2>3. /\ writable => output' \in Outputs
        /\ writable /\ LinkedAtZero /\ InOrder => FlatIs(coff, section, output'.body)
    <3>1. CASE s.s_name \in Uninit
      <4>1. output' = output
        BY <1>4, <3>1
      <4>2. writable /\ LinkedAtZero /\ InOrder => FlatIs(coff, d + 1, output.body)
        BY <1>1, <1>2, <3>1, FlatSkips
      <4> QED
        BY <1>1, <4>1, <4>2
    <3>2. CASE s.s_name \notin Uninit
      <4>1. output' = [output EXCEPT !.body = @ \o s.raw] /\ Len(s.raw) = s.s_size /\ writable
        BY <1>4, <3>2
      <4>2. output' \in Outputs /\ output'.body = output.body \o s.raw
        <5>1. s.raw \in Seq(0..255)
          BY <1>1 DEF SectionHeaders
        <5>2. output.body \o s.raw \in Seq(0..255)
          BY <1>1, <4>1, <5>1, ConcatProperties
        <5> QED
          BY <1>1, <4>1, <5>2 DEF Outputs
      <4>3. LinkedAtZero /\ InOrder => FlatIs(coff, d + 1, output.body \o s.raw)
        BY <1>1, <1>2, <3>2, <4>1, FlatMore
      <4> QED
        BY <1>1, <4>2, <4>3
    <3> QED
      BY <3>1, <3>2
  <2>4. section' = section + 1 /\ UNCHANGED << converter, coff, writable, noffH, step, complaint >>
    BY <1>4
  <2>5. noffH' \in HeadersOf
    BY <1>1, <2>4
  <2> QED
    BY <1>1, <2>1, <2>2, <2>3, <2>4, <2>5, AdvanceKeeps
<1> QED
  BY <1>3, <1>4 DEF FlatSection, Uninit

\* The end: what was copied is all of the sections.
LEMMA FinishFacts ==
    ASSUME CoffInv, step = "sections", section > coff.f_nscns
    PROVE  /\ Readable /\ coff.f_nscns \in Nat /\ section - 1 = coff.f_nscns
           /\ noffH \in HeadersOf /\ top \in Nat
           /\ writable => output \in Outputs /\ output.body \in Seq(0..255)
<1>1. /\ coff \in CoffFiles /\ coff.f_nscns <= Len(coff.sections)
      /\ section \in Nat \ {0} /\ section <= coff.f_nscns + 1
      /\ noffH \in HeadersOf /\ top \in Nat
      /\ writable => output \in Outputs /\ output.body \in Seq(0..255)
  BY DEF CoffInv, CoffTypes, HeadersOf, Outputs
<1>2. Readable
  BY <1>1 DEF Readable
<1>3. coff.f_nscns \in Nat
  BY <1>2, SectionsAre
<1> QED
  BY <1>1, <1>2, <1>3

\* There is nothing to say of the types of a file that is finished.
LEMMA FinishKeepsTypes ==
    ASSUME CoffInv, step = "sections", step' = "exit 0",
           UNCHANGED << converter, coff, writable, noffH, section, top, complaint >>
    PROVE  CoffTypes' /\ CoffSoFar'
<1>1. /\ step' \in {"open", "headers", "sections", "exit 0", "exit 1"}
      /\ step' \notin {"open", "headers"} /\ step' \notin {"headers", "sections"}
      /\ step' # "sections"
  OBVIOUS
<1>2. /\ converter' \in {"coff2noff", "coff2flat"} /\ coff' \in CoffFiles \cup {Absent}
      /\ coff' \in CoffFiles /\ coff'.f_nscns <= Len(coff'.sections)
      /\ section' \in Nat \ {0} /\ section' <= coff'.f_nscns + 1
      /\ top' \in Nat
      /\ noffH' \in [code : Segments, initData : Segments, uninitData : Segments]
  BY DEF CoffInv, CoffTypes
<1> QED
  BY <1>1, <1>2 DEF CoffTypes, CoffSoFar

\* The end of coff2noff: the header is written.
LEMMA NoffFinishKeeps ==
    ASSUME CoffInv, NoffFinish
    PROVE  CoffInv'
<1>1. CASE \E message : Fail(message)
  BY <1>1, FailKeeps
<1>2. CASE /\ writable /\ output' = [output EXCEPT !.header = noffH] /\ step' = "exit 0"
           /\ UNCHANGED << converter, coff, writable, noffH, section, top, complaint >>
  <2>1. step = "sections" /\ converter = "coff2noff" /\ section > coff.f_nscns
    BY DEF NoffFinish, Finished
  <2>2. /\ Readable /\ coff.f_nscns \in Nat /\ section - 1 = coff.f_nscns /\ noffH \in HeadersOf
        /\ output \in Outputs /\ output.body \in Seq(0..255)
    BY <1>2, <2>1, FinishFacts
  <2>3. CoffTypes' /\ CoffSoFar'
    BY <1>2, <2>1, FinishKeepsTypes
  <2>4. LinkedAtZero => HeaderIs(coff, coff.f_nscns, noffH, output.body)
    BY <1>2, <2>1, <2>2 DEF CoffInv, CoffSoFar, LinkedAtZero
  <2>5. PICK noff : noff = output' /\ noff.header = noffH /\ noff.body = output.body
    <3>1. output'.header = noffH /\ output'.body = output.body
      BY <1>2, <2>2 DEF Outputs
    <3> QED
      BY <3>1
  <2>6. LinkedAtZero => NoffSpace(noff) = End /\ \A a \in 0..End - 1 : NoffByte(noff, a) = CoffByte(a)
    <3> SUFFICES ASSUME LinkedAtZero
                 PROVE  NoffSpace(noff) = End /\ \A a \in Int : NoffByte(noff, a) = CoffByte(a)
      <4>1. End \in Nat
        BY <2>2, EndIs
      <4>2. 0..End - 1 \subseteq Int
        BY <4>1
      <4> QED
        BY <4>2
    <3> QED
      BY <2>2, <2>4, <2>5, NoffSpaceIs, NoffByteIs
  <2>7. /\ LinkedAtZero' = LinkedAtZero /\ End' = End /\ \A a : CoffByte(a)' = CoffByte(a)
        /\ converter' = "coff2noff" /\ step' = "exit 0"
    BY <1>2, <2>1, SameFile
  <2>8. ConvertsFaithfully'
    BY <2>5, <2>6, <2>7 DEF ConvertsFaithfully, NoffFaithful, FlatFaithful
  <2> QED
    BY <2>3, <2>8 DEF CoffInv
<1> QED
  BY <1>1, <1>2 DEF NoffFinish, Finished

\* The end of coff2flat: the file is extended by what is not initialised and the stack.
LEMMA FlatFinishKeeps ==
    ASSUME CoffInv, FlatFinish
    PROVE  CoffInv'
<1>1. CASE \E message : Fail(message)
  BY <1>1, FailKeeps
<1>2. CASE /\ writable /\ output' = [output EXCEPT !.body = Extended(@)] /\ step' = "exit 0"
           /\ UNCHANGED << converter, coff, writable, noffH, section, top, complaint >>
  <2>1. step = "sections" /\ converter = "coff2flat" /\ section > coff.f_nscns
    BY DEF FlatFinish, Finished
  <2>2. /\ Readable /\ coff.f_nscns \in Nat /\ section - 1 = coff.f_nscns /\ top \in Nat
        /\ output \in Outputs /\ output.body \in Seq(0..255)
    BY <1>2, <2>1, FinishFacts
  <2>3. CoffTypes' /\ CoffSoFar'
    BY <1>2, <2>1, FinishKeepsTypes
  <2>4. LinkedAtZero /\ InOrder =>
          FlatIs(coff, coff.f_nscns, output.body) /\ TopIs(coff, coff.f_nscns, top)
    BY <1>2, <2>1, <2>2 DEF CoffInv, CoffSoFar
  <2>5. output'.body = Extended(output.body)
    BY <1>2, <2>2 DEF Outputs
  <2>6. LinkedAtZero /\ InOrder =>
          /\ Len(output'.body) = End + StackSize
          /\ \A a \in 0..End - 1 : output'.body[a + 1] = CoffByte(a)
    BY <2>2, <2>4, <2>5, FlatIsMemory
  <2>7. /\ LinkedAtZero' = LinkedAtZero /\ InOrder' = InOrder /\ End' = End
        /\ \A a : CoffByte(a)' = CoffByte(a)
        /\ converter' = "coff2flat" /\ step' = "exit 0"
    BY <1>2, <2>1, SameFile
  <2>8. ConvertsFaithfully'
    BY <2>6, <2>7 DEF ConvertsFaithfully, NoffFaithful, FlatFaithful
  <2> QED
    BY <2>3, <2>8 DEF CoffInv
<1> QED
  BY <1>1, <1>2 DEF FlatFinish, Finished

\* What the converters have written so far is what the headers of the COFF file
\* say of the sections so far.
THEOREM CoffInvariant == CoffSpec => []CoffInv
<1>1. CoffInit => CoffInv
  <2> SUFFICES ASSUME CoffInit PROVE CoffInv
    OBVIOUS
  <2>1. /\ step = "open" /\ section = 1 /\ top = 0 /\ noffH = NoffH0 /\ output = Absent
        /\ converter \in {"coff2noff", "coff2flat"} /\ coff \in CoffFiles \cup {Absent}
    BY DEF CoffInit, Called
  <2>2. NoffH0 \in [code : Segments, initData : Segments, uninitData : Segments]
    BY DEF NoffH0, NoSegment, Segments
  <2>3. CoffTypes
    BY <2>1, <2>2 DEF CoffTypes
  <2>4. CoffSoFar /\ ConvertsFaithfully
    BY <2>1 DEF CoffSoFar, ConvertsFaithfully, NoffFaithful, FlatFaithful
  <2> QED
    BY <2>3, <2>4 DEF CoffInv
<1>2. CoffInv /\ [CoffNext]_coffVars => CoffInv'
  <2> SUFFICES ASSUME CoffInv, [CoffNext]_coffVars PROVE CoffInv'
    OBVIOUS
  <2>1. CASE NoffOpen \/ FlatOpen
    BY <2>1, OpenedKeeps DEF NoffOpen, FlatOpen
  <2>2. CASE NoffHeaders \/ FlatHeaders
    BY <2>2, HeadersKeep DEF NoffHeaders, FlatHeaders
  <2>3. CASE converter = "coff2noff" /\ Copying /\ NoffSection
    BY <2>3, NoffSectionKeeps
  <2>4. CASE converter = "coff2flat" /\ Copying /\ FlatSection
    BY <2>4, FlatSectionKeeps
  <2>5. CASE NoffFinish
    BY <2>5, NoffFinishKeeps
  <2>6. CASE FlatFinish
    BY <2>6, FlatFinishKeeps
  <2>7. CASE UNCHANGED coffVars
    <3>1. UNCHANGED << converter, coff, writable, output, noffH, section, top, step, complaint >>
      BY <2>7 DEF coffVars
    <3>2. CoffTypes'
      <4>1. /\ converter' \in {"coff2noff", "coff2flat"} /\ coff' \in CoffFiles \cup {Absent}
            /\ step' \in {"open", "headers", "sections", "exit 0", "exit 1"}
            /\ section' \in Nat \ {0} /\ top' \in Nat
            /\ noffH' \in [code : Segments, initData : Segments, uninitData : Segments]
        <5>1. /\ converter \in {"coff2noff", "coff2flat"} /\ coff \in CoffFiles \cup {Absent}
              /\ step \in {"open", "headers", "sections", "exit 0", "exit 1"}
              /\ section \in Nat \ {0} /\ top \in Nat
              /\ noffH \in [code : Segments, initData : Segments, uninitData : Segments]
          BY DEF CoffInv, CoffTypes
        <5> QED
          BY <3>1, <5>1
      <4>2. step' \in {"headers", "sections", "exit 0"} => coff' \in CoffFiles
        BY <3>1 DEF CoffInv, CoffTypes
      <4>3. step' \in {"headers", "sections"} /\ writable' =>
                output' \in [header : {Absent}, body : Seq(0..255)]
        BY <3>1 DEF CoffInv, CoffTypes
      <4>4. step' \in {"open", "headers"} =>
                /\ section' = 1 /\ top' = 0 /\ noffH' = NoffH0
                /\ step' = "headers" /\ writable' => output'.body = << >>
                /\ step' = "open" => output' = Absent
        <5>1. step \in {"open", "headers"} =>
                /\ section = 1 /\ top = 0 /\ noffH = NoffH0
                /\ step = "headers" /\ writable => output.body = << >>
                /\ step = "open" => output = Absent
          BY DEF CoffInv, CoffTypes
        <5> QED
          BY <3>1, <5>1
      <4>5. step' \in {"sections", "exit 0"} =>
                coff'.f_nscns <= Len(coff'.sections) /\ section' <= coff'.f_nscns + 1
        BY <3>1 DEF CoffInv, CoffTypes
      <4> QED
        BY <4>1, <4>2, <4>3, <4>4, <4>5 DEF CoffTypes
    <3>3. CoffSoFar'
      BY <3>1, SameFile DEF CoffInv, CoffSoFar
    <3>4. ConvertsFaithfully'
      <4>1. /\ LinkedAtZero' = LinkedAtZero /\ InOrder' = InOrder /\ End' = End
            /\ \A a : CoffByte(a)' = CoffByte(a)
        BY <3>1, SameFile
      <4>2. NoffFaithful'
        BY <3>1, <4>1 DEF CoffInv, ConvertsFaithfully, NoffFaithful
      <4>3. FlatFaithful'
        BY <3>1, <4>1 DEF CoffInv, ConvertsFaithfully, FlatFaithful
      <4> QED
        BY <4>2, <4>3 DEF ConvertsFaithfully
    <3> QED
      BY <3>2, <3>3, <3>4 DEF CoffInv
  <2> QED
    BY <2>1, <2>2, <2>3, <2>4, <2>5, <2>6, <2>7 DEF CoffNext, Coff2Noff, Coff2Flat
<1> QED
  BY <1>1, <1>2, PTL DEF CoffSpec

\* Of an executable that is linked at 0, however many sections it has and however
\* long they are, what coff2noff and coff2flat write gives the memory that the
\* COFF file describes; and coff2noff leaves no file when it fails.
THEOREM ConvertersAreFaithful == CoffSpec => []ConvertsFaithfully
<1>1. CoffInv => ConvertsFaithfully
  BY DEF CoffInv
<1> QED
  BY <1>1, CoffInvariant, PTL

-----------------------------------------------------------------------------
(* What timewrite writes.                                                  *)

\* File f has the first m bytes of the input, and behind them what it had.
HasInput(f, m) ==
    /\ f \in Seq(Int)
    /\ Len(f) = IF m > Len(OldContents) THEN m ELSE Len(OldContents)
    /\ \A i \in 1..Len(f) : f[i] = IF i <= m THEN input[i] ELSE OldContents[i]

\* In a round as much has been written as there are pieces of the size, and
\* only the last reached the end of the input; what an earlier round has written
\* is still there.
InRound ==
    /\ offset = cnt * buffersize
    /\ cnt > 0 => buffersize >= 0 /\ offset - buffersize < Len(input)

TimeWriteInv ==
    /\ input \in Inputs /\ cnt \in Nat /\ offset \in 0..IntMax
    /\ buffersize \in Int /\ buffersize <= IntMax
    /\ phase \in {"size", "write", "exit 1"}
    /\ phase # "exit 1" =>
          \E m \in 0..Len(input) : HasInput(outfile, m) /\ (m >= offset \/ m = Len(input))
    /\ phase = "write" => InRound

\* A piece of a sequence, if there is one.
LEMMA PieceIs ==
    ASSUME NEW s \in Seq(Int), NEW a \in Nat, NEW b \in 0..Len(s)
    PROVE  /\ SubSeq(s, a + 1, b) \in Seq(Int)
           /\ Len(SubSeq(s, a + 1, b)) = (IF b > a THEN b - a ELSE 0)
           /\ \A i \in 1..Len(SubSeq(s, a + 1, b)) : SubSeq(s, a + 1, b)[i] = s[a + i]
<1>1. Len(s) \in Nat /\ a + 1 \in Int /\ b \in Int
  BY LenProperties
<1>2. \A i \in a + 1..b : s[i] \in Int
  <2>1. \A i \in a + 1..b : i \in 1..Len(s)
    BY <1>1
  <2> QED
    BY <2>1, ElementOfSeq
<1> DEFINE p == SubSeq(s, a + 1, b)
<1>3. /\ p \in Seq(Int) /\ Len(p) = (IF a + 1 <= b THEN b - (a + 1) + 1 ELSE 0)
      /\ \A i \in 1..b - (a + 1) + 1 : p[i] = s[(a + 1) + i - 1]
  BY <1>1, <1>2, SubSeqProperties
<1> HIDE DEF p
<1>4. Len(p) = IF b > a THEN b - a ELSE 0
  BY <1>1, <1>3
<1>5. \A i \in 1..Len(p) : i \in 1..b - (a + 1) + 1 /\ (a + 1) + i - 1 = a + i
  BY <1>1, <1>4
<1>6. p \in Seq(Int) /\ \A i \in 1..Len(p) : p[i] = s[a + i]
  BY <1>3, <1>5
<1> QED
  BY <1>4, <1>6 DEF p

\* The file is then the input followed by the rest of the old contents.
LEMMA HasAll ==
    ASSUME input \in Inputs, NEW f, NEW m \in 0..Len(input), HasInput(f, m)
    PROVE  f = SubSeq(input, 1, m) \o SubSeq(OldContents, m + 1, Len(OldContents))
<1>1. input \in Seq(Int) /\ OldContents \in Seq(Int) /\ m \in Nat
  BY TimeWriteAssumption
<1> DEFINE a == SubSeq(input, 1, m)
           b == SubSeq(OldContents, m + 1, Len(OldContents))
<1>2. a \in Seq(Int) /\ Len(a) = m /\ \A i \in 1..m : a[i] = input[i]
  BY <1>1
<1>3. PICK n \in Nat : n = Len(OldContents)
  BY <1>1
<1>4. /\ b \in Seq(Int) /\ Len(b) = (IF n > m THEN n - m ELSE 0)
      /\ \A i \in 1..Len(b) : b[i] = OldContents[m + i]
  <2>1. n \in 0..Len(OldContents) /\ b = SubSeq(OldContents, m + 1, n)
    BY <1>3
  <2> DEFINE c == SubSeq(OldContents, m + 1, n)
  <2>2. /\ c \in Seq(Int) /\ Len(c) = (IF n > m THEN n - m ELSE 0)
        /\ \A i \in 1..Len(c) : c[i] = OldContents[m + i]
    <3>1. OldContents \in Seq(Int) /\ m \in Nat /\ n \in 0..Len(OldContents)
      BY <1>1, <2>1
    <3> QED
      BY <3>1, PieceIs
  <2> HIDE DEF b, c
  <2>3. b = c
    BY <2>1 DEF b, c
  <2> QED
    BY <2>2, <2>3
<1> HIDE DEF a, b
<1>5. /\ a \o b \in Seq(Int) /\ Len(a \o b) = m + Len(b)
      /\ \A i \in 1..m + Len(b) : (a \o b)[i] = IF i <= m THEN a[i] ELSE b[i - m]
  <2>1. a \in Seq(Int) /\ b \in Seq(Int) /\ Len(a) = m
    BY <1>2, <1>4
  <2>2. /\ a \o b \in Seq(Int) /\ Len(a \o b) = Len(a) + Len(b)
        /\ \A i \in 1..Len(a) + Len(b) :
              (a \o b)[i] = IF i <= Len(a) THEN a[i] ELSE b[i - Len(a)]
    BY <2>1, ConcatProperties
  <2> QED
    BY <2>1, <2>2
<1>6. f \in Seq(Int) /\ Len(f) = Len(a \o b)
  BY <1>1, <1>3, <1>4, <1>5 DEF HasInput
<1>7. ASSUME NEW i \in 1..Len(f) PROVE f[i] = (a \o b)[i]
  <2>1. f[i] = IF i <= m THEN input[i] ELSE OldContents[i]
    BY DEF HasInput
  <2>2. i \in 1..m + Len(b)
    BY <1>5, <1>6
  <2>3. CASE i <= m
    <3>1. i \in 1..m
      BY <1>1, <1>7, <2>3
    <3>2. (a \o b)[i] = a[i]
      BY <1>5, <2>2, <2>3
    <3> QED
      BY <1>2, <2>1, <2>3, <3>1, <3>2
  <2>4. CASE ~(i <= m)
    <3>1. i - m \in 1..Len(b) /\ m + (i - m) = i
      BY <1>1, <1>4, <2>2, <2>4
    <3>2. b[i - m] = OldContents[i]
      BY <1>4, <3>1
    <3>3. (a \o b)[i] = b[i - m]
      BY <1>5, <2>2, <2>4
    <3> QED
      BY <2>1, <2>4, <3>2, <3>3
  <2> QED
    BY <2>3, <2>4
<1>8. f = a \o b
  BY <1>5, <1>6, <1>7, SeqEqual
<1> QED
  BY <1>8 DEF a, b

\* r is f with n items of s over its own from place k on.
IsOver(r, f, s, k, n) ==
    /\ r \in Seq(Int) /\ Len(r) = (IF Len(f) > k + n THEN Len(f) ELSE k + n)
    /\ \A i \in 1..Len(r) : r[i] = IF i > k /\ i <= k + n THEN s[i] ELSE f[i]

\* So is what Put writes.
LEMMA Overwritten ==
    ASSUME NEW f \in Seq(Int), NEW s \in Seq(Int), NEW k \in 0..Len(f), NEW n \in Nat,
           k + n <= Len(s)
    PROVE  IsOver(SubSeq(f, 1, k) \o SubSeq(s, k + 1, k + n) \o SubSeq(f, k + n + 1, Len(f)),
                  f, s, k, n)
<1> SUFFICES ASSUME NEW r,
                    r = SubSeq(f, 1, k) \o SubSeq(s, k + 1, k + n) \o SubSeq(f, k + n + 1, Len(f))
             PROVE  IsOver(r, f, s, k, n)
  OBVIOUS
<1> DEFINE a == SubSeq(f, 1, k)
           b == SubSeq(s, k + 1, k + n)
           c == SubSeq(f, k + n + 1, Len(f))
<1>1. PICK l \in Nat, z \in Nat : l = Len(f) /\ z = Len(s)
  BY LenProperties
<1>2. /\ k \in Nat /\ k <= l /\ k + n \in Nat /\ k + n \in 0..Len(s) /\ Len(f) \in 0..Len(f)
      /\ 0 \in Nat /\ 0 + 1 = 1
  BY <1>1
<1>3. a \in Seq(Int) /\ Len(a) = k /\ \A i \in 1..k : a[i] = f[i]
  <2>1. /\ SubSeq(f, 0 + 1, k) \in Seq(Int) /\ Len(SubSeq(f, 0 + 1, k)) = (IF k > 0 THEN k - 0 ELSE 0)
        /\ \A i \in 1..Len(SubSeq(f, 0 + 1, k)) : SubSeq(f, 0 + 1, k)[i] = f[0 + i]
    BY <1>2, PieceIs
  <2>2. (IF k > 0 THEN k - 0 ELSE 0) = k /\ \A i \in 1..k : 0 + i = i
    BY <1>2
  <2> QED
    BY <1>2, <2>1, <2>2
<1>4. b \in Seq(Int) /\ Len(b) = n /\ \A i \in 1..n : b[i] = s[k + i]
  <2>1. /\ b \in Seq(Int) /\ Len(b) = (IF k + n > k THEN (k + n) - k ELSE 0)
        /\ \A i \in 1..Len(b) : b[i] = s[k + i]
    BY <1>2, PieceIs
  <2>2. (IF k + n > k THEN (k + n) - k ELSE 0) = n
    BY <1>2
  <2> QED
    BY <2>1, <2>2
<1>5. /\ c \in Seq(Int) /\ Len(c) = (IF l > k + n THEN l - (k + n) ELSE 0)
      /\ \A i \in 1..Len(c) : c[i] = f[(k + n) + i]
  BY <1>1, <1>2, PieceIs
<1> HIDE DEF a, b, c
<1>6. PICK ab \in Seq(Int), e \in Nat, q \in Nat :
          /\ ab = a \o b /\ e = k + n /\ q = Len(c) /\ q = (IF l > e THEN l - e ELSE 0)
          /\ Len(ab) = e /\ \A i \in 1..e : ab[i] = IF i <= k THEN a[i] ELSE b[i - k]
  <2>1. /\ a \o b \in Seq(Int) /\ Len(a \o b) = k + n
        /\ \A i \in 1..k + n : (a \o b)[i] = IF i <= k THEN a[i] ELSE b[i - k]
    BY <1>3, <1>4, ConcatProperties
  <2>2. PICK e \in Nat, q \in Nat : e = k + n /\ q = Len(c)
    BY <1>2, <1>5, LenProperties
  <2> QED
    BY <1>5, <2>1, <2>2
<1>7. /\ r \in Seq(Int) /\ Len(r) = e + q
      /\ \A i \in 1..e + q : r[i] = IF i <= e THEN ab[i] ELSE c[i - e]
  <2>1. r = ab \o c
    BY <1>6 DEF a, b, c
  <2>2. /\ ab \o c \in Seq(Int) /\ Len(ab \o c) = Len(ab) + Len(c)
        /\ \A i \in 1..Len(ab) + Len(c) :
              (ab \o c)[i] = IF i <= Len(ab) THEN ab[i] ELSE c[i - Len(ab)]
    BY <1>5, ConcatProperties
  <2>3. Len(ab) = e /\ Len(c) = q
    BY <1>6
  <2> QED
    BY <2>1, <2>2, <2>3
<1>8. Len(r) = IF l > e THEN l ELSE e
  <2>1. e + q = IF l > e THEN l ELSE e
    BY <1>6
  <2> QED
    BY <1>7, <2>1
<1>9. ASSUME NEW i \in 1..e + q
      PROVE  r[i] = IF i > k /\ i <= e THEN s[i] ELSE f[i]
  <2>1. i \in Nat /\ i > 0 /\ e = k + n /\ k \in Nat /\ e \in Nat
    BY <1>2, <1>6
  <2>2. CASE i <= k
    <3>1. i \in 1..k /\ i \in 1..e /\ i <= e /\ ~(i > k)
      BY <2>1, <2>2
    <3>2. r[i] = a[i]
      BY <1>6, <1>7, <2>2, <3>1
    <3> QED
      BY <1>3, <3>1, <3>2
  <2>3. CASE i > k /\ i <= e
    <3>1. i - k \in 1..n /\ i \in 1..e /\ ~(i <= k) /\ k + (i - k) = i
      BY <2>1, <2>3
    <3>2. r[i] = b[i - k]
      BY <1>6, <1>7, <2>3, <3>1
    <3> QED
      BY <1>4, <2>3, <3>1, <3>2
  <2>4. CASE i > e
    <3>1. i - e \in 1..q /\ ~(i <= e) /\ e + (i - e) = i
      BY <1>6, <2>1, <2>4
    <3>2. r[i] = c[i - e]
      BY <1>7, <3>1
    <3>3. c[i - e] = f[e + (i - e)]
      BY <1>5, <1>6, <3>1
    <3> QED
      BY <3>1, <3>2, <3>3
  <2>5. i <= k \/ (i > k /\ i <= e) \/ i > e
    BY <2>1
  <2> QED
    BY <2>2, <2>3, <2>4, <2>5
<1>10. /\ r \in Seq(Int) /\ Len(r) = (IF Len(f) > k + n THEN Len(f) ELSE k + n)
       /\ \A i \in 1..Len(r) : r[i] = IF i > k /\ i <= k + n THEN s[i] ELSE f[i]
  BY <1>1, <1>6, <1>7, <1>8, <1>9
<1> QED
  BY <1>10 DEF IsOver

\* A piece written where the file has the input so far: it then has the input
\* to the end of the piece, or further.
LEMMA PutPiece ==
    ASSUME input \in Inputs, NEW m \in 0..Len(input), HasInput(outfile, m),
           offset \in 0..m, NEW n \in Nat, offset + n <= Len(input), Put(n)
    PROVE  HasInput(outfile', IF m > offset + n THEN m ELSE offset + n)
<1>1. PICK f \in Seq(Int), s \in Seq(Int), k \in Nat, o \in Nat, z \in Nat :
          /\ f = outfile /\ s = input /\ k = offset /\ o = Len(OldContents) /\ z = Len(input)
  <2>1. outfile \in Seq(Int) /\ input \in Seq(Int) /\ OldContents \in Seq(Int)
    BY TimeWriteAssumption DEF HasInput
  <2>2. Len(OldContents) \in Nat /\ Len(input) \in Nat
    BY <2>1, LenProperties
  <2>3. offset \in Nat
    BY <2>2
  <2> QED
    BY <2>1, <2>2, <2>3
<1>2. PICK l \in Nat, e \in Nat :
          /\ l = Len(f) /\ e = offset + n /\ l = (IF m > o THEN m ELSE o)
          /\ m \in 0..z /\ k <= m /\ e = k + n /\ e <= z
          /\ \A i \in 1..l : f[i] = IF i <= m THEN s[i] ELSE OldContents[i]
  <2>1. Len(f) = (IF m > o THEN m ELSE o) /\ m \in 0..z /\ k <= m /\ k + n <= z
    BY <1>1 DEF HasInput
  <2>2. \A i \in 1..Len(f) : f[i] = IF i <= m THEN s[i] ELSE OldContents[i]
    BY <1>1 DEF HasInput
  <2>3. PICK l \in Nat, e \in Nat : l = Len(f) /\ e = k + n
    BY <1>1, LenProperties
  <2> QED
    BY <1>1, <2>1, <2>2, <2>3
<1>3. k \in 0..Len(f) /\ k + n <= Len(s)
  <2>1. k \in 0..l
    BY <1>1, <1>2
  <2> QED
    BY <1>1, <1>2, <2>1
<1>4. PICK r : /\ r = outfile'
               /\ r = SubSeq(f, 1, k) \o SubSeq(s, k + 1, k + n) \o SubSeq(f, k + n + 1, Len(f))
  BY <1>1 DEF Put
<1>5. /\ r \in Seq(Int) /\ Len(r) = (IF l > e THEN l ELSE e)
      /\ \A i \in 1..Len(r) : r[i] = IF i > k /\ i <= e THEN s[i] ELSE f[i]
  <2>1. r = SubSeq(f, 1, k) \o SubSeq(s, k + 1, k + n) \o SubSeq(f, k + n + 1, Len(f))
    BY <1>4
  <2>2. IsOver(r, f, s, k, n)
    BY <1>3, <2>1, Overwritten
  <2>3. l = Len(f) /\ e = k + n
    BY <1>2
  <2>4. /\ r \in Seq(Int) /\ Len(r) = (IF Len(f) > k + n THEN Len(f) ELSE k + n)
        /\ \A i \in 1..Len(r) : r[i] = IF i > k /\ i <= k + n THEN s[i] ELSE f[i]
    BY <2>2 DEF IsOver
  <2> QED
    BY <2>3, <2>4
<1>6. PICK M \in Nat : M = IF m > e THEN m ELSE e
  BY <1>2
<1>7. Len(r) = IF M > o THEN M ELSE o
  <2>1. m \in Nat /\ l = (IF m > o THEN m ELSE o) /\ M = (IF m > e THEN m ELSE e)
    BY <1>1, <1>2, <1>6
  <2>2. (IF l > e THEN l ELSE e) = IF M > o THEN M ELSE o
    BY <2>1
  <2> QED
    BY <1>5, <2>2
<1>8. ASSUME NEW i \in 1..Len(r)
      PROVE  r[i] = IF i <= M THEN s[i] ELSE OldContents[i]
  <2>1. i \in Nat /\ i > 0 /\ i <= (IF l > e THEN l ELSE e)
    <3>1. Len(r) \in Nat
      BY <1>5, LenProperties
    <3> QED
      BY <1>5, <1>8, <3>1
  <2>2. CASE i > k /\ i <= e
    <3>1. i <= M
      BY <1>2, <1>6, <2>1, <2>2
    <3> QED
      BY <1>5, <2>2, <3>1
  <2>3. CASE ~(i > k /\ i <= e)
    <3>1. r[i] = f[i]
      BY <1>5, <2>3
    <3>2. i \in 1..l /\ (i <= M <=> i <= m)
      BY <1>1, <1>2, <1>6, <2>1, <2>3
    <3> QED
      BY <1>2, <3>1, <3>2
  <2> QED
    BY <2>2, <2>3
<1>9. outfile' \in Seq(Int) /\ (IF m > offset + n THEN m ELSE offset + n) = M
  BY <1>2, <1>4, <1>5, <1>6
<1>10. Len(outfile') = (IF M > Len(OldContents) THEN M ELSE Len(OldContents))
  BY <1>1, <1>4, <1>7
<1>11. \A i \in 1..Len(outfile') : outfile'[i] = IF i <= M THEN input[i] ELSE OldContents[i]
  BY <1>1, <1>4, <1>8
<1> QED
  BY <1>9, <1>10, <1>11 DEF HasInput

\* Doubling wraps around, but gives an int.
LEMMA DoubledIs ==
    ASSUME buffersize \in Int
    PROVE  Doubled \in Int /\ Doubled <= IntMax
<1>1. PICK z \in Nat \ {0} : z = 2 * (IntMax + 1)
  BY TimeWriteAssumption
<1>2. PICK n \in 0..z - 1 : n = (2 * buffersize) % z
  BY <1>1
<1>3. Doubled = IF n <= IntMax THEN n ELSE n - z
  BY <1>1, <1>2 DEF Doubled
<1> QED
  BY <1>1, <1>2, <1>3, TimeWriteAssumption

\* The first piece, and one that begins in the input, whose half the sizes reach.
LEMMA NoOverflow ==
    ASSUME NEW l \in Nat, 2 * l <= IntMax + 1, NEW b \in 0..IntMax, NEW c \in Nat, c * b < l
    PROVE  c * b + b \in 0..IntMax
<1>1. IntMax \in Nat
  BY TimeWriteAssumption
<1>2. PICK p \in Nat : p = c * b
  OBVIOUS
<1>3. CASE c = 0
  BY <1>1, <1>3
<1>4. CASE c # 0
  <2>1. p >= b
    <3>1. PICK d \in Nat : c = d + 1
      <4>1. c - 1 \in Nat /\ c = (c - 1) + 1
        BY <1>4
      <4> QED
        BY <4>1
    <3>2. PICK q \in Nat : q = d * b
      OBVIOUS
    <3>3. (d + 1) * b = d * b + b
      OBVIOUS
    <3> QED
      BY <1>2, <3>1, <3>2, <3>3
  <2>2. p < l /\ p + b <= IntMax
    BY <1>1, <1>2, <2>1
  <2> QED
    BY <1>2, <2>2
<1> QED
  BY <1>3, <1>4

\* A piece adds to the input in the file, in its round.
LEMMA PieceKeeps ==
    ASSUME TimeWriteInv, WritePiece
    PROVE  TimeWriteInv'
<1>1. /\ phase = "write" /\ phase' = "write" /\ input' = input /\ buffersize' = buffersize
      /\ offset < Len(input) /\ offset' = offset + buffersize /\ cnt' = cnt + 1
      /\ WriteSize >= 0 /\ Put(WriteSize)
  BY DEF WritePiece
<1>2. /\ input \in Inputs /\ cnt \in Nat /\ offset \in 0..IntMax /\ buffersize \in Int /\ buffersize <= IntMax
      /\ offset = cnt * buffersize
  BY <1>1 DEF TimeWriteInv, InRound
<1>3. PICK l \in Nat : l = Len(input) /\ 2 * l <= IntMax + 1
  BY <1>2, TimeWriteAssumption, LenProperties
<1>3a. PICK o \in Nat : o = offset
  BY <1>2, TimeWriteAssumption
<1>4. PICK n \in Nat : n = WriteSize /\ n = IF buffersize < l - o THEN buffersize ELSE l - o
  <2>1. WriteSize = IF buffersize < l - o THEN buffersize ELSE l - o
    BY <1>3, <1>3a DEF WriteSize
  <2>2. WriteSize \in Int /\ WriteSize >= 0
    BY <1>1, <1>2, <2>1
  <2> QED
    BY <2>1, <2>2
<1>5. IntMax \in Nat /\ buffersize \in 0..IntMax
  <2>1. o < l /\ IntMax \in Nat
    BY <1>1, <1>3, <1>3a, TimeWriteAssumption
  <2>2. buffersize >= 0
    BY <1>2, <1>4, <2>1
  <2> QED
    BY <1>2, <2>1, <2>2
<1>6. offset' \in 0..IntMax
  BY <1>1, <1>2, <1>3, <1>5, NoOverflow
<1>7. PICK m \in 0..Len(input) : HasInput(outfile, m) /\ offset \in 0..m
  <2>1. PICK m \in 0..Len(input) : HasInput(outfile, m) /\ (m >= offset \/ m = Len(input))
    BY <1>1 DEF TimeWriteInv
  <2>2. offset \in 0..m
    BY <1>1, <1>2, <1>3, <2>1
  <2> QED
    BY <2>1, <2>2
<1>8. PICK k \in Nat : k = IF m > offset + n THEN m ELSE offset + n
  BY <1>2, <1>3, <1>7
<1>9. HasInput(outfile', k)
  <2>1. offset + n <= Len(input)
    <3>1. PICK b \in Nat : b = buffersize
      BY <1>5
    <3>2. n = IF b < l - o THEN b ELSE l - o
      BY <1>4, <3>1
    <3>3. o + n <= l
      BY <3>2
    <3> QED
      BY <1>3, <1>3a, <3>3
  <2>2. HasInput(outfile', IF m > offset + n THEN m ELSE offset + n)
    BY <1>1, <1>2, <1>4, <1>7, <2>1, PutPiece
  <2> QED
    BY <1>8, <2>2
<1>10. k \in 0..Len(input) /\ (k >= offset' \/ k = Len(input))
  <2>1. PICK b \in Nat : b = buffersize /\ o = offset
    BY <1>3a, <1>5
  <2>2. m \in 0..l /\ k = (IF m > o + n THEN m ELSE o + n) /\ n = (IF b < l - o THEN b ELSE l - o)
    BY <1>3, <1>4, <1>7, <1>8, <2>1
  <2>3. o < l
    BY <1>1, <1>3, <2>1
  <2>4. k \in 0..l /\ (k >= o + b \/ k = l)
    BY <2>2, <2>3
  <2>5. k \in 0..l /\ (k >= offset + buffersize \/ k = l)
    BY <2>1, <2>4
  <2> QED
    BY <1>1, <1>3, <2>5
<1>11. \E j \in 0..Len(input') : HasInput(outfile, j)' /\ (j >= offset' \/ j = Len(input'))
  <2>1. HasInput(outfile, k)'
    BY <1>1, <1>9 DEF HasInput
  <2> QED
    BY <1>1, <1>10, <2>1
<1>12. InRound'
  <2>1. (cnt + 1) * buffersize = cnt * buffersize + buffersize
    BY <1>2
  <2>2. offset' = cnt' * buffersize'
    BY <1>1, <1>2, <2>1
  <2>3. offset' - buffersize' = offset
    BY <1>1, <1>2
  <2> QED
    BY <1>1, <1>5, <2>2, <2>3 DEF InRound
<1> QED
  BY <1>1, <1>2, <1>6, <1>11, <1>12 DEF TimeWriteInv

\* Every step keeps the invariant.
LEMMA TimeWriteInductive == TimeWriteInv /\ [TimeWriteNext]_timeWriteVars => TimeWriteInv'
<1> SUFFICES ASSUME TimeWriteInv, [TimeWriteNext]_timeWriteVars
             PROVE  TimeWriteInv'
  OBVIOUS
<1>1. /\ input \in Inputs /\ cnt \in Nat /\ offset \in 0..IntMax
      /\ buffersize \in Int /\ buffersize <= IntMax /\ phase \in {"size", "write", "exit 1"} /\ IntMax \in Nat
      /\ Len(input) \in Nat
  BY TimeWriteAssumption, LenProperties DEF TimeWriteInv
<1>2. CASE NextSize
  <2>1. /\ phase = "size" /\ offset' = 0 /\ cnt' = 0 /\ phase' = "write"
        /\ UNCHANGED << input, outfile, buffersize >>
    BY <1>2 DEF NextSize
  <2>2. PICK m \in 0..Len(input) : HasInput(outfile, m)
    BY <2>1 DEF TimeWriteInv
  <2>3. HasInput(outfile, m)' /\ m >= 0
    BY <1>1, <2>1, <2>2 DEF HasInput
  <2>4. InRound'
    BY <1>1, <2>1 DEF InRound
  <2> QED
    BY <1>1, <2>1, <2>3, <2>4 DEF TimeWriteInv
<1>3. CASE WritePiece
  BY <1>3, PieceKeeps
<1>4. CASE WriteError
  BY <1>1, <1>4 DEF WriteError, TimeWriteInv
<1>5. CASE SizeDone
  <2>1. /\ phase = "write" /\ phase' = "size" /\ buffersize' = Doubled
        /\ UNCHANGED << input, outfile, offset, cnt >>
    BY <1>5 DEF SizeDone
  <2>2. PICK m \in 0..Len(input) : HasInput(outfile, m) /\ (m >= offset \/ m = Len(input))
    BY <2>1 DEF TimeWriteInv
  <2>3. HasInput(outfile, m)'
    BY <2>1, <2>2 DEF HasInput
  <2>4. Doubled \in Int /\ Doubled <= IntMax
    BY <1>1, DoubledIs
  <2> QED
    BY <1>1, <2>1, <2>2, <2>3, <2>4 DEF TimeWriteInv
<1>6. CASE UNCHANGED timeWriteVars
  <2>1. UNCHANGED << input, outfile, buffersize, offset, cnt, phase >>
    BY <1>6 DEF timeWriteVars
  <2>2. InRound' = InRound /\ \A m : HasInput(outfile, m)' = HasInput(outfile, m)
    BY <2>1 DEF InRound, HasInput
  <2> QED
    BY <2>1, <2>2 DEF TimeWriteInv
<1> QED
  BY <1>2, <1>3, <1>4, <1>5, <1>6 DEF TimeWriteNext

\* Between the rounds and in them the file has the input so far.
THEOREM TimeWriteInvariant == TimeWriteSpec => []TimeWriteInv
<1>1. TimeWriteInit => TimeWriteInv
  <2> SUFFICES ASSUME TimeWriteInit PROVE TimeWriteInv
    OBVIOUS
  <2>1. /\ input \in Inputs /\ outfile = OldContents /\ buffersize = FirstSize
        /\ offset = 0 /\ cnt = 0 /\ phase = "size"
    BY DEF TimeWriteInit, FromFirstSize
  <2>2. IntMax \in Nat /\ FirstSize \in 1..IntMax /\ OldContents \in Seq(Int) /\ Len(input) \in Nat
    BY <2>1, TimeWriteAssumption, LenProperties
  <2>3. Len(OldContents) \in Nat
    BY <2>2, LenProperties
  <2>4. HasInput(outfile, 0) /\ 0 \in 0..Len(input)
    BY <2>1, <2>2, <2>3 DEF HasInput
  <2>5. buffersize \in Int /\ buffersize <= IntMax /\ offset \in 0..IntMax /\ 0 >= offset
    BY <2>1, <2>2
  <2> QED
    BY <2>1, <2>4, <2>5 DEF TimeWriteInv
<1> QED
  BY <1>1, TimeWriteInductive, PTL DEF TimeWriteSpec

\* After every round the file has all of the input, in as many pieces as are printed
\* (timewrite.c:56-76), for every input, size of int and first size of the pieces.
THEOREM InputIsWritten == TimeWriteSpec => []InputWritten
<1>1. TimeWriteInv => InputWritten
  <2> SUFFICES ASSUME TimeWriteInv PROVE InputWritten
    OBVIOUS
  <2>1. /\ input \in Inputs /\ input \in Seq(Int) /\ cnt \in Nat /\ offset \in 0..IntMax
        /\ buffersize \in Int /\ buffersize <= IntMax /\ IntMax \in Nat
    BY TimeWriteAssumption DEF TimeWriteInv
  <2>2. PICK l \in Nat : l = Len(input)
    BY <2>1, LenProperties
  <2>3. ASSUME phase = "write", offset >= Len(input)
        PROVE  outfile = input \o SubSeq(OldContents, Len(input) + 1, Len(OldContents))
    <3>1. PICK m \in 0..Len(input) : HasInput(outfile, m) /\ (m >= offset \/ m = Len(input))
      BY <2>3 DEF TimeWriteInv
    <3>2. m = Len(input)
      BY <2>1, <2>2, <2>3, <3>1
    <3>3. SubSeq(input, 1, Len(input)) = input
      BY <2>1, SubSeqFull
    <3>4. outfile = SubSeq(input, 1, m) \o SubSeq(OldContents, m + 1, Len(OldContents))
      BY <2>1, <3>1, HasAll
    <3> QED
      BY <3>2, <3>3, <3>4
  <2>4. ASSUME phase = "write", offset >= Len(input), input # << >>
        PROVE  buffersize > 0 /\ cnt = (Len(input) + buffersize - 1) \div buffersize
    <3>1. l > 0
      BY <2>1, <2>2, <2>4, EmptySeq
    <3>2. /\ offset = cnt * buffersize /\ offset >= l
          /\ cnt > 0 => buffersize >= 0 /\ offset - buffersize < l
      BY <2>2, <2>4 DEF TimeWriteInv, InRound
    <3>3. cnt # 0 /\ buffersize # 0
      BY <2>1, <3>1, <3>2
    <3>4. buffersize \in Nat \ {0} /\ offset - buffersize < l
      BY <2>1, <3>2, <3>3
    <3>5. PICK b \in Nat \ {0}, p \in Nat : b = buffersize /\ p = cnt * b /\ p = offset
      BY <2>1, <3>2, <3>4
    <3>6. PICK r \in 0..b - 1 : l + b - 1 = p + r
      <4>1. (l + b - 1) - p \in 0..b - 1 /\ l + b - 1 = p + ((l + b - 1) - p)
        BY <3>2, <3>4, <3>5
      <4> QED
        BY <4>1
    <3>7. Splits(l + b - 1, b, cnt, r)
      BY <2>1, <3>5, <3>6 DEF Splits
    <3>8. (l + b - 1) \div b = cnt
      BY <3>7, RemainderIs
    <3> QED
      BY <2>2, <3>4, <3>5, <3>8
  <2> QED
    BY <2>1, <2>3, <2>4 DEF InputWritten
<1> QED
  BY <1>1, TimeWriteInvariant, PTL
=============================================================================
