---------------------------- MODULE Philosophers ----------------------------
(***************************************************************************)
(* unix/homework/homework_5/philosopher.c: N processes that share N forks. *)
(* A fork is a file; a process has it when it was the one to create it,    *)
(* with O_CREAT|O_EXCL, and gives it back by unlinking it.  A process that *)
(* finds a fork taken sleeps for a second and tries again.                 *)
(***************************************************************************)
EXTENDS Integers, TLAPS

CONSTANT N

ASSUME NAssumption == N \in Nat /\ N > 1

Phil == 0..N - 1

VARIABLES
    forks,      \* the forks whose files exist
    cleared,    \* how many forks initlock() has unlinked
    parent,     \* "initlock", "forking", "waiting", or "failed" when fork() fails
    children,   \* how many philosophers main() has forked
    at          \* how far each of them is in its loop

vars == << forks, cleared, parent, children, at >>

\* unborn     not forked yet
\* thinking   in thinking()
\* first      in lock() of the first fork of takefork()
\* second     in lock() of the second one
\* eating     in eating()
\* putting    in putfork(), the first fork is put back
Points == {"unborn", "thinking", "first", "second", "eating", "putting"}

\* Mutant of Order: the last philosopher is not special.
OrderSame(i) == << (i + 1) % N, i >>

\* The forks of a philosopher in the order of takefork(), which is that of
\* putfork() too.
Order(i) == IF i = N - 1 THEN << N - 1, 0 >> ELSE << i + 1, i >>

\* An earlier run may have left any of the files.
Init ==
    /\ forks \in SUBSET Phil
    /\ cleared = 0
    /\ parent = "initlock"
    /\ children = 0
    /\ at = [i \in Phil |-> "unborn"]

-----------------------------------------------------------------------------
(* The parent.                                                             *)

InitLock ==
    /\ parent = "initlock"
    /\ forks' = forks \ {cleared}
    /\ cleared' = cleared + 1
    /\ parent' = IF cleared + 1 = N THEN "forking" ELSE parent
    /\ UNCHANGED << children, at >>

Fork ==
    /\ parent = "forking"
    /\ children' = children + 1
    /\ parent' = IF children + 1 = N THEN "waiting" ELSE parent
    /\ at' = [at EXCEPT ![children] = "thinking"]
    /\ UNCHANGED << forks, cleared >>

\* The parent exits; the philosophers it has forked go on.
ForkFails ==
    /\ parent = "forking"
    /\ parent' = "failed"
    /\ UNCHANGED << forks, cleared, children, at >>

-----------------------------------------------------------------------------
(* A philosopher.                                                          *)

Moves(i, from, to) ==
    /\ at[i] = from
    /\ at' = [at EXCEPT ![i] = to]
    /\ UNCHANGED << cleared, parent, children >>

Hungry(i) == Moves(i, "thinking", "first") /\ UNCHANGED forks

\* Mutant of Lock: the file is opened although it exists, as without O_EXCL.
LockShared(f) == forks' = forks \cup {f}

\* open() succeeds; while the file exists lock() only sleeps and tries again.
Lock(f) == f \notin forks /\ forks' = forks \cup {f}

Unlock(f) == forks' = forks \ {f}

TakeFirst(i) == Moves(i, "first", "second") /\ Lock(Order(i)[1])
TakeSecond(i) == Moves(i, "second", "eating") /\ Lock(Order(i)[2])
PutFirst(i) == Moves(i, "eating", "putting") /\ Unlock(Order(i)[1])
PutSecond(i) == Moves(i, "putting", "thinking") /\ Unlock(Order(i)[2])

Philosopher(i) ==
    Hungry(i) \/ TakeFirst(i) \/ TakeSecond(i) \/ PutFirst(i) \/ PutSecond(i)

Next == InitLock \/ Fork \/ ForkFails \/ \E i \in Phil : Philosopher(i)

Spec == Init /\ [][Next]_vars

\* The host lets every process run.  That a fork is always free again when its
\* process looks is not assumed.
FairSpec == Spec /\ WF_vars(InitLock) /\ \A i \in Phil : WF_vars(Philosopher(i))

-----------------------------------------------------------------------------
(* Properties.                                                             *)

TypeOK ==
    /\ forks \in SUBSET Phil
    /\ cleared \in 0..N
    /\ parent \in {"initlock", "forking", "waiting", "failed"}
    /\ children \in 0..N
    /\ at \in [Phil -> Points]

\* The forks a philosopher has taken and not put back.
Held(i) ==
    CASE at[i] = "second" -> {Order(i)[1]}
      [] at[i] = "eating" -> {Order(i)[1], Order(i)[2]}
      [] at[i] = "putting" -> {Order(i)[2]}
      [] OTHER -> {}

\* No fork is in two hands, so that neighbours never eat at the same time,
\* although every fork is taken with a call of its own (philosopher.c:57-75).
ForksExclusive ==
    \A i, j \in Phil : i # j => Held(i) \cap Held(j) = {}

\* Once the old files are gone a file exists only while somebody has the fork:
\* no philosopher waits for a fork that nobody will put back.
FilesAreHeld ==
    parent # "initlock" => forks = UNION {Held(i) : i \in Phil}

\* The philosopher is in lock(), and the file exists.
Blocked(i) ==
    \/ at[i] = "first" /\ Order(i)[1] \in forks
    \/ at[i] = "second" /\ Order(i)[2] \in forks

\* They are never all waiting for each other: the last one takes its forks in
\* the other order (philosopher.c:57-65).
NoCircularWait ==
    children > 0 => \E i \in Phil : at[i] # "unborn" /\ ~Blocked(i)

\* The files, the hands and the programs' counters agree, and somebody can go on.
Consistent == TypeOK /\ ForksExclusive /\ FilesAreHeld /\ NoCircularWait

\* Somebody eats, again and again.  (Each of them does only if it is not always
\* overtaken while it sleeps in lock().)
SomebodyEats ==
    [](children > 0 => <>(\E i \in Phil : at[i] = "eating"))

-----------------------------------------------------------------------------
(* What holds of any number of philosophers.                               *)

\* How far the parent is.  The philosophers are born in the order of their
\* numbers, and not before initlock() has removed every file.
ParentInv ==
    /\ parent = "initlock" =>
         children = 0 /\ cleared < N /\ \A f \in forks : cleared <= f
    /\ parent = "forking" => children < N
    /\ \A i \in Phil : at[i] = "unborn" <=> children <= i

\* FilesAreHeld, fork by fork.
FilesHeld ==
    parent # "initlock" =>
        \A f \in Phil : f \in forks <=> \E i \in Phil : f \in Held(i)

Inv == TypeOK /\ ParentInv /\ ForksExclusive /\ FilesHeld

-----------------------------------------------------------------------------

\* The forks of a philosopher are two different ones (philosopher.c:57-75).
LEMMA TwoForks ==
    ASSUME NEW i \in Phil
    PROVE  /\ Order(i)[1] \in Phil
           /\ Order(i)[2] \in Phil
           /\ Order(i)[1] # Order(i)[2]
    BY NAssumption DEF Order, Phil

\* Held() is made of them.
LEMMA HeldForks ==
    ASSUME NEW i \in Phil
    PROVE  Held(i) \subseteq Phil
    BY TwoForks DEF Held

LEMMA InitInv == Init => Inv
  <1> SUFFICES ASSUME Init PROVE Inv
    OBVIOUS
  <1> USE NAssumption DEF Init
  <1>1. TypeOK
    BY DEF TypeOK, Phil, Points
  <1>2. ParentInv
    BY DEF ParentInv, Phil
  <1>3. ForksExclusive
    BY DEF ForksExclusive, Held
  <1>4. FilesHeld
    BY DEF FilesHeld
  <1> QED
    BY <1>1, <1>2, <1>3, <1>4 DEF Inv

\* A step of philosopher p that takes the fork f, puts it back or does neither.
LEMMA PhilosopherKeepsInv ==
    ASSUME Inv, NEW p \in Phil, Philosopher(p)
    PROVE  Inv'
  <1> USE NAssumption DEF Inv, Moves
  <1>0. parent # "initlock" /\ at[p] # "unborn"
    BY DEF Philosopher, Hungry, TakeFirst, TakeSecond, PutFirst, PutSecond,
           TypeOK, ParentInv, Phil
  <1>1. /\ UNCHANGED << cleared, parent, children >>
        /\ at' = [at EXCEPT ![p] = at'[p]]
        /\ at'[p] \in Points \ {"unborn"}
    BY DEF Philosopher, Hungry, TakeFirst, TakeSecond, PutFirst, PutSecond,
           TypeOK, Points
  <1>2. \A i \in Phil : i # p => Held(i)' = Held(i)
    BY <1>1 DEF TypeOK, Held
  <1>3. ParentInv'
    BY <1>0, <1>1 DEF ParentInv, TypeOK, Phil
  <1>4. TypeOK' /\ ForksExclusive' /\ FilesHeld'
    <2> DEFINE one == Order(p)[1]
               two == Order(p)[2]
    <2>0. one \in Phil /\ two \in Phil /\ one # two
      BY TwoForks
    <2> HIDE DEF one, two
    <2>1. CASE UNCHANGED forks /\ Held(p)' = Held(p)
      BY <1>0, <1>1, <1>2, <2>1 DEF TypeOK, ForksExclusive, FilesHeld
    <2>2. ASSUME NEW f \in Phil, f \notin forks, forks' = forks \cup {f},
                 Held(p)' = Held(p) \cup {f}
          PROVE  TypeOK' /\ ForksExclusive' /\ FilesHeld'
      <3>1. \A i \in Phil : f \notin Held(i)
        BY <1>0, <2>2 DEF FilesHeld
      <3>2. ForksExclusive'
        BY <1>2, <2>2, <3>1 DEF ForksExclusive
      <3>3. FilesHeld'
        BY <1>0, <1>2, <2>2 DEF FilesHeld
      <3> QED
        BY <1>1, <2>2, <3>2, <3>3 DEF TypeOK
    <2>3. ASSUME NEW f \in Phil, f \in Held(p), forks' = forks \ {f},
                 Held(p)' = Held(p) \ {f}
          PROVE  TypeOK' /\ ForksExclusive' /\ FilesHeld'
      <3>1. \A i \in Phil : i # p => f \notin Held(i)
        BY <2>3 DEF ForksExclusive
      <3>2. ForksExclusive'
        BY <1>2, <2>3 DEF ForksExclusive
      <3>3. FilesHeld'
        BY <1>0, <1>1, <1>2, <2>3, <3>1 DEF FilesHeld
      <3> QED
        BY <1>1, <2>3, <3>2, <3>3 DEF TypeOK
    <2>4. CASE Hungry(p)
      BY <2>1, <2>4 DEF Hungry, Held, TypeOK
    <2>5. CASE TakeFirst(p)
      <3>1. one \notin forks /\ forks' = forks \cup {one}
        BY <2>5 DEF TakeFirst, Lock, one
      <3>2. Held(p)' = Held(p) \cup {one}
        BY <2>5 DEF TakeFirst, Held, TypeOK, one
      <3> QED
        BY <2>0, <2>2, <3>1, <3>2
    <2>6. CASE TakeSecond(p)
      <3>1. two \notin forks /\ forks' = forks \cup {two}
        BY <2>6 DEF TakeSecond, Lock, two
      <3>2. Held(p)' = Held(p) \cup {two}
        BY <2>6 DEF TakeSecond, Held, TypeOK, two
      <3> QED
        BY <2>0, <2>2, <3>1, <3>2
    <2>7. CASE PutFirst(p)
      <3>1. one \in Held(p) /\ forks' = forks \ {one}
        BY <2>7 DEF PutFirst, Unlock, Held, one
      <3>2. Held(p)' = Held(p) \ {one}
        BY <2>0, <2>7 DEF PutFirst, Held, TypeOK, one, two
      <3> QED
        BY <2>0, <2>3, <3>1, <3>2
    <2>8. CASE PutSecond(p)
      <3>1. two \in Held(p) /\ forks' = forks \ {two}
        BY <2>8 DEF PutSecond, Unlock, Held, two
      <3>2. Held(p)' = Held(p) \ {two}
        BY <2>0, <2>8 DEF PutSecond, Held, TypeOK, two
      <3> QED
        BY <2>0, <2>3, <3>1, <3>2
    <2> QED
      BY <2>4, <2>5, <2>6, <2>7, <2>8 DEF Philosopher
  <1> QED
    BY <1>3, <1>4

\* The parent disturbs nobody: when it unlinks nobody has a fork, and a newborn
\* philosopher has none either.
LEMMA ParentKeepsInv ==
    ASSUME Inv, InitLock \/ Fork \/ ForkFails
    PROVE  Inv'
  <1> USE NAssumption DEF Inv
  <1>1. CASE InitLock
    <2>1. TypeOK'
      BY <1>1 DEF InitLock, TypeOK, ParentInv
    <2>2. ParentInv'
      BY <1>1 DEF InitLock, TypeOK, ParentInv, Phil
    <2>3. \A i \in Phil : at[i] = "unborn" /\ Held(i) = {} /\ Held(i)' = {}
      BY <1>1 DEF InitLock, ParentInv, Held, Phil
    <2>4. ForksExclusive'
      BY <2>3 DEF ForksExclusive
    <2>5. FilesHeld'
      BY <1>1, <2>3 DEF FilesHeld, InitLock, TypeOK, ParentInv, Phil
    <2> QED
      BY <2>1, <2>2, <2>4, <2>5
  <1>2. CASE Fork
    <2>1. TypeOK'
      <3>1. at' \in [Phil -> Points]
        BY <1>2 DEF Fork, TypeOK, Points
      <3>2. /\ children' \in 0..N
            /\ parent' \in {"initlock", "forking", "waiting", "failed"}
        BY <1>2 DEF Fork, TypeOK, ParentInv
      <3>3. UNCHANGED << forks, cleared >>
        BY <1>2 DEF Fork
      <3> QED
        BY <3>1, <3>2, <3>3 DEF TypeOK
    <2>2. ParentInv'
      BY <1>2 DEF Fork, TypeOK, ParentInv, Phil
    <2>3. \A i \in Phil : Held(i)' = Held(i)
      BY <1>2 DEF Fork, TypeOK, ParentInv, Held, Phil
    <2>4. ForksExclusive'
      BY <2>3 DEF ForksExclusive
    <2>5. FilesHeld'
      BY <1>2, <2>3 DEF FilesHeld, Fork
    <2> QED
      BY <2>1, <2>2, <2>4, <2>5
  <1>3. CASE ForkFails
    <2>1. TypeOK' /\ ParentInv'
      BY <1>3 DEF ForkFails, TypeOK, ParentInv
    <2>2. ForksExclusive' /\ FilesHeld'
      BY <1>3 DEF ForkFails, ForksExclusive, FilesHeld, Held
    <2> QED
      BY <2>1, <2>2
  <1> QED
    BY <1>1, <1>2, <1>3

LEMMA NextKeepsInv == Inv /\ [Next]_vars => Inv'
  <1> SUFFICES ASSUME Inv, [Next]_vars PROVE Inv'
    OBVIOUS
  <1>1. CASE UNCHANGED vars
    BY <1>1 DEF Inv, vars, TypeOK, ParentInv, ForksExclusive, FilesHeld, Held
  <1>2. CASE Next
    BY <1>2, ParentKeepsInv, PhilosopherKeepsInv DEF Next
  <1> QED
    BY <1>1, <1>2

LEMMA Invariance == Spec => []Inv
  <1> QED
    BY InitInv, NextKeepsInv, PTL DEF Spec

-----------------------------------------------------------------------------

\* The variables keep their types (philosopher.c:86-114).
THEOREM Typing == Spec => []TypeOK
  <1>1. Inv => TypeOK
    BY DEF Inv
  <1> QED
    BY <1>1, Invariance, PTL

\* No fork is in two hands, for any number of philosophers
\* (philosopher.c:57-75).
THEOREM ForksAreExclusive == Spec => []ForksExclusive
  <1>1. Inv => ForksExclusive
    BY DEF Inv
  <1> QED
    BY <1>1, Invariance, PTL

\* After initlock() a file exists only while somebody has the fork
\* (philosopher.c:19-32).
THEOREM NoForkIsLost == Spec => []FilesAreHeld
  <1>1. Inv => FilesAreHeld
    <2> SUFFICES ASSUME Inv, parent # "initlock"
                 PROVE  forks = UNION {Held(i) : i \in Phil}
      BY DEF FilesAreHeld
    <2>1. \A f \in Phil : f \in forks <=> \E i \in Phil : f \in Held(i)
      BY DEF Inv, FilesHeld
    <2>2. forks \subseteq Phil
      BY DEF Inv, TypeOK
    <2>3. \A i \in Phil : Held(i) \subseteq Phil
      BY HeldForks
    <2> QED
      BY <2>1, <2>2, <2>3
  <1> QED
    BY <1>1, Invariance, PTL

\* Suppose they all wait.  Fork 0 is nobody's first fork, so nobody has it and
\* philosopher 0 does not wait for it.  Fork 1 can only be the first fork of
\* philosopher 1, with N = 2, who then waits for fork 0 (philosopher.c:57-65).
LEMMA InvNoCircularWait == Inv => NoCircularWait
  <1> SUFFICES ASSUME Inv, children > 0,
                      \A i \in Phil : at[i] = "unborn" \/ Blocked(i)
               PROVE  FALSE
    BY DEF NoCircularWait
  <1> USE NAssumption
  <1>1. 0 \in Phil /\ at[0] # "unborn"
    BY DEF Inv, TypeOK, ParentInv, Phil
  <1>2. parent # "initlock"
    BY DEF Inv, ParentInv
  <1>3. \A i \in Phil : at[i] \in {"unborn", "first", "second"}
    BY DEF Blocked
  <1>4. \A f \in forks : \E i \in Phil : at[i] = "second" /\ f = Order(i)[1]
    <2> SUFFICES ASSUME NEW f \in forks
                 PROVE  \E i \in Phil : at[i] = "second" /\ f = Order(i)[1]
      OBVIOUS
    <2>1. PICK i \in Phil : f \in Held(i)
      BY <1>2 DEF Inv, FilesHeld, TypeOK
    <2> QED
      BY <1>3, <2>1 DEF Held
  <1>5. 0 \notin forks
    BY <1>4 DEF Order, Phil
  <1>6. at[0] = "first" /\ 1 \in forks
    BY <1>1, <1>5 DEF Blocked, Order
  <1>7. PICK j \in Phil : at[j] = "second" /\ 1 = Order(j)[1]
    BY <1>4, <1>6
  <1>8. j = N - 1 /\ Order(j)[2] = 0
    BY <1>6, <1>7 DEF Order, Phil
  <1> QED
    BY <1>5, <1>7, <1>8 DEF Blocked

\* They never all wait for each other, for any number of philosophers
\* (philosopher.c:57-65).
THEOREM NeverAllWaiting == Spec => []NoCircularWait
  <1> QED
    BY InvNoCircularWait, Invariance, PTL

\* The files, the hands and the programs' counters agree, and somebody can go on.
THEOREM PhilosophersAreConsistent == Spec => []Consistent
  <1> QED
    BY Typing, ForksAreExclusive, NoForkIsLost, NeverAllWaiting, PTL DEF Consistent
=============================================================================
