---------------------------- MODULE KernelProofs ----------------------------
(***************************************************************************)
(* Theorems about Kernel, for every set of threads and semaphores.         *)
(***************************************************************************)
EXTENDS Kernel, SequenceTheorems, FiniteSetTheorems, TLAPS

-----------------------------------------------------------------------------
(* Facts about the lists of list.cc, used as FIFO queues without           *)
(* duplicates.                                                             *)

\* Appending a new element keeps a list free of duplicates.
LEMMA AppendFresh ==
    ASSUME NEW S, NEW q \in Seq(S), NEW e \in S
    PROVE  /\ Append(q, e) \in Seq(S)
           /\ Append(q, e) # << >>
           /\ Range(Append(q, e)) = Range(q) \cup {e}
           /\ IsInjective(q) /\ e \notin Range(q) => IsInjective(Append(q, e))
<1>1. /\ Append(q, e) \in Seq(S)
      /\ Append(q, e) # << >>
      /\ Len(Append(q, e)) = Len(q) + 1
      /\ \A i \in 1..Len(q) : Append(q, e)[i] = q[i]
      /\ Append(q, e)[Len(q) + 1] = e
  BY AppendProperties
<1>2. Range(q) = {q[i] : i \in 1..Len(q)}
  BY RangeEquality
<1>3. Range(Append(q, e)) = {Append(q, e)[i] : i \in 1..(Len(q) + 1)}
  BY <1>1, RangeEquality
<1>4. Len(q) \in Nat
  OBVIOUS
<1>5. Range(Append(q, e)) = Range(q) \cup {e}
  BY <1>1, <1>2, <1>3, <1>4
<1>6. ASSUME IsInjective(q), e \notin Range(q)
      PROVE  IsInjective(Append(q, e))
  <2> SUFFICES ASSUME NEW i \in 1..(Len(q) + 1), NEW j \in 1..(Len(q) + 1),
                      Append(q, e)[i] = Append(q, e)[j]
               PROVE  i = j
    BY <1>1 DEF IsInjective
  <2>1. \A k \in 1..Len(q) : q[k] # e
    BY <1>2, <1>6
  <2>2. \A k, l \in 1..Len(q) : q[k] = q[l] => k = l
    BY <1>6 DEF IsInjective
  <2> QED
    BY <1>1, <1>4, <2>1, <2>2
<1> QED
  BY <1>1, <1>5, <1>6

\* Removing the first element of a list without duplicates removes it from
\* the set of its elements.
LEMMA TailFresh ==
    ASSUME NEW S, NEW q \in Seq(S), q # << >>
    PROVE  /\ Head(q) \in S
           /\ Head(q) \in Range(q)
           /\ Tail(q) \in Seq(S)
           /\ IsInjective(q) => /\ Range(Tail(q)) = Range(q) \ {Head(q)}
                                /\ IsInjective(Tail(q))
<1>1. /\ Head(q) \in S /\ Head(q) = q[1]
      /\ Tail(q) \in Seq(S)
      /\ Len(Tail(q)) = Len(q) - 1
      /\ \A i \in 1..Len(Tail(q)) : Tail(q)[i] = q[i + 1]
  BY HeadTailProperties
<1>2. Len(q) \in Nat \ {0}
  BY EmptySeq
<1>3. Range(q) = {q[i] : i \in 1..Len(q)}
  BY RangeEquality
<1>4. Range(Tail(q)) = {Tail(q)[i] : i \in 1..Len(Tail(q))}
  BY <1>1, RangeEquality
<1>5. Head(q) \in Range(q)
  BY <1>1, <1>2, <1>3
<1>6. ASSUME IsInjective(q)
      PROVE  Range(Tail(q)) = Range(q) \ {Head(q)} /\ IsInjective(Tail(q))
  <2>1. \A i, j \in 1..Len(q) : q[i] = q[j] => i = j
    BY <1>6 DEF IsInjective
  <2>2. IsInjective(Tail(q))
    BY <1>1, <1>2, <2>1 DEF IsInjective
  <2>3. \A x : x \in Range(Tail(q)) => x \in Range(q) /\ x # Head(q)
    BY <1>1, <1>2, <1>3, <1>4, <2>1
  <2>4. ASSUME NEW x \in Range(q), x # Head(q)
        PROVE  x \in Range(Tail(q))
    <3>1. PICK i \in 1..Len(q) : x = q[i]
      BY <1>3
    <3>2. i # 1
      BY <1>1, <2>4, <3>1
    <3>3. i - 1 \in 1..Len(Tail(q)) /\ Tail(q)[i - 1] = q[i]
      BY <1>1, <1>2, <3>2
    <3> QED
      BY <1>4, <3>1, <3>3
  <2> QED
    BY <2>2, <2>3, <2>4
<1> QED
  BY <1>1, <1>5, <1>6

\* The empty list has no elements and no duplicates.
LEMMA EmptyFresh ==
    Range(<< >>) = {} /\ IsInjective(<< >>)
BY DEF Range, IsInjective

-----------------------------------------------------------------------------
(* Type correctness.                                                       *)

\* Whatever interrupts are pending, V() keeps the types.
LEMMA VKeepsTypes ==
    ASSUME KTypeOK, NEW s \in Semaphores, V(s),
           pending' \in [Semaphores -> 0..MaxPending]
    PROVE  KTypeOK'
<1> USE KernelAssumption DEF KTypeOK, ThreadStatus, MachineStatus
<1>1. value' \in [Semaphores -> 0..MaxValue]
  BY DEF V
<1>2. CASE queue[s] = << >>
  BY <1>1, <1>2 DEF V
<1>3. CASE queue[s] # << >>
  <2>1. Head(queue[s]) \in Threads /\ Tail(queue[s]) \in Seq(Threads)
    BY <1>3, TailFresh
  <2>2. /\ status' = [status EXCEPT ![Head(queue[s])] = "READY"]
        /\ readyList' = Append(readyList, Head(queue[s]))
        /\ queue' = [queue EXCEPT ![s] = Tail(@)]
    BY <1>3, Zenon DEF V, ReadyToRun
  <2>3. readyList' \in Seq(Threads)
    BY <2>1, <2>2, AppendFresh
  <2>4. /\ status' \in [Threads -> ThreadStatus]
        /\ queue' \in [Semaphores -> Seq(Threads)]
    BY <2>1, <2>2
  <2> QED
    BY <1>1, <2>3, <2>4 DEF V
<1> QED
  BY <1>2, <1>3

\* One step of the kernel keeps the types.
LEMMA StepKeepsTypes ==
    ASSUME KTypeOK, [KNext]_kvars
    PROVE  KTypeOK'
<1> USE KernelAssumption
    DEF KTypeOK, ThreadStatus, MachineStatus, threadVars, semaphoreVars
<1>1. ASSUME NEW u \in Threads, Fork(u)
      PROVE  KTypeOK'
  BY <1>1, AppendFresh DEF Fork, ReadyToRun
<1>2. ASSUME SwitchAway
      PROVE  KTypeOK'
  <2>1. Head(readyList) \in Threads /\ Tail(readyList) \in Seq(Threads)
    BY <1>2, TailFresh DEF SwitchAway
  <2>2. readyList' \in Seq(Threads)
    BY <1>2, <2>1, AppendFresh DEF SwitchAway
  <2> QED
    BY <1>2, <2>1, <2>2 DEF SwitchAway, Run
<1>3. CASE Finish
  BY <1>3 DEF Finish, Block
<1>4. ASSUME NEW t \in Threads, NEW s \in Semaphores, PEnter(t, s)
      PROVE  KTypeOK'
  BY <1>4 DEF PEnter
<1>5. ASSUME NEW t \in Threads, NEW s \in Semaphores, PSleep(t, s)
      PROVE  KTypeOK'
  <2>1. queue' \in [Semaphores -> Seq(Threads)]
    BY <1>5, AppendFresh DEF PSleep
  <2> QED
    BY <1>5, <2>1 DEF PSleep, Block
<1>6. ASSUME NEW t \in Threads, NEW s \in Semaphores, PTake(t, s)
      PROVE  KTypeOK'
  BY <1>6 DEF PTake
<1>7. ASSUME NEW s \in Semaphores, V(s), pending' \in [Semaphores -> 0..MaxPending]
      PROVE  KTypeOK'
  BY <1>7, VKeepsTypes
<1>8. ASSUME NEW s \in Semaphores, Schedule(s)
      PROVE  KTypeOK'
  BY <1>8 DEF Schedule
<1>9. CASE Dispatch
  BY <1>9, TailFresh DEF Dispatch, Run
<1>10. CASE Halt
  BY <1>10 DEF Halt
<1>11. ASSUME NEW s \in Semaphores, Interrupt(s)
       PROVE  KTypeOK'
  <2>1. pending' \in [Semaphores -> 0..MaxPending]
    BY <1>11 DEF Interrupt
  <2> QED
    BY <1>7, <1>11, <2>1 DEF Interrupt
<1>12. CASE UNCHANGED kvars
  BY <1>12 DEF kvars
<1> QED
  BY <1>1, <1>2, <1>3, <1>4, <1>5, <1>6, <1>7, <1>8, <1>9, <1>10, <1>11, <1>12
     DEF KNext, ThreadStep, MachineStep, Preempt, Yield

\* Every state has its type; in particular no semaphore value is negative
\* (synch.h:50), although P() decrements an int without checking its sign.
THEOREM Typing == KSpec => []KTypeOK
<1>1. KInit => KTypeOK
  BY KernelAssumption DEF KInit, KTypeOK, ThreadStatus, MachineStatus
<1>2. KTypeOK /\ [KNext]_kvars => KTypeOK'
  BY StepKeepsTypes
<1> QED
  BY <1>1, <1>2, PTL DEF KSpec

-----------------------------------------------------------------------------
(* The lists and the statuses agree.                                       *)

QInv == ReadyListExact /\ WaitQueuesExact

\* A thread woken by V() leaves its queue for the ready list.
LEMMA VKeepsQueues ==
    ASSUME KTypeOK, QInv, NEW s \in Semaphores, V(s)
    PROVE  QInv'
<1> USE KernelAssumption DEF KTypeOK, ThreadStatus, QInv, ReadyListExact, WaitQueuesExact
<1>1. CASE queue[s] = << >>
  <2>1. UNCHANGED << currentThread, status, readyList, inP, queue >>
    BY <1>1 DEF V
  <2> QED
    BY <2>1
<1>2. CASE queue[s] # << >>
  <2> DEFINE h == Head(queue[s])
  <2>1. /\ status' = [status EXCEPT ![h] = "READY"]
        /\ readyList' = Append(readyList, h)
        /\ queue' = [queue EXCEPT ![s] = Tail(queue[s])]
        /\ UNCHANGED << currentThread, inP >>
    BY <1>2, Zenon DEF V, ReadyToRun
  <2>2. /\ h \in Threads
        /\ h \in Range(queue[s])
        /\ Range(Tail(queue[s])) = Range(queue[s]) \ {h}
        /\ IsInjective(Tail(queue[s]))
    BY <1>2, TailFresh
  <2>3. status[h] = "BLOCKED" /\ inP[h] = s
    BY <2>2
  <2>4. h \notin Range(readyList)
    BY <2>2, <2>3
  <2>5. Range(readyList') = Range(readyList) \cup {h} /\ IsInjective(readyList')
    BY <2>1, <2>2, <2>4, AppendFresh
  <2>6. ReadyListExact'
    BY <2>1, <2>2, <2>3, <2>5
  <2>7. ASSUME NEW r \in Semaphores
        PROVE  /\ Range(queue'[r]) = {t \in Threads : status'[t] = "BLOCKED" /\ inP'[t] = r}
               /\ IsInjective(queue'[r])
    <3>1. CASE r = s
      BY <2>1, <2>2, <2>3, <3>1
    <3>2. CASE r # s
      BY <2>1, <2>2, <2>3, <3>2
    <3> QED
      BY <3>1, <3>2
  <2> QED
    BY <2>6, <2>7
<1> QED
  BY <1>1, <1>2

\* One step of the kernel keeps the lists exact.
LEMMA StepKeepsQueues ==
    ASSUME KTypeOK, QInv, [KNext]_kvars
    PROVE  QInv'
<1> USE KernelAssumption
<1> USE DEF KTypeOK, ThreadStatus, QInv, ReadyListExact, WaitQueuesExact,
            threadVars, semaphoreVars
<1>1. ASSUME NEW u \in Threads, Fork(u)
      PROVE  QInv'
  <2>1. u \notin Range(readyList)
    BY <1>1 DEF Fork
  <2>2. Range(readyList') = Range(readyList) \cup {u} /\ IsInjective(readyList')
    BY <1>1, <2>1, AppendFresh DEF Fork, ReadyToRun
  <2> QED
    BY <1>1, <2>2 DEF Fork, ReadyToRun
<1>2. ASSUME SwitchAway, status[currentThread] = "RUNNING"
      PROVE  QInv'
  <2> DEFINE h == Head(readyList)
  <2>1. /\ h \in Threads /\ h \in Range(readyList)
        /\ Tail(readyList) \in Seq(Threads)
        /\ Range(Tail(readyList)) = Range(readyList) \ {h}
        /\ IsInjective(Tail(readyList))
    BY <1>2, TailFresh DEF SwitchAway
  <2>2. currentThread \notin Range(readyList)
    BY <1>2
  <2>3. /\ Range(readyList') = (Range(readyList) \ {h}) \cup {currentThread}
        /\ IsInjective(readyList')
    <3> DEFINE rest == Tail(readyList)
    <3>1. readyList' = Append(rest, currentThread)
      BY <1>2 DEF SwitchAway
    <3>2. /\ rest \in Seq(Threads) /\ IsInjective(rest)
          /\ Range(rest) = Range(readyList) \ {h}
          /\ currentThread \in Threads /\ currentThread \notin Range(rest)
      BY <2>1, <2>2
    <3> HIDE DEF rest
    <3>3. /\ Range(Append(rest, currentThread)) = Range(rest) \cup {currentThread}
          /\ IsInjective(Append(rest, currentThread))
      BY <3>2, AppendFresh
    <3> QED
      BY <3>1, <3>2, <3>3
  <2>4. status[h] = "READY"
    BY <2>1
  <2>5. /\ currentThread' = h
        /\ status' = [status EXCEPT ![currentThread] = "READY", ![h] = "RUNNING"]
        /\ UNCHANGED << inP, queue >>
    BY <1>2 DEF SwitchAway, Run
  <2> QED
    BY <1>2, <2>1, <2>2, <2>3, <2>4, <2>5
<1>3. CASE Finish /\ Executing(currentThread)
  BY <1>3 DEF Finish, Block, Executing
<1>4. ASSUME NEW t \in Threads, NEW s \in Semaphores, PEnter(t, s)
      PROVE  QInv'
  BY <1>4 DEF PEnter, Executing
<1>5. ASSUME NEW t \in Threads, NEW s \in Semaphores, PSleep(t, s)
      PROVE  QInv'
  <2>1. /\ status[t] = "RUNNING" /\ inP[t] = s /\ t = currentThread
        /\ status' = [status EXCEPT ![t] = "BLOCKED"]
        /\ queue' = [queue EXCEPT ![s] = Append(queue[s], t)]
        /\ UNCHANGED << currentThread, readyList, inP >>
    BY <1>5 DEF PSleep, Block, InsideP
  <2>2. t \notin Range(queue[s])
    BY <2>1
  <2>3. /\ Range(Append(queue[s], t)) = Range(queue[s]) \cup {t}
        /\ IsInjective(Append(queue[s], t))
    BY <2>2, AppendFresh
  <2> QED
    BY <2>1, <2>3
<1>6. ASSUME NEW t \in Threads, NEW s \in Semaphores, PTake(t, s)
      PROVE  QInv'
  BY <1>6 DEF PTake, InsideP
<1>7. ASSUME NEW s \in Semaphores, V(s)
      PROVE  QInv'
  BY <1>7, VKeepsQueues
<1>8. ASSUME NEW s \in Semaphores, Schedule(s)
      PROVE  QInv'
  BY <1>8 DEF Schedule
<1>9. CASE Dispatch
  <2> DEFINE h == Head(readyList)
  <2>1. /\ h \in Threads /\ h \in Range(readyList)
        /\ Range(Tail(readyList)) = Range(readyList) \ {h}
        /\ IsInjective(Tail(readyList))
    BY <1>9, TailFresh DEF Dispatch
  <2>2. status[h] = "READY" /\ status[currentThread] # "RUNNING"
    BY <1>9, <2>1 DEF Dispatch
  <2> QED
    BY <1>9, <2>1, <2>2 DEF Dispatch, Run
<1>10. CASE Halt
  BY <1>10 DEF Halt
<1>11. ASSUME NEW s \in Semaphores, Interrupt(s)
       PROVE  QInv'
  BY <1>11, VKeepsQueues DEF Interrupt
<1>12. CASE UNCHANGED kvars
  BY <1>12 DEF kvars
<1> QED
  BY <1>1, <1>2, <1>3, <1>4, <1>5, <1>6, <1>7, <1>8, <1>9, <1>10, <1>11, <1>12
     DEF KNext, ThreadStep, MachineStep, Preempt, Yield, Executing

\* The ready list and the wait queues hold exactly the threads whose status
\* says so, each once, and only currentThread is RUNNING.
THEOREM QueuesExact == KSpec => [](ReadyListExact /\ WaitQueuesExact)
<1>1. KInit => QInv
  BY KernelAssumption, EmptyFresh DEF KInit, QInv, ReadyListExact, WaitQueuesExact
<1>2. KTypeOK /\ QInv /\ [KNext]_kvars => QInv'
  BY StepKeepsQueues
<1> QED
  BY <1>1, <1>2, Typing, PTL DEF KSpec, QInv

-----------------------------------------------------------------------------
(* No lost wakeup.                                                         *)

\* The threads that have been woken from s are finitely many.
LEMMA WokenFinite ==
    ASSUME NEW s
    PROVE  /\ IsFiniteSet(Woken(s))
           /\ Cardinality(Woken(s)) \in Nat
BY KernelAssumption, FS_Subset, FS_CardinalityType DEF Woken

\* V() adds one unit and, if threads sleep, one thread that will test it.
LEMMA VLosesNoWakeup ==
    ASSUME KTypeOK, QInv, NoLostWakeup, NEW s \in Semaphores, V(s)
    PROVE  NoLostWakeup'
<1> USE KernelAssumption DEF KTypeOK
<1> SUFFICES ASSUME NEW r \in Semaphores, queue'[r] # << >>
             PROVE  value'[r] <= Cardinality(Woken(r)')
  BY DEF NoLostWakeup
<1>1. CASE queue[s] = << >>
  <2>1. /\ value' = [value EXCEPT ![s] = value[s] + 1]
        /\ UNCHANGED << status, inP, queue >>
    BY <1>1, Zenon DEF V
  <2>2. r # s
    BY <1>1, <2>1
  <2>3. Woken(r)' = Woken(r)
    BY <2>1 DEF Woken
  <2> QED
    BY <2>1, <2>2, <2>3 DEF NoLostWakeup
<1>2. CASE queue[s] # << >>
  <2> DEFINE h == Head(queue[s])
  <2>1. /\ value' = [value EXCEPT ![s] = value[s] + 1]
        /\ status' = [status EXCEPT ![h] = "READY"]
        /\ queue' = [queue EXCEPT ![s] = Tail(queue[s])]
        /\ UNCHANGED inP
    BY <1>2, Zenon DEF V, ReadyToRun
  <2>2. h \in Threads /\ status[h] = "BLOCKED" /\ inP[h] = s
    BY <1>2, TailFresh DEF QInv, WaitQueuesExact
  <2>3. CASE r = s
    <3>1. Woken(s)' = Woken(s) \cup {h}
      BY <2>1, <2>2 DEF Woken
    <3>2. h \notin Woken(s)
      BY <2>2 DEF Woken
    <3>3. Cardinality(Woken(s)') = Cardinality(Woken(s)) + 1
      BY <3>1, <3>2, WokenFinite, FS_AddElement
    <3>4. value[s] <= Cardinality(Woken(s))
      BY <1>2 DEF NoLostWakeup
    <3> QED
      BY <2>1, <2>3, <3>3, <3>4, WokenFinite
  <2>4. CASE r # s
    <3>1. Woken(r)' = Woken(r)
      BY <2>1, <2>2, <2>4 DEF Woken
    <3> QED
      BY <2>1, <2>4, <3>1 DEF NoLostWakeup
  <2> QED
    BY <2>3, <2>4
<1> QED
  BY <1>1, <1>2

\* While threads sleep in P(), every unit of the semaphore's value has a thread
\* that is awake in P() and will test it: V() wakes before it increments, and
\* a thread that barges in leaves the woken one to sleep again.
THEOREM WakeupsAreNotLost == KSpec => []NoLostWakeup
<1> USE KernelAssumption
<1>1. KInit => NoLostWakeup
  BY DEF KInit, NoLostWakeup
<1>2. KTypeOK /\ QInv /\ NoLostWakeup /\ [KNext]_kvars => NoLostWakeup'
  <2> SUFFICES ASSUME KTypeOK, QInv, NoLostWakeup, [KNext]_kvars
               PROVE  NoLostWakeup'
    OBVIOUS
  <2> USE DEF KTypeOK, threadVars, semaphoreVars
  <2>0. ASSUME UNCHANGED << value, queue >>, \A s \in Semaphores : Woken(s)' = Woken(s)
        PROVE  NoLostWakeup'
    BY <2>0 DEF NoLostWakeup
  <2>1. ASSUME NEW u \in Threads, Fork(u)
        PROVE  NoLostWakeup'
    <3>1. \A s \in Semaphores : Woken(s)' = Woken(s)
      BY <2>1 DEF Fork, ReadyToRun, Woken
    <3> QED
      BY <2>0, <2>1, <3>1 DEF Fork
  <2>2. ASSUME SwitchAway, status[currentThread] = "RUNNING"
        PROVE  NoLostWakeup'
    <3>1. Head(readyList) \in Threads /\ status[Head(readyList)] = "READY"
      BY <2>2, TailFresh DEF SwitchAway, QInv, ReadyListExact
    <3>2. \A s \in Semaphores : Woken(s)' = Woken(s)
      BY <2>2, <3>1 DEF SwitchAway, Woken
    <3> QED
      BY <2>0, <2>2, <3>2 DEF SwitchAway
  <2>3. CASE Finish /\ Executing(currentThread)
    <3>1. \A s \in Semaphores : Woken(s)' = Woken(s)
      BY <2>3 DEF Finish, Block, Executing, Woken
    <3> QED
      BY <2>0, <2>3, <3>1 DEF Finish
  <2>4. ASSUME NEW t \in Threads, NEW s \in Semaphores, PEnter(t, s)
        PROVE  NoLostWakeup'
    <3>1. Woken(s)' = Woken(s) \cup {t} /\ t \notin Woken(s)
      BY <2>4 DEF PEnter, Executing, Woken
    <3>2. Cardinality(Woken(s)') = Cardinality(Woken(s)) + 1
      BY <3>1, WokenFinite, FS_AddElement
    <3>3. \A r \in Semaphores : r # s => Woken(r)' = Woken(r)
      BY <2>4 DEF PEnter, Executing, Woken
    <3>4. UNCHANGED << value, queue >>
      BY <2>4 DEF PEnter
    <3>5. queue'[s] # << >> => value'[s] <= Cardinality(Woken(s)')
      BY <3>2, <3>4, WokenFinite DEF NoLostWakeup
    <3> QED
      BY <3>3, <3>4, <3>5 DEF NoLostWakeup
  <2>5. ASSUME NEW t \in Threads, NEW s \in Semaphores, PSleep(t, s)
        PROVE  NoLostWakeup'
    <3>1. \A r \in Semaphores : r # s => Woken(r)' = Woken(r)
      BY <2>5 DEF PSleep, Block, InsideP, Woken
    <3>2. IsFiniteSet(Woken(s)') /\ Cardinality(Woken(s)') \in Nat
      BY FS_Subset, FS_CardinalityType DEF Woken
    <3>3. value'[s] = 0 /\ value' = value
      BY <2>5 DEF PSleep
    <3>4. \A r \in Semaphores : r # s => queue'[r] = queue[r]
      BY <2>5 DEF PSleep
    <3> QED
      BY <3>1, <3>2, <3>3, <3>4 DEF NoLostWakeup
  <2>6. ASSUME NEW t \in Threads, NEW s \in Semaphores, PTake(t, s)
        PROVE  NoLostWakeup'
    <3>1. Woken(s)' = Woken(s) \ {t} /\ t \in Woken(s)
      BY <2>6 DEF PTake, InsideP, Woken
    <3>2. Cardinality(Woken(s)') = Cardinality(Woken(s)) - 1
      BY <3>1, WokenFinite, FS_RemoveElement
    <3>3. \A r \in Semaphores : r # s => Woken(r)' = Woken(r)
      BY <2>6 DEF PTake, InsideP, Woken
    <3>4. value' = [value EXCEPT ![s] = value[s] - 1] /\ UNCHANGED queue
      BY <2>6 DEF PTake
    <3>5. queue'[s] # << >> => value'[s] <= Cardinality(Woken(s)')
      BY <3>2, <3>4, WokenFinite DEF NoLostWakeup
    <3> QED
      BY <3>3, <3>4, <3>5 DEF NoLostWakeup
  <2>7. ASSUME NEW s \in Semaphores, V(s)
        PROVE  NoLostWakeup'
    BY <2>7, VLosesNoWakeup
  <2>8. ASSUME NEW s \in Semaphores, Schedule(s)
        PROVE  NoLostWakeup'
    BY <2>0, <2>8 DEF Schedule, Woken
  <2>9. CASE Dispatch
    <3>1. Head(readyList) \in Threads /\ status[Head(readyList)] = "READY"
      BY <2>9, TailFresh DEF Dispatch, QInv, ReadyListExact
    <3>2. \A s \in Semaphores : Woken(s)' = Woken(s)
      BY <2>9, <3>1 DEF Dispatch, Woken
    <3> QED
      BY <2>0, <2>9, <3>2 DEF Dispatch
  <2>10. CASE Halt
    BY <2>0, <2>10 DEF Halt, Woken
  <2>11. ASSUME NEW s \in Semaphores, Interrupt(s)
         PROVE  NoLostWakeup'
    BY <2>11, VLosesNoWakeup DEF Interrupt
  <2>12. CASE UNCHANGED kvars
    BY <2>0, <2>12 DEF kvars, Woken
  <2> QED
    BY <2>1, <2>2, <2>3, <2>4, <2>5, <2>6, <2>7, <2>8, <2>9, <2>10, <2>11, <2>12
       DEF KNext, ThreadStep, MachineStep, Preempt, Yield, Executing
<1> QED
  BY <1>1, <1>2, Typing, QueuesExact, PTL DEF KSpec, QInv

-----------------------------------------------------------------------------
(* The destructor.                                                         *)

\* The strengthening: the thread Scheduler::Run is about to delete has
\* finished, and has not been deleted before.
CInv ==
    /\ CarcassUnused
    /\ threadToBeDestroyed # NULL => Finished(threadToBeDestroyed)

\* Thread::~Thread runs only on finished threads, never on the current one
\* (its ASSERT, thread.cc:62) and never on one that Run would delete again.
THEOREM CarcassesAreUnused == KSpec => []CarcassUnused
<1> USE KernelAssumption
<1>1. KInit => CInv
  BY DEF KInit, CInv, CarcassUnused
<1>2. KTypeOK /\ QInv /\ CInv /\ [KNext]_kvars => CInv'
  <2> SUFFICES ASSUME KTypeOK, QInv, CInv, [KNext]_kvars
               PROVE  CInv'
    OBVIOUS
  <2> USE DEF KTypeOK, CInv, CarcassUnused, Finished, threadVars, semaphoreVars
  <2>1. ASSUME NEW u \in Threads, Fork(u)
        PROVE  CInv'
    BY <2>1 DEF Fork, ReadyToRun
  <2>2. ASSUME SwitchAway, status[currentThread] = "RUNNING"
        PROVE  CInv'
    <3>1. Head(readyList) \in Threads /\ status[Head(readyList)] = "READY"
      BY <2>2, TailFresh DEF SwitchAway, QInv, ReadyListExact
    <3> QED
      BY <2>2, <3>1, SMTT(30) DEF SwitchAway, Run
  <2>3. CASE Finish /\ Executing(currentThread)
    BY <2>3 DEF Finish, Block, Executing
  <2>4. ASSUME NEW t \in Threads, NEW s \in Semaphores, PEnter(t, s)
        PROVE  CInv'
    BY <2>4 DEF PEnter, Executing
  <2>5. ASSUME NEW t \in Threads, NEW s \in Semaphores, PSleep(t, s)
        PROVE  CInv'
    BY <2>5 DEF PSleep, Block, InsideP
  <2>6. ASSUME NEW t \in Threads, NEW s \in Semaphores, PTake(t, s)
        PROVE  CInv'
    BY <2>6 DEF PTake, InsideP
  <2>7. ASSUME NEW s \in Semaphores, V(s)
        PROVE  CInv'
    <3>1. CASE queue[s] = << >>
      BY <2>7, <3>1, Zenon DEF V
    <3>2. CASE queue[s] # << >>
      <4>1. /\ status' = [status EXCEPT ![Head(queue[s])] = "READY"]
            /\ UNCHANGED << currentThread, threadToBeDestroyed, deleted, inP >>
        BY <2>7, <3>2, Zenon DEF V, ReadyToRun
      <4>2. Head(queue[s]) \in Threads /\ inP[Head(queue[s])] = s
        BY <3>2, TailFresh DEF QInv, WaitQueuesExact
      <4> QED
        BY <4>1, <4>2
    <3> QED
      BY <3>1, <3>2
  <2>8. ASSUME NEW s \in Semaphores, Schedule(s)
        PROVE  CInv'
    BY <2>8 DEF Schedule
  <2>9. CASE Dispatch
    <3>1. Head(readyList) \in Threads /\ status[Head(readyList)] = "READY"
      BY <2>9, TailFresh DEF Dispatch, QInv, ReadyListExact
    <3> QED
      BY <2>9, <3>1 DEF Dispatch, Run
  <2>10. CASE Halt
    BY <2>10 DEF Halt
  <2>11. ASSUME NEW s \in Semaphores, Interrupt(s)
         PROVE  CInv'
    BY <2>7, <2>11 DEF Interrupt
  <2>12. CASE UNCHANGED kvars
    BY <2>12 DEF kvars
  <2> QED
    BY <2>1, <2>2, <2>3, <2>4, <2>5, <2>6, <2>7, <2>8, <2>9, <2>10, <2>11, <2>12
       DEF KNext, ThreadStep, MachineStep, Preempt, Yield, Executing
<1> QED
  BY <1>1, <1>2, Typing, QueuesExact, PTL DEF KSpec, QInv, CInv

-----------------------------------------------------------------------------
(* The kernel implements the abstract semaphores.                          *)

\* Forgetting queues, statuses and switches, P() and V() are the indivisible
\* operations synch.h:24-29 describes: every step of the kernel is a call, a
\* return of P() or a V() of the abstract semaphores, or invisible to them.
THEOREM SemaphoresImplemented == KSpec => ImplementsSemaphores
<1> USE KernelAssumption
<1>1. KInit => Semantics!AInit
  BY DEF KInit, Semantics!AInit
<1>2. KTypeOK /\ [KNext]_kvars => [Semantics!ANext]_(Semantics!avars)
  <2> SUFFICES ASSUME KTypeOK, KNext
               PROVE  [Semantics!ANext]_(Semantics!avars)
    BY DEF kvars, Semantics!avars
  <2> USE DEF threadVars, semaphoreVars, Semantics!avars, Semantics!ANext
  <2>1. ASSUME NEW t \in Threads, NEW s \in Semaphores, PEnter(t, s)
        PROVE  Semantics!Call(t, s)
    BY <2>1 DEF PEnter, Executing, Semantics!Call
  <2>2. ASSUME NEW t \in Threads, NEW s \in Semaphores, PTake(t, s)
        PROVE  Semantics!Pass(t, s)
    BY <2>2 DEF PTake, InsideP, Semantics!Pass, KTypeOK
  <2>3. ASSUME NEW s \in Semaphores, V(s)
        PROVE  Semantics!Post(s)
    BY <2>3, Zenon DEF V, Semantics!Post
  <2>4. ASSUME \/ \E u \in Threads : Fork(u)
               \/ SwitchAway
               \/ Finish
               \/ \E t \in Threads, s \in Semaphores : PSleep(t, s)
               \/ \E s \in Semaphores : Schedule(s)
               \/ Dispatch
               \/ Halt
               \/ UNCHANGED kvars
        PROVE  UNCHANGED << value, inP >>
    BY <2>4 DEF Fork, SwitchAway, Finish, PSleep, Schedule, Dispatch, Halt, kvars
  <2> QED
    BY <2>1, <2>2, <2>3, <2>4
       DEF KNext, ThreadStep, MachineStep, Preempt, Yield, Interrupt
<1> QED
  BY <1>1, <1>2, Typing, PTL DEF KSpec, ImplementsSemaphores, Semantics!ASpec

-----------------------------------------------------------------------------
(* The halted machine.                                                     *)

\* Nothing runs while the machine idles, and nothing could once it halts.
AtRest ==
    /\ mode = "IdleMode" => \A t \in Threads : status[t] # "RUNNING"
    /\ mode = "Halted" => \A t \in Threads : status[t] \notin {"RUNNING", "READY"}
    /\ mode = "Halted" => \A s \in Semaphores : pending[s] = 0
    /\ \A t \in Threads : status[t] = "JUST_CREATED" => inP[t] = NULL

\* V() only makes a sleeping thread READY.
LEMMA VKeepsRest ==
    ASSUME KTypeOK, QInv, AtRest, mode # "Halted", NEW s \in Semaphores, V(s)
    PROVE  AtRest'
<1> USE DEF KTypeOK, AtRest
<1>1. CASE queue[s] = << >>
  BY <1>1 DEF V
<1>2. CASE queue[s] # << >>
  <2>1. Head(queue[s]) \in Threads
    BY <1>2
  <2>2. /\ status' = [status EXCEPT ![Head(queue[s])] = "READY"]
        /\ UNCHANGED << inP, mode >>
    BY <1>2, Zenon DEF V, ReadyToRun
  <2> QED
    BY <2>1, <2>2
<1> QED
  BY <1>1, <1>2

\* AtRest holds in every state.
LEMMA AlwaysAtRest == KSpec => []AtRest
<1> USE KernelAssumption
<1>1. KInit => AtRest
  BY DEF KInit, AtRest
<1>2. KTypeOK /\ QInv /\ AtRest /\ [KNext]_kvars => AtRest'
  <2> SUFFICES ASSUME KTypeOK, QInv, AtRest, [KNext]_kvars
               PROVE  AtRest'
    OBVIOUS
  <2> USE DEF KTypeOK, ThreadStatus, MachineStatus, AtRest
  <2>1. \A t \in Threads : status[t] = "RUNNING" => t = currentThread
    BY DEF QInv, ReadyListExact
  <2>2. ASSUME NEW t \in Threads, NEW u \in Threads, Executing(t), Fork(u)
        PROVE  AtRest'
    BY <2>2 DEF Fork, ReadyToRun, Executing, semaphoreVars
  <2>3. ASSUME SwitchAway, Executing(currentThread)
        PROVE  AtRest'
    <3>1. /\ mode = "SystemMode" /\ UNCHANGED << mode, inP >>
          /\ status' = [status EXCEPT ![currentThread] = "READY",
                                      ![Head(readyList)] = "RUNNING"]
      BY <2>3 DEF SwitchAway, Executing, semaphoreVars
    <3> QED
      BY <3>1
  <2>4. ASSUME NEW t \in Threads,
             (Executing(t) /\ Finish) \/ \E s \in Semaphores : PSleep(t, s)
        PROVE  AtRest'
    <3>1. /\ mode = "SystemMode" /\ mode' \in {"SystemMode", "IdleMode"}
          /\ t = currentThread /\ status[t] = "RUNNING"
          /\ status' = [status EXCEPT ![t] = "BLOCKED"]
          /\ UNCHANGED inP
      BY <2>4 DEF Executing, InsideP, Finish, PSleep, Block, semaphoreVars
    <3> QED
      BY <2>1, <3>1
  <2>5. ASSUME NEW t \in Threads, NEW s \in Semaphores, PEnter(t, s) \/ PTake(t, s)
        PROVE  AtRest'
    BY <2>5 DEF PEnter, PTake, Executing, InsideP, threadVars
  <2>6. ASSUME NEW s \in Semaphores, V(s), mode # "Halted"
        PROVE  AtRest'
    BY <2>6, VKeepsRest
  <2>7. ASSUME NEW s \in Semaphores, Schedule(s), mode # "Halted"
        PROVE  AtRest'
    BY <2>7 DEF Schedule, threadVars, semaphoreVars
  <2>8. CASE Dispatch
    BY <2>8 DEF Dispatch, semaphoreVars
  <2>9. CASE Halt
    <3>1. /\ \A t \in Threads : status[t] # "READY"
          /\ \A t \in Threads : status[t] # "RUNNING"
      BY <2>9, EmptyFresh DEF Halt, QInv, ReadyListExact
    <3> QED
      BY <2>9, <3>1 DEF Halt, semaphoreVars
  <2>10. ASSUME NEW s \in Semaphores, Interrupt(s)
         PROVE  AtRest'
    BY <2>6, <2>10 DEF Interrupt, HandlersEnabled, Executing
  <2>11. CASE UNCHANGED kvars
    BY <2>11 DEF kvars
  <2> QED
    BY <2>2, <2>3, <2>4, <2>5, <2>6, <2>7, <2>8, <2>9, <2>10, <2>11
       DEF KNext, ThreadStep, MachineStep, Preempt, Yield, Executing
<1> QED
  BY <1>1, <1>2, Typing, QueuesExact, PTL DEF KSpec, QInv

\* When the machine halts, a thread still inside the P() of a semaphore sleeps
\* on its queue, and the semaphore has no unit left for it, nor will a device post
\* one (Interrupt::Idle halts without looking at the sleepers).
THEOREM HaltedSleepersAreDue ==
    KSpec => [](mode = "Halted" =>
                  \A t \in Threads, s \in Semaphores : inP[t] = s =>
                      t \in Range(queue[s]) /\ value[s] = 0 /\ pending[s] = 0)
<1> DEFINE Due == mode = "Halted" =>
                    \A t \in Threads, s \in Semaphores : inP[t] = s =>
                        t \in Range(queue[s]) /\ value[s] = 0 /\ pending[s] = 0
<1>1. KTypeOK /\ QInv /\ AtRest /\ NoLostWakeup => Due
  <2> SUFFICES ASSUME KTypeOK, QInv, AtRest, NoLostWakeup, mode = "Halted",
                      NEW t \in Threads, NEW s \in Semaphores, inP[t] = s
               PROVE  t \in Range(queue[s]) /\ value[s] = 0 /\ pending[s] = 0
    OBVIOUS
  <2> USE KernelAssumption
  <2>1. \A u \in Threads : inP[u] = s => status[u] = "BLOCKED"
    BY DEF AtRest, KTypeOK, ThreadStatus
  <2>2. t \in Range(queue[s])
    BY <2>1 DEF QInv, WaitQueuesExact
  <2>3. queue[s] # << >>
    BY <2>2, EmptyFresh
  <2>4. Woken(s) = {}
    BY <2>1 DEF Woken
  <2>5. value[s] <= 0
    BY <2>3, <2>4, FS_EmptySet DEF NoLostWakeup
  <2> QED
    BY <2>2, <2>5 DEF KTypeOK, AtRest
<1> HIDE DEF Due
<1>2. KSpec => []Due
  BY <1>1, Typing, QueuesExact, AlwaysAtRest, WakeupsAreNotLost, PTL DEF QInv
<1> QED
  BY <1>2 DEF Due

\* At every switch the statuses, the lists and the types agree.
THEOREM KernelIsConsistent == KSpec => []KConsistent
BY Typing, QueuesExact, CarcassesAreUnused, PTL DEF KConsistent
=============================================================================
