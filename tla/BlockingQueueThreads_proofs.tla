--------------------- MODULE BlockingQueueThreads_proofs ---------------------
(***************************************************************************)
(* Proofs that no wake-up is lost and that the queue with its mutex and its *)
(* condition variable implements BlockingQueue, for any set of producers,   *)
(* consumers and values, and any length.                                    *)
(***************************************************************************)
EXTENDS BlockingQueueThreads, TLAPS, FiniteSetTheorems, SequenceTheorems

\* The consumers that will still take a value or go to sleep.
AwakeInPop == inPop \ waiting

\* Nobody sleeps on a stopped queue, and the callers of pop() can be counted.
SleepersInv == IsFiniteSet(inPop) /\ (~running => waiting = {})

IInv == TypeOK /\ SleepersInv /\ NoLostWakeup

-----------------------------------------------------------------------------
\* Whatever drop_n and keep_n leave is a sequence of values and not longer than before.
LEMMA Trimmed ==
    ASSUME queue \in Seq(Values), NEW n \in Nat, DropN(n) \/ KeepN(n)
    PROVE  queue' \in Seq(Values) /\ Len(queue') <= Len(queue)
<1>1. Len(queue) \in Nat /\ \A i \in 1..Len(queue) : queue[i] \in Values
  BY LenProperties
<1>2. CASE DropN(n)
  <2>1. CASE n < Len(queue)
    BY <1>1, <1>2, <2>1, SubSeqProperties DEF DropN
  <2>2. CASE ~(n < Len(queue))
    BY <1>1, <1>2, <2>2, EmptySeq DEF DropN
  <2>3. QED
    BY <2>1, <2>2
<1>3. CASE KeepN(n)
  <2>1. CASE Len(queue) > n
    <3>1. queue' = SubSeq(queue, Len(queue) - n + 1, Len(queue))
      BY <1>3, <2>1 DEF KeepN
    <3>2. QED
      BY <1>1, <2>1, <3>1, SubSeqProperties
  <2>2. CASE ~(Len(queue) > n)
    BY <1>1, <1>3, <2>2 DEF KeepN
  <2>3. QED
    BY <2>1, <2>2
<1>4. QED
  BY <1>2, <1>3

\* A consumer that is woken is one more that is awake.
LEMMA OneMore ==
    ASSUME IInv, NEW c \in waiting
    PROVE  Cardinality(inPop \ (waiting \ {c})) = Cardinality(AwakeInPop) + 1
<1>1. inPop \ (waiting \ {c}) = AwakeInPop \cup {c} /\ c \notin AwakeInPop
  BY DEF IInv, TypeOK, AwakeInPop
<1>2. IsFiniteSet(AwakeInPop)
  BY FS_Difference DEF IInv, SleepersInv, AwakeInPop
<1>3. QED
  BY <1>1, <1>2, FS_AddElement

LEMMA Initially == Init => IInv
BY EmptySeq, FS_EmptySet DEF Init, IInv, TypeOK, SleepersInv, NoLostWakeup

LEMMA Step == IInv /\ [Next]_vars => IInv'
<1> SUFFICES ASSUME IInv, [Next]_vars PROVE IInv'
  OBVIOUS
<1>a. /\ queue \in Seq(Values) /\ Len(queue) \in Nat
      /\ IsFiniteSet(inPop) /\ IsFiniteSet(AwakeInPop) /\ Cardinality(AwakeInPop) \in Nat
  BY LenProperties, FS_Difference, FS_CardinalityType
     DEF IInv, TypeOK, SleepersInv, AwakeInPop
<1>b. waiting # {} => running /\ Len(queue) <= Cardinality(AwakeInPop)
  BY DEF IInv, SleepersInv, NoLostWakeup, AwakeInPop
<1>1. ASSUME NEW p \in Producers, NEW value \in Values, Push(p, value) PROVE IInv'
  <2>1. /\ queue' \in Seq(Values) /\ Len(queue') = Len(queue) + 1
        /\ UNCHANGED <<running, inPop, returned>>
    BY <1>1, <1>a, AppendProperties DEF Push
  <2>2. waiting' \subseteq waiting
    BY <1>1 DEF Push, NotifyOne
  <2>3. TypeOK' /\ SleepersInv'
    BY <2>1, <2>2 DEF IInv, TypeOK, SleepersInv
  <2>4. ASSUME waiting' # {} PROVE Len(queue') <= Cardinality(inPop' \ waiting')
    <3>1. PICK c \in waiting : waiting' = waiting \ {c}
      BY <1>1, <2>2, <2>4 DEF Push, NotifyOne
    <3>2. QED
      BY <1>a, <1>b, <2>1, <3>1, OneMore
  <2>5. QED
    BY <2>3, <2>4 DEF IInv, NoLostWakeup
<1>2. ASSUME NEW c \in Consumers, CallPop(c) PROVE IInv'
  <2>1. TypeOK' /\ SleepersInv'
    BY <1>2, <1>a, FS_AddElement DEF CallPop, IInv, TypeOK, SleepersInv
  <2>2. inPop' \ waiting' = AwakeInPop \cup {c}
    BY <1>2 DEF CallPop, IInv, TypeOK, AwakeInPop
  <2>3. Cardinality(AwakeInPop \cup {c}) >= Cardinality(AwakeInPop)
    <3>1. Cardinality(AwakeInPop \cup {c})
            = IF c \in AwakeInPop THEN Cardinality(AwakeInPop) ELSE Cardinality(AwakeInPop) + 1
      BY <1>a, FS_AddElement
    <3>2. QED
      BY <1>a, <3>1
  <2>4. Cardinality(AwakeInPop \cup {c}) \in Nat
    BY <1>a, FS_AddElement, FS_CardinalityType
  <2>5. Cardinality(inPop' \ waiting') = Cardinality(AwakeInPop \cup {c})
    BY <2>2
  <2>6. queue' = queue /\ waiting' = waiting
    BY <1>2 DEF CallPop
  <2>7. NoLostWakeup'
    BY <1>a, <1>b, <2>3, <2>4, <2>5, <2>6 DEF NoLostWakeup
  <2>8. QED
    BY <2>1, <2>7 DEF IInv
<1>3. ASSUME NEW c \in Consumers, Wait(c) PROVE IInv'
  <2>1. queue = << >> /\ running
    BY <1>3 DEF Wait, Predicate
  <2>2. TypeOK' /\ SleepersInv'
    BY <1>3, <2>1 DEF Wait, Awake, IInv, TypeOK, SleepersInv
  <2>3. Cardinality(inPop' \ waiting') \in Nat
    BY <2>2, FS_Difference, FS_CardinalityType DEF SleepersInv
  <2>4. Len(queue') = 0
    BY <1>3, <2>1, EmptySeq DEF Wait
  <2>5. QED
    BY <2>2, <2>3, <2>4 DEF IInv, NoLostWakeup
<1>4. ASSUME NEW c \in Consumers, SpuriousWakeup(c) PROVE IInv'
  <2>1. TypeOK' /\ SleepersInv'
    BY <1>4 DEF SpuriousWakeup, IInv, TypeOK, SleepersInv
  <2>2. Cardinality(inPop' \ waiting') = Cardinality(AwakeInPop) + 1
    BY <1>4, OneMore DEF SpuriousWakeup
  <2>3. QED
    BY <1>4, <1>a, <1>b, <2>1, <2>2 DEF SpuriousWakeup, IInv, NoLostWakeup
<1>5. ASSUME NEW c \in Consumers, ReturnFromPop(c) PROVE IInv'
  <2>1. UNCHANGED <<running, waiting>> /\ inPop' = inPop \ {c} /\ c \in AwakeInPop
    BY <1>5 DEF ReturnFromPop, Awake, AwakeInPop
  <2>2. SleepersInv' /\ inPop' \subseteq Consumers /\ waiting' \subseteq inPop'
    BY <1>a, <2>1, FS_RemoveElement DEF IInv, TypeOK, SleepersInv, AwakeInPop
  <2>3. inPop' \ waiting' = AwakeInPop \ {c}
    BY <2>1 DEF AwakeInPop
  <2>4. Cardinality(inPop' \ waiting') = Cardinality(AwakeInPop) - 1
    BY <1>a, <2>1, <2>3, FS_RemoveElement
  <2>5. CASE running
    <3>1. queue # << >> /\ queue' = Tail(queue) /\ returned' = queue[1]
      BY <1>5, <2>5 DEF ReturnFromPop, Predicate, Rest, Front
    <3>2. queue' \in Seq(Values) /\ Len(queue') = Len(queue) - 1 /\ queue[1] \in Values
      BY <1>a, <3>1, HeadTailProperties, LenProperties, EmptySeq
    <3>3. TypeOK'
      BY <2>1, <2>2, <3>1, <3>2 DEF IInv, TypeOK
    <3>4. QED
      BY <1>a, <1>b, <2>1, <2>2, <2>4, <3>2, <3>3 DEF IInv, NoLostWakeup
  <2>6. CASE ~running
    <3>1. TypeOK'
      BY <1>5, <2>1, <2>2, <2>6 DEF ReturnFromPop, IInv, TypeOK
    <3>2. QED
      BY <1>b, <2>1, <2>2, <2>6, <3>1 DEF IInv, NoLostWakeup
  <2>7. QED
    BY <2>5, <2>6
<1>6. ASSUME NEW n \in Nat, DropN(n) \/ KeepN(n) PROVE IInv'
  <2>1. UNCHANGED <<running, inPop, waiting, returned>>
    BY <1>6 DEF DropN, KeepN
  <2>2. queue' \in Seq(Values) /\ Len(queue') <= Len(queue) /\ Len(queue') \in Nat
    BY <1>6, <1>a, Trimmed, LenProperties
  <2>3. TypeOK' /\ SleepersInv'
    BY <2>1, <2>2 DEF IInv, TypeOK, SleepersInv
  <2>4. NoLostWakeup'
    BY <1>a, <1>b, <2>1, <2>2 DEF NoLostWakeup, AwakeInPop
  <2>5. QED
    BY <2>3, <2>4 DEF IInv
<1>7. CASE Stop
  BY <1>7 DEF Stop, NotifyAll, IInv, TypeOK, SleepersInv, NoLostWakeup
<1>8. CASE UNCHANGED vars
  BY <1>8 DEF vars, IInv, TypeOK, SleepersInv, NoLostWakeup
<1>9. QED
  BY <1>1, <1>2, <1>3, <1>4, <1>5, <1>6, <1>7, <1>8, MaxLengthAssumption
     DEF Next, Consumer, MaxLengthAssumption

LEMMA Invariance == Spec => []IInv
<1>1. Init => IInv
  BY Initially
<1>2. IInv /\ [Next]_vars => IInv'
  BY Step
<1>3. QED
  BY <1>1, <1>2, PTL DEF Spec

\* Type correctness of the queue, with every consumer that sleeps inside pop().
THEOREM TypeCorrect == Spec => []TypeOK
<1>1. IInv => TypeOK
  BY DEF IInv
<1>2. QED
  BY <1>1, Invariance, PTL

\* push() notifies one consumer only, outside of any loop: that is enough, as every value
\* in the queue has a consumer that is awake whenever another one sleeps.
THEOREM NoWakeupLost == Spec => []NoLostWakeup
<1>1. IInv => NoLostWakeup
  BY DEF IInv
<1>2. QED
  BY <1>1, Invariance, PTL

\* On a stopped queue every caller of pop() is awake and finds the predicate true: its next
\* step is to return. It is the half of StopReleasesEveryone that needs no fairness.
THEOREM StopWakesEveryone ==
    Spec => [](~running => \A c \in inPop : Awake(c) /\ Predicate)
<1>1. IInv => (~running => \A c \in inPop : Awake(c) /\ Predicate)
  BY DEF IInv, SleepersInv, Awake, Predicate
<1>2. QED
  BY <1>1, Invariance, PTL

-----------------------------------------------------------------------------
\* To leave more values than there are, or to drop more, is to leave or drop them all.
LEMMA TrimImplements ==
    ASSUME queue \in Seq(Values), NEW n \in Nat, DropN(n) \/ KeepN(n)
    PROVE  \E k \in 0..Len(queue) : Queue!DropN(k) \/ Queue!KeepN(k)
<1>1. Len(queue) \in Nat
  BY LenProperties
<1>2. CASE n <= Len(queue)
  BY <1>1, <1>2 DEF DropN, KeepN, Queue!DropN, Queue!KeepN
<1>3. CASE ~(n <= Len(queue))
  <2>1. CASE DropN(n)
    <3>1. Queue!DropN(Len(queue))
      BY <1>1, <1>3, <2>1 DEF DropN, Queue!DropN
    <3>2. QED
      BY <1>1, <3>1
  <2>2. CASE KeepN(n)
    <3>1. ~(Len(queue) > n) /\ ~(Len(queue) > Len(queue))
      BY <1>1, <1>3
    <3>2. Queue!KeepN(Len(queue))
      BY <2>2, <3>1 DEF KeepN, Queue!KeepN
    <3>3. QED
      BY <1>1, <3>2
  <2>3. QED
    BY <2>1, <2>2
<1>4. QED
  BY <1>2, <1>3

LEMMA StepImplements == TypeOK /\ [Next]_vars => [Queue!Next]_(Queue!vars)
<1> SUFFICES ASSUME TypeOK, [Next]_vars PROVE [Queue!Next]_(Queue!vars)
  OBVIOUS
<1>1. ASSUME NEW p \in Producers, NEW value \in Values, Push(p, value)
      PROVE  Queue!Next
  BY <1>1 DEF Push, Queue!Push, Queue!Next
<1>2. ASSUME NEW c \in Consumers, CallPop(c) \/ Wait(c) \/ SpuriousWakeup(c)
      PROVE  UNCHANGED Queue!vars
  BY <1>2 DEF CallPop, Wait, SpuriousWakeup, Queue!vars
<1>3. ASSUME NEW c \in Consumers, ReturnFromPop(c) PROVE Queue!Next
  <2>1. Queue!CanPop /\ UNCHANGED running
        /\ queue' = IF running THEN Tail(queue) ELSE queue
    BY <1>3 DEF ReturnFromPop, Predicate, Rest, Queue!CanPop
  <2>2. returned' = IF running THEN Head(queue) ELSE Nothing
    <3>1. CASE running
      <4>1. queue # << >> /\ returned' = queue[1]
        BY <1>3, <3>1 DEF ReturnFromPop, Predicate, Front
      <4>2. Head(queue) = queue[1]
        BY <4>1 DEF TypeOK
      <4>3. QED
        BY <3>1, <4>1, <4>2
    <3>2. CASE ~running
      BY <1>3, <3>2 DEF ReturnFromPop
    <3>3. QED
      BY <3>1, <3>2
  <2>3. Queue!Pop
    BY <2>1, <2>2 DEF Queue!Pop
  <2>4. QED
    BY <2>3 DEF Queue!Next
<1>4. ASSUME NEW n \in Nat, DropN(n) \/ KeepN(n) PROVE Queue!Next
  BY <1>4, TrimImplements DEF TypeOK, Queue!Next
<1>5. CASE Stop
  BY <1>5 DEF Stop, Queue!Stop, Queue!Next
<1>6. CASE UNCHANGED vars
  BY <1>6 DEF vars, Queue!vars
<1>7. QED
  BY <1>1, <1>2, <1>3, <1>4, <1>5, <1>6, MaxLengthAssumption
     DEF Next, Consumer, MaxLengthAssumption

\* Every operation takes effect at one instant, whatever the threads interleave: values
\* leave oldest first and once, and pop() returns only with a value or after stop().
THEOREM ImplementsQueue == Spec => IsBlockingQueue
<1>1. Init => Queue!Init
  BY DEF Init, Queue!Init
<1>2. TypeOK /\ [Next]_vars => [Queue!Next]_(Queue!vars)
  BY StepImplements
<1>3. QED
  BY <1>1, <1>2, TypeCorrect, PTL DEF Spec, IsBlockingQueue, Queue!Spec
=============================================================================
