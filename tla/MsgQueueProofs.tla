--------------------------- MODULE MsgQueueProofs ---------------------------
(***************************************************************************)
(* The message queue of core/msq_queue.c for any number of threads, any    *)
(* capacity and any set of messages: its invariants, that no wake-up is    *)
(* lost, and that the ring implements a bounded FIFO, every step of        *)
(* MsgQueue being a step of BoundedFifo or no step at all.                 *)
(***************************************************************************)
EXTENDS MsgQueue, FiniteSetTheorems, SequenceTheorems, TLAPS

USE DEF OK, EINVAL, ENOSPC

-----------------------------------------------------------------------------
(* Arithmetic of the ring indices. *)

(* One subtraction brings an index less than twice the capacity back. *)
LEMMA ModSmall ==
    ASSUME NEW C \in Nat \ {0}, NEW a \in Nat, a < 2 * C
    PROVE  a % C = IF a < C THEN a ELSE a - C
<1>1. CASE a < C
  BY <1>1
<1>2. CASE a >= C
  BY <1>2
<1> QED BY <1>1, <1>2

(* The slot of the next push moves on with the messages... *)
LEMMA ModShift ==
    ASSUME NEW C \in Nat \ {0}, NEW h \in Nat, NEW n \in Nat, h < C, n < C
    PROVE  (((h + n) % C) + 1) % C = (h + n + 1) % C
<1>1. CASE h + n < C
  <2>1. (h + n) % C = h + n
    BY <1>1
  <2> QED BY <2>1
<1>2. CASE h + n >= C
  <2>1. (h + n) % C = h + n - C
    BY <1>2
  <2>2. (h + n - C + 1) % C = h + n - C + 1
    BY <1>2
  <2>3. (h + n + 1) % C = h + n + 1 - C
    BY <1>2
  <2> QED BY <2>1, <2>2, <2>3
<1> QED BY <1>1, <1>2

(* ... and stays where it is when the slot of the next pop does. *)
LEMMA ModUnshift ==
    ASSUME NEW C \in Nat \ {0}, NEW h \in Nat, NEW n \in 1 .. C, h < C
    PROVE  (h + n) % C = (((h + 1) % C) + n - 1) % C
<1>1. CASE h + 1 < C
  <2>1. (h + 1) % C = h + 1
    BY <1>1
  <2> QED BY <2>1
<1>2. CASE h + 1 = C
  <2>1. (h + 1) % C = 0
    BY <1>2
  <2>2. (h + n) % C = n - 1
    BY <1>2
  <2>3. (n - 1) % C = n - 1
    OBVIOUS
  <2> QED BY <2>1, <2>2, <2>3
<1> QED BY <1>1, <1>2

-----------------------------------------------------------------------------
(* Where the threads are: the conjuncts of IInv that do not relate the
   indices of the ring to each other.                                      *)
Control == TypeOK /\ MutexInv /\ SleepInv /\ RoleInv /\ TestInv /\ UseInv

LEMMA InitControl == Init => Control
<1> SUFFICES ASSUME Init PROVE Control
  OBVIOUS
<1>1. TypeOK
  BY QueueAssumption DEF Init, TypeOK, Slots, PushPoints, PopPoints
<1>2. MutexInv /\ SleepInv /\ RoleInv /\ TestInv /\ UseInv
  BY QueueAssumption DEF Init, MutexInv, SleepInv, RoleInv, TestInv, UseInv,
       Critical, PushPoints, PopPoints
<1> QED BY <1>1, <1>2 DEF Control

LEMMA NextControl ==
    ASSUME Control, [Next]_vars
    PROVE  Control'
<1> USE QueueAssumption
    DEF Control, TypeOK, MutexInv, SleepInv, RoleInv, TestInv, UseInv,
        Goto, Acquire, Release, ring, Critical, PushPoints, PopPoints, Threads, Slots
<1>1. CASE Lifecycle
  <2>1. ASSUME NEW made, QueueInit(made), Quiescent PROVE Control'
    BY <2>1 DEF Quiescent, QueueInit, Ready
  <2>2. CASE QueueDestroy /\ Quiescent
    BY <2>2 DEF Quiescent, QueueDestroy, Ready
  <2> QED
    BY <1>1, <2>1, <2>2 DEF Lifecycle
<1>2. ASSUME NEW t \in Threads, Call(t) PROVE Control'
  <2>1. ASSUME t \in Producers, Ready, NEW m \in Messages, CallPush(t, m) PROVE Control'
    BY <2>1 DEF CallPush, Ready
  <2>2. ASSUME t \in Consumers, Ready, CallPop(t) PROVE Control'
    BY <2>2 DEF CallPop, Ready
  <2>3. ASSUME RejectNull(t) PROVE Control'
    BY <2>3 DEF RejectNull, Ready
  <2> QED
    BY <1>2, <2>1, <2>2, <2>3 DEF Call
<1>3. ASSUME NEW t \in Threads, PushLock(t) PROVE Control'
  BY <1>3 DEF PushLock, Ready
<1>4. ASSUME NEW t \in Threads, PushFull(t) PROVE Control'
  BY <1>4 DEF PushFull, Ready
<1>5. ASSUME NEW t \in Threads, PushStore(t) PROVE Control'
  BY <1>5 DEF PushStore, Ready
<1>6. ASSUME NEW t \in Threads, PushCount(t) PROVE Control'
  BY <1>6 DEF PushCount, Ready
<1>7. ASSUME NEW t \in Threads, PushSignal(t) PROVE Control'
  BY <1>7 DEF PushSignal, Ready
<1>8. ASSUME NEW t \in Threads, PushUnlock(t) PROVE Control'
  BY <1>8 DEF PushUnlock, Ready
<1>9. ASSUME NEW t \in Threads, PopLock(t) PROVE Control'
  BY <1>9 DEF PopLock, Ready
<1>10. ASSUME NEW t \in Threads, PopWait(t) PROVE Control'
  BY <1>10 DEF PopWait, Ready
<1>11. ASSUME NEW t \in Threads, PopTake(t) PROVE Control'
  BY <1>11 DEF PopTake, Ready
<1>12. ASSUME NEW t \in Threads, PopCount(t) PROVE Control'
  BY <1>12 DEF PopCount, Ready
<1>13. ASSUME NEW t \in Threads, PopUnlock(t) PROVE Control'
  BY <1>13 DEF PopUnlock, Ready
<1>14. ASSUME NEW t \in Threads, SpuriousWakeup(t) PROVE Control'
  BY <1>14 DEF SpuriousWakeup, Ready
<1>15. CASE UNCHANGED vars
  BY <1>15 DEF vars, Ready
<1> QED
  BY <1>1, <1>2, <1>3, <1>4, <1>5, <1>6, <1>7, <1>8, <1>9, <1>10, <1>11,
     <1>12, <1>13, <1>14, <1>15 DEF Next, Push, Pop

-----------------------------------------------------------------------------
(* The indices agree with the count. *)

LEMMA RingNext ==
    ASSUME count' + Lag' \in 0 .. Capacity,
           tail' = (head' + count' + Lag') % Capacity
    PROVE  RingConsistent'
  BY DEF RingConsistent

LEMMA InitRing == Init => RingConsistent
  BY QueueAssumption, ModSmall DEF Init, RingConsistent, Lag

(* Only four steps move an index or the count: the two halves of a push and
   the two halves of a pop.  The rest leave the ring and its lag alone.    *)
LEMMA NextRing ==
    ASSUME Control, RingConsistent, [Next]_vars
    PROVE  RingConsistent'
<1> USE QueueAssumption
    DEF Control, TypeOK, MutexInv, SleepInv, TestInv, RingConsistent, Lag,
        Goto, Acquire, Release, ring, Critical, PushPoints, PopPoints, Slots
<1>1. CASE Lifecycle
  <2>1. ASSUME NEW made, QueueInit(made) PROVE RingConsistent'
    <3>1. (0 + 0 + 0) % Capacity = 0
      BY ModSmall
    <3> QED
      BY <2>1, <3>1 DEF QueueInit
  <2>2. CASE QueueDestroy
    BY <2>2 DEF QueueDestroy
  <2> QED
    BY <1>1, <2>1, <2>2 DEF Lifecycle
<1>2. ASSUME NEW t \in Threads, Call(t) PROVE RingConsistent'
  BY <1>2 DEF Call, CallPush, CallPop, RejectNull
<1>3. ASSUME NEW t \in Threads, PushLock(t) PROVE RingConsistent'
  BY <1>3 DEF PushLock
<1>4. ASSUME NEW t \in Threads, PushFull(t) PROVE RingConsistent'
  BY <1>4 DEF PushFull
<1>5. ASSUME NEW t \in Threads, PushStore(t) PROVE RingConsistent'
  <2>1. owner = t /\ owner' = t /\ Lag = 0 /\ Lag' = 1
    BY <1>5 DEF PushStore
  <2>2. tail = (head + count) % Capacity /\ tail' = (tail + 1) % Capacity
    BY <1>5, <2>1 DEF PushStore
  <2>3. tail' = (head + count + 1) % Capacity
    <3>1. head \in Nat /\ head < Capacity /\ count \in Nat /\ count < Capacity
      BY <1>5 DEF PushStore
    <3> QED
      BY <2>2, <3>1, ModShift
  <2>4. head' = head /\ count' = count /\ count \in 0 .. Capacity - 1
    BY <1>5 DEF PushStore
  <2>5. count' + Lag' = count + 1 /\ head' + count' + Lag' = head + count + 1
    BY <2>1, <2>4
  <2>6. count' + Lag' \in 0 .. Capacity
    BY <2>4, <2>5
  <2>7. tail' = (head' + count' + Lag') % Capacity
    BY <2>3, <2>4, <2>5
  <2> QED
    BY <2>6, <2>7, RingNext, Zenon
<1>6. ASSUME NEW t \in Threads, PushCount(t) PROVE RingConsistent'
  BY <1>6 DEF PushCount
<1>7. ASSUME NEW t \in Threads, PushSignal(t) PROVE RingConsistent'
  BY <1>7 DEF PushSignal
<1>8. ASSUME NEW t \in Threads, PushUnlock(t) PROVE RingConsistent'
  BY <1>8 DEF PushUnlock
<1>9. ASSUME NEW t \in Threads, PopLock(t) PROVE RingConsistent'
  BY <1>9 DEF PopLock
<1>10. ASSUME NEW t \in Threads, PopWait(t) PROVE RingConsistent'
  BY <1>10 DEF PopWait
<1>11. ASSUME NEW t \in Threads, PopTake(t) PROVE RingConsistent'
  <2>1. owner = t /\ owner' = t /\ Lag = 0 /\ Lag' = -1
    BY <1>11 DEF PopTake
  <2>2. tail = (head + count) % Capacity /\ head' = (head + 1) % Capacity
    BY <1>11, <2>1 DEF PopTake
  <2>3. tail = (head' + count - 1) % Capacity
    <3>1. head \in Nat /\ head < Capacity /\ count \in 1 .. Capacity
      BY <1>11 DEF PopTake
    <3> QED
      BY <2>2, <3>1, ModUnshift
  <2>4. tail' = tail
    BY <1>11 DEF PopTake
  <2>5. count' = count /\ count \in 1 .. Capacity /\ head' \in Nat
    BY <1>11 DEF PopTake
  <2>6. head' + count' + Lag' = head' + count - 1
    BY <2>1, <2>5
  <2>7. count' + Lag' \in 0 .. Capacity
    BY <2>1, <2>5
  <2>8. tail' = (head' + count' + Lag') % Capacity
    BY <2>3, <2>4, <2>6, Zenon
  <2> QED
    BY <2>7, <2>8, RingNext, Zenon
<1>12. ASSUME NEW t \in Threads, PopCount(t) PROVE RingConsistent'
  <2>1. owner = t /\ owner' = t /\ Lag = -1 /\ Lag' = 0
    BY <1>12 DEF PopCount
  <2>2. count + Lag = count' + Lag'
    BY <1>12, <2>1 DEF PopCount
  <2>3. head' = head /\ tail' = tail
    BY <1>12 DEF PopCount
  <2>4. head + count + Lag = head' + count' + Lag'
    BY <1>12, <2>1, <2>3 DEF PopCount
  <2> QED
    BY <2>2, <2>3, <2>4 DEF RingConsistent
<1>13. ASSUME NEW t \in Threads, PopUnlock(t) PROVE RingConsistent'
  BY <1>13 DEF PopUnlock
<1>14. ASSUME NEW t \in Threads, SpuriousWakeup(t) PROVE RingConsistent'
  BY <1>14 DEF SpuriousWakeup
<1>15. CASE UNCHANGED vars
  BY <1>15 DEF vars
<1> QED
  BY <1>1, <1>2, <1>3, <1>4, <1>5, <1>6, <1>7, <1>8, <1>9, <1>10, <1>11,
     <1>12, <1>13, <1>14, <1>15 DEF Next, Push, Pop

-----------------------------------------------------------------------------
(* A stored message stays where it is until it is counted. *)

LEMMA InitStored == Init => StoredInv
  BY DEF Init, StoredInv

(* While a push is between storing and counting it holds the mutex. *)
LEMMA StoredFrame ==
    ASSUME StoredInv, ring' = ring,
           \A t \in Threads : qpc'[t] = "pushCount" =>
               qpc[t] = "pushCount" /\ arg'[t] = arg[t]
    PROVE  StoredInv'
  BY DEF StoredInv, ring

LEMMA NextStored ==
    ASSUME Control, RingConsistent, StoredInv, [Next]_vars
    PROVE  StoredInv'
<1> USE QueueAssumption
    DEF Control, TypeOK, MutexInv, Goto, Acquire, Release, ring, Critical,
        PushPoints, PopPoints
<1>1. CASE Lifecycle
  BY <1>1 DEF Lifecycle, Quiescent, QueueInit, QueueDestroy, StoredInv
<1>2. ASSUME NEW t \in Threads, Call(t) PROVE StoredInv'
  BY <1>2, StoredFrame DEF Call, CallPush, CallPop, RejectNull
<1>3. ASSUME NEW t \in Threads,
             \/ PushLock(t) \/ PushFull(t) \/ PushSignal(t) \/ PushUnlock(t)
             \/ PopLock(t) \/ PopWait(t) \/ PopUnlock(t) \/ SpuriousWakeup(t)
      PROVE  StoredInv'
  BY <1>3, StoredFrame
     DEF PushLock, PushFull, PushSignal, PushUnlock, PopLock, PopWait, PopUnlock,
         SpuriousWakeup, SleepInv
<1>4. ASSUME NEW t \in Threads, PushStore(t) PROVE StoredInv'
  <2>1. Lag = 0
    BY <1>4 DEF PushStore, Lag
  <2>2. tail = (head + count) % Capacity
    BY <2>1 DEF RingConsistent
  <2>3. head' = head /\ count' = count /\ arg' = arg /\ buffer'[tail] = arg[t]
    BY <1>4 DEF PushStore
  <2>4. \A u \in Threads : qpc'[u] = "pushCount" => u = t
    BY <1>4 DEF PushStore
  <2> QED
    BY <2>2, <2>3, <2>4 DEF StoredInv
<1>5. ASSUME NEW t \in Threads, PushCount(t) \/ PopTake(t) \/ PopCount(t)
      PROVE  StoredInv'
  <2>1. \A u \in Threads : qpc'[u] # "pushCount"
    BY <1>5 DEF PushCount, PopTake, PopCount
  <2> QED
    BY <2>1 DEF StoredInv
<1>6. CASE UNCHANGED vars
  BY <1>6, StoredFrame DEF vars
<1> QED
  BY <1>1, <1>2, <1>3, <1>4, <1>5, <1>6 DEF Next, Push, Pop

(* The inductive invariant, from its parts. *)
LEMMA InitIInv == Init => IInv
  BY InitControl, InitRing, InitStored DEF IInv, Control

LEMMA NextIInv == IInv /\ [Next]_vars => IInv'
  BY NextControl, NextRing, NextStored DEF IInv, Control

(* The inductive invariant holds in every behaviour of push, pop, init and
   destroy (lines 16-84), for every number of threads and slots.           *)
THEOREM InvariantHolds == Spec => []IInv
  BY InitIInv, NextIInv, PTL DEF Spec

-----------------------------------------------------------------------------
(* No wakeup is lost. *)

(* The consumers and pushes that will still look at the ring can be counted. *)
LEMMA Countable ==
    /\ IsFiniteSet(Awake) /\ Cardinality(Awake) \in Nat
    /\ IsFiniteSet(Signalling) /\ Cardinality(Signalling) \in Nat
<1>1. IsFiniteSet(Awake) /\ IsFiniteSet(Signalling)
  BY QueueAssumption, FS_Subset DEF Awake, Signalling, Threads
<1> QED BY <1>1, FS_CardinalityType

LEMMA CountableNext ==
    /\ IsFiniteSet(Awake') /\ Cardinality(Awake') \in Nat
    /\ IsFiniteSet(Signalling') /\ Cardinality(Signalling') \in Nat
<1>1. IsFiniteSet(Awake') /\ IsFiniteSet(Signalling')
  BY QueueAssumption, FS_Subset DEF Awake, Signalling, Threads
<1> QED BY <1>1, FS_CardinalityType

(* One element more, one element less. *)
LEMMA CardinalityUp ==
    ASSUME NEW S, IsFiniteSet(S), NEW x, x \notin S
    PROVE  Cardinality(S \cup {x}) = Cardinality(S) + 1
  BY FS_AddElement

LEMMA CardinalityDown ==
    ASSUME NEW S, IsFiniteSet(S), NEW x \in S
    PROVE  Cardinality(S \ {x}) = Cardinality(S) - 1
  BY FS_RemoveElement

LEMMA InitWakeup == Init => NoLostWakeup
  BY DEF Init, NoLostWakeup

(* A step that leaves the awake consumers and the bells to ring as they are,
   and adds no message to take, loses no wakeup.                           *)
LEMMA WakeupFrame ==
    ASSUME TypeOK, TypeOK', NoLostWakeup,
           Awake' = Awake, Signalling' = Signalling,
           Unclaimed' <= Unclaimed, waiting' # {} => waiting # {}
    PROVE  NoLostWakeup'
<1>1. Unclaimed \in Int /\ Unclaimed' \in Int
  BY DEF TypeOK, Unclaimed
<1> QED BY <1>1, Countable DEF NoLostWakeup

LEMMA NextWakeup ==
    ASSUME IInv, IInv', NoLostWakeup, [Next]_vars
    PROVE  NoLostWakeup'
<1> USE QueueAssumption, Countable, CountableNext
    DEF IInv, TypeOK, MutexInv, SleepInv, RoleInv, NoLostWakeup, Unclaimed, Lag,
        Goto, Acquire, Release, ring, Critical, PushPoints, PopPoints, Threads
<1>1. CASE Lifecycle
  <2>1. ASSUME NEW made, QueueInit(made) PROVE NoLostWakeup'
    BY <2>1 DEF QueueInit
  <2>2. ASSUME QueueDestroy PROVE NoLostWakeup'
    BY <2>2 DEF QueueDestroy, Awake, Signalling
  <2> QED
    BY <1>1, <2>1, <2>2 DEF Lifecycle
<1>2. ASSUME NEW t \in Threads, Call(t) PROVE NoLostWakeup'
  <2>1. ASSUME NEW m, t \in Producers, CallPush(t, m) PROVE NoLostWakeup'
    <3>1. Awake' = Awake /\ Signalling' = Signalling
      BY <2>1 DEF CallPush, Awake, Signalling
    <3>2. Unclaimed' <= Unclaimed
      BY <2>1 DEF CallPush
    <3> QED
      BY <2>1, <3>1, <3>2, WakeupFrame DEF CallPush
  <2>2. ASSUME t \in Consumers, CallPop(t) PROVE NoLostWakeup'
    <3>1. Awake' = Awake \cup {t} /\ t \notin Awake /\ Signalling' = Signalling
      BY <2>2 DEF CallPop, Awake, Signalling
    <3>2. Cardinality(Awake') = Cardinality(Awake) + 1
      BY <3>1, CardinalityUp
    <3>3. Unclaimed' = Unclaimed
      BY <2>2 DEF CallPop
    <3> QED
      BY <2>2, <3>1, <3>2, <3>3 DEF CallPop
  <2>3. ASSUME RejectNull(t) PROVE NoLostWakeup'
    BY <2>3 DEF RejectNull, Awake, Signalling
  <2> QED
    BY <1>2, <2>1, <2>2, <2>3 DEF Call
<1>3. ASSUME NEW t \in Threads, PushLock(t) PROVE NoLostWakeup'
  <2>1. Awake' = Awake /\ Signalling' = Signalling
    BY <1>3 DEF PushLock, Awake, Signalling
  <2>2. Unclaimed' <= Unclaimed
    BY <1>3 DEF PushLock
  <2> QED
    BY <1>3, <2>1, <2>2, WakeupFrame DEF PushLock
<1>4. ASSUME NEW t \in Threads, PushFull(t) PROVE NoLostWakeup'
  <2>1. Awake' = Awake /\ Signalling' = Signalling
    BY <1>4 DEF PushFull, Awake, Signalling
  <2>2. Unclaimed' <= Unclaimed
    BY <1>4 DEF PushFull
  <2> QED
    BY <1>4, <2>1, <2>2, WakeupFrame DEF PushFull
<1>5. ASSUME NEW t \in Threads, PushStore(t) PROVE NoLostWakeup'
  <2>1. Awake' = Awake /\ Signalling' = Signalling
    BY <1>5 DEF PushStore, Awake, Signalling
  <2>2. Unclaimed' <= Unclaimed
    BY <1>5 DEF PushStore
  <2> QED
    BY <1>5, <2>1, <2>2, WakeupFrame DEF PushStore
<1>6. ASSUME NEW t \in Threads, PushCount(t) PROVE NoLostWakeup'
  <2>1. Awake' = Awake /\ Signalling' = Signalling \cup {t} /\ t \notin Signalling
    BY <1>6 DEF PushCount, Awake, Signalling
  <2>2. Cardinality(Signalling') = Cardinality(Signalling) + 1
    BY <2>1, CardinalityUp
  <2>3. Unclaimed' = Unclaimed + 1
    BY <1>6 DEF PushCount
  <2> QED
    BY <1>6, <2>1, <2>2, <2>3 DEF PushCount
<1>7. ASSUME NEW t \in Threads, PushSignal(t) PROVE NoLostWakeup'
  <2>1. CASE waiting = {}
    BY <1>7, <2>1 DEF PushSignal
  <2>2. ASSUME NEW w \in waiting,
               qpc' = [qpc EXCEPT ![t] = "pushUnlock", ![w] = "popLock"]
        PROVE  NoLostWakeup'
    <3>1. /\ Awake' = Awake \cup {w} /\ w \notin Awake
          /\ Signalling' = Signalling \ {t} /\ t \in Signalling
      BY <1>7, <2>2 DEF PushSignal, Awake, Signalling
    <3>2. Cardinality(Awake') = Cardinality(Awake) + 1
      BY <3>1, CardinalityUp
    <3>3. Cardinality(Signalling') = Cardinality(Signalling) - 1
      BY <3>1, CardinalityDown
    <3>4. Unclaimed' = Unclaimed
      BY <1>7, <2>2 DEF PushSignal
    <3> QED
      BY <2>2, <3>2, <3>3, <3>4
  <2> QED
    BY <1>7, <2>1, <2>2 DEF PushSignal
<1>8. ASSUME NEW t \in Threads, PushUnlock(t) PROVE NoLostWakeup'
  <2>1. Awake' = Awake /\ Signalling' = Signalling
    BY <1>8 DEF PushUnlock, Awake, Signalling
  <2>2. Unclaimed' <= Unclaimed
    BY <1>8 DEF PushUnlock
  <2> QED
    BY <1>8, <2>1, <2>2, WakeupFrame DEF PushUnlock
<1>9. ASSUME NEW t \in Threads, PopLock(t) PROVE NoLostWakeup'
  <2>1. Awake' = Awake /\ Signalling' = Signalling
    BY <1>9 DEF PopLock, Awake, Signalling
  <2>2. Unclaimed' <= Unclaimed
    BY <1>9 DEF PopLock
  <2> QED
    BY <1>9, <2>1, <2>2, WakeupFrame DEF PopLock
<1>10. ASSUME NEW t \in Threads, PopWait(t) PROVE NoLostWakeup'
  <2>1. Unclaimed' = 0
    BY <1>10 DEF PopWait
  <2> QED
    BY <2>1
<1>11. ASSUME NEW t \in Threads, PopTake(t) PROVE NoLostWakeup'
  <2>1. Awake' = Awake \ {t} /\ t \in Awake /\ Signalling' = Signalling
    BY <1>11 DEF PopTake, Awake, Signalling
  <2>2. Cardinality(Awake') = Cardinality(Awake) - 1
    BY <2>1, CardinalityDown
  <2>3. Unclaimed' = Unclaimed - 1
    BY <1>11 DEF PopTake
  <2> QED
    BY <1>11, <2>1, <2>2, <2>3 DEF PopTake
<1>12. ASSUME NEW t \in Threads, PopCount(t) PROVE NoLostWakeup'
  <2>1. Awake' = Awake /\ Signalling' = Signalling
    BY <1>12 DEF PopCount, Awake, Signalling
  <2>2. Unclaimed' = Unclaimed
    BY <1>12 DEF PopCount
  <2> QED
    BY <1>12, <2>1, <2>2 DEF PopCount
<1>13. ASSUME NEW t \in Threads, PopUnlock(t) PROVE NoLostWakeup'
  <2>1. Awake' = Awake /\ Signalling' = Signalling
    BY <1>13 DEF PopUnlock, Awake, Signalling
  <2>2. Unclaimed' <= Unclaimed
    BY <1>13 DEF PopUnlock
  <2> QED
    BY <1>13, <2>1, <2>2, WakeupFrame DEF PopUnlock
<1>14. ASSUME NEW t \in Threads, SpuriousWakeup(t) PROVE NoLostWakeup'
  <2>1. Awake' = Awake \cup {t} /\ t \notin Awake /\ Signalling' = Signalling
    BY <1>14 DEF SpuriousWakeup, Awake, Signalling
  <2>2. Cardinality(Awake') = Cardinality(Awake) + 1
    BY <2>1, CardinalityUp
  <2>3. Unclaimed' = Unclaimed
    BY <1>14 DEF SpuriousWakeup
  <2> QED
    BY <1>14, <2>1, <2>2, <2>3 DEF SpuriousWakeup
<1>15. CASE UNCHANGED vars
  BY <1>15 DEF vars, Awake, Signalling
<1> QED
  BY <1>1, <1>2, <1>3, <1>4, <1>5, <1>6, <1>7, <1>8, <1>9, <1>10, <1>11,
     <1>12, <1>13, <1>14, <1>15 DEF Next, Push, Pop

-----------------------------------------------------------------------------
(* The theorems. *)

(* Types and index bounds, for every number of threads and slots. *)
THEOREM TypeCorrect == Spec => []TypeOK
<1>1. IInv => TypeOK
  BY DEF IInv
<1> QED BY <1>1, InvariantHolds, PTL

(* The ring never loses track of its messages: the three fields push and pop
   update one after the other agree whenever the mutex is free.            *)
THEOREM RingStaysConsistent == Spec => []RingConsistent
<1>1. IInv => RingConsistent
  BY DEF IInv
<1> QED BY <1>1, InvariantHolds, PTL

(* A consumer never sleeps on a message that no awake consumer and no bell
   still to ring accounts for.                                             *)
THEOREM NoWakeupIsLost == Spec => []NoLostWakeup
  BY InvariantHolds, InitWakeup, NextWakeup, PTL DEF Spec

-----------------------------------------------------------------------------
(* The refinement. *)

AnyMsg == Messages \cup {NoMsg}

(* The n messages found by walking round a ring b from slot h. *)
Walk(b, h, n) == [i \in 1 .. n |-> b[(h + i - 1) % Capacity]]

-----------------------------------------------------------------------------
(* Walks round the ring. *)

LEMMA SlotInRange ==
    ASSUME NEW C \in Nat \ {0}, NEW h \in 0 .. C - 1, NEW i \in 1 .. C + 1
    PROVE  (h + i - 1) % C \in 0 .. C - 1
<1>1. CASE h + i - 1 < C
  BY <1>1
<1>2. CASE h + i - 1 >= C /\ h + i - 1 < 2 * C
  BY <1>2
<1> QED BY <1>1, <1>2

LEMMA WalkIsSeq ==
    ASSUME NEW b \in [Slots -> AnyMsg], NEW h \in Slots, NEW n \in 0 .. Capacity
    PROVE  /\ Walk(b, h, n) \in Seq(AnyMsg)
           /\ Len(Walk(b, h, n)) = n
           /\ \A i \in 1 .. n : Walk(b, h, n)[i] = b[(h + i - 1) % Capacity]
<1>1. \A i \in 1 .. n : b[(h + i - 1) % Capacity] \in AnyMsg
  <2>1. SUFFICES ASSUME NEW i \in 1 .. n
                 PROVE  b[(h + i - 1) % Capacity] \in AnyMsg
    OBVIOUS
  <2>2. (h + i - 1) % Capacity \in 0 .. Capacity - 1
    BY SlotInRange, QueueAssumption DEF Slots
  <2> QED
    BY <2>2 DEF Slots
<1>2. n \in Nat
  BY QueueAssumption
<1> QED BY <1>1, <1>2 DEF Walk

(* Two slots that a walk of at most C steps meets are different. *)
LEMMA SlotsDiffer ==
    ASSUME NEW C \in Nat \ {0}, NEW h \in 0 .. C - 1,
           NEW n \in 0 .. C - 1, NEW i \in 1 .. n
    PROVE  (h + i - 1) % C # (h + n) % C
<1>1. CASE h + n < C
  BY <1>1
<1>2. CASE h + n >= C
  <2>1. (h + n) % C = h + n - C
    BY <1>2
  <2>2. CASE h + i - 1 < C
    <3>1. (h + i - 1) % C = h + i - 1
      BY <2>2
    <3> QED BY <1>2, <2>1, <3>1
  <2>3. CASE h + i - 1 >= C
    <3>1. (h + i - 1) % C = h + i - 1 - C
      BY <2>3
    <3> QED BY <1>2, <2>1, <3>1
  <2> QED BY <2>2, <2>3
<1> QED BY <1>1, <1>2

(* Storing in the slot the walk would meet next does not disturb it. *)
LEMMA WalkStore ==
    ASSUME NEW b \in [Slots -> AnyMsg], NEW h \in Slots,
           NEW n \in 0 .. Capacity - 1, NEW m
    PROVE  Walk([b EXCEPT ![(h + n) % Capacity] = m], h, n) = Walk(b, h, n)
<1>1. ASSUME NEW i \in 1 .. n
      PROVE  [b EXCEPT ![(h + n) % Capacity] = m][(h + i - 1) % Capacity]
                 = b[(h + i - 1) % Capacity]
  <2>1. (h + i - 1) % Capacity # (h + n) % Capacity
    BY SlotsDiffer, QueueAssumption DEF Slots
  <2>2. (h + i - 1) % Capacity \in Slots
    BY SlotInRange, QueueAssumption DEF Slots
  <2> QED
    BY <2>1, <2>2
<1> QED BY <1>1 DEF Walk

(* One step further: the next slot is appended. *)
LEMMA WalkOn ==
    ASSUME NEW b \in [Slots -> AnyMsg], NEW h \in Slots, NEW n \in 0 .. Capacity - 1
    PROVE  Walk(b, h, n + 1) = Append(Walk(b, h, n), b[(h + n) % Capacity])
<1>1. n \in Nat /\ h \in Nat /\ n \in 0 .. Capacity
  BY QueueAssumption DEF Slots
<1>2. Len(Walk(b, h, n)) = n
  BY <1>1, WalkIsSeq
<1>3. h + (n + 1) - 1 = h + n
  BY <1>1
<1>4. Append(Walk(b, h, n), b[(h + n) % Capacity])
        = [i \in 1 .. n + 1 |-> IF i <= n THEN Walk(b, h, n)[i]
                                          ELSE b[(h + n) % Capacity]]
  BY <1>1, <1>2
<1>5. ASSUME NEW i \in 1 .. n + 1
      PROVE  b[(h + i - 1) % Capacity]
                 = IF i <= n THEN Walk(b, h, n)[i] ELSE b[(h + n) % Capacity]
  <2>1. CASE i \in 1 .. n
    BY <1>1, <2>1 DEF Walk
  <2>2. CASE i = n + 1
    BY <1>1, <1>3, <2>2
  <2> QED BY <1>1, <2>1, <2>2
<1> QED BY <1>4, <1>5 DEF Walk

(* One step later: the first slot is dropped. *)
LEMMA WalkLater ==
    ASSUME NEW b \in [Slots -> AnyMsg], NEW h \in Slots, NEW n \in 1 .. Capacity
    PROVE  /\ Walk(b, h, n) # <<>>
           /\ Head(Walk(b, h, n)) = b[h]
           /\ Walk(b, (h + 1) % Capacity, n - 1) = Tail(Walk(b, h, n))
<1>1. /\ Capacity \in Nat \ {0} /\ h \in Nat /\ h < Capacity /\ n \in Nat
      /\ n \in 0 .. Capacity
  BY QueueAssumption DEF Slots
<1>2. /\ Walk(b, h, n) \in Seq(AnyMsg)
      /\ Len(Walk(b, h, n)) = n
      /\ \A i \in 1 .. n : Walk(b, h, n)[i] = b[(h + i - 1) % Capacity]
  BY <1>1, WalkIsSeq
<1>3. Walk(b, h, n) # <<>>
  BY <1>1, <1>2
<1>4. Head(Walk(b, h, n)) = b[h]
  <2>1. (h + 1 - 1) % Capacity = h
    BY <1>1
  <2>2. Walk(b, h, n)[1] = b[h]
    BY <1>1, <1>2, <2>1
  <2>3. Head(Walk(b, h, n)) = Walk(b, h, n)[1]
    BY <1>2, <1>3
  <2> QED BY <2>2, <2>3
<1>5. Walk(b, (h + 1) % Capacity, n - 1) = Tail(Walk(b, h, n))
  <2>1. Tail(Walk(b, h, n)) = [i \in 1 .. n - 1 |-> Walk(b, h, n)[i + 1]]
    <3>1. Tail(Walk(b, h, n)) \in Seq(AnyMsg) /\ Len(Tail(Walk(b, h, n))) = n - 1
      BY <1>2, <1>3, HeadTailProperties
    <3>2. \A i \in 1 .. n - 1 : Tail(Walk(b, h, n))[i] = Walk(b, h, n)[i + 1]
      BY <1>2, <1>3, <3>1, HeadTailProperties
    <3>3. Tail(Walk(b, h, n)) \in [1 .. n - 1 -> AnyMsg]
      BY <3>1, LenProperties
    <3> QED BY <3>2, <3>3
  <2>2. ASSUME NEW i \in 1 .. n - 1
        PROVE  Walk(b, h, n)[i + 1] = b[(((h + 1) % Capacity) + i - 1) % Capacity]
    <3>1. i \in 1 .. Capacity /\ i + 1 \in 1 .. n /\ h + (i + 1) - 1 = h + i
      BY <1>1
    <3>2. (h + i) % Capacity = (((h + 1) % Capacity) + i - 1) % Capacity
      BY <1>1, <3>1, ModUnshift, Zenon
    <3> QED BY <1>2, <3>1, <3>2
  <2>3. Walk(b, (h + 1) % Capacity, n - 1)
          = [i \in 1 .. n - 1 |-> b[(((h + 1) % Capacity) + i - 1) % Capacity]]
    BY DEF Walk
  <2> QED BY <2>1, <2>2, <2>3
<1> QED BY <1>3, <1>4, <1>5

-----------------------------------------------------------------------------
(* The steps. *)

LEMMA ContentIsWalk == Content = Walk(buffer, head, Unclaimed)
  BY DEF Content, Walk

LEMMA UnclaimedBounds ==
    ASSUME IInv
    PROVE  /\ buffer \in [Slots -> AnyMsg] /\ head \in Slots
           /\ Unclaimed \in 0 .. Capacity
           /\ Lag = 0 => Unclaimed = count
  BY QueueAssumption
     DEF IInv, TypeOK, RingConsistent, Unclaimed, Lag, Slots, AnyMsg

LEMMA InitRefines == Init => Fifo!Init
  BY DEF Init, Fifo!Init, Content, Offered, Ready, Unclaimed, Lag

(* An offer ends when its push counts the message or gives up. *)
LEMMA OfferEnds ==
    ASSUME NEW t \in Threads, RoleInv,
           qpc[t] \in {"pushTest", "pushCount"},
           qpc'[t] \notin {"pushLock", "pushTest", "pushCount"},
           \A u \in Threads \ {t} : qpc'[u] = qpc[u] /\ arg'[u] = arg[u]
    PROVE  /\ Offered[t] = arg[t] /\ Offered[t] # NoMsg
           /\ Offered' = [Offered EXCEPT ![t] = NoMsg]
<1>1. Offered[t] = arg[t] /\ arg[t] \in Messages
  BY DEF Offered, RoleInv
<1>2. \A u \in Threads : Offered'[u] = IF u = t THEN NoMsg ELSE Offered[u]
  BY DEF Offered
<1>3. Offered' = [u \in Threads |-> Offered'[u]]
  BY DEF Offered
<1>4. [Offered EXCEPT ![t] = NoMsg]
        = [u \in Threads |-> IF u = t THEN NoMsg ELSE Offered[u]]
  BY DEF Offered
<1> QED BY <1>1, <1>2, <1>3, <1>4, QueueAssumption

Steady == UNCHANGED <<Content, Offered>>

(* The steps that move neither a message nor an offer. *)
LEMMA SteadySteps ==
    ASSUME IInv, NEW t \in Threads,
           \/ CallPop(t) \/ RejectNull(t)
           \/ PushLock(t) \/ PushSignal(t) \/ PushUnlock(t)
           \/ PopLock(t) \/ PopWait(t) \/ PopCount(t) \/ PopUnlock(t)
           \/ SpuriousWakeup(t)
    PROVE  Steady /\ UNCHANGED <<out, live>>
<1> USE QueueAssumption
    DEF IInv, TypeOK, MutexInv, SleepInv, RoleInv, UseInv, Goto, Acquire, Release,
        ring, Critical, PushPoints, PopPoints
<1>1. CASE CallPop(t) \/ RejectNull(t)
  <2>1. Offered' = Offered
    BY <1>1 DEF CallPop, RejectNull, Offered
  <2>2. Unclaimed' = Unclaimed
    BY <1>1 DEF CallPop, RejectNull, Unclaimed, Lag
  <2> QED BY <1>1, <2>1, <2>2 DEF Steady, Content, CallPop, RejectNull
<1>2. CASE PushLock(t) \/ PushUnlock(t)
  <2>1. Offered' = Offered
    BY <1>2 DEF PushLock, PushUnlock, Offered
  <2>2. Unclaimed' = Unclaimed
    BY <1>2 DEF PushLock, PushUnlock, Unclaimed, Lag
  <2> QED BY <1>2, <2>1, <2>2 DEF Steady, Content, PushLock, PushUnlock
<1>3. CASE PushSignal(t)
  <2>1. Offered' = Offered
    BY <1>3 DEF PushSignal, Offered
  <2>2. Unclaimed' = Unclaimed
    BY <1>3 DEF PushSignal, Unclaimed, Lag
  <2> QED BY <1>3, <2>1, <2>2 DEF Steady, Content, PushSignal
<1>4. CASE PopLock(t) \/ PopWait(t)
  <2>1. Offered' = Offered
    BY <1>4 DEF PopLock, PopWait, Offered
  <2>2. Unclaimed' = Unclaimed
    BY <1>4 DEF PopLock, PopWait, Unclaimed, Lag
  <2> QED BY <1>4, <2>1, <2>2 DEF Steady, Content, PopLock, PopWait
<1>5. CASE PopCount(t) \/ PopUnlock(t) \/ SpuriousWakeup(t)
  <2>1. Offered' = Offered
    BY <1>5 DEF PopCount, PopUnlock, SpuriousWakeup, Offered
  <2>2. Unclaimed' = Unclaimed
    BY <1>5 DEF PopCount, PopUnlock, SpuriousWakeup, Unclaimed, Lag
  <2> QED BY <1>5, <2>1, <2>2 DEF Steady, Content, PopCount, PopUnlock, SpuriousWakeup
<1> QED BY <1>1, <1>2, <1>3, <1>4, <1>5

(* Initialising empties the ring, destroying keeps what it holds. *)
LEMMA LifecycleSteps ==
    ASSUME IInv, Quiescent
    PROVE  /\ Offered = [t \in Threads |-> NoMsg]
           /\ \A made \in SUBSET {"lock", "cond"} :
                 QueueInit(made) => Content' = <<>> /\ Offered' = Offered
           /\ QueueDestroy => Steady
<1> USE QueueAssumption
    DEF IInv, TypeOK, MutexInv, SleepInv, RoleInv, UseInv, Goto, Acquire, Release,
        ring, Critical, PushPoints, PopPoints
<1>1. Offered = [t \in Threads |-> NoMsg]
  BY DEF Quiescent, Offered
<1>2. ASSUME NEW made \in SUBSET {"lock", "cond"}, QueueInit(made)
      PROVE  Content' = <<>> /\ Offered' = Offered
  BY <1>2 DEF QueueInit, Content, Unclaimed, Lag, Offered
<1>3. ASSUME QueueDestroy PROVE Steady
  BY <1>3 DEF QueueDestroy, Steady, Content, Unclaimed, Lag, Offered
<1> QED BY <1>1, <1>2, <1>3

(* A call of push puts its message on offer. *)
LEMMA CallPushOffers ==
    ASSUME IInv, NEW t \in Threads, NEW m \in Messages, CallPush(t, m)
    PROVE  /\ Content' = Content
           /\ Offered[t] = NoMsg /\ Offered' = [Offered EXCEPT ![t] = m]
<1> USE QueueAssumption
    DEF IInv, TypeOK, MutexInv, SleepInv, RoleInv, UseInv, Goto, Acquire, Release,
        ring, Critical, PushPoints, PopPoints
<1>1. Content' = Content
  BY DEF CallPush, Content, Unclaimed, Lag
<1>2. Offered[t] = NoMsg /\ Offered' = [Offered EXCEPT ![t] = m]
  BY DEF CallPush, Offered
<1> QED BY <1>1, <1>2

(* A push that finds the ring full withdraws its offer. *)
LEMMA PushFullRefuses ==
    ASSUME IInv, NEW t \in Threads, PushFull(t)
    PROVE  /\ Content' = Content /\ Len(Content) = Capacity
           /\ Offered[t] # NoMsg /\ Offered' = [Offered EXCEPT ![t] = NoMsg]
<1> USE QueueAssumption
    DEF IInv, TypeOK, MutexInv, SleepInv, RoleInv, UseInv, Goto, Acquire, Release,
        ring, Critical, PushPoints, PopPoints
<1>1. Unclaimed = Capacity
  BY DEF PushFull, Unclaimed, Lag
<1>2. Len(Content) = Capacity
  BY <1>1, ContentIsWalk, UnclaimedBounds, WalkIsSeq
<1>3. Content' = Content
  BY DEF PushFull, Content, Unclaimed, Lag
<1>4. Offered[t] # NoMsg /\ Offered' = [Offered EXCEPT ![t] = NoMsg]
  BY OfferEnds DEF PushFull
<1> QED BY <1>2, <1>3, <1>4

(* A message stored but not counted is not in the ring yet. *)
LEMMA PushStoreHidden ==
    ASSUME IInv, NEW t \in Threads, PushStore(t)
    PROVE  Steady
<1>0. buffer \in [Slots -> AnyMsg] /\ head \in Slots
  BY UnclaimedBounds
<1> USE QueueAssumption
    DEF IInv, TypeOK, MutexInv, SleepInv, RoleInv, UseInv, Goto, Acquire, Release,
        ring, Critical, PushPoints, PopPoints
<1>1. Lag = 0 /\ Unclaimed = count /\ Unclaimed' = Unclaimed
  BY DEF PushStore, Unclaimed, Lag
<1>2. tail = (head + Unclaimed) % Capacity
  BY <1>1 DEF RingConsistent
<1>3. Unclaimed \in 0 .. Capacity - 1
  BY <1>1 DEF PushStore
<1>4. buffer' = [buffer EXCEPT ![(head + Unclaimed) % Capacity] = arg[t]]
  BY <1>2 DEF PushStore
<1>5. Walk(buffer', head, Unclaimed) = Walk(buffer, head, Unclaimed)
  BY <1>0, <1>3, <1>4, WalkStore, Zenon
<1>6. head' = head
  BY DEF PushStore
<1>7. Content' = Content
  BY <1>1, <1>5, <1>6 DEF Content, Walk
<1>8. Offered' = Offered
  BY DEF PushStore, Offered
<1> QED BY <1>7, <1>8 DEF Steady

(* Counting the message puts it behind the others. *)
LEMMA PushCountAppends ==
    ASSUME IInv, NEW t \in Threads, PushCount(t)
    PROVE  /\ Len(Content) < Capacity
           /\ Content' = Append(Content, Offered[t])
           /\ Offered[t] # NoMsg /\ Offered' = [Offered EXCEPT ![t] = NoMsg]
<1>0. /\ buffer \in [Slots -> AnyMsg] /\ head \in Slots
      /\ Content = Walk(buffer, head, Unclaimed)
  BY UnclaimedBounds, ContentIsWalk
<1>a. ASSUME Unclaimed \in 0 .. Capacity - 1
      PROVE  Walk(buffer, head, Unclaimed + 1)
               = Append(Content, buffer[(head + Unclaimed) % Capacity])
  BY <1>0, <1>a, WalkOn
<1> USE QueueAssumption
    DEF IInv, TypeOK, MutexInv, SleepInv, RoleInv, UseInv, Goto, Acquire, Release,
        ring, Critical, PushPoints, PopPoints
<1>1. Unclaimed = count /\ Unclaimed' = Unclaimed + 1 /\ Unclaimed < Capacity
  BY DEF PushCount, Unclaimed, Lag, TestInv
<1>2. arg[t] = buffer[(head + Unclaimed) % Capacity]
  BY <1>1 DEF PushCount, StoredInv
<1>3. Unclaimed \in 0 .. Capacity - 1
  BY <1>1
<1>4. Walk(buffer, head, Unclaimed + 1) = Append(Content, arg[t])
  BY <1>a, <1>2, <1>3
<1>5. Content' = Append(Content, arg[t])
  BY <1>1, <1>4 DEF PushCount, Content, Walk
<1>6. Len(Content) < Capacity
  BY <1>1, ContentIsWalk, UnclaimedBounds, WalkIsSeq
<1>7. /\ Offered[t] = arg[t] /\ Offered[t] # NoMsg
      /\ Offered' = [Offered EXCEPT ![t] = NoMsg]
  BY OfferEnds DEF PushCount
<1> QED BY <1>5, <1>6, <1>7

(* Moving head takes the oldest message. *)
LEMMA PopTakesHead ==
    ASSUME IInv, NEW t \in Threads, PopTake(t)
    PROVE  /\ Content # <<>> /\ Content' = Tail(Content)
           /\ out' = [out EXCEPT ![t] = Head(Content)]
           /\ Offered' = Offered
<1>0. /\ buffer \in [Slots -> AnyMsg] /\ head \in Slots
      /\ Content = Walk(buffer, head, Unclaimed)
  BY UnclaimedBounds, ContentIsWalk
<1>a. ASSUME Unclaimed \in 1 .. Capacity
      PROVE  /\ Content # <<>> /\ Head(Content) = buffer[head]
             /\ Walk(buffer, (head + 1) % Capacity, Unclaimed - 1) = Tail(Content)
  BY <1>0, <1>a, WalkLater
<1> USE QueueAssumption
    DEF IInv, TypeOK, MutexInv, SleepInv, RoleInv, UseInv, Goto, Acquire, Release,
        ring, Critical, PushPoints, PopPoints
<1>1. Unclaimed = count /\ Unclaimed' = Unclaimed - 1
  BY DEF PopTake, Unclaimed, Lag
<1>2. Unclaimed \in 1 .. Capacity
  BY <1>1 DEF PopTake
<1>4. buffer' = buffer /\ head' = (head + 1) % Capacity
  BY DEF PopTake
<1>5. Content' = Walk(buffer', head', Unclaimed')
  BY Zenon DEF Content, Walk
<1>6. Offered' = Offered
  BY DEF PopTake, Offered
<1> QED BY <1>a, <1>1, <1>2, <1>4, <1>5, <1>6 DEF PopTake

-----------------------------------------------------------------------------
(* The refinement. *)

LEMMA NextRefines ==
    ASSUME IInv, [Next]_vars
    PROVE  [Fifo!Next]_(Fifo!vars)
<1>1. CASE Lifecycle
  <2>1. ASSUME NEW made \in SUBSET {"lock", "cond"}, live = {}, Quiescent,
               QueueInit(made)
        PROVE  Fifo!Initialise
    BY <2>1, LifecycleSteps DEF QueueInit, Fifo!Initialise, Ready
  <2>2. ASSUME Quiescent, Ready, QueueDestroy PROVE Fifo!Destroy
    BY <2>2, LifecycleSteps DEF QueueDestroy, Steady, Fifo!Destroy, Ready
  <2> QED BY <1>1, <2>1, <2>2 DEF Lifecycle, Fifo!Next
<1>2. ASSUME NEW t \in Threads,
             \/ CallPop(t) \/ RejectNull(t)
             \/ PushLock(t) \/ PushSignal(t) \/ PushUnlock(t)
             \/ PopLock(t) \/ PopWait(t) \/ PopCount(t) \/ PopUnlock(t)
             \/ SpuriousWakeup(t)
      PROVE  UNCHANGED Fifo!vars
  BY <1>2, SteadySteps DEF Steady, Fifo!vars, Ready
<1>3. ASSUME NEW t \in Threads, NEW m \in Messages, CallPush(t, m), Ready
      PROVE  Fifo!Offer(t, m)
  BY <1>3, CallPushOffers DEF CallPush, Fifo!Offer, Ready
<1>4. ASSUME NEW t \in Threads, PushStore(t) PROVE UNCHANGED Fifo!vars
  BY <1>4, PushStoreHidden DEF Steady, PushStore, Fifo!vars, Ready
<1>5. ASSUME NEW t \in Threads, qpc[t] # "idle" PROVE Ready
  BY <1>5 DEF IInv, UseInv
<1>6. ASSUME NEW t \in Threads, PushFull(t) PROVE Fifo!Refuse(t)
  BY <1>5, <1>6, PushFullRefuses DEF PushFull, Goto, Fifo!Refuse, Ready
<1>7. ASSUME NEW t \in Threads, PushCount(t) PROVE Fifo!Accept(t)
  BY <1>5, <1>7, PushCountAppends DEF PushCount, Goto, Fifo!Accept, Ready
<1>8. ASSUME NEW t \in Threads, PopTake(t) PROVE Fifo!Take(t)
  BY <1>5, <1>8, PopTakesHead DEF PopTake, Goto, Fifo!Take, Ready
<1>9. CASE UNCHANGED vars
  BY <1>9 DEF vars, Fifo!vars, Content, Offered, Ready, Unclaimed, Lag
<1> QED
  BY <1>1, <1>2, <1>3, <1>4, <1>6, <1>7, <1>8, <1>9
     DEF Next, Call, Push, Pop, Fifo!Next

(* Whatever the number of threads and the size of the ring, msg_queue_push
   and msg_queue_pop behave as a bounded FIFO: no message is lost,
   duplicated, overwritten or overtaken inside the queue.                  *)
THEOREM RingRefinesFifo == Spec => FifoSpec
<1>1. IInv /\ [Next]_vars => [Fifo!Next]_(Fifo!vars)
  BY NextRefines
<1> QED
  BY <1>1, InvariantHolds, InitRefines, PTL DEF Spec, FifoSpec, Fifo!Spec
=============================================================================
