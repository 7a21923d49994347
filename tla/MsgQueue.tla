------------------------------ MODULE MsgQueue ------------------------------
(***************************************************************************)
(* The thread-safe message queue of core/msq_queue.c: a ring buffer        *)
(* guarded by one mutex, with one condition variable on which a popping    *)
(* thread sleeps while the ring is empty.  A push never blocks: it returns *)
(* -ENOSPC when the ring is full.                                          *)
(*                                                                         *)
(* One action per step a thread takes between two points at which another  *)
(* thread may run.  The statements of a critical section are separate      *)
(* actions, so that what the mutex protects is checked and not assumed.    *)
(***************************************************************************)
EXTENDS Integers, Sequences, FiniteSets

CONSTANTS Producers,  \* threads that call msg_queue_push
          Consumers,  \* threads that call msg_queue_pop
          Messages,   \* the app_msg_t values, told apart and nothing more
          Capacity,   \* QUEUE_MAX_SIZE (100 in data_types.h)
          NoMsg,      \* an app_msg_t that was never written
          NoThread    \* the owner of a free mutex

Threads == Producers \cup Consumers

ASSUME QueueAssumption ==
    /\ Capacity \in Nat \ {0}
    /\ IsFiniteSet(Threads)
    /\ NoMsg \notin Messages
    /\ NoThread \notin Threads

(* The results the functions return. *)
OK     == 0
EINVAL == 22
ENOSPC == 28

VARIABLES buffer,   \* q->buffer
          head,     \* q->head, the slot of the next pop
          tail,     \* q->tail, the slot of the next push
          count,    \* q->count
          live,     \* the initialised ones among q->lock and q->cond
          owner,    \* the thread that holds q->lock
          waiting,  \* the threads asleep on q->cond
          qpc,      \* where each thread is inside push or pop
          arg,      \* the message a push was called with
          out,      \* where a pop stores the message (rx_msg of its caller)
          ret       \* what the last push or pop of the thread returned

vars == <<buffer, head, tail, count, live, owner, waiting, qpc, arg, out, ret>>

ring == <<buffer, head, tail, count>>

Slots == 0 .. Capacity - 1

PushPoints == {"pushLock", "pushTest", "pushCount", "pushSignal", "pushUnlock"}
PopPoints  == {"popLock", "popTest", "popWait", "popCount", "popUnlock"}

(* The points at which a thread holds q->lock. *)
Critical == {"pushTest", "pushCount", "pushSignal", "pushUnlock",
             "popTest", "popCount", "popUnlock"}

Ready == live = {"lock", "cond"}

Quiescent == \A t \in Threads : qpc[t] = "idle"

Goto(t, from, to) ==
    /\ qpc[t] = from
    /\ qpc' = [qpc EXCEPT ![t] = to]

Init ==
    /\ buffer = [i \in Slots |-> NoMsg]
    /\ head = 0
    /\ tail = 0
    /\ count = 0
    /\ live = {}
    /\ owner = NoThread
    /\ waiting = {}
    /\ qpc = [t \in Threads |-> "idle"]
    /\ arg = [t \in Threads |-> NoMsg]
    /\ out = [t \in Threads |-> NoMsg]
    /\ ret = [t \in Threads |-> OK]

-----------------------------------------------------------------------------
(* msg_queue_init and msg_queue_destroy.                                   *)

(* Fault: an initialisation that trusts the memory it is given. *)
QueueInitKeepsIndices(made) ==
    /\ count' = 0
    /\ live' = IF made = {"lock", "cond"} THEN made ELSE {}
    /\ owner' = NoThread
    /\ waiting' = {}
    /\ UNCHANGED <<buffer, head, tail, qpc, arg, out, ret>>

(* The indices are reset first; "made" is the set of objects whose
   pthread_..._init succeeds.  A mutex made before cond_init fails is
   destroyed again, so a failure leaves neither object behind.             *)
QueueInit(made) ==
    /\ head' = 0
    /\ tail' = 0
    /\ count' = 0
    /\ live' = IF made = {"lock", "cond"} THEN made ELSE {}
    /\ owner' = NoThread
    /\ waiting' = {}
    /\ UNCHANGED <<buffer, qpc, arg, out, ret>>

QueueDestroy ==
    /\ live' = {}
    /\ UNCHANGED <<ring, owner, waiting, qpc, arg, out, ret>>

(* A NULL queue or message: -EINVAL before anything is touched. *)
RejectNull(t) ==
    /\ qpc[t] = "idle"
    /\ ret' = [ret EXCEPT ![t] = -EINVAL]
    /\ UNCHANGED <<ring, live, owner, waiting, qpc, arg, out>>

-----------------------------------------------------------------------------
(* The mutex.                                                              *)

Acquire(t) ==
    /\ owner = NoThread
    /\ owner' = t

Release(t) ==
    /\ owner = t
    /\ owner' = NoThread

-----------------------------------------------------------------------------
(* msg_queue_push.                                                         *)

CallPush(t, m) ==
    /\ Goto(t, "idle", "pushLock")
    /\ arg' = [arg EXCEPT ![t] = m]
    /\ UNCHANGED <<ring, live, owner, waiting, out, ret>>

(* Fault: a push that does not take the mutex. *)
PushLockSkipped(t) ==
    /\ Goto(t, "pushLock", "pushTest")
    /\ UNCHANGED <<ring, live, owner, waiting, arg, out, ret>>

PushLock(t) ==
    /\ Goto(t, "pushLock", "pushTest")
    /\ Acquire(t)
    /\ UNCHANGED <<ring, live, waiting, arg, out, ret>>

(* Fault: the full test is off by one. *)
PushFullEarly(t) ==
    /\ count + 1 >= Capacity
    /\ Goto(t, "pushTest", "idle")
    /\ Release(t)
    /\ arg' = [arg EXCEPT ![t] = NoMsg]
    /\ ret' = [ret EXCEPT ![t] = -ENOSPC]
    /\ UNCHANGED <<ring, live, waiting, out>>

(* Fault: a full ring makes push try again until there is room. *)
PushFullRetries(t) ==
    /\ count >= Capacity
    /\ Goto(t, "pushTest", "pushLock")
    /\ Release(t)
    /\ UNCHANGED <<ring, live, waiting, arg, out, ret>>

(* The ring is full: unlock and return -ENOSPC. *)
PushFull(t) ==
    /\ count >= Capacity
    /\ Goto(t, "pushTest", "idle")
    /\ Release(t)
    /\ arg' = [arg EXCEPT ![t] = NoMsg]
    /\ ret' = [ret EXCEPT ![t] = -ENOSPC]
    /\ UNCHANGED <<ring, live, waiting, out>>

(* Fault: the full test is missing. *)
PushStoreUnchecked(t) ==
    /\ Goto(t, "pushTest", "pushCount")
    /\ buffer' = [buffer EXCEPT ![tail] = arg[t]]
    /\ tail' = (tail + 1) % Capacity
    /\ UNCHANGED <<head, count, live, owner, waiting, arg, out, ret>>

PushStore(t) ==
    /\ count < Capacity
    /\ Goto(t, "pushTest", "pushCount")
    /\ buffer' = [buffer EXCEPT ![tail] = arg[t]]
    /\ tail' = (tail + 1) % Capacity
    /\ UNCHANGED <<head, count, live, owner, waiting, arg, out, ret>>

PushCount(t) ==
    /\ Goto(t, "pushCount", "pushSignal")
    /\ count' = count + 1
    /\ UNCHANGED <<buffer, head, tail, live, owner, waiting, arg, out, ret>>

(* Fault: the bell rings only when the queue was empty. *)
PushSignalOnlyFirst(t) ==
    /\ qpc[t] = "pushSignal"
    /\ IF waiting = {} \/ count > 1
       THEN /\ qpc' = [qpc EXCEPT ![t] = "pushUnlock"]
            /\ UNCHANGED waiting
       ELSE \E w \in waiting :
            /\ waiting' = waiting \ {w}
            /\ qpc' = [qpc EXCEPT ![t] = "pushUnlock", ![w] = "popLock"]
    /\ UNCHANGED <<ring, live, owner, arg, out, ret>>

(* pthread_cond_signal: wakes one sleeper, and is lost when there is none.
   A woken thread has to take the mutex again before it leaves cond_wait.  *)
PushSignal(t) ==
    /\ qpc[t] = "pushSignal"
    /\ \/ /\ waiting = {}
          /\ qpc' = [qpc EXCEPT ![t] = "pushUnlock"]
          /\ UNCHANGED waiting
       \/ \E w \in waiting :
          /\ waiting' = waiting \ {w}
          /\ qpc' = [qpc EXCEPT ![t] = "pushUnlock", ![w] = "popLock"]
    /\ UNCHANGED <<ring, live, owner, arg, out, ret>>

PushUnlock(t) ==
    /\ Goto(t, "pushUnlock", "idle")
    /\ Release(t)
    /\ arg' = [arg EXCEPT ![t] = NoMsg]
    /\ ret' = [ret EXCEPT ![t] = OK]
    /\ UNCHANGED <<ring, live, waiting, out>>

-----------------------------------------------------------------------------
(* msg_queue_pop.                                                          *)

CallPop(t) ==
    /\ Goto(t, "idle", "popLock")
    /\ UNCHANGED <<ring, live, owner, waiting, arg, out, ret>>

(* Both the first mutex_lock and the one inside cond_wait: either way the
   thread then evaluates the while condition.                              *)
PopLock(t) ==
    /\ Goto(t, "popLock", "popTest")
    /\ Acquire(t)
    /\ UNCHANGED <<ring, live, waiting, arg, out, ret>>

(* Fault: the sleeper keeps the mutex. *)
PopWaitKeepsLock(t) ==
    /\ count = 0
    /\ Goto(t, "popTest", "popWait")
    /\ waiting' = waiting \cup {t}
    /\ UNCHANGED <<ring, live, owner, arg, out, ret>>

(* pthread_cond_wait: unlocks and falls asleep in one step. *)
PopWait(t) ==
    /\ count = 0
    /\ Goto(t, "popTest", "popWait")
    /\ Release(t)
    /\ waiting' = waiting \cup {t}
    /\ UNCHANGED <<ring, live, arg, out, ret>>

(* A sleeper may be woken although nobody signalled. *)
SpuriousWakeup(t) ==
    /\ t \in waiting
    /\ waiting' = waiting \ {t}
    /\ Goto(t, "popWait", "popLock")
    /\ UNCHANGED <<ring, live, owner, arg, out, ret>>

(* Fault: the newest message first. *)
PopTakeNewest(t) ==
    /\ count # 0
    /\ Goto(t, "popTest", "popCount")
    /\ out' = [out EXCEPT ![t] = buffer[(tail + Capacity - 1) % Capacity]]
    /\ head' = (head + 1) % Capacity
    /\ UNCHANGED <<buffer, tail, count, live, owner, waiting, arg, ret>>

PopTake(t) ==
    /\ count # 0
    /\ Goto(t, "popTest", "popCount")
    /\ out' = [out EXCEPT ![t] = buffer[head]]
    /\ head' = (head + 1) % Capacity
    /\ UNCHANGED <<buffer, tail, count, live, owner, waiting, arg, ret>>

PopCount(t) ==
    /\ Goto(t, "popCount", "popUnlock")
    /\ count' = count - 1
    /\ UNCHANGED <<buffer, head, tail, live, owner, waiting, arg, out, ret>>

PopUnlock(t) ==
    /\ Goto(t, "popUnlock", "idle")
    /\ Release(t)
    /\ ret' = [ret EXCEPT ![t] = OK]
    /\ UNCHANGED <<ring, live, waiting, arg, out>>

-----------------------------------------------------------------------------
(* A queue with its clients.  The clients keep two rules POSIX imposes on  *)
(* them: nothing is pushed or popped outside init .. destroy, and a queue  *)
(* is initialised or destroyed only while no thread is inside it.          *)
(* LinuxApp shows that main keeps them.                                    *)

Push(t) ==
    \/ PushLock(t)
    \/ PushFull(t)
    \/ PushStore(t)
    \/ PushCount(t)
    \/ PushSignal(t)
    \/ PushUnlock(t)

Pop(t) ==
    \/ PopLock(t)
    \/ PopWait(t)
    \/ PopTake(t)
    \/ PopCount(t)
    \/ PopUnlock(t)

Lifecycle ==
    /\ Quiescent
    /\ \/ /\ live = {}
          /\ \E made \in SUBSET {"lock", "cond"} : QueueInit(made)
       \/ /\ Ready
          /\ QueueDestroy

Call(t) ==
    /\ Ready
    /\ \/ /\ t \in Producers
          /\ \E m \in Messages : CallPush(t, m)
       \/ /\ t \in Consumers
          /\ CallPop(t)
       \/ RejectNull(t)

Next ==
    \/ Lifecycle
    \/ \E t \in Threads :
        \/ Call(t)
        \/ Push(t)
        \/ Pop(t)
        \/ SpuriousWakeup(t)

Spec == Init /\ [][Next]_vars

(* The scheduler runs every thread that can run, and a thread that asks for
   the mutex again and again gets it some time.  Nothing forces a client to
   call, or a spurious wakeup to happen.                                   *)
Fairness ==
    \A t \in Threads :
        /\ WF_vars(Push(t) \/ Pop(t))
        /\ SF_vars(PushLock(t))
        /\ SF_vars(PopLock(t))

FairSpec == Spec /\ Fairness
-----------------------------------------------------------------------------
(* Properties.                                                             *)

(* Every variable keeps its type; in particular the indices stay inside
   q->buffer and the count inside 0 .. QUEUE_MAX_SIZE.                     *)
TypeOK ==
    /\ buffer \in [Slots -> Messages \cup {NoMsg}]
    /\ head \in Slots
    /\ tail \in Slots
    /\ count \in 0 .. Capacity
    /\ live \in {{}, {"lock", "cond"}}
    /\ owner \in Threads \cup {NoThread}
    /\ waiting \subseteq Consumers
    /\ qpc \in [Threads -> {"idle"} \cup PushPoints \cup PopPoints]
    /\ arg \in [Threads -> Messages \cup {NoMsg}]
    /\ out \in [Threads -> Messages \cup {NoMsg}]
    /\ ret \in [Threads -> {OK, -EINVAL, -ENOSPC}]

(* How far count lags behind the indices inside a critical section. *)
Lag ==
    IF owner = NoThread THEN 0
    ELSE CASE qpc[owner] = "pushCount" -> 1
           [] qpc[owner] = "popCount"  -> -1
           [] OTHER                    -> 0

(* The three fields of the ring agree: walking count messages on from head
   ends at tail, and whenever the mutex is free they agree exactly.  This
   is what the mutex around push (lines 44-54) and pop (63-72) is for.     *)
RingConsistent ==
    /\ count + Lag \in 0 .. Capacity
    /\ tail = (head + count + Lag) % Capacity

(* The consumers that are awake inside a pop and will look at the ring. *)
Awake == {t \in Consumers : qpc[t] \in {"popLock", "popTest"}}

Signalling == {t \in Threads : qpc[t] = "pushSignal"}

(* How many messages nobody has yet decided to take. *)
Unclaimed == IF Lag = -1 THEN count - 1 ELSE count

(* No wakeup is lost: while a consumer sleeps on q->cond, every message in
   the ring has a consumer that is awake and about to take it, or a push
   that has yet to ring the bell (line 53).                                *)
NoLostWakeup ==
    waiting # {} => Unclaimed <= Cardinality(Awake) + Cardinality(Signalling)

(* The messages in the ring, oldest first.  A push takes effect when count
   is raised, a pop when head moves on.                                    *)
Content ==
    [i \in 1 .. Unclaimed |-> buffer[(head + i - 1) % Capacity]]

Offered ==
    [t \in Threads |->
        IF qpc[t] \in {"pushLock", "pushTest", "pushCount"} THEN arg[t] ELSE NoMsg]

Fifo == INSTANCE BoundedFifo
            WITH isOpen <- Ready, queue <- Content, offered <- Offered, taken <- out

(* The ring, the mutex and the condition variable implement a bounded FIFO:
   messages leave in the order in which they entered, none is duplicated,
   overwritten or lost, and a push is refused only when QUEUE_MAX_SIZE
   messages are in the ring.                                               *)
FifoSpec == Fifo!Spec

(* A push never blocks on the state of the ring: it returns (line 48 or 55)
   however the other threads behave.                                       *)
PushReturns == \A t \in Producers : qpc[t] = "pushLock" ~> qpc[t] = "idle"

(* A consumer does not sleep on while there is something to take: it is
   woken, or another consumer empties the ring.                            *)
SleeperServed == \A t \in Consumers :
    (t \in waiting /\ count > 0) ~> (t \notin waiting \/ count = 0)

-----------------------------------------------------------------------------
(* The inductive invariant behind the theorems of MsgQueueProofs.          *)

(* The mutex is held exactly inside the critical sections. *)
MutexInv == \A t \in Threads : owner = t <=> qpc[t] \in Critical

(* The wait set of q->cond holds exactly the threads inside cond_wait. *)
SleepInv == \A t \in Threads : t \in waiting <=> qpc[t] = "popWait"

(* Only a producer is inside push, with a message until it is stored or
   refused, and only a consumer inside pop.                                *)
RoleInv == \A t \in Threads :
    /\ qpc[t] \in PushPoints => t \in Producers
    /\ qpc[t] \in {"pushLock", "pushTest", "pushCount"} => arg[t] \in Messages
    /\ qpc[t] \in PopPoints => t \in Consumers

(* What a thread read of count under the mutex still holds when it writes
   count.                                                                  *)
TestInv == \A t \in Threads :
    /\ qpc[t] = "pushCount" => count < Capacity
    /\ qpc[t] = "popCount" => count > 0

(* The slot past the counted messages holds what a push stored there until
   the push counts it.                                                     *)
StoredInv == \A t \in Threads :
    qpc[t] = "pushCount" => buffer[(head + count) % Capacity] = arg[t]

(* A thread is inside push or pop only while the queue is initialised. *)
UseInv == \A t \in Threads : qpc[t] # "idle" => Ready

(* Together with the ring these are preserved by every step. *)
IInv ==
    /\ TypeOK
    /\ MutexInv
    /\ SleepInv
    /\ RoleInv
    /\ TestInv
    /\ UseInv
    /\ RingConsistent
    /\ StoredInv
=============================================================================
