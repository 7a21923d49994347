---------------------------- MODULE BoundedFifo ----------------------------
(***************************************************************************)
(* What the message queue of core/msq_queue.c promises its callers, with   *)
(* no ring, lock or condition variable in sight: a bounded first-in        *)
(* first-out queue.  An offered message is appended, or refused because    *)
(* the queue is full; a taken message is always the oldest one.            *)
(***************************************************************************)
EXTENDS Naturals, Sequences

CONSTANTS Threads,   \* the threads that push and pop
          Messages,  \* the app_msg_t values
          Capacity,  \* QUEUE_MAX_SIZE
          NoMsg      \* "no message here"

VARIABLES isOpen,    \* the queue may be used (between init and destroy)
          queue,     \* the messages in it, oldest first
          offered,   \* offered[t]: the message t is pushing, not yet decided
          taken      \* taken[t]: the message t popped last

vars == <<isOpen, queue, offered, taken>>

Init ==
    /\ isOpen = FALSE
    /\ queue = <<>>
    /\ offered = [t \in Threads |-> NoMsg]
    /\ taken = [t \in Threads |-> NoMsg]

(* An initialisation empties the queue, whether or not it succeeds. *)
Initialise ==
    /\ ~isOpen
    /\ isOpen' \in BOOLEAN
    /\ queue' = <<>>
    /\ UNCHANGED <<offered, taken>>

Destroy ==
    /\ isOpen
    /\ isOpen' = FALSE
    /\ offered = [t \in Threads |-> NoMsg]
    /\ UNCHANGED <<queue, offered, taken>>

Offer(t, m) ==
    /\ isOpen
    /\ offered[t] = NoMsg
    /\ offered' = [offered EXCEPT ![t] = m]
    /\ UNCHANGED <<isOpen, queue, taken>>

Accept(t) ==
    /\ isOpen
    /\ offered[t] # NoMsg
    /\ Len(queue) < Capacity
    /\ queue' = Append(queue, offered[t])
    /\ offered' = [offered EXCEPT ![t] = NoMsg]
    /\ UNCHANGED <<isOpen, taken>>

(* The only way a message is refused: nothing is evicted to make room. *)
Refuse(t) ==
    /\ isOpen
    /\ offered[t] # NoMsg
    /\ Len(queue) = Capacity
    /\ offered' = [offered EXCEPT ![t] = NoMsg]
    /\ UNCHANGED <<isOpen, queue, taken>>

Take(t) ==
    /\ isOpen
    /\ queue # <<>>
    /\ taken' = [taken EXCEPT ![t] = Head(queue)]
    /\ queue' = Tail(queue)
    /\ UNCHANGED <<isOpen, offered>>

Next ==
    \/ Initialise
    \/ Destroy
    \/ \E t \in Threads :
        \/ \E m \in Messages : Offer(t, m)
        \/ Accept(t)
        \/ Refuse(t)
        \/ Take(t)

Spec == Init /\ [][Next]_vars
=============================================================================
