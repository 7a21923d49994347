---------------------------- MODULE RpmsgDriver ----------------------------
(***************************************************************************)
(* The RPMsg channel driver of drivers/rpmsg_driver.c: contexts that open  *)
(* a /dev/rpmsgX node, poll it, read and write datagrams, count what they  *)
(* did, and close it.  Each context is used by one thread; several threads *)
(* share the process's file descriptors, and the R5 core on the other side *)
(* sends, stops and restarts whenever it likes.                            *)
(*                                                                         *)
(* One action per system call: between two calls of a thread the R5 and    *)
(* the other threads run.                                                  *)
(***************************************************************************)
EXTENDS Integers, Sequences, FiniteSets

CONSTANTS Contexts,     \* the rpmsg_ctx_t in use
          Fds,          \* the file descriptors the process may have
          Paths,        \* the device nodes
          DefaultPath,  \* DEFAULT_DEV_PATH
          NoPath,       \* a NULL or empty path
          Datagrams,    \* what the R5 sends
          LengthOf,     \* LengthOf[d]: the bytes of a datagram
          MsgSize,      \* sizeof(app_msg_t)
          NoData,       \* what a buffer holds before anything was read
          CounterMod,   \* 2^32: tx_count, rx_count, err_count are uint32_t
          InboxSize     \* bound: datagrams the kernel holds for one channel

ASSUME DriverAssumption ==
    /\ Fds \subseteq Nat /\ IsFiniteSet(Fds)
    /\ DefaultPath \in Paths /\ NoPath \notin Paths
    /\ MsgSize \in Nat \ {0}
    /\ LengthOf \in [Datagrams -> Nat]
    /\ NoData \notin Datagrams
    /\ CounterMod \in Nat \ {0}

VARIABLES ctx,   \* the fields of each rpmsg_ctx_t
          file,  \* what each descriptor is open on
          up,    \* the nodes that exist, that is, the R5 is running
          call,  \* where each context is inside a call that takes several steps
          buf,   \* the datagram in each caller's buffer
          ret    \* what the last call on each context returned

vars == <<ctx, file, up, call, buf, ret>>

OK        == 0
ENOENT    == 2
EINTR     == 4
EIO       == 5
EAGAIN    == 11
EBUSY     == 16
EINVAL    == 22
EMFILE    == 24
EPIPE     == 32
ETIMEDOUT == 110

NoFd    == -1
Forever == -1  \* timeout_ms: wait for ever; 0 does not wait; 50 as in rpmsg.c

Waits == {Forever, 0, 50}

Unused == [path |-> NoPath, hung |-> FALSE, inbox |-> <<>>]

FreshContext == [fd |-> NoFd, path |-> DefaultPath, tx |-> 0, rx |-> 0, err |-> 0]

Idle == [at |-> "idle", op |-> "none", wait |-> 0]

IsOpen(c) == ctx[c].fd # NoFd

InUse == {f \in Fds : file[f].path # NoPath}

Up(n) == (n + 1) % CounterMod

Init ==
    /\ ctx = [c \in Contexts |-> FreshContext]
    /\ file = [f \in Fds |-> Unused]
    /\ up \in SUBSET Paths
    /\ call = [c \in Contexts |-> Idle]
    /\ buf = [c \in Contexts |-> NoData]
    /\ ret = [c \in Contexts |-> OK]

Return(c, r) ==
    /\ call' = [call EXCEPT ![c] = Idle]
    /\ ret' = [ret EXCEPT ![c] = r]

-----------------------------------------------------------------------------
(* The kernel and the R5 behind it. *)

(* What poll reports for a descriptor.  An endpoint whose R5 has gone
   reports an error, whatever it still holds.                              *)
PollError(f) == file[f].hung
PollIn(f)    == file[f].inbox # <<>>

(* An endpoint can be open once; the node is there while the R5 runs. *)
OpenErrors(p) ==
    {e \in {ENOENT, EBUSY, EMFILE} :
        \/ e = ENOENT /\ p \notin up
        \/ e = EBUSY  /\ \E f \in InUse : file[f].path = p /\ ~file[f].hung
        \/ e = EMFILE /\ InUse = Fds}

(* open returns the lowest descriptor that is free. *)
LowestFree(f) == f \in Fds \ InUse /\ \A g \in Fds \ InUse : f <= g

Start(p) ==
    /\ p \notin up
    /\ up' = up \cup {p}
    /\ UNCHANGED <<ctx, file, call, buf, ret>>

(* The node goes; descriptors still open on it stay dead for good. *)
Stop(p) ==
    /\ p \in up
    /\ up' = up \ {p}
    /\ file' = [f \in Fds |-> IF file[f].path = p
                              THEN [file[f] EXCEPT !.hung = TRUE] ELSE file[f]]
    /\ UNCHANGED <<ctx, call, buf, ret>>

Deliver(f, d) ==
    /\ f \in InUse
    /\ ~file[f].hung
    /\ Len(file[f].inbox) < InboxSize
    /\ file' = [file EXCEPT ![f].inbox = Append(@, d)]
    /\ UNCHANGED <<ctx, up, call, buf, ret>>

-----------------------------------------------------------------------------
(* rpmsg_ctx_init, rpmsg_open and rpmsg_close. *)

(* On a context that is not open: initialising an open one would lose its
   descriptor.  The worker initialises its own, once.                      *)
CtxInit(c) ==
    /\ call[c] = Idle
    /\ ~IsOpen(c)
    /\ ctx' = [ctx EXCEPT ![c] = FreshContext]
    /\ UNCHANGED <<file, up, call, buf, ret>>

Opening(p) ==
    [at |-> "open", op |-> IF p = NoPath THEN "default" ELSE "path", wait |-> 0]

Released(c) == IF IsOpen(c) THEN [file EXCEPT ![ctx[c].fd] = Unused] ELSE file

(* Fault: the descriptor of an open context is forgotten. *)
OpenCallLeaks(c, p) ==
    /\ call[c] = Idle
    /\ ctx' = [ctx EXCEPT ![c].fd = NoFd, ![c].path = IF p = NoPath THEN @ ELSE p]
    /\ call' = [call EXCEPT ![c] = Opening(p)]
    /\ UNCHANGED <<file, up, buf, ret>>

(* Lines 42-52: a channel that is open is closed first, then the path is
   chosen.  A NULL or empty path keeps the one the context has.            *)
OpenCall(c, p) ==
    /\ call[c] = Idle
    /\ file' = Released(c)
    /\ ctx' = [ctx EXCEPT
                 ![c].fd = NoFd,
                 ![c].path = IF p # NoPath THEN p
                             ELSE IF @ = NoPath THEN DefaultPath ELSE @]
    /\ call' = [call EXCEPT ![c] = Opening(p)]
    /\ UNCHANGED <<up, buf, ret>>

(* Lines 55-62: the open system call. *)
OpenFile(c) ==
    /\ call[c].at = "open"
    /\ \/ /\ OpenErrors(ctx[c].path) = {}
          /\ \E f \in Fds :
                /\ LowestFree(f)
                /\ file' = [file EXCEPT ![f] = [Unused EXCEPT !.path = ctx[c].path]]
                /\ ctx' = [ctx EXCEPT ![c].fd = f]
          /\ Return(c, OK)
       \/ \E e \in OpenErrors(ctx[c].path) :
          /\ ctx' = [ctx EXCEPT ![c].err = Up(@)]
          /\ Return(c, -e)
          /\ UNCHANGED file
    /\ UNCHANGED <<up, buf>>

Close(c) ==
    /\ call[c] = Idle
    /\ file' = Released(c)
    /\ ctx' = [ctx EXCEPT ![c].fd = NoFd]
    /\ UNCHANGED <<up, call, buf, ret>>

-----------------------------------------------------------------------------
(* rpmsg_poll_ready. *)

(* The results poll_ready can return at this moment, with the given timeout.
   A wait for ever has none while nothing happens: it blocks.              *)
PollResults(c, wait) ==
    LET f == ctx[c].fd
    IN  IF ~IsOpen(c) THEN {-EINVAL}
        ELSE IF PollError(f) THEN {-EIO}
        ELSE IF PollIn(f) THEN {1}
        ELSE {-EINTR} \cup (IF wait = Forever THEN {} ELSE {0})

PollReady(c, wait) ==
    /\ call[c] = Idle
    /\ \E r \in PollResults(c, wait) : ret' = [ret EXCEPT ![c] = r]
    /\ UNCHANGED <<ctx, file, up, call, buf>>

-----------------------------------------------------------------------------
(* rpmsg_read_raw and, on top of it, rpmsg_recv_msg.                       *)

(* Fault: anything less than a message is taken for a timeout. *)
RecvResultSwallows(r) ==
    IF r = MsgSize THEN OK
    ELSE IF r >= 0 THEN -ETIMEDOUT
    ELSE r

(* rpmsg_recv_msg turns what rpmsg_read_raw returned into its own result. *)
RecvResult(r) ==
    IF r = MsgSize THEN OK
    ELSE IF r = 0 THEN -ETIMEDOUT
    ELSE IF r < 0 THEN r
    ELSE -EIO

Result(c, r) == IF call[c].op = "recv" THEN RecvResult(r) ELSE r

(* The call: an unopened context is refused, a timeout of 0 goes straight
   to read.                                                                *)
ReadCall(c, op, wait) ==
    /\ call[c] = Idle
    /\ IF ~IsOpen(c)
       THEN ret' = [ret EXCEPT ![c] = -EINVAL] /\ UNCHANGED call
       ELSE /\ call' = [call EXCEPT ![c] = [at |-> IF wait = 0 THEN "read" ELSE "poll",
                                            op |-> op, wait |-> wait]]
            /\ UNCHANGED ret
    /\ UNCHANGED <<ctx, file, up, buf>>

(* Fault: POLLIN is not asked for (events left 0). *)
ReadPollNoEvents(c) ==
    /\ call[c].at = "poll"
    /\ \/ /\ PollError(ctx[c].fd)
          /\ Return(c, Result(c, -EIO))
       \/ /\ ~PollError(ctx[c].fd) /\ call[c].wait # Forever
          /\ Return(c, Result(c, 0))
    /\ UNCHANGED <<ctx, file, up, buf>>

(* Fault: a timeout falls through to the read. *)
ReadPollFallsThrough(c) ==
    /\ call[c].at = "poll"
    /\ \E r \in PollResults(c, call[c].wait) :
        \/ /\ r >= 0
           /\ call' = [call EXCEPT ![c].at = "read"]
           /\ UNCHANGED ret
        \/ /\ r < 0
           /\ Return(c, Result(c, r))
    /\ UNCHANGED <<ctx, file, up, buf>>

(* Lines 130-137: no data in time, and an error of poll, end the call. *)
ReadPoll(c) ==
    /\ call[c].at = "poll"
    /\ \E r \in PollResults(c, call[c].wait) :
        \/ /\ r > 0
           /\ call' = [call EXCEPT ![c].at = "read"]
           /\ UNCHANGED ret
        \/ /\ r <= 0
           /\ Return(c, Result(c, r))
    /\ UNCHANGED <<ctx, file, up, buf>>

(* Fault: the read is asked for more than the caller's buffer holds. *)
CopiedWhole(d) == LengthOf[d]

(* The bytes one read copies: what does not fit is cut off and gone. *)
Copied(d) == IF LengthOf[d] < MsgSize THEN LengthOf[d] ELSE MsgSize

(* Fault: what a dead channel still holds is read. *)
ReadFileOfDead(c) ==
    LET f == ctx[c].fd
    IN  /\ call[c].at = "read"
        /\ file[f].inbox # <<>>
        /\ file' = [file EXCEPT ![f].inbox = Tail(@)]
        /\ buf' = [buf EXCEPT ![c] = Head(file[f].inbox)]
        /\ Return(c, Result(c, Copied(Head(file[f].inbox))))
        /\ UNCHANGED <<ctx, up>>

(* Lines 139-151: the read system call on a non-blocking descriptor. *)
ReadFile(c) ==
    LET f == ctx[c].fd
        d == Head(file[f].inbox)
    IN  /\ call[c].at = "read"
        /\ \/ /\ file[f].hung
              /\ ctx' = [ctx EXCEPT ![c].err = Up(@)]
              /\ Return(c, Result(c, -EPIPE))
              /\ UNCHANGED <<file, buf>>
           \/ /\ ~file[f].hung /\ file[f].inbox = <<>>
              /\ Return(c, Result(c, 0))
              /\ UNCHANGED <<ctx, file, buf>>
           \/ /\ ~file[f].hung /\ file[f].inbox # <<>>
              /\ file' = [file EXCEPT ![f].inbox = Tail(@)]
              /\ buf' = [buf EXCEPT ![c] = d]
              /\ ctx' = [ctx EXCEPT ![c].rx = IF Copied(d) > 0 THEN Up(@) ELSE @]
              /\ Return(c, Result(c, Copied(d)))
        /\ UNCHANGED up

-----------------------------------------------------------------------------
(* rpmsg_write_raw, rpmsg_send_msg and the statistics. *)

SendResult(r) == IF r = MsgSize THEN OK ELSE IF r < 0 THEN r ELSE -EIO

(* A dead channel refuses a write; on a living one the shared buffers may
   all be in use, which a non-blocking descriptor reports.                 *)
WriteErrors(f) == IF file[f].hung THEN {EPIPE} ELSE {EAGAIN}

(* One write system call.  POSIX lets it take fewer bytes than it was given. *)
Write(c, op) ==
    LET answer(r) == IF op = "send" THEN SendResult(r) ELSE r
    IN  /\ call[c] = Idle
        /\ \/ /\ ~IsOpen(c)
              /\ ret' = [ret EXCEPT ![c] = -EINVAL]
              /\ UNCHANGED ctx
           \/ /\ IsOpen(c)
              /\ \E e \in WriteErrors(ctx[c].fd) : ret' = [ret EXCEPT ![c] = -e]
              /\ ctx' = [ctx EXCEPT ![c].err = Up(@)]
           \/ /\ IsOpen(c) /\ ~file[ctx[c].fd].hung
              /\ \E n \in 0 .. MsgSize : ret' = [ret EXCEPT ![c] = answer(n)]
              /\ ctx' = [ctx EXCEPT ![c].tx = Up(@)]
        /\ UNCHANGED <<file, up, call, buf>>

ResetStats(c) ==
    /\ call[c] = Idle
    /\ ctx' = [ctx EXCEPT ![c].tx = 0, ![c].rx = 0, ![c].err = 0]
    /\ UNCHANGED <<file, up, call, buf, ret>>

-----------------------------------------------------------------------------
Lifecycle(c) ==
    \/ CtxInit(c)
    \/ \E p \in Paths \cup {NoPath} : OpenCall(c, p)
    \/ OpenFile(c)
    \/ Close(c)

Receive(c) ==
    \/ \E wait \in Waits : PollReady(c, wait)
    \/ \E op \in {"read", "recv"}, wait \in Waits : ReadCall(c, op, wait)
    \/ ReadPoll(c)
    \/ ReadFile(c)

Transmit(c) ==
    \/ \E op \in {"write", "send"} : Write(c, op)
    \/ ResetStats(c)

R5 ==
    \/ \E p \in Paths : Start(p) \/ Stop(p)
    \/ \E f \in Fds, d \in Datagrams : Deliver(f, d)

Next ==
    \/ \E c \in Contexts : Lifecycle(c) \/ Receive(c) \/ Transmit(c)
    \/ R5

Spec == Init /\ [][Next]_vars

(* A call in progress is carried on with when the kernel can answer it;
   nobody has to start one, and the R5 has to do nothing.                  *)
FairSpec ==
    /\ Spec
    /\ \A c \in Contexts : WF_vars(OpenFile(c) \/ ReadPoll(c) \/ ReadFile(c))
-----------------------------------------------------------------------------
(* Properties. *)

Counters == 0 .. CounterMod - 1

ContextType == [fd: Fds \cup {NoFd}, path: Paths,
                tx: Counters, rx: Counters, err: Counters]

FileType == [path: Paths \cup {NoPath}, hung: BOOLEAN, inbox: Seq(Datagrams)]

CallType == [at: {"idle", "open", "poll", "read"},
             op: {"none", "default", "path", "read", "recv"}, wait: Waits]

Errnos == {ENOENT, EINTR, EIO, EAGAIN, EBUSY, EINVAL, EMFILE, EPIPE, ETIMEDOUT}

(* What a call of the driver may return: an error the system reported, or a
   number of bytes that the caller's app_msg_t holds.                      *)
Results == 0 .. MsgSize \cup {-e : e \in Errnos}

(* The type invariant: among others, no context ever names a NULL path and
   no call claims more bytes than its buffer has (lines 139-151).          *)
TypeOK ==
    /\ ctx \in [Contexts -> ContextType]
    /\ file \in [Fds -> FileType]
    /\ up \subseteq Paths
    /\ call \in [Contexts -> CallType]
    /\ buf \in [Contexts -> Datagrams \cup {NoData}]
    /\ ret \in [Contexts -> Results]

(* No descriptor is leaked, shared or kept after it was closed, over any
   sequence of opens, failed opens, reopens and closes of any contexts: an
   open context owns the descriptor it names, which is open on the path it
   names, and every open descriptor has exactly one owner.                 *)
DescriptorsOwned ==
    /\ \A c \in Contexts : IsOpen(c) =>
        ctx[c].fd \in InUse /\ file[ctx[c].fd].path = ctx[c].path
    /\ \A f \in InUse : \E c \in Contexts : ctx[c].fd = f
    /\ \A c, d \in Contexts : IsOpen(c) /\ ctx[c].fd = ctx[d].fd => c = d

(* A context is inside a read only while it is open, and after a wait that
   ended in "ready" (lines 130-137) the read finds the data the wait saw, or
   a channel that has died since: it never reports that nothing came.      *)
ReadyMeansData ==
    \A c \in Contexts : call[c].at \in {"poll", "read"} =>
        /\ IsOpen(c)
        /\ call[c].at = "read" /\ call[c].wait # 0 =>
            PollIn(ctx[c].fd) \/ PollError(ctx[c].fd)

(* The step that ends a recv, and what it has done with the channel. *)
RecvEnds(c) == call[c].op = "recv" /\ call[c].at # "idle" /\ call'[c] = Idle

MessageTaken(c) ==
    LET old == file[ctx[c].fd].inbox
    IN  /\ old # <<>>
        /\ LengthOf[Head(old)] >= MsgSize
        /\ buf'[c] = Head(old)
        /\ file'[ctx[c].fd].inbox = Tail(old)

NoByteTaken(c) ==
    \/ file'[ctx[c].fd] = file[ctx[c].fd]
    \/ LengthOf[Head(file[ctx[c].fd].inbox)] = 0

AnswersHonestly ==
    \A c \in Contexts : RecvEnds(c) =>
        /\ ret'[c] = OK <=> MessageTaken(c)
        /\ ret'[c] = -ETIMEDOUT => NoByteTaken(c)

(* What rpmsg_recv_msg answers is what happened (lines 174-183): 0 if and
   only if the oldest datagram, one that fills an app_msg_t, has moved into
   the caller's buffer, and a timeout only if no byte was taken from the
   channel.                                                                *)
RecvHonest == [][AnswersHonestly]_vars

(* A wait ends: after its timeout, or as soon as the channel has something
   to read, even when it was to wait for ever.                             *)
WaitEnds ==
    \A c \in Contexts :
        (/\ call[c].at = "poll"
         /\ call[c].wait # Forever \/ PollIn(ctx[c].fd)) ~> call[c].at # "poll"

(* rpmsg_driver.h:48: rx_count is the "total number of messages received
   successfully".  A recv_msg that counts one has succeeded.               *)
RxCountsMessages ==
    [][\A c \in Contexts :
        (call[c].op = "recv" /\ ctx'[c].rx # ctx[c].rx) => ret'[c] = OK]_vars

(* rpmsg_driver.h:65: "if NULL, /dev/rpmsg0 is used". *)
NullPathIsDefault ==
    \A c \in Contexts :
        (call[c].at = "open" /\ call[c].op = "default") => ctx[c].path = DefaultPath

-----------------------------------------------------------------------------
(* The inductive invariant behind the theorems of RpmsgDriverProofs.       *)

(* A context that is about to open is closed, one that reads is open. *)
StepInv == \A c \in Contexts :
    /\ call[c].at = "open" => ~IsOpen(c) /\ call[c].op \in {"default", "path"}
    /\ call[c].at \in {"poll", "read"} => IsOpen(c)

IInv == TypeOK /\ DescriptorsOwned /\ StepInv /\ ReadyMeansData
=============================================================================
