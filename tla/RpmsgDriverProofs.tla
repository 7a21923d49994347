------------------------- MODULE RpmsgDriverProofs -------------------------
(***************************************************************************)
(* Descriptor ownership in the driver, for any number of contexts, nodes   *)
(* and descriptors.                                                        *)
(***************************************************************************)
EXTENDS RpmsgDriver, SequenceTheorems, TLAPS

-----------------------------------------------------------------------------
(* Types. *)

LEMMA UnusedType == Unused \in FileType
  BY DEF Unused, FileType

LEMMA FreshType == FreshContext \in ContextType
  BY DriverAssumption DEF FreshContext, ContextType, Counters

LEMMA IdleType == Idle \in CallType
  BY DEF Idle, CallType, Waits

LEMMA UpType == \A n \in Counters : Up(n) \in Counters
  BY DriverAssumption DEF Up, Counters

(* Every answer of the system is a result a call may return. *)
LEMMA AnswerTypes ==
    /\ -ENOENT \in Results /\ -EINTR \in Results /\ -EIO \in Results
    /\ -EAGAIN \in Results /\ -EBUSY \in Results /\ -EINVAL \in Results
    /\ -EMFILE \in Results /\ -EPIPE \in Results /\ -ETIMEDOUT \in Results
    /\ 0 \in Results /\ 1 \in Results /\ OK \in Results
    /\ 0 .. MsgSize \subseteq Results
<1>1. \A e \in Errnos : -e \in Results
  BY DEF Results
<1>2. 0 \in 0 .. MsgSize /\ 1 \in 0 .. MsgSize /\ 0 .. MsgSize \subseteq Results
  BY DriverAssumption DEF Results
<1> QED BY <1>1, <1>2 DEF Errnos, OK

LEMMA InitType == Init => TypeOK
  BY UnusedType, FreshType, IdleType, AnswerTypes DEF Init, TypeOK

(* Writing one field of a context keeps its type. *)
LEMMA ContextUpdate ==
    ASSUME NEW r \in ContextType
    PROVE  /\ \A f \in Fds \cup {NoFd} : [r EXCEPT !.fd = f] \in ContextType
           /\ \A f \in Fds \cup {NoFd}, p \in Paths :
                [r EXCEPT !.fd = f, !.path = p] \in ContextType
           /\ \A n \in Counters : /\ [r EXCEPT !.tx = n] \in ContextType
                                  /\ [r EXCEPT !.rx = n] \in ContextType
                                  /\ [r EXCEPT !.err = n] \in ContextType
           /\ \A n \in Counters :
                [r EXCEPT !.tx = n, !.rx = n, !.err = n] \in ContextType
  BY DEF ContextType

LEMMA CtxInitType == ASSUME TypeOK, NEW c \in Contexts, CtxInit(c) PROVE TypeOK'
  BY FreshType DEF TypeOK, CtxInit

LEMMA OpenCallType ==
    ASSUME TypeOK, NEW c \in Contexts, NEW p \in Paths \cup {NoPath}, OpenCall(c, p)
    PROVE TypeOK'
<1>1. file' \in [Fds -> FileType]
  BY UnusedType DEF TypeOK, OpenCall, Released
<1>2. ctx' \in [Contexts -> ContextType]
  <2>1. PICK q \in Paths :
            ctx' = [ctx EXCEPT ![c] = [ctx[c] EXCEPT !.fd = NoFd, !.path = q]]
    BY DriverAssumption DEF TypeOK, OpenCall, ContextType
  <2> QED BY <2>1, ContextUpdate DEF TypeOK
<1>3. call' \in [Contexts -> CallType]
  BY DEF TypeOK, OpenCall, Opening, CallType, Waits
<1> QED BY <1>1, <1>2, <1>3 DEF TypeOK, OpenCall

LEMMA OpenFileType == ASSUME TypeOK, NEW c \in Contexts, OpenFile(c) PROVE TypeOK'
<1>1. \A n \in Counters : [ctx[c] EXCEPT !.err = n] \in ContextType
  BY ContextUpdate DEF TypeOK
<1>2. ctx[c].err \in Counters /\ ctx[c].path \in Paths
  BY DEF TypeOK, ContextType
<1>3. ctx' \in [Contexts -> ContextType]
  <2>1. ASSUME NEW f \in Fds, ctx' = [ctx EXCEPT ![c].fd = f]
        PROVE  ctx' \in [Contexts -> ContextType]
    BY <2>1, ContextUpdate DEF TypeOK
  <2>2. ASSUME ctx' = [ctx EXCEPT ![c].err = Up(@)]
        PROVE  ctx' \in [Contexts -> ContextType]
    <3>1. [ctx[c] EXCEPT !.err = Up(@)] \in ContextType
      BY <1>1, <1>2, UpType
    <3> QED BY <2>2, <3>1 DEF TypeOK
  <2> QED BY <2>1, <2>2 DEF OpenFile
<1>4. file' \in [Fds -> FileType]
  <2>1. [Unused EXCEPT !.path = ctx[c].path] \in FileType
    BY <1>2, UnusedType DEF FileType
  <2> QED BY <2>1 DEF TypeOK, OpenFile
<1>5. call' \in [Contexts -> CallType] /\ ret' \in [Contexts -> Results]
  <2>1. \A e \in OpenErrors(ctx[c].path) : -e \in Results
    BY AnswerTypes DEF OpenErrors
  <2>2. \E r \in Results : Return(c, r)
    BY <2>1, AnswerTypes DEF OpenFile
  <2> QED BY <2>2, IdleType DEF TypeOK, Return
<1> QED BY <1>3, <1>4, <1>5 DEF TypeOK, OpenFile

LEMMA CloseType == ASSUME TypeOK, NEW c \in Contexts, Close(c) PROVE TypeOK'
<1>1. file' \in [Fds -> FileType]
  BY UnusedType DEF TypeOK, Close, Released
<1>2. ctx' \in [Contexts -> ContextType]
  BY ContextUpdate DEF TypeOK, Close
<1> QED BY <1>1, <1>2 DEF TypeOK, Close

LEMMA PollResultsType == \A c, wait : PollResults(c, wait) \subseteq Results
  BY AnswerTypes DEF PollResults

LEMMA ResultType ==
    ASSUME NEW c, NEW r \in Results
    PROVE  Result(c, r) \in Results
  BY AnswerTypes DEF Result, RecvResult

LEMMA ReceiveType == ASSUME TypeOK, NEW c \in Contexts, Receive(c), StepInv PROVE TypeOK'
<1>1. ASSUME NEW wait \in Waits, PollReady(c, wait) PROVE TypeOK'
  BY <1>1, PollResultsType DEF TypeOK, PollReady
<1>2. ASSUME NEW op \in {"read", "recv"}, NEW wait \in Waits, ReadCall(c, op, wait)
      PROVE  TypeOK'
  <2>1. call' \in [Contexts -> CallType]
    BY <1>2 DEF TypeOK, ReadCall, CallType
  <2>2. ret' \in [Contexts -> Results]
    BY <1>2, AnswerTypes DEF TypeOK, ReadCall
  <2> QED BY <1>2, <2>1, <2>2 DEF TypeOK, ReadCall
<1>3. ASSUME ReadPoll(c) PROVE TypeOK'
  <2>1. call' \in [Contexts -> CallType]
    <3>1. call[c] \in CallType
      BY DEF TypeOK
    <3>2. [call[c] EXCEPT !.at = "read"] \in CallType
      BY <3>1 DEF CallType
    <3>3. \/ call' = [call EXCEPT ![c] = Idle]
          \/ call' = [call EXCEPT ![c] = [call[c] EXCEPT !.at = "read"]]
      BY <1>3 DEF ReadPoll, Return
    <3> QED BY <3>2, <3>3, IdleType DEF TypeOK
  <2>2. ret' \in [Contexts -> Results]
    <3>1. PICK r \in PollResults(c, call[c].wait) :
              ret' = ret \/ ret' = [ret EXCEPT ![c] = Result(c, r)]
      BY <1>3 DEF ReadPoll, Return
    <3>2. r \in Results
      BY PollResultsType
    <3>3. Result(c, r) \in Results
      BY <3>2, ResultType
    <3> QED BY <3>1, <3>3 DEF TypeOK
  <2> QED BY <1>3, <2>1, <2>2 DEF TypeOK, ReadPoll
<1>4. ASSUME ReadFile(c) PROVE TypeOK'
  <2> DEFINE f == ctx[c].fd
             d == Head(file[f].inbox)
  <2>1. f \in Fds /\ file[f] \in FileType
    BY <1>4 DEF TypeOK, ContextType, ReadFile, StepInv, IsOpen
  <2>2. file[f].inbox \in Seq(Datagrams)
    BY <2>1 DEF FileType
  <2>3. ctx' \in [Contexts -> ContextType]
    <3>1. /\ ctx[c] \in ContextType
          /\ ctx[c].err \in Counters /\ ctx[c].rx \in Counters
      BY DEF TypeOK, ContextType
    <3>2. \A n \in Counters : /\ [ctx EXCEPT ![c].err = n] \in [Contexts -> ContextType]
                              /\ [ctx EXCEPT ![c].rx = n] \in [Contexts -> ContextType]
      BY <3>1, ContextUpdate DEF TypeOK
    <3>3. \/ ctx' = ctx
          \/ \E n \in Counters : ctx' = [ctx EXCEPT ![c].err = n]
          \/ \E n \in Counters : ctx' = [ctx EXCEPT ![c].rx = n]
      BY <1>4, <3>1, UpType DEF ReadFile
    <3> QED BY <3>2, <3>3 DEF TypeOK
  <2>4. ASSUME file[f].inbox # <<>>
        PROVE  /\ d \in Datagrams
               /\ [file EXCEPT ![f].inbox = Tail(@)] \in [Fds -> FileType]
    <3>1. d \in Datagrams /\ Tail(file[f].inbox) \in Seq(Datagrams)
      BY <2>2, <2>4, HeadTailProperties
    <3>2. [file[f] EXCEPT !.inbox = Tail(@)] \in FileType
      BY <2>1, <3>1 DEF FileType
    <3> QED BY <3>1, <3>2 DEF TypeOK
  <2>5. file' \in [Fds -> FileType] /\ buf' \in [Contexts -> Datagrams \cup {NoData}]
    <3>1. CASE file' = file /\ buf' = buf
      BY <3>1 DEF TypeOK
    <3>2. CASE /\ file[f].inbox # <<>>
               /\ file' = [file EXCEPT ![f].inbox = Tail(@)]
               /\ buf' = [buf EXCEPT ![c] = d]
      BY <2>4, <3>2 DEF TypeOK
    <3> QED BY <1>4, <3>1, <3>2 DEF ReadFile
  <2>6. call' \in [Contexts -> CallType]
    <3>1. call' = [call EXCEPT ![c] = Idle]
      BY <1>4 DEF ReadFile, Return
    <3> QED BY <3>1, IdleType DEF TypeOK
  <2>7. ret' \in [Contexts -> Results]
    <3>1. file[f].inbox # <<>> => Copied(d) \in Results
      <4>1. ASSUME file[f].inbox # <<>> PROVE LengthOf[d] \in Nat
        BY <2>4, <4>1, DriverAssumption
      <4>2. \A n \in Nat : (IF n < MsgSize THEN n ELSE MsgSize) \in 0 .. MsgSize
        BY DriverAssumption
      <4> QED BY <4>1, <4>2, AnswerTypes DEF Copied
    <3>2. PICK r \in Results : ret' = [ret EXCEPT ![c] = Result(c, r)]
      <4>1. \/ ret' = [ret EXCEPT ![c] = Result(c, -EPIPE)]
            \/ ret' = [ret EXCEPT ![c] = Result(c, 0)]
            \/ file[f].inbox # <<>> /\ ret' = [ret EXCEPT ![c] = Result(c, Copied(d))]
        BY <1>4 DEF ReadFile, Return
      <4> QED BY <3>1, <4>1, AnswerTypes
    <3> QED BY <3>2, ResultType DEF TypeOK
  <2> QED BY <1>4, <2>3, <2>5, <2>6, <2>7 DEF TypeOK, ReadFile
<1> QED BY <1>1, <1>2, <1>3, <1>4 DEF Receive

LEMMA TransmitType == ASSUME TypeOK, NEW c \in Contexts, Transmit(c) PROVE TypeOK'
<1>1. /\ ctx[c] \in ContextType
      /\ ctx[c].err \in Counters /\ ctx[c].tx \in Counters /\ 0 \in Counters
  BY DriverAssumption DEF TypeOK, ContextType, Counters
<1>2. ASSUME NEW op, Write(c, op) PROVE TypeOK'
  <2>1. ctx' \in [Contexts -> ContextType]
    <3>1. \A n \in Counters : /\ [ctx EXCEPT ![c].err = n] \in [Contexts -> ContextType]
                              /\ [ctx EXCEPT ![c].tx = n] \in [Contexts -> ContextType]
      BY <1>1, ContextUpdate DEF TypeOK
    <3>2. \/ ctx' = ctx
          \/ \E n \in Counters : ctx' = [ctx EXCEPT ![c].err = n]
          \/ \E n \in Counters : ctx' = [ctx EXCEPT ![c].tx = n]
      BY <1>1, <1>2, UpType DEF Write
    <3> QED BY <3>1, <3>2 DEF TypeOK
  <2>2. ret' \in [Contexts -> Results]
    <3>1. PICK r \in Results : ret' = [ret EXCEPT ![c] = r]
      <4>1. \A n \in 0 .. MsgSize : (IF op = "send" THEN SendResult(n) ELSE n) \in Results
        BY AnswerTypes DEF SendResult
      <4>2. \A e \in WriteErrors(ctx[c].fd) : -e \in Results
        BY AnswerTypes DEF WriteErrors
      <4> QED BY <1>2, <4>1, <4>2, AnswerTypes DEF Write
    <3> QED BY <3>1 DEF TypeOK
  <2> QED BY <1>2, <2>1, <2>2 DEF TypeOK, Write
<1>3. ASSUME ResetStats(c) PROVE TypeOK'
  <2>1. [ctx[c] EXCEPT !.tx = 0, !.rx = 0, !.err = 0] \in ContextType
    BY <1>1, ContextUpdate
  <2> QED BY <1>3, <2>1 DEF TypeOK, ResetStats
<1> QED BY <1>2, <1>3 DEF Transmit

LEMMA R5Type == ASSUME TypeOK, R5 PROVE TypeOK'
<1>1. ASSUME NEW p \in Paths, Start(p) PROVE TypeOK'
  BY <1>1 DEF TypeOK, Start
<1>2. ASSUME NEW p \in Paths, Stop(p) PROVE TypeOK'
  <2>1. \A f \in Fds : [file[f] EXCEPT !.hung = TRUE] \in FileType
    BY DEF TypeOK, FileType
  <2> QED BY <1>2, <2>1 DEF TypeOK, Stop
<1>3. ASSUME NEW f \in Fds, NEW d \in Datagrams, Deliver(f, d) PROVE TypeOK'
  <2>1. Append(file[f].inbox, d) \in Seq(Datagrams)
    BY DEF TypeOK, FileType
  <2>2. [file[f] EXCEPT !.inbox = Append(@, d)] \in FileType
    BY <2>1 DEF TypeOK, FileType
  <2> QED BY <1>3, <2>2 DEF TypeOK, Deliver
<1> QED BY <1>1, <1>2, <1>3 DEF R5

LEMMA NextType == ASSUME TypeOK, StepInv, [Next]_vars PROVE TypeOK'
<1>1. CASE UNCHANGED vars
  BY <1>1 DEF vars, TypeOK
<1> QED
  BY <1>1, CtxInitType, OpenCallType, OpenFileType, CloseType, ReceiveType,
     TransmitType, R5Type
     DEF Next, Lifecycle

-----------------------------------------------------------------------------
(* Ownership. *)

LEMMA InitOwned == Init => DescriptorsOwned /\ StepInv /\ ReadyMeansData
  BY DEF Init, DescriptorsOwned, StepInv, ReadyMeansData, IsOpen, FreshContext, Idle,
         InUse, Unused

(* Steps that open and close nothing. *)
LEMMA OwnedFrame ==
    ASSUME DescriptorsOwned,
           \A c \in Contexts : ctx'[c].fd = ctx[c].fd /\ ctx'[c].path = ctx[c].path,
           \A f \in Fds : file'[f].path = file[f].path
    PROVE  DescriptorsOwned'
  BY DEF DescriptorsOwned, IsOpen, InUse

(* What a context gives back is what it owned. *)
LEMMA ReleasedOwned ==
    ASSUME TypeOK, DescriptorsOwned, NEW c \in Contexts,
           file' = Released(c), ctx'[c].fd = NoFd,
           \A d \in Contexts \ {c} : ctx'[d] = ctx[d]
    PROVE  DescriptorsOwned'
<1>1. InUse' = InUse \ {ctx[c].fd}
  <2>1. CASE IsOpen(c)
    <3>1. ctx[c].fd \in Fds
      BY <2>1 DEF DescriptorsOwned, InUse
    <3>2. \A f \in Fds : file'[f] = IF f = ctx[c].fd THEN Unused ELSE file[f]
      BY <2>1, <3>1 DEF TypeOK, Released
    <3> QED BY <3>1, <3>2 DEF InUse, Unused
  <2>2. CASE ~IsOpen(c)
    <3>1. NoFd \notin Fds
      BY DriverAssumption DEF NoFd
    <3> QED BY <2>2, <3>1 DEF Released, InUse, IsOpen
  <2> QED BY <2>1, <2>2
<1>2. \A f \in Fds \ {ctx[c].fd} : file'[f] = file[f]
  BY DEF TypeOK, Released
<1>3. ASSUME NEW d \in Contexts, IsOpen(d)' PROVE d # c /\ IsOpen(d) /\ ctx[d].fd # ctx[c].fd
  BY <1>3 DEF IsOpen, DescriptorsOwned
<1>4. \A f \in Fds : f # NoFd
  BY DriverAssumption DEF NoFd
<1> QED BY <1>1, <1>2, <1>3, <1>4 DEF DescriptorsOwned, IsOpen, InUse

LEMMA NextOwned ==
    ASSUME TypeOK, DescriptorsOwned, StepInv, [Next]_vars
    PROVE  DescriptorsOwned'
<1>1. ASSUME NEW c \in Contexts, CtxInit(c) PROVE DescriptorsOwned'
  BY <1>1 DEF CtxInit, DescriptorsOwned, IsOpen, FreshContext, InUse, TypeOK
<1>2. ASSUME NEW c \in Contexts, NEW p \in Paths \cup {NoPath}, OpenCall(c, p)
      PROVE  DescriptorsOwned'
  BY <1>2, ReleasedOwned DEF OpenCall, TypeOK, ContextType
<1>3. ASSUME NEW c \in Contexts, Close(c) PROVE DescriptorsOwned'
  BY <1>3, ReleasedOwned DEF Close, TypeOK, ContextType
<1>4. ASSUME NEW c \in Contexts, OpenFile(c) PROVE DescriptorsOwned'
  <2>1. ~IsOpen(c) /\ ctx[c] \in ContextType
    BY <1>4 DEF OpenFile, StepInv, TypeOK
  <2>2. ASSUME NEW f \in Fds, LowestFree(f),
               file' = [file EXCEPT ![f] = [Unused EXCEPT !.path = ctx[c].path]],
               ctx' = [ctx EXCEPT ![c].fd = f],
               ctx[c].path \in up
        PROVE  DescriptorsOwned'
    <3>1. f \notin InUse /\ f # NoFd
      BY <2>2, DriverAssumption DEF LowestFree, NoFd
    <3>2. InUse' = InUse \cup {f}
      BY <2>2, DriverAssumption DEF TypeOK, InUse, Unused, ContextType
    <3>3. /\ ctx'[c].fd = f /\ ctx'[c].path = ctx[c].path
          /\ file'[f].path = ctx[c].path
      BY <2>1, <2>2 DEF TypeOK, ContextType, Unused
    <3>4. /\ \A d \in Contexts \ {c} : ctx'[d] = ctx[d]
          /\ \A g \in Fds \ {f} : file'[g] = file[g]
      BY <2>2 DEF TypeOK
    <3>5. InUse \subseteq Fds
      BY DEF InUse
    <3>6. ASSUME NEW d \in Contexts, IsOpen(d)', d # c
          PROVE  IsOpen(d) /\ ctx[d].fd \in InUse \ {f} /\ ctx'[d] = ctx[d]
      BY <3>1, <3>4, <3>6 DEF DescriptorsOwned, IsOpen
    <3>7. ASSUME NEW d \in Contexts, IsOpen(d)'
          PROVE  ctx'[d].fd \in InUse' /\ file'[ctx'[d].fd].path = ctx'[d].path
      <4>1. CASE d = c
        BY <3>2, <3>3, <4>1
      <4>2. CASE d # c
        BY <3>2, <3>4, <3>5, <3>6, <3>7, <4>2 DEF DescriptorsOwned
      <4> QED BY <4>1, <4>2
    <3>8. ASSUME NEW g \in InUse' PROVE \E d \in Contexts : ctx'[d].fd = g
      <4>1. CASE g = f
        BY <3>3, <4>1
      <4>2. CASE g # f
        <5>1. PICK d \in Contexts : ctx[d].fd = g
          BY <3>2, <3>8, <4>2 DEF DescriptorsOwned
        <5>2. d # c
          BY <2>1, <3>2, <3>5, <3>8, <5>1, DriverAssumption DEF IsOpen, NoFd
        <5> QED BY <3>4, <5>1, <5>2
      <4> QED BY <4>1, <4>2
    <3>9. ASSUME NEW d \in Contexts, NEW e \in Contexts, IsOpen(d)', ctx'[d].fd = ctx'[e].fd
          PROVE  d = e
      <4>1. IsOpen(e)'
        BY <3>9 DEF IsOpen
      <4> QED BY <3>3, <3>6, <3>9, <4>1 DEF DescriptorsOwned
    <3> QED BY <3>7, <3>8, <3>9 DEF DescriptorsOwned
  <2>3. CASE UNCHANGED file /\ ctx' = [ctx EXCEPT ![c].err = Up(@)]
    BY <2>1, <2>3, OwnedFrame DEF TypeOK, ContextType
  <2>4. OpenErrors(ctx[c].path) = {} => ctx[c].path \in up
    BY DEF OpenErrors, ENOENT, EBUSY, EMFILE
  <2> QED BY <1>4, <2>2, <2>3, <2>4 DEF OpenFile
<1>5. ASSUME NEW c \in Contexts, Receive(c) PROVE DescriptorsOwned'
  <2>1. ASSUME NEW op, NEW wait, PollReady(c, wait) \/ ReadCall(c, op, wait) \/ ReadPoll(c)
        PROVE  DescriptorsOwned'
    BY <2>1, OwnedFrame DEF PollReady, ReadCall, ReadPoll
  <2>2. ASSUME ReadFile(c) PROVE DescriptorsOwned'
    <3>1. \A d \in Contexts : ctx'[d].fd = ctx[d].fd /\ ctx'[d].path = ctx[d].path
      <4>1. PICK n : \/ ctx' = ctx
                     \/ ctx' = [ctx EXCEPT ![c].err = n]
                     \/ ctx' = [ctx EXCEPT ![c].rx = n]
        BY <2>2 DEF ReadFile
      <4>2. \A d \in Contexts : ctx[d] \in ContextType
        BY DEF TypeOK
      <4>3. ctx \in [Contexts -> ContextType]
        BY DEF TypeOK
      <4> QED BY <4>1, <4>2, <4>3 DEF ContextType
    <3>2. \A f \in Fds : file'[f].path = file[f].path
      <4>1. PICK b : file' = file \/ file' = [file EXCEPT ![ctx[c].fd].inbox = b]
        BY <2>2 DEF ReadFile
      <4>2. \A f \in Fds : file[f] \in FileType
        BY DEF TypeOK
      <4>3. file \in [Fds -> FileType]
        BY DEF TypeOK
      <4> QED BY <4>1, <4>2, <4>3 DEF FileType
    <3> QED BY <3>1, <3>2, OwnedFrame
  <2> QED BY <1>5, <2>1, <2>2 DEF Receive
<1>6. ASSUME NEW c \in Contexts, Transmit(c) PROVE DescriptorsOwned'
  <2>1. \A d \in Contexts : ctx'[d].fd = ctx[d].fd /\ ctx'[d].path = ctx[d].path
    <3>1. PICK e, t, r : \/ ctx' = ctx
                         \/ ctx' = [ctx EXCEPT ![c].err = e]
                         \/ ctx' = [ctx EXCEPT ![c].tx = t]
                         \/ ctx' = [ctx EXCEPT ![c].tx = t, ![c].rx = r, ![c].err = e]
      BY <1>6 DEF Transmit, Write, ResetStats
    <3>2. ctx \in [Contexts -> ContextType] /\ ctx[c] \in ContextType
      BY DEF TypeOK
    <3> QED BY <3>1, <3>2 DEF ContextType
  <2>2. file' = file
    BY <1>6 DEF Transmit, Write, ResetStats
  <2> QED BY <2>1, <2>2, OwnedFrame
<1>7. CASE R5
  <2>1. ctx' = ctx
    BY <1>7 DEF R5, Start, Stop, Deliver
  <2>2. \A f \in Fds : file'[f].path = file[f].path
    <3>1. \A f \in Fds : \/ file'[f] = file[f]
                         \/ file'[f] = [file[f] EXCEPT !.hung = TRUE]
                         \/ \E q : file'[f] = [file[f] EXCEPT !.inbox = q]
      <4>1. CASE file' = file
        BY <4>1
      <4>2. ASSUME NEW p, Stop(p) PROVE <3>1
        BY <4>2 DEF Stop
      <4>3. ASSUME NEW g \in Fds, NEW d, Deliver(g, d) PROVE <3>1
        <5>1. PICK q : file' = [file EXCEPT ![g].inbox = q]
          BY <4>3 DEF Deliver
        <5> QED BY <5>1 DEF TypeOK
      <4> QED BY <1>7, <4>1, <4>2, <4>3 DEF R5, Start
    <3>2. \A f \in Fds : file[f] \in FileType
      BY DEF TypeOK
    <3> QED BY <3>1, <3>2 DEF FileType
  <2> QED BY <2>1, <2>2, OwnedFrame
<1>8. CASE UNCHANGED vars
  BY <1>8, OwnedFrame DEF vars
<1> QED
  BY <1>1, <1>2, <1>3, <1>4, <1>5, <1>6, <1>7, <1>8 DEF Next, Lifecycle

-----------------------------------------------------------------------------
(* Calls in progress. *)

(* Steps after which c is at a place of its own, and the others as before. *)
LEMMA StepFrame ==
    ASSUME StepInv, NEW c \in Contexts,
           \A d \in Contexts \ {c} : ctx'[d].fd = ctx[d].fd /\ call'[d] = call[d],
           call'[c].at = "open" => ctx'[c].fd = NoFd /\ call'[c].op \in {"default", "path"},
           call'[c].at \in {"poll", "read"} => ctx'[c].fd # NoFd
    PROVE  StepInv'
  BY DEF StepInv, IsOpen

LEMMA NextStep == ASSUME TypeOK, StepInv, [Next]_vars PROVE StepInv'
<1>1. ASSUME NEW c \in Contexts, Lifecycle(c) PROVE StepInv'
  <2>1. CASE CtxInit(c)
    BY <2>1, StepFrame DEF CtxInit, TypeOK, FreshContext, Idle
  <2>2. ASSUME NEW p \in Paths \cup {NoPath}, OpenCall(c, p) PROVE StepInv'
    <3>1. /\ ctx[c] \in ContextType /\ ctx'[c].fd = NoFd
          /\ call'[c].at = "open" /\ call'[c].op \in {"default", "path"}
      BY <2>2 DEF OpenCall, TypeOK, ContextType, Opening
    <3> QED BY <2>2, <3>1, StepFrame DEF OpenCall, TypeOK
  <2>3. CASE OpenFile(c)
    <3>1. call'[c].at = "idle"
      BY <2>3 DEF OpenFile, Return, TypeOK, Idle
    <3>2. \A d \in Contexts \ {c} : ctx'[d].fd = ctx[d].fd /\ call'[d] = call[d]
      BY <2>3 DEF OpenFile, Return, TypeOK
    <3> QED BY <3>1, <3>2, StepFrame
  <2>4. CASE Close(c)
    BY <2>4, StepFrame DEF Close, TypeOK, Idle
  <2> QED BY <1>1, <2>1, <2>2, <2>3, <2>4 DEF Lifecycle
<1>2. ASSUME NEW c \in Contexts, Receive(c) PROVE StepInv'
  <2>1. ASSUME NEW wait, PollReady(c, wait) PROVE StepInv'
    BY <2>1 DEF PollReady, StepInv, IsOpen
  <2>2. ASSUME NEW op, NEW wait, ReadCall(c, op, wait) PROVE StepInv'
    <3>1. ctx' = ctx /\ \A d \in Contexts \ {c} : call'[d] = call[d]
      BY <2>2 DEF ReadCall, TypeOK
    <3>2. IsOpen(c) => call'[c].at \in {"read", "poll"}
      BY <2>2 DEF ReadCall, TypeOK
    <3>3. ~IsOpen(c) => call'[c].at = "idle"
      BY <2>2 DEF ReadCall, TypeOK, Idle
    <3> QED BY <3>1, <3>2, <3>3, StepFrame DEF IsOpen
  <2>3. CASE ReadPoll(c)
    <3>1. IsOpen(c) /\ ctx' = ctx /\ \A d \in Contexts \ {c} : call'[d] = call[d]
      BY <2>3 DEF ReadPoll, Return, TypeOK, StepInv
    <3>2. call'[c].at \in {"read", "idle"}
      BY <2>3 DEF ReadPoll, Return, TypeOK, CallType, Idle
    <3> QED BY <3>1, <3>2, StepFrame DEF IsOpen
  <2>4. CASE ReadFile(c)
    <3>1. call'[c].at = "idle"
      BY <2>4 DEF ReadFile, Return, TypeOK, Idle
    <3>2. \A d \in Contexts \ {c} : ctx'[d] = ctx[d] /\ call'[d] = call[d]
      BY <2>4 DEF ReadFile, Return, TypeOK
    <3> QED BY <3>1, <3>2, StepFrame
  <2> QED BY <1>2, <2>1, <2>2, <2>3, <2>4 DEF Receive
<1>3. ASSUME NEW c \in Contexts, Transmit(c) PROVE StepInv'
  <2>1. call' = call /\ call[c].at = "idle"
    BY <1>3 DEF Transmit, Write, ResetStats, Idle
  <2>2. \A d \in Contexts \ {c} : ctx'[d] = ctx[d]
    BY <1>3 DEF Transmit, Write, ResetStats, TypeOK
  <2> QED BY <2>1, <2>2, StepFrame
<1>4. CASE R5 \/ UNCHANGED vars
  BY <1>4 DEF R5, Start, Stop, Deliver, vars, StepInv, IsOpen
<1> QED BY <1>1, <1>2, <1>3, <1>4 DEF Next

-----------------------------------------------------------------------------
(* What a wait has seen. *)

(* A channel somebody owns keeps what a wait on it has seen, when nobody
   else touches it.                                                        *)
LEMMA ReadyFrame ==
    ASSUME ReadyMeansData, StepInv',
           \A d \in Contexts : (call'[d].at = "read" /\ call'[d].wait # 0) =>
                /\ call'[d] = call[d] /\ ctx'[d].fd = ctx[d].fd
                /\ file'[ctx[d].fd].inbox = <<>> => file[ctx[d].fd].inbox = <<>>
                /\ file[ctx[d].fd].hung => file'[ctx[d].fd].hung
    PROVE  ReadyMeansData'
  BY DEF ReadyMeansData, StepInv, PollIn, PollError

LEMMA NextReady ==
    ASSUME TypeOK, DescriptorsOwned, StepInv, ReadyMeansData, StepInv', [Next]_vars
    PROVE  ReadyMeansData'
<1> DEFINE Waited(d) == call[d].at = "read" /\ call[d].wait # 0
<1>1. \A d \in Contexts : Waited(d) => ctx[d].fd \in InUse
  BY DEF StepInv, DescriptorsOwned
<1>2. \A c, d \in Contexts : Waited(d) /\ ctx[c].fd = ctx[d].fd => c = d
  BY DEF StepInv, DescriptorsOwned, IsOpen
<1>3. InUse \subseteq Fds
  BY DEF InUse
<1>4. ASSUME NEW c \in Contexts, Lifecycle(c) PROVE ReadyMeansData'
  <2>1. ~Waited(c)
    BY <1>4 DEF Lifecycle, CtxInit, OpenCall, OpenFile, Close, Idle
  <2>2. ~(call'[c].at = "read" /\ call'[c].wait # 0)
    BY <1>4, <2>1 DEF Lifecycle, CtxInit, OpenCall, OpenFile, Close, Idle, Opening,
                      Return, TypeOK
  <2>3. \A d \in Contexts \ {c} : ctx'[d] = ctx[d] /\ call'[d] = call[d]
    BY <1>4 DEF Lifecycle, CtxInit, OpenCall, OpenFile, Close, Return, TypeOK
  <2>4. \A d \in Contexts \ {c} : Waited(d) => file'[ctx[d].fd] = file[ctx[d].fd]
    <3>1. ASSUME file' = Released(c), NEW d \in Contexts \ {c}, Waited(d)
          PROVE  file'[ctx[d].fd] = file[ctx[d].fd]
      <4>1. ctx[d].fd \in Fds /\ ctx[d].fd # ctx[c].fd
        BY <1>1, <1>2, <1>3, <3>1
      <4> QED BY <3>1, <4>1 DEF Released, TypeOK
    <3>2. ASSUME OpenFile(c), NEW d \in Contexts \ {c}, Waited(d)
          PROVE  file'[ctx[d].fd] = file[ctx[d].fd]
      <4>1. ctx[d].fd \in Fds /\ ctx[d].fd \in InUse
        BY <1>1, <1>3, <3>2
      <4>2. ASSUME NEW f \in Fds, NEW r, LowestFree(f), file' = [file EXCEPT ![f] = r]
            PROVE  file'[ctx[d].fd] = file[ctx[d].fd]
        BY <4>1, <4>2 DEF LowestFree, TypeOK
      <4> QED BY <3>2, <4>2 DEF OpenFile
    <3> QED BY <1>4, <3>1, <3>2 DEF Lifecycle, CtxInit, OpenCall, Close
  <2> QED BY <2>1, <2>2, <2>3, <2>4, ReadyFrame
<1>5. ASSUME NEW c \in Contexts, Receive(c) PROVE ReadyMeansData'
  <2>1. ASSUME NEW wait, PollReady(c, wait) PROVE ReadyMeansData'
    BY <2>1, ReadyFrame DEF PollReady
  <2>2. ASSUME NEW op, NEW wait, ReadCall(c, op, wait) PROVE ReadyMeansData'
    <3>1. ctx' = ctx /\ file' = file /\ \A d \in Contexts \ {c} : call'[d] = call[d]
      BY <2>2 DEF ReadCall, TypeOK
    <3>2. ~(call'[c].at = "read" /\ call'[c].wait # 0)
      BY <2>2 DEF ReadCall, TypeOK, Idle
    <3> QED BY <3>1, <3>2, ReadyFrame
  <2>3. CASE ReadPoll(c)
    <3>1. ctx' = ctx /\ file' = file /\ \A d \in Contexts \ {c} : call'[d] = call[d]
      BY <2>3 DEF ReadPoll, Return, TypeOK
    <3>2. call'[c].at = "read" => PollIn(ctx[c].fd)
      BY <2>3 DEF ReadPoll, Return, PollResults, EINVAL, EIO, EINTR, TypeOK, Idle
    <3> QED BY <3>1, <3>2 DEF ReadyMeansData, StepInv, PollIn, PollError, IsOpen
  <2>4. CASE ReadFile(c)
    <3>1. call'[c].at = "idle"
      BY <2>4 DEF ReadFile, Return, TypeOK, Idle
    <3>2. \A d \in Contexts \ {c} : ctx'[d] = ctx[d] /\ call'[d] = call[d]
      BY <2>4 DEF ReadFile, Return, TypeOK
    <3>3. PICK b : file' = file \/ file' = [file EXCEPT ![ctx[c].fd].inbox = b]
      BY <2>4 DEF ReadFile
    <3>4. \A d \in Contexts \ {c} : Waited(d) => file'[ctx[d].fd] = file[ctx[d].fd]
      BY <1>1, <1>2, <1>3, <3>3 DEF TypeOK
    <3> QED BY <3>1, <3>2, <3>4, ReadyFrame
  <2> QED BY <1>5, <2>1, <2>2, <2>3, <2>4 DEF Receive
<1>6. ASSUME NEW c \in Contexts, Transmit(c) PROVE ReadyMeansData'
  <2>1. call' = call /\ file' = file /\ ~Waited(c)
    BY <1>6 DEF Transmit, Write, ResetStats, Idle
  <2>2. \A d \in Contexts \ {c} : ctx'[d] = ctx[d]
    BY <1>6 DEF Transmit, Write, ResetStats, TypeOK
  <2> QED BY <2>1, <2>2, ReadyFrame
<1>7. CASE R5
  <2>1. ctx' = ctx /\ call' = call
    BY <1>7 DEF R5, Start, Stop, Deliver
  <2>2. \A f \in Fds : /\ file'[f].inbox = <<>> => file[f].inbox = <<>>
                       /\ file[f].hung => file'[f].hung
    <3>1. ASSUME NEW p, Stop(p), NEW g \in Fds
          PROVE  /\ file'[g].inbox = <<>> => file[g].inbox = <<>>
                 /\ file[g].hung => file'[g].hung
      <4>1. file[g] \in FileType
        BY DEF TypeOK
      <4>2. file'[g] = file[g] \/ file'[g] = [file[g] EXCEPT !.hung = TRUE]
        BY <3>1 DEF Stop
      <4> QED BY <4>1, <4>2 DEF FileType
    <3>2. ASSUME NEW f \in Fds, NEW d \in Datagrams, Deliver(f, d),
                 NEW g \in Fds
          PROVE  /\ file'[g].inbox = <<>> => file[g].inbox = <<>>
                 /\ file[g].hung => file'[g].hung
      <4>1. file[f].inbox \in Seq(Datagrams)
        BY DEF TypeOK, FileType
      <4>2. Append(file[f].inbox, d) # <<>>
        BY <4>1, AppendProperties
      <4>3. file[f] \in FileType
        BY DEF TypeOK
      <4>4. file' = [file EXCEPT ![f].inbox = Append(file[f].inbox, d)]
        BY <3>2 DEF Deliver
      <4>5. CASE g = f
        <5>1. file'[g] = [file[f] EXCEPT !.inbox = Append(file[f].inbox, d)]
          BY <4>4, <4>5 DEF TypeOK
        <5> QED BY <4>2, <4>3, <4>5, <5>1 DEF FileType
      <4>6. CASE g # f
        BY <4>4, <4>6 DEF TypeOK
      <4> QED BY <4>5, <4>6
    <3> QED BY <1>7, <3>1, <3>2 DEF R5, Start
  <2> QED BY <1>1, <1>3, <2>1, <2>2, ReadyFrame
<1>8. CASE UNCHANGED vars
  BY <1>8, ReadyFrame DEF vars
<1> QED BY <1>4, <1>5, <1>6, <1>7, <1>8 DEF Next

-----------------------------------------------------------------------------
(* IInv is an invariant of the driver, whatever the number of contexts,
   descriptors and nodes, the sizes of the datagrams and the width of the
   counters.                                                               *)
THEOREM InvariantHolds == Spec => []IInv
<1>1. Init => IInv
  BY InitType, InitOwned DEF IInv
<1>2. IInv /\ [Next]_vars => IInv'
  BY NextType, NextOwned, NextStep, NextReady DEF IInv
<1> QED BY <1>1, <1>2, PTL DEF Spec

(* Every field, every counter (uint32_t) and every result keeps its type. *)
THEOREM TypeCorrect == Spec => []TypeOK
<1>1. IInv => TypeOK
  BY DEF IInv
<1> QED BY <1>1, InvariantHolds, PTL

(* No sequence of opens, reopens, failed opens and closes leaks a
   descriptor, shares it between contexts or keeps it after its close.     *)
THEOREM DescriptorsStayOwned == Spec => []DescriptorsOwned
<1>1. IInv => DescriptorsOwned
  BY DEF IInv
<1> QED BY <1>1, InvariantHolds, PTL

(* A read that waited finds what the wait saw, whatever the other threads
   and the R5 do between the poll and the read.                            *)
THEOREM WaitsAreHonest == Spec => []ReadyMeansData
<1>1. IInv => ReadyMeansData
  BY DEF IInv
<1> QED BY <1>1, InvariantHolds, PTL

-----------------------------------------------------------------------------
(* The answers of rpmsg_recv_msg. *)

(* A sequence is not its own tail. *)
LEMMA TailDiffers ==
    ASSUME NEW S, NEW s \in Seq(S), s # <<>>
    PROVE  Tail(s) # s
  BY HeadTailProperties

(* The step that ends a recv is one of its own read's. *)
LEMMA RecvEndsInRead ==
    ASSUME TypeOK, StepInv, [Next]_vars, NEW c \in Contexts,
           RecvEnds(c)
    PROVE  ReadPoll(c) \/ ReadFile(c)
<1>1. call'[c] # call[c]
  BY DEF RecvEnds, Idle
<1>2. call[c].at # "open"
  BY DEF RecvEnds, StepInv
<1>3. ASSUME NEW d \in Contexts, Lifecycle(d) PROVE FALSE
  BY <1>1, <1>2, <1>3
     DEF Lifecycle, CtxInit, OpenCall, OpenFile, Close, Return, TypeOK, Idle,
         RecvEnds
<1>4. ASSUME NEW d \in Contexts, Receive(d) PROVE ReadPoll(c) \/ ReadFile(c)
  <2>1. ASSUME d # c PROVE call'[c] = call[c]
    BY <1>4, <2>1 DEF Receive, PollReady, ReadCall, ReadPoll, ReadFile, Return, TypeOK
  <2> QED BY <1>1, <1>4, <2>1 DEF Receive, PollReady, ReadCall, Idle, RecvEnds
<1>5. ~(\E d \in Contexts : Transmit(d)) /\ ~R5 /\ ~UNCHANGED vars
  BY <1>1 DEF Transmit, Write, ResetStats, R5, Start, Stop, Deliver, vars
<1> QED BY <1>3, <1>4, <1>5 DEF Next

(* rpmsg_recv_msg answers 0 if and only if it moved a whole message into the
   caller's buffer, and -ETIMEDOUT only if it took no byte.                *)
THEOREM RecvIsHonest == Spec => RecvHonest
<1> DEFINE f(c) == ctx[c].fd
           honest(c) == /\ ret'[c] = OK <=> MessageTaken(c)
                        /\ ret'[c] = -ETIMEDOUT => NoByteTaken(c)
<1>1. ASSUME IInv, [Next]_vars, NEW c \in Contexts, RecvEnds(c) PROVE honest(c)
  <2>1. f(c) \in Fds /\ file[f(c)] \in FileType /\ ret \in [Contexts -> Results]
    <3>1. call[c].at \in {"poll", "read"}
      BY <1>1 DEF IInv, TypeOK, CallType, StepInv, RecvEnds
    <3>2. IsOpen(c)
      BY <1>1, <3>1 DEF IInv, StepInv
    <3> QED BY <1>1, <3>2 DEF IInv, TypeOK, ContextType, IsOpen
  <2>2. file[f(c)].inbox \in Seq(Datagrams)
    BY <2>1 DEF FileType
  <2>3. ASSUME file' = file PROVE ~MessageTaken(c) /\ NoByteTaken(c)
    BY <2>2, <2>3, TailDiffers DEF MessageTaken, NoByteTaken
  <2>4. CASE ReadPoll(c)
    <3>1. PICK r \in PollResults(c, call[c].wait) : r <= 0 /\ Return(c, Result(c, r))
      BY <1>1, <2>4 DEF ReadPoll, IInv, TypeOK, Idle, RecvEnds
    <3>2. r \in {0, -EINVAL, -EIO, -EINTR}
      BY <3>1 DEF PollResults
    <3>3. ret'[c] # OK
      BY <1>1, <2>1, <3>1, <3>2, DriverAssumption
         DEF RecvEnds, Return, Result, RecvResult, OK, ETIMEDOUT, EINVAL, EIO, EINTR
    <3> QED BY <2>3, <2>4, <3>3 DEF ReadPoll
  <2>5. CASE ReadFile(c)
    <3> DEFINE d == Head(file[f(c)].inbox)
    <3>1. CASE file' = file
      <4>1. \/ Return(c, Result(c, -EPIPE)) \/ Return(c, Result(c, 0))
            \/ file[f(c)].inbox # <<>> /\ file' = [file EXCEPT ![f(c)].inbox = Tail(@)]
        BY <2>5 DEF ReadFile
      <4>2. ~(file[f(c)].inbox # <<>> /\ file' = [file EXCEPT ![f(c)].inbox = Tail(@)])
        BY <1>1, <2>1, <2>2, <3>1, TailDiffers DEF IInv, TypeOK, FileType
      <4>3. ret'[c] # OK
        BY <1>1, <2>1, <4>1, <4>2, DriverAssumption
           DEF RecvEnds, Return, Result, RecvResult, OK, ETIMEDOUT, EPIPE
      <4> QED BY <2>3, <3>1, <4>3
    <3>2. CASE file' # file
      <4>1. /\ file[f(c)].inbox # <<>>
            /\ file' = [file EXCEPT ![f(c)].inbox = Tail(@)]
            /\ buf' = [buf EXCEPT ![c] = d]
            /\ Return(c, Result(c, Copied(d)))
        BY <2>5, <3>2 DEF ReadFile
      <4>2. d \in Datagrams /\ LengthOf[d] \in Nat
        BY <2>2, <4>1, HeadTailProperties, DriverAssumption
      <4>3. file'[f(c)].inbox = Tail(file[f(c)].inbox) /\ buf'[c] = d
        BY <1>1, <2>1, <4>1 DEF IInv, TypeOK, FileType
      <4>4. ret'[c] = RecvResult(Copied(d))
        BY <1>1, <2>1, <4>1 DEF RecvEnds, Return, Result
      <4>5. \A n \in Nat, m \in Nat \ {0} : (IF n < m THEN n ELSE m) = m <=> n >= m
        OBVIOUS
      <4>6. MsgSize \in Nat \ {0}
        BY DriverAssumption
      <4>7. Copied(d) \in Nat /\ (Copied(d) = MsgSize <=> LengthOf[d] >= MsgSize)
        BY <4>2, <4>5, <4>6 DEF Copied
      <4>8. ret'[c] = OK <=> LengthOf[d] >= MsgSize
        BY <4>4, <4>6, <4>7 DEF RecvResult, OK, ETIMEDOUT, EIO
      <4>9. ret'[c] = -ETIMEDOUT => LengthOf[d] = 0
        <5>1. ret'[c] = -ETIMEDOUT => Copied(d) = 0
          BY <4>4, <4>6, <4>7 DEF RecvResult, OK, ETIMEDOUT, EIO
        <5> QED BY <4>2, <4>6, <5>1 DEF Copied
      <4> QED BY <4>1, <4>3, <4>8, <4>9 DEF MessageTaken, NoByteTaken
    <3> QED BY <3>1, <3>2
  <2> QED BY <1>1, <2>4, <2>5, RecvEndsInRead DEF IInv
<1>2. IInv /\ [Next]_vars => [AnswersHonestly]_vars
  BY <1>1 DEF AnswersHonestly
<1> QED BY <1>2, InvariantHolds, PTL DEF Spec, RecvHonest
=============================================================================
