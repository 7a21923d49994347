--------------------------- MODULE LinuxAppProofs ---------------------------
(***************************************************************************)
(* The application keeps the rules of the components it is built from, so  *)
(* that what is proved of them holds inside it; it cleans up after itself  *)
(* on every path, and messages reach the dashboard in order.               *)
(***************************************************************************)
EXTENDS LinuxApp, SequenceTheorems, TLAPS

QP == INSTANCE MsgQueueProofs
        WITH Producers <- {"rpmsg"}, Consumers <- {"gui"}, Messages <- Datagrams

DP == INSTANCE RpmsgDriverProofs
        WITH Contexts <- {"rpmsg"}, Fds <- {3}, Paths <- {Device},
             DefaultPath <- Device, LengthOf <- [d \in Datagrams |-> d.len],
             NoData <- NoMsg, CounterMod <- 1, ret <- devRet

-----------------------------------------------------------------------------
(* The channel. *)

LEMMA DriverAssumptionHolds == DP!DriverAssumption
<1>1. DP!IsFiniteSet({3})
  <2>1. <<3>> \in Seq({3}) /\ Len(<<3>>) = 1 /\ <<3>>[1] = 3
    OBVIOUS
  <2>2. \A s \in {3} : \E n \in 1 .. Len(<<3>>) : <<3>>[n] = s
    BY <2>1
  <2> QED BY <2>1, <2>2 DEF DP!IsFiniteSet
<1>2. NoPath \notin {Device}
  BY AppAssumption DEF Device
<1>3. [d \in Datagrams |-> d.len] \in [Datagrams -> Nat]
  BY AppAssumption
<1> QED BY <1>1, <1>2, <1>3, AppAssumption DEF DP!DriverAssumption

(* The two names of the driver's specification. *)
LEMMA SameDriver ==
    /\ D!Init <=> DP!Init
    /\ [D!Next]_(D!vars) <=> [DP!Next]_(DP!vars)
    /\ D!IInv <=> DP!IInv
<1>1. D!Init <=> DP!Init
  BY DEF D!Init, DP!Init, D!FreshContext, DP!FreshContext, D!Unused, DP!Unused,
     D!Idle, DP!Idle, D!OK, DP!OK, D!NoFd, DP!NoFd
<1>2. [D!Next]_(D!vars) <=> [DP!Next]_(DP!vars)
  BY DEF D!Next, DP!Next, D!vars, DP!vars, D!Lifecycle, DP!Lifecycle,
     D!Receive, DP!Receive, D!Transmit, DP!Transmit, D!R5, DP!R5,
     D!CtxInit, DP!CtxInit, D!OpenCall, DP!OpenCall, D!OpenFile, DP!OpenFile,
     D!Close, DP!Close, D!PollReady, DP!PollReady, D!PollResults, DP!PollResults,
     D!ReadCall, DP!ReadCall, D!ReadPoll, DP!ReadPoll, D!ReadFile, DP!ReadFile,
     D!Write, DP!Write, D!WriteErrors, DP!WriteErrors, D!SendResult, DP!SendResult,
     D!ResetStats, DP!ResetStats, D!Start, DP!Start, D!Stop, DP!Stop,
     D!Deliver, DP!Deliver, D!Opening, DP!Opening, D!Released, DP!Released,
     D!OpenErrors, DP!OpenErrors, D!LowestFree, DP!LowestFree, D!InUse, DP!InUse,
     D!Return, DP!Return, D!Result, DP!Result, D!RecvResult, DP!RecvResult,
     D!Copied, DP!Copied, D!Up, DP!Up, D!IsOpen, DP!IsOpen,
     D!PollError, DP!PollError, D!PollIn, DP!PollIn, D!Waits, DP!Waits,
     D!FreshContext, DP!FreshContext, D!Unused, DP!Unused, D!Idle, DP!Idle,
     D!NoFd, DP!NoFd, D!Forever, DP!Forever, D!OK, DP!OK, D!ENOENT, DP!ENOENT,
     D!EINTR, DP!EINTR, D!EIO, DP!EIO, D!EAGAIN, DP!EAGAIN, D!EBUSY, DP!EBUSY,
     D!EINVAL, DP!EINVAL, D!EMFILE, DP!EMFILE, D!EPIPE, DP!EPIPE,
     D!ETIMEDOUT, DP!ETIMEDOUT
<1>3. D!IInv <=> DP!IInv
  BY DEF D!IInv, DP!IInv, D!TypeOK, DP!TypeOK, D!DescriptorsOwned, DP!DescriptorsOwned,
     D!StepInv, DP!StepInv, D!ReadyMeansData, DP!ReadyMeansData,
     D!ContextType, DP!ContextType, D!FileType, DP!FileType, D!CallType, DP!CallType,
     D!Counters, DP!Counters, D!Waits, DP!Waits, D!Forever, DP!Forever,
     D!NoFd, DP!NoFd, D!InUse, DP!InUse, D!IsOpen, DP!IsOpen,
     D!PollError, DP!PollError, D!PollIn, DP!PollIn,
     D!Results, DP!Results, D!Errnos, DP!Errnos, D!ENOENT, DP!ENOENT,
     D!EINTR, DP!EINTR, D!EIO, DP!EIO, D!EAGAIN, DP!EAGAIN, D!EBUSY, DP!EBUSY,
     D!EINVAL, DP!EINVAL, D!EMFILE, DP!EMFILE, D!EPIPE, DP!EPIPE,
     D!ETIMEDOUT, DP!ETIMEDOUT
<1> QED BY <1>1, <1>2, <1>3

(* Every step of the application is one of the driver, of its environment,
   or leaves the channel alone.                                            *)
LEMMA NextIsDriverStep == [Next]_vars => [D!Next]_(D!vars)
<1> SUFFICES ASSUME [Next]_vars PROVE [D!Next]_(D!vars)
  OBVIOUS
<1>1. CASE Main
  BY <1>1 DEF Main, CatchSignal, InitRxQueue, InitTxQueue, SpawnRpmsg, SpawnGui, Join,
     DestroyRxQueue, DestroyTxQueue, Exit, deviceVars, D!vars
<1>2. ASSUME NEW sig \in Signals, Signal(sig) PROVE UNCHANGED D!vars
  BY <1>2 DEF Signal, deviceVars, D!vars
<1>3. CASE RpmsgWorker
  <2>1. CASE RpmsgOpen
    BY <2>1 DEF RpmsgOpen, D!Next, D!Lifecycle
  <2>2. CASE RpmsgTest \/ RpmsgPush
    BY <2>2 DEF RpmsgTest, RpmsgPush, deviceVars, D!vars
  <2>3. CASE RpmsgPoll
    BY <2>3 DEF RpmsgPoll, D!Next, D!Receive, D!Waits
  <2>4. CASE RpmsgRecv
    BY <2>4 DEF RpmsgRecv, D!Next, D!Receive, D!Waits
  <2>5. CASE RpmsgClose
    BY <2>5 DEF RpmsgClose, D!Next, D!Lifecycle
  <2> QED BY <1>3, <2>1, <2>2, <2>3, <2>4, <2>5 DEF RpmsgWorker
<1>4. CASE GuiWorker \/ GuiSpuriousWakeup
  BY <1>4 DEF GuiWorker, GuiSpuriousWakeup, GuiTest, GuiPop, GuiShow, GuiRest, deviceVars, D!vars
<1>5. CASE R5
  BY <1>5 DEF R5, D!Next, D!R5
<1>6. CASE UNCHANGED vars
  BY <1>6 DEF vars, deviceVars, D!vars
<1> QED BY <1>1, <1>2, <1>3, <1>4, <1>5, <1>6 DEF Next

(* What the application does with its channel is what RpmsgDriver allows. *)
THEOREM ChannelIsDriven == Spec => D!Spec
  BY NextIsDriverStep, PTL DEF Spec, Init, D!Spec

LEMMA DriverInvariant == Spec => []D!IInv
<1>1. D!Spec <=> DP!Spec
  BY SameDriver, PTL DEF D!Spec, DP!Spec
<1> QED BY <1>1, ChannelIsDriven, DriverAssumptionHolds, DP!InvariantHolds, SameDriver, PTL

-----------------------------------------------------------------------------
(* Main and its threads. *)

LEMMA InitInvariant == Init => AppInv
  BY DEF Init, AppInv, MainInv, CallerInv, ChannelInv, Inactive,
     Q!Init, Q!Ready, Q!Threads, D!Init, D!FreshContext

LEMMA NextMain == ASSUME MainInv, [Next]_vars PROVE MainInv'
<1> USE DEF MainInv, Inactive, mainVars, signalVars, MainGoto
<1>1. CASE Main
  <2>1. ASSUME CatchSignal("SIGINT", "catchInt", "catchTerm")
               \/ CatchSignal("SIGTERM", "catchTerm", "initRx")
        PROVE  MainInv'
    BY <2>1 DEF CatchSignal, queueVars, Q!Ready
  <2>2. CASE InitRxQueue
    BY <2>2 DEF InitRxQueue, Q!QueueInit, Q!Ready
  <2>3. CASE InitTxQueue
    BY <2>3 DEF InitTxQueue, queueVars, Q!Ready
  <2>4. CASE SpawnRpmsg
    BY <2>4 DEF SpawnRpmsg, queueVars, Q!Ready
  <2>5. CASE SpawnGui
    BY <2>5 DEF SpawnGui, queueVars, Q!Ready
  <2>6. CASE Join
    BY <2>6 DEF Join, queueVars, Q!Ready
  <2>7. CASE DestroyRxQueue
    BY <2>7 DEF DestroyRxQueue, Q!QueueDestroy, Q!Ready
  <2>8. CASE DestroyTxQueue
    BY <2>8 DEF DestroyTxQueue, queueVars, Q!Ready
  <2>9. CASE Exit
    BY <2>9 DEF Exit, queueVars, Q!Ready
  <2> QED BY <1>1, <2>1, <2>2, <2>3, <2>4, <2>5, <2>6, <2>7, <2>8, <2>9 DEF Main
<1>2. ASSUME NEW sig \in Signals, Signal(sig) PROVE MainInv'
  BY <1>2 DEF Signal, queueVars, Q!Ready
<1>3. CASE RpmsgWorker
  <2>1. live' = live /\ UNCHANGED <<mainPc, txLive, process, gpc>>
    BY <1>3 DEF RpmsgWorker, RpmsgOpen, RpmsgTest, RpmsgPoll, RpmsgRecv, RpmsgPush, RpmsgClose,
       RpmsgRest, queueVars, Q!CallPush, Q!Push, Q!PushLock, Q!PushFull, Q!PushStore,
       Q!PushCount, Q!PushSignal, Q!PushUnlock
  <2>2. rpc \notin Inactive
    BY <1>3 DEF RpmsgWorker, RpmsgOpen, RpmsgTest, RpmsgPoll, RpmsgRecv, RpmsgPush, RpmsgClose,
       RpmsgGoto
  <2> QED BY <2>1, <2>2 DEF Q!Ready
<1>4. CASE GuiWorker
  <2>1. live' = live /\ UNCHANGED <<mainPc, txLive, process, rpc>>
    BY <1>4 DEF GuiWorker, GuiTest, GuiPop, GuiShow, GuiRest, queueVars, Q!CallPop, Q!Pop,
       Q!PopLock, Q!PopWait, Q!PopTake, Q!PopCount, Q!PopUnlock
  <2>2. gpc \notin Inactive
    BY <1>4 DEF GuiWorker, GuiTest, GuiPop, GuiShow, GuiGoto
  <2> QED BY <2>1, <2>2 DEF Q!Ready
<1>5. CASE GuiSpuriousWakeup \/ R5 \/ UNCHANGED vars
  BY <1>5 DEF GuiSpuriousWakeup, R5, GuiRest, vars, queueVars, Q!SpuriousWakeup, Q!Ready
<1> QED BY <1>1, <1>2, <1>3, <1>4, <1>5 DEF Next

(* A step of main that does not enter the queue leaves the callers alone. *)
LEMMA CallersUnmoved ==
    ASSUME CallerInv, UNCHANGED <<qpc, waiting, rpc, gpc>>
    PROVE  CallerInv'
  BY DEF CallerInv

LEMMA NextCaller == ASSUME MainInv, CallerInv, [Next]_vars PROVE CallerInv'
<1> USE DEF queueVars, mainVars, signalVars
<1>1. CASE Main
  <2>1. CASE CatchSignal("SIGINT", "catchInt", "catchTerm")
             \/ CatchSignal("SIGTERM", "catchTerm", "initRx")
             \/ InitTxQueue \/ Join \/ DestroyTxQueue \/ Exit
    BY <2>1, CallersUnmoved DEF CatchSignal, InitTxQueue, Join, DestroyTxQueue, Exit
  <2>2. CASE InitRxQueue
    BY <2>2 DEF CallerInv, InitRxQueue, Q!QueueInit
  <2>3. CASE DestroyRxQueue
    BY <2>3, CallersUnmoved DEF DestroyRxQueue, Q!QueueDestroy
  <2>4. CASE SpawnRpmsg
    BY <2>4 DEF CallerInv, MainInv, SpawnRpmsg, MainGoto
  <2>5. CASE SpawnGui
    BY <2>5 DEF CallerInv, MainInv, SpawnGui, MainGoto
  <2> QED BY <1>1, <2>1, <2>2, <2>3, <2>4, <2>5 DEF Main
<1>2. ASSUME NEW sig \in Signals, Signal(sig) PROVE CallerInv'
  BY <1>2, CallersUnmoved DEF Signal
<1>3. CASE RpmsgWorker
  <2>1. CASE RpmsgOpen \/ RpmsgTest \/ RpmsgPoll \/ RpmsgRecv \/ RpmsgClose
    <3>1. rpc # "pushing"
      BY <2>1 DEF RpmsgOpen, RpmsgTest, RpmsgPoll, RpmsgRecv, RpmsgClose, RpmsgGoto
    <3>2. UNCHANGED <<qpc, waiting, gpc>>
      BY <2>1 DEF RpmsgOpen, RpmsgTest, RpmsgPoll, RpmsgRecv, RpmsgClose, RpmsgRest
    <3> QED BY <3>1, <3>2 DEF CallerInv
  <2>2. CASE RpmsgPush
    <3>1. CASE RpmsgGoto("push", "pushing") /\ Q!CallPush("rpmsg", buf["rpmsg"])
      BY <2>2, <3>1 DEF RpmsgPush, RpmsgRest, RpmsgGoto, CallerInv, Q!CallPush, Q!Goto,
         Q!Threads, Q!PushPoints, Q!PopPoints
    <3>2. CASE /\ Q!Push("rpmsg")
               /\ RpmsgGoto("pushing", IF qpc'["rpmsg"] = "idle" THEN "test" ELSE "pushing")
      <4>1. /\ qpc' \in [Q!Threads -> {"idle"} \cup Q!PushPoints \cup Q!PopPoints]
            /\ qpc'["rpmsg"] \in {"idle"} \cup Q!PushPoints
            /\ waiting' \subseteq waiting
            /\ \/ qpc'["gui"] = qpc["gui"]
               \/ qpc["gui"] # "idle" /\ qpc'["gui"] = "popLock" /\ waiting' = {}
        BY <3>2 DEF CallerInv, Q!Push, Q!PushLock, Q!PushFull, Q!PushStore, Q!PushCount,
           Q!PushSignal, Q!PushUnlock, Q!Goto, Q!Threads, Q!PushPoints, Q!PopPoints
      <4> QED BY <2>2, <3>2, <4>1
              DEF RpmsgPush, RpmsgRest, RpmsgGoto, CallerInv, Q!PushPoints, Q!PopPoints
    <3> QED BY <2>2, <3>1, <3>2 DEF RpmsgPush
  <2> QED BY <1>3, <2>1, <2>2 DEF RpmsgWorker
<1>4. CASE GuiWorker
  <2>1. CASE GuiTest \/ GuiShow
    BY <2>1 DEF GuiTest, GuiShow, GuiRest, GuiGoto, CallerInv
  <2>2. CASE GuiPop
    <3>1. CASE GuiGoto("pop", "popping") /\ Q!CallPop("gui")
      BY <2>2, <3>1 DEF GuiPop, GuiRest, GuiGoto, CallerInv, Q!CallPop, Q!Goto,
         Q!Threads, Q!PushPoints, Q!PopPoints
    <3>2. CASE /\ Q!Pop("gui")
               /\ GuiGoto("popping", IF qpc'["gui"] = "idle" THEN "show" ELSE "popping")
      <4>1. /\ qpc' \in [Q!Threads -> {"idle"} \cup Q!PushPoints \cup Q!PopPoints]
            /\ qpc'["gui"] \in {"idle"} \cup Q!PopPoints
            /\ qpc'["rpmsg"] = qpc["rpmsg"]
            /\ waiting' \subseteq {"gui"}
            /\ waiting' # {} => qpc'["gui"] = "popWait"
        BY <3>2 DEF CallerInv, Q!Pop, Q!PopLock, Q!PopWait, Q!PopTake, Q!PopCount,
           Q!PopUnlock, Q!Goto, Q!Threads, Q!PushPoints, Q!PopPoints
      <4> QED BY <2>2, <3>2, <4>1 DEF GuiPop, GuiRest, GuiGoto, CallerInv
    <3> QED BY <2>2, <3>1, <3>2 DEF GuiPop
  <2> QED BY <1>4, <2>1, <2>2 DEF GuiWorker
<1>5. CASE GuiSpuriousWakeup
  BY <1>5 DEF GuiSpuriousWakeup, GuiRest, CallerInv, Q!SpuriousWakeup, Q!Goto,
     Q!Threads, Q!PushPoints, Q!PopPoints
<1>6. CASE R5 \/ UNCHANGED vars
  BY <1>6, CallersUnmoved DEF R5, vars
<1> QED BY <1>1, <1>2, <1>3, <1>4, <1>5, <1>6 DEF Next

LEMMA ChannelUnmoved ==
    ASSUME ChannelInv, UNCHANGED <<ctx, call, buf, rpc>>
    PROVE  ChannelInv'
  BY DEF ChannelInv

(* Only a whole message is handed on. *)
LEMMA ReceivedWhole ==
    ASSUME D!TypeOK, call["rpmsg"].op = "recv", ctx["rpmsg"].fd = 3,
           D!ReadFile("rpmsg"), devRet'["rpmsg"] = D!OK
    PROVE  buf'["rpmsg"] \in Datagrams
<1>1. /\ file[3].inbox \in Seq(Datagrams)
      /\ devRet \in [{"rpmsg"} -> D!Results] /\ buf \in [{"rpmsg"} -> Datagrams \cup {NoMsg}]
  BY DEF D!TypeOK, D!FileType
<1>2. D!Result("rpmsg", -D!EPIPE) # D!OK /\ D!Result("rpmsg", 0) # D!OK
  BY AppAssumption DEF D!Result, D!RecvResult, D!EPIPE, D!OK, D!ETIMEDOUT, D!EIO
<1>3. ASSUME NEW r, D!Return("rpmsg", r) PROVE devRet'["rpmsg"] = r
  BY <1>1, <1>3 DEF D!Return
<1>4. file[3].inbox # <<>> /\ buf' = [buf EXCEPT !["rpmsg"] = Head(file[3].inbox)]
  BY <1>2, <1>3 DEF D!ReadFile
<1> QED BY <1>1, <1>4

LEMMA NextChannel ==
    ASSUME D!IInv, MainInv, ChannelInv, [Next]_vars
    PROVE  ChannelInv'
<1> USE DEF deviceVars, mainVars, signalVars
<1>0. /\ ctx \in [{"rpmsg"} -> D!ContextType] /\ call \in [{"rpmsg"} -> D!CallType]
      /\ devRet \in [{"rpmsg"} -> D!Results]
  BY DEF D!IInv, D!TypeOK
<1>1. CASE Main
  <2>1. CASE SpawnRpmsg
    BY <2>1 DEF SpawnRpmsg, MainGoto, MainInv, ChannelInv
  <2>2. UNCHANGED deviceVars
    BY <1>1 DEF Main, CatchSignal, InitRxQueue, InitTxQueue, SpawnRpmsg, SpawnGui, Join,
       DestroyRxQueue, DestroyTxQueue, Exit
  <2>3. CASE ~SpawnRpmsg
    BY <1>1, <2>2, <2>3, ChannelUnmoved DEF Main, CatchSignal, InitRxQueue, InitTxQueue,
       SpawnGui, Join, DestroyRxQueue, DestroyTxQueue, Exit
  <2> QED BY <2>1, <2>3
<1>2. ASSUME NEW sig \in Signals, Signal(sig) PROVE ChannelInv'
  BY <1>2, ChannelUnmoved DEF Signal
<1>3. CASE RpmsgWorker
  <2>1. CASE RpmsgOpen
    <3>1. CASE RpmsgGoto("start", "open") /\ D!CtxInit("rpmsg")
      BY <1>0, <3>1 DEF ChannelInv, RpmsgGoto, D!CtxInit, D!FreshContext
    <3>2. CASE RpmsgGoto("open", "opening") /\ D!OpenCall("rpmsg", Device)
      BY <1>0, <3>2 DEF ChannelInv, RpmsgGoto, D!OpenCall, D!ContextType
    <3>3. CASE /\ D!OpenFile("rpmsg")
               /\ RpmsgGoto("opening", IF devRet'["rpmsg"] # D!OK THEN "done" ELSE "test")
      <4>1. CASE /\ \E f \in {3} : ctx' = [ctx EXCEPT !["rpmsg"].fd = f]
                 /\ D!Return("rpmsg", D!OK)
        <5>1. devRet'["rpmsg"] = D!OK
          BY <1>0, <4>1 DEF D!Return
        <5>2. ctx'["rpmsg"].fd = 3
          BY <1>0, <4>1 DEF D!ContextType
        <5> QED BY <3>3, <5>1, <5>2 DEF ChannelInv, RpmsgGoto
      <4>2. CASE \E e \in D!OpenErrors(ctx["rpmsg"].path) :
                    /\ ctx' = [ctx EXCEPT !["rpmsg"].err = D!Up(@)]
                    /\ D!Return("rpmsg", -e)
        <5>1. devRet'["rpmsg"] # D!OK
          BY <1>0, <4>2 DEF D!Return, D!OpenErrors, D!ENOENT, D!EBUSY, D!EMFILE, D!OK
        <5>2. ctx'["rpmsg"].fd = ctx["rpmsg"].fd
          BY <1>0, <4>2 DEF D!ContextType
        <5> QED BY <3>3, <5>1, <5>2 DEF ChannelInv, RpmsgGoto
      <4> QED BY <3>3, <4>1, <4>2 DEF D!OpenFile
    <3> QED BY <2>1, <3>1, <3>2, <3>3 DEF RpmsgOpen
  <2>2. CASE RpmsgTest
    BY <2>2 DEF RpmsgTest, RpmsgGoto, ChannelInv
  <2>3. CASE RpmsgPoll
    BY <2>3 DEF RpmsgPoll, RpmsgGoto, ChannelInv, D!PollReady
  <2>4. CASE RpmsgRecv
    <3>1. CASE RpmsgGoto("recv", "receiving") /\ D!ReadCall("rpmsg", "recv", 0)
      BY <1>0, <3>1 DEF RpmsgGoto, ChannelInv, D!ReadCall, D!IsOpen, D!NoFd
    <3>2. CASE /\ D!ReadFile("rpmsg")
               /\ RpmsgGoto("receiving", IF devRet'["rpmsg"] = D!OK THEN "push" ELSE "test")
      <4>1. ctx'["rpmsg"].fd = 3
        BY <1>0, <3>2 DEF ChannelInv, RpmsgGoto, D!ReadFile, D!ContextType
      <4>2. devRet'["rpmsg"] = D!OK => buf'["rpmsg"] \in Datagrams
        BY <3>2, ReceivedWhole DEF D!IInv, ChannelInv, RpmsgGoto
      <4> QED BY <3>2, <4>1, <4>2 DEF ChannelInv, RpmsgGoto
    <3> QED BY <2>4, <3>1, <3>2 DEF RpmsgRecv
  <2>5. CASE RpmsgPush
    BY <2>5 DEF RpmsgPush, RpmsgGoto, ChannelInv
  <2>6. CASE RpmsgClose
    BY <1>0, <2>6 DEF RpmsgClose, RpmsgGoto, ChannelInv, D!Close, D!ContextType, D!NoFd
  <2> QED BY <1>3, <2>1, <2>2, <2>3, <2>4, <2>5, <2>6 DEF RpmsgWorker
<1>4. CASE GuiWorker \/ GuiSpuriousWakeup
  BY <1>4, ChannelUnmoved DEF GuiWorker, GuiSpuriousWakeup, GuiTest, GuiPop, GuiShow, GuiRest
<1>5. CASE R5
  BY <1>5, ChannelUnmoved DEF R5, D!Start, D!Stop, D!Deliver
<1>6. CASE UNCHANGED vars
  BY <1>6, ChannelUnmoved DEF vars
<1> QED BY <1>1, <1>2, <1>3, <1>4, <1>5, <1>6 DEF Next

(* Where main is, what it has made and which threads live fit together; the
   workers are inside the queue, and have the channel open, only where their
   code says so.                                                           *)
THEOREM AppInvariantHolds == Spec => []AppInv
<1>1. D!IInv /\ AppInv /\ [Next]_vars => AppInv'
  BY NextMain, NextCaller, NextChannel DEF AppInv
<1> QED BY <1>1, InitInvariant, DriverInvariant, PTL DEF Spec

(* Whatever path main takes to its return, both queues are destroyed, the
   channel is closed and no thread is left.                                *)
THEOREM NothingIsLeftBehind == Spec => []NothingLeftBehind
<1>1. ASSUME D!IInv, AppInv PROVE NothingLeftBehind
  <2> SUFFICES ASSUME process = "exited"
               PROVE  /\ live = {} /\ ~txLive /\ D!InUse = {}
                      /\ rpc \in Inactive /\ gpc \in Inactive
    BY DEF NothingLeftBehind, Inactive
  <2>1. live = {} /\ ~txLive /\ rpc \in Inactive /\ gpc \in Inactive
    BY <1>1 DEF AppInv, MainInv
  <2>2. D!InUse = {}
    BY <1>1, <2>1 DEF AppInv, ChannelInv, Inactive, D!IInv, D!DescriptorsOwned, D!InUse,
       D!NoFd
  <2> QED BY <2>1, <2>2
<1> QED BY <1>1, DriverInvariant, AppInvariantHolds, PTL

-----------------------------------------------------------------------------
(* The queue. *)

LEMMA QueueUnmoved ==
    ASSUME UNCHANGED queueVars
    PROVE  UNCHANGED Q!vars
  BY DEF queueVars, Q!vars

(* Every step of the application is one of the queue, by the rules its
   clients have to keep, or leaves the queue alone.                        *)
LEMMA NextIsQueueStep == ASSUME AppInv, [Next]_vars PROVE [Q!Next]_(Q!vars)
<1> USE DEF AppInv, MainInv, CallerInv, ChannelInv, Inactive
<1>1. CASE Main
  <2>1. ASSUME NEW made \in SUBSET {"lock", "cond"}, Q!QueueInit(made), mainPc = "initRx"
        PROVE  Q!Next
    <3>1. Q!Quiescent /\ live = {}
      BY <2>1 DEF Q!Quiescent, Q!Threads
    <3> QED BY <2>1, <3>1 DEF Q!Next, Q!Lifecycle
  <2>2. CASE DestroyRxQueue
    <3>1. Q!Quiescent /\ Q!Ready /\ Q!QueueDestroy
      BY <2>2 DEF DestroyRxQueue, Q!Quiescent, Q!Threads
    <3> QED BY <3>1 DEF Q!Next, Q!Lifecycle
  <2>3. CASE InitRxQueue
    BY <2>1, <2>3 DEF InitRxQueue, MainGoto
  <2>4. CASE ~InitRxQueue /\ ~DestroyRxQueue
    BY <1>1, <2>4, QueueUnmoved DEF Main, CatchSignal, InitTxQueue, SpawnRpmsg, SpawnGui, Join,
       DestroyTxQueue, Exit
  <2> QED BY <2>2, <2>3, <2>4
<1>2. ASSUME NEW sig \in Signals, Signal(sig) PROVE UNCHANGED Q!vars
  BY <1>2, QueueUnmoved DEF Signal
<1>3. CASE RpmsgWorker
  <2>1. CASE RpmsgPush
    <3>1. Q!Push("rpmsg") => Q!Next
      BY DEF Q!Next, Q!Threads
    <3>2. ASSUME RpmsgGoto("push", "pushing"), Q!CallPush("rpmsg", buf["rpmsg"]) PROVE Q!Next
      <4>1. Q!Ready /\ buf["rpmsg"] \in Datagrams
        BY <3>2 DEF RpmsgGoto
      <4> QED BY <3>2, <4>1 DEF Q!Next, Q!Call, Q!Threads
    <3> QED BY <2>1, <3>1, <3>2 DEF RpmsgPush
  <2>2. CASE ~RpmsgPush
    BY <1>3, <2>2, QueueUnmoved DEF RpmsgWorker, RpmsgOpen, RpmsgTest, RpmsgPoll, RpmsgRecv,
       RpmsgClose
  <2> QED BY <2>1, <2>2
<1>4. CASE GuiWorker
  <2>1. CASE GuiPop
    <3>1. Q!Pop("gui") => Q!Next
      BY DEF Q!Next, Q!Threads
    <3>2. ASSUME GuiGoto("pop", "popping"), Q!CallPop("gui") PROVE Q!Next
      <4>1. Q!Ready
        BY <3>2 DEF GuiGoto
      <4> QED BY <3>2, <4>1 DEF Q!Next, Q!Call, Q!Threads
    <3> QED BY <2>1, <3>1, <3>2 DEF GuiPop
  <2>2. CASE ~GuiPop
    BY <1>4, <2>2, QueueUnmoved DEF GuiWorker, GuiTest, GuiShow
  <2> QED BY <2>1, <2>2
<1>5. CASE GuiSpuriousWakeup
  BY <1>5 DEF GuiSpuriousWakeup, Q!Next, Q!Threads
<1>6. CASE R5 \/ UNCHANGED vars
  BY <1>6, QueueUnmoved DEF R5, vars
<1> QED BY <1>1, <1>2, <1>3, <1>4, <1>5, <1>6 DEF Next

(* The queue is initialised before and destroyed after any use of it, with
   nobody inside, on every path through main and at every moment a signal
   may come.                                                               *)
THEOREM QueueIsUsedByItsRules == Spec => QueueUsedByItsRules
<1>1. AppInv /\ [Next]_vars => [Q!Next]_(Q!vars)
  BY NextIsQueueStep
<1> QED BY <1>1, AppInvariantHolds, PTL DEF Spec, Init, QueueUsedByItsRules, Q!Spec

-----------------------------------------------------------------------------
(* Sequences of messages whose numbers rise. *)

LEMMA NumbersAreNat == Numbers \subseteq Nat
  BY AppAssumption DEF Numbers

LEMMA SeqOfNumbers == Seq(Numbers) \subseteq Seq(Nat)
<1> SUFFICES ASSUME NEW s \in Seq(Numbers) PROVE s \in Seq(Nat)
  OBVIOUS
<1>1. s \in [1 .. Len(s) -> Numbers] /\ Len(s) \in Nat
  BY LenProperties
<1>2. s \in [1 .. Len(s) -> Nat]
  BY <1>1, NumbersAreNat
<1> QED BY <1>1, <1>2

(* The ids of the messages of a sequence are a sequence. *)
LEMMA IdsAreSeq ==
    ASSUME NEW s \in Seq(Datagrams)
    PROVE  /\ Ids(s) \in Seq(Numbers) /\ Len(Ids(s)) = Len(s)
           /\ \A i \in 1 .. Len(s) : Ids(s)[i] = s[i].id
<1>1. DOMAIN s = 1 .. Len(s) /\ Len(s) \in Nat
  OBVIOUS
<1>2. \A i \in 1 .. Len(s) : s[i].id \in Numbers
  BY DEF Numbers
<1> QED BY <1>1, <1>2 DEF Ids

(* The elements of a concatenation. *)
LEMMA ConcatIndex ==
    ASSUME NEW S, NEW s \in Seq(S), NEW t \in Seq(S)
    PROVE  /\ s \o t \in Seq(S) /\ Len(s \o t) = Len(s) + Len(t)
           /\ Len(s) \in Nat /\ Len(t) \in Nat
           /\ \A i \in 1 .. Len(s) : (s \o t)[i] = s[i]
           /\ \A i \in 1 .. Len(t) : (s \o t)[Len(s) + i] = t[i]
<1>1. Len(s) \in Nat /\ Len(t) \in Nat
  OBVIOUS
<1>2. /\ s \o t \in Seq(S) /\ Len(s \o t) = Len(s) + Len(t)
      /\ \A i \in 1 .. Len(s) + Len(t) :
            (s \o t)[i] = IF i <= Len(s) THEN s[i] ELSE t[i - Len(s)]
  BY ConcatProperties
<1>3. ASSUME NEW i \in 1 .. Len(s) PROVE (s \o t)[i] = s[i]
  <2>1. i \in 1 .. Len(s) + Len(t) /\ i <= Len(s)
    BY <1>1
  <2> QED BY <1>2, <2>1
<1>4. ASSUME NEW i \in 1 .. Len(t) PROVE (s \o t)[Len(s) + i] = t[i]
  <2>1. Len(s) + i \in 1 .. Len(s) + Len(t) /\ ~(Len(s) + i <= Len(s)) /\ Len(s) + i - Len(s) = i
    BY <1>1
  <2> QED BY <1>2, <2>1
<1> QED BY <1>1, <1>2, <1>3, <1>4

LEMMA IdsOfConcat ==
    ASSUME NEW s \in Seq(Datagrams), NEW t \in Seq(Datagrams)
    PROVE  Ids(s \o t) = Ids(s) \o Ids(t)
<1> DEFINE st == s \o t
           l == Ids(st)
           r == Ids(s) \o Ids(t)
<1>2. /\ st \in Seq(Datagrams) /\ Len(st) = Len(s) + Len(t)
      /\ Len(s) \in Nat /\ Len(t) \in Nat
      /\ \A i \in 1 .. Len(s) : st[i] = s[i]
      /\ \A i \in 1 .. Len(t) : st[Len(s) + i] = t[i]
  BY ConcatIndex
<1> HIDE DEF st
<1>3. /\ l \in Seq(Numbers) /\ Len(l) = Len(st)
      /\ \A i \in 1 .. Len(st) : l[i] = st[i].id
  BY <1>2, IdsAreSeq
<1>4. /\ Ids(s) \in Seq(Numbers) /\ Len(Ids(s)) = Len(s)
      /\ \A i \in 1 .. Len(s) : Ids(s)[i] = s[i].id
  BY IdsAreSeq
<1>5. /\ Ids(t) \in Seq(Numbers) /\ Len(Ids(t)) = Len(t)
      /\ \A i \in 1 .. Len(t) : Ids(t)[i] = t[i].id
  BY IdsAreSeq
<1>6. /\ r \in Seq(Numbers) /\ Len(r) = Len(s) + Len(t)
      /\ \A i \in 1 .. Len(s) : r[i] = s[i].id
      /\ \A i \in 1 .. Len(t) : r[Len(s) + i] = t[i].id
  <2>1. ASSUME NEW u \in Seq(Numbers), Len(u) = Len(s), \A i \in 1 .. Len(s) : u[i] = s[i].id,
               NEW v \in Seq(Numbers), Len(v) = Len(t), \A i \in 1 .. Len(t) : v[i] = t[i].id
        PROVE  /\ u \o v \in Seq(Numbers) /\ Len(u \o v) = Len(s) + Len(t)
               /\ \A i \in 1 .. Len(s) : (u \o v)[i] = s[i].id
               /\ \A i \in 1 .. Len(t) : (u \o v)[Len(s) + i] = t[i].id
    <3>1. /\ u \o v \in Seq(Numbers) /\ Len(u \o v) = Len(u) + Len(v)
          /\ \A i \in 1 .. Len(u) : (u \o v)[i] = u[i]
          /\ \A i \in 1 .. Len(v) : (u \o v)[Len(u) + i] = v[i]
      BY ConcatIndex
    <3> QED BY <2>1, <3>1, Zenon
  <2> QED BY <1>4, <1>5, <2>1, Zenon
<1> HIDE DEF l, r
<1>7. ASSUME NEW i \in 1 .. Len(s) PROVE l[i] = r[i]
  <2>1. i \in 1 .. Len(st)
    BY <1>2
  <2> QED BY <1>2, <1>3, <1>6, <2>1
<1>8. ASSUME NEW i \in 1 .. Len(t) PROVE l[Len(s) + i] = r[Len(s) + i]
  <2>1. Len(s) + i \in 1 .. Len(st)
    BY <1>2
  <2> QED BY <1>2, <1>3, <1>6, <2>1
<1>9. ASSUME NEW i \in 1 .. Len(l) PROVE l[i] = r[i]
  <2>1. CASE i \in 1 .. Len(s)
    BY <1>7, <2>1
  <2>2. CASE i \notin 1 .. Len(s)
    <3>1. i - Len(s) \in 1 .. Len(t) /\ Len(s) + (i - Len(s)) = i
      BY <1>2, <1>3, <1>9, <2>2
    <3> QED BY <1>8, <3>1
  <2> QED BY <2>1, <2>2
<1>10. l = r
  BY <1>2, <1>3, <1>6, <1>9, SeqEqual
<1> QED BY <1>10 DEF l, r, st

(* Rising, told from the two parts. *)
LEMMA RisingParts ==
    ASSUME NEW s \in Seq(Numbers), NEW x \in Seq(Datagrams), NEW n
    PROVE  Rising(s \o Ids(x), n) <=>
             /\ \A j \in 1 .. Len(s) : s[j] <= n
             /\ \A j \in 1 .. Len(x) : x[j].id <= n
             /\ \A i, j \in 1 .. Len(s) : i < j => s[i] < s[j]
             /\ \A i, j \in 1 .. Len(x) : i < j => x[i].id < x[j].id
             /\ \A i \in 1 .. Len(s), j \in 1 .. Len(x) : s[i] < x[j].id
<1> DEFINE t == s \o Ids(x)
           p == Len(s)
           q == Len(x)
<1>1. /\ Ids(x) \in Seq(Numbers) /\ Len(Ids(x)) = Len(x)
      /\ \A i \in 1 .. Len(x) : Ids(x)[i] = x[i].id
  BY IdsAreSeq
<1>2. /\ t \in Seq(Numbers) /\ Len(t) = p + q /\ p \in Nat /\ q \in Nat
      /\ \A i \in 1 .. p : t[i] = s[i]
      /\ \A i \in 1 .. q : t[p + i] = x[i].id
  <2>1. ASSUME NEW u \in Seq(Numbers), Len(u) = Len(x),
               \A i \in 1 .. Len(x) : u[i] = x[i].id
        PROVE  /\ s \o u \in Seq(Numbers) /\ Len(s \o u) = p + q /\ p \in Nat /\ q \in Nat
               /\ \A i \in 1 .. p : (s \o u)[i] = s[i]
               /\ \A i \in 1 .. q : (s \o u)[p + i] = x[i].id
    <3>1. /\ s \o u \in Seq(Numbers) /\ Len(s \o u) = Len(s) + Len(u)
          /\ Len(s) \in Nat /\ Len(u) \in Nat
          /\ \A i \in 1 .. Len(s) : (s \o u)[i] = s[i]
          /\ \A i \in 1 .. Len(u) : (s \o u)[Len(s) + i] = u[i]
      BY ConcatIndex
    <3> QED BY <2>1, <3>1, Zenon
  <2> QED BY <1>1, <2>1, Zenon
<1>3. DOMAIN t = 1 .. p + q
  BY <1>2, LenProperties
<1> HIDE DEF t, p, q
<1>4. \A i \in 1 .. p + q : i \in 1 .. p \/ \E j \in 1 .. q : i = p + j
  <2> TAKE i \in 1 .. p + q
  <2>1. CASE i <= p
    BY <1>2, <2>1
  <2>2. CASE i > p
    <3>1. i - p \in 1 .. q /\ i = p + (i - p)
      BY <1>2, <2>2
    <3> QED BY <3>1
  <2> QED BY <1>2, <2>1, <2>2
<1>5. /\ \A i \in 1 .. p : i \in 1 .. p + q
      /\ \A i \in 1 .. q : p + i \in 1 .. p + q
      /\ \A i \in 1 .. p, j \in 1 .. q : i < p + j /\ ~(p + j < i)
      /\ \A i, j \in 1 .. q : i < j <=> p + i < p + j
  BY <1>2
<1>6. ASSUME Rising(t, n)
      PROVE  /\ \A j \in 1 .. p : s[j] <= n
             /\ \A j \in 1 .. q : x[j].id <= n
             /\ \A i, j \in 1 .. p : i < j => s[i] < s[j]
             /\ \A i, j \in 1 .. q : i < j => x[i].id < x[j].id
             /\ \A i \in 1 .. p, j \in 1 .. q : s[i] < x[j].id
  <2>1. \A i, j \in 1 .. p + q : t[j] <= n /\ (i < j => t[i] < t[j])
    BY <1>3, <1>6 DEF Rising
  <2>2. \A j \in 1 .. p : s[j] <= n
    BY <1>2, <1>5, <2>1
  <2>3. \A j \in 1 .. q : x[j].id <= n
    BY <1>2, <1>5, <2>1
  <2>4. \A i, j \in 1 .. p : i < j => s[i] < s[j]
    BY <1>2, <1>5, <2>1
  <2>5. \A i, j \in 1 .. q : i < j => x[i].id < x[j].id
    BY <1>2, <1>5, <2>1
  <2>6. \A i \in 1 .. p, j \in 1 .. q : s[i] < x[j].id
    BY <1>2, <1>5, <2>1
  <2> QED BY <2>2, <2>3, <2>4, <2>5, <2>6
<1>7. ASSUME /\ \A j \in 1 .. p : s[j] <= n
             /\ \A j \in 1 .. q : x[j].id <= n
             /\ \A i, j \in 1 .. p : i < j => s[i] < s[j]
             /\ \A i, j \in 1 .. q : i < j => x[i].id < x[j].id
             /\ \A i \in 1 .. p, j \in 1 .. q : s[i] < x[j].id
      PROVE  Rising(t, n)
  <2>1. \A j \in 1 .. p + q : t[j] <= n
    BY <1>2, <1>4, <1>7
  <2>2. ASSUME NEW i \in 1 .. p + q, NEW j \in 1 .. p + q, i < j PROVE t[i] < t[j]
    <3>1. CASE i \in 1 .. p /\ j \in 1 .. p
      BY <1>2, <1>7, <2>2, <3>1
    <3>2. ASSUME i \in 1 .. p, NEW b \in 1 .. q, j = p + b PROVE t[i] < t[j]
      BY <1>2, <1>7, <3>2
    <3>3. ASSUME NEW a \in 1 .. q, i = p + a, NEW b \in 1 .. q, j = p + b PROVE t[i] < t[j]
      <4>1. a < b
        BY <1>2, <2>2, <3>3
      <4> QED BY <1>2, <1>7, <3>3, <4>1
    <3>4. ASSUME NEW a \in 1 .. q, i = p + a, j \in 1 .. p PROVE FALSE
      BY <1>2, <2>2, <3>4
    <3> QED BY <1>4, <3>1, <3>2, <3>3, <3>4
  <2> QED BY <1>3, <2>1, <2>2 DEF Rising
<1> QED BY <1>6, <1>7 DEF t, p, q

(* Messages that leave from the middle leave the others in order. *)
LEMMA RisingDrop ==
    ASSUME NEW s \in Seq(Numbers), NEW a \in Seq(Datagrams), NEW b \in Seq(Datagrams),
           NEW c \in Seq(Datagrams), NEW n, Rising(s \o Ids(a \o b \o c), n)
    PROVE  Rising(s \o Ids(a \o c), n)
<1> DEFINE ab == a \o b
           x == ab \o c
           y == a \o c
           lift(i) == IF i <= Len(a) THEN i ELSE i + Len(b)
<1>1. /\ ab \in Seq(Datagrams) /\ Len(ab) = Len(a) + Len(b)
      /\ Len(a) \in Nat /\ Len(b) \in Nat
      /\ \A i \in 1 .. Len(a) : ab[i] = a[i]
  BY ConcatIndex
<1>2. /\ y \in Seq(Datagrams) /\ Len(y) = Len(a) + Len(c) /\ Len(c) \in Nat
      /\ \A i \in 1 .. Len(a) : y[i] = a[i]
      /\ \A i \in 1 .. Len(c) : y[Len(a) + i] = c[i]
  BY ConcatIndex
<1>3. Rising(s \o Ids(x), n)
  OBVIOUS
<1> HIDE DEF ab, y
<1>4. /\ x \in Seq(Datagrams) /\ Len(x) = Len(ab) + Len(c)
      /\ \A i \in 1 .. Len(ab) : x[i] = ab[i]
      /\ \A i \in 1 .. Len(c) : x[Len(ab) + i] = c[i]
  <2>1. ASSUME NEW u \in Seq(Datagrams)
        PROVE  /\ u \o c \in Seq(Datagrams) /\ Len(u \o c) = Len(u) + Len(c)
               /\ \A i \in 1 .. Len(u) : (u \o c)[i] = u[i]
               /\ \A i \in 1 .. Len(c) : (u \o c)[Len(u) + i] = c[i]
    BY ConcatIndex
  <2> QED BY <1>1, <2>1, Zenon
<1> HIDE DEF x
<1>5. ASSUME NEW i \in 1 .. Len(y)
      PROVE  lift(i) \in 1 .. Len(x) /\ y[i] = x[lift(i)]
  <2>1. CASE i \in 1 .. Len(a)
    <3>1. lift(i) = i /\ i \in 1 .. Len(ab) /\ i \in 1 .. Len(x)
      BY <1>1, <1>2, <1>4, <2>1
    <3> QED BY <1>1, <1>2, <1>4, <2>1, <3>1
  <2>2. ASSUME NEW j \in 1 .. Len(c), i = Len(a) + j
        PROVE  lift(i) \in 1 .. Len(x) /\ y[i] = x[lift(i)]
    <3>1. lift(i) = Len(ab) + j /\ Len(ab) + j \in 1 .. Len(x)
      BY <1>1, <1>2, <1>4, <2>2
    <3> QED BY <1>2, <1>4, <2>2, <3>1
  <2>3. i \in 1 .. Len(a) \/ (i - Len(a) \in 1 .. Len(c) /\ i = Len(a) + (i - Len(a)))
    BY <1>1, <1>2, <1>5
  <2> QED BY <2>1, <2>2, <2>3
<1>6. ASSUME NEW i \in 1 .. Len(y), NEW j \in 1 .. Len(y), i < j
      PROVE  lift(i) < lift(j)
  BY <1>1, <1>2, <1>6
<1> HIDE DEF lift
<1>7. /\ \A j \in 1 .. Len(s) : s[j] <= n
      /\ \A j \in 1 .. Len(x) : x[j].id <= n
      /\ \A i, j \in 1 .. Len(s) : i < j => s[i] < s[j]
      /\ \A i, j \in 1 .. Len(x) : i < j => x[i].id < x[j].id
      /\ \A i \in 1 .. Len(s), j \in 1 .. Len(x) : s[i] < x[j].id
  BY <1>3, <1>4, RisingParts
<1>8. /\ \A j \in 1 .. Len(y) : y[j].id <= n
      /\ \A i, j \in 1 .. Len(y) : i < j => y[i].id < y[j].id
      /\ \A i \in 1 .. Len(s), j \in 1 .. Len(y) : s[i] < y[j].id
  BY <1>5, <1>6, <1>7
<1>9. Rising(s \o Ids(y), n)
  BY <1>2, <1>7, <1>8, RisingParts
<1> QED BY <1>9 DEF y

(* The R5 numbers its messages upwards. *)
LEMMA RisingSend ==
    ASSUME NEW s \in Seq(Numbers), NEW x \in Seq(Datagrams), NEW n \in Nat,
           NEW d \in Datagrams, d.id = n + 1, Rising(s \o Ids(x), n)
    PROVE  Rising(s \o Ids(Append(x, d)), n + 1)
<1> DEFINE y == Append(x, d)
           q == Len(x)
<1>1. /\ y \in Seq(Datagrams) /\ Len(y) = q + 1 /\ q \in Nat
      /\ \A i \in 1 .. q : y[i] = x[i]
      /\ y[q + 1].id = n + 1
  BY AppendProperties
<1>2. /\ \A j \in 1 .. Len(s) : s[j] <= n
      /\ \A j \in 1 .. q : x[j].id <= n
      /\ \A i, j \in 1 .. Len(s) : i < j => s[i] < s[j]
      /\ \A i, j \in 1 .. q : i < j => x[i].id < x[j].id
      /\ \A i \in 1 .. Len(s), j \in 1 .. q : s[i] < x[j].id
  BY RisingParts
<1>3. /\ \A j \in 1 .. Len(s) : s[j] \in Nat
      /\ \A j \in 1 .. q : x[j].id \in Nat
  <2>1. \A j \in 1 .. Len(s) : s[j] \in Numbers
    OBVIOUS
  <2>2. \A j \in 1 .. q : x[j] \in Datagrams
    OBVIOUS
  <2> QED BY <2>1, <2>2, AppAssumption, NumbersAreNat
<1> HIDE DEF y, q
<1>4. \A i \in 1 .. q + 1 : i = q + 1 \/ i \in 1 .. q
  BY <1>1
<1>5. \A j \in 1 .. Len(s) : s[j] <= n + 1
  BY <1>2, <1>3
<1>6. ASSUME NEW j \in 1 .. q + 1 PROVE y[j].id <= n + 1
  <2>1. CASE j = q + 1
    BY <1>1, <2>1
  <2>2. CASE j \in 1 .. q
    BY <1>1, <1>2, <1>3, <2>2
  <2> QED BY <1>4, <2>1, <2>2
<1>7. ASSUME NEW i \in 1 .. q + 1, NEW j \in 1 .. q + 1, i < j PROVE y[i].id < y[j].id
  <2>1. i \in 1 .. q
    BY <1>1, <1>7
  <2>2. CASE j = q + 1
    BY <1>1, <1>2, <1>3, <2>1, <2>2
  <2>3. CASE j \in 1 .. q
    BY <1>1, <1>2, <1>7, <2>1, <2>3
  <2> QED BY <1>4, <2>2, <2>3
<1>8. ASSUME NEW i \in 1 .. Len(s), NEW j \in 1 .. q + 1 PROVE s[i] < y[j].id
  <2>1. CASE j = q + 1
    BY <1>1, <1>2, <1>3, <2>1
  <2>2. CASE j \in 1 .. q
    BY <1>1, <1>2, <2>2
  <2> QED BY <1>4, <2>1, <2>2
<1>9. Rising(s \o Ids(y), n + 1)
  BY <1>1, <1>2, <1>5, <1>6, <1>7, <1>8, RisingParts
<1> QED BY <1>9 DEF y

(* Showing the first message keeps it where it is. *)
LEMMA ShowFirst ==
    ASSUME NEW s \in Seq(Numbers), NEW x \in Seq(Datagrams), NEW d \in Datagrams
    PROVE  s \o Ids(<<d>> \o x) = Append(s, d.id) \o Ids(x)
<1>1. d.id \in Numbers /\ Len(s) \in Nat /\ Len(x) \in Nat
  BY DEF Numbers
<1>2. <<d>> \in Seq(Datagrams) /\ Len(<<d>>) = 1 /\ <<d>>[1] = d
  OBVIOUS
<1>3. Ids(<<d>>) = <<d.id>>
  BY DEF Ids
<1>4. Ids(<<d>> \o x) = Ids(<<d>>) \o Ids(x)
  BY <1>2, IdsOfConcat
<1>5. Ids(x) \in Seq(Numbers) /\ <<d.id>> \in Seq(Numbers)
  BY <1>1, IdsAreSeq
<1>6. s \o (<<d.id>> \o Ids(x)) = (s \o <<d.id>>) \o Ids(x)
  <2>1. \A S : \A a, b, c \in Seq(S) : a \o (b \o c) = (a \o b) \o c
    BY ConcatAssociative
  <2>2. \A u, v \in Seq(Numbers) : s \o (u \o v) = (s \o u) \o v
    BY <2>1
  <2> QED BY <1>5, <2>2, Zenon
<1>7. Append(s, d.id) = s \o <<d.id>>
  BY <1>1, AppendIsConcat
<1> QED BY <1>3, <1>4, <1>6, <1>7

(* The four places a message is at between the channel and the dashboard. *)
Way(g, c, r, i) == g \o c \o r \o i

LEMMA Concat ==
    /\ \A a, b \in Seq(Datagrams) : a \o b \in Seq(Datagrams)
    /\ \A a, b, c \in Seq(Datagrams) : (a \o b) \o c = a \o (b \o c)
    /\ \A a \in Seq(Datagrams) : a \o <<>> = a /\ <<>> \o a = a
    /\ \A a \in Seq(Datagrams), d \in Datagrams : Append(a, d) = a \o <<d>>
    /\ \A a \in Seq(Datagrams) : a # <<>> =>
          /\ Head(a) \in Datagrams /\ Tail(a) \in Seq(Datagrams) /\ a = <<Head(a)>> \o Tail(a)
    /\ <<>> \in Seq(Datagrams)
    /\ \A d \in Datagrams : <<d>> \in Seq(Datagrams)
<1>1. \A a, b \in Seq(Datagrams) : a \o b \in Seq(Datagrams)
  BY ConcatProperties
<1>2. \A a, b, c \in Seq(Datagrams) : (a \o b) \o c = a \o (b \o c)
  BY ConcatAssociative
<1>3. \A a \in Seq(Datagrams) : a \o <<>> = a /\ <<>> \o a = a
  BY ConcatEmptySeq
<1>4. \A a \in Seq(Datagrams), d \in Datagrams : Append(a, d) = a \o <<d>>
  BY AppendIsConcat
<1>5. ASSUME NEW a \in Seq(Datagrams), a # <<>>
      PROVE  /\ Head(a) \in Datagrams /\ Tail(a) \in Seq(Datagrams)
             /\ a = <<Head(a)>> \o Tail(a)
  <2>1. /\ Head(a) \in Datagrams /\ Tail(a) \in Seq(Datagrams)
        /\ Len(Tail(a)) = Len(a) - 1 /\ Len(a) \in Nat \ {0} /\ Head(a) = a[1]
        /\ \A i \in 1 .. Len(Tail(a)) : Tail(a)[i] = a[i + 1]
    BY <1>5, HeadTailProperties, EmptySeq
  <2>2. ASSUME NEW h \in Datagrams, NEW t \in Seq(Datagrams), h = a[1],
               Len(t) = Len(a) - 1, \A i \in 1 .. Len(t) : t[i] = a[i + 1]
        PROVE  a = <<h>> \o t
    <3> DEFINE ht == <<h>> \o t
    <3>1. <<h>> \in Seq(Datagrams) /\ Len(<<h>>) = 1 /\ <<h>>[1] = h
      OBVIOUS
    <3>2. /\ ht \in Seq(Datagrams) /\ Len(ht) = 1 + Len(t) /\ Len(t) \in Nat
          /\ ht[1] = h /\ \A i \in 1 .. Len(t) : ht[1 + i] = t[i]
      BY <3>1, ConcatIndex
    <3> HIDE DEF ht
    <3>3. Len(ht) = Len(a)
      BY <2>1, <2>2, <3>2
    <3>4. ASSUME NEW i \in 1 .. Len(a) PROVE a[i] = ht[i]
      <4>1. CASE i = 1
        BY <2>2, <3>2, <4>1
      <4>2. CASE i > 1
        <5>1. i - 1 \in 1 .. Len(t) /\ 1 + (i - 1) = i /\ (i - 1) + 1 = i
          BY <2>1, <2>2, <4>2
        <5>2. ht[1 + (i - 1)] = t[i - 1] /\ t[i - 1] = a[(i - 1) + 1]
          BY <2>2, <3>2, <5>1
        <5> QED BY <5>1, <5>2
      <4> QED BY <2>1, <4>1, <4>2
    <3>5. a = ht
      BY <3>2, <3>3, <3>4, SeqEqual
    <3> QED BY <3>5 DEF ht
  <2> QED BY <2>1, <2>2, Zenon
<1>6. <<>> \in Seq(Datagrams) /\ \A d \in Datagrams : <<d>> \in Seq(Datagrams)
  OBVIOUS
<1> QED BY <1>1, <1>2, <1>3, <1>4, <1>5, <1>6

LEMMA Assoc ==
    ASSUME NEW a \in Seq(Datagrams), NEW b \in Seq(Datagrams), NEW c \in Seq(Datagrams)
    PROVE  (a \o b) \o c = a \o (b \o c)
  BY ConcatAssociative

(* A message that moves on stays in its place among the others. *)
LEMMA MoveAccept ==
    \A g, c, i \in Seq(Datagrams), d \in Datagrams :
        Way(g, Append(c, d), <<>>, i) = Way(g, c, <<d>>, i)
<1>1. ASSUME NEW g \in Seq(Datagrams), NEW c \in Seq(Datagrams),
             NEW i \in Seq(Datagrams), NEW d \in Datagrams
      PROVE  Way(g, Append(c, d), <<>>, i) = Way(g, c, <<d>>, i)
  <2>1. Append(c, d) = c \o <<d>> /\ <<d>> \in Seq(Datagrams)
    BY Concat, Zenon
  <2>2. g \o (c \o <<d>>) = (g \o c) \o <<d>>
    BY <2>1, Concat
  <2>3. ((g \o c) \o <<d>>) \o <<>> = (g \o c) \o <<d>>
    BY <2>1, Concat
  <2> QED BY <2>1, <2>2, <2>3, Zenon DEF Way
<1> QED BY <1>1, Zenon

LEMMA MoveTake ==
    \A c, r, i \in Seq(Datagrams) :
        c # <<>> => Way(<<Head(c)>>, Tail(c), r, i) = Way(<<>>, c, r, i)
<1>1. ASSUME NEW c \in Seq(Datagrams), NEW r \in Seq(Datagrams),
             NEW i \in Seq(Datagrams), c # <<>>
      PROVE  Way(<<Head(c)>>, Tail(c), r, i) = Way(<<>>, c, r, i)
  <2>1. <<Head(c)>> \o Tail(c) = c /\ <<>> \o c = c
    BY <1>1, Concat, Zenon
  <2> QED BY <2>1, Zenon DEF Way
<1> QED BY <1>1, Zenon

LEMMA MoveReceive ==
    \A g, c, i \in Seq(Datagrams) :
        i # <<>> => Way(g, c, <<Head(i)>>, Tail(i)) = Way(g, c, <<>>, i)
<1>1. ASSUME NEW g \in Seq(Datagrams), NEW c \in Seq(Datagrams),
             NEW i \in Seq(Datagrams), i # <<>>
      PROVE  Way(g, c, <<Head(i)>>, Tail(i)) = Way(g, c, <<>>, i)
  <2>1. /\ i = <<Head(i)>> \o Tail(i) /\ <<Head(i)>> \in Seq(Datagrams)
        /\ Tail(i) \in Seq(Datagrams) /\ g \o c \in Seq(Datagrams)
    BY <1>1, Concat, Zenon
  <2>2. (g \o c) \o <<>> = g \o c
    BY <2>1, Concat, Zenon
  <2>3. ((g \o c) \o <<Head(i)>>) \o Tail(i) = (g \o c) \o (<<Head(i)>> \o Tail(i))
    BY <2>1, Concat
  <2> QED BY <2>1, <2>2, <2>3, Zenon DEF Way
<1> QED BY <1>1, Zenon

LEMMA MoveShow ==
    \A c, r, i \in Seq(Datagrams), d \in Datagrams :
        Way(<<d>>, c, r, i) = <<d>> \o Way(<<>>, c, r, i)
<1>1. ASSUME NEW c \in Seq(Datagrams), NEW r \in Seq(Datagrams),
             NEW i \in Seq(Datagrams), NEW d \in Datagrams
      PROVE  Way(<<d>>, c, r, i) = <<d>> \o Way(<<>>, c, r, i)
  <2>1. <<d>> \in Seq(Datagrams) /\ c \o r \in Seq(Datagrams) /\ <<>> \o c = c
    BY Concat, Zenon
  <2>2. (<<d>> \o c) \o r = <<d>> \o (c \o r)
    BY <2>1, Concat
  <2>3. (<<d>> \o (c \o r)) \o i = <<d>> \o ((c \o r) \o i)
    BY <2>1, Concat
  <2> QED BY <2>1, <2>2, <2>3, Zenon DEF Way
<1> QED BY <1>1, Zenon

LEMMA MoveSend ==
    \A g, c, r, i \in Seq(Datagrams), d \in Datagrams :
        Way(g, c, r, Append(i, d)) = Append(Way(g, c, r, i), d)
<1>1. ASSUME NEW g \in Seq(Datagrams), NEW c \in Seq(Datagrams),
             NEW r \in Seq(Datagrams), NEW i \in Seq(Datagrams), NEW d \in Datagrams
      PROVE  Way(g, c, r, Append(i, d)) = Append(Way(g, c, r, i), d)
  <2>1. /\ <<d>> \in Seq(Datagrams) /\ g \o c \in Seq(Datagrams)
        /\ Append(i, d) = i \o <<d>>
    BY Concat, Zenon
  <2>2. (g \o c) \o r \in Seq(Datagrams)
    BY <2>1, Concat, Zenon
  <2>3. ((g \o c) \o r) \o i \in Seq(Datagrams)
    BY <2>2, Concat, Zenon
  <2>4. (((g \o c) \o r) \o i) \o <<d>> = ((g \o c) \o r) \o (i \o <<d>>)
    BY <2>1, <2>2, Concat
  <2>5. Append(((g \o c) \o r) \o i, d) = (((g \o c) \o r) \o i) \o <<d>>
    BY <2>3, Concat, Zenon
  <2> QED BY <2>1, <2>4, <2>5, Zenon DEF Way
<1> QED BY <1>1, Zenon

(* Messages dropped at one of the four places leave the others in order. *)
LEMMA DropsKeepOrder ==
    ASSUME NEW s \in Seq(Numbers), NEW n,
           NEW g \in Seq(Datagrams), NEW c \in Seq(Datagrams), NEW r \in Seq(Datagrams),
           NEW i \in Seq(Datagrams), Rising(s \o Ids(Way(g, c, r, i)), n)
    PROVE  /\ Rising(s \o Ids(Way(<<>>, c, r, i)), n)
           /\ Rising(s \o Ids(Way(g, <<>>, r, i)), n)
           /\ Rising(s \o Ids(Way(g, c, <<>>, i)), n)
           /\ Rising(s \o Ids(Way(g, c, r, <<>>)), n)
           /\ i # <<>> => Rising(s \o Ids(Way(g, c, r, Tail(i))), n)
<1>0. ASSUME NEW x \in Seq(Datagrams), NEW y \in Seq(Datagrams), NEW z \in Seq(Datagrams),
             Way(g, c, r, i) = (x \o y) \o z
      PROVE  Rising(s \o Ids(x \o z), n)
  <2>1. Rising(s \o Ids((x \o y) \o z), n)
    BY <1>0, Zenon
  <2> QED BY <2>1, RisingDrop
<1>1. Rising(s \o Ids(Way(<<>>, c, r, i)), n)
  <2>1. /\ c \o r \in Seq(Datagrams) /\ <<>> \in Seq(Datagrams) /\ <<>> \o c = c
        /\ <<>> \o g = g
    BY Concat, Zenon
  <2>2. (c \o r) \o i \in Seq(Datagrams) /\ (g \o c) \o r = g \o (c \o r)
    BY <2>1, Concat
  <2>3. (g \o (c \o r)) \o i = g \o ((c \o r) \o i)
    BY <2>1, Concat
  <2>4. <<>> \o ((c \o r) \o i) = (c \o r) \o i
    BY <2>2, Concat, Zenon
  <2>5. Way(g, c, r, i) = (<<>> \o g) \o ((c \o r) \o i)
    BY <2>1, <2>2, <2>3, Zenon DEF Way
  <2>6. Rising(s \o Ids(<<>> \o ((c \o r) \o i)), n)
    BY <1>0, <2>1, <2>2, <2>5, Zenon
  <2>7. Way(<<>>, c, r, i) = <<>> \o ((c \o r) \o i)
    BY <2>1, <2>4, Zenon DEF Way
  <2> QED BY <2>6, <2>7, Zenon
<1>2. Rising(s \o Ids(Way(g, <<>>, r, i)), n)
  <2>1. r \o i \in Seq(Datagrams) /\ g \o c \in Seq(Datagrams) /\ g \o <<>> = g
    BY Concat, Zenon
  <2>2. ((g \o c) \o r) \o i = (g \o c) \o (r \o i) /\ (g \o r) \o i = g \o (r \o i)
    BY <2>1, Assoc
  <2>3. Rising(s \o Ids(g \o (r \o i)), n)
    BY <1>0, <2>1, <2>2, Zenon DEF Way
  <2>4. Way(g, <<>>, r, i) = g \o (r \o i)
    BY <2>1, <2>2, Zenon DEF Way
  <2> QED BY <2>3, <2>4, Zenon
<1>3. Rising(s \o Ids(Way(g, c, <<>>, i)), n)
  <2>1. g \o c \in Seq(Datagrams)
    BY Concat, Zenon
  <2>2. (g \o c) \o <<>> = g \o c
    BY <2>1, Concat, Zenon
  <2>3. Rising(s \o Ids((g \o c) \o i), n)
    BY <1>0, <2>1, Zenon DEF Way
  <2>4. Way(g, c, <<>>, i) = (g \o c) \o i
    BY <2>2, Zenon DEF Way
  <2> QED BY <2>3, <2>4, Zenon
<1>4. Rising(s \o Ids(Way(g, c, r, <<>>)), n)
  <2>1. g \o c \in Seq(Datagrams) /\ <<>> \in Seq(Datagrams)
    BY Concat, Zenon
  <2>2. (g \o c) \o r \in Seq(Datagrams)
    BY <2>1, Concat, Zenon
  <2>3. ((g \o c) \o r) \o i \in Seq(Datagrams)
    BY <2>2, Concat, Zenon
  <2>4. Way(g, c, r, i) = (((g \o c) \o r) \o i) \o <<>>
    BY <2>3, Concat, Zenon DEF Way
  <2>5. Rising(s \o Ids(((g \o c) \o r) \o <<>>), n)
    BY <1>0, <2>1, <2>2, <2>4, Zenon
  <2> QED BY <2>5, Zenon DEF Way
<1>5. ASSUME i # <<>> PROVE Rising(s \o Ids(Way(g, c, r, Tail(i))), n)
  <2>1. /\ i = <<Head(i)>> \o Tail(i) /\ <<Head(i)>> \in Seq(Datagrams)
        /\ Tail(i) \in Seq(Datagrams) /\ g \o c \in Seq(Datagrams)
    BY <1>5, Concat, Zenon
  <2>2. (g \o c) \o r \in Seq(Datagrams)
    BY <2>1, Concat, Zenon
  <2>3. (((g \o c) \o r) \o <<Head(i)>>) \o Tail(i) = ((g \o c) \o r) \o (<<Head(i)>> \o Tail(i))
    BY <2>1, <2>2, Assoc
  <2>4. Way(g, c, r, i) = (((g \o c) \o r) \o <<Head(i)>>) \o Tail(i)
    BY <2>1, <2>3, Zenon DEF Way
  <2>5. Rising(s \o Ids(((g \o c) \o r) \o Tail(i)), n)
    BY <1>0, <2>1, <2>2, <2>4, Zenon
  <2> QED BY <2>5, Zenon DEF Way
<1> QED BY <1>1, <1>2, <1>3, <1>4, <1>5

-----------------------------------------------------------------------------
(* What the queue is shown to do holds of rx_queue. *)

LEMMA QueueAssumptionHolds == QP!QueueAssumption
<1>1. QP!IsFiniteSet({"rpmsg"} \cup {"gui"})
  <2>1. <<"rpmsg", "gui">> \in Seq({"rpmsg"} \cup {"gui"})
    OBVIOUS
  <2>2. \A s \in {"rpmsg"} \cup {"gui"} :
           \E n \in 1 .. Len(<<"rpmsg", "gui">>) : <<"rpmsg", "gui">>[n] = s
    OBVIOUS
  <2> QED BY <2>1, <2>2 DEF QP!IsFiniteSet
<1> QED BY <1>1, AppAssumption DEF QP!QueueAssumption, QP!Threads

(* The two names of the queue's specification. *)
LEMMA SameQueue ==
    /\ Q!Init <=> QP!Init
    /\ [Q!Next]_(Q!vars) <=> [QP!Next]_(QP!vars)
<1>1. Q!Init <=> QP!Init
  BY DEF Q!Init, QP!Init, Q!Slots, QP!Slots, Q!Threads, QP!Threads, Q!OK, QP!OK
<1>2. [Q!Next]_(Q!vars) <=> [QP!Next]_(QP!vars)
  BY DEF Q!Next, QP!Next, Q!vars, QP!vars, Q!Lifecycle, QP!Lifecycle, Q!Call, QP!Call,
     Q!Push, QP!Push, Q!Pop, QP!Pop, Q!SpuriousWakeup, QP!SpuriousWakeup,
     Q!Quiescent, QP!Quiescent, Q!Ready, QP!Ready, Q!ring, QP!ring,
     Q!QueueInit, QP!QueueInit, Q!QueueDestroy, QP!QueueDestroy,
     Q!RejectNull, QP!RejectNull, Q!Acquire, QP!Acquire, Q!Release, QP!Release,
     Q!CallPush, QP!CallPush, Q!CallPop, QP!CallPop, Q!PushLock, QP!PushLock,
     Q!PushFull, QP!PushFull, Q!PushStore, QP!PushStore, Q!PushCount, QP!PushCount,
     Q!PushSignal, QP!PushSignal, Q!PushUnlock, QP!PushUnlock, Q!PopLock, QP!PopLock,
     Q!PopWait, QP!PopWait, Q!PopTake, QP!PopTake, Q!PopCount, QP!PopCount,
     Q!PopUnlock, QP!PopUnlock, Q!Goto, QP!Goto, Q!Threads, QP!Threads,
     Q!OK, QP!OK, Q!EINVAL, QP!EINVAL, Q!ENOSPC, QP!ENOSPC
<1> QED BY <1>1, <1>2

LEMMA SameContent ==
    /\ Q!Content = QP!Content /\ Q!Offered = QP!Offered
    /\ (Q!Content)' = (QP!Content)' /\ (Q!Offered)' = (QP!Offered)'
  BY DEF Q!Content, QP!Content, Q!Offered, QP!Offered, Q!Unclaimed, QP!Unclaimed,
     Q!Lag, QP!Lag, Q!Threads, QP!Threads

LEMMA QueueInvariant == Spec => []QP!IInv
<1>1. Q!Spec <=> QP!Spec
  BY SameQueue, PTL DEF Q!Spec, QP!Spec
<1> QED BY <1>1, QueueIsUsedByItsRules, QueueAssumptionHolds, QP!InvariantHolds, PTL
        DEF QueueUsedByItsRules

(* Inside the application rx_queue is a bounded FIFO: whatever main and its
   two threads do, the ring between them keeps its promise.                *)
THEOREM RxQueueIsFifo == Spec => QP!FifoSpec
<1>1. Q!Spec <=> QP!Spec
  BY SameQueue, PTL DEF Q!Spec, QP!Spec
<1> QED BY <1>1, QueueIsUsedByItsRules, QueueAssumptionHolds, QP!RingRefinesFifo, PTL
        DEF QueueUsedByItsRules

(* The GUI worker never sleeps on rx_queue while a message in it has nobody
   awake to take it: what ShutdownUnlessIdle calls stuck is an empty queue. *)
THEOREM GuiIsWoken == Spec => []QP!NoLostWakeup
<1>1. Q!Spec <=> QP!Spec
  BY SameQueue, PTL DEF Q!Spec, QP!Spec
<1> QED BY <1>1, QueueIsUsedByItsRules, QueueAssumptionHolds, QP!NoWakeupIsLost, PTL
        DEF QueueUsedByItsRules

(* The steps of the queue, told of Q. *)
LEMMA SteadyQueue ==
    ASSUME QP!IInv, NEW t \in {"rpmsg", "gui"},
           \/ Q!CallPop(t) \/ Q!PushLock(t) \/ Q!PushStore(t) \/ Q!PushSignal(t)
           \/ Q!PushUnlock(t) \/ Q!PopLock(t) \/ Q!PopWait(t) \/ Q!PopCount(t)
           \/ Q!PopUnlock(t) \/ Q!SpuriousWakeup(t)
    PROVE  UNCHANGED <<Q!Content, Q!Offered, out>>
<1>0. t \in QP!Threads
  BY DEF QP!Threads
<1>1. CASE Q!PushStore(t)
  <2>1. QP!PushStore(t)
    BY <1>1 DEF Q!PushStore, QP!PushStore, Q!Goto, QP!Goto
  <2> QED BY <1>0, <1>1, <2>1, QueueAssumptionHolds, QP!PushStoreHidden, SameContent
          DEF QP!Steady, Q!PushStore
<1>2. CASE ~Q!PushStore(t)
  <2>1. \/ QP!CallPop(t) \/ QP!RejectNull(t)
        \/ QP!PushLock(t) \/ QP!PushSignal(t) \/ QP!PushUnlock(t)
        \/ QP!PopLock(t) \/ QP!PopWait(t) \/ QP!PopCount(t) \/ QP!PopUnlock(t)
        \/ QP!SpuriousWakeup(t)
    BY <1>2 DEF Q!CallPop, QP!CallPop, Q!PushLock, QP!PushLock, Q!PushSignal, QP!PushSignal,
       Q!PushUnlock, QP!PushUnlock, Q!PopLock, QP!PopLock, Q!PopWait, QP!PopWait,
       Q!PopCount, QP!PopCount, Q!PopUnlock, QP!PopUnlock,
       Q!SpuriousWakeup, QP!SpuriousWakeup, Q!Goto, QP!Goto, Q!Acquire, QP!Acquire,
       Q!Release, QP!Release, Q!ring, QP!ring, Q!OK, QP!OK
  <2> QED BY <1>0, <2>1, QueueAssumptionHolds, QP!SteadySteps, SameContent DEF QP!Steady
<1> QED BY <1>1, <1>2

LEMMA StillQueue ==
    ASSUME UNCHANGED queueVars
    PROVE  UNCHANGED <<Q!Content, Q!Offered>>
  BY DEF queueVars, Q!Content, Q!Offered, Q!Unclaimed, Q!Lag

LEMMA QueueSteps ==
    ASSUME QP!IInv
    PROVE  /\ \A m \in Datagrams : Q!CallPush("rpmsg", m) =>
                /\ (Q!Content)' = Q!Content
                /\ (Q!Offered)' = [Q!Offered EXCEPT !["rpmsg"] = m]
           /\ Q!PushFull("rpmsg") =>
                /\ (Q!Content)' = Q!Content /\ Len(Q!Content) = Capacity
                /\ (Q!Offered)' = [Q!Offered EXCEPT !["rpmsg"] = NoMsg]
           /\ Q!PushCount("rpmsg") =>
                /\ (Q!Content)' = Append(Q!Content, Q!Offered["rpmsg"])
                /\ Q!Offered["rpmsg"] # NoMsg
                /\ (Q!Offered)' = [Q!Offered EXCEPT !["rpmsg"] = NoMsg]
           /\ Q!PopTake("gui") =>
                /\ Q!Content # <<>> /\ (Q!Content)' = Tail(Q!Content)
                /\ out' = [out EXCEPT !["gui"] = Head(Q!Content)]
                /\ (Q!Offered)' = Q!Offered
<1>0. "rpmsg" \in QP!Threads /\ "gui" \in QP!Threads
  BY DEF QP!Threads
<1>1. ASSUME NEW m \in Datagrams, Q!CallPush("rpmsg", m)
      PROVE  /\ (Q!Content)' = Q!Content
             /\ (Q!Offered)' = [Q!Offered EXCEPT !["rpmsg"] = m]
  <2>1. QP!CallPush("rpmsg", m)
    BY <1>1 DEF Q!CallPush, QP!CallPush, Q!Goto, QP!Goto, Q!ring, QP!ring
  <2> QED BY <1>0, <2>1, QueueAssumptionHolds, QP!CallPushOffers, SameContent
<1>2. ASSUME Q!PushFull("rpmsg")
      PROVE  /\ (Q!Content)' = Q!Content /\ Len(Q!Content) = Capacity
             /\ (Q!Offered)' = [Q!Offered EXCEPT !["rpmsg"] = NoMsg]
  <2>1. QP!PushFull("rpmsg")
    BY <1>2 DEF Q!PushFull, QP!PushFull, Q!Goto, QP!Goto, Q!Release, QP!Release,
       Q!ring, QP!ring, Q!ENOSPC, QP!ENOSPC
  <2> QED BY <1>0, <2>1, QueueAssumptionHolds, QP!PushFullRefuses, SameContent
<1>3. ASSUME Q!PushCount("rpmsg")
      PROVE  /\ (Q!Content)' = Append(Q!Content, Q!Offered["rpmsg"])
             /\ Q!Offered["rpmsg"] # NoMsg
             /\ (Q!Offered)' = [Q!Offered EXCEPT !["rpmsg"] = NoMsg]
  <2>1. QP!PushCount("rpmsg")
    BY <1>3 DEF Q!PushCount, QP!PushCount, Q!Goto, QP!Goto
  <2> QED BY <1>0, <2>1, QueueAssumptionHolds, QP!PushCountAppends, SameContent
<1>4. ASSUME Q!PopTake("gui")
      PROVE  /\ Q!Content # <<>> /\ (Q!Content)' = Tail(Q!Content)
             /\ out' = [out EXCEPT !["gui"] = Head(Q!Content)]
             /\ (Q!Offered)' = Q!Offered
  <2>1. QP!PopTake("gui")
    BY <1>4 DEF Q!PopTake, QP!PopTake, Q!Goto, QP!Goto
  <2> QED BY <1>0, <2>1, QueueAssumptionHolds, QP!PopTakesHead, SameContent
<1> QED BY <1>1, <1>2, <1>3, <1>4

-----------------------------------------------------------------------------
(* The flow of messages: what can happen to the four places. *)

LEMMA FlowTo ==
    ASSUME NEW s \in Seq(Numbers), NEW n \in Nat,
           NEW g \in Seq(Datagrams), NEW c \in Seq(Datagrams), NEW r \in Seq(Datagrams),
           NEW i, Rising(s \o Ids(Way(g, c, r, i)), n),
           GuiHolds' = g, RingHolds' = c, RpmsgHolds' = r, ChannelHolds' = i,
           shown' = s, sent' = n
    PROVE  FlowInv'
<1>1. OnTheWay' = Way(g, c, r, i)
  BY DEF OnTheWay, Way
<1>2. (Rising(shown \o Ids(OnTheWay), sent))' <=> Rising(s \o Ids(Way(g, c, r, i)), n)
  BY <1>1 DEF Rising, Ids
<1> QED BY <1>2 DEF FlowInv

LEMMA FlowNow ==
    ASSUME FlowInv
    PROVE  /\ shown \in Seq(Numbers) /\ sent \in Nat
           /\ GuiHolds \in Seq(Datagrams) /\ RingHolds \in Seq(Datagrams)
           /\ RpmsgHolds \in Seq(Datagrams)
           /\ Rising(shown \o Ids(Way(GuiHolds, RingHolds, RpmsgHolds, ChannelHolds)), sent)
  BY DEF FlowInv, OnTheWay, Way

LEMMA FlowKept ==
    ASSUME FlowInv, UNCHANGED <<GuiHolds, RingHolds, RpmsgHolds, ChannelHolds, shown, sent>>
    PROVE  FlowInv'
  BY FlowNow, FlowTo

(* A place is emptied, or the oldest message of the channel is dropped. *)
LEMMA FlowDrops ==
    ASSUME FlowInv, ChannelHolds \in Seq(Datagrams), UNCHANGED <<shown, sent>>,
           \/ GuiHolds' = <<>> /\ UNCHANGED <<RingHolds, RpmsgHolds, ChannelHolds>>
           \/ RingHolds' = <<>> /\ UNCHANGED <<GuiHolds, RpmsgHolds, ChannelHolds>>
           \/ RpmsgHolds' = <<>> /\ UNCHANGED <<GuiHolds, RingHolds, ChannelHolds>>
           \/ ChannelHolds' = <<>> /\ UNCHANGED <<GuiHolds, RingHolds, RpmsgHolds>>
           \/ /\ ChannelHolds # <<>> /\ ChannelHolds' = Tail(ChannelHolds)
              /\ UNCHANGED <<GuiHolds, RingHolds, RpmsgHolds>>
    PROVE  FlowInv'
<1> DEFINE w(g, c, r, i) == Rising(shown \o Ids(Way(g, c, r, i)), sent)
<1>1. /\ shown \in Seq(Numbers) /\ sent \in Nat
      /\ GuiHolds \in Seq(Datagrams) /\ RingHolds \in Seq(Datagrams)
      /\ RpmsgHolds \in Seq(Datagrams)
      /\ w(GuiHolds, RingHolds, RpmsgHolds, ChannelHolds)
  BY FlowNow
<1>2. /\ w(<<>>, RingHolds, RpmsgHolds, ChannelHolds)
      /\ w(GuiHolds, <<>>, RpmsgHolds, ChannelHolds)
      /\ w(GuiHolds, RingHolds, <<>>, ChannelHolds)
      /\ w(GuiHolds, RingHolds, RpmsgHolds, <<>>)
      /\ ChannelHolds # <<>> => w(GuiHolds, RingHolds, RpmsgHolds, Tail(ChannelHolds))
  BY <1>1, DropsKeepOrder
<1>3. <<>> \in Seq(Datagrams)
  OBVIOUS
<1>4. CASE GuiHolds' = <<>> /\ UNCHANGED <<RingHolds, RpmsgHolds, ChannelHolds>>
  BY <1>1, <1>2, <1>3, <1>4, FlowTo
<1>5. CASE RingHolds' = <<>> /\ UNCHANGED <<GuiHolds, RpmsgHolds, ChannelHolds>>
  BY <1>1, <1>2, <1>3, <1>5, FlowTo
<1>6. CASE RpmsgHolds' = <<>> /\ UNCHANGED <<GuiHolds, RingHolds, ChannelHolds>>
  BY <1>1, <1>2, <1>3, <1>6, FlowTo
<1>7. CASE ChannelHolds' = <<>> /\ UNCHANGED <<GuiHolds, RingHolds, RpmsgHolds>>
  BY <1>1, <1>2, <1>3, <1>7, FlowTo
<1>8. CASE /\ ChannelHolds # <<>> /\ ChannelHolds' = Tail(ChannelHolds)
           /\ UNCHANGED <<GuiHolds, RingHolds, RpmsgHolds>>
  BY <1>1, <1>2, <1>3, <1>8, FlowTo
<1> QED BY <1>4, <1>5, <1>6, <1>7, <1>8

(* A message moves on by one place. *)
LEMMA FlowReceive ==
    ASSUME FlowInv, ChannelHolds \in Seq(Datagrams), ChannelHolds # <<>>, RpmsgHolds = <<>>,
           RpmsgHolds' = <<Head(ChannelHolds)>>, ChannelHolds' = Tail(ChannelHolds),
           UNCHANGED <<shown, sent, GuiHolds, RingHolds>>
    PROVE  FlowInv'
<1>1. Head(ChannelHolds) \in Datagrams /\ <<Head(ChannelHolds)>> \in Seq(Datagrams)
  OBVIOUS
<1>2. Way(GuiHolds, RingHolds, <<Head(ChannelHolds)>>, Tail(ChannelHolds))
        = Way(GuiHolds, RingHolds, RpmsgHolds, ChannelHolds)
  <2>1. GuiHolds \in Seq(Datagrams) /\ RingHolds \in Seq(Datagrams)
    BY FlowNow
  <2> QED BY <1>1, <2>1, MoveReceive, Zenon
<1>3. Tail(ChannelHolds) \in Seq(Datagrams)
  OBVIOUS
<1> QED BY <1>1, <1>2, <1>3, FlowNow, FlowTo

LEMMA FlowAccept ==
    ASSUME FlowInv, NEW d, RpmsgHolds = <<d>>, RpmsgHolds' = <<>>,
           RingHolds' = Append(RingHolds, d),
           ChannelHolds \in Seq(Datagrams), UNCHANGED <<shown, sent, GuiHolds, ChannelHolds>>
    PROVE  FlowInv'
<1>1. d \in Datagrams
  <2>1. RpmsgHolds \in Seq(Datagrams) /\ Len(RpmsgHolds) = 1 /\ RpmsgHolds[1] = d
    BY FlowNow
  <2> QED BY <2>1
<1>2. Way(GuiHolds, Append(RingHolds, d), <<>>, ChannelHolds)
        = Way(GuiHolds, RingHolds, RpmsgHolds, ChannelHolds)
  <2>1. GuiHolds \in Seq(Datagrams) /\ RingHolds \in Seq(Datagrams)
    BY FlowNow
  <2> QED BY <1>1, <2>1, MoveAccept, Zenon
<1>3. Append(RingHolds, d) \in Seq(Datagrams) /\ <<>> \in Seq(Datagrams)
  BY <1>1, FlowNow
<1> QED BY <1>2, <1>3, FlowNow, FlowTo

LEMMA FlowTake ==
    ASSUME FlowInv, RingHolds # <<>>, GuiHolds = <<>>, GuiHolds' = <<Head(RingHolds)>>,
           RingHolds' = Tail(RingHolds),
           ChannelHolds \in Seq(Datagrams), UNCHANGED <<shown, sent, RpmsgHolds, ChannelHolds>>
    PROVE  FlowInv'
<1>1. /\ Head(RingHolds) \in Datagrams /\ <<Head(RingHolds)>> \in Seq(Datagrams)
      /\ Tail(RingHolds) \in Seq(Datagrams)
  BY FlowNow
<1>2. Way(<<Head(RingHolds)>>, Tail(RingHolds), RpmsgHolds, ChannelHolds)
        = Way(GuiHolds, RingHolds, RpmsgHolds, ChannelHolds)
  <2>1. RingHolds \in Seq(Datagrams) /\ RpmsgHolds \in Seq(Datagrams)
    BY FlowNow
  <2> QED BY <1>1, <2>1, MoveTake, Zenon
<1> QED BY <1>1, <1>2, FlowNow, FlowTo

LEMMA FlowShow ==
    ASSUME FlowInv, NEW d, GuiHolds = <<d>>, GuiHolds' = <<>>, shown' = Append(shown, d.id),
           ChannelHolds \in Seq(Datagrams), UNCHANGED <<sent, RingHolds, RpmsgHolds, ChannelHolds>>
    PROVE  FlowInv'
<1>1. d \in Datagrams
  <2>1. GuiHolds \in Seq(Datagrams) /\ Len(GuiHolds) = 1 /\ GuiHolds[1] = d
    BY FlowNow
  <2> QED BY <2>1
<1> DEFINE later == Way(<<>>, RingHolds, RpmsgHolds, ChannelHolds)
<1>2. Way(GuiHolds, RingHolds, RpmsgHolds, ChannelHolds) = <<d>> \o later
  <2>1. RingHolds \in Seq(Datagrams) /\ RpmsgHolds \in Seq(Datagrams)
    BY FlowNow
  <2> QED BY <1>1, <2>1, MoveShow, Zenon
<1>3. later \in Seq(Datagrams)
  <2>1. <<>> \o RingHolds \in Seq(Datagrams)
    BY FlowNow
  <2>2. (<<>> \o RingHolds) \o RpmsgHolds \in Seq(Datagrams)
    BY <2>1, FlowNow
  <2> QED BY <2>2 DEF Way
<1>4. shown \o Ids(<<d>> \o later) = Append(shown, d.id) \o Ids(later)
  <2> HIDE DEF later
  <2> QED BY <1>1, <1>3, FlowNow, ShowFirst
<1>5. Append(shown, d.id) \in Seq(Numbers)
  BY <1>1, FlowNow DEF Numbers
<1>6. Rising(Append(shown, d.id) \o Ids(Way(<<>>, RingHolds, RpmsgHolds, ChannelHolds)), sent)
  <2>1. Rising(shown \o Ids(Way(GuiHolds, RingHolds, RpmsgHolds, ChannelHolds)), sent)
    BY FlowNow
  <2> QED BY <1>2, <1>4, <2>1, Zenon
<1>7. <<>> \in Seq(Datagrams)
  OBVIOUS
<1> QED BY <1>5, <1>6, <1>7, FlowNow, FlowTo

LEMMA FlowSend ==
    ASSUME FlowInv, NEW d \in Datagrams, d.id = sent + 1, sent' = sent + 1,
           ChannelHolds \in Seq(Datagrams), ChannelHolds' = Append(ChannelHolds, d),
           UNCHANGED <<shown, GuiHolds, RingHolds, RpmsgHolds>>
    PROVE  FlowInv'
<1> DEFINE way == Way(GuiHolds, RingHolds, RpmsgHolds, ChannelHolds)
<1>1. Way(GuiHolds, RingHolds, RpmsgHolds, Append(ChannelHolds, d)) = Append(way, d)
  <2>1. /\ GuiHolds \in Seq(Datagrams) /\ RingHolds \in Seq(Datagrams)
        /\ RpmsgHolds \in Seq(Datagrams)
    BY FlowNow
  <2>2. \A i \in Seq(Datagrams), e \in Datagrams :
          Way(GuiHolds, RingHolds, RpmsgHolds, Append(i, e))
            = Append(Way(GuiHolds, RingHolds, RpmsgHolds, i), e)
    BY <2>1, MoveSend, Zenon
  <2> QED BY <2>2, Zenon
<1>2. way \in Seq(Datagrams)
  <2>1. GuiHolds \o RingHolds \in Seq(Datagrams)
    BY FlowNow
  <2>2. (GuiHolds \o RingHolds) \o RpmsgHolds \in Seq(Datagrams)
    BY <2>1, FlowNow
  <2> QED BY <2>2 DEF Way
<1>3. Rising(shown \o Ids(Append(way, d)), sent + 1)
  <2> HIDE DEF way
  <2>1. Rising(shown \o Ids(way), sent)
    BY FlowNow DEF way
  <2> QED BY <1>2, <2>1, FlowNow, RisingSend
<1>4. sent + 1 \in Nat
  BY FlowNow
<1>5. Rising(shown \o Ids(Way(GuiHolds, RingHolds, RpmsgHolds, Append(ChannelHolds, d))), sent + 1)
  BY <1>1, <1>3
<1> QED BY <1>4, <1>5, FlowNow, FlowTo
-----------------------------------------------------------------------------
(* Every step of the application moves one message on, sends one or drops
   one where the code says so, or leaves them all where they are.          *)

Still == UNCHANGED <<GuiHolds, RingHolds, RpmsgHolds, ChannelHolds, shown, sent>>

Sends ==
    /\ \E d \in Datagrams : d.id = sent + 1 /\ ChannelHolds' = Append(ChannelHolds, d)
    /\ sent' = sent + 1
    /\ UNCHANGED <<GuiHolds, RingHolds, RpmsgHolds, shown>>

Receives ==
    /\ ~file[3].hung /\ RpmsgHolds = <<>> /\ ChannelHolds # <<>>
    /\ RpmsgHolds' = <<Head(ChannelHolds)>> /\ ChannelHolds' = Tail(ChannelHolds)
    /\ UNCHANGED <<GuiHolds, RingHolds, shown, sent>>

CutsShort ==
    /\ rpc = "receiving" /\ ChannelHolds # <<>> /\ Head(ChannelHolds).len < MsgSize
    /\ ChannelHolds' = Tail(ChannelHolds)
    /\ UNCHANGED <<GuiHolds, RingHolds, RpmsgHolds, shown, sent>>

Accepts ==
    /\ \E d : RpmsgHolds = <<d>> /\ RingHolds' = Append(RingHolds, d)
    /\ RpmsgHolds' = <<>>
    /\ UNCHANGED <<GuiHolds, ChannelHolds, shown, sent>>

Refuses ==
    /\ rpc = "pushing" /\ count = Capacity /\ Len(RingHolds) = Capacity
    /\ RpmsgHolds' = <<>>
    /\ UNCHANGED <<GuiHolds, RingHolds, ChannelHolds, shown, sent>>

Takes ==
    /\ GuiHolds = <<>> /\ RingHolds # <<>>
    /\ GuiHolds' = <<Head(RingHolds)>> /\ RingHolds' = Tail(RingHolds)
    /\ UNCHANGED <<RpmsgHolds, ChannelHolds, shown, sent>>

Shows ==
    /\ gpc = "show" /\ GuiHolds = <<out["gui"]>> /\ GuiHolds' = <<>>
    /\ \/ out["gui"].kind \in {"sensor", "heartbeat"} /\ shown' = Append(shown, out["gui"].id)
       \/ out["gui"].kind \notin {"sensor", "heartbeat"} /\ UNCHANGED shown
    /\ UNCHANGED <<RingHolds, RpmsgHolds, ChannelHolds, sent>>

Closes ==
    /\ rpc = "close" /\ ChannelHolds' = <<>>
    /\ UNCHANGED <<GuiHolds, RingHolds, RpmsgHolds, shown, sent>>

Dies ==
    /\ file'[3].hung /\ ChannelHolds' = <<>>
    /\ UNCHANGED <<GuiHolds, RingHolds, RpmsgHolds, shown, sent>>

Destroys ==
    /\ mainPc = "destroyRx" /\ rpc \in Inactive /\ gpc \in Inactive
    /\ GuiHolds = <<>> /\ RpmsgHolds = <<>> /\ RingHolds' = <<>>
    /\ UNCHANGED <<GuiHolds, RpmsgHolds, ChannelHolds, shown, sent>>

FlowStep ==
    \/ Still \/ Sends \/ Receives \/ CutsShort \/ Accepts \/ Refuses \/ Takes \/ Shows
    \/ Closes \/ Dies \/ Destroys

(* Before a thread runs there is nothing in the queue, and a descriptor that
   is not in use holds nothing.                                            *)
Fresh ==
    /\ mainPc \in {"initTx", "dropRx"} => count = 0
    /\ file[3].path = NoPath => file[3] = D!Unused

LEMMA InitFresh == Init => Fresh
  BY DEF Init, Fresh, Q!Init, D!Init

LEMMA NextFresh == ASSUME AppInv, D!IInv, Fresh, [Next]_vars PROVE Fresh'
<1> USE DEF mainVars, signalVars
<1>0. file \in [{3} -> D!FileType]
  BY DEF D!IInv, D!TypeOK
<1>1. ASSUME mainPc' \in {"initTx", "dropRx"} PROVE count' = 0
  <2>1. CASE Main
    BY <1>1, <2>1 DEF Fresh, Main, CatchSignal, InitRxQueue, InitTxQueue, SpawnRpmsg, SpawnGui,
       Join, DestroyRxQueue, DestroyTxQueue, Exit, MainGoto, queueVars, Q!QueueInit
  <2>2. ASSUME NEW sig \in Signals, Signal(sig) PROVE count' = 0
    BY <1>1, <2>2 DEF Fresh, Signal, queueVars
  <2>3. CASE RpmsgWorker
    <3>1. ~RpmsgPush
      BY <1>1, <2>3 DEF RpmsgPush, RpmsgGoto, RpmsgRest, AppInv, MainInv
    <3> QED BY <1>1, <2>3, <3>1 DEF Fresh, RpmsgWorker, RpmsgOpen, RpmsgTest, RpmsgPoll,
               RpmsgRecv, RpmsgClose, RpmsgRest, queueVars
  <2>4. CASE GuiWorker
    <3>1. ~GuiPop
      BY <1>1, <2>4 DEF GuiPop, GuiGoto, GuiRest, AppInv, MainInv
    <3> QED BY <1>1, <2>4, <3>1 DEF Fresh, GuiWorker, GuiTest, GuiShow, GuiRest, queueVars
  <2>5. CASE GuiSpuriousWakeup
    BY <1>1, <2>5 DEF Fresh, GuiSpuriousWakeup, GuiRest, Q!SpuriousWakeup, Q!ring
  <2>6. CASE R5 \/ UNCHANGED vars
    BY <1>1, <2>6 DEF Fresh, R5, vars, queueVars
  <2> QED BY <2>1, <2>2, <2>3, <2>4, <2>5, <2>6 DEF Next
<1>2. UNCHANGED file => (file[3].path = NoPath => file[3] = D!Unused)'
  BY DEF Fresh, D!Unused
<1>3. (file[3].path = NoPath => file[3] = D!Unused)'
  <2>1. CASE UNCHANGED D!vars
    BY <1>2, <2>1 DEF D!vars
  <2>2. CASE D!Next
    <3>1. CASE \E c \in {"rpmsg"} : D!Lifecycle(c)
      <4>1. \/ UNCHANGED file
            \/ \E f : file' = [file EXCEPT ![f] = D!Unused]
            \/ \E f, p : file' = [file EXCEPT ![f] = [D!Unused EXCEPT !.path = p]]
        BY <3>1 DEF D!Lifecycle, D!CtxInit, D!OpenCall, D!OpenFile, D!Close, D!Released
      <4>2. CASE \E f : file' = [file EXCEPT ![f] = D!Unused]
        BY <1>0, <4>2 DEF Fresh
      <4>3. CASE \E f, p : file' = [file EXCEPT ![f] = [D!Unused EXCEPT !.path = p]]
        <5>1. PICK f, p : file' = [file EXCEPT ![f] = [D!Unused EXCEPT !.path = p]]
          BY <4>3
        <5>2. CASE f = 3
          BY <1>0, <5>1, <5>2 DEF D!Unused
        <5>3. CASE f # 3
          BY <1>0, <5>1, <5>3 DEF Fresh, D!Unused
        <5> QED BY <5>2, <5>3
      <4> QED BY <1>2, <4>1, <4>2, <4>3
    <3>2. CASE \E c \in {"rpmsg"} : D!Receive(c)
      <4>1. \/ UNCHANGED file
            \/ \E f : file[f].inbox # <<>> /\ file' = [file EXCEPT ![f].inbox = Tail(@)]
        BY <3>2 DEF D!Receive, D!PollReady, D!ReadCall, D!ReadPoll, D!ReadFile
      <4>2. ASSUME NEW f, file[f].inbox # <<>>, file' = [file EXCEPT ![f].inbox = Tail(@)]
            PROVE  (file[3].path = NoPath => file[3] = D!Unused)'
        <5>1. CASE f = 3
          <6>1. file'[3].path = file[3].path
            BY <1>0, <4>2, <5>1 DEF D!FileType
          <6>2. file[3].path # NoPath
            BY <4>2, <5>1 DEF Fresh, D!Unused
          <6> QED BY <6>1, <6>2
        <5>2. CASE f # 3
          BY <1>0, <4>2, <5>2 DEF Fresh, D!Unused
        <5> QED BY <5>1, <5>2
      <4> QED BY <1>2, <4>1, <4>2
    <3>3. CASE \E c \in {"rpmsg"} : D!Transmit(c)
      BY <1>2, <3>3 DEF D!Transmit, D!Write, D!ResetStats
    <3>4. CASE D!R5
      BY <1>0, <1>2, <3>4, AppAssumption DEF Fresh, D!R5, D!Start, D!Stop, D!Deliver, D!InUse,
         D!Unused, Device, D!FileType
    <3> QED BY <2>2, <3>1, <3>2, <3>3, <3>4 DEF D!Next
  <2> QED BY <2>1, <2>2, NextIsDriverStep
<1> QED BY <1>1, <1>3 DEF Fresh

LEMMA InboxIsSeq ==
    ASSUME D!IInv
    PROVE  ChannelHolds \in Seq(Datagrams)
<1>1. file[3].inbox \in Seq(Datagrams)
  BY DEF D!IInv, D!TypeOK, D!FileType
<1> QED BY <1>1 DEF ChannelHolds

(* What the queue holds counts while it is initialised. *)
LEMMA RingStill ==
    ASSUME UNCHANGED <<Q!Content, live>>
    PROVE  UNCHANGED RingHolds
  BY DEF RingHolds, Q!Ready

LEMMA RingOpen ==
    ASSUME AppInv, rpc \notin Inactive \/ gpc \notin Inactive, UNCHANGED live
    PROVE  RingHolds = Q!Content /\ RingHolds' = (Q!Content)'
  BY DEF AppInv, MainInv, RingHolds, Q!Ready

LEMMA GuiHoldsStill ==
    ASSUME UNCHANGED <<gpc, out>>,
           \/ UNCHANGED qpc
           \/ /\ qpc["gui"] \notin {"popCount", "popUnlock"}
              /\ qpc'["gui"] \notin {"popCount", "popUnlock"}
           \/ qpc'["gui"] = qpc["gui"]
    PROVE  UNCHANGED GuiHolds
  BY DEF GuiHolds

LEMMA RpmsgHoldsStill ==
    ASSUME UNCHANGED Q!Offered,
           \/ UNCHANGED <<rpc, buf>>
           \/ rpc # "push" /\ rpc' # "push"
    PROVE  UNCHANGED RpmsgHolds
  BY DEF RpmsgHolds

(* Outside msg_queue_push the worker offers the queue nothing. *)
LEMMA NothingOffered ==
    ASSUME AppInv, rpc # "pushing"
    PROVE  Q!Offered["rpmsg"] = NoMsg
  BY DEF AppInv, CallerInv, Q!Offered, Q!Threads

(* A worker that does not run holds nothing. *)
LEMMA IdleHoldsNothing ==
    ASSUME AppInv, rpc \in Inactive, gpc \in Inactive
    PROVE  GuiHolds = <<>> /\ RpmsgHolds = <<>>
<1>1. Q!Offered["rpmsg"] = NoMsg
  BY NothingOffered DEF Inactive
<1> QED BY <1>1 DEF AppInv, CallerInv, Inactive, GuiHolds, RpmsgHolds

LEMMA MainMovesFlow ==
    ASSUME AppInv, D!IInv, QP!IInv, Fresh, Main
    PROVE  FlowStep
<1> USE DEF mainVars, signalVars
<1>1. CASE InitRxQueue
  <2>1. PICK made \in SUBSET {"lock", "cond"} : Q!QueueInit(made)
    BY <1>1 DEF InitRxQueue
  <2>2. QP!QueueInit(made)
    BY <2>1 DEF Q!QueueInit, QP!QueueInit
  <2>3. QP!Quiescent
    BY <1>1 DEF AppInv, CallerInv, MainInv, InitRxQueue, MainGoto, QP!Quiescent, QP!Threads,
       Q!Threads
  <2>4. (Q!Content)' = <<>> /\ UNCHANGED Q!Offered
    BY <2>2, <2>3, QueueAssumptionHolds, QP!LifecycleSteps, SameContent
  <2>5. UNCHANGED <<GuiHolds, RpmsgHolds>>
    BY <1>1, <2>1, <2>4, GuiHoldsStill, RpmsgHoldsStill
       DEF InitRxQueue, Q!QueueInit, deviceVars
  <2>6. RingHolds = <<>> /\ RingHolds' = <<>>
    <3>1. ~Q!Ready
      BY <1>1 DEF InitRxQueue, MainGoto, AppInv, MainInv
    <3> QED BY <2>4, <3>1 DEF RingHolds
  <2> QED BY <1>1, <2>5, <2>6 DEF InitRxQueue, deviceVars, ChannelHolds, FlowStep, Still
<1>2. CASE DestroyRxQueue
  <2>1. UNCHANGED <<Q!Content, Q!Offered>>
    BY <1>2 DEF DestroyRxQueue, Q!QueueDestroy, Q!ring, Q!Content, Q!Offered, Q!Unclaimed,
       Q!Lag
  <2>2. UNCHANGED <<GuiHolds, RpmsgHolds, ChannelHolds, shown, sent>>
    BY <1>2, <2>1, GuiHoldsStill, RpmsgHoldsStill
       DEF DestroyRxQueue, Q!QueueDestroy, deviceVars, ChannelHolds
  <2>3. RingHolds' = <<>>
    <3>1. live' = {}
      BY <1>2 DEF DestroyRxQueue, Q!QueueDestroy
    <3> QED BY <3>1 DEF RingHolds, Q!Ready
  <2>4. CASE mainPc = "dropRx"
    <3>1. count = 0 /\ Q!Lag # -1
      BY <2>4 DEF Fresh, AppInv, MainInv, CallerInv, Q!Lag, Q!Threads, QP!IInv, QP!TypeOK,
         QP!Threads
    <3>2. Q!Content = <<>>
      BY <3>1 DEF Q!Content, Q!Unclaimed, QP!IInv, QP!TypeOK
    <3>3. RingHolds = <<>>
      BY <3>2 DEF RingHolds
    <3> QED BY <2>2, <2>3, <3>3 DEF FlowStep, Still
  <2>5. CASE mainPc = "destroyRx"
    <3>1. rpc \in Inactive /\ gpc \in Inactive
      BY <2>5 DEF AppInv, MainInv
    <3>2. GuiHolds = <<>> /\ RpmsgHolds = <<>>
      BY <3>1, IdleHoldsNothing
    <3> QED BY <2>2, <2>3, <2>5, <3>1, <3>2 DEF FlowStep, Destroys
  <2> QED BY <1>2, <2>4, <2>5 DEF DestroyRxQueue
<1>3. CASE ~InitRxQueue /\ ~DestroyRxQueue
  <2>1. UNCHANGED <<queueVars, deviceVars, sent, shown>>
    BY <1>3 DEF Main, CatchSignal, InitTxQueue, SpawnRpmsg, SpawnGui, Join, DestroyTxQueue, Exit
  <2>2. UNCHANGED <<Q!Content, Q!Offered>>
    BY <2>1, StillQueue
  <2>3. UNCHANGED RpmsgHolds
    <3>2. UNCHANGED rpc \/ (rpc # "push" /\ rpc' # "push")
      BY <1>3 DEF Main, CatchSignal, InitTxQueue, SpawnRpmsg, SpawnGui, Join,
         DestroyTxQueue, Exit, AppInv, MainInv, MainGoto
    <3> QED BY <2>1, <2>2, <3>2, RpmsgHoldsStill DEF deviceVars
  <2>4. UNCHANGED GuiHolds
    <3>1. UNCHANGED gpc \/ (gpc # "show" /\ gpc' # "show")
      BY <1>3 DEF Main, CatchSignal, InitTxQueue, SpawnRpmsg, SpawnGui, Join,
         DestroyTxQueue, Exit, AppInv, MainInv, MainGoto
    <3> QED BY <2>1, <3>1 DEF queueVars, GuiHolds
  <2>5. UNCHANGED RingHolds
    BY <2>1, <2>2, RingStill DEF queueVars
  <2> QED BY <2>1, <2>3, <2>4, <2>5 DEF deviceVars, ChannelHolds, FlowStep, Still
<1> QED BY <1>1, <1>2, <1>3

(* The worker's steps on its channel. *)
LEMMA ChannelMovesFlow ==
    ASSUME AppInv, D!IInv, Fresh, RpmsgOpen \/ RpmsgTest \/ RpmsgPoll \/ RpmsgClose
    PROVE  FlowStep
<1> USE DEF RpmsgRest, mainVars, signalVars
<1>1. UNCHANGED <<queueVars, gpc, sent, shown>>
  BY DEF RpmsgOpen, RpmsgTest, RpmsgPoll, RpmsgClose
<1>2. UNCHANGED <<RingHolds, Q!Offered, GuiHolds>>
  BY <1>1, StillQueue, RingStill, GuiHoldsStill DEF queueVars
<1>3. UNCHANGED RpmsgHolds
  <2>1. rpc # "push" /\ rpc' # "push"
    BY DEF RpmsgOpen, RpmsgTest, RpmsgPoll, RpmsgClose, RpmsgGoto
  <2> QED BY <1>2, <2>1, RpmsgHoldsStill
<1>4. UNCHANGED ChannelHolds \/ (rpc = "close" /\ ChannelHolds' = <<>>)
  <2>0. file \in [{3} -> D!FileType]
    BY DEF D!IInv, D!TypeOK
  <2>1. CASE RpmsgOpen
    <3>1. CASE D!OpenFile("rpmsg")
      BY <2>0, <3>1 DEF Fresh, D!OpenFile, D!LowestFree, D!InUse, D!Unused, ChannelHolds
    <3>2. CASE D!CtxInit("rpmsg") \/ D!OpenCall("rpmsg", Device)
      BY <2>0, <2>1, <3>2 DEF RpmsgOpen, RpmsgGoto, AppInv, ChannelInv, D!CtxInit, D!OpenCall,
         D!Released, D!IsOpen, D!NoFd, ChannelHolds
    <3> QED BY <2>1, <3>1, <3>2 DEF RpmsgOpen
  <2>2. CASE RpmsgTest \/ RpmsgPoll
    BY <2>2 DEF RpmsgTest, RpmsgPoll, D!PollReady, deviceVars, ChannelHolds
  <2>3. CASE RpmsgClose
    BY <2>0, <2>3 DEF RpmsgClose, RpmsgGoto, AppInv, ChannelInv, D!Close, D!Released, D!IsOpen,
       D!Unused, ChannelHolds
  <2> QED BY <2>1, <2>2, <2>3
<1> QED BY <1>1, <1>2, <1>3, <1>4 DEF FlowStep, Still, Closes

LEMMA RecvMovesFlow ==
    ASSUME AppInv, D!IInv, RpmsgRecv
    PROVE  FlowStep
<1> USE DEF RpmsgRest, mainVars, signalVars
<1>0. /\ file \in [{3} -> D!FileType] /\ buf \in [{"rpmsg"} -> Datagrams \cup {NoMsg}]
      /\ devRet \in [{"rpmsg"} -> D!Results]
  BY DEF D!IInv, D!TypeOK
<1>1. UNCHANGED <<queueVars, gpc, sent, shown>>
  BY DEF RpmsgRecv
<1>2. UNCHANGED <<RingHolds, Q!Offered, GuiHolds>>
  BY <1>1, StillQueue, RingStill, GuiHoldsStill DEF queueVars
<1>3. rpc # "push" /\ RpmsgHolds = <<>> /\ Q!Offered["rpmsg"] = NoMsg
  <2>1. rpc \in {"recv", "receiving"}
    BY DEF RpmsgRecv, RpmsgGoto
  <2> QED BY <2>1, NothingOffered DEF RpmsgHolds
<1>4. CASE RpmsgGoto("recv", "receiving") /\ D!ReadCall("rpmsg", "recv", 0)
  <2>1. UNCHANGED <<RpmsgHolds, ChannelHolds>>
    BY <1>2, <1>4, RpmsgHoldsStill DEF RpmsgGoto, D!ReadCall, ChannelHolds
  <2> QED BY <1>1, <1>2, <2>1 DEF FlowStep, Still
<1>5. CASE /\ D!ReadFile("rpmsg")
           /\ RpmsgGoto("receiving", IF devRet'["rpmsg"] = D!OK THEN "push" ELSE "test")
  <2>1. ctx["rpmsg"].fd = 3 /\ call["rpmsg"].op = "recv"
    BY <1>5 DEF AppInv, ChannelInv, RpmsgGoto
  <2>2. CASE UNCHANGED <<file, buf>> /\ devRet'["rpmsg"] # D!OK
    <3>1. UNCHANGED <<RpmsgHolds, ChannelHolds>>
      BY <1>2, <1>3, <1>5, <2>2, RpmsgHoldsStill DEF RpmsgGoto, ChannelHolds
    <3> QED BY <1>1, <1>2, <3>1 DEF FlowStep, Still
  <2>3. CASE /\ ~file[3].hung /\ ChannelHolds # <<>> /\ ChannelHolds' = Tail(ChannelHolds)
             /\ buf'["rpmsg"] = Head(ChannelHolds)
             /\ devRet'["rpmsg"] # D!OK => Head(ChannelHolds).len < MsgSize
    <3>1. CASE devRet'["rpmsg"] = D!OK
      <4>1. RpmsgHolds' = <<Head(ChannelHolds)>>
        BY <1>5, <2>3, <3>1 DEF RpmsgGoto, RpmsgHolds
      <4> QED BY <1>1, <1>2, <1>3, <2>3, <4>1 DEF FlowStep, Receives
    <3>2. CASE devRet'["rpmsg"] # D!OK
      <4>1. UNCHANGED RpmsgHolds
        BY <1>2, <1>3, <1>5, <3>2, RpmsgHoldsStill DEF RpmsgGoto
      <4> QED BY <1>1, <1>2, <1>5, <2>3, <3>2, <4>1 DEF FlowStep, CutsShort, RpmsgGoto
    <3> QED BY <3>1, <3>2
  <2>4. ASSUME NEW r, D!Return("rpmsg", r) PROVE devRet'["rpmsg"] = r
    BY <1>0, <2>4 DEF D!Return
  <2>5. D!Result("rpmsg", -D!EPIPE) # D!OK /\ D!Result("rpmsg", 0) # D!OK
    BY <2>1, AppAssumption DEF D!Result, D!RecvResult, D!EPIPE, D!OK, D!ETIMEDOUT, D!EIO
  <2>6. \/ UNCHANGED <<file, buf>> /\ devRet'["rpmsg"] # D!OK
        \/ /\ ~file[3].hung /\ ChannelHolds # <<>> /\ ChannelHolds' = Tail(ChannelHolds)
           /\ buf'["rpmsg"] = Head(ChannelHolds)
           /\ devRet'["rpmsg"] # D!OK => Head(ChannelHolds).len < MsgSize
    <3>1. CASE D!Return("rpmsg", D!Result("rpmsg", -D!EPIPE)) /\ UNCHANGED <<file, buf>>
      BY <2>4, <2>5, <3>1
    <3>2. CASE D!Return("rpmsg", D!Result("rpmsg", 0)) /\ UNCHANGED <<file, buf>>
      BY <2>4, <2>5, <3>2
    <3>3. CASE /\ ~file[3].hung /\ file[3].inbox # <<>>
               /\ file' = [file EXCEPT ![3].inbox = Tail(@)]
               /\ buf' = [buf EXCEPT !["rpmsg"] = Head(file[3].inbox)]
               /\ D!Return("rpmsg", D!Result("rpmsg", D!Copied(Head(file[3].inbox))))
      <4>2. Head(file[3].inbox) \in Datagrams
        BY <3>3, InboxIsSeq DEF ChannelHolds
      <4>3. devRet'["rpmsg"] = D!Result("rpmsg", D!Copied(Head(file[3].inbox)))
        BY <2>4, <3>3
      <4>4. devRet'["rpmsg"] # D!OK => Head(file[3].inbox).len < MsgSize
        BY <2>1, <4>2, <4>3, AppAssumption DEF D!Result, D!RecvResult, D!Copied, D!OK
      <4>1. file'[3].inbox = Tail(file[3].inbox) /\ buf'["rpmsg"] = Head(file[3].inbox)
        BY <1>0, <3>3 DEF D!FileType
      <4>5. file'[3].hung = file[3].hung
        BY <1>0, <3>3 DEF D!FileType
      <4> QED BY <3>3, <4>1, <4>4, <4>5 DEF ChannelHolds
    <3> QED BY <1>5, <2>1, <3>1, <3>2, <3>3 DEF D!ReadFile
  <2> QED BY <2>2, <2>3, <2>6
<1> QED BY <1>4, <1>5 DEF RpmsgRecv

LEMMA PushMovesFlow ==
    ASSUME AppInv, D!IInv, QP!IInv, RpmsgPush
    PROVE  FlowStep
<1> USE DEF RpmsgRest, mainVars, signalVars
<1>0. UNCHANGED <<gpc, sent, shown, ChannelHolds, buf>>
  BY DEF RpmsgPush, deviceVars, ChannelHolds
<1>r. RingHolds = Q!Content /\ RingHolds' = (Q!Content)'
  <2>1. UNCHANGED live
    BY DEF RpmsgPush, Q!CallPush, Q!Push, Q!PushLock, Q!PushFull, Q!PushStore, Q!PushCount,
       Q!PushSignal, Q!PushUnlock
  <2>2. rpc \notin Inactive
    BY DEF RpmsgPush, RpmsgGoto, Inactive
  <2> QED BY <2>1, <2>2, RingOpen
<1>t. /\ qpc \in [{"rpmsg", "gui"} -> {"idle"} \cup Q!PushPoints \cup Q!PopPoints]
      /\ Q!Offered["rpmsg"] \in Datagrams \cup {NoMsg}
  BY DEF AppInv, CallerInv, QP!IInv, QP!TypeOK, Q!Threads, QP!Threads, Q!Offered
<1>g. UNCHANGED GuiHolds
  <2>1. UNCHANGED out
    BY DEF RpmsgPush, Q!CallPush, Q!Push, Q!PushLock, Q!PushFull, Q!PushStore, Q!PushCount,
       Q!PushSignal, Q!PushUnlock
  <2>2. qpc'["gui"] = qpc["gui"] \/ (qpc["gui"] = "popWait" /\ qpc'["gui"] = "popLock")
    BY <1>t DEF RpmsgPush, Q!CallPush, Q!Push, Q!PushLock, Q!PushFull, Q!PushStore, Q!PushCount,
       Q!PushSignal, Q!PushUnlock, Q!Goto, AppInv, CallerInv
  <2> QED BY <1>0, <2>1, <2>2, GuiHoldsStill
<1>1. CASE RpmsgGoto("push", "pushing") /\ Q!CallPush("rpmsg", buf["rpmsg"])
  <2>1. buf["rpmsg"] \in Datagrams /\ buf["rpmsg"] # NoMsg
    BY <1>1, AppAssumption DEF AppInv, ChannelInv, RpmsgGoto
  <2>2. /\ UNCHANGED RingHolds
        /\ (Q!Offered)' = [Q!Offered EXCEPT !["rpmsg"] = buf["rpmsg"]]
    BY <1>1, <2>1, <1>r, QueueSteps
  <2>3. (Q!Offered["rpmsg"])' = buf["rpmsg"]
    BY <2>2 DEF Q!Offered, Q!Threads
  <2>4. UNCHANGED RpmsgHolds
    BY <1>1, <2>1, <2>3 DEF RpmsgHolds, RpmsgGoto
  <2> QED BY <1>0, <1>g, <2>2, <2>4 DEF FlowStep, Still
<1>2. ASSUME Q!Push("rpmsg"),
             RpmsgGoto("pushing", IF qpc'["rpmsg"] = "idle" THEN "test" ELSE "pushing")
      PROVE  FlowStep
  <2>0. rpc # "push" /\ rpc' # "push"
    BY <1>2 DEF RpmsgGoto
  <2>1. CASE Q!PushFull("rpmsg")
    <3>1. /\ UNCHANGED RingHolds /\ Len(RingHolds) = Capacity
          /\ (Q!Offered)' = [Q!Offered EXCEPT !["rpmsg"] = NoMsg]
      BY <2>1, <1>r, QueueSteps
    <3>2. (Q!Offered["rpmsg"])' = NoMsg
      BY <3>1 DEF Q!Offered, Q!Threads
    <3>3. RpmsgHolds' = <<>>
      BY <2>0, <3>2 DEF RpmsgHolds
    <3>4. count = Capacity
      BY <2>1, QueueAssumptionHolds DEF QP!IInv, QP!TypeOK, QP!QueueAssumption, Q!PushFull
    <3> QED BY <1>0, <1>2, <1>g, <3>1, <3>3, <3>4 DEF FlowStep, Refuses, RpmsgGoto
  <2>2. CASE Q!PushCount("rpmsg")
    <3>1. /\ RingHolds' = Append(RingHolds, Q!Offered["rpmsg"])
          /\ Q!Offered["rpmsg"] # NoMsg
          /\ (Q!Offered)' = [Q!Offered EXCEPT !["rpmsg"] = NoMsg]
      BY <2>2, <1>r, QueueSteps
    <3>2. (Q!Offered["rpmsg"])' = NoMsg
      BY <3>1 DEF Q!Offered, Q!Threads
    <3>3. RpmsgHolds = <<Q!Offered["rpmsg"]>> /\ RpmsgHolds' = <<>>
      BY <2>0, <3>1, <3>2 DEF RpmsgHolds
    <3> QED BY <1>0, <1>g, <3>1, <3>3 DEF FlowStep, Accepts
  <2>3. CASE \/ Q!PushLock("rpmsg") \/ Q!PushStore("rpmsg")
             \/ Q!PushSignal("rpmsg") \/ Q!PushUnlock("rpmsg")
    <3>1. UNCHANGED <<RingHolds, Q!Offered>>
      BY <2>3, <1>r, SteadyQueue
    <3> QED BY <1>0, <1>g, <2>0, <3>1, RpmsgHoldsStill DEF FlowStep, Still
  <2> QED BY <1>2, <2>1, <2>2, <2>3 DEF Q!Push
<1> QED BY <1>1, <1>2 DEF RpmsgPush

LEMMA GuiMovesFlow ==
    ASSUME AppInv, D!IInv, QP!IInv, GuiWorker \/ GuiSpuriousWakeup
    PROVE  FlowStep
<1> USE DEF GuiRest, mainVars, signalVars
<1>0. UNCHANGED <<rpc, sent, ChannelHolds, buf>>
  BY DEF GuiWorker, GuiTest, GuiPop, GuiShow, GuiSpuriousWakeup, deviceVars, ChannelHolds
<1>r. RingHolds = Q!Content /\ RingHolds' = (Q!Content)'
  <2>1. UNCHANGED live
    BY DEF GuiWorker, GuiTest, GuiPop, GuiShow, GuiSpuriousWakeup, Q!CallPop, Q!Pop, Q!PopLock,
       Q!PopWait, Q!PopTake, Q!PopCount, Q!PopUnlock, Q!SpuriousWakeup, queueVars
  <2>2. gpc \notin Inactive
    BY DEF GuiWorker, GuiTest, GuiPop, GuiShow, GuiSpuriousWakeup, GuiGoto, Inactive,
       Q!SpuriousWakeup, Q!Goto, AppInv, CallerInv
  <2> QED BY <2>1, <2>2, RingOpen
<1>t. /\ qpc \in [{"rpmsg", "gui"} -> {"idle"} \cup Q!PushPoints \cup Q!PopPoints]
      /\ out \in [{"rpmsg", "gui"} -> Datagrams \cup {NoMsg}]
  BY DEF AppInv, CallerInv, QP!IInv, QP!TypeOK, Q!Threads, QP!Threads
<1>1. CASE GuiTest
  <2>1. UNCHANGED <<RingHolds, Q!Offered, shown>>
    BY <1>1, <1>r, StillQueue DEF GuiTest
  <2>2. UNCHANGED GuiHolds
    BY <1>1 DEF GuiTest, GuiGoto, GuiHolds, queueVars
  <2> QED BY <1>0, <2>1, <2>2, RpmsgHoldsStill DEF FlowStep, Still
<1>2. CASE GuiGoto("pop", "popping") /\ Q!CallPop("gui") /\ UNCHANGED shown
  <2>1. UNCHANGED <<RingHolds, Q!Offered>>
    BY <1>2, <1>r, SteadyQueue
  <2>2. UNCHANGED GuiHolds
    BY <1>2, <1>t DEF GuiGoto, GuiHolds, Q!CallPop, Q!Goto
  <2> QED BY <1>0, <1>2, <2>1, <2>2, RpmsgHoldsStill DEF FlowStep, Still
<1>3. ASSUME Q!Pop("gui"), UNCHANGED shown,
             GuiGoto("popping", IF qpc'["gui"] = "idle" THEN "show" ELSE "popping")
      PROVE  FlowStep
  <2>1. CASE Q!PopTake("gui")
    <3>1. /\ RingHolds # <<>> /\ RingHolds' = Tail(RingHolds)
          /\ out' = [out EXCEPT !["gui"] = Head(RingHolds)]
          /\ UNCHANGED Q!Offered
      BY <2>1, <1>r, QueueSteps
    <3>2. GuiHolds = <<>>
      BY <1>3, <2>1 DEF GuiHolds, GuiGoto, Q!PopTake, Q!Goto
    <3>3. GuiHolds' = <<Head(RingHolds)>>
      BY <1>t, <2>1, <3>1 DEF GuiHolds, Q!PopTake, Q!Goto
    <3> QED BY <1>0, <1>3, <3>1, <3>2, <3>3, RpmsgHoldsStill DEF FlowStep, Takes
  <2>2. CASE Q!PopLock("gui") \/ Q!PopWait("gui") \/ Q!PopCount("gui") \/ Q!PopUnlock("gui")
    <3>1. UNCHANGED <<RingHolds, Q!Offered, out>>
      BY <2>2, <1>r, SteadyQueue
    <3>2. UNCHANGED GuiHolds
      BY <1>3, <1>t, <2>2, <3>1 DEF GuiHolds, GuiGoto, Q!PopLock, Q!PopWait, Q!PopCount,
         Q!PopUnlock, Q!Goto
    <3> QED BY <1>0, <1>3, <3>1, <3>2, RpmsgHoldsStill DEF FlowStep, Still
  <2> QED BY <1>3, <2>1, <2>2 DEF Q!Pop
<1>4. CASE GuiShow
  <2>1. UNCHANGED <<RingHolds, Q!Offered>>
    BY <1>4, <1>r, StillQueue DEF GuiShow
  <2>2. UNCHANGED RpmsgHolds
    BY <1>0, <2>1, RpmsgHoldsStill
  <2>3. GuiHolds = <<out["gui"]>> /\ GuiHolds' = <<>>
    BY <1>4 DEF GuiShow, GuiGoto, GuiHolds, queueVars, AppInv, CallerInv
  <2>4. \/ out["gui"].kind \in {"sensor", "heartbeat"} /\ shown' = Append(shown, out["gui"].id)
        \/ out["gui"].kind \notin {"sensor", "heartbeat"} /\ UNCHANGED shown
    BY <1>4 DEF GuiShow
  <2> QED BY <1>0, <1>4, <2>1, <2>2, <2>3, <2>4 DEF GuiShow, GuiGoto, FlowStep, Shows
<1>5. CASE GuiSpuriousWakeup
  <2>1. UNCHANGED <<RingHolds, Q!Offered, out, gpc, shown>>
    BY <1>5, <1>r, SteadyQueue DEF GuiSpuriousWakeup
  <2>2. UNCHANGED GuiHolds
    BY <1>5, <1>t, <2>1, GuiHoldsStill DEF GuiSpuriousWakeup, Q!SpuriousWakeup, Q!Goto
  <2> QED BY <1>0, <2>1, <2>2, RpmsgHoldsStill DEF FlowStep, Still
<1> QED BY <1>1, <1>2, <1>3, <1>4, <1>5 DEF GuiWorker, GuiPop

LEMMA R5MovesFlow ==
    ASSUME AppInv, D!IInv, R5
    PROVE  FlowStep
<1> USE DEF mainVars, signalVars
<1>0. file \in [{3} -> D!FileType]
  BY DEF D!IInv, D!TypeOK
<1>1. UNCHANGED <<queueVars, rpc, gpc, shown, buf>>
  BY DEF R5, D!Start, D!Stop, D!Deliver
<1>2. UNCHANGED <<RingHolds, Q!Offered>>
  BY <1>1, StillQueue, RingStill DEF queueVars
<1>3. UNCHANGED <<GuiHolds, RpmsgHolds>>
  BY <1>1, <1>2, GuiHoldsStill, RpmsgHoldsStill DEF queueVars
<1>4. CASE (D!Start(Device) \/ D!Stop(Device)) /\ UNCHANGED sent
  <2>1. UNCHANGED file \/ file'[3].hung
    BY <1>0, <1>4 DEF D!Start, D!Stop, D!FileType
  <2>2. UNCHANGED ChannelHolds \/ (file'[3].hung /\ ChannelHolds' = <<>>)
    BY <2>1 DEF ChannelHolds
  <2> QED BY <1>1, <1>2, <1>3, <1>4, <2>2 DEF FlowStep, Still, Dies
<1>5. ASSUME NEW d \in Datagrams, d.id = sent + 1, D!Deliver(3, d), sent' = sent + 1
      PROVE  FlowStep
  <2>1. ChannelHolds' = Append(ChannelHolds, d)
    BY <1>0, <1>5 DEF D!Deliver, D!FileType, ChannelHolds
  <2> QED BY <1>1, <1>2, <1>3, <1>5, <2>1 DEF FlowStep, Sends
<1> QED BY <1>4, <1>5 DEF R5

LEMMA NextMovesFlow ==
    AppInv /\ D!IInv /\ QP!IInv /\ Fresh /\ [Next]_vars => FlowStep
<1> SUFFICES ASSUME AppInv, D!IInv, QP!IInv, Fresh, [Next]_vars PROVE FlowStep
  OBVIOUS
<1>1. CASE (\E sig \in Signals : Signal(sig)) \/ UNCHANGED vars
  <2>1. UNCHANGED <<queueVars, rpc, gpc, buf, file, shown, sent>>
    BY <1>1 DEF Signal, vars, mainVars, deviceVars
  <2>2. UNCHANGED <<RingHolds, Q!Offered>>
    BY <2>1, StillQueue, RingStill DEF queueVars
  <2>3. UNCHANGED <<GuiHolds, RpmsgHolds, ChannelHolds>>
    BY <2>1, <2>2, GuiHoldsStill, RpmsgHoldsStill DEF queueVars, ChannelHolds
  <2> QED BY <2>1, <2>2, <2>3 DEF FlowStep, Still
<1> QED BY <1>1, MainMovesFlow, ChannelMovesFlow, RecvMovesFlow, PushMovesFlow, GuiMovesFlow,
           R5MovesFlow DEF Next, RpmsgWorker

LEMMA FlowStepKeeps ==
    AppInv /\ D!IInv /\ QP!IInv /\ FlowInv /\ FlowStep => FlowInv'
<1> SUFFICES ASSUME AppInv, D!IInv, QP!IInv, FlowInv, FlowStep PROVE FlowInv'
  OBVIOUS
<1>1. CASE Still
  BY <1>1, FlowKept DEF Still
<1>2. CASE Sends
  BY <1>2, InboxIsSeq, FlowSend DEF Sends
<1>3. CASE Receives
  BY <1>3, InboxIsSeq, FlowReceive DEF Receives
<1>4. CASE CutsShort \/ Refuses \/ Closes \/ Dies \/ Destroys
  BY <1>4, InboxIsSeq, FlowDrops DEF CutsShort, Refuses, Closes, Dies, Destroys
<1>5. CASE Accepts
  BY <1>5, InboxIsSeq, FlowAccept DEF Accepts
<1>6. CASE Takes
  BY <1>6, InboxIsSeq, FlowTake DEF Takes
<1>7. CASE Shows
  BY <1>7, InboxIsSeq, FlowShow, FlowDrops DEF Shows
<1> QED BY <1>1, <1>2, <1>3, <1>4, <1>5, <1>6, <1>7 DEF FlowStep

LEMMA InitFlow == Init => FlowInv
<1> SUFFICES ASSUME Init PROVE FlowInv
  OBVIOUS
<1>1. /\ GuiHolds = <<>> /\ RingHolds = <<>> /\ RpmsgHolds = <<>> /\ ChannelHolds = <<>>
      /\ shown = <<>> /\ sent = 0
  BY DEF Init, Q!Init, D!Init, D!Unused, GuiHolds, RpmsgHolds, RingHolds,
     ChannelHolds, Q!Ready, Q!Offered, Q!Unclaimed, Q!Lag, Q!Threads
<1>2. OnTheWay = <<>>
  BY <1>1 DEF OnTheWay
<1>3. shown \o Ids(OnTheWay) = <<>>
  BY <1>1, <1>2 DEF Ids
<1>4. Rising(shown \o Ids(OnTheWay), sent)
  BY <1>3 DEF Rising
<1> QED BY <1>1, <1>4 DEF FlowInv

LEMMA FreshHolds == Spec => []Fresh
  BY InitFresh, NextFresh, AppInvariantHolds, DriverInvariant, PTL DEF Spec

(* What lies at the four places between channel and dashboard is what the R5
   sent, in the order in which it sent it.                                 *)
THEOREM FlowInvariant == Spec => []FlowInv
  BY InitFlow, NextMovesFlow, FlowStepKeeps, FreshHolds, AppInvariantHolds, DriverInvariant,
     QueueInvariant, PTL DEF Spec

(* Across two threads, three buffers and a restart of the R5, no message
   overtakes another on its way to the dashboard and none appears twice.   *)
THEOREM MessagesStayInOrder == Spec => []InOrder
<1>1. FlowInv => InOrder
  BY DEF FlowInv, InOrder, Rising
<1> QED BY <1>1, FlowInvariant, PTL
-----------------------------------------------------------------------------
(* What is lost. *)

LEMMA InParts ==
    ASSUME NEW s \in Seq(Datagrams), NEW t \in Seq(Datagrams)
    PROVE  s \o t \in Seq(Datagrams) /\ In(s \o t) = In(s) \cup In(t)
<1>1. s \o t \in Seq(Datagrams)
  OBVIOUS
<1>2. In(s \o t) \subseteq In(s) \cup In(t)
  <2> SUFFICES ASSUME NEW k \in DOMAIN (s \o t) PROVE (s \o t)[k] \in In(s) \cup In(t)
    BY DEF In
  <2>1. CASE k <= Len(s)
    BY <2>1 DEF In
  <2>2. CASE k > Len(s)
    <3>1. k - Len(s) \in DOMAIN t /\ (s \o t)[k] = t[k - Len(s)]
      BY <2>2
    <3> QED BY <3>1 DEF In
  <2> QED BY <2>1, <2>2
<1>3. In(s) \subseteq In(s \o t)
  <2> SUFFICES ASSUME NEW k \in DOMAIN s PROVE s[k] \in In(s \o t)
    BY DEF In
  <2>1. k \in DOMAIN (s \o t) /\ (s \o t)[k] = s[k]
    OBVIOUS
  <2> QED BY <2>1 DEF In
<1>4. In(t) \subseteq In(s \o t)
  <2> SUFFICES ASSUME NEW k \in DOMAIN t PROVE t[k] \in In(s \o t)
    BY DEF In
  <2>1. k + Len(s) \in DOMAIN (s \o t) /\ (s \o t)[k + Len(s)] = t[k]
    OBVIOUS
  <2> QED BY <2>1 DEF In
<1> QED BY <1>1, <1>2, <1>3, <1>4

LEMMA InEnds ==
    ASSUME NEW s \in Seq(Datagrams)
    PROVE  /\ \A e \in Datagrams : In(s) \subseteq In(Append(s, e)) /\ e \in In(Append(s, e))
           /\ s # <<>> => In(s) = {Head(s)} \cup In(Tail(s))
           /\ \A e : In(<<e>>) = {e}
           /\ In(<<>>) = {}
<1>1. ASSUME NEW e \in Datagrams PROVE In(s) \subseteq In(Append(s, e)) /\ e \in In(Append(s, e))
  <2>1. \A k \in DOMAIN s : k \in DOMAIN Append(s, e) /\ Append(s, e)[k] = s[k]
    OBVIOUS
  <2>2. Len(s) + 1 \in DOMAIN Append(s, e) /\ Append(s, e)[Len(s) + 1] = e
    OBVIOUS
  <2> QED BY <2>1, <2>2 DEF In
<1>2. ASSUME s # <<>> PROVE In(s) = {Head(s)} \cup In(Tail(s))
  <2>1. 1 \in DOMAIN s /\ Head(s) = s[1]
    BY <1>2
  <2>2. \A k \in DOMAIN Tail(s) : k + 1 \in DOMAIN s /\ Tail(s)[k] = s[k + 1]
    BY <1>2
  <2>3. \A k \in DOMAIN s \ {1} : k - 1 \in DOMAIN Tail(s) /\ Tail(s)[k - 1] = s[k]
    BY <1>2
  <2>4. {Head(s)} \cup In(Tail(s)) \subseteq In(s)
    BY <2>1, <2>2 DEF In
  <2>5. In(s) \subseteq {Head(s)} \cup In(Tail(s))
    BY <2>1, <2>3 DEF In
  <2> QED BY <2>4, <2>5
<1>3. ASSUME NEW e PROVE In(<<e>>) = {e}
  BY DEF In
<1>4. In(<<>>) = {}
  BY DEF In
<1> QED BY <1>1, <1>2, <1>3, <1>4

(* A stop request is what ends the workers' loops and what sends main past
   its joins, and nothing sets the flag again.  A signal that stops nobody
   kills a process only while main has no handler for it yet.              *)
Stops ==
    /\ rpc = "close" => ~running
    /\ gpc = "done" => ~running
    /\ mainPc \in {"joinOnlyRpmsg", "destroyRx"} => ~running

Guard ==
    running =>
        /\ mainPc = "catchTerm" => "SIGINT" \in caught
        /\ mainPc \notin {"catchInt", "catchTerm", "exit", "over"} => Signals \subseteq caught

LEMMA NextStops ==
    ASSUME AppInv, Stops, [Next]_vars
    PROVE  Stops' /\ (running' # running => running' = FALSE)
<1> USE DEF Stops, mainVars, signalVars
<1>1. CASE Main
  <2>1. /\ running' \in {running, FALSE} /\ rpc' \in {rpc, "start"} /\ gpc' \in {gpc, "test"}
        /\ \/ mainPc' \notin {"joinOnlyRpmsg", "destroyRx"}
           \/ ~running'
           \/ mainPc = "joinOnlyRpmsg" /\ UNCHANGED running
           \/ mainPc = "joinGui" /\ gpc = "done" /\ UNCHANGED running
    BY <1>1 DEF Main, CatchSignal, InitRxQueue, InitTxQueue, SpawnRpmsg, SpawnGui, Join,
       DestroyRxQueue, DestroyTxQueue, Exit, MainGoto
  <2>2. running' # running => running' = FALSE
    BY <2>1, Zenon
  <2>3. running' => running
    BY <2>1, Zenon
  <2>4. /\ rpc' = "close" => ~running'
        /\ gpc' = "done" => ~running'
    BY <2>1, <2>3
  <2>5. mainPc' \in {"joinOnlyRpmsg", "destroyRx"} => ~running'
    BY <2>1, <2>3
  <2> QED BY <2>2, <2>4, <2>5
<1>2. ASSUME NEW sig \in Signals, Signal(sig)
      PROVE  Stops' /\ (running' # running => running' = FALSE)
  <2>1. UNCHANGED <<rpc, gpc, mainPc>> /\ (UNCHANGED running \/ running' = FALSE)
    BY <1>2 DEF Signal
  <2> QED BY <2>1
<1>3. CASE RpmsgWorker
  <2>1. UNCHANGED <<running, gpc, mainPc>>
    BY <1>3 DEF RpmsgWorker, RpmsgOpen, RpmsgTest, RpmsgPoll, RpmsgRecv, RpmsgPush, RpmsgClose,
       RpmsgRest
  <2>2. rpc' = "close" => ~running
    BY <1>3 DEF RpmsgWorker, RpmsgOpen, RpmsgTest, RpmsgPoll, RpmsgRecv, RpmsgPush, RpmsgClose,
       RpmsgGoto
  <2> QED BY <2>1, <2>2
<1>4. CASE GuiWorker
  <2>1. UNCHANGED <<running, rpc, mainPc>>
    BY <1>4 DEF GuiWorker, GuiTest, GuiPop, GuiShow, GuiRest
  <2>2. gpc' = "done" => ~running
    BY <1>4 DEF GuiWorker, GuiTest, GuiPop, GuiShow, GuiGoto
  <2> QED BY <2>1, <2>2
<1>5. CASE GuiSpuriousWakeup \/ R5 \/ UNCHANGED vars
  BY <1>5 DEF GuiSpuriousWakeup, GuiRest, R5, vars
<1> QED BY <1>1, <1>2, <1>3, <1>4, <1>5 DEF Next

LEMMA NextGuard == ASSUME Guard, [Next]_vars PROVE Guard'
<1> USE DEF Guard, mainVars, signalVars
<1>1. CASE Main
  <2>1. CASE CatchSignal("SIGINT", "catchInt", "catchTerm")
    BY <2>1 DEF CatchSignal, MainGoto
  <2>2. CASE CatchSignal("SIGTERM", "catchTerm", "initRx")
    BY <2>2 DEF CatchSignal, MainGoto, Signals
  <2>3. CASE /\ ~CatchSignal("SIGINT", "catchInt", "catchTerm")
             /\ ~CatchSignal("SIGTERM", "catchTerm", "initRx")
    <3>1. UNCHANGED caught /\ running' \in {running, FALSE}
      BY <1>1, <2>3 DEF Main, InitRxQueue, InitTxQueue, SpawnRpmsg, SpawnGui, Join,
         DestroyRxQueue, DestroyTxQueue, Exit, Signals
    <3>2. /\ mainPc \notin {"catchInt", "catchTerm", "over"}
          /\ mainPc' \notin {"catchInt", "catchTerm"}
          /\ mainPc = "exit" => mainPc' = "over"
      BY <1>1, <2>3 DEF Main, InitRxQueue, InitTxQueue, SpawnRpmsg, SpawnGui, Join,
         DestroyRxQueue, DestroyTxQueue, Exit, MainGoto, Signals
    <3> QED BY <3>1, <3>2
  <2> QED BY <1>1, <2>1, <2>2, <2>3 DEF Main, InitRxQueue, InitTxQueue, SpawnRpmsg, SpawnGui,
             Join, DestroyRxQueue, DestroyTxQueue, Exit, CatchSignal, MainGoto
<1>2. ASSUME NEW sig \in Signals, Signal(sig) PROVE Guard'
  BY <1>2 DEF Signal
<1>3. CASE RpmsgWorker \/ GuiWorker \/ GuiSpuriousWakeup \/ R5 \/ UNCHANGED vars
  BY <1>3 DEF RpmsgWorker, RpmsgOpen, RpmsgTest, RpmsgPoll, RpmsgRecv, RpmsgPush, RpmsgClose,
     RpmsgRest, GuiWorker, GuiTest, GuiPop, GuiShow, GuiSpuriousWakeup, GuiRest, R5, vars
<1> QED BY <1>1, <1>2, <1>3 DEF Next

LEMMA StopsHold == Spec => [](Stops /\ Guard)
<1>1. Init => Stops /\ Guard
  BY DEF Init, Stops, Guard
<1>2. AppInv /\ Stops /\ Guard /\ [Next]_vars => (Stops /\ Guard)'
  BY NextStops, NextGuard
<1> QED BY <1>1, <1>2, AppInvariantHolds, PTL DEF Spec

(* When no worker runs and the queue is not initialised nothing is on its
   way.                                                                    *)
LEMMA NothingHeld ==
    ASSUME AppInv, D!IInv, Fresh, mainPc \in {"catchInt", "catchTerm", "exit", "over"}
    PROVE  GuiHolds = <<>> /\ RingHolds = <<>> /\ RpmsgHolds = <<>> /\ ChannelHolds = <<>>
<1>1. rpc \in Inactive /\ gpc \in Inactive /\ ~Q!Ready
  BY DEF AppInv, MainInv, Inactive
<1>2. D!InUse = {}
  BY <1>1 DEF AppInv, ChannelInv, Inactive, D!IInv, D!DescriptorsOwned, D!InUse, D!NoFd
<1>3. file[3].inbox = <<>>
  BY <1>2 DEF Fresh, D!InUse, D!Unused
<1> QED BY <1>1, <1>3, IdleHoldsNothing DEF RingHolds, ChannelHolds

(* A process that ends with a message in it was asked to stop before.      *)
LEMMA Ends ==
    ASSUME AppInv, D!IInv, Fresh, Guard, [Next]_vars, process = "up", process' # "up"
    PROVE  /\ UNCHANGED <<running, shown, sent>>
           /\ \/ process' = "killed" /\ ~running
              \/ /\ GuiHolds = <<>> /\ RingHolds = <<>>
                 /\ RpmsgHolds = <<>> /\ ChannelHolds = <<>>
<1> USE DEF mainVars, signalVars
<1>1. CASE Exit
  <2>1. mainPc = "exit"
    BY <1>1 DEF Exit, MainGoto
  <2> QED BY <1>1, <2>1, NothingHeld DEF Exit
<1>2. ASSUME NEW sig \in Signals, Signal(sig)
      PROVE  /\ UNCHANGED <<running, shown, sent>> /\ process' = "killed"
             /\ sig \notin caught
  BY <1>2 DEF Signal
<1>3. ASSUME NEW sig \in Signals, Signal(sig), running
      PROVE  mainPc \in {"catchInt", "catchTerm", "exit", "over"}
  BY <1>2, <1>3 DEF Guard
<1>4. Exit \/ \E sig \in Signals : Signal(sig)
  BY DEF Next, Main, CatchSignal, InitRxQueue, InitTxQueue, SpawnRpmsg, SpawnGui, Join,
     DestroyRxQueue, DestroyTxQueue, RpmsgWorker, RpmsgOpen, RpmsgTest, RpmsgPoll, RpmsgRecv,
     RpmsgPush, RpmsgClose, RpmsgRest, GuiWorker, GuiTest, GuiPop, GuiShow, GuiSpuriousWakeup,
     GuiRest, R5, vars
<1> QED BY <1>1, <1>2, <1>3, <1>4, NothingHeld

(* A process that has ended takes no step. *)
LEMMA OverIsOver ==
    ASSUME AppInv, [Next]_vars, process # "up"
    PROVE  UNCHANGED vars
  BY DEF Next, Main, CatchSignal, InitRxQueue, InitTxQueue, SpawnRpmsg, SpawnGui, Join,
     DestroyRxQueue, DestroyTxQueue, Exit, MainGoto, Signal, RpmsgWorker, RpmsgOpen, RpmsgTest,
     RpmsgPoll, RpmsgRecv, RpmsgPush, RpmsgClose, RpmsgGoto, GuiWorker, GuiTest, GuiPop, GuiShow,
     GuiGoto, GuiSpuriousWakeup, R5

LEMMA UnderwayParts ==
    FlowInv /\ ChannelHolds \in Seq(Datagrams) =>
        Underway = IF process = "up"
                   THEN (In(GuiHolds) \cup In(RingHolds) \cup In(RpmsgHolds))
                          \cup In(ChannelHolds)
                   ELSE {}
<1> SUFFICES ASSUME FlowInv, ChannelHolds \in Seq(Datagrams)
             PROVE  Underway = IF process = "up"
                               THEN (In(GuiHolds) \cup In(RingHolds) \cup In(RpmsgHolds))
                                      \cup In(ChannelHolds)
                               ELSE {}
  OBVIOUS
<1>0. \A s, t \in Seq(Datagrams) : s \o t \in Seq(Datagrams) /\ In(s \o t) = In(s) \cup In(t)
  BY InParts
<1>1. /\ GuiHolds \in Seq(Datagrams) /\ RingHolds \in Seq(Datagrams)
      /\ RpmsgHolds \in Seq(Datagrams)
  BY FlowNow
<1>2. /\ GuiHolds \o RingHolds \in Seq(Datagrams)
      /\ In(GuiHolds \o RingHolds) = In(GuiHolds) \cup In(RingHolds)
  BY <1>0, <1>1, Zenon
<1>3. In((GuiHolds \o RingHolds) \o RpmsgHolds)
        = In(GuiHolds \o RingHolds) \cup In(RpmsgHolds)
  BY <1>0, <1>1, <1>2, Zenon
<1>4. CASE process = "up"
  <2>1. Taken = (GuiHolds \o RingHolds) \o RpmsgHolds /\ Pending = ChannelHolds
    BY <1>4, Zenon DEF Taken, Pending
  <2> QED BY <1>2, <1>3, <1>4, <2>1, Zenon DEF Underway
<1>5. CASE process # "up"
  <2>1. Taken = <<>> /\ Pending = <<>>
    BY <1>5, Zenon DEF Taken, Pending
  <2>2. In(<<>>) = {}
    BY DEF In
  <2>3. Underway = {}
    BY <2>1, <2>2 DEF Underway
  <2> QED BY <1>5, <2>3, Zenon
<1> QED BY <1>4, <1>5

LEMMA UnderwayLater ==
    (FlowInv /\ ChannelHolds \in Seq(Datagrams) =>
        Underway = IF process = "up"
                   THEN (In(GuiHolds) \cup In(RingHolds) \cup In(RpmsgHolds))
                          \cup In(ChannelHolds)
                   ELSE {})'
  BY UnderwayParts, PTL

LEMMA OneInHand ==
    ASSUME NEW d, d \in In(RpmsgHolds)
    PROVE  RpmsgHolds = <<d>>
<1>1. RpmsgHolds = <<>> \/ \E x : RpmsgHolds = <<x>>
  BY DEF RpmsgHolds
<1> QED BY <1>1 DEF In

LEMMA Singleton ==
    ASSUME NEW e, <<e>> \in Seq(Datagrams) PROVE e \in Datagrams
<1>1. Len(<<e>>) = 1 /\ <<e>>[1] = e
  OBVIOUS
<1> QED BY <1>1

LEMMA StepLoses ==
    ASSUME FlowInv, FlowInv', ChannelHolds \in Seq(Datagrams), ChannelHolds' \in Seq(Datagrams),
           FlowStep, Stops, process = "up", process' = "up", NEW d \in Underway \ Underway'
    PROVE  Dropped(d) \/ (gpc = "show" /\ shown' = Append(shown, d.id))
<1>1. /\ Underway = (In(GuiHolds) \cup In(RingHolds) \cup In(RpmsgHolds)) \cup In(ChannelHolds)
      /\ Underway' = (In(GuiHolds') \cup In(RingHolds') \cup In(RpmsgHolds'))
                       \cup In(ChannelHolds')
  <2>1. (Underway = (In(GuiHolds) \cup In(RingHolds) \cup In(RpmsgHolds))
                      \cup In(ChannelHolds))'
    BY UnderwayLater
  <2> QED BY <2>1, UnderwayParts DEF In
<1>2. /\ GuiHolds \in Seq(Datagrams) /\ RingHolds \in Seq(Datagrams)
      /\ RpmsgHolds \in Seq(Datagrams) /\ RingHolds' \in Seq(Datagrams)
      /\ RpmsgHolds' \in Seq(Datagrams)
  BY DEF FlowInv
<1>3. /\ \A s \in Seq(Datagrams), e \in Datagrams :
           In(s) \subseteq In(Append(s, e)) /\ e \in In(Append(s, e))
      /\ \A s \in Seq(Datagrams) : s # <<>> => In(s) = {Head(s)} \cup In(Tail(s))
      /\ \A e : In(<<e>>) = {e}
      /\ In(<<>>) = {}
  <2>1. <<>> \in Seq(Datagrams)
    OBVIOUS
  <2> QED BY <2>1, InEnds, Zenon
<1> HIDE DEF In
<1>4. CASE Still
  BY <1>1, <1>4, Zenon DEF Still
<1>5. CASE Sends
  <2>1. PICK e \in Datagrams : ChannelHolds' = Append(ChannelHolds, e)
    BY <1>5 DEF Sends
  <2>2. In(ChannelHolds) \subseteq In(ChannelHolds')
    BY <1>3, <2>1
  <2>3. UNCHANGED <<GuiHolds, RingHolds, RpmsgHolds>>
    BY <1>5 DEF Sends
  <2> QED BY <1>1, <2>2, <2>3
<1>6. CASE Receives
  <2>1. In(ChannelHolds) = {Head(ChannelHolds)} \cup In(ChannelHolds') /\ In(RpmsgHolds') = {Head(ChannelHolds)}
    BY <1>3, <1>6, Zenon DEF Receives
  <2>2. UNCHANGED <<GuiHolds, RingHolds>> /\ In(RpmsgHolds) = {}
    BY <1>3, <1>6 DEF Receives
  <2> QED BY <1>1, <2>1, <2>2
<1>7. CASE CutsShort
  <2>1. In(ChannelHolds) = {Head(ChannelHolds)} \cup In(ChannelHolds')
    BY <1>3, <1>7, Zenon DEF CutsShort
  <2>2. UNCHANGED <<GuiHolds, RingHolds, RpmsgHolds>>
    BY <1>7 DEF CutsShort
  <2>3. d = Head(ChannelHolds)
    BY <1>1, <2>1, <2>2
  <2> QED BY <1>7, <2>3 DEF CutsShort, Dropped
<1>8. CASE Accepts
  <2>1. PICK e : RpmsgHolds = <<e>> /\ RingHolds' = Append(RingHolds, e)
    BY <1>8 DEF Accepts
  <2>2. e \in Datagrams
    <3>1. <<e>> \in Seq(Datagrams)
      BY <1>2, <2>1, Zenon
    <3> QED BY <3>1, Singleton, Zenon
  <2>3. In(RingHolds) \subseteq In(RingHolds') /\ e \in In(RingHolds') /\ In(RpmsgHolds) = {e}
    BY <1>2, <1>3, <2>1, <2>2, Zenon
  <2>4. UNCHANGED <<GuiHolds, ChannelHolds>>
    BY <1>8 DEF Accepts
  <2> QED BY <1>1, <2>3, <2>4
<1>9. CASE Refuses
  <2>1. UNCHANGED <<GuiHolds, RingHolds, ChannelHolds>>
    BY <1>9 DEF Refuses
  <2>2. d \in In(RpmsgHolds)
    BY <1>1, <2>1
  <2>3. RpmsgHolds = <<d>>
    BY <2>2, OneInHand
  <2> QED BY <1>9, <2>3 DEF Refuses, Dropped
<1>10. CASE Takes
  <2>1. /\ In(RingHolds) = {Head(RingHolds)} \cup In(RingHolds')
        /\ In(GuiHolds') = {Head(RingHolds)} /\ In(GuiHolds) = {}
    BY <1>2, <1>3, <1>10, Zenon DEF Takes
  <2>2. UNCHANGED <<RpmsgHolds, ChannelHolds>>
    BY <1>10 DEF Takes
  <2> QED BY <1>1, <2>1, <2>2
<1>11. CASE Shows
  <2>1. In(GuiHolds) = {out["gui"]}
    BY <1>3, <1>11, Zenon DEF Shows
  <2>2. UNCHANGED <<RingHolds, RpmsgHolds, ChannelHolds>>
    BY <1>11 DEF Shows
  <2>3. d = out["gui"]
    BY <1>1, <2>1, <2>2
  <2> QED BY <1>11, <2>3 DEF Shows, Dropped
<1>12. CASE Closes \/ Dies
  <2>1. UNCHANGED <<GuiHolds, RingHolds, RpmsgHolds>>
    BY <1>12 DEF Closes, Dies
  <2>2. d \in In(ChannelHolds)
    BY <1>1, <2>1
  <2> QED BY <1>12, <2>2 DEF Closes, Dies, Stops, Dropped
<1>13. CASE Destroys
  <2>1. UNCHANGED <<GuiHolds, RpmsgHolds, ChannelHolds>>
    BY <1>13 DEF Destroys
  <2>2. d \in In(RingHolds)
    BY <1>1, <2>1
  <2> QED BY <1>13, <2>2 DEF Destroys, Inactive, Stops, Dropped
<1> QED BY <1>4, <1>5, <1>6, <1>7, <1>8, <1>9, <1>10, <1>11, <1>12, <1>13 DEF FlowStep

LEMMA StepLosesForAReason ==
    AppInv /\ D!IInv /\ (D!IInv)' /\ Fresh /\ Stops /\ Guard /\ FlowInv /\ FlowInv' /\ FlowStep
      /\ [Next]_vars =>
        \A d \in Underway \ Underway' :
            \/ Dropped(d)
            \/ gpc = "show" /\ shown' = Append(shown, d.id)
<1> SUFFICES ASSUME AppInv, D!IInv, (D!IInv)', Fresh, Stops, Guard, FlowInv, FlowInv', FlowStep,
                    [Next]_vars, NEW d \in Underway \ Underway'
             PROVE  Dropped(d) \/ (gpc = "show" /\ shown' = Append(shown, d.id))
  BY Zenon
<1>1. ChannelHolds \in Seq(Datagrams) /\ ChannelHolds' \in Seq(Datagrams)
  <2>1. ChannelHolds' \in Seq(Datagrams)
    BY DEF D!IInv, D!TypeOK, D!FileType, ChannelHolds
  <2> QED BY <2>1, InboxIsSeq
<1>2. process = "up"
  <2>1. process # "up" => Underway = {}
    BY <1>1, UnderwayParts
  <2> QED BY <2>1
<1>3. CASE process' = "up"
  BY <1>1, <1>2, <1>3, StepLoses
<1>4. CASE process' # "up"
  <2>1. CASE process' = "killed" /\ ~running
    BY <2>1 DEF Dropped
  <2>2. CASE GuiHolds = <<>> /\ RingHolds = <<>> /\ RpmsgHolds = <<>> /\ ChannelHolds = <<>>
    <3>1. In(<<>>) = {}
      BY DEF In
    <3>2. Underway = {}
      BY <1>1, <1>2, <2>2, <3>1, UnderwayParts
    <3> QED BY <3>2
  <2> QED BY <1>2, <1>4, <2>1, <2>2, Ends
<1> QED BY <1>3, <1>4

(* No message vanishes between the channel and the dashboard except where
   the code loses it: too short (rpmsg_driver.c:183), the ring full
   (rpmsg.c:45), its type unknown (GUI.c:29-41), in the channel when the R5
   leaves or, after a stop request, when the worker closes it (rpmsg.c:54),
   in rx_queue when main destroys it, after a stop request and when both
   workers have ended (main.c:126), and at a second signal (main.c:45).    *)
THEOREM NothingElseIsLost == Spec => LostOnlyForAReason
  BY StepLosesForAReason, NextMovesFlow, FlowStepKeeps, FlowInvariant, FreshHolds, StopsHold,
     AppInvariantHolds, DriverInvariant, QueueInvariant, PTL DEF Spec, LostOnlyForAReason

-----------------------------------------------------------------------------
(* The application as one line. *)

(* A step that clears the flag moves no message. *)
LEMMA FlagAlone ==
    ASSUME AppInv, [Next]_vars, running' # running
    PROVE  UNCHANGED <<Taken, Pending, shown, sent>>
<1> USE DEF mainVars, signalVars
<1>1. UNCHANGED <<queueVars, deviceVars, rpc, gpc, process, shown, sent>>
  <2>1. CASE Main
    BY <2>1 DEF Main, CatchSignal, InitRxQueue, InitTxQueue, SpawnRpmsg, SpawnGui, Join,
       DestroyRxQueue, DestroyTxQueue, Exit
  <2>2. ASSUME NEW sig \in Signals, Signal(sig)
        PROVE  UNCHANGED <<queueVars, deviceVars, rpc, gpc, process, shown, sent>>
    BY <2>2 DEF Signal
  <2>3. ~RpmsgWorker /\ ~GuiWorker /\ ~GuiSpuriousWakeup /\ ~R5 /\ ~UNCHANGED vars
    BY DEF RpmsgWorker, RpmsgOpen, RpmsgTest, RpmsgPoll, RpmsgRecv, RpmsgPush, RpmsgClose,
       RpmsgRest, GuiWorker, GuiTest, GuiPop, GuiShow, GuiSpuriousWakeup, GuiRest, R5, vars
  <2> QED BY <2>1, <2>2, <2>3 DEF Next
<1>2. UNCHANGED <<RingHolds, Q!Offered>>
  BY <1>1, StillQueue, RingStill DEF queueVars
<1>3. UNCHANGED <<GuiHolds, RpmsgHolds>>
  BY <1>1, <1>2, GuiHoldsStill, RpmsgHoldsStill DEF queueVars, deviceVars
<1>4. UNCHANGED ChannelHolds
  BY <1>1 DEF ChannelHolds, deviceVars
<1> QED BY <1>1, <1>2, <1>3, <1>4 DEF Taken, Pending

(* A message in the middle of a line. *)
LEMMA InTheMiddle ==
    ASSUME NEW a \in Seq(Datagrams), NEW d \in Datagrams, NEW b \in Seq(Datagrams)
    PROVE  /\ Len(a) + 1 \in DOMAIN ((a \o <<d>>) \o b)
           /\ ((a \o <<d>>) \o b)[Len(a) + 1] = d
           /\ T!RemoveAt((a \o <<d>>) \o b, Len(a) + 1) = a \o b
<1> DEFINE ad == a \o <<d>>
           w == ad \o b
<1>1. <<d>> \in Seq(Datagrams) /\ Len(<<d>>) = 1 /\ <<d>>[1] = d
  OBVIOUS
<1>2. /\ ad \in Seq(Datagrams) /\ Len(ad) = Len(a) + 1 /\ Len(a) \in Nat
      /\ ad[Len(a) + 1] = d /\ \A i \in 1 .. Len(a) : ad[i] = a[i]
  <2>1. /\ ad \in Seq(Datagrams) /\ Len(ad) = Len(a) + Len(<<d>>) /\ Len(a) \in Nat
        /\ \A i \in 1 .. Len(a) : ad[i] = a[i]
        /\ \A i \in 1 .. Len(<<d>>) : ad[Len(a) + i] = <<d>>[i]
    BY <1>1, ConcatIndex
  <2> HIDE DEF ad
  <2> QED BY <1>1, <2>1
<1> HIDE DEF ad
<1>3. /\ w \in Seq(Datagrams) /\ Len(w) = Len(a) + 1 + Len(b) /\ Len(b) \in Nat
      /\ \A i \in 1 .. Len(a) + 1 : w[i] = ad[i]
      /\ \A i \in 1 .. Len(b) : w[Len(a) + 1 + i] = b[i]
  <2>1. /\ w \in Seq(Datagrams) /\ Len(w) = Len(ad) + Len(b) /\ Len(b) \in Nat
        /\ \A i \in 1 .. Len(ad) : w[i] = ad[i]
        /\ \A i \in 1 .. Len(b) : w[Len(ad) + i] = b[i]
    <3>1. ad \in Seq(Datagrams)
      BY <1>2
    <3> QED BY <3>1, ConcatIndex
  <2> HIDE DEF w
  <2> QED BY <1>2, <2>1
<1> HIDE DEF w
<1>4. Len(a) + 1 \in DOMAIN w /\ w[Len(a) + 1] = d
  BY <1>2, <1>3
<1>5. SubSeq(w, 1, Len(a)) = a
  <2>1. \A i \in 1 .. Len(a) : w[i] \in Datagrams /\ w[i] = a[i]
    BY <1>2, <1>3
  <2>2. /\ SubSeq(w, 1, Len(a)) \in Seq(Datagrams) /\ Len(SubSeq(w, 1, Len(a))) = Len(a)
        /\ \A i \in 1 .. Len(a) - 1 + 1 : SubSeq(w, 1, Len(a))[i] = w[1 + i - 1]
    BY <1>2, <2>1, SubSeqProperties
  <2>3. \A i \in 1 .. Len(a) : SubSeq(w, 1, Len(a))[i] = a[i]
    BY <1>2, <2>1, <2>2
  <2> QED BY <2>2, <2>3, SeqEqual
<1>6. SubSeq(w, Len(a) + 2, Len(w)) = b
  <2> DEFINE s == SubSeq(w, Len(a) + 2, Len(w))
  <2>1. \A i \in Len(a) + 2 .. Len(w) : w[i] \in Datagrams
    BY <1>2, <1>3
  <2>2. /\ s \in Seq(Datagrams)
        /\ Len(s) = IF Len(a) + 2 <= Len(w) THEN Len(w) - (Len(a) + 2) + 1 ELSE 0
        /\ \A i \in 1 .. Len(w) - (Len(a) + 2) + 1 : s[i] = w[Len(a) + 2 + i - 1]
    BY <1>2, <1>3, <2>1, SubSeqProperties
  <2> HIDE DEF s
  <2>3. Len(s) = Len(b)
    BY <1>2, <1>3, <2>2
  <2>4. ASSUME NEW i \in 1 .. Len(b) PROVE s[i] = b[i]
    <3>1. i \in 1 .. Len(w) - (Len(a) + 2) + 1 /\ Len(a) + 2 + i - 1 = Len(a) + 1 + i
      BY <1>2, <1>3
    <3> QED BY <1>3, <2>2, <3>1
  <2>5. s = b
    BY <2>2, <2>3, <2>4, SeqEqual
  <2> QED BY <2>5 DEF s
<1>7. T!RemoveAt(w, Len(a) + 1) = SubSeq(w, 1, Len(a)) \o SubSeq(w, Len(a) + 2, Len(w))
  <2>1. (Len(a) + 1) - 1 = Len(a) /\ Len(a) + 1 + 1 = Len(a) + 2
    BY <1>2
  <2> QED BY <2>1, Zenon DEF T!RemoveAt
<1> QED BY <1>4, <1>5, <1>6, <1>7 DEF w, ad

(* Every step on the messages is one the line may take. *)
LEMMA FlowIsLine ==
    ASSUME AppInv, D!IInv, FlowInv, FlowStep, Stops, UNCHANGED running,
           process = "up", process' = "up"
    PROVE  T!Next \/ UNCHANGED T!vars
<1> DEFINE g == GuiHolds
           c == RingHolds
           r == RpmsgHolds
           i == ChannelHolds
<1>1. /\ g \in Seq(Datagrams) /\ c \in Seq(Datagrams) /\ r \in Seq(Datagrams)
      /\ i \in Seq(Datagrams) /\ sent \in Nat
  BY FlowNow, InboxIsSeq
<1>2. /\ Taken = (g \o c) \o r /\ Pending = i
      /\ Taken' = (g' \o c') \o r' /\ Pending' = i'
  BY DEF Taken, Pending
<1>3. /\ g \o c \in Seq(Datagrams) /\ (g \o c) \o r \in Seq(Datagrams)
      /\ <<>> \in Seq(Datagrams)
  BY <1>1, Concat, Zenon
<1> HIDE DEF g, c, r, i
<1>4. ASSUME UNCHANGED <<Taken, Pending, shown, sent>> PROVE UNCHANGED T!vars
  BY <1>4 DEF T!vars
<1>5. CASE Still
  <2>1. UNCHANGED <<g, c, r, i, shown, sent>>
    BY <1>5 DEF Still, g, c, r, i
  <2> QED BY <1>2, <1>4, <2>1
<1>6. CASE Sends
  <2>1. PICK d \in Datagrams : d.id = sent + 1 /\ i' = Append(i, d)
    BY <1>6 DEF Sends, i
  <2>2. sent' = sent + 1 /\ UNCHANGED <<g, c, r, shown>>
    BY <1>6 DEF Sends, g, c, r
  <2>3. T!Send(d)
    BY <1>2, <2>1, <2>2 DEF T!Send
  <2> QED BY <2>3 DEF T!Next
<1>7. CASE Receives
  <2>1. /\ r = <<>> /\ i # <<>> /\ r' = <<Head(i)>> /\ i' = Tail(i)
        /\ UNCHANGED <<g, c, shown, sent>>
    BY <1>7 DEF Receives, g, c, r, i
  <2>2. Head(i) \in Datagrams
    BY <1>1, <2>1, Concat, Zenon
  <2>3. Append(g \o c, Head(i)) = (g \o c) \o <<Head(i)>> /\ (g \o c) \o <<>> = g \o c
    BY <1>3, <2>2, Concat, Zenon
  <2>4. Taken' = Append(Taken, Head(Pending)) /\ Pending # <<>> /\ Pending' = Tail(Pending)
    BY <1>2, <2>1, <2>3, Zenon
  <2>5. T!Take
    BY <2>1, <2>4 DEF T!Take
  <2> QED BY <2>5 DEF T!Next
<1>8. CASE CutsShort
  <2>1. /\ i # <<>> /\ Head(i).len < MsgSize /\ i' = Tail(i)
        /\ UNCHANGED <<g, c, r, shown, sent>>
    BY <1>8 DEF CutsShort, g, c, r, i
  <2>2. UNCHANGED Taken /\ Pending # <<>> /\ Pending' = Tail(Pending) /\ Head(Pending).len < MsgSize
    BY <1>2, <2>1
  <2>3. T!Take
    BY <2>1, <2>2 DEF T!Take
  <2> QED BY <2>3 DEF T!Next
<1>9. CASE Accepts
  <2>1. PICK d : r = <<d>> /\ c' = Append(c, d)
    BY <1>9 DEF Accepts, c, r
  <2>2. r' = <<>> /\ UNCHANGED <<g, i, shown, sent>>
    BY <1>9 DEF Accepts, g, r, i
  <2>3. d \in Datagrams
    BY <1>1, <2>1, Singleton
  <2>4. Append(c, d) = c \o <<d>> /\ <<d>> \in Seq(Datagrams)
    BY <1>1, <2>3, Concat, Zenon
  <2>5. g \o (c \o <<d>>) = (g \o c) \o <<d>> /\ (g \o c) \o <<d>> \in Seq(Datagrams)
    <3>1. (g \o c) \o <<d>> = g \o (c \o <<d>>)
      BY <1>1, <2>4, Assoc, Zenon
    <3>2. (g \o c) \o <<d>> \in Seq(Datagrams)
      BY <1>3, <2>4, Concat, Zenon
    <3> QED BY <3>1, <3>2, Zenon
  <2>6. ((g \o c) \o <<d>>) \o <<>> = (g \o c) \o <<d>>
    BY <2>5, Concat, Zenon
  <2>7. UNCHANGED <<Taken, Pending>>
    BY <1>2, <2>1, <2>2, <2>4, <2>5, <2>6, Zenon
  <2> QED BY <1>4, <2>2, <2>7
<1>10. CASE Takes
  <2>1. /\ g = <<>> /\ c # <<>> /\ g' = <<Head(c)>> /\ c' = Tail(c)
        /\ UNCHANGED <<r, i, shown, sent>>
    BY <1>10 DEF Takes, g, c, r, i
  <2>2. <<Head(c)>> \o Tail(c) = c /\ <<>> \o c = c
    BY <1>1, <2>1, Concat, Zenon
  <2>3. UNCHANGED <<Taken, Pending>>
    BY <1>2, <2>1, <2>2, Zenon
  <2> QED BY <1>4, <2>1, <2>3
<1>11. CASE Refuses
  <2>1. /\ Len(c) = Capacity /\ r' = <<>> /\ UNCHANGED <<g, c, i, shown, sent>>
    BY <1>11 DEF Refuses, g, c, r, i
  <2>2. CASE r = <<>>
    BY <1>2, <1>4, <2>1, <2>2
  <2>3. ASSUME NEW d, r = <<d>> PROVE T!Next
    <3> DEFINE a == g \o c
    <3>1. d \in Datagrams /\ <<>> \in Seq(Datagrams)
      BY <1>1, <1>3, <2>3, Singleton
    <3>2. a \in Seq(Datagrams) /\ a \o <<>> = a
      BY <1>3, Concat, Zenon
    <3>3. (a \o <<d>>) \o <<>> = a \o <<d>>
      <4>1. <<d>> \in Seq(Datagrams)
        BY <3>1, Concat, Zenon
      <4>2. a \o <<d>> \in Seq(Datagrams)
        BY <3>2, <4>1, Concat, Zenon
      <4> HIDE DEF a
      <4> QED BY <4>2, Concat, Zenon
    <3>4. Taken = (a \o <<d>>) \o <<>> /\ Taken' = a \o <<>> /\ UNCHANGED Pending
      BY <1>2, <2>1, <2>3, <3>3
    <3>5. Len(a) + 1 > Capacity
      <4>1. Len(a) = Len(g) + Len(c) /\ Len(g) \in Nat /\ Len(c) \in Nat
        BY <1>1, ConcatIndex
      <4> QED BY <2>1, <4>1
    <3> HIDE DEF a
    <3>6. /\ Len(a) + 1 \in DOMAIN ((a \o <<d>>) \o <<>>)
          /\ a \o <<>> = T!RemoveAt((a \o <<d>>) \o <<>>, Len(a) + 1)
      BY <3>1, <3>2, InTheMiddle, Zenon
    <3>7. Len(a) + 1 \in DOMAIN Taken /\ Taken' = T!RemoveAt(Taken, Len(a) + 1)
      BY <3>4, <3>6, Zenon
    <3>8. T!GiveUp(Len(a) + 1)
      BY <2>1, <3>4, <3>5, <3>7 DEF T!GiveUp
    <3> QED BY <3>7, <3>8 DEF T!Next
  <2>4. r = <<>> \/ \E d : r = <<d>>
    BY DEF r, RpmsgHolds
  <2> QED BY <2>2, <2>3, <2>4
<1>12. CASE Shows
  <2> DEFINE d == out["gui"]
             b == c \o r
  <2>1. /\ g = <<d>> /\ g' = <<>> /\ UNCHANGED <<c, r, i, sent>>
        /\ \/ T!OnDashboard(d) /\ shown' = Append(shown, d.id)
           \/ ~T!OnDashboard(d) /\ UNCHANGED shown
    BY <1>12 DEF Shows, T!OnDashboard, g, c, r, i
  <2>2. d \in Datagrams /\ <<d>> \in Seq(Datagrams)
    BY <1>1, <2>1, Singleton
  <2>3. b \in Seq(Datagrams) /\ <<>> \o b = b /\ <<>> \o c = c
    <3>1. b \in Seq(Datagrams) /\ <<>> \o c = c
      BY <1>1, Concat, Zenon
    <3> HIDE DEF b
    <3> QED BY <3>1, Concat, Zenon
  <2>4. (<<d>> \o c) \o r = <<d>> \o b
    BY <1>1, <2>2, Assoc, Zenon
  <2>5. Taken = <<d>> \o b /\ Taken' = b /\ UNCHANGED Pending
    BY <1>2, <2>1, <2>3, <2>4, Zenon
  <2> HIDE DEF b, d
  <2>6. Taken # <<>> /\ Head(Taken) = d /\ Tail(Taken) = b
    <3>1. <<d>> \in Seq(Datagrams) /\ Len(<<d>>) = 1 /\ <<d>>[1] = d
      BY <2>2
    <3>2. /\ <<d>> \o b \in Seq(Datagrams) /\ Len(<<d>> \o b) = 1 + Len(b)
          /\ Len(b) \in Nat /\ (<<d>> \o b)[1] = d
          /\ \A k \in 1 .. Len(b) : (<<d>> \o b)[1 + k] = b[k]
      BY <2>3, <3>1, ConcatIndex
    <3>3. /\ Taken \in Seq(Datagrams) /\ Len(Taken) = 1 + Len(b) /\ Taken[1] = d
          /\ \A k \in 1 .. Len(b) : Taken[1 + k] = b[k]
      BY <2>5, <3>2
    <3>4. Taken # <<>>
      BY <3>2, <3>3
    <3>5. /\ Head(Taken) = Taken[1] /\ Tail(Taken) \in Seq(Datagrams)
          /\ Len(Tail(Taken)) = Len(Taken) - 1
          /\ \A k \in 1 .. Len(Tail(Taken)) : Tail(Taken)[k] = Taken[k + 1]
      BY <3>3, <3>4, HeadTailProperties
    <3>6. Len(Tail(Taken)) = Len(b)
      BY <3>2, <3>3, <3>5
    <3>7. \A k \in 1 .. Len(Tail(Taken)) : Tail(Taken)[k] = b[k]
      BY <3>2, <3>3, <3>5, <3>6
    <3> QED BY <2>3, <3>3, <3>4, <3>5, <3>6, <3>7, SeqEqual
  <2>7. CASE T!OnDashboard(d) /\ shown' = Append(shown, d.id)
    <3>1. T!Show
      BY <2>1, <2>5, <2>6, <2>7 DEF T!Show
    <3> QED BY <3>1 DEF T!Next
  <2>8. CASE ~T!OnDashboard(d) /\ UNCHANGED shown
    <3>1. (<<>> \o <<d>>) \o b = <<d>> \o b /\ Len(<<>>) + 1 = 1
      BY <2>2
    <3>2. /\ 1 \in DOMAIN Taken /\ Taken[1] = d
          /\ T!RemoveAt(Taken, 1) = b
      <4>1. /\ Len(<<>>) + 1 \in DOMAIN ((<<>> \o <<d>>) \o b)
            /\ ((<<>> \o <<d>>) \o b)[Len(<<>>) + 1] = d
            /\ T!RemoveAt((<<>> \o <<d>>) \o b, Len(<<>>) + 1) = <<>> \o b
        BY <1>3, <2>2, <2>3, InTheMiddle, Zenon
      <4> QED BY <2>3, <2>5, <3>1, <4>1, Zenon
    <3>3. T!GiveUp(1)
      BY <2>1, <2>5, <2>8, <3>2 DEF T!GiveUp
    <3> QED BY <3>2, <3>3 DEF T!Next
  <2> QED BY <2>1, <2>7, <2>8
<1>13. CASE Closes
  <2>1. ~running /\ i' = <<>> /\ UNCHANGED <<g, c, r, shown, sent>>
    BY <1>13 DEF Closes, Stops, g, c, r, i
  <2>2. UNCHANGED Taken /\ Pending' = <<>>
    BY <1>2, <2>1
  <2>3. T!CutOff
    BY <2>1, <2>2 DEF T!CutOff
  <2> QED BY <2>3 DEF T!Next
<1>14. CASE Dies
  <2>1. i' = <<>> /\ UNCHANGED <<g, c, r, shown, sent>>
    BY <1>14 DEF Dies, g, c, r, i
  <2>2. UNCHANGED Taken /\ Pending' = <<>>
    BY <1>2, <2>1
  <2>3. T!R5Gone
    BY <2>1, <2>2 DEF T!R5Gone
  <2> QED BY <2>3 DEF T!Next
<1>15. CASE Destroys
  <2>1. /\ ~running /\ g = <<>> /\ r = <<>> /\ c' = <<>>
        /\ UNCHANGED <<g, r, i, shown, sent>>
    BY <1>15 DEF Destroys, Stops, g, c, r, i
  <2>2. (<<>> \o <<>>) \o <<>> = <<>>
    BY <1>3, Concat, Zenon
  <2>3. Taken' = <<>> /\ UNCHANGED Pending
    BY <1>2, <2>1, <2>2
  <2>4. T!CutOff
    BY <2>1, <2>3 DEF T!CutOff
  <2> QED BY <2>4 DEF T!Next
<1> QED BY <1>5, <1>6, <1>7, <1>8, <1>9, <1>10, <1>11, <1>12, <1>13, <1>14, <1>15
           DEF FlowStep, T!vars

LEMMA StepOfTheLine ==
    AppInv /\ D!IInv /\ Fresh /\ FlowInv /\ FlowStep /\ Stops /\ Guard /\ [Next]_vars
      => [T!Next]_(T!vars)
<1> SUFFICES ASSUME AppInv, D!IInv, Fresh, FlowInv, FlowStep, Stops, Guard, [Next]_vars
             PROVE  T!Next \/ UNCHANGED T!vars
  BY Zenon
<1>1. CASE process # "up"
  <2>1. UNCHANGED vars
    BY <1>1, OverIsOver
  <2>2. UNCHANGED <<process, running, shown, sent>>
    BY <2>1 DEF vars, signalVars
  <2>3. Taken = <<>> /\ Taken' = <<>> /\ Pending = <<>> /\ Pending' = <<>>
    BY <1>1, <2>2 DEF Taken, Pending
  <2> QED BY <2>2, <2>3 DEF T!vars
<1>2. CASE process = "up" /\ process' # "up"
  <2>1. Taken' = <<>> /\ Pending' = <<>>
    BY <1>2 DEF Taken, Pending
  <2>2. UNCHANGED <<running, shown, sent>>
    BY <1>2, Ends
  <2>3. CASE process' = "killed" /\ ~running
    <3>1. T!CutOff
      BY <2>1, <2>2, <2>3 DEF T!CutOff
    <3> QED BY <3>1 DEF T!Next
  <2>4. CASE GuiHolds = <<>> /\ RingHolds = <<>> /\ RpmsgHolds = <<>> /\ ChannelHolds = <<>>
    <3>1. Taken = <<>> /\ Pending = <<>>
      BY <2>4 DEF Taken, Pending
    <3> QED BY <2>1, <2>2, <3>1 DEF T!vars
  <2> QED BY <1>2, <2>3, <2>4, Ends
<1>3. CASE process = "up" /\ process' = "up" /\ UNCHANGED running
  BY <1>3, FlowIsLine
<1>4. CASE running' # running
  <2>1. running' = FALSE /\ UNCHANGED <<Taken, Pending, shown, sent>>
    <3>1. running' = FALSE
      BY <1>4, NextStops, Zenon
    <3>2. UNCHANGED <<Taken, Pending, shown, sent>>
      BY <1>4, FlagAlone, Zenon
    <3> QED BY <3>1, <3>2
  <2>2. T!AskToStop \/ UNCHANGED T!vars
    BY <2>1 DEF T!AskToStop, T!vars
  <2> QED BY <2>2 DEF T!Next
<1> QED BY <1>1, <1>2, <1>3, <1>4

LEMMA InitLine == Init => T!Init
<1>1. Init => Taken = <<>> /\ Pending = <<>>
  BY DEF Init, Q!Init, D!Init, D!Unused, Taken, Pending, GuiHolds, RpmsgHolds, RingHolds,
     ChannelHolds, Q!Ready, Q!Offered, Q!Threads
<1> QED BY <1>1 DEF Init, T!Init

(* Two workers, a ring under a lock, a channel that dies and comes back and
   a flag anybody may clear amount to a channel and one line behind it: a
   message taken whole, of a known type and with less than a ring of others
   before it is shown in its turn; the channel is lost only with the R5 or
   after a stop request, and the line only after a stop request.           *)
THEOREM ApplicationIsALine == Spec => TelemetrySpec
<1>1. Spec => T!Init /\ [][T!Next]_(T!vars)
  BY InitLine, StepOfTheLine, StopsHold, NextMovesFlow, FlowInvariant, FreshHolds,
     AppInvariantHolds, DriverInvariant, QueueInvariant, PTL DEF Spec
<1> QED BY <1>1 DEF TelemetrySpec, T!Spec

-----------------------------------------------------------------------------
(* A dead channel. *)

(* Nothing but a close makes a dead descriptor alive again. *)
LEMMA DeadStaysDead ==
    ASSUME AppInv, D!IInv, Fresh, file[3].hung, [Next]_vars
    PROVE  file'[3].hung \/ (rpc = "close" /\ file'[3].path = NoPath)
<1> USE DEF mainVars, signalVars
<1>0. file \in [{3} -> D!FileType] /\ file[3].path # NoPath
  BY DEF D!IInv, D!TypeOK, Fresh, D!Unused
<1>1. CASE UNCHANGED file
  BY <1>1
<1>2. CASE RpmsgWorker
  <2>1. CASE RpmsgOpen
    <3>1. ~D!OpenFile("rpmsg") \/ UNCHANGED file
      BY <1>0 DEF D!OpenFile, D!LowestFree, D!InUse
    <3> QED BY <2>1, <3>1 DEF RpmsgOpen, RpmsgGoto, AppInv, ChannelInv, D!CtxInit,
               D!OpenCall, D!Released, D!IsOpen, D!NoFd
  <2>2. CASE RpmsgTest \/ RpmsgPoll \/ RpmsgPush
    BY <2>2 DEF RpmsgTest, RpmsgPoll, RpmsgPush, D!PollReady, deviceVars
  <2>3. CASE RpmsgRecv
    <3>1. UNCHANGED file \/ \E f : file' = [file EXCEPT ![f].inbox = Tail(@)]
      BY <2>3 DEF RpmsgRecv, D!ReadCall, D!ReadFile
    <3>2. ASSUME NEW f, file' = [file EXCEPT ![f].inbox = Tail(@)] PROVE file'[3].hung
      <4>1. CASE f = 3
        BY <1>0, <3>2, <4>1 DEF D!FileType
      <4>2. CASE f # 3
        BY <1>0, <3>2, <4>2
      <4> QED BY <4>1, <4>2
    <3> QED BY <3>1, <3>2
  <2>4. CASE RpmsgClose
    BY <1>0, <2>4 DEF RpmsgClose, RpmsgGoto, AppInv, ChannelInv, D!Close, D!Released, D!IsOpen,
       D!Unused, D!NoFd
  <2> QED BY <1>2, <2>1, <2>2, <2>3, <2>4 DEF RpmsgWorker
<1>3. CASE R5
  BY <1>0, <1>3 DEF R5, D!Start, D!Stop, D!Deliver, D!FileType
<1>4. CASE Main \/ (\E sig \in Signals : Signal(sig)) \/ UNCHANGED vars
  BY <1>1, <1>4 DEF Main, CatchSignal, InitRxQueue, InitTxQueue, SpawnRpmsg, SpawnGui, Join,
     DestroyRxQueue, DestroyTxQueue, Exit, Signal, deviceVars, vars
<1>5. CASE GuiWorker \/ GuiSpuriousWakeup
  BY <1>1, <1>5 DEF GuiWorker, GuiTest, GuiPop, GuiShow, GuiSpuriousWakeup, GuiRest, deviceVars
<1> QED BY <1>2, <1>3, <1>4, <1>5 DEF Next

(* While it is dead the worker takes nothing from it. *)
LEMMA NothingFromTheDead ==
    ASSUME FlowStep, file[3].hung, NEW d, Holds(d)'
    PROVE  Holds(d)
<1>1. CASE Receives
  BY <1>1 DEF Receives
<1>2. CASE RpmsgHolds' = <<>>
  BY <1>2 DEF Holds
<1>3. CASE UNCHANGED RpmsgHolds
  BY <1>3 DEF Holds
<1> QED BY <1>1, <1>2, <1>3 DEF FlowStep, Still, Sends, CutsShort, Accepts, Refuses, Takes,
           Shows, Closes, Dies, Destroys

LEMMA StepOnDeadChannel ==
    AppInv /\ D!IInv /\ Fresh /\ FlowStep /\ [Next]_vars =>
        (file[3].hung =>
            /\ \A d \in Datagrams : Holds(d)' => Holds(d)
            /\ file'[3].hung \/ (rpc = "close" /\ file'[3].path = NoPath))
  BY DeadStaysDead, NothingFromTheDead

(* A channel the R5 has left under the worker gives it nothing more, not
   even after a restart of the R5: only a stop request ends that.          *)
THEOREM DeadChannelsStayDead == Spec => DeadForGood
  BY StepOnDeadChannel, NextMovesFlow, FreshHolds, AppInvariantHolds, DriverInvariant,
     QueueInvariant, PTL DEF Spec, DeadForGood

-----------------------------------------------------------------------------
(* Types. *)

MainPoints == {"catchInt", "catchTerm", "initRx", "initTx", "spawnRpmsg", "spawnGui",
               "joinOnlyRpmsg", "joinRpmsg", "joinGui", "dropRx", "destroyRx", "destroyTx",
               "exit", "over"}
RpmsgPoints == {"none", "start", "open", "opening", "test", "poll", "recv", "receiving",
                "push", "pushing", "close", "done"}
GuiPoints == {"none", "test", "pop", "popping", "show", "done"}

Places ==
    /\ mainPc \in MainPoints /\ rpc \in RpmsgPoints /\ gpc \in GuiPoints
    /\ running \in BOOLEAN /\ txLive \in BOOLEAN
    /\ caught \subseteq Signals /\ process \in {"up", "exited", "killed"}

LEMMA NextPlaces == ASSUME Places, [Next]_vars PROVE Places'
<1> USE DEF Places, MainPoints, RpmsgPoints, GuiPoints, Signals, mainVars, signalVars
<1>1. CASE Main
  <2>1. mainPc' \in MainPoints
    BY <1>1 DEF Main, CatchSignal, InitRxQueue, InitTxQueue, SpawnRpmsg, SpawnGui, Join,
       DestroyRxQueue, DestroyTxQueue, Exit, MainGoto
  <2>2. rpc' \in {rpc, "start"} /\ gpc' \in {gpc, "test"} /\ running' \in {running, FALSE}
    BY <1>1 DEF Main, CatchSignal, InitRxQueue, InitTxQueue, SpawnRpmsg, SpawnGui, Join,
       DestroyRxQueue, DestroyTxQueue, Exit
  <2>3. txLive' \in BOOLEAN /\ caught' \subseteq Signals /\ process' \in {process, "exited"}
    BY <1>1 DEF Main, CatchSignal, InitRxQueue, InitTxQueue, SpawnRpmsg, SpawnGui, Join,
       DestroyRxQueue, DestroyTxQueue, Exit
  <2> QED BY <2>1, <2>2, <2>3
<1>2. ASSUME NEW sig \in Signals, Signal(sig) PROVE Places'
  <2>1. running' \in BOOLEAN /\ UNCHANGED <<mainPc, txLive, rpc, gpc>>
    BY <1>2 DEF Signal
  <2>2. process' \in {"up", "exited", "killed"} /\ caught' \subseteq Signals
    BY <1>2 DEF Signal
  <2> QED BY <2>1, <2>2
<1>3. CASE RpmsgWorker
  <2>1. rpc' \in RpmsgPoints
    BY <1>3 DEF RpmsgWorker, RpmsgOpen, RpmsgTest, RpmsgPoll, RpmsgRecv, RpmsgPush, RpmsgClose,
       RpmsgGoto
  <2>2. UNCHANGED <<mainPc, txLive, running, caught, process, gpc>>
    BY <1>3 DEF RpmsgWorker, RpmsgOpen, RpmsgTest, RpmsgPoll, RpmsgRecv, RpmsgPush, RpmsgClose,
       RpmsgRest
  <2> QED BY <2>1, <2>2
<1>4. CASE GuiWorker
  BY <1>4 DEF GuiWorker, GuiTest, GuiPop, GuiShow, GuiRest, GuiGoto
<1>5. CASE GuiSpuriousWakeup \/ R5 \/ UNCHANGED vars
  BY <1>5 DEF GuiSpuriousWakeup, R5, GuiRest, vars
<1> QED BY <1>1, <1>2, <1>3, <1>4, <1>5 DEF Next

LEMMA PlacesHold == Spec => []Places
<1>1. Init => Places
  BY DEF Init, Places, MainPoints, RpmsgPoints, GuiPoints
<1>2. Places /\ [Next]_vars => Places'
  BY NextPlaces
<1> QED BY <1>1, <1>2, PTL DEF Spec

(* Every variable of the application, of its queue and of its channel keeps
   its type.                                                               *)
THEOREM TypeCorrect == Spec => []TypeOK
<1>1. ASSUME Places, D!IInv, QP!IInv, FlowInv PROVE TypeOK
  <2>1. Q!TypeOK
    BY <1>1 DEF QP!IInv, QP!TypeOK, Q!TypeOK, Q!Slots, QP!Slots, Q!Threads, QP!Threads,
       Q!PushPoints, QP!PushPoints, Q!PopPoints, QP!PopPoints, Q!OK, QP!OK,
       Q!EINVAL, QP!EINVAL, Q!ENOSPC, QP!ENOSPC
  <2>2. D!TypeOK
    BY <1>1 DEF D!IInv
  <2>3. sent \in Nat /\ shown \in Seq(Nat)
    BY <1>1, NumbersAreNat, SeqOfNumbers DEF FlowInv
  <2> QED BY <1>1, <2>1, <2>2, <2>3 DEF TypeOK, Places, MainPoints, RpmsgPoints, GuiPoints
<1> QED BY <1>1, PlacesHold, DriverInvariant, QueueInvariant, FlowInvariant, PTL
-----------------------------------------------------------------------------
(* A stuck shutdown. *)

(* The GUI worker inside msg_queue_pop on an empty ring, asleep or about to
   fall asleep again, with the other worker gone and main not past its
   joins.                                                                  *)
Stuck ==
    /\ rpc = "done" /\ count = 0
    /\ gpc = "popping" /\ qpc["gui"] \in {"popLock", "popTest", "popWait"}
    /\ mainPc \in {"joinRpmsg", "joinGui"} /\ process # "exited"

LEMMA StuckNow == AppInv /\ Places /\ GuiStuck => Stuck
  BY DEF AppInv, MainInv, CallerInv, Places, MainPoints, GuiStuck, Stuck, Inactive, Q!PopPoints

LEMMA StuckStays == ASSUME AppInv, Stuck, [Next]_vars PROVE Stuck'
<1> USE DEF Stuck, mainVars, signalVars
<1>t. qpc \in [{"rpmsg", "gui"} -> {"idle"} \cup Q!PushPoints \cup Q!PopPoints]
  BY DEF AppInv, CallerInv, Q!Threads
<1>1. CASE Main
  <2>1. CASE Join
    BY <2>1 DEF Join, MainGoto, queueVars
  <2>2. ~CatchSignal("SIGINT", "catchInt", "catchTerm")
        /\ ~CatchSignal("SIGTERM", "catchTerm", "initRx")
    BY DEF CatchSignal, MainGoto
  <2>3. /\ ~InitRxQueue /\ ~InitTxQueue /\ ~SpawnRpmsg /\ ~SpawnGui /\ ~DestroyRxQueue
        /\ ~DestroyTxQueue /\ ~Exit
    BY DEF InitRxQueue, InitTxQueue, SpawnRpmsg, SpawnGui, DestroyRxQueue, DestroyTxQueue,
       Exit, MainGoto
  <2> QED BY <1>1, <2>1, <2>2, <2>3 DEF Main
<1>2. ASSUME NEW sig \in Signals, Signal(sig) PROVE Stuck'
  BY <1>2 DEF Signal, queueVars
<1>3. ~RpmsgWorker
  BY DEF RpmsgWorker, RpmsgOpen, RpmsgTest, RpmsgPoll, RpmsgRecv, RpmsgPush, RpmsgClose,
     RpmsgGoto
<1>4. CASE GuiWorker
  <2>1. Q!Pop("gui") /\ UNCHANGED <<GuiRest, shown>>
        /\ GuiGoto("popping", IF qpc'["gui"] = "idle" THEN "show" ELSE "popping")
    BY <1>4 DEF GuiWorker, GuiTest, GuiPop, GuiShow, GuiGoto
  <2>2. UNCHANGED <<rpc, mainPc, process>>
    BY <2>1 DEF GuiRest
  <2>3. count' = 0 /\ qpc'["gui"] \in {"popTest", "popWait"}
    BY <1>t, <2>1 DEF Q!Pop, Q!PopLock, Q!PopWait, Q!PopTake, Q!PopCount, Q!PopUnlock, Q!Goto,
       Q!ring
  <2> QED BY <2>1, <2>2, <2>3 DEF GuiGoto
<1>5. CASE GuiSpuriousWakeup
  BY <1>t, <1>5 DEF GuiSpuriousWakeup, GuiRest, Q!SpuriousWakeup, Q!Goto, Q!ring
<1>6. CASE R5 \/ UNCHANGED vars
  BY <1>6 DEF R5, queueVars, vars
<1> QED BY <1>1, <1>2, <1>3, <1>4, <1>5, <1>6 DEF Next

(* What a stop request leaves behind on an idle channel stays as it is: no
   wakeup, no message of the R5 and no further thread ever gets the GUI
   worker out of msg_queue_pop (GUI.c:28), and main never returns from its
   joins.  Only a signal without a handler ends the process.               *)
THEOREM StuckForGood == Spec => [](GuiStuck => []Stuck)
<1>1. AppInv /\ Stuck /\ [Next]_vars => Stuck'
  BY StuckStays
<1> QED BY <1>1, StuckNow, PlacesHold, AppInvariantHolds, PTL DEF Spec
-----------------------------------------------------------------------------
(* How long a stop request takes to reach the RPMsg worker. *)

(* The steps the worker has at most before its end once the flag is clear. *)
PushLeft ==
    CASE qpc["rpmsg"] = "pushLock"   -> 8
      [] qpc["rpmsg"] = "pushTest"   -> 7
      [] qpc["rpmsg"] = "pushCount"  -> 6
      [] qpc["rpmsg"] = "pushSignal" -> 5
      [] qpc["rpmsg"] = "pushUnlock" -> 4
      [] OTHER                       -> 3

RpmsgLeft ==
    CASE rpc = "start"     -> 14
      [] rpc = "open"      -> 13
      [] rpc = "opening"   -> 12
      [] rpc = "poll"      -> 12
      [] rpc = "recv"      -> 11
      [] rpc = "receiving" -> 10
      [] rpc = "push"      -> 9
      [] rpc = "pushing"   -> PushLeft
      [] rpc = "test"      -> 2
      [] rpc = "close"     -> 1
      [] OTHER             -> 0

LEMMA RpmsgLeftType == RpmsgLeft \in 0 .. 14
  BY DEF RpmsgLeft, PushLeft

LEMMA WorkerRunsDown ==
    ASSUME CallerInv, ~running, RpmsgWorker
    PROVE  RpmsgLeft' < RpmsgLeft /\ rpc' # "none"
<1>1. CASE RpmsgOpen \/ RpmsgTest \/ RpmsgPoll \/ RpmsgRecv \/ RpmsgClose
  <2>1. \/ rpc = "start" /\ rpc' = "open"
        \/ rpc = "open" /\ rpc' = "opening"
        \/ rpc = "opening" /\ rpc' \in {"done", "test"}
        \/ rpc = "test" /\ rpc' = "close"
        \/ rpc = "poll" /\ rpc' \in {"recv", "test"}
        \/ rpc = "recv" /\ rpc' = "receiving"
        \/ rpc = "receiving" /\ rpc' \in {"push", "test"}
        \/ rpc = "close" /\ rpc' = "done"
    BY <1>1 DEF RpmsgOpen, RpmsgTest, RpmsgPoll, RpmsgRecv, RpmsgClose, RpmsgGoto
  <2> QED BY <2>1 DEF RpmsgLeft
<1>2. CASE RpmsgPush
  <2>1. CASE RpmsgGoto("push", "pushing") /\ Q!CallPush("rpmsg", buf["rpmsg"])
    <3>1. rpc = "push" /\ rpc' = "pushing"
      BY <2>1 DEF RpmsgGoto
    <3> QED BY <3>1 DEF RpmsgLeft, PushLeft
  <2>2. CASE /\ Q!Push("rpmsg")
             /\ RpmsgGoto("pushing", IF qpc'["rpmsg"] = "idle" THEN "test" ELSE "pushing")
    <3>1. "rpmsg" \in DOMAIN qpc
      BY DEF CallerInv, Q!Threads
    <3>2. \/ qpc["rpmsg"] = "pushLock" /\ qpc'["rpmsg"] = "pushTest"
          \/ qpc["rpmsg"] = "pushTest" /\ qpc'["rpmsg"] \in {"idle", "pushCount"}
          \/ qpc["rpmsg"] = "pushCount" /\ qpc'["rpmsg"] = "pushSignal"
          \/ qpc["rpmsg"] = "pushSignal" /\ qpc'["rpmsg"] = "pushUnlock"
          \/ qpc["rpmsg"] = "pushUnlock" /\ qpc'["rpmsg"] = "idle"
      <4>1. \A w \in waiting : w # "rpmsg"
        BY DEF CallerInv
      <4> QED BY <2>2, <3>1, <4>1 DEF Q!Push, Q!PushLock, Q!PushFull, Q!PushStore, Q!PushCount,
                 Q!PushSignal, Q!PushUnlock, Q!Goto
    <3>3. rpc = "pushing" /\ rpc' = IF qpc'["rpmsg"] = "idle" THEN "test" ELSE "pushing"
      BY <2>2 DEF RpmsgGoto
    <3> QED BY <3>2, <3>3 DEF RpmsgLeft, PushLeft
  <2> QED BY <1>2, <2>1, <2>2 DEF RpmsgPush
<1> QED BY <1>1, <1>2 DEF RpmsgWorker

LEMMA OthersLeaveWorker ==
    ASSUME MainInv, CallerInv, [Next]_vars, ~RpmsgWorker, rpc # "none"
    PROVE  rpc' = rpc /\ qpc'["rpmsg"] = qpc["rpmsg"]
<1> USE DEF queueVars, mainVars, signalVars
<1>1. CASE Main
  <2>1. ~SpawnRpmsg
    BY DEF SpawnRpmsg, MainGoto, MainInv
  <2>2. rpc' = rpc /\ qpc' = qpc
    BY <1>1, <2>1 DEF Main, CatchSignal, InitRxQueue, InitTxQueue, SpawnGui, Join,
       DestroyRxQueue, DestroyTxQueue, Exit, Q!QueueInit, Q!QueueDestroy
  <2> QED BY <2>2
<1>2. ASSUME NEW sig \in Signals, Signal(sig)
      PROVE  rpc' = rpc /\ qpc'["rpmsg"] = qpc["rpmsg"]
  BY <1>2 DEF Signal
<1>3. CASE GuiWorker
  <2>1. CASE GuiTest \/ GuiShow
    BY <2>1 DEF GuiTest, GuiShow, GuiRest
  <2>2. CASE GuiPop
    <3>1. rpc' = rpc
      BY <2>2 DEF GuiPop, GuiRest
    <3>2. qpc'["rpmsg"] = qpc["rpmsg"]
      BY <2>2 DEF GuiPop, CallerInv, Q!CallPop, Q!Pop, Q!PopLock, Q!PopWait, Q!PopTake,
         Q!PopCount, Q!PopUnlock, Q!Goto, Q!Threads
    <3> QED BY <3>1, <3>2
  <2> QED BY <1>3, <2>1, <2>2 DEF GuiWorker
<1>4. CASE GuiSpuriousWakeup
  BY <1>4 DEF GuiSpuriousWakeup, GuiRest, CallerInv, Q!SpuriousWakeup, Q!Goto, Q!Threads
<1>5. CASE R5 \/ UNCHANGED vars
  BY <1>5 DEF R5, vars
<1> QED BY <1>1, <1>2, <1>3, <1>4, <1>5 DEF Next

(* Once the flag is clear (rpmsg.c:37) it stays so, every step of the      *)
(* RPMsg worker brings it nearer to its end, and nothing main, the GUI     *)
(* worker, a signal or the R5 does sets it back: fourteen steps at most,   *)
(* whatever the channel and the ring hold.  This is what RpmsgStops rests  *)
(* on besides fairness.                                                    *)
THEOREM RpmsgRunsDown ==
    Spec => /\ [](RpmsgLeft \in 0 .. 14)
            /\ [][~running /\ rpc # "none" =>
                     /\ ~running' /\ rpc' # "none"
                     /\ RpmsgLeft' <= RpmsgLeft
                     /\ RpmsgWorker => RpmsgLeft' < RpmsgLeft]_vars
<1>1. AppInv /\ Stops /\ [Next]_vars /\ ~running /\ rpc # "none" =>
         /\ ~running' /\ rpc' # "none"
         /\ RpmsgLeft' <= RpmsgLeft
         /\ RpmsgWorker => RpmsgLeft' < RpmsgLeft
  <2>1. SUFFICES ASSUME AppInv, Stops, [Next]_vars, ~running, rpc # "none"
                 PROVE  /\ ~running' /\ rpc' # "none"
                        /\ RpmsgLeft' <= RpmsgLeft
                        /\ RpmsgWorker => RpmsgLeft' < RpmsgLeft
    OBVIOUS
  <2>2. MainInv /\ CallerInv
    BY <2>1 DEF AppInv
  <2>3. running' # running => running' = FALSE
    BY <2>1, NextStops, Zenon
  <2>4. ~running'
    BY <2>1, <2>3, Zenon
  <2>5. RpmsgLeft' \in 0 .. 14 /\ RpmsgLeft \in 0 .. 14
    BY RpmsgLeftType DEF RpmsgLeft, PushLeft
  <2>6. CASE RpmsgWorker
    BY <2>1, <2>2, <2>4, <2>5, <2>6, WorkerRunsDown
  <2>7. CASE ~RpmsgWorker
    <3>1. rpc' = rpc /\ qpc'["rpmsg"] = qpc["rpmsg"]
      BY <2>1, <2>2, <2>7, OthersLeaveWorker
    <3>2. RpmsgLeft' = RpmsgLeft
      BY <3>1 DEF RpmsgLeft, PushLeft
    <3> QED BY <2>1, <2>4, <2>5, <2>7, <3>1, <3>2
  <2> QED BY <2>6, <2>7
<1> QED BY <1>1, RpmsgLeftType, AppInvariantHolds, StopsHold, PTL DEF Spec
=============================================================================
