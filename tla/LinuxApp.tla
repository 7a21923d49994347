------------------------------ MODULE LinuxApp ------------------------------
(***************************************************************************)
(* The A53 application: main.c starts the RPMsg worker (Threads/rpmsg.c),  *)
(* which moves messages from the channel to rx_queue, and the GUI worker   *)
(* (Threads/GUI.c), which takes them from rx_queue and shows them; a       *)
(* signal asks everybody to stop.  The module composes MsgQueue and        *)
(* RpmsgDriver: every step of theirs is a step of the thread that calls    *)
(* them.                                                                   *)
(***************************************************************************)
EXTENDS Integers, Sequences, FiniteSets

CONSTANTS Datagrams,  \* what the R5 sends: records [id, kind, len]
          MsgSize,    \* sizeof(app_msg_t)
          Capacity,   \* QUEUE_MAX_SIZE
          InboxSize,  \* bound: datagrams the kernel holds for the channel
          NoMsg, NoThread, NoPath

ASSUME AppAssumption ==
    /\ \A d \in Datagrams : d.id \in Nat \ {0} /\ d.len \in Nat
    /\ MsgSize \in Nat \ {0} /\ Capacity \in Nat \ {0}
    /\ NoMsg \notin Datagrams
    /\ NoThread \notin {"rpmsg", "gui"}
    /\ NoPath # "/dev/rpmsg0"

VARIABLES
    (* main.c *)
    mainPc,   \* where main is
    running,  \* g_is_running
    caught,   \* the signals whose handler is installed
    process,  \* "up", "exited" or "killed"
    txLive,   \* tx_queue is initialised
    (* the workers *)
    rpc,      \* where rpmsg_worker_func is
    gpc,      \* where gui_worker_func is
    (* rx_queue, see MsgQueue *)
    buffer, head, tail, count, live, owner, waiting, qpc, arg, out, ret,
    (* the channel, see RpmsgDriver *)
    ctx, file, up, call, buf, devRet,
    (* observed *)
    sent,     \* how many messages the R5 has sent
    shown     \* the ids of the messages on the dashboard, oldest first

ring    == <<buffer, head, tail, count>>
mainVars == <<mainPc, txLive>>
queueVars == <<buffer, head, tail, count, live, owner, waiting, qpc, arg, out, ret>>
deviceVars == <<ctx, file, up, call, buf, devRet>>
signalVars == <<running, caught, process>>

vars == <<mainVars, signalVars, rpc, gpc, queueVars, deviceVars, sent, shown>>

Signals == {"SIGINT", "SIGTERM"}

Device == "/dev/rpmsg0"

Q == INSTANCE MsgQueue
        WITH Producers <- {"rpmsg"}, Consumers <- {"gui"}, Messages <- Datagrams

D == INSTANCE RpmsgDriver
        WITH Contexts <- {"rpmsg"}, Fds <- {3}, Paths <- {Device},
             DefaultPath <- Device, LengthOf <- [d \in Datagrams |-> d.len],
             NoData <- NoMsg, CounterMod <- 1, ret <- devRet

Init ==
    /\ mainPc = "catchInt"
    /\ running = TRUE
    /\ caught = {}
    /\ process = "up"
    /\ txLive = FALSE
    /\ rpc = "none"
    /\ gpc = "none"
    /\ Q!Init
    /\ D!Init
    /\ sent = 0
    /\ shown = <<>>

-----------------------------------------------------------------------------
(* main.c *)

MainGoto(from, to) ==
    /\ process = "up"
    /\ mainPc = from
    /\ mainPc' = to

(* signal(sig, signal_handler), lines 45-48. *)
CatchSignal(sig, from, to) ==
    /\ \/ /\ MainGoto(from, to)
          /\ caught' = caught \cup {sig}
       \/ /\ MainGoto(from, "exit")
          /\ UNCHANGED caught
    /\ UNCHANGED <<running, process, txLive, rpc, gpc, queueVars, deviceVars, sent, shown>>

(* Lines 60-63. *)
InitRxQueue ==
    /\ \E made \in SUBSET {"lock", "cond"} : Q!QueueInit(made)
    /\ MainGoto("initRx", IF Q!Ready' THEN "initTx" ELSE "exit")
    /\ UNCHANGED <<signalVars, txLive, rpc, gpc, deviceVars, sent, shown>>

(* Lines 65-69. *)
InitTxQueue ==
    /\ \/ MainGoto("initTx", "spawnRpmsg") /\ txLive' = TRUE
       \/ MainGoto("initTx", "dropRx") /\ UNCHANGED txLive
    /\ UNCHANGED <<signalVars, rpc, gpc, queueVars, deviceVars, sent, shown>>

(* Lines 96-102: a failed creation asks everybody to stop. *)
SpawnRpmsg ==
    /\ \/ /\ MainGoto("spawnRpmsg", "spawnGui")
          /\ rpc' = "start"
          /\ UNCHANGED running
       \/ /\ MainGoto("spawnRpmsg", "destroyRx")
          /\ running' = FALSE
          /\ UNCHANGED rpc
    /\ UNCHANGED <<caught, process, txLive, gpc, queueVars, deviceVars, sent, shown>>

(* Fault: the creation of the second thread fails, the first is not joined. *)
SpawnGuiNoJoin ==
    /\ \/ /\ MainGoto("spawnGui", "joinRpmsg")
          /\ gpc' = "test"
          /\ UNCHANGED running
       \/ /\ MainGoto("spawnGui", "destroyRx")
          /\ running' = FALSE
          /\ UNCHANGED gpc
    /\ UNCHANGED <<caught, process, txLive, rpc, queueVars, deviceVars, sent, shown>>

(* Lines 105-112: a failed creation also waits for the thread that runs. *)
SpawnGui ==
    /\ \/ /\ MainGoto("spawnGui", "joinRpmsg")
          /\ gpc' = "test"
          /\ UNCHANGED running
       \/ /\ MainGoto("spawnGui", "joinOnlyRpmsg")
          /\ running' = FALSE
          /\ UNCHANGED gpc
    /\ UNCHANGED <<caught, process, txLive, rpc, queueVars, deviceVars, sent, shown>>

(* pthread_join, lines 108, 119 and 120. *)
Join ==
    /\ \/ rpc = "done" /\ MainGoto("joinOnlyRpmsg", "destroyRx")
       \/ rpc = "done" /\ MainGoto("joinRpmsg", "joinGui")
       \/ gpc = "done" /\ MainGoto("joinGui", "destroyRx")
    /\ UNCHANGED <<signalVars, txLive, rpc, gpc, queueVars, deviceVars, sent, shown>>

(* Lines 67, 99, 109 and 126. *)
DestroyRxQueue ==
    /\ MainGoto(mainPc, IF mainPc = "dropRx" THEN "exit" ELSE "destroyTx")
    /\ mainPc \in {"dropRx", "destroyRx"}
    /\ Q!QueueDestroy
    /\ UNCHANGED <<signalVars, txLive, rpc, gpc, deviceVars, sent, shown>>

(* Lines 100, 110 and 127. *)
DestroyTxQueue ==
    /\ MainGoto("destroyTx", "exit")
    /\ txLive' = FALSE
    /\ UNCHANGED <<signalVars, rpc, gpc, queueVars, deviceVars, sent, shown>>

(* return from main: the process ends with every thread in it. *)
Exit ==
    /\ MainGoto("exit", "over")
    /\ process' = "exited"
    /\ UNCHANGED <<running, caught, txLive, rpc, gpc, queueVars, deviceVars, sent, shown>>

Main ==
    \/ CatchSignal("SIGINT", "catchInt", "catchTerm")
    \/ CatchSignal("SIGTERM", "catchTerm", "initRx")
    \/ InitRxQueue
    \/ InitTxQueue
    \/ SpawnRpmsg
    \/ SpawnGui
    \/ Join
    \/ DestroyRxQueue
    \/ DestroyTxQueue
    \/ Exit

(* signal_handler, lines 31-36.  Compiled with -std=c99 (Makefile:20) the C
   library gives signal() its System V meaning: the handler is uninstalled
   when it is called.  A signal without a handler kills the process.       *)
Signal(sig) ==
    /\ process = "up"
    /\ \/ /\ sig \in caught
          /\ caught' = caught \ {sig}
          /\ running' = FALSE
          /\ UNCHANGED process
       \/ /\ sig \notin caught
          /\ process' = "killed"
          /\ UNCHANGED <<caught, running>>
    /\ UNCHANGED <<mainVars, rpc, gpc, queueVars, deviceVars, sent, shown>>

-----------------------------------------------------------------------------
(* Threads/rpmsg.c *)

RpmsgGoto(from, to) ==
    /\ process = "up"
    /\ rpc = from
    /\ rpc' = to

RpmsgRest == <<mainVars, signalVars, gpc, sent, shown>>

(* Lines 26-31.  When the device cannot be opened the thread just ends. *)
RpmsgOpen ==
    /\ \/ RpmsgGoto("start", "open") /\ D!CtxInit("rpmsg")
       \/ RpmsgGoto("open", "opening") /\ D!OpenCall("rpmsg", Device)
       \/ /\ D!OpenFile("rpmsg")
          /\ RpmsgGoto("opening", IF devRet'["rpmsg"] # D!OK THEN "done" ELSE "test")
    /\ UNCHANGED <<RpmsgRest, queueVars>>

(* Fault: the loop does not look at the flag. *)
RpmsgTestForever ==
    /\ RpmsgGoto("test", "poll")
    /\ UNCHANGED <<RpmsgRest, queueVars, deviceVars>>

(* Fault: the thread returns out of its loop and leaves the channel open. *)
RpmsgTestReturns ==
    /\ RpmsgGoto("test", IF running THEN "poll" ELSE "done")
    /\ UNCHANGED <<RpmsgRest, queueVars, deviceVars>>

(* Line 37. *)
RpmsgTest ==
    /\ RpmsgGoto("test", IF running THEN "poll" ELSE "close")
    /\ UNCHANGED <<RpmsgRest, queueVars, deviceVars>>

(* Lines 41-42. *)
RpmsgPoll ==
    /\ D!PollReady("rpmsg", 50)
    /\ RpmsgGoto("poll", IF devRet'["rpmsg"] > 0 THEN "recv" ELSE "test")
    /\ UNCHANGED <<RpmsgRest, queueVars>>

(* Fault: the stop flag is looked at again, and a message in hand dropped. *)
RpmsgRecvGivesUp ==
    /\ \/ RpmsgGoto("recv", "receiving") /\ D!ReadCall("rpmsg", "recv", 0)
       \/ /\ D!ReadFile("rpmsg")
          /\ RpmsgGoto("receiving",
                       IF devRet'["rpmsg"] = D!OK /\ running THEN "push" ELSE "test")
    /\ UNCHANGED <<RpmsgRest, queueVars>>

(* Line 43: what cannot be received whole is dropped. *)
RpmsgRecv ==
    /\ \/ RpmsgGoto("recv", "receiving") /\ D!ReadCall("rpmsg", "recv", 0)
       \/ /\ D!ReadFile("rpmsg")
          /\ RpmsgGoto("receiving", IF devRet'["rpmsg"] = D!OK THEN "push" ELSE "test")
    /\ UNCHANGED <<RpmsgRest, queueVars>>

(* Line 45: the result of the push is not looked at. *)
RpmsgPush ==
    /\ \/ RpmsgGoto("push", "pushing") /\ Q!CallPush("rpmsg", buf["rpmsg"])
       \/ /\ Q!Push("rpmsg")
          /\ RpmsgGoto("pushing", IF qpc'["rpmsg"] = "idle" THEN "test" ELSE "pushing")
    /\ UNCHANGED <<RpmsgRest, deviceVars>>

(* Lines 54-56. *)
RpmsgClose ==
    /\ RpmsgGoto("close", "done")
    /\ D!Close("rpmsg")
    /\ UNCHANGED <<RpmsgRest, queueVars>>

RpmsgWorker ==
    RpmsgOpen \/ RpmsgTest \/ RpmsgPoll \/ RpmsgRecv \/ RpmsgPush \/ RpmsgClose

-----------------------------------------------------------------------------
(* Threads/GUI.c *)

GuiGoto(from, to) ==
    /\ process = "up"
    /\ gpc = from
    /\ gpc' = to

GuiRest == <<mainVars, signalVars, rpc, deviceVars, sent>>

(* Line 24. *)
GuiTest ==
    /\ GuiGoto("test", IF running THEN "pop" ELSE "done")
    /\ UNCHANGED <<GuiRest, queueVars, shown>>

(* Line 28. *)
GuiPop ==
    /\ \/ GuiGoto("pop", "popping") /\ Q!CallPop("gui")
       \/ /\ Q!Pop("gui")
          /\ GuiGoto("popping", IF qpc'["gui"] = "idle" THEN "show" ELSE "popping")
    /\ UNCHANGED <<GuiRest, shown>>

(* Fault: if for while, one message and no more. *)
GuiShowOnce ==
    /\ GuiGoto("show", "done")
    /\ shown' = IF out["gui"].kind \in {"sensor", "heartbeat"}
                THEN Append(shown, out["gui"].id) ELSE shown
    /\ UNCHANGED <<GuiRest, queueVars>>

(* Lines 29-41: a message of any other type is dropped. *)
GuiShow ==
    /\ GuiGoto("show", "test")
    /\ shown' = IF out["gui"].kind \in {"sensor", "heartbeat"}
                THEN Append(shown, out["gui"].id) ELSE shown
    /\ UNCHANGED <<GuiRest, queueVars>>

GuiWorker == GuiTest \/ GuiPop \/ GuiShow

GuiSpuriousWakeup ==
    /\ process = "up"
    /\ Q!SpuriousWakeup("gui")
    /\ UNCHANGED <<GuiRest, gpc, shown>>

-----------------------------------------------------------------------------
(* The R5: it sends its messages one after the other, while its channel is
   open, and stops and starts when the operator tells it to.               *)
R5 ==
    /\ process = "up"
    /\ \/ /\ D!Start(Device) \/ D!Stop(Device)
          /\ UNCHANGED sent
       \/ \E d \in Datagrams :
            /\ d.id = sent + 1
            /\ D!Deliver(3, d)
            /\ sent' = sent + 1
    /\ UNCHANGED <<mainVars, signalVars, rpc, gpc, queueVars, shown>>

Next ==
    \/ Main
    \/ \E sig \in Signals : Signal(sig)
    \/ RpmsgWorker
    \/ GuiWorker
    \/ GuiSpuriousWakeup
    \/ R5

Spec == Init /\ [][Next]_vars

(* The three threads are scheduled, and the two that share a mutex do not
   starve each other.  Signals, spurious wakeups and the R5 owe nothing.   *)
FairSpec ==
    /\ Spec
    /\ WF_vars(Main)
    /\ SF_vars(RpmsgWorker)
    /\ SF_vars(GuiWorker)
-----------------------------------------------------------------------------
(* Properties. *)

TypeOK ==
    /\ mainPc \in {"catchInt", "catchTerm", "initRx", "initTx", "spawnRpmsg",
                   "spawnGui", "joinOnlyRpmsg", "joinRpmsg", "joinGui",
                   "dropRx", "destroyRx", "destroyTx", "exit", "over"}
    /\ running \in BOOLEAN
    /\ caught \subseteq Signals
    /\ process \in {"up", "exited", "killed"}
    /\ txLive \in BOOLEAN
    /\ rpc \in {"none", "start", "open", "opening", "test", "poll", "recv",
                "receiving", "push", "pushing", "close", "done"}
    /\ gpc \in {"none", "test", "pop", "popping", "show", "done"}
    /\ Q!TypeOK
    /\ D!TypeOK
    /\ sent \in Nat
    /\ shown \in Seq(Nat)

(* The threads use rx_queue by its rules: nobody is inside it, and nobody
   enters, before main has initialised it or after main has destroyed it,
   on any path through main, the failing ones included.                    *)
QueueUsedByItsRules == Q!Spec

(* Whatever path main takes to its return, it leaves nothing behind: both
   queues destroyed, the channel closed, no thread still running (lines
   67, 99-100, 108-110, 119-127).                                          *)
NothingLeftBehind ==
    process = "exited" =>
        /\ live = {} /\ ~txLive
        /\ D!InUse = {}
        /\ rpc \in {"none", "done"}
        /\ gpc \in {"none", "done"}

(* The messages on their way, from the dashboard back to the channel.  What
   a destroyed ring or a dead endpoint still holds nobody will ever get.   *)
GuiHolds ==
    IF gpc = "show" \/ qpc["gui"] \in {"popCount", "popUnlock"}
    THEN <<out["gui"]>> ELSE <<>>
RingHolds == IF Q!Ready THEN Q!Content ELSE <<>>
RpmsgHolds ==
    IF rpc = "push" THEN <<buf["rpmsg"]>>
    ELSE IF Q!Offered["rpmsg"] # NoMsg THEN <<Q!Offered["rpmsg"]>> ELSE <<>>
ChannelHolds == IF file[3].hung THEN <<>> ELSE file[3].inbox
OnTheWay == GuiHolds \o RingHolds \o RpmsgHolds \o ChannelHolds

Ids(s) == [i \in DOMAIN s |-> s[i].id]

(* From the channel to the dashboard no message overtakes another and none
   appears twice, across two threads, three buffers and a restart of the
   R5.                                                                     *)
InOrder ==
    LET all == shown \o Ids(OnTheWay)
    IN  \A i, j \in DOMAIN all : i < j => all[i] < all[j]

(* What the application has taken from the channel and what it has not.
   A process that has ended has nothing.                                   *)
Taken == IF process = "up" THEN GuiHolds \o RingHolds \o RpmsgHolds ELSE <<>>
Pending == IF process = "up" THEN ChannelHolds ELSE <<>>

T == INSTANCE Telemetry
        WITH line <- Taken, channel <- Pending, stopping <- ~running

(* Seen from the R5 and the dashboard the application is a channel and one
   line behind it: nobody overtakes, a message of a known type that is taken
   whole and has less than a ring of others before it reaches the dashboard,
   the channel is lost only with the R5 or after a stop request, the line
   only after a stop request.                                              *)
TelemetrySpec == T!Spec

In(s) == {s[i] : i \in DOMAIN s}

Underway == In(Taken) \cup In(Pending)

(* The ways a message is lost, each at the step that loses it: it is shorter
   than a message (rpmsg_driver.c:183), the ring is full (rpmsg.c:45), its
   type is unknown (GUI.c:29-41); the R5 stops or, after a stop request, the
   worker closes the channel (rpmsg.c:54) with the message still in it; the
   ring is destroyed with the message in it, after a stop request and when
   no thread takes messages any more (main.c:109, 126); a second signal
   kills the process (main.c:45).                                          *)
Dropped(d) ==
    \/ rpc = "receiving" /\ ChannelHolds # <<>> /\ d = Head(ChannelHolds) /\ d.len < MsgSize
    \/ rpc = "pushing" /\ count = Capacity /\ RpmsgHolds = <<d>>
    \/ gpc = "show" /\ GuiHolds = <<d>> /\ d.kind \notin {"sensor", "heartbeat"}
    \/ d \in In(ChannelHolds) /\ (file'[3].hung \/ (rpc = "close" /\ ~running))
    \/ /\ d \in In(RingHolds) /\ mainPc = "destroyRx"
       /\ ~running /\ rpc \in {"none", "done"} /\ gpc \in {"none", "done"}
    \/ process' = "killed" /\ ~running

(* No message disappears otherwise: once the kernel holds it, it moves on
   until it is on the dashboard or is lost in one of these ways.           *)
LostOnlyForAReason ==
    [][\A d \in Underway \ Underway' :
          \/ Dropped(d)
          \/ gpc = "show" /\ shown' = Append(shown, d.id)]_vars

Holds(d) == \E i \in DOMAIN RpmsgHolds : RpmsgHolds[i] = d

(* Once the R5 has stopped under the open channel, the worker gets nothing
   more: not what the endpoint still held, though a poll may have seen it,
   and not what a restarted R5 sends, because nobody opens the channel
   again (rpmsg.c:41-43 goes round on -EIO) until a stop request closes it. *)
DeadForGood ==
    [][file[3].hung =>
          /\ \A d \in Datagrams : Holds(d)' => Holds(d)
          /\ file'[3].hung \/ (rpc = "close" /\ file'[3].path = NoPath)]_vars

(* A stop request reaches the RPMsg worker whatever the channel does: the
   50 ms timeout of line 41 bounds the time it does not look at the flag.  *)
RpmsgStops == (~running /\ rpc # "none") ~> (rpc = "done" \/ process # "up")

(* The GUI worker asleep on a queue nobody will push to any more. *)
GuiStuck == "gui" \in waiting /\ count = 0 /\ rpc = "done"

(* Once the flag is cleared the process ends, unless the GUI worker sleeps
   in msg_queue_pop with nobody left to wake it: that is the only obstacle
   to a shutdown.                                                          *)
ShutdownUnlessIdle == ~running ~> (process # "up" \/ GuiStuck)

(* A message that has entered the ring is on the dashboard some time later,
   unless the application is asked to stop.                                *)
QueuedIsShown ==
    \A d \in Datagrams :
        (/\ d \in {Q!Content[i] : i \in DOMAIN Q!Content}
         /\ d.kind \in {"sensor", "heartbeat"})
        ~> (d.id \in {shown[i] : i \in DOMAIN shown} \/ ~running \/ process # "up")

(* main.c:114: "System up and running. Press Ctrl+C to terminate
   gracefully."  From there on a stop request ends in an exit.             *)
CtrlCTerminates ==
    (mainPc \in {"joinRpmsg", "joinGui"} /\ ~running) ~> (process # "up")

(* main.c:28: signal_handler catches and handles SIGINT and SIGTERM.  Once
   both are registered (line 45) neither kills the process.                *)
SignalsAreCaught ==
    [][mainPc \notin {"catchInt", "catchTerm", "exit", "over"} => process' # "killed"]_vars

-----------------------------------------------------------------------------
(* The inductive invariant behind the theorems of LinuxAppProofs.          *)

Inactive == {"none", "done"}

(* What main has made when, and which threads it has started and joined. *)
MainInv ==
    /\ mainPc \in {"catchInt", "catchTerm", "initRx", "initTx", "spawnRpmsg", "dropRx"}
         => rpc = "none" /\ gpc = "none"
    /\ mainPc \in {"spawnGui", "joinOnlyRpmsg"} => gpc = "none"
    /\ mainPc = "joinGui" => rpc = "done"
    /\ mainPc \in {"destroyRx", "destroyTx", "exit", "over"} => rpc \in Inactive /\ gpc \in Inactive
    /\ Q!Ready <=> mainPc \in {"initTx", "spawnRpmsg", "spawnGui", "joinOnlyRpmsg",
                               "joinRpmsg", "joinGui", "dropRx", "destroyRx"}
    /\ Q!Ready \/ live = {}
    /\ rpc \notin Inactive \/ gpc \notin Inactive => Q!Ready
    /\ txLive <=> mainPc \in {"spawnRpmsg", "spawnGui", "joinOnlyRpmsg", "joinRpmsg",
                              "joinGui", "destroyRx", "destroyTx"}
    /\ process = "exited" => mainPc = "over"

(* A worker is inside the queue only where its code calls it, and only the
   GUI worker ever sleeps there.                                           *)
CallerInv ==
    /\ qpc \in [Q!Threads -> {"idle"} \cup Q!PushPoints \cup Q!PopPoints]
    /\ qpc["rpmsg"] # "idle" => rpc = "pushing" /\ qpc["rpmsg"] \in Q!PushPoints
    /\ qpc["gui"] # "idle" => gpc = "popping" /\ qpc["gui"] \in Q!PopPoints
    /\ waiting \subseteq {"gui"}
    /\ waiting # {} => qpc["gui"] = "popWait"

(* The worker has the channel open in its loop and nowhere else, and hands
   on nothing but what the R5 sent.                                        *)
ChannelInv ==
    /\ IF rpc \in {"test", "poll", "recv", "receiving", "push", "pushing", "close"}
       THEN ctx["rpmsg"].fd = 3 ELSE ctx["rpmsg"].fd = D!NoFd
    /\ rpc = "receiving" => call["rpmsg"].op = "recv"
    /\ rpc = "push" => buf["rpmsg"] \in Datagrams

AppInv == MainInv /\ CallerInv /\ ChannelInv

Numbers == {d.id : d \in Datagrams}

Rising(s, n) == \A i, j \in DOMAIN s : s[j] <= n /\ (i < j => s[i] < s[j])

(* Every message between the channel and the dashboard is one the R5 has
   sent, and they are in the order in which it sent them.                  *)
FlowInv ==
    /\ shown \in Seq(Numbers) /\ sent \in Nat
    /\ GuiHolds \in Seq(Datagrams)
    /\ RingHolds \in Seq(Datagrams)
    /\ RpmsgHolds \in Seq(Datagrams)
    /\ Rising(shown \o Ids(OnTheWay), sent)
=============================================================================
