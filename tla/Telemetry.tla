----------------------------- MODULE Telemetry -----------------------------
(***************************************************************************)
(* What the whole application of the A53 promises, with no thread, ring,   *)
(* descriptor or signal handler in sight.  The messages of the R5 wait in  *)
(* a channel; the application takes them, in order, into a line that ends  *)
(* at the dashboard.  The first of the line is shown, and a message leaves *)
(* the channel or the line otherwise only where the program loses it.      *)
(***************************************************************************)
EXTENDS Naturals, SequencesExt

CONSTANTS Datagrams,  \* what the R5 sends: records [id, kind, len]
          MsgSize,    \* sizeof(app_msg_t)
          Capacity    \* QUEUE_MAX_SIZE

VARIABLES sent,      \* how many messages the R5 has sent
          channel,   \* the messages nobody has taken yet, oldest first
          line,      \* the messages taken and not yet shown, oldest first
          shown,     \* the ids of the messages on the dashboard, oldest first
          stopping   \* the application has been asked to stop

vars == <<sent, channel, line, shown, stopping>>

Init ==
    /\ sent = 0
    /\ channel = <<>>
    /\ line = <<>>
    /\ shown = <<>>
    /\ stopping = FALSE

OnDashboard(d) == d.kind \in {"sensor", "heartbeat"}

Send(d) ==
    /\ d.id = sent + 1
    /\ sent' = sent + 1
    /\ channel' = Append(channel, d)
    /\ UNCHANGED <<line, shown, stopping>>

(* The oldest message of the channel is taken; one that is not whole is
   taken and gone.                                                         *)
Take ==
    /\ channel # <<>>
    /\ channel' = Tail(channel)
    /\ \/ line' = Append(line, Head(channel))
       \/ Head(channel).len < MsgSize /\ UNCHANGED line
    /\ UNCHANGED <<sent, shown, stopping>>

Show ==
    /\ line # <<>>
    /\ OnDashboard(Head(line))
    /\ shown' = Append(shown, Head(line).id)
    /\ line' = Tail(line)
    /\ UNCHANGED <<sent, channel, stopping>>

(* A message is given up when at least as many as the ring can hold stand
   before it, or when it has come to the front and is of a type the
   dashboard does not know.                                                *)
GiveUp(k) ==
    /\ k > Capacity \/ (k = 1 /\ ~OnDashboard(line[k]))
    /\ line' = RemoveAt(line, k)
    /\ UNCHANGED <<sent, channel, shown, stopping>>

(* The R5 stops, and the channel is lost with what it holds. *)
R5Gone ==
    /\ channel' = <<>>
    /\ UNCHANGED <<sent, line, shown, stopping>>

(* Once it has been asked to stop, the application may turn its back on the
   channel, and drop its line.                                             *)
CutOff ==
    /\ stopping
    /\ channel' \in {channel, <<>>}
    /\ line' \in {line, <<>>}
    /\ UNCHANGED <<sent, shown, stopping>>

AskToStop ==
    /\ ~stopping
    /\ stopping' = TRUE
    /\ UNCHANGED <<sent, channel, line, shown>>

Next ==
    \/ \E d \in Datagrams : Send(d)
    \/ Take
    \/ Show
    \/ \E k \in DOMAIN line : GiveUp(k)
    \/ R5Gone
    \/ CutOff
    \/ AskToStop

Spec == Init /\ [][Next]_vars
=============================================================================
