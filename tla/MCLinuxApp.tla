----------------------------- MODULE MCLinuxApp -----------------------------
(* The application with a few short messages of each kind. *)
EXTENDS LinuxApp, TLC

CONSTANT MaxSent  \* bound: how many messages the R5 sends

(* Messages the dashboard shows, and in the place of the second one also a
   datagram cut short (1 byte of 2) or a message of another type.          *)
MCDatagrams ==
    [id: 1 .. MaxSent, kind: {"sensor"}, len: {2}]
        \cup {[id |-> 2, kind |-> "sensor", len |-> 1],
              [id |-> 2, kind |-> "command", len |-> 2]}
=============================================================================
