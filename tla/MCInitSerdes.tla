---------------------------- MODULE MCInitSerdes ----------------------------
(* The serial lanes as this board configures them: PCIe at its second      *)
(* rate, DisplayPort, USB and SATA.                                        *)
EXTENDS InitSerdes, TLC

MCProtocol == (0 :> 1) @@ (1 :> 4) @@ (2 :> 3) @@ (3 :> 2)
MCRate     == (0 :> 1) @@ (1 :> 0) @@ (2 :> 0) @@ (3 :> 3)

(* The first, an inner and the last code of a range, and one out of it. *)
MCReadings ==
    {[pmos |-> p, nmos |-> 60, ical |-> i, rcal |-> 7] :
        p \in {0, 38, 45, 60}, i \in {11, 12, 17}}
=============================================================================
