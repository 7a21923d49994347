----------------------------- MODULE InitSerdes -----------------------------
(***************************************************************************)
(* init_serdes of psu_init.c: the peripherals on the serial lanes are put  *)
(* in reset, the lanes are calibrated, configured and tuned, and the       *)
(* peripherals are let go again.  The status is the conjunction of what    *)
(* the five functions return; each is called whatever the others returned. *)
(***************************************************************************)
EXTENDS SerdesFixcal, IllCalibration

VARIABLES
    stage,   \* where init_serdes is
    status,  \* its status
    held     \* what the reset registers hold in reset

vars == <<stage, status, held, fixvars, illvars>>

(* The order psu_resetout_init_data lets them go; the PCIe controller only *)
(* after its bridge, when its attributes are written.                      *)
ReleaseOrder == <<"USB", "GEM", "SATA", "PCIe bridge", "DP", "PCIe controller">>
Peripherals  == {ReleaseOrder[i] : i \in DOMAIN ReleaseOrder}

Init ==
    /\ FixcalInit /\ IllInit
    /\ stage = "enter" /\ status = 1
    /\ held \in {{}, Peripherals}

-----------------------------------------------------------------------------
ResetInPartly ==   \* Fault: 0x000C0000 leaves the PCIe controller running
    /\ stage = "enter"
    /\ held' = held \cup (Peripherals \ {"PCIe controller"})
    /\ stage' = "fixcal"
    /\ UNCHANGED <<status, fixvars, illvars>>

(* psu_resetin_init_data *)
ResetIn ==
    /\ stage = "enter"
    /\ held' = Peripherals
    /\ stage' = "fixcal"
    /\ UNCHANGED <<status, fixvars, illvars>>

Fixcal ==
    /\ stage = "fixcal" /\ FixcalNext
    /\ UNCHANGED <<stage, status, held, illvars>>

(* serdes_fixcal_code has returned, its locals are gone; the saturation    *)
(* logic of serdes_enb_coarse_saturation is on at once.                    *)
FixcalDone ==
    /\ stage = "fixcal" /\ fix = "returned"
    /\ status' = IF fixed = 1 THEN status ELSE 0
    /\ stage' = "lanes" /\ fix' = "left"
    /\ round' = 0 /\ index' = 0 /\ votes' = NoVotes /\ seen' = NoVotes
    /\ code' = [k \in Kinds |-> 0]
    /\ UNCHANGED <<held, dig, fixed, illvars>>

(* psu_serdes_init_data: its tables of registers, and serdes_illcalib. *)
TuneLanes ==
    /\ stage = "lanes" /\ IllNext
    /\ UNCHANGED <<stage, status, held, fixvars>>

LanesDone ==
    /\ stage = "lanes" /\ ill = "returned"
    /\ stage' = "resetout"
    /\ UNCHANGED <<status, held, fixvars, illvars>>

(* psu_resetout_init_data: one peripheral after the other.  When all are   *)
(* out it polls the PLLs of the lanes, and does not look at what came.     *)
Release ==
    /\ stage = "resetout"
    /\ \E i \in DOMAIN ReleaseOrder :
          /\ ReleaseOrder[i] \in held
          /\ \A j \in 1 .. i - 1 : ReleaseOrder[j] \notin held
          /\ held' = held \ {ReleaseOrder[i]}
    /\ UNCHANGED <<stage, status, fixvars, illvars>>

Return ==
    /\ stage = "resetout" /\ held = {}
    /\ stage' = "returned"
    /\ UNCHANGED <<status, held, fixvars, illvars>>

Next ==
    \/ ResetIn \/ Fixcal \/ FixcalDone \/ TuneLanes \/ LanesDone \/ Release \/ Return

Spec == Init /\ [][Next]_vars

-----------------------------------------------------------------------------
(* Properties. *)

TypeOK ==
    /\ FixcalTypeOK \/ fix = "left"
    /\ IllTypeOK
    /\ stage \in {"enter", "fixcal", "lanes", "resetout", "returned"}
    /\ status \in {0, 1}
    /\ held \subseteq Peripherals

(* Calibration codes and loop settings change under no peripheral's feet:  *)
(* everything on the lanes is in reset when a register of theirs changes,  *)
(* also after a failed calibration.                                        *)
TunedInReset ==
    [][dig' # dig \/ reg' # reg \/ refsel' # refsel => held = Peripherals]_vars
=============================================================================
