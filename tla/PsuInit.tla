------------------------------ MODULE PsuInit ------------------------------
(***************************************************************************)
(* psu_init of psu_init.c, what the first-stage boot loader calls before   *)
(* anything else: pins, clocks, memory, lanes, peripherals, one stage      *)
(* after the other.  The status is the conjunction of what the stages      *)
(* return, and no stage is left out when an earlier one has failed.        *)
(*                                                                         *)
(* Most stages write tables of registers and return 1.  The clock stage    *)
(* takes the PLLs of the processing system through a reset; the PHY stage  *)
(* is DdrPhy; the stage of the serial lanes is InitSerdes, of which only   *)
(* the result counts here.                                                 *)
(***************************************************************************)
EXTENDS DdrPhy, Sequences

CONSTANTS
    Plls,       \* the PLLs, in order: RPLL, IOPLL, APLL, DPLL, VPLL
    PollTime    \* PSU_MASK_POLL_TIME (1100000)

ASSUME PsuAssumption == Plls \in Seq(STRING) /\ PollTime \in Nat

VARIABLES
    entry,      \* the function called
    at,         \* the stage that runs, an index of Stages
    status,     \* status
    answer,     \* what psu_init returned: 0 is success
    pll,        \* the PLL in hand
    step,       \* what is done to it next
    tries,      \* i of mask_poll
    bypass,     \* xPLL_CTRL: bypass
    inreset,    \* xPLL_CTRL: reset
    lock        \* PLL_STATUS

pllvars == <<pll, step, tries, bypass, inreset, lock>>
vars == <<entry, at, status, answer, pllvars, phyvars>>

(* A boot that finds its memory in self-refresh does not bring the PHY up. *)
Stages ==
    <<"mio", "pre", "pll", "clock", "ddr">>
        \o (IF entry = "psu_init" THEN <<"phy">> ELSE << >>)
        \o <<"peripherals", "serdes", "smmu", "powerdown", "afi", "qos">>

Stage == IF at \in DOMAIN Stages THEN Stages[at] ELSE "over"

PllSet == DOMAIN Plls

Init ==
    /\ PhyInit
    /\ entry \in {"psu_init", "psu_init_ddr_self_refresh"}
    /\ at = 1 /\ status = 1 /\ answer = NotYet
    /\ pll = 1 /\ step = "config" /\ tries = 0
    /\ \E cold \in BOOLEAN :
          /\ bypass = [p \in PllSet |-> cold] /\ inreset = [p \in PllSet |-> cold]
          /\ lock = [p \in PllSet |-> ~cold]

-----------------------------------------------------------------------------
(* A stage that writes its tables and returns 1. *)
Table ==
    /\ Stage \in {"mio", "pre", "clock", "ddr", "peripherals", "smmu", "powerdown",
                  "afi", "qos"}
    /\ at' = at + 1
    /\ UNCHANGED <<entry, status, answer, pllvars, phyvars>>

(* psu_pll_init_data, one register write at a time. *)
InPll(s, t) == Stage = "pll" /\ pll \in PllSet /\ step = s /\ step' = t

PllConfig ==
    /\ InPll("config", "bypass")
    /\ UNCHANGED <<pll, tries, bypass, inreset, lock>>

PllBypassLate ==   \* Fault: the bypass is left off
    /\ InPll("bypass", "reset")
    /\ UNCHANGED <<pll, tries, bypass, inreset, lock>>

PllBypass ==
    /\ InPll("bypass", "reset")
    /\ bypass' = [bypass EXCEPT ![pll] = TRUE]
    /\ UNCHANGED <<pll, tries, inreset, lock>>

PllReset ==
    /\ InPll("reset", "release")
    /\ inreset' = [inreset EXCEPT ![pll] = TRUE]
    /\ lock' = [lock EXCEPT ![pll] = FALSE]
    /\ UNCHANGED <<pll, tries, bypass>>

PllRelease ==
    /\ InPll("release", "poll")
    /\ inreset' = [inreset EXCEPT ![pll] = FALSE]
    /\ tries' = 0
    /\ UNCHANGED <<pll, bypass, lock>>

PllPollOneMore ==   \* Fault: <= for <
    \/ /\ InPll("poll", "poll") /\ ~lock[pll] /\ tries <= PollTime
       /\ tries' = tries + 1
       /\ UNCHANGED <<pll, bypass, inreset, lock>>
    \/ /\ InPll("poll", "unbypass") /\ (lock[pll] \/ tries > PollTime)
       /\ UNCHANGED <<pll, tries, bypass, inreset, lock>>

PllPollForever ==   \* Fault: the poll has no bound
    \/ /\ InPll("poll", "poll") /\ ~lock[pll]
       /\ UNCHANGED <<pll, tries, bypass, inreset, lock>>
    \/ /\ InPll("poll", "unbypass") /\ lock[pll]
       /\ UNCHANGED <<pll, tries, bypass, inreset, lock>>

PllPollOnce ==   \* Fault: the status is read once
    /\ InPll("poll", "unbypass")
    /\ UNCHANGED <<pll, tries, bypass, inreset, lock>>

(* mask_poll: read the status once more, unless it was read often enough;  *)
(* what mask_poll returns is not looked at.                                *)
PllPoll ==
    \/ /\ InPll("poll", "poll")
       /\ ~lock[pll] /\ tries < PollTime
       /\ tries' = tries + 1
       /\ UNCHANGED <<pll, bypass, inreset, lock>>
    \/ /\ InPll("poll", "unbypass")
       /\ lock[pll] \/ tries = PollTime
       /\ UNCHANGED <<pll, tries, bypass, inreset, lock>>

PllUnbypass ==
    /\ InPll("unbypass", "config")
    /\ bypass' = [bypass EXCEPT ![pll] = FALSE]
    /\ pll' = pll + 1
    /\ UNCHANGED <<tries, inreset, lock>>

PllWork == PllConfig \/ PllBypass \/ PllReset \/ PllRelease \/ PllPoll \/ PllUnbypass

PllStage ==
    \/ PllWork /\ UNCHANGED <<entry, at, status, answer, phyvars>>
    \/ /\ Stage = "pll" /\ pll \notin PllSet /\ at' = at + 1
       /\ UNCHANGED <<entry, status, answer, pllvars, phyvars>>

AndLast(a, b) == b   \* Fault: = for &=
And(a, b) == IF a = 1 /\ b = 1 THEN 1 ELSE 0

PhyStage ==
    /\ Stage = "phy"
    /\ \/ PhyCpu /\ UNCHANGED <<at, status>>
       \/ /\ phy = "returned"
          /\ status' = And(status, trained) /\ at' = at + 1
          /\ UNCHANGED phyvars
    /\ UNCHANGED <<entry, answer, pllvars>>

(* init_serdes returns what serdes_fixcal_code does: 0 after a timeout. *)
SerdesStage ==
    /\ Stage = "serdes"
    /\ \E result \in {0, 1} : status' = And(status, result)
    /\ at' = at + 1
    /\ UNCHANGED <<entry, answer, pllvars, phyvars>>

Return ==
    /\ Stage = "over" /\ answer = NotYet
    /\ answer' = IF status = 0 THEN 1 ELSE 0
    /\ UNCHANGED <<entry, at, status, pllvars, phyvars>>

Cpu == Table \/ PllStage \/ PhyStage \/ SerdesStage \/ Return

(* A PLL that is running locks, at any time or never. *)
Hardware ==
    \/ /\ \E p \in PllSet : ~inreset[p] /\ ~lock[p] /\ lock' = [lock EXCEPT ![p] = TRUE]
       /\ UNCHANGED <<entry, at, status, answer, pll, step, tries, bypass, inreset, phyvars>>
    \/ PhyHardware /\ UNCHANGED <<entry, at, status, answer, pllvars>>

Next == Cpu \/ Hardware

Spec == Init /\ [][Next]_vars

(* The processor runs; nothing is promised of the hardware. *)
FairSpec == Spec /\ WF_vars(Cpu)

-----------------------------------------------------------------------------
(* Properties. *)

TypeOK ==
    /\ PhyTypeOK
    /\ entry \in {"psu_init", "psu_init_ddr_self_refresh"}
    /\ at \in 1 .. Len(Stages) + 1
    /\ status \in {0, 1} /\ answer \in {0, 1, NotYet}
    /\ pll \in 1 .. Len(Plls) + 1
    /\ step \in {"config", "bypass", "reset", "release", "poll", "unbypass"}
    /\ tries \in 0 .. PollTime
    /\ bypass \in [PllSet -> BOOLEAN] /\ inreset \in [PllSet -> BOOLEAN]
    /\ lock \in [PllSet -> BOOLEAN]

(* No clock of a PLL in reset is used: it is bypassed as long, on a cold   *)
(* start and on a warm one, whatever else waits or times out.              *)
ResetIsBypassed == \A p \in PllSet : inreset[p] => bypass[p]

(* A PLL is taken into use locked, or after the full time of the poll.     *)
UsedLockedOrLate ==
    [][\A p \in PllSet : bypass[p] /\ ~bypass'[p] => lock[p] \/ tries = PollTime]_vars

(* psu_init reports success only when the memory works, and reports the    *)
(* failure of the memory however many stages follow.                       *)
SuccessMeansMemory ==
    /\ answer = 0 /\ entry = "psu_init" => refresh
    /\ answer # NotYet /\ trained = 0 => answer = 1

(* The boot comes to its end, or it is in one of the loops of the memory   *)
(* bring-up that have no bound: nothing else can keep it.                  *)
BootEnds == <>(answer # NotYet \/ [](phy \in Waits))
=============================================================================
