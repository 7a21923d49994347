------------------------------- MODULE DdrPhy -------------------------------
(***************************************************************************)
(* psu_ddr_phybringup_data of psu_init.c: the PLLs of the DDR PHY are      *)
(* locked, the PHY is initialised and trained, and the memory is handed to *)
(* its controller.  Every wait but the retries of the lock is a loop       *)
(* without a bound (TODO in the source): it ends when the hardware says so *)
(* or not at all.  The bits of PGSR0 are abstracted to three: the awaited  *)
(* work is done, an error stands that the checks after a training look at  *)
(* (bits 18 to 28), and a bit stands that nothing but the exact comparison *)
(* of line 22400 looks at (16, 17, 29 and 30).                             *)
(***************************************************************************)
EXTENDS Integers

CONSTANT Retries   \* attempts at the lock (10)

ASSUME RetriesAssumption == Retries \in Nat \ {0}

VARIABLES
    phy,        \* where psu_ddr_phybringup_data is
    retry,      \* pll_retry
    locked,     \* pll_locked
    gpr,        \* GPR0: the retries left, for a reader after the boot
    done,       \* PGSR0 or STAT: what was asked for last is done
    error,      \* PGSR0: one of bits 18 to 28, the errors the checks read
    other,      \* PGSR0: one of bits 16, 17, 29, 30, which only holds up a wait
    static,     \* DTCR0 and DXnGCR: static read mode, for the Vref training
    pubmode,    \* PGCR1: the PHY, not the controller, owns the memory
    refresh,    \* RFSHCTL3: the controller refreshes, the memory is in use
    trained,    \* what the function returned: 1, 0, or nothing yet
    attempts,   \* observation: locks attempted
    doubt       \* observation: error stood when the Vref training ended

phyvars == <<phy, retry, locked, gpr, done, error, other, static, pubmode,
             refresh, trained, attempts, doubt>>

NotYet == 2

(* The loops that end only when the hardware is done. *)
Waits == {"lock", "init", "phyInit", "mode", "train", "vref", "eye"}

PhyInit ==
    /\ phy = "idle" /\ retry = 0 /\ locked = FALSE /\ gpr = 0
    /\ done = FALSE /\ error = FALSE /\ other = FALSE
    /\ static = FALSE /\ pubmode = FALSE /\ refresh = FALSE
    /\ trained = NotYet /\ attempts = 0 /\ doubt = FALSE

-----------------------------------------------------------------------------
PhyBegin ==
    /\ phy = "idle"
    /\ retry' = Retries /\ phy' = "try"
    /\ UNCHANGED <<locked, gpr, done, error, other, static, pubmode, refresh,
                   trained, attempts, doubt>>

(* PIR is written: the PLLs are asked to lock. *)
LockTry ==
    /\ phy = "try" /\ retry > 0 /\ ~locked
    /\ phy' = "lock" /\ done' = FALSE /\ attempts' = attempts + 1
    /\ UNCHANGED <<retry, locked, gpr, error, other, static, pubmode, refresh,
                   trained, doubt>>

LockSampleLate ==   \* Fault: the attempt that locks is not counted
    /\ phy = "lock" /\ done
    /\ locked' \in BOOLEAN
    /\ retry' = IF locked' THEN retry ELSE retry - 1
    /\ phy' = "try"
    /\ UNCHANGED <<gpr, done, error, other, static, pubmode, refresh, trained,
                   attempts, doubt>>

(* Done, and the lock bits of the PHY and its byte lanes are read. *)
LockSample ==
    /\ phy = "lock" /\ done
    /\ locked' \in BOOLEAN
    /\ retry' = retry - 1 /\ phy' = "try"
    /\ UNCHANGED <<gpr, done, error, other, static, pubmode, refresh, trained,
                   attempts, doubt>>

(* Out of the loop: the retries left are recorded, and without a lock the  *)
(* function gives up.                                                      *)
LockRecord ==
    /\ phy = "try" /\ (retry = 0 \/ locked)
    /\ gpr' = retry
    /\ IF locked THEN phy' = "init" /\ done' = FALSE /\ UNCHANGED trained
                 ELSE phy' = "returned" /\ trained' = 0 /\ UNCHANGED done
    /\ UNCHANGED <<retry, locked, error, other, static, pubmode, refresh,
                   attempts, doubt>>

(* The next thing is asked of the hardware when the last is done. *)
Proceed(from, to) ==
    /\ phy = from /\ done
    /\ phy' = to /\ done' = FALSE
    /\ UNCHANGED <<retry, locked, gpr, error, other, static, pubmode, refresh,
                   trained, attempts, doubt>>

(* The controller is in its normal mode; the PHY takes over and trains. *)
TrainStart ==
    /\ phy = "mode" /\ done
    /\ pubmode' = TRUE /\ phy' = "train" /\ done' = FALSE
    /\ UNCHANGED <<retry, locked, gpr, error, other, static, refresh, trained,
                   attempts, doubt>>

(* PGSR0 must be exactly 0x80000FFF: with any other bit the loop goes on.  *)
TrainDone ==
    /\ phy = "train" /\ done /\ ~error /\ ~other
    /\ phy' = "trainCheck"
    /\ UNCHANGED <<retry, locked, gpr, done, error, other, static, pubmode,
                   refresh, trained, attempts, doubt>>

GiveUp ==
    /\ phy' = "returned" /\ trained' = 0
    /\ UNCHANGED <<retry, locked, gpr, done, error, other, static, pubmode,
                   refresh, attempts, doubt>>

(* PGSR0 is read again, masked by 0x1FFF0000 and shifted down by 18: bits  *)
(* 16 and 17 fall out, 29 and 30 are masked away.  Only an error that came *)
(* since the wait ended can be seen.                                       *)
TrainCheck ==
    /\ phy = "trainCheck"
    /\ \/ error /\ GiveUp
       \/ /\ ~error
          /\ static' = TRUE /\ phy' = "vref" /\ done' = FALSE
          /\ UNCHANGED <<retry, locked, gpr, error, other, pubmode, refresh,
                         trained, attempts, doubt>>

VrefDone ==
    /\ phy = "vref" /\ done
    /\ phy' = "vrefCheck" /\ doubt' = error
    /\ UNCHANGED <<retry, locked, gpr, done, error, other, static, pubmode,
                   refresh, trained, attempts>>

VrefCheckSkipped ==   \* Fault: the errors of the Vref training are not read
    /\ phy = "vrefCheck"
    /\ static' = FALSE /\ phy' = "eye" /\ done' = FALSE
    /\ UNCHANGED <<retry, locked, gpr, error, other, pubmode, refresh, trained,
                   attempts, doubt>>

(* "Check if any training errors then exit": static read mode stays on. *)
VrefCheck ==
    /\ phy = "vrefCheck"
    /\ \/ error /\ GiveUp
       \/ /\ ~error
          /\ static' = FALSE /\ phy' = "eye" /\ done' = FALSE
          /\ UNCHANGED <<retry, locked, gpr, error, other, pubmode, refresh,
                         trained, attempts, doubt>>

(* The last training; its errors are not looked at.  The controller gets   *)
(* the memory.                                                             *)
EyeDone ==
    /\ phy = "eye" /\ done
    /\ refresh' = TRUE /\ pubmode' = FALSE
    /\ phy' = "returned" /\ trained' = 1
    /\ UNCHANGED <<retry, locked, gpr, done, error, other, static, attempts,
                   doubt>>

PhyCpu ==
    \/ PhyBegin \/ LockTry \/ LockSample \/ LockRecord
    \/ Proceed("init", "phyInit") \/ Proceed("phyInit", "mode")
    \/ TrainStart \/ TrainDone \/ TrainCheck \/ VrefDone \/ VrefCheck \/ EyeDone

-----------------------------------------------------------------------------
(* The hardware does what it was asked to do, or raises a bit of PGSR0     *)
(* above those of the work, at any time or never.                          *)
Training == {"train", "trainCheck", "vref", "vrefCheck", "eye"}

PhyHardware ==
    \/ /\ phy \in Waits /\ ~done /\ done' = TRUE
       /\ UNCHANGED <<phy, retry, locked, gpr, error, other, static, pubmode,
                      refresh, trained, attempts, doubt>>
    \/ /\ phy \in Training /\ ~error /\ error' = TRUE
       /\ UNCHANGED <<phy, retry, locked, gpr, done, other, static, pubmode,
                      refresh, trained, attempts, doubt>>
    \/ /\ phy \in Training /\ ~other /\ other' = TRUE
       /\ UNCHANGED <<phy, retry, locked, gpr, done, error, static, pubmode,
                      refresh, trained, attempts, doubt>>

-----------------------------------------------------------------------------
(* Properties. *)

PhyTypeOK ==
    /\ phy \in Waits \cup {"idle", "try", "trainCheck", "vrefCheck", "returned"}
    /\ retry \in 0 .. Retries /\ gpr \in 0 .. Retries
    /\ locked \in BOOLEAN /\ done \in BOOLEAN
    /\ error \in BOOLEAN /\ other \in BOOLEAN
    /\ static \in BOOLEAN /\ pubmode \in BOOLEAN /\ refresh \in BOOLEAN
    /\ doubt \in BOOLEAN
    /\ trained \in {0, 1, NotYet}
    /\ attempts \in 0 .. Retries

(* The memory is handed to its controller only by a PHY that is locked and *)
(* trained, out of the modes the training needs, and never with an error   *)
(* that stood when the Vref training ended (one of the bits 18 to 28 the   *)
(* check of line 22431 is about); psu_ddr_phybringup_data tells its caller *)
(* so, and no failure path gets there.                                     *)
HandoverIsClean ==
    /\ refresh <=> trained = 1
    /\ refresh => locked /\ ~static /\ ~pubmode /\ ~doubt

(* What GPR0 tells about the lock is true: that many attempts were left    *)
(* over, and no more than ten were made.                                   *)
RetriesAreCounted ==
    /\ attempts <= Retries
    /\ trained # NotYet => gpr = Retries - attempts
=============================================================================
