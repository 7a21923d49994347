--------------------------- MODULE PsuInitProofs ---------------------------
(***************************************************************************)
(* The boot for any PLLs, any length of the polls and any number of        *)
(* retries: what the memory bring-up hands over, what the PLLs do, and     *)
(* what psu_init reports.                                                  *)
(***************************************************************************)
EXTENDS PsuInit, SequenceTheorems, TLAPS

-----------------------------------------------------------------------------
(* psu_ddr_phybringup_data.                                                *)

(* What holds at each point of it.  A lock attempt in progress is counted  *)
(* in attempts and not yet in retry.                                       *)
Past == {"init", "phyInit", "mode", "train", "trainCheck", "vref", "vrefCheck",
         "eye"}

PhyFlags ==
    /\ trained = NotYet <=> phy # "returned"
    /\ phy \in Past => locked
    /\ phy = "returned" /\ trained = 1 => locked
    /\ static => phy \in {"vref", "vrefCheck", "returned"}
    /\ doubt => error
    /\ phy = "eye" => ~doubt

PhyCount ==
    /\ phy = "idle" => attempts = 0
    /\ phy \notin {"idle", "lock"} => attempts + retry = Retries
    /\ phy = "lock" => attempts + retry = Retries + 1 /\ retry > 0
    /\ phy \in Past \cup {"returned"} => gpr = retry

PhyIInv == PhyTypeOK /\ PhyFlags /\ PhyCount /\ HandoverIsClean

USE RetriesAssumption DEF Waits, Past, NotYet

LEMMA PhyInitInv == ASSUME PhyInit PROVE PhyIInv
<1>1. PhyTypeOK
  <2>1. phy \in Waits \cup {"idle", "try", "trainCheck", "vrefCheck", "returned"}
    BY DEF PhyInit
  <2>2. /\ retry \in 0 .. Retries /\ gpr \in 0 .. Retries /\ attempts \in 0 .. Retries
        /\ trained \in {0, 1, NotYet}
    BY DEF PhyInit
  <2>3. /\ locked \in BOOLEAN /\ done \in BOOLEAN /\ error \in BOOLEAN
        /\ other \in BOOLEAN
        /\ static \in BOOLEAN /\ pubmode \in BOOLEAN /\ refresh \in BOOLEAN
        /\ doubt \in BOOLEAN
    BY DEF PhyInit
  <2> QED BY <2>1, <2>2, <2>3 DEF PhyTypeOK
<1>2. PhyCount BY DEF PhyInit, PhyCount
<1>3. PhyFlags BY DEF PhyInit, PhyFlags
<1>4. HandoverIsClean BY DEF PhyInit, HandoverIsClean
<1> QED BY <1>1, <1>2, <1>3, <1>4 DEF PhyIInv

LEMMA PhyCpuType == ASSUME PhyTypeOK, PhyCount, PhyCpu PROVE PhyTypeOK'
<1> USE DEF PhyTypeOK, PhyCount
<1>1. CASE PhyBegin BY <1>1 DEF PhyBegin
<1>2. CASE LockTry
  <2>1. attempts' \in 0 .. Retries BY <1>2 DEF LockTry
  <2> QED BY <1>2, <2>1 DEF LockTry
<1>3. CASE LockSample BY <1>3 DEF LockSample
<1>4. CASE LockRecord BY <1>4 DEF LockRecord
<1>5. CASE Proceed("init", "phyInit") BY <1>5 DEF Proceed
<1>6. CASE Proceed("phyInit", "mode") BY <1>6 DEF Proceed
<1>7. CASE TrainStart BY <1>7 DEF TrainStart
<1>8. CASE TrainDone BY <1>8 DEF TrainDone
<1>9. CASE TrainCheck BY <1>9 DEF TrainCheck, GiveUp
<1>10. CASE VrefDone BY <1>10 DEF VrefDone
<1>11. CASE VrefCheck BY <1>11 DEF VrefCheck, GiveUp
<1>12. CASE EyeDone BY <1>12 DEF EyeDone
<1> QED BY <1>1, <1>2, <1>3, <1>4, <1>5, <1>6, <1>7, <1>8, <1>9, <1>10, <1>11, <1>12
        DEF PhyCpu

LEMMA PhyCpuFlags ==
    ASSUME PhyTypeOK, PhyFlags, HandoverIsClean, PhyCpu
    PROVE  PhyFlags' /\ HandoverIsClean'
<1> USE DEF PhyTypeOK, PhyFlags, HandoverIsClean
<1>1. CASE PhyBegin BY <1>1 DEF PhyBegin
<1>2. CASE LockTry BY <1>2 DEF LockTry
<1>3. CASE LockSample BY <1>3 DEF LockSample
<1>4. CASE LockRecord BY <1>4 DEF LockRecord
<1>5. CASE Proceed("init", "phyInit") BY <1>5 DEF Proceed
<1>6. CASE Proceed("phyInit", "mode") BY <1>6 DEF Proceed
<1>7. CASE TrainStart BY <1>7 DEF TrainStart
<1>8. CASE TrainDone BY <1>8 DEF TrainDone
<1>9. CASE TrainCheck
  <2>1. CASE GiveUp BY <1>9, <2>1 DEF TrainCheck, GiveUp
  <2>2. CASE phy' = "vref" BY <1>9, <2>2 DEF TrainCheck, GiveUp
  <2> QED BY <1>9, <2>1, <2>2 DEF TrainCheck
<1>10. CASE VrefDone BY <1>10 DEF VrefDone
<1>11. CASE VrefCheck
  <2>1. CASE GiveUp BY <1>11, <2>1 DEF VrefCheck, GiveUp
  <2>2. CASE phy' = "eye" BY <1>11, <2>2 DEF VrefCheck, GiveUp
  <2> QED BY <1>11, <2>1, <2>2 DEF VrefCheck
<1>12. CASE EyeDone BY <1>12 DEF EyeDone
<1> QED BY <1>1, <1>2, <1>3, <1>4, <1>5, <1>6, <1>7, <1>8, <1>9, <1>10, <1>11, <1>12
        DEF PhyCpu

LEMMA PhyCpuCount == ASSUME PhyTypeOK, PhyCount, PhyCpu PROVE PhyCount'
<1> USE DEF PhyTypeOK, PhyCount
<1>1. CASE PhyBegin BY <1>1 DEF PhyBegin
<1>2. CASE LockTry BY <1>2 DEF LockTry
<1>3. CASE LockSample BY <1>3 DEF LockSample
<1>4. CASE LockRecord BY <1>4 DEF LockRecord
<1>5. CASE Proceed("init", "phyInit") BY <1>5 DEF Proceed
<1>6. CASE Proceed("phyInit", "mode") BY <1>6 DEF Proceed
<1>7. CASE TrainStart BY <1>7 DEF TrainStart
<1>8. CASE TrainDone BY <1>8 DEF TrainDone
<1>9. CASE TrainCheck BY <1>9 DEF TrainCheck, GiveUp
<1>10. CASE VrefDone BY <1>10 DEF VrefDone
<1>11. CASE VrefCheck BY <1>11 DEF VrefCheck, GiveUp
<1>12. CASE EyeDone BY <1>12 DEF EyeDone
<1> QED BY <1>1, <1>2, <1>3, <1>4, <1>5, <1>6, <1>7, <1>8, <1>9, <1>10, <1>11, <1>12
        DEF PhyCpu

LEMMA PhyHardwareInv == ASSUME PhyIInv, PhyHardware PROVE PhyIInv'
<1>1. PhyTypeOK'
  <2>1. /\ done' \in BOOLEAN /\ error' \in BOOLEAN /\ other' \in BOOLEAN
        /\ UNCHANGED <<phy, retry, locked, gpr, static, pubmode, refresh, trained,
                       attempts, doubt>>
    BY DEF PhyHardware, PhyIInv, PhyTypeOK
  <2> QED BY <2>1 DEF PhyIInv, PhyTypeOK
<1>2. PhyCount' BY DEF PhyHardware, PhyIInv, PhyCount
<1>3. PhyFlags' BY DEF PhyHardware, PhyIInv, PhyFlags
<1>4. HandoverIsClean' BY DEF PhyHardware, PhyIInv, HandoverIsClean
<1> QED BY <1>1, <1>2, <1>3, <1>4 DEF PhyIInv

LEMMA PhySameInv == ASSUME PhyIInv, UNCHANGED phyvars PROVE PhyIInv'
  BY DEF phyvars, PhyIInv, PhyTypeOK, PhyFlags, PhyCount, HandoverIsClean

-----------------------------------------------------------------------------
(* psu_pll_init_data.                                                      *)

PllTypeOK ==
    /\ pll \in 1 .. Len(Plls) + 1
    /\ step \in {"config", "bypass", "reset", "release", "poll", "unbypass"}
    /\ tries \in 0 .. PollTime
    /\ bypass \in [PllSet -> BOOLEAN] /\ inreset \in [PllSet -> BOOLEAN]
    /\ lock \in [PllSet -> BOOLEAN]

(* The PLL in hand is bypassed from before its reset until it is taken     *)
(* into use, out of reset and locked or waited for.                        *)
PllInv ==
    pll \in PllSet =>
        /\ step \in {"reset", "release", "poll", "unbypass"} => bypass[pll]
        /\ step \in {"poll", "unbypass"} => ~inreset[pll]
        /\ step = "unbypass" => lock[pll] \/ tries = PollTime

PllIInv == PllTypeOK /\ PllInv /\ ResetIsBypassed

PllNext ==
    \/ PllWork
    \/ /\ \E p \in PllSet : ~inreset[p] /\ ~lock[p] /\ lock' = [lock EXCEPT ![p] = TRUE]
       /\ UNCHANGED <<pll, step, tries, bypass, inreset>>
    \/ UNCHANGED pllvars

LEMMA PllDomain == PllSet = 1 .. Len(Plls) /\ Len(Plls) \in Nat
  BY PsuAssumption DEF PllSet

LEMMA PllNextInv == ASSUME PllIInv, PllNext PROVE PllIInv'
<1> USE PsuAssumption, PllDomain DEF PllIInv, PllTypeOK, PllInv, ResetIsBypassed
<1>1. CASE PllConfig BY <1>1 DEF PllConfig, InPll
<1>2. CASE PllBypass BY <1>2 DEF PllBypass, InPll
<1>3. CASE PllReset BY <1>3 DEF PllReset, InPll
<1>4. CASE PllRelease BY <1>4 DEF PllRelease, InPll
<1>5. CASE PllPoll BY <1>5 DEF PllPoll, InPll
<1>6. CASE PllUnbypass BY <1>6 DEF PllUnbypass, InPll
<1>7. CASE /\ \E p \in PllSet : ~inreset[p] /\ ~lock[p] /\ lock' = [lock EXCEPT ![p] = TRUE]
           /\ UNCHANGED <<pll, step, tries, bypass, inreset>>
  BY <1>7
<1>8. CASE UNCHANGED pllvars BY <1>8 DEF pllvars
<1> QED BY <1>1, <1>2, <1>3, <1>4, <1>5, <1>6, <1>7, <1>8 DEF PllNext, PllWork

(* Only the PLL in hand is taken into use. *)
LEMMA PllNextUse ==
    ASSUME PllIInv, PllNext, NEW p \in PllSet, bypass[p], ~bypass'[p]
    PROVE  lock[p] \/ tries = PollTime
  BY PllDomain
  DEF PllIInv, PllTypeOK, PllInv, PllNext, PllWork, PllConfig, PllBypass, PllReset,
      PllRelease, PllPoll, PllUnbypass, InPll, pllvars

-----------------------------------------------------------------------------
(* The sequence of stages.                                                 *)

LEMMA StageFacts ==
    ASSUME entry \in {"psu_init", "psu_init_ddr_self_refresh"}
    PROVE  /\ Len(Stages) \in Nat
           /\ entry = "psu_init" => Len(Stages) = 12
           /\ entry = "psu_init_ddr_self_refresh" => Len(Stages) = 11
           /\ DOMAIN Stages = 1 .. Len(Stages)
           /\ \A i \in DOMAIN Stages : Stages[i] # "over"
           /\ \A i \in DOMAIN Stages :
                Stages[i] = "phy" <=> i = 6 /\ entry = "psu_init"
<1>1. CASE entry = "psu_init" BY <1>1 DEF Stages
<1>2. CASE entry = "psu_init_ddr_self_refresh" BY <1>2 DEF Stages
<1> QED BY <1>1, <1>2

(* What psu_init knows of the memory: before the stage of the PHY nothing  *)
(* was done to it; after it what was returned is in the status.            *)
StageInv ==
    /\ entry = "psu_init" /\ at > 6 =>
            phy = "returned" /\ (trained = 0 => status = 0)
    /\ entry = "psu_init_ddr_self_refresh" => trained = NotYet
    /\ answer # NotYet => Stage = "over" /\ (answer = 1 <=> status = 0)

StageTypeOK ==
    /\ entry \in {"psu_init", "psu_init_ddr_self_refresh"}
    /\ at \in 1 .. Len(Stages) + 1
    /\ status \in {0, 1} /\ answer \in {0, 1, NotYet}

(* The inductive invariant. *)
IInv == PhyIInv /\ PllIInv /\ StageTypeOK /\ StageInv

LEMMA AndType == \A a, b \in {0, 1} : /\ And(a, b) \in {0, 1}
                                      /\ a = 0 => And(a, b) = 0
                                      /\ b = 0 => And(a, b) = 0
  BY DEF And

LEMMA InitInv == Init => IInv
<1> SUFFICES ASSUME Init PROVE IInv OBVIOUS
<1>1. PhyIInv BY PhyInitInv DEF Init
<1>2. PllIInv
  <2>1. PICK cold \in BOOLEAN :
            /\ bypass = [p \in PllSet |-> cold] /\ inreset = [p \in PllSet |-> cold]
            /\ lock = [p \in PllSet |-> ~cold]
    BY DEF Init
  <2>2. PllTypeOK BY <2>1, PllDomain, PsuAssumption DEF Init, PllTypeOK
  <2> QED BY <2>1, <2>2 DEF Init, PllIInv, PllInv, ResetIsBypassed
<1>3. StageTypeOK BY StageFacts DEF Init, StageTypeOK
<1>4. StageInv BY DEF Init, StageInv, PhyInit
<1> QED BY <1>1, <1>2, <1>3, <1>4 DEF IInv

(* A stage that is over is followed by the next one. *)
LEMMA Advance ==
    ASSUME StageTypeOK, Stage # "over", at' = at + 1, entry' = entry
    PROVE  /\ at' \in 1 .. Len(Stages)' + 1
           /\ Stage # "phy" /\ entry = "psu_init" => at # 6
<1>1. at \in DOMAIN Stages BY DEF Stage
<1>2. Len(Stages)' = Len(Stages) BY DEF Stages
<1>3. entry \in {"psu_init", "psu_init_ddr_self_refresh"} BY DEF StageTypeOK
<1> QED BY <1>1, <1>2, <1>3, StageFacts DEF Stage, StageTypeOK

LEMMA CpuInv == ASSUME IInv, Cpu PROVE IInv'
<1>0. /\ PhyIInv /\ PllIInv /\ StageTypeOK /\ StageInv
      /\ entry \in {"psu_init", "psu_init_ddr_self_refresh"}
  BY DEF IInv, StageTypeOK
<1>1. CASE Table
  <2>1. PhyIInv' /\ PllIInv'
    BY <1>0, <1>1, PhySameInv, PllNextInv DEF Table, PllNext
  <2>2. StageTypeOK'
    BY <1>0, <1>1, Advance DEF Table, StageTypeOK
  <2>3. StageInv'
    BY <1>0, <1>1, Advance DEF Table, StageInv, StageTypeOK, phyvars, NotYet
  <2> QED BY <2>1, <2>2, <2>3 DEF IInv
<1>2. CASE PllStage /\ PllWork /\ UNCHANGED <<entry, at, status, answer, phyvars>>
  <2>1. PhyIInv' BY <1>0, <1>2, PhySameInv
  <2>2. PllIInv' BY <1>0, <1>2, PllNextInv DEF PllNext
  <2>3. UNCHANGED <<entry, at, status, answer, Stages, Stage, phy, trained>>
    BY <1>2 DEF Stages, Stage, phyvars
  <2>4. StageTypeOK' /\ StageInv'
    BY <1>0, <2>3 DEF StageTypeOK, StageInv
  <2> QED BY <2>1, <2>2, <2>4 DEF IInv
<1>3. CASE /\ Stage = "pll" /\ pll \notin PllSet /\ at' = at + 1
           /\ UNCHANGED <<entry, status, answer, pllvars, phyvars>>
  <2>1. PhyIInv' /\ PllIInv'
    BY <1>0, <1>3, PhySameInv, PllNextInv DEF PllNext
  <2>2. StageTypeOK'
    BY <1>0, <1>3, Advance DEF StageTypeOK
  <2>3. StageInv'
    BY <1>0, <1>3, Advance DEF StageInv, StageTypeOK, phyvars, NotYet
  <2> QED BY <2>1, <2>2, <2>3 DEF IInv
<1>4. CASE Stage = "phy" /\ PhyCpu /\ UNCHANGED <<entry, at, status, answer, pllvars>>
  <2>1. PhyIInv'
    BY <1>0, <1>4, PhyCpuType, PhyCpuFlags, PhyCpuCount DEF PhyIInv
  <2>2. PllIInv' BY <1>0, <1>4, PllNextInv DEF PllNext
  <2>3. UNCHANGED <<Stages, Stage>> BY <1>4 DEF Stages, Stage
  <2>4. at = 6 /\ entry = "psu_init"
    BY <1>0, <1>4, StageFacts DEF Stage
  <2>5. StageTypeOK' /\ StageInv'
    BY <1>0, <1>4, <2>3, <2>4 DEF StageTypeOK, StageInv
  <2> QED BY <2>1, <2>2, <2>5 DEF IInv
<1>5. CASE /\ Stage = "phy" /\ phy = "returned"
           /\ status' = And(status, trained) /\ at' = at + 1
           /\ UNCHANGED <<phyvars, entry, answer, pllvars>>
  <2>1. PhyIInv' /\ PllIInv'
    BY <1>0, <1>5, PhySameInv, PllNextInv DEF PllNext
  <2>2. trained \in {0, 1} /\ status \in {0, 1}
    BY <1>0, <1>5 DEF PhyIInv, PhyTypeOK, PhyFlags, StageTypeOK
  <2>3. at = 6 /\ entry = "psu_init"
    BY <1>0, <1>5, StageFacts DEF Stage
  <2>4. StageTypeOK'
    BY <1>0, <1>5, <2>2, Advance, AndType DEF StageTypeOK
  <2>5. StageInv'
    BY <1>0, <1>5, <2>2, <2>3, AndType DEF StageInv, phyvars, NotYet
  <2> QED BY <2>1, <2>4, <2>5 DEF IInv
<1>6. CASE SerdesStage
  <2>1. PhyIInv' /\ PllIInv'
    BY <1>0, <1>6, PhySameInv, PllNextInv DEF SerdesStage, PllNext
  <2>2. PICK result \in {0, 1} : status' = And(status, result)
    BY <1>6 DEF SerdesStage
  <2>3. StageTypeOK'
    BY <1>0, <1>6, <2>2, Advance, AndType DEF SerdesStage, StageTypeOK
  <2>4. StageInv'
    BY <1>0, <1>6, <2>2, Advance, AndType
    DEF SerdesStage, StageInv, StageTypeOK, phyvars, NotYet
  <2> QED BY <2>1, <2>3, <2>4 DEF IInv
<1>7. CASE Return
  <2>1. PhyIInv' /\ PllIInv'
    BY <1>0, <1>7, PhySameInv, PllNextInv DEF Return, PllNext
  <2>2. UNCHANGED <<Stages, Stage>> BY <1>7 DEF Return, Stages, Stage
  <2>3. StageTypeOK'
    BY <1>0, <1>7, <2>2 DEF Return, StageTypeOK
  <2>4. StageInv'
    BY <1>0, <1>7, <2>2 DEF Return, StageInv, StageTypeOK, phyvars, NotYet
  <2> QED BY <2>1, <2>3, <2>4 DEF IInv
<1> QED BY <1>1, <1>2, <1>3, <1>4, <1>5, <1>6, <1>7 DEF Cpu, PllStage, PhyStage

LEMMA HardwareInv == ASSUME IInv, Hardware PROVE IInv'
<1>0. PhyIInv /\ PllIInv /\ StageTypeOK /\ StageInv BY DEF IInv
<1>1. CASE PhyHardware /\ UNCHANGED <<entry, at, status, answer, pllvars>>
  <2>1. PhyIInv' BY <1>0, <1>1, PhyHardwareInv
  <2>2. PllIInv' BY <1>0, <1>1, PllNextInv DEF PllNext
  <2>3. UNCHANGED <<entry, at, status, answer, Stages, Stage, trained>>
        /\ (phy = "returned" => phy' = phy)
    BY <1>1 DEF Stages, Stage, PhyHardware
  <2>4. StageTypeOK' /\ StageInv' BY <1>0, <2>3 DEF StageTypeOK, StageInv
  <2> QED BY <2>1, <2>2, <2>4 DEF IInv
<1>2. CASE /\ \E p \in PllSet : ~inreset[p] /\ ~lock[p] /\ lock' = [lock EXCEPT ![p] = TRUE]
           /\ UNCHANGED <<entry, at, status, answer, pll, step, tries, bypass, inreset, phyvars>>
  <2>1. PhyIInv' BY <1>0, <1>2, PhySameInv
  <2>2. PllIInv' BY <1>0, <1>2, PllNextInv DEF PllNext
  <2>3. UNCHANGED <<entry, at, status, answer, Stages, Stage, trained, phy>>
    BY <1>2 DEF Stages, Stage, phyvars
  <2>4. StageTypeOK' /\ StageInv' BY <1>0, <2>3 DEF StageTypeOK, StageInv
  <2> QED BY <2>1, <2>2, <2>4 DEF IInv
<1> QED BY <1>1, <1>2 DEF Hardware

LEMMA SameInv == ASSUME IInv, UNCHANGED vars PROVE IInv'
<1>0. PhyIInv /\ PllIInv /\ StageTypeOK /\ StageInv BY DEF IInv
<1>1. PhyIInv' BY <1>0, PhySameInv DEF vars
<1>2. PllIInv' BY <1>0, PllNextInv DEF vars, PllNext
<1>3. UNCHANGED <<entry, at, status, answer, Stages, Stage, trained, phy>>
  BY DEF vars, Stages, Stage, phyvars
<1>4. StageTypeOK' /\ StageInv' BY <1>0, <1>3 DEF StageTypeOK, StageInv
<1> QED BY <1>1, <1>2, <1>4 DEF IInv

-----------------------------------------------------------------------------
(* The theorems.                                                           *)

(* The inductive invariant holds in every state of every boot. *)
THEOREM InvariantHolds == Spec => []IInv
<1>1. IInv /\ [Next]_vars => IInv'
  BY CpuInv, HardwareInv, SameInv DEF Next
<1> QED BY InitInv, <1>1, PTL DEF Spec

(* Retries, polls, stages and registers keep their ranges. *)
THEOREM TypeCorrect == Spec => []TypeOK
<1>1. IInv => TypeOK
  BY DEF IInv, PhyIInv, PllIInv, PllTypeOK, StageTypeOK, TypeOK
<1> QED BY InvariantHolds, <1>1, PTL

(* No PLL is in reset without being bypassed (lines 134-198), for any PLLs *)
(* in any order.                                                           *)
THEOREM ResetsAreBypassed == Spec => []ResetIsBypassed
<1>1. IInv => ResetIsBypassed BY DEF IInv, PllIInv
<1> QED BY InvariantHolds, <1>1, PTL

(* A PLL leaves its bypass locked, or after all the time of mask_poll.     *)
THEOREM UseIsLockedOrLate == Spec => UsedLockedOrLate
<1>1. IInv /\ [Next]_vars =>
        [\A p \in PllSet : bypass[p] /\ ~bypass'[p] => lock[p] \/ tries = PollTime]_vars
  <2> SUFFICES ASSUME IInv, Next
               PROVE \A p \in PllSet : bypass[p] /\ ~bypass'[p] =>
                                          lock[p] \/ tries = PollTime
    OBVIOUS
  <2>1. PllNext
    BY DEF Next, Cpu, Hardware, Table, PllStage, PhyStage, SerdesStage, Return, PllNext,
           pllvars
  <2> QED BY <2>1, PllNextUse DEF IInv
<1> QED BY InvariantHolds, <1>1, PTL DEF Spec, UsedLockedOrLate

(* The memory is handed to its controller (lines 22455-22457) only locked, *)
(* trained and out of the modes of the training.                           *)
THEOREM HandoversAreClean == Spec => []HandoverIsClean
<1>1. IInv => HandoverIsClean BY DEF IInv, PhyIInv
<1> QED BY InvariantHolds, <1>1, PTL

(* GPR0 (line 22364) tells how many of the attempts were left over.        *)
THEOREM RetriesStayCounted == Spec => []RetriesAreCounted
<1>1. IInv => RetriesAreCounted
  BY DEF IInv, PhyIInv, PhyTypeOK, PhyFlags, PhyCount, RetriesAreCounted
<1> QED BY InvariantHolds, <1>1, PTL

(* psu_init returns success only with working memory, and failure whenever *)
(* the bring-up of the memory has failed, whatever the later stages do.    *)
THEOREM SuccessIsMemory == Spec => []SuccessMeansMemory
<1>1. ASSUME IInv PROVE SuccessMeansMemory
  <2>1. PhyIInv /\ StageTypeOK /\ StageInv BY <1>1 DEF IInv
  <2>2. Stage = "over" => at \notin DOMAIN Stages
    BY <2>1, StageFacts DEF Stage, StageTypeOK
  <2>3. Stage = "over" /\ entry = "psu_init" => at > 6
    BY <2>1, <2>2, StageFacts DEF StageTypeOK
  <2>4. trained \in {0, 1, NotYet} /\ (phy = "returned" => trained # NotYet)
    BY <2>1 DEF PhyIInv, PhyTypeOK, PhyFlags
  <2>5. answer = 0 /\ entry = "psu_init" => refresh
    BY <2>1, <2>3, <2>4 DEF StageInv, StageTypeOK, PhyIInv, HandoverIsClean, NotYet
  <2>6. answer # NotYet /\ trained = 0 => answer = 1
    BY <2>1, <2>3 DEF StageInv, StageTypeOK, NotYet
  <2> QED BY <2>5, <2>6 DEF SuccessMeansMemory
<1> QED BY InvariantHolds, <1>1, PTL

-----------------------------------------------------------------------------
(* How long a boot can take.                                               *)

(* The steps the processor has at most before it in the memory bring-up,   *)
(* in the clock stage and in all, whatever the hardware answers.           *)
PhyLeft ==
    CASE phy = "idle"       -> 2 * Retries + 12
      [] phy = "try"        -> 2 * retry + 10
      [] phy = "lock"       -> 2 * retry + 9
      [] phy = "init"       -> 8
      [] phy = "phyInit"    -> 7
      [] phy = "mode"       -> 6
      [] phy = "train"      -> 5
      [] phy = "trainCheck" -> 4
      [] phy = "vref"       -> 3
      [] phy = "vrefCheck"  -> 2
      [] phy = "eye"        -> 1
      [] phy = "returned"   -> 0

OnePll == PollTime + 6

ThisPllLeft ==
    CASE step = "config"   -> OnePll
      [] step = "bypass"   -> PollTime + 5
      [] step = "reset"    -> PollTime + 4
      [] step = "release"  -> PollTime + 3
      [] step = "poll"     -> PollTime + 2 - tries
      [] step = "unbypass" -> 1

PllLeft == IF pll \in PllSet THEN (Len(Plls) - pll) * OnePll + ThisPllLeft ELSE 0

StagesLeft == Len(Stages) + 1 - at

ReturnLeft == IF answer = NotYet THEN 1 ELSE 0

StepsLeft == PhyLeft + PllLeft + StagesLeft + ReturnLeft

(* Those of a whole boot. *)
StepsAtMost == (2 * Retries + 12) + Len(Plls) * OnePll + 12 + 1

LeftTypeOK ==
    /\ PhyLeft \in Nat /\ PllLeft \in Nat /\ StagesLeft \in Nat
    /\ StepsLeft \in Nat

InTime == StepsLeft <= StepsAtMost

RunsDown == StepsLeft' < StepsLeft \/ (Hardware /\ StepsLeft' = StepsLeft)

LEMMA Products ==
    /\ \A n, k \in Nat : n * k \in Nat
    /\ \A n, k \in Nat : (n + 1) * k = n * k + k
  OBVIOUS

LEMMA PhyLeftNat == ASSUME PhyTypeOK PROVE PhyLeft \in Nat
  BY DEF PhyTypeOK, PhyLeft

LEMMA PhyRunsDown ==
    ASSUME PhyTypeOK, PhyTypeOK', PhyCpu
    PROVE  PhyLeft' < PhyLeft
<1> USE DEF PhyTypeOK, PhyLeft
<1>1. CASE PhyBegin BY <1>1 DEF PhyBegin
<1>2. CASE LockTry BY <1>2 DEF LockTry
<1>3. CASE LockSample BY <1>3 DEF LockSample
<1>4. CASE LockRecord BY <1>4 DEF LockRecord
<1>5. CASE Proceed("init", "phyInit") BY <1>5 DEF Proceed
<1>6. CASE Proceed("phyInit", "mode") BY <1>6 DEF Proceed
<1>7. CASE TrainStart BY <1>7 DEF TrainStart
<1>8. CASE TrainDone BY <1>8 DEF TrainDone
<1>9. CASE TrainCheck BY <1>9 DEF TrainCheck, GiveUp
<1>10. CASE VrefDone BY <1>10 DEF VrefDone
<1>11. CASE VrefCheck BY <1>11 DEF VrefCheck, GiveUp
<1>12. CASE EyeDone BY <1>12 DEF EyeDone
<1> QED BY <1>1, <1>2, <1>3, <1>4, <1>5, <1>6, <1>7, <1>8, <1>9, <1>10, <1>11, <1>12
        DEF PhyCpu

LEMMA ThisPllNat == ASSUME PllTypeOK PROVE ThisPllLeft \in Nat /\ OnePll \in Nat
  BY PsuAssumption DEF PllTypeOK, ThisPllLeft, OnePll

LEMMA PllLeftNat == ASSUME PllTypeOK PROVE PllLeft \in Nat
<1>1. CASE pll \in PllSet
  <2>1. Len(Plls) - pll \in Nat BY <1>1, PllDomain
  <2>2. (Len(Plls) - pll) * OnePll \in Nat BY <2>1, ThisPllNat, Products
  <2> QED BY <1>1, <2>2, ThisPllNat DEF PllLeft
<1> QED BY <1>1 DEF PllLeft

(* The other PLLs' share stays; this one's falls; the next one's begins.   *)
LEMMA PllRunsDown ==
    ASSUME PllTypeOK, PllTypeOK', PllWork
    PROVE  PllLeft' < PllLeft
<1>0. /\ step' \in {"config", "bypass", "reset", "release", "poll", "unbypass"}
      /\ tries \in 0 .. PollTime /\ tries' \in 0 .. PollTime
  BY DEF PllTypeOK
<1> USE DEF InPll
<1>1. ASSUME pll \in PllSet, pll' = pll, ThisPllLeft' < ThisPllLeft
      PROVE  PllLeft' < PllLeft
  <2>1. (Len(Plls) - pll) * OnePll \in Nat BY <1>1, PllDomain, ThisPllNat, Products
  <2>2. ThisPllLeft' \in Nat BY <1>0, PsuAssumption DEF ThisPllLeft, OnePll
  <2> QED BY <1>1, <2>1, <2>2, ThisPllNat DEF PllLeft, PllSet, OnePll
<1>2. ASSUME pll \in PllSet, pll' = pll,
             \/ step = "config" /\ step' = "bypass"
             \/ step = "bypass" /\ step' = "reset"
             \/ step = "reset" /\ step' = "release"
             \/ step = "release" /\ step' = "poll" /\ tries' = 0
             \/ step = "poll" /\ step' = "poll" /\ tries' = tries + 1
             \/ step = "poll" /\ step' = "unbypass"
      PROVE  PllLeft' < PllLeft
  <2> USE <1>0, PsuAssumption DEF ThisPllLeft, OnePll
  <2>1. ThisPllLeft' < ThisPllLeft
    <3>1. CASE step = "config" /\ step' = "bypass" BY <3>1
    <3>2. CASE step = "bypass" /\ step' = "reset" BY <3>2
    <3>3. CASE step = "reset" /\ step' = "release" BY <3>3
    <3>4. CASE step = "release" /\ step' = "poll" /\ tries' = 0 BY <3>4
    <3>5. CASE step = "poll" /\ step' = "poll" /\ tries' = tries + 1 BY <3>5
    <3>6. CASE step = "poll" /\ step' = "unbypass" BY <3>6
    <3> QED BY <1>2, <3>1, <3>2, <3>3, <3>4, <3>5, <3>6
  <2> QED BY <1>1, <1>2, <2>1
<1>3. CASE PllConfig BY <1>2, <1>3 DEF PllConfig
<1>4. CASE PllBypass BY <1>2, <1>4 DEF PllBypass
<1>5. CASE PllReset BY <1>2, <1>5 DEF PllReset
<1>6. CASE PllRelease BY <1>2, <1>6 DEF PllRelease
<1>7. CASE PllPoll BY <1>2, <1>7 DEF PllPoll
<1>8. CASE PllUnbypass
  <2>1. pll \in PllSet /\ ThisPllLeft = 1 BY <1>8 DEF PllUnbypass, ThisPllLeft
  <2>2. pll' = pll + 1 /\ ThisPllLeft' = OnePll BY <1>8 DEF PllUnbypass, ThisPllLeft, OnePll
  <2>3. CASE pll' \in PllSet
    <3>1. Len(Plls) - pll' \in Nat /\ Len(Plls) - pll = (Len(Plls) - pll') + 1
      BY <2>1, <2>2, <2>3, PllDomain
    <3>2. (Len(Plls) - pll) * OnePll = (Len(Plls) - pll') * OnePll + OnePll
      BY <3>1, ThisPllNat, Products
    <3>3. (Len(Plls) - pll') * OnePll \in Nat BY <3>1, ThisPllNat, Products
    <3>4. PllLeft' = (Len(Plls) - pll') * OnePll + OnePll
      BY <2>2, <2>3 DEF PllLeft, PllSet, OnePll
    <3> QED BY <2>1, <3>2, <3>3, <3>4, ThisPllNat DEF PllLeft
  <2>4. CASE pll' \notin PllSet
    <3>1. (Len(Plls) - pll) * OnePll \in Nat BY <2>1, PllDomain, ThisPllNat, Products
    <3>2. PllLeft' = 0 BY <2>4 DEF PllLeft, PllSet
    <3> QED BY <2>1, <3>1, <3>2 DEF PllLeft
  <2> QED BY <2>3, <2>4
<1> QED BY <1>3, <1>4, <1>5, <1>6, <1>7, <1>8 DEF PllWork

LEMMA LeftType == IInv => LeftTypeOK
<1> SUFFICES ASSUME IInv PROVE LeftTypeOK OBVIOUS
<1>1. PhyLeft \in Nat /\ PllLeft \in Nat
  BY PhyLeftNat, PllLeftNat DEF IInv, PhyIInv, PllIInv
<1>2. StagesLeft \in Nat
  BY StageFacts DEF IInv, StageTypeOK, StagesLeft
<1> QED BY <1>1, <1>2 DEF LeftTypeOK, StepsLeft, ReturnLeft

LEMMA SameLeft ==
    /\ UNCHANGED <<phy, retry>> => PhyLeft' = PhyLeft
    /\ UNCHANGED <<pll, step, tries>> => PllLeft' = PllLeft
    /\ UNCHANGED <<entry, at>> => StagesLeft' = StagesLeft
<1>1. UNCHANGED <<phy, retry>> => PhyLeft' = PhyLeft
  BY DEF PhyLeft
<1>2. UNCHANGED <<pll, step, tries>> => PllLeft' = PllLeft
  BY DEF PllLeft, PllSet, ThisPllLeft, OnePll
<1>3. UNCHANGED <<entry, at>> => StagesLeft' = StagesLeft
  BY DEF StagesLeft, Stages
<1> QED BY <1>1, <1>2, <1>3

LEMMA OneLess ==
    \A k, m, n, p, k1 \in Nat : k1 < k => k1 + m + n + p < k + m + n + p
                                      /\ m + k1 + n + p < m + k + n + p
  OBVIOUS

LEMMA CpuRunsDown ==
    ASSUME IInv, IInv', LeftTypeOK, LeftTypeOK', Cpu
    PROVE  StepsLeft' < StepsLeft
<1>0. /\ PhyLeft \in Nat /\ PllLeft \in Nat /\ StagesLeft \in Nat
      /\ PhyLeft' \in Nat /\ PllLeft' \in Nat /\ StagesLeft' \in Nat
      /\ PhyTypeOK /\ PhyTypeOK' /\ PllTypeOK /\ PllTypeOK'
  BY DEF IInv, PhyIInv, PllIInv, LeftTypeOK
<1>a. ReturnLeft \in Nat /\ ReturnLeft' \in Nat /\ (answer' = answer => ReturnLeft' = ReturnLeft)
  BY DEF ReturnLeft
<1>1. ASSUME UNCHANGED <<entry, phyvars, pllvars, answer>>, at' = at + 1
      PROVE  StepsLeft' < StepsLeft
  <2>1. StagesLeft' = StagesLeft - 1
    BY <1>1, StageFacts DEF StagesLeft, Stages, IInv, StageTypeOK
  <2>2. PhyLeft' = PhyLeft /\ PllLeft' = PllLeft
    BY <1>1, SameLeft DEF pllvars, phyvars
  <2> QED BY <1>0, <1>a, <1>1, <2>1, <2>2 DEF StepsLeft
<1>2. CASE Table BY <1>1, <1>2 DEF Table
<1>3. CASE PllWork /\ UNCHANGED <<entry, at, status, answer, phyvars>>
  <2>1. PllLeft' < PllLeft BY <1>0, <1>3, PllRunsDown
  <2>2. PhyLeft' = PhyLeft /\ StagesLeft' = StagesLeft BY <1>3, SameLeft DEF phyvars
  <2>3. ReturnLeft' = ReturnLeft BY <1>a, <1>3
  <2> QED BY <1>0, <1>a, <2>1, <2>2, <2>3, OneLess DEF StepsLeft
<1>4. CASE /\ Stage = "pll" /\ pll \notin PllSet /\ at' = at + 1
           /\ UNCHANGED <<entry, status, answer, pllvars, phyvars>>
  BY <1>1, <1>4
<1>5. CASE PhyCpu /\ UNCHANGED <<at, status, entry, answer, pllvars>>
  <2>1. PhyLeft' < PhyLeft BY <1>0, <1>5, PhyRunsDown
  <2>2. PllLeft' = PllLeft /\ StagesLeft' = StagesLeft BY <1>5, SameLeft DEF pllvars
  <2>3. ReturnLeft' = ReturnLeft BY <1>a, <1>5
  <2> QED BY <1>0, <1>a, <2>1, <2>2, <2>3, OneLess DEF StepsLeft
<1>6. CASE at' = at + 1 /\ UNCHANGED <<phyvars, entry, answer, pllvars>>
  BY <1>1, <1>6
<1>7. CASE SerdesStage BY <1>1, <1>7 DEF SerdesStage
<1>8. CASE Return
  <2>1. answer = NotYet /\ answer' # NotYet BY <1>8 DEF Return
  <2>2. PhyLeft' = PhyLeft /\ PllLeft' = PllLeft /\ StagesLeft' = StagesLeft
    BY <1>8, SameLeft DEF Return, pllvars, phyvars
  <2>3. ReturnLeft = 1 /\ ReturnLeft' = 0 BY <2>1 DEF ReturnLeft
  <2> QED BY <1>0, <2>2, <2>3 DEF StepsLeft
<1> QED BY <1>2, <1>3, <1>4, <1>5, <1>6, <1>7, <1>8 DEF Cpu, PllStage, PhyStage

LEMMA HardwareLeaves == ASSUME Hardware PROVE StepsLeft' = StepsLeft
<1>1. UNCHANGED <<phy, retry, pll, step, tries, entry, at, answer>>
  BY DEF Hardware, PhyHardware, phyvars, pllvars
<1> QED BY <1>1, SameLeft DEF StepsLeft, ReturnLeft

LEMMA InitLeft == Init => InTime
<1> SUFFICES ASSUME Init PROVE StepsLeft <= StepsAtMost BY DEF InTime
<1>1. PhyLeft = 2 * Retries + 12 /\ ReturnLeft = 1
  BY DEF Init, PhyInit, PhyLeft, ReturnLeft
<1>2. StagesLeft \in 0 .. 12
  BY StageFacts DEF Init, StagesLeft
<1>3. OnePll \in Nat
  BY PsuAssumption DEF OnePll
<1>4. Len(Plls) * OnePll \in Nat /\ PllLeft <= Len(Plls) * OnePll
  <2>1. Len(Plls) * OnePll \in Nat
    BY <1>3, PllDomain, Products
  <2>2. CASE 1 \in PllSet
    <3>1. Len(Plls) - 1 \in Nat /\ Len(Plls) = (Len(Plls) - 1) + 1
      BY <2>2, PllDomain
    <3>2. Len(Plls) * OnePll = (Len(Plls) - 1) * OnePll + OnePll
      BY <1>3, <3>1, Products
    <3>3. PllLeft = (Len(Plls) - 1) * OnePll + OnePll
      BY <2>2 DEF Init, PllLeft, ThisPllLeft
    <3> QED BY <2>1, <3>2, <3>3
  <2>3. CASE 1 \notin PllSet
    BY <2>1, <2>3 DEF Init, PllLeft
  <2> QED BY <2>1, <2>2, <2>3
<1>5. PllLeft \in Nat
  BY InitInv, LeftType DEF LeftTypeOK
<1> HIDE DEF NotYet
<1> QED BY <1>1, <1>2, <1>4, <1>5 DEF StepsLeft, StepsAtMost

(* Every step of the processor brings the boot nearer to its end, and      *)
(* nothing the hardware does sets it back: a boot has no loop but those    *)
(* that wait for the memory (line 22345), and the polls of the PLLs and    *)
(* the retries of the lock only lengthen it.  This is what BootEnds rests  *)
(* on besides fairness.                                                    *)
THEOREM BootRunsDown ==
    Spec => /\ [](StepsLeft \in 0 .. StepsAtMost)
            /\ [][RunsDown]_vars
<1>1. IInv /\ IInv' /\ LeftTypeOK /\ LeftTypeOK' /\ [Next]_vars => [RunsDown]_vars
  BY CpuRunsDown, HardwareLeaves DEF Next, RunsDown
<1>2. StepsAtMost \in Nat
  <2>1. Len(Plls) * OnePll \in Nat
    BY PllDomain, PsuAssumption, Products DEF OnePll
  <2> QED BY <2>1 DEF StepsAtMost
<1>3. LeftTypeOK /\ LeftTypeOK' /\ InTime /\ [RunsDown]_vars => InTime'
  <2>1. UNCHANGED vars => StepsLeft' = StepsLeft
    <3>1. UNCHANGED vars => UNCHANGED <<phy, retry, pll, step, tries, entry, at, answer>>
      BY DEF vars, phyvars, pllvars
    <3> QED BY <3>1, SameLeft DEF StepsLeft, ReturnLeft
  <2>2. StepsAtMost' = StepsAtMost
    BY DEF StepsAtMost, OnePll
  <2> QED BY <1>2, <2>1, <2>2 DEF LeftTypeOK, InTime, RunsDown
<1>4. LeftTypeOK /\ InTime => StepsLeft \in 0 .. StepsAtMost
  BY <1>2 DEF LeftTypeOK, InTime
<1> QED BY InvariantHolds, LeftType, InitLeft, <1>1, <1>3, <1>4, PTL DEF Spec
=============================================================================
