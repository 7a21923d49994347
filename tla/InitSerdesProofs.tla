-------------------------- MODULE InitSerdesProofs --------------------------
(***************************************************************************)
(* init_serdes as a whole: what is proved of the calibration and of the    *)
(* search holds of every run of init_serdes, and both run while everything *)
(* on the lanes is in reset.                                               *)
(***************************************************************************)
EXTENDS InitSerdes, SerdesFixcalProofs, IllCalibrationProofs

(* serdes_fixcal_code keeps its invariant until its locals are gone.       *)
SerdesIInv ==
    /\ FixcalIInv \/ fix = "left"
    /\ IllIInv
    /\ stage \in {"enter", "fixcal", "lanes", "resetout", "returned"}
    /\ status \in {0, 1} /\ held \subseteq Peripherals
    /\ stage \in {"fixcal", "lanes"} => held = Peripherals

LEMMA FixcalStays == UNCHANGED fixvars /\ FixcalIInv => FixcalIInv'
BY DEF fixvars, FixcalIInv, FixcalTypeOK, Voted, Led, Honest, Ended

LEMMA IllStays == UNCHANGED illvars /\ IllIInv => IllIInv'
<1> SUFFICES ASSUME UNCHANGED illvars, IllIInv PROVE IllIInv'
  OBVIOUS
<1>1. IllTypeOK' BY DEF illvars, IllIInv, IllTypeOK
<1>2. Searching' BY DEF illvars, IllIInv, Searching, Busy
<1>3. Keeping' BY DEF illvars, IllIInv, Keeping, Busy, Kept, Lent
<1>4. Clocked' BY DEF illvars, IllIInv, Clocked, Busy
<1> QED BY <1>1, <1>2, <1>3, <1>4 DEF IllIInv

LEMMA FixcalStep == ASSUME FixcalIInv, FixcalNext PROVE FixcalIInv'
BY FixcalNextType, FixcalNextVoted, FixcalNextEnded DEF FixcalIInv

LEMMA IllStep == ASSUME IllIInv, IllNext PROVE IllIInv'
BY IllBeginInv, IllBorrowInv, IllStartInv, IllTryInv, IllSettleInv, IllReturnInv,
   IllFinishInv DEF IllNext

LEMMA SerdesNextInv == ASSUME SerdesIInv, Next PROVE SerdesIInv'
<1>0. /\ FixcalIInv \/ fix = "left"
      /\ IllIInv
      /\ stage \in {"enter", "fixcal", "lanes", "resetout", "returned"}
      /\ status \in {0, 1} /\ held \subseteq Peripherals
      /\ stage \in {"fixcal", "lanes"} => held = Peripherals
  BY DEF SerdesIInv
<1>1. UNCHANGED fixvars => FixcalIInv' \/ fix' = "left"
  BY <1>0, FixcalStays DEF fixvars
<1>2. CASE ResetIn
  BY <1>0, <1>1, <1>2, IllStays DEF ResetIn, SerdesIInv
<1>3. CASE Fixcal
  <2>1. fix # "left" BY <1>3 DEF Fixcal, FixcalNext, FixcalBegin, FixcalRound,
                                 FixcalTimeout, FixcalScan, FixcalForce
  <2>2. FixcalIInv' BY <1>0, <1>3, <2>1, FixcalStep DEF Fixcal
  <2> QED BY <1>0, <1>3, <2>2, IllStays DEF Fixcal, SerdesIInv
<1>4. CASE FixcalDone
  <2>1. fix' = "left" /\ UNCHANGED illvars /\ held' = held /\ stage = "fixcal"
        /\ stage' = "lanes" /\ status' \in {0, 1}
    BY <1>0, <1>4 DEF FixcalDone
  <2> QED BY <1>0, <2>1, IllStays DEF SerdesIInv
<1>5. CASE TuneLanes
  BY <1>0, <1>1, <1>5, IllStep DEF TuneLanes, SerdesIInv
<1>6. CASE LanesDone
  BY <1>0, <1>1, <1>6, IllStays DEF LanesDone, SerdesIInv
<1>7. CASE Release
  <2>1. held' \subseteq held BY <1>7 DEF Release
  <2> QED BY <1>0, <1>1, <1>7, <2>1, IllStays DEF Release, SerdesIInv
<1>8. CASE Return
  BY <1>0, <1>1, <1>8, IllStays DEF Return, SerdesIInv
<1> QED BY <1>2, <1>3, <1>4, <1>5, <1>6, <1>7, <1>8 DEF Next

(* The invariant of init_serdes, for any constants.                        *)
THEOREM SerdesInvariant == Spec => []SerdesIInv
<1>1. Init => SerdesIInv
  BY FixcalInitInv, IllInitInv DEF Init, SerdesIInv
<1>2. SerdesIInv /\ [Next]_vars => SerdesIInv'
  <2>1. SerdesIInv /\ UNCHANGED vars => SerdesIInv'
    BY FixcalStays, IllStays DEF vars, SerdesIInv, fixvars
  <2> QED BY <2>1, SerdesNextInv
<1> QED BY <1>1, <1>2, PTL DEF Spec

(* The variables of init_serdes and of the two functions keep their types. *)
THEOREM SerdesTypes == Spec => []TypeOK
<1>1. SerdesIInv => TypeOK BY DEF SerdesIInv, TypeOK, FixcalIInv, IllIInv
<1> QED BY <1>1, SerdesInvariant, PTL

(* The codes forced on the lanes were voted for, in every run.             *)
THEOREM SerdesVotes == Spec => []VoteIsHonest
<1>1. SerdesIInv => VoteIsHonest
  BY DEF SerdesIInv, FixcalIInv, Voted, VoteIsHonest, Honest
<1> QED BY <1>1, SerdesInvariant, PTL

(* In every run of init_serdes: where there is an eye the setting chosen   *)
(* passed, except possibly after an early glitch; no search disturbs       *)
(* another; and with SATA on lane 3 only no lane is left as it was         *)
(* borrowed.                                                               *)
THEOREM SerdesSearches == Spec => [](ChosenPassed /\ FieldsAreKept /\ LanesGivenBack)
<1>1. SerdesIInv => ChosenPassed /\ FieldsAreKept /\ LanesGivenBack
  BY IllInvImplies DEF SerdesIInv
<1> QED BY <1>1, SerdesInvariant, PTL

(* Nothing on the lanes is tuned while a peripheral there is out of reset, *)
(* also after a calibration that failed.                                   *)
THEOREM SerdesInReset == Spec => TunedInReset
<1>1. ASSUME SerdesIInv, [Next]_vars
      PROVE  [dig' # dig \/ reg' # reg \/ refsel' # refsel => held = Peripherals]_vars
  <2>1. stage \in {"fixcal", "lanes"} => held = Peripherals BY <1>1 DEF SerdesIInv
  <2>2. CASE Fixcal \/ TuneLanes BY <2>1, <2>2 DEF Fixcal, TuneLanes
  <2>3. CASE ResetIn \/ FixcalDone \/ LanesDone \/ Release \/ Return
    BY <2>3 DEF ResetIn, FixcalDone, LanesDone, Release, Return, fixvars, illvars
  <2>4. CASE UNCHANGED vars BY <2>4
  <2> QED BY <1>1, <2>2, <2>3, <2>4 DEF Next
<1> QED BY <1>1, SerdesInvariant, PTL DEF Spec, TunedInReset

(* The registers of the calibration change once in a run, after it ended   *)
(* in time, and then read back as what was voted.                          *)
THEOREM SerdesForces == Spec => ForcedOnceAndWhole
<1>1. SerdesIInv /\ [Next]_vars =>
        [dig' # dig =>
            /\ round = Rounds /\ fixed = 1
            /\ \A k \in Kinds :
                  ReadBack'[k] = code[k] % (IF k \in ScanOf["wide"] THEN 32 ELSE 16)
            /\ \A d \in Digs : /\ Overrides[d] \subseteq dig'[d]
                               /\ dig'[d] \ Cleared[d] = dig[d] \ Cleared[d]]_fixvars
  <2> SUFFICES ASSUME SerdesIInv, [Next]_vars, dig' # dig
               PROVE  FixcalIInv /\ FixcalNext
    BY ForcedStep, Zenon
  <2>1. Fixcal
    BY DEF Next, vars, ResetIn, FixcalDone, TuneLanes, LanesDone, Release, Return, fixvars
  <2>2. fix # "left"
    BY <2>1 DEF Fixcal, FixcalNext, FixcalBegin, FixcalRound, FixcalTimeout, FixcalScan,
                FixcalForce
  <2> QED BY <2>1, <2>2 DEF SerdesIInv, Fixcal
<1> QED BY <1>1, SerdesInvariant, PTL DEF Spec, ForcedOnceAndWhole
=============================================================================
