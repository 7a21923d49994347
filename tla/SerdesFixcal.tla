---------------------------- MODULE SerdesFixcal ----------------------------
(***************************************************************************)
(* serdes_fixcal_code of psu_init.c: the serial lanes calibrate their      *)
(* analog parts a number of times, and the code each part reported most    *)
(* often is forced on it.                                                  *)
(*                                                                         *)
(* Four codes are voted on.  The votes are arrays counted per code, and    *)
(* the winner is found in one pass that keeps the largest count so far in  *)
(* slot 0, over the count that was there.  A code outside its valid range  *)
(* is not counted, and a calibration that never ends gives up everything.  *)
(***************************************************************************)
EXTENDS Integers

CONSTANTS
    Rounds,    \* calibrations done (11: the loop tests after counting)
    Readings   \* what the hardware may report after a calibration

Kinds  == {"pmos", "nmos", "ical", "rcal"}
First  == [pmos |-> 38, nmos |-> 38, ical |-> 12, rcal |-> 6]
Last   == [pmos |-> 60, nmos |-> 60, ical |-> 18, rcal |-> 12]
Codes(k) == First[k] .. Last[k]

(* The two scans: PMOS and NMOS in one loop, ICAL and RX in the other. *)
ScanOf  == [wide |-> {"pmos", "nmos"}, narrow |-> {"ical", "rcal"}]
Slots   == [wide |-> 23, narrow |-> 7]

ASSUME FixcalAssumption ==
    Rounds \in Nat \ {0} /\ Readings \subseteq [Kinds -> Nat]

VARIABLES
    fix,     \* where serdes_fixcal_code is
    round,   \* calibrations that ended
    index,   \* i, the slot the scan looks at
    votes,   \* the match_*_code arrays
    code,    \* p_code, n_code, i_code, r_code
    dig,     \* registers L3_TM_CALIB_DIG14 .. DIG20, as sets of bits
    fixed,   \* the status returned
    seen     \* observation: the votes before the scan overwrote slot 0

fixvars == <<fix, round, index, votes, code, dig, fixed, seen>>

NoVotes == [k \in Kinds |-> [c \in Codes(k) |-> 0]]

Digs == {14, 15, 16, 18, 19, 20}

FixcalReset ==
    /\ round = 0 /\ index = 0
    /\ votes = NoVotes /\ seen = NoVotes
    /\ code = [k \in Kinds |-> 0]

FixcalInit ==
    /\ fix = "idle" /\ fixed = 1
    /\ FixcalReset
    /\ dig \in {[d \in Digs |-> {}], [d \in Digs |-> 0 .. 31]}

-----------------------------------------------------------------------------
(* Power the analog front end and wait for its supply, for so long only:   *)
(* the code goes on whether or not the supply came.                        *)
FixcalBegin ==
    /\ fix = "idle"
    /\ fix' = "calibrate"
    /\ UNCHANGED <<round, index, votes, code, dig, fixed, seen>>

Counted(r) ==
    [k \in Kinds |-> [c \in Codes(k) |-> votes[k][c] + (IF r[k] = c THEN 1 ELSE 0)]]

(* Trigger a calibration of all stages; it ends in time, and what it found *)
(* is counted where it is valid.                                           *)
FixcalRound ==
    /\ fix = "calibrate"
    /\ \E r \in Readings : code' = r /\ votes' = Counted(r) /\ seen' = Counted(r)
    /\ round' = round + 1
    /\ fix' = IF round' < Rounds THEN "calibrate" ELSE "wide"
    /\ UNCHANGED <<index, dig, fixed>>

(* mask_poll gives up: status 0, and nothing is forced. *)
FixcalTimeout ==
    /\ fix = "calibrate"
    /\ fix' = "returned" /\ fixed' = 0
    /\ UNCHANGED <<round, index, votes, code, dig, seen>>

-----------------------------------------------------------------------------
(* One slot of one of the two scans. *)
Leads(k) == votes[k][First[k] + index] >= votes[k][First[k]]

(* Fault: the running maximum is not kept. *)
FixcalScanForgets(loop, next) ==
    /\ fix = loop
    /\ code' = [k \in Kinds |-> IF k \in ScanOf[loop] /\ Leads(k)
                                THEN First[k] + index ELSE code[k]]
    /\ IF index + 1 < Slots[loop]
       THEN index' = index + 1 /\ fix' = fix
       ELSE index' = 0 /\ fix' = next
    /\ UNCHANGED <<round, votes, dig, fixed, seen>>

FixcalScan(loop, next) ==
    LET leading == {k \in ScanOf[loop] : Leads(k)} IN
    /\ fix = loop
    /\ votes' = [k \in Kinds |-> IF k \in leading
                    THEN [votes[k] EXCEPT ![First[k]] = votes[k][First[k] + index]]
                    ELSE votes[k]]
    /\ code' = [k \in Kinds |-> IF k \in leading THEN First[k] + index ELSE code[k]]
    /\ IF index + 1 < Slots[loop]
       THEN index' = index + 1 /\ fix' = fix
       ELSE index' = 0 /\ fix' = next
    /\ UNCHANGED <<round, dig, fixed, seen>>

-----------------------------------------------------------------------------
(* The fields of the registers: what mask_read clears, what overrides are  *)
(* set, and which bits of which code go where.                             *)
ClearedLess ==   \* Fault: 0xFFFFFFD8 for the mask of DIG19
    [d \in Digs |-> CASE d = 20 -> 0 .. 3 [] d = 19 -> {0, 1, 2, 5}
                      [] d = 18 -> 4 .. 7 [] d = 16 -> 0 .. 2
                      [] d = 15 -> {0, 1, 2, 3, 6, 7} [] d = 14 -> {6, 7}]
Cleared   == [d \in Digs |-> CASE d = 20 -> 0 .. 3 [] d = 19 -> {0, 1, 2, 5, 6, 7}
                               [] d = 18 -> 4 .. 7 [] d = 16 -> 0 .. 2
                               [] d = 15 -> {0, 1, 2, 3, 6, 7} [] d = 14 -> {6, 7}]
Overrides == [d \in Digs |-> CASE d = 20 -> {3} [] d = 19 -> {2, 5} [] d = 18 -> {4}
                               [] d = 16 -> {} [] d = 15 -> {3, 6} [] d = 14 -> {6}]

Slice(k, from, width, at) ==
    {at + b : b \in {w \in 0 .. width - 1 : (code[k] \div 2^(from + w)) % 2 = 1}}

Fields == [d \in Digs |->
    CASE d = 20 -> Slice("pmos", 2, 3, 0)
      [] d = 19 -> Slice("pmos", 0, 2, 6) \cup Slice("nmos", 3, 2, 0)
      [] d = 18 -> Slice("nmos", 0, 3, 5)
      [] d = 16 -> Slice("rcal", 1, 3, 0)
      [] d = 15 -> Slice("rcal", 0, 1, 7) \cup Slice("ical", 1, 3, 0)
      [] d = 14 -> Slice("ical", 0, 1, 7)]

FixcalForce ==
    /\ fix = "force"
    /\ dig' = [d \in Digs |-> (dig[d] \ Cleared[d]) \cup Overrides[d] \cup Fields[d]]
    /\ fix' = "returned"
    /\ UNCHANGED <<round, index, votes, code, fixed, seen>>

FixcalNext ==
    \/ FixcalBegin \/ FixcalRound \/ FixcalTimeout
    \/ FixcalScan("wide", "narrow") \/ FixcalScan("narrow", "force")
    \/ FixcalForce

FixcalSpec == FixcalInit /\ [][FixcalNext]_fixvars

-----------------------------------------------------------------------------
(* Properties. *)

FixcalTypeOK ==
    /\ fix \in {"idle", "calibrate", "wide", "narrow", "force", "returned"}
    /\ round \in 0 .. Rounds
    /\ index \in 0 .. (IF fix \in DOMAIN Slots THEN Slots[fix] - 1 ELSE 0)
    /\ \A k \in Kinds : votes[k] \in [Codes(k) -> Nat] /\ seen[k] \in [Codes(k) -> Nat]
    /\ code \in [Kinds -> Nat]
    /\ dig \in [Digs -> SUBSET (0 .. 31)]
    /\ fixed \in {0, 1}

(* When the scans are over, each code that is about to be forced, or is,   *)
(* is a valid one, and no code was reported more often: the scan that      *)
(* keeps its running maximum in slot 0 loses neither the first slot's own  *)
(* count nor a later larger one.                                           *)
VoteIsHonest ==
    fix = "force" \/ (fix = "returned" /\ fixed = 1) =>
        \A k \in Kinds : /\ code[k] \in Codes(k)
                         /\ \A c \in Codes(k) : seen[k][c] <= seen[k][code[k]]

(* The codes as the comments at lines 23752-23787 say they are laid out. *)
B(r, b) == IF b \in dig[r] THEN 1 ELSE 0
ReadBack ==
    [pmos |-> 16*B(20,2) + 8*B(20,1) + 4*B(20,0) + 2*B(19,7) + B(19,6),
     nmos |-> 16*B(19,1) + 8*B(19,0) + 4*B(18,7) + 2*B(18,6) + B(18,5),
     rcal |-> 8*B(16,2) + 4*B(16,1) + 2*B(16,0) + B(15,7),
     ical |-> 8*B(15,2) + 4*B(15,1) + 2*B(15,0) + B(14,7)]

(* Registers change once, after every calibration ended in time: they then *)
(* read back as the voted codes, with stale bits gone, every override on   *)
(* and the bits of other functions as they were.                           *)
ForcedOnceAndWhole ==
    [][dig' # dig =>
        /\ round = Rounds /\ fixed = 1
        /\ \A k \in Kinds :
              ReadBack'[k] = code[k] % (IF k \in ScanOf["wide"] THEN 32 ELSE 16)
        /\ \A d \in Digs : /\ Overrides[d] \subseteq dig'[d]
                           /\ dig'[d] \ Cleared[d] = dig[d] \ Cleared[d]]_fixvars
=============================================================================
