--------------------------- MODULE IllCalibration ---------------------------
(***************************************************************************)
(* serdes_illcalib of psu_init.c: the injection-locked loop of a lane is   *)
(* tuned by trying every setting, running a loop-back self test at each    *)
(* and choosing one in the middle of a run of settings that passed.        *)
(*                                                                         *)
(* One search (serdes_illcalib_pcie_gen1) serves three purposes.  A SATA   *)
(* lane borrows it: registers are saved, the lane is clocked as PCIe, the  *)
(* first-rate field is searched, and the choice is moved to the second     *)
(* field.  The PCIe lanes are searched once per rate.  Only the registers  *)
(* the searches choose, borrow or hand over are kept.                      *)
(***************************************************************************)
EXTENDS Integers, Sequences

CONSTANTS
    Settings,   \* how many settings a search tries (64)
    Stride,     \* how far apart they are (8)
    Protocol,   \* of each lane: 1 PCIe, 2 SATA, 3 USB, 4 DisplayPort
    Rate        \* of each lane

Lanes == 0 .. 3
Indices == 0 .. Settings - 1

ASSUME IllAssumption ==
    /\ Settings \in Nat /\ Settings > 4
    /\ Stride \in Nat /\ 4 + Stride * (Settings - 1) < 512
    /\ Protocol \in [Lanes -> 0 .. 5] /\ Rate \in [Lanes -> 0 .. 3]

VARIABLES
    ill,      \* where serdes_illcalib is
    job,      \* which of its searches
    iter,     \* itercount
    result,   \* iterresult: the settings that passed, of each lane
    search,   \* what a search keeps of each lane
    reg,      \* E_ILL1, E_ILL2 and the halves of ILL12 of each lane
    refsel,   \* PLL_REF_SEL of each lane
    saved,    \* the temporaries of a SATA lane
    bist,     \* lanes in loop-back self test
    found     \* observation: the value each field was given by a search

illvars == <<ill, job, iter, result, search, reg, refsel, saved, bist, found>>

-----------------------------------------------------------------------------
(* The searches serdes_illcalib makes, in order. *)
Active(p) == {l \in Lanes : Protocol[l] = p}

SataJob(l) == IF Protocol[l] = 2
              THEN << [lanes |-> {l}, slot |-> 1, sata |-> TRUE] >> ELSE << >>
SataJobs  == SataJob(0) \o SataJob(1) \o SataJob(2) \o SataJob(3)
PcieJob(slot) == [lanes |-> Active(1), slot |-> slot, sata |-> FALSE]
PcieJobs  == IF Protocol[0] # 1 THEN << >>
             ELSE IF Rate[0] = 0 THEN <<PcieJob(1)>> ELSE <<PcieJob(1), PcieJob(2)>>
Jobs == SataJobs \o PcieJobs

(* A setting as a value of nine or ten bits, and how it is stored: the low *)
(* byte in E_ILL1 or E_ILL2, the rest as a flag in its half of ILL12.      *)
Value(slot, i) == (IF slot = 1 THEN 4 ELSE 260) + Stride * i

StoreUnwrapped(r, slot, i) ==   \* Fault: % 0x100 is missing
    IF slot = 1 THEN [r EXCEPT !.lo1 = Value(1, i), !.hi1 = IF Value(1, i) >= 256 THEN 1 ELSE 0]
                ELSE [r EXCEPT !.lo2 = Value(2, i), !.hi2 = IF Value(2, i) >= 512 THEN 2 ELSE 1]

Store(r, slot, i) ==
    LET v == Value(slot, i) IN
    IF slot = 1 THEN [r EXCEPT !.lo1 = v % 256, !.hi1 = IF v >= 256 THEN 1 ELSE 0]
                ELSE [r EXCEPT !.lo2 = v % 256, !.hi2 = IF v >= 512 THEN 2 ELSE 1]

Stored(r, slot) == IF slot = 1 THEN r.lo1 + 256 * r.hi1 ELSE r.lo2 + 256 * r.hi2

-----------------------------------------------------------------------------
(* One result of the self test, judged.  count is how many times a pass    *)
(* followed a pass.                                                        *)
Fresh == [prev |-> FALSE, count |-> 0, mean |-> 0, alt |-> 0, altcount |-> 0]

Middle(i, n) == (i - 1) - (n + 1) \div 2

(* Fault: a short run is not forgotten. *)
JudgeKeepsCount(s, pass, i) ==
    LET n == IF pass /\ s.prev THEN s.count + 1 ELSE s.count
        wide == s.mean = 0 /\ n >= 4 /\ (~pass \/ i = Settings - 1) /\ s.prev
        best == n < 4 /\ ~pass /\ i > 2 /\ s.altcount < n
    IN [prev |-> pass, count |-> n,
        mean |-> IF wide THEN Middle(i, n) ELSE s.mean,
        alt |-> IF best THEN Middle(i, n) ELSE s.alt,
        altcount |-> IF best THEN n ELSE s.altcount]

Judge(s, pass, i) ==
    LET n     == IF pass /\ s.prev THEN s.count + 1 ELSE s.count
        short == n < 4 /\ ~pass /\ i > 2
        after == IF short THEN 0 ELSE n
        wide  == /\ s.mean = 0 /\ after >= 4
                 /\ ~pass \/ i = Settings - 1
                 /\ s.prev
        best  == short /\ s.altcount < n
    IN [prev     |-> pass,
        count    |-> after,
        mean     |-> IF wide THEN Middle(i, after) ELSE s.mean,
        alt      |-> IF best THEN Middle(i, n) ELSE s.alt,
        altcount |-> IF best THEN n ELSE s.altcount]

(* What a search settles for. *)
Choice(s) == IF s.mean = 0 THEN s.alt ELSE s.mean

-----------------------------------------------------------------------------
LaneTable ==   \* as psu_serdes_init_data leaves the lanes; lane 1 is not written
    LET table == << [lo1 |-> 4,   hi1 |-> 1, lo2 |-> 254, hi2 |-> 1],
                    [lo1 |-> 0,   hi1 |-> 0, lo2 |-> 0,   hi2 |-> 0],
                    [lo1 |-> 254, hi1 |-> 1, lo2 |-> 0,   hi2 |-> 0],
                    [lo1 |-> 156, hi1 |-> 0, lo2 |-> 57,  hi2 |-> 1] >>
    IN  [l \in Lanes |-> table[l + 1]]
RefSelTable == [l \in Lanes |-> <<13, 9, 8, 15>>[l + 1]]
PcieClock == 13

NoResult == [i \in Indices |-> FALSE]
Nothing  == [ref |-> 0, lo1 |-> 0, hi1 |-> 0]

IllReset ==   \* the locals, where no search runs
    /\ iter = 0
    /\ result = [l \in Lanes |-> NoResult]
    /\ search = [l \in Lanes |-> Fresh]
    /\ saved = Nothing

IllInit ==
    /\ ill = "idle" /\ job = 1 /\ IllReset
    /\ reg = LaneTable /\ refsel = RefSelTable
    /\ bist = {}
    /\ found = [l \in Lanes |-> [slot \in {1, 2} |-> Stored(LaneTable[l], slot)]]

IllBegin ==
    /\ ill = "idle"
    /\ ill' = "next"
    /\ UNCHANGED <<job, iter, result, search, reg, refsel, saved, bist, found>>

(* A SATA lane is saved and clocked as PCIe. *)
IllBorrow ==
    /\ ill = "next" /\ job <= Len(Jobs) /\ Jobs[job].sata
    /\ \E l \in Jobs[job].lanes :
          /\ saved' = [ref |-> refsel[l], lo1 |-> reg[l].lo1, hi1 |-> reg[l].hi1]
          /\ refsel' = [refsel EXCEPT ![l] = PcieClock]
    /\ ill' = "start"
    /\ UNCHANGED <<job, iter, result, search, reg, bist, found>>

(* The lanes to search get the static settings of the self test. *)
IllStart ==
    /\ \/ ill = "start"
       \/ ill = "next" /\ job <= Len(Jobs) /\ ~Jobs[job].sata
    /\ bist' = Jobs[job].lanes
    /\ ill' = "search"
    /\ UNCHANGED <<job, iter, result, search, reg, refsel, saved, found>>

(* One setting: store it, reset the lanes (the wait for their PLLs may run *)
(* out, unnoticed), run the self test on each and judge its packets.  The  *)
(* lanes that are not searched are judged too, from an array that was      *)
(* never written; nothing of it leaves the function.                       *)
IllTry ==
    LET lanes == Jobs[job].lanes IN
    /\ ill = "search" /\ iter < Settings
    /\ reg' = [l \in Lanes |-> IF l \in lanes THEN Store(reg[l], Jobs[job].slot, iter)
                                             ELSE reg[l]]
    /\ \E pass \in [lanes -> BOOLEAN] :
          /\ result' = [l \in Lanes |-> IF l \in lanes
                           THEN [result[l] EXCEPT ![iter] = pass[l]] ELSE result[l]]
          /\ search' = [l \in Lanes |-> IF l \in lanes
                           THEN Judge(search[l], pass[l], iter) ELSE search[l]]
    /\ iter' = iter + 1
    /\ UNCHANGED <<ill, job, refsel, saved, bist, found>>

(* All tried: store the choice and take the lanes out of the self test. *)
IllSettle ==
    LET lanes == Jobs[job].lanes
        slot  == Jobs[job].slot
        keeps == IF Jobs[job].sata THEN 2 ELSE slot   \* the field it ends up in
    IN
    /\ ill = "search" /\ iter = Settings
    /\ reg' = [l \in Lanes |-> IF l \in lanes THEN Store(reg[l], slot, Choice(search[l]))
                                             ELSE reg[l]]
    /\ found' = [l \in Lanes |-> IF l \in lanes
                    THEN [found[l] EXCEPT ![keeps] = Value(slot, Choice(search[l]))]
                    ELSE found[l]]
    /\ bist' = {}
    /\ ill' = "settled"
    /\ UNCHANGED <<job, iter, result, search, refsel, saved>>

IllReturnNoField ==   \* Fault: E_ILL1 of a SATA lane is not restored
    /\ ill = "settled"
    /\ IF Jobs[job].sata
       THEN \E l \in Jobs[job].lanes :
              /\ refsel' = [refsel EXCEPT ![3] = saved.ref]
              /\ reg' = [reg EXCEPT ![l].hi1 = saved.hi1, ![l].lo2 = reg[l].lo1,
                                    ![l].hi2 = reg[l].hi1]
       ELSE UNCHANGED <<refsel, reg>>
    /\ iter' = 0 /\ saved' = Nothing
    /\ result' = [l \in Lanes |-> NoResult] /\ search' = [l \in Lanes |-> Fresh]
    /\ job' = job + 1 /\ ill' = "next"
    /\ UNCHANGED <<bist, found>>

IllReturnNoClock ==   \* Fault: the reference clock goes back to lane 0
    /\ ill = "settled"
    /\ IF Jobs[job].sata
       THEN \E l \in Jobs[job].lanes :
              /\ refsel' = [refsel EXCEPT ![0] = saved.ref]
              /\ reg' = [reg EXCEPT ![l] = [lo1 |-> saved.lo1, hi1 |-> saved.hi1,
                                            lo2 |-> reg[l].lo1, hi2 |-> reg[l].hi1]]
       ELSE UNCHANGED <<refsel, reg>>
    /\ iter' = 0 /\ saved' = Nothing
    /\ result' = [l \in Lanes |-> NoResult] /\ search' = [l \in Lanes |-> Fresh]
    /\ job' = job + 1 /\ ill' = "next"
    /\ UNCHANGED <<bist, found>>

(* The search returns; a SATA lane gets back what it lent, its reference   *)
(* clock in PLL_REF_SEL3 whichever lane it is, and its choice moves to the *)
(* second field.                                                           *)
IllReturn ==
    /\ ill = "settled"
    /\ IF Jobs[job].sata
       THEN \E l \in Jobs[job].lanes :
              /\ refsel' = [refsel EXCEPT ![3] = saved.ref]
              /\ reg' = [reg EXCEPT ![l] = [lo1 |-> saved.lo1, hi1 |-> saved.hi1,
                                            lo2 |-> reg[l].lo1, hi2 |-> reg[l].hi1]]
       ELSE UNCHANGED <<refsel, reg>>
    /\ iter' = 0 /\ saved' = Nothing
    /\ result' = [l \in Lanes |-> NoResult] /\ search' = [l \in Lanes |-> Fresh]
    /\ job' = job + 1 /\ ill' = "next"
    /\ UNCHANGED <<bist, found>>

(* No search left: the USB lanes get fixed settings. *)
IllFinish ==
    /\ ill = "next" /\ job > Len(Jobs)
    /\ reg' = [l \in Lanes |-> IF l \in Active(3)
                  THEN [reg[l] EXCEPT !.lo1 = 55, !.hi1 = 2, !.hi2 = 0] ELSE reg[l]]
    /\ ill' = "returned"
    /\ UNCHANGED <<job, iter, result, search, refsel, saved, bist, found>>

IllNext ==
    \/ IllBegin \/ IllBorrow \/ IllStart \/ IllTry
    \/ IllSettle \/ IllReturn \/ IllFinish

IllSpec == IllInit /\ [][IllNext]_illvars

-----------------------------------------------------------------------------
(* Properties. *)

IllTypeOK ==
    /\ ill \in {"idle", "next", "start", "search", "settled", "returned"}
    /\ job \in 1 .. Len(Jobs) + 1
    /\ iter \in 0 .. Settings
    /\ result \in [Lanes -> [Indices -> BOOLEAN]]
    /\ search \in [Lanes -> [prev: BOOLEAN, count: Nat, mean: Nat, alt: Nat, altcount: Nat]]
    /\ reg \in [Lanes -> [lo1: 0 .. 255, hi1: 0 .. 15, lo2: 0 .. 255, hi2: 0 .. 15]]
    /\ refsel \in [Lanes -> 0 .. 31]
    /\ saved \in [ref: 0 .. 31, lo1: 0 .. 255, hi1: 0 .. 15]
    /\ bist \in SUBSET Lanes
    /\ found \in [Lanes -> [{1, 2} -> Nat]]

(* Five neighbours passed; or two did before a failure, not at the very    *)
(* beginning.                                                              *)
WideEye(r)   == \E i \in Indices : i + 4 < Settings /\ \A k \in i .. i + 4 : r[k]
NarrowEye(r) == \E i \in Indices : /\ i > 0 /\ i + 2 < Settings
                                   /\ r[i] /\ r[i + 1] /\ ~r[i + 2]

(* The one pattern in which the search settles for a setting that failed:  *)
(* the count of 0 and 1 is kept over the failure at 2, because nothing is  *)
(* reset that early, and spoils the middle of what follows.                *)
EarlyGlitch(r) == r[0] /\ r[1] /\ ~r[2] /\ r[3] /\ ~r[4]

(* The setting chosen passed its test, if there was an eye to find; where  *)
(* there is a wide one it did without exception.                           *)
ChosenPassed ==
    ill = "settled" =>
        \A l \in Jobs[job].lanes :
            LET r == result[l]  c == Choice(search[l]) IN
            /\ c \in Indices
            /\ WideEye(r) => r[c]
            /\ NarrowEye(r) => r[c] \/ EarlyGlitch(r)

(* Between the searches every field holds what the search for it chose, or *)
(* what it held: the searches share registers, a SATA lane even searches   *)
(* in the wrong field, and none disturbs the choice of another.            *)
FieldsAreKept ==
    ill = "next" =>
        \A l \in Lanes : \A slot \in {1, 2} : Stored(reg[l], slot) = found[l][slot]

(* No lane stays in its self test, and the lanes are clocked as they were  *)
(* configured, as long as SATA runs on lane 3 only: the reference clock is *)
(* restored there whichever lane lent it.                                  *)
LanesGivenBack ==
    ill \in {"next", "returned"} /\ Active(2) \subseteq {3} =>
        bist = {} /\ refsel = RefSelTable
=============================================================================
