------------------------- MODULE SerdesFixcalProofs -------------------------
(***************************************************************************)
(* The vote on the calibration codes is right for any number of rounds and *)
(* anything the hardware may report.                                       *)
(*                                                                         *)
(* VoteIsHonest speaks of the end of the scans.  What a scan maintains is  *)
(* Led: slot 0 holds the largest count of the slots before index, the code *)
(* is one that had it, and the other slots are still as they were counted. *)
(***************************************************************************)
EXTENDS SerdesFixcal, TLAPS

-----------------------------------------------------------------------------
(* A kind of code, the bounds of its range and the loop that scans it.     *)
LEMMA KindFacts ==
    ASSUME NEW k \in Kinds, NEW loop \in DOMAIN Slots
    PROVE  /\ First[k] \in Nat /\ Slots[loop] \in Nat /\ Slots[loop] > 1
           /\ k \in ScanOf[loop] => Codes(k) = First[k] .. First[k] + Slots[loop] - 1
           /\ First[k] \in Codes(k)
           /\ Codes(k) \subseteq Nat
<1> USE DEF Kinds, Slots, ScanOf, Codes, First, Last
<1>1. CASE loop = "wide" /\ k = "pmos" BY <1>1
<1>2. CASE loop = "wide" /\ k = "nmos" BY <1>2
<1>3. CASE loop = "wide" /\ k = "ical" BY <1>3
<1>4. CASE loop = "wide" /\ k = "rcal" BY <1>4
<1>5. CASE loop = "narrow" /\ k = "pmos" BY <1>5
<1>6. CASE loop = "narrow" /\ k = "nmos" BY <1>6
<1>7. CASE loop = "narrow" /\ k = "ical" BY <1>7
<1>8. CASE loop = "narrow" /\ k = "rcal" BY <1>8
<1> QED BY <1>1, <1>2, <1>3, <1>4, <1>5, <1>6, <1>7, <1>8

LEMMA ScanOnce ==
    /\ ScanOf["wide"] \cap ScanOf["narrow"] = {}
    /\ ScanOf["wide"] \cup ScanOf["narrow"] = Kinds
    /\ DOMAIN Slots = {"wide", "narrow"}
BY DEF ScanOf, Kinds, Slots

(* Bits of a code are stored inside the register.                          *)
LEMMA FieldsFit ==
    ASSUME NEW d \in Digs PROVE Fields[d] \subseteq 0 .. 31 /\ Overrides[d] \subseteq 0 .. 31
<1> USE DEF Fields, Overrides, Slice, Digs
<1>1. CASE d = 14 BY <1>1
<1>2. CASE d = 15 BY <1>2
<1>3. CASE d = 16 BY <1>3
<1>4. CASE d = 18 BY <1>4
<1>5. CASE d = 19 BY <1>5
<1>6. CASE d = 20 BY <1>6
<1> QED BY <1>1, <1>2, <1>3, <1>4, <1>5, <1>6

-----------------------------------------------------------------------------
(* The invariant.                                                          *)

Led(k, n) ==
    /\ \A c \in Codes(k) : c # First[k] => votes[k][c] = seen[k][c]
    /\ n = 0 => votes[k][First[k]] = seen[k][First[k]]
    /\ n > 0 => /\ code[k] \in First[k] .. First[k] + n - 1
                /\ code[k] \in Codes(k)
                /\ votes[k][First[k]] = seen[k][code[k]]
                /\ \A c \in First[k] .. First[k] + n - 1 :
                      c \in Codes(k) => seen[k][c] <= votes[k][First[k]]

Honest(k) ==
    /\ code[k] \in Codes(k)
    /\ \A c \in Codes(k) : seen[k][c] <= seen[k][code[k]]

Voted ==
    /\ fix \in {"idle", "calibrate"} => round < Rounds
    /\ fix = "returned" => fixed \in {0, 1}
    /\ fix \in {"idle", "calibrate"} => \A k \in Kinds : votes[k] = seen[k]
    /\ fix = "wide" => /\ \A k \in ScanOf["wide"] : Led(k, index)
                       /\ \A k \in ScanOf["narrow"] : votes[k] = seen[k]
    /\ fix = "narrow" => /\ \A k \in ScanOf["wide"] : Honest(k)
                         /\ \A k \in ScanOf["narrow"] : Led(k, index)
    /\ fix = "force" \/ (fix = "returned" /\ fixed = 1) => \A k \in Kinds : Honest(k)

(* Nothing is scanned or forced unless all calibrations ended in time.     *)
Ended ==
    /\ fix \in {"idle", "calibrate", "wide", "narrow", "force"} => fixed = 1
    /\ fix \in {"wide", "narrow", "force"} => round = Rounds

FixcalIInv == FixcalTypeOK /\ Voted /\ Ended

-----------------------------------------------------------------------------
LEMMA FixcalInitInv == ASSUME FixcalInit PROVE FixcalIInv
<1>1. FixcalTypeOK
  <2>1. dig \in [Digs -> SUBSET (0 .. 31)]
    BY DEF FixcalInit
  <2>2. \A k \in Kinds : votes[k] \in [Codes(k) -> Nat] /\ seen[k] \in [Codes(k) -> Nat]
    BY DEF FixcalInit, FixcalReset, NoVotes
  <2>3. code \in [Kinds -> Nat] /\ round \in 0 .. Rounds
        /\ index \in 0 .. (IF fix \in DOMAIN Slots THEN Slots[fix] - 1 ELSE 0)
    BY FixcalAssumption, ScanOnce DEF FixcalInit, FixcalReset
  <2> QED BY <2>1, <2>2, <2>3 DEF FixcalInit, FixcalTypeOK
<1>2. Voted BY FixcalAssumption DEF FixcalInit, FixcalReset, Voted
<1>3. Ended BY DEF FixcalInit, Ended
<1> QED BY <1>1, <1>2, <1>3 DEF FixcalIInv

(* One slot of a scan: what it does to a kind of that scan.                *)
LEMMA ScanKind ==
    ASSUME NEW loop \in {"wide", "narrow"}, NEW next, FixcalTypeOK,
           FixcalScan(loop, next), NEW k \in ScanOf[loop],
           NEW n \in Nat, index = n, n < Slots[loop], Led(k, n)
    PROVE  /\ votes'[k] \in [Codes(k) -> Nat]
           /\ code'[k] \in Nat
           /\ Led(k, n + 1)'
           /\ n + 1 = Slots[loop] => Honest(k)'
<1> DEFINE f == First[k]
           s == Slots[loop]
           v == votes[k]
           u == seen[k]
           x == f + n
<1>0. k \in Kinds /\ loop \in DOMAIN Slots BY ScanOnce
<1>1. /\ f \in Nat /\ s \in Nat /\ f \in Codes(k)
      /\ Codes(k) = f .. f + s - 1 /\ x \in Codes(k) /\ x \in Nat
  BY <1>0, KindFacts
<1>2. v \in [Codes(k) -> Nat] /\ u \in [Codes(k) -> Nat] /\ code[k] \in Nat
  BY <1>0 DEF FixcalTypeOK
<1>3. seen' = seen BY DEF FixcalScan
<1>4. CASE v[x] >= v[f]
  <2>1. votes'[k] = [v EXCEPT ![f] = v[x]] /\ code'[k] = x
    BY <1>0, <1>4 DEF FixcalScan, Leads
  <2>2. votes'[k] \in [Codes(k) -> Nat] BY <2>1, <1>1, <1>2
  <2>3. votes'[k][f] = v[x] /\ \A c \in Codes(k) : c # f => votes'[k][c] = v[c]
    BY <2>1, <1>1, <1>2
  <2>4. v[x] = u[x] BY <1>1 DEF Led
  <2>5. \A c \in f .. f + n : c \in Codes(k) => u[c] <= v[x]
    <3>1. CASE n = 0 BY <3>1, <1>1, <1>2, <2>4 DEF Led
    <3>2. CASE n > 0
      <4> SUFFICES ASSUME NEW c \in f .. f + n, c \in Codes(k) PROVE u[c] <= v[x]
        OBVIOUS
      <4>1. CASE c = x BY <4>1, <2>4, <1>1, <1>2
      <4>2. CASE c # x
        <5>1. c \in f .. f + n - 1 BY <4>2, <1>1
        <5>2. u[c] <= v[f] BY <5>1, <3>2 DEF Led
        <5>3. u[c] \in Nat /\ v[f] \in Nat /\ v[x] \in Nat BY <1>1, <1>2
        <5> QED BY <5>2, <5>3, <1>4
      <4> QED BY <4>1, <4>2
    <3> QED BY <3>1, <3>2
  <2>6. Led(k, n + 1)'
    <3>1. \A c \in Codes(k) : c # f => votes'[k][c] = seen'[k][c]
      BY <2>3, <1>3 DEF Led
    <3>2. code'[k] \in f .. f + (n + 1) - 1 /\ code'[k] \in Codes(k) BY <2>1, <1>1
    <3>3. votes'[k][f] = seen'[k][code'[k]] BY <2>1, <2>3, <2>4, <1>3
    <3>4. \A c \in f .. f + (n + 1) - 1 : c \in Codes(k) => seen'[k][c] <= votes'[k][f]
      BY <2>5, <2>3, <1>3, <1>1
    <3> QED BY <3>1, <3>2, <3>3, <3>4 DEF Led
  <2>7. n + 1 = s => Honest(k)'
    BY <2>1, <2>4, <2>5, <1>1, <1>3 DEF Honest
  <2> QED BY <2>1, <2>2, <2>6, <2>7, <1>1
<1>5. CASE ~(v[x] >= v[f])
  <2>1. votes'[k] = v /\ code'[k] = code[k]
    BY <1>0, <1>5 DEF FixcalScan, Leads
  <2>2. n > 0 BY <1>5, <1>1, <1>2
  <2>3. v[x] = u[x] /\ u[x] <= v[f] /\ v[f] \in Nat
    <3>1. x # f BY <1>1, <2>2
    <3>2. v[x] = u[x] BY <1>1, <3>1 DEF Led
    <3>3. v[x] \in Nat /\ v[f] \in Nat BY <1>1, <1>2
    <3> QED BY <3>2, <3>3, <1>5
  <2>4. \A c \in f .. f + n : c \in Codes(k) => u[c] <= v[f]
    <3> SUFFICES ASSUME NEW c \in f .. f + n, c \in Codes(k) PROVE u[c] <= v[f]
      OBVIOUS
    <3>1. CASE c = x BY <3>1, <2>3
    <3>2. CASE c # x
      <4>1. c \in f .. f + n - 1 BY <3>2, <1>1
      <4> QED BY <4>1, <2>2 DEF Led
    <3> QED BY <3>1, <3>2
  <2>5. code[k] \in f .. f + n - 1 /\ code[k] \in Codes(k) /\ v[f] = u[code[k]]
    BY <2>2 DEF Led
  <2>6. Led(k, n + 1)'
    <3>1. \A c \in Codes(k) : c # f => votes'[k][c] = seen'[k][c]
      BY <2>1, <1>3 DEF Led
    <3>2. code'[k] \in f .. f + (n + 1) - 1 /\ code'[k] \in Codes(k)
      BY <2>1, <2>5, <1>1
    <3>3. votes'[k][f] = seen'[k][code'[k]] BY <2>1, <2>5, <1>3
    <3>4. \A c \in f .. f + (n + 1) - 1 : c \in Codes(k) => seen'[k][c] <= votes'[k][f]
      BY <2>4, <2>1, <1>3, <1>1
    <3> QED BY <3>1, <3>2, <3>3, <3>4 DEF Led
  <2>7. n + 1 = s => Honest(k)'
    BY <2>1, <2>5, <2>4, <1>1, <1>3 DEF Honest
  <2> QED BY <2>1, <2>6, <2>7, <1>2
<1> QED BY <1>4, <1>5

(* A scan does nothing to the kinds of the other scan.                     *)
LEMMA ScanOther ==
    ASSUME NEW loop \in {"wide", "narrow"}, NEW next,
           FixcalScan(loop, next), NEW k \in Kinds, k \notin ScanOf[loop]
    PROVE  votes'[k] = votes[k] /\ code'[k] = code[k] /\ seen'[k] = seen[k]
BY DEF FixcalScan

(* A scan keeps the types and what is known of the vote.                   *)
LEMMA ScanStep ==
    ASSUME NEW loop \in {"wide", "narrow"}, NEW next \in {"narrow", "force"}, loop # next,
           FixcalTypeOK, FixcalScan(loop, next),
           \A k \in ScanOf[loop] : Led(k, index)
    PROVE  /\ \A k \in Kinds : votes'[k] \in [Codes(k) -> Nat] /\ seen'[k] \in [Codes(k) -> Nat]
           /\ code' \in [Kinds -> Nat]
           /\ \/ fix' = loop /\ index' = index + 1 /\ index' < Slots[loop]
              \/ fix' = next /\ index' = 0
           /\ fix' = loop => \A k \in ScanOf[loop] : Led(k, index)'
           /\ fix' = next => \A k \in ScanOf[loop] : Honest(k)'
<1> DEFINE n == index
<1>1. /\ ScanOf[loop] \subseteq Kinds /\ loop \in DOMAIN Slots
      /\ fix = loop /\ n \in Nat /\ n < Slots[loop] /\ Slots[loop] \in Nat
  <2>1. loop \in DOMAIN Slots BY ScanOnce
  <2>2. fix = loop BY DEF FixcalScan
  <2>3. ScanOf[loop] \subseteq Kinds BY DEF ScanOf, Kinds
  <2>4. Slots[loop] \in Nat BY DEF Slots
  <2>5. n \in 0 .. Slots[loop] - 1 BY <2>1, <2>2 DEF FixcalTypeOK
  <2> QED BY <2>1, <2>2, <2>3, <2>4, <2>5
<1>2. /\ fix' = IF n + 1 < Slots[loop] THEN loop ELSE next
      /\ index' = IF n + 1 < Slots[loop] THEN n + 1 ELSE 0
  BY <1>1 DEF FixcalScan
<1>3. ASSUME NEW k \in ScanOf[loop]
      PROVE  /\ votes'[k] \in [Codes(k) -> Nat]
             /\ code'[k] \in Nat
             /\ n + 1 < Slots[loop] => Led(k, index)'
             /\ n + 1 = Slots[loop] => Honest(k)'
  <2>1. PICK m \in Nat : index = m BY <1>1
  <2>2. m < Slots[loop] /\ Led(k, m) BY <1>1, <2>1
  <2>3. /\ votes'[k] \in [Codes(k) -> Nat] /\ code'[k] \in Nat
        /\ Led(k, m + 1)'
        /\ m + 1 = Slots[loop] => Honest(k)'
    BY <2>1, <2>2, <1>3, ScanKind
  <2>4. ASSUME n + 1 < Slots[loop] PROVE Led(k, index)'
    <3>1. index' = m + 1 BY <1>2, <2>1, <2>4
    <3>2. Led(k, m + 1)' BY <2>3
    <3> QED BY <3>1, <3>2 DEF Led
  <2>5. n + 1 = Slots[loop] => Honest(k)' BY <2>1, <2>3
  <2> QED BY <2>3, <2>4, <2>5
<1>4. ASSUME NEW k \in Kinds
      PROVE  votes'[k] \in [Codes(k) -> Nat] /\ seen'[k] \in [Codes(k) -> Nat]
             /\ code'[k] \in Nat
  <2>1. seen' = seen BY DEF FixcalScan
  <2>2. CASE k \in ScanOf[loop] BY <2>1, <2>2, <1>3 DEF FixcalTypeOK
  <2>3. CASE k \notin ScanOf[loop] BY <2>3, ScanOther DEF FixcalTypeOK
  <2> QED BY <2>2, <2>3
<1>5. code' \in [Kinds -> Nat]
  <2>1. code' = [k \in Kinds |-> code'[k]] BY DEF FixcalScan
  <2> QED BY <2>1, <1>4
<1>6. n + 1 < Slots[loop] \/ n + 1 = Slots[loop] BY <1>1
<1> QED BY <1>1, <1>2, <1>3, <1>4, <1>5, <1>6

-----------------------------------------------------------------------------
LEMMA FixcalNextType ==
    ASSUME FixcalIInv, FixcalNext PROVE FixcalTypeOK'
<1> USE FixcalAssumption, ScanOnce
<1>0. FixcalTypeOK /\ Voted BY DEF FixcalIInv
<1> DEFINE VotesOK == \A k \in Kinds : votes[k] \in [Codes(k) -> Nat]
                                       /\ seen[k] \in [Codes(k) -> Nat]
<1>1. CASE FixcalBegin BY <1>0, <1>1 DEF FixcalBegin, FixcalTypeOK
<1>2. CASE FixcalRound
  <2>1. PICK r \in Readings : code' = r /\ votes' = Counted(r) /\ seen' = Counted(r)
    BY <1>2 DEF FixcalRound
  <2>2. VotesOK'
    <3> SUFFICES ASSUME NEW k \in Kinds PROVE Counted(r)[k] \in [Codes(k) -> Nat]
      BY <2>1
    <3>1. votes[k] \in [Codes(k) -> Nat] BY <1>0 DEF FixcalTypeOK
    <3>2. \A c \in Codes(k) : votes[k][c] + (IF r[k] = c THEN 1 ELSE 0) \in Nat BY <3>1
    <3> QED BY <3>2 DEF Counted
  <2>3. code' \in [Kinds -> Nat] BY <2>1
  <2>4. round' \in 0 .. Rounds
    <3>1. round \in 0 .. Rounds /\ round' = round + 1 /\ round < Rounds
      BY <1>0, <1>2 DEF FixcalTypeOK, FixcalRound, Voted
    <3> QED BY <3>1
  <2>5. /\ fix' \in {"calibrate", "wide"} /\ index' = 0 /\ dig' = dig /\ fixed' = fixed
    BY <1>0, <1>2 DEF FixcalRound, FixcalTypeOK
  <2>6. 0 \in 0 .. (IF fix' \in DOMAIN Slots THEN Slots[fix'] - 1 ELSE 0)
    BY <2>5 DEF Slots
  <2> QED BY <1>0, <2>2, <2>3, <2>4, <2>5, <2>6 DEF FixcalTypeOK
<1>3. CASE FixcalTimeout BY <1>0, <1>3 DEF FixcalTimeout, FixcalTypeOK
<1>4. ASSUME NEW loop \in {"wide", "narrow"}, NEW next \in {"narrow", "force"},
             loop # next, FixcalScan(loop, next)
      PROVE  FixcalTypeOK'
  <2>1. \A k \in ScanOf[loop] : Led(k, index)
    BY <1>0, <1>4, ScanOnce DEF Voted, FixcalScan
  <2>2. /\ VotesOK' /\ code' \in [Kinds -> Nat]
        /\ \/ fix' = loop /\ index' = index + 1 /\ index' < Slots[loop]
           \/ fix' = next /\ index' = 0
    BY <1>0, <1>4, <2>1, ScanStep
  <2>3. index \in Nat
    BY <1>0 DEF FixcalTypeOK, Slots
  <2>4. index' \in 0 .. (IF fix' \in DOMAIN Slots THEN Slots[fix'] - 1 ELSE 0)
    BY <2>2, <2>3 DEF Slots
  <2>5. round' = round /\ dig' = dig /\ fixed' = fixed BY <1>4 DEF FixcalScan
  <2> QED BY <1>0, <2>2, <2>4, <2>5 DEF FixcalTypeOK
<1>5. CASE FixcalForce
  <2>1. dig' \in [Digs -> SUBSET (0 .. 31)]
    BY <1>0, <1>5, FieldsFit DEF FixcalForce, FixcalTypeOK
  <2> QED BY <1>0, <1>5, <2>1 DEF FixcalForce, FixcalTypeOK
<1> QED BY <1>1, <1>2, <1>3, <1>4, <1>5 DEF FixcalNext

LEMMA FixcalNextVoted ==
    ASSUME FixcalIInv, FixcalNext PROVE Voted'
<1> USE ScanOnce
<1>0. FixcalTypeOK /\ Voted BY DEF FixcalIInv
<1>1. CASE FixcalBegin BY <1>0, <1>1 DEF FixcalBegin, Voted
<1>2. CASE FixcalRound
  <2>1. /\ votes' = seen' /\ fix' \in {"calibrate", "wide"}
        /\ index = 0 /\ index' = 0
        /\ fix' = "calibrate" => round' < Rounds
    BY <1>0, <1>2 DEF FixcalRound, FixcalTypeOK
  <2>2. \A k \in Kinds : votes'[k] = seen'[k] BY <2>1
  <2>3. \A k \in Kinds : Led(k, index)' BY <2>1 DEF Led
  <2> QED BY <2>1, <2>2, <2>3 DEF Voted
<1>3. CASE FixcalTimeout BY <1>0, <1>3 DEF FixcalTimeout, Voted
<1>4. CASE FixcalScan("wide", "narrow")
  <2>1. \A k \in ScanOf["wide"] : Led(k, index)
    BY <1>0, <1>4 DEF Voted, FixcalScan
  <2>2. /\ fix' \in {"wide", "narrow"}
        /\ fix' = "narrow" => index' = 0
        /\ fix' = "wide" => \A k \in ScanOf["wide"] : Led(k, index)'
        /\ fix' = "narrow" => \A k \in ScanOf["wide"] : Honest(k)'
    BY <1>0, <1>4, <2>1, ScanStep
  <2>3. \A k \in ScanOf["narrow"] : votes'[k] = seen'[k]
    <3> SUFFICES ASSUME NEW k \in ScanOf["narrow"] PROVE votes'[k] = seen'[k]
      OBVIOUS
    <3>1. votes[k] = seen[k] BY <1>0, <1>4 DEF Voted, FixcalScan
    <3>2. k \in Kinds /\ k \notin ScanOf["wide"] OBVIOUS
    <3> QED BY <1>4, <3>1, <3>2, ScanOther
  <2>4. index' = 0 => \A k \in ScanOf["narrow"] : Led(k, index)'
    BY <2>3 DEF Led
  <2> QED BY <2>2, <2>3, <2>4 DEF Voted
<1>5. CASE FixcalScan("narrow", "force")
  <2>1. fix = "narrow" /\ \A k \in ScanOf["narrow"] : Led(k, index)
    BY <1>0, <1>5 DEF Voted, FixcalScan
  <2>2. /\ fix' \in {"narrow", "force"}
        /\ fix' = "narrow" => \A k \in ScanOf["narrow"] : Led(k, index)'
        /\ fix' = "force" => \A k \in ScanOf["narrow"] : Honest(k)'
    BY <1>0, <1>5, <2>1, ScanStep
  <2>3. \A k \in ScanOf["wide"] : Honest(k)'
    <3> SUFFICES ASSUME NEW k \in ScanOf["wide"] PROVE Honest(k)'
      OBVIOUS
    <3>1. Honest(k) BY <1>0, <2>1 DEF Voted
    <3>2. k \in Kinds /\ k \notin ScanOf["narrow"] OBVIOUS
    <3>3. code'[k] = code[k] /\ seen'[k] = seen[k] BY <1>5, <3>2, ScanOther
    <3> QED BY <3>1, <3>3 DEF Honest
  <2> QED BY <2>2, <2>3 DEF Voted
<1>6. CASE FixcalForce
  <2>1. fix = "force" /\ fix' = "returned" /\ code' = code /\ seen' = seen /\ fixed' = fixed
    BY <1>6 DEF FixcalForce
  <2>2. \A k \in Kinds : Honest(k)' BY <1>0, <2>1 DEF Voted, Honest
  <2>3. fixed' \in {0, 1} BY <1>0, <2>1 DEF FixcalTypeOK
  <2> QED BY <2>1, <2>2, <2>3 DEF Voted
<1> QED BY <1>1, <1>2, <1>3, <1>4, <1>5, <1>6 DEF FixcalNext

LEMMA FixcalNextEnded ==
    ASSUME FixcalIInv, FixcalNext PROVE Ended'
<1>0. Ended /\ round \in 0 .. Rounds /\ (fix = "calibrate" => round < Rounds)
  BY DEF FixcalIInv, FixcalTypeOK, Voted
<1>1. CASE FixcalBegin BY <1>0, <1>1 DEF FixcalBegin, Ended
<1>2. CASE FixcalRound
  <2>1. /\ fix = "calibrate" /\ round' = round + 1 /\ fixed' = fixed
        /\ fix' = IF round' < Rounds THEN "calibrate" ELSE "wide"
    BY <1>2 DEF FixcalRound
  <2> QED BY <1>0, <2>1, FixcalAssumption DEF Ended
<1>3. CASE FixcalTimeout BY <1>3 DEF FixcalTimeout, Ended
<1>4. CASE FixcalScan("wide", "narrow") BY <1>0, <1>4 DEF FixcalScan, Ended
<1>5. CASE FixcalScan("narrow", "force") BY <1>0, <1>5 DEF FixcalScan, Ended
<1>6. CASE FixcalForce BY <1>6 DEF FixcalForce, Ended
<1> QED BY <1>1, <1>2, <1>3, <1>4, <1>5, <1>6 DEF FixcalNext

(* The invariant holds as long as serdes_fixcal_code runs, whatever the    *)
(* hardware reports and whether or not it answers in time.                 *)
THEOREM FixcalInvariant == FixcalSpec => []FixcalIInv
<1>1. FixcalIInv /\ [FixcalNext]_fixvars => FixcalIInv'
  <2> SUFFICES ASSUME FixcalIInv, [FixcalNext]_fixvars PROVE FixcalIInv'
    OBVIOUS
  <2>1. CASE FixcalNext BY <2>1, FixcalNextType, FixcalNextVoted, FixcalNextEnded DEF FixcalIInv
  <2>2. CASE UNCHANGED fixvars
    BY <2>2 DEF fixvars, FixcalIInv, FixcalTypeOK, Voted, Led, Honest, Ended
  <2> QED BY <2>1, <2>2
<1> QED BY FixcalInitInv, <1>1, PTL DEF FixcalSpec

(* The code forced on each analog part is a valid one, and none was        *)
(* reported more often (lines 23733 to 23754), for any number of rounds.   *)
THEOREM VotesAreHonest == FixcalSpec => []VoteIsHonest
<1>1. FixcalIInv => VoteIsHonest
  BY DEF FixcalIInv, Voted, VoteIsHonest, Honest
<1> QED BY FixcalInvariant, <1>1, PTL

-----------------------------------------------------------------------------
(* The registers. *)

(* Bit n of the code voted for kind k. *)
On(k, n) == (code[k] \div 2^n) % 2 = 1

(* The bits of a slice are bits of the code. *)
LEMMA SliceBits ==
    ASSUME NEW k, NEW from, NEW width \in Nat, NEW at \in Nat, NEW b \in Nat
    PROVE  b \in Slice(k, from, width, at) <=>
               b - at \in 0 .. width - 1 /\ On(k, from + (b - at))
<1>1. ASSUME b \in Slice(k, from, width, at)
      PROVE  b - at \in 0 .. width - 1 /\ On(k, from + (b - at))
  <2>1. PICK w \in 0 .. width - 1 : b = at + w /\ On(k, from + w)
    BY <1>1 DEF Slice, On
  <2>2. b - at = w
    BY <2>1
  <2> QED BY <2>1, <2>2
<1>2. ASSUME b - at \in 0 .. width - 1, On(k, from + (b - at))
      PROVE  b \in Slice(k, from, width, at)
  <2>1. b = at + (b - at)
    OBVIOUS
  <2> QED BY <1>2, <2>1 DEF Slice, On
<1> QED BY <1>1, <1>2

(* Where each bit of each code is in the registers. *)
LEMMA FieldBits ==
    /\ 0 \in Fields[20] <=> On("pmos", 2)
    /\ 1 \in Fields[20] <=> On("pmos", 3)
    /\ 2 \in Fields[20] <=> On("pmos", 4)
    /\ 6 \in Fields[19] <=> On("pmos", 0)
    /\ 7 \in Fields[19] <=> On("pmos", 1)
    /\ 0 \in Fields[19] <=> On("nmos", 3)
    /\ 1 \in Fields[19] <=> On("nmos", 4)
    /\ 5 \in Fields[18] <=> On("nmos", 0)
    /\ 6 \in Fields[18] <=> On("nmos", 1)
    /\ 7 \in Fields[18] <=> On("nmos", 2)
    /\ 0 \in Fields[16] <=> On("rcal", 1)
    /\ 1 \in Fields[16] <=> On("rcal", 2)
    /\ 2 \in Fields[16] <=> On("rcal", 3)
    /\ 7 \in Fields[15] <=> On("rcal", 0)
    /\ 0 \in Fields[15] <=> On("ical", 1)
    /\ 1 \in Fields[15] <=> On("ical", 2)
    /\ 2 \in Fields[15] <=> On("ical", 3)
    /\ 7 \in Fields[14] <=> On("ical", 0)
<1>1. /\ Fields[20] = Slice("pmos", 2, 3, 0)
      /\ Fields[19] = Slice("pmos", 0, 2, 6) \cup Slice("nmos", 3, 2, 0)
      /\ Fields[18] = Slice("nmos", 0, 3, 5)
      /\ Fields[16] = Slice("rcal", 1, 3, 0)
      /\ Fields[15] = Slice("rcal", 0, 1, 7) \cup Slice("ical", 1, 3, 0)
      /\ Fields[14] = Slice("ical", 0, 1, 7)
  BY DEF Fields, Digs
<1>2. \A b \in 0 .. 7 : b \in Slice("pmos", 2, 3, 0) <=> b - 0 \in 0 .. 3 - 1 /\ On("pmos", 2 + (b - 0))
  BY SliceBits
<1>3. \A b \in 0 .. 7 : b \in Slice("pmos", 0, 2, 6) <=> b - 6 \in 0 .. 2 - 1 /\ On("pmos", 0 + (b - 6))
  BY SliceBits
<1>4. \A b \in 0 .. 7 : b \in Slice("nmos", 3, 2, 0) <=> b - 0 \in 0 .. 2 - 1 /\ On("nmos", 3 + (b - 0))
  BY SliceBits
<1>5. \A b \in 0 .. 7 : b \in Slice("nmos", 0, 3, 5) <=> b - 5 \in 0 .. 3 - 1 /\ On("nmos", 0 + (b - 5))
  BY SliceBits
<1>6. \A b \in 0 .. 7 : b \in Slice("rcal", 1, 3, 0) <=> b - 0 \in 0 .. 3 - 1 /\ On("rcal", 1 + (b - 0))
  BY SliceBits
<1>7. \A b \in 0 .. 7 : b \in Slice("rcal", 0, 1, 7) <=> b - 7 \in 0 .. 1 - 1 /\ On("rcal", 0 + (b - 7))
  BY SliceBits
<1>8. \A b \in 0 .. 7 : b \in Slice("ical", 1, 3, 0) <=> b - 0 \in 0 .. 3 - 1 /\ On("ical", 1 + (b - 0))
  BY SliceBits
<1>9. \A b \in 0 .. 7 : b \in Slice("ical", 0, 1, 7) <=> b - 7 \in 0 .. 1 - 1 /\ On("ical", 0 + (b - 7))
  BY SliceBits
<1>10. 0 \in Fields[20] <=> On("pmos", 2)  BY <1>1, <1>2
<1>11. 1 \in Fields[20] <=> On("pmos", 3)  BY <1>1, <1>2
<1>12. 2 \in Fields[20] <=> On("pmos", 4)  BY <1>1, <1>2
<1>13. 6 \in Fields[19] <=> On("pmos", 0)  BY <1>1, <1>3, <1>4
<1>14. 7 \in Fields[19] <=> On("pmos", 1)  BY <1>1, <1>3, <1>4
<1>15. 0 \in Fields[19] <=> On("nmos", 3)  BY <1>1, <1>3, <1>4
<1>16. 1 \in Fields[19] <=> On("nmos", 4)  BY <1>1, <1>3, <1>4
<1>17. 5 \in Fields[18] <=> On("nmos", 0)  BY <1>1, <1>5
<1>18. 6 \in Fields[18] <=> On("nmos", 1)  BY <1>1, <1>5
<1>19. 7 \in Fields[18] <=> On("nmos", 2)  BY <1>1, <1>5
<1>20. 0 \in Fields[16] <=> On("rcal", 1)  BY <1>1, <1>6
<1>21. 1 \in Fields[16] <=> On("rcal", 2)  BY <1>1, <1>6
<1>22. 2 \in Fields[16] <=> On("rcal", 3)  BY <1>1, <1>6
<1>23. 7 \in Fields[15] <=> On("rcal", 0)  BY <1>1, <1>7, <1>8
<1>24. 0 \in Fields[15] <=> On("ical", 1)  BY <1>1, <1>7, <1>8
<1>25. 1 \in Fields[15] <=> On("ical", 2)  BY <1>1, <1>7, <1>8
<1>26. 2 \in Fields[15] <=> On("ical", 3)  BY <1>1, <1>7, <1>8
<1>27. 7 \in Fields[14] <=> On("ical", 0)  BY <1>1, <1>9
<1> QED
  BY <1>10, <1>11, <1>12, <1>13, <1>14, <1>15, <1>16, <1>17, <1>18, <1>19, <1>20, <1>21,
     <1>22, <1>23, <1>24, <1>25, <1>26, <1>27

LEMMA FiveBits ==
    ASSUME NEW v \in Nat
    PROVE  /\ 16 * ((v \div 16) % 2) + 8 * ((v \div 8) % 2) + 4 * ((v \div 4) % 2)
               + 2 * ((v \div 2) % 2) + (v % 2) = v % 32
           /\ 8 * ((v \div 8) % 2) + 4 * ((v \div 4) % 2) + 2 * ((v \div 2) % 2) + (v % 2)
               = v % 16
  OBVIOUS

LEMMA OnIsBit ==
    ASSUME NEW k, code[k] \in Nat
    PROVE  /\ (IF On(k, 0) THEN 1 ELSE 0) = code[k] % 2
           /\ (IF On(k, 1) THEN 1 ELSE 0) = (code[k] \div 2) % 2
           /\ (IF On(k, 2) THEN 1 ELSE 0) = (code[k] \div 4) % 2
           /\ (IF On(k, 3) THEN 1 ELSE 0) = (code[k] \div 8) % 2
           /\ (IF On(k, 4) THEN 1 ELSE 0) = (code[k] \div 16) % 2
<1>1. 2^0 = 1 /\ 2^1 = 2 /\ 2^2 = 4 /\ 2^3 = 8 /\ 2^4 = 16
  OBVIOUS
<1>2. \A m \in Nat \ {0} : (code[k] \div m) % 2 \in {0, 1}
  OBVIOUS
<1>3. code[k] \div 1 = code[k]
  OBVIOUS
<1> QED BY <1>1, <1>2, <1>3 DEF On

(* What a register keeps, and what its mask clears covers what is stored. *)
LEMMA FieldsAreCleared ==
    ASSUME NEW d \in Digs
    PROVE  Overrides[d] \subseteq Cleared[d] /\ Fields[d] \subseteq Cleared[d]
<1> USE DEF Fields, Overrides, Cleared, Slice, Digs
<1>1. CASE d = 14 BY <1>1
<1>2. CASE d = 15 BY <1>2
<1>3. CASE d = 16 BY <1>3
<1>4. CASE d = 18 BY <1>4
<1>5. CASE d = 19 BY <1>5
<1>6. CASE d = 20 BY <1>6
<1> QED BY <1>1, <1>2, <1>3, <1>4, <1>5, <1>6

(* The bits of the codes are cleared and are no overrides. *)
LEMMA StoredBits ==
    ASSUME FixcalForce
    PROVE  /\ \A b \in {0, 1, 2} : b \in dig'[20] <=> b \in Fields[20]
           /\ \A b \in {0, 1, 6, 7} : b \in dig'[19] <=> b \in Fields[19]
           /\ \A b \in {5, 6, 7} : b \in dig'[18] <=> b \in Fields[18]
           /\ \A b \in {0, 1, 2} : b \in dig'[16] <=> b \in Fields[16]
           /\ \A b \in {0, 1, 2, 7} : b \in dig'[15] <=> b \in Fields[15]
           /\ 7 \in dig'[14] <=> 7 \in Fields[14]
<1>1. \A d \in Digs : dig'[d] = (dig[d] \ Cleared[d]) \cup Overrides[d] \cup Fields[d]
  BY DEF FixcalForce
<1>2. \A d \in Digs : \A b : b \in Cleared[d] /\ b \notin Overrides[d] =>
                               (b \in dig'[d] <=> b \in Fields[d])
  BY <1>1
<1>3. {14, 15, 16, 18, 19, 20} \subseteq Digs
  BY DEF Digs
<1>4. /\ Cleared[20] = 0 .. 3 /\ Overrides[20] = {3}
      /\ Cleared[19] = {0, 1, 2, 5, 6, 7} /\ Overrides[19] = {2, 5}
      /\ Cleared[18] = 4 .. 7 /\ Overrides[18] = {4}
      /\ Cleared[16] = 0 .. 2 /\ Overrides[16] = {}
      /\ Cleared[15] = {0, 1, 2, 3, 6, 7} /\ Overrides[15] = {3, 6}
      /\ Cleared[14] = {6, 7} /\ Overrides[14] = {6}
  BY DEF Cleared, Overrides, Digs
<1>5. \A b \in {0, 1, 2} : b \in dig'[20] <=> b \in Fields[20]
  BY <1>2, <1>3, <1>4
<1>6. \A b \in {0, 1, 6, 7} : b \in dig'[19] <=> b \in Fields[19]
  BY <1>2, <1>3, <1>4
<1>7. \A b \in {5, 6, 7} : b \in dig'[18] <=> b \in Fields[18]
  BY <1>2, <1>3, <1>4
<1>8. \A b \in {0, 1, 2} : b \in dig'[16] <=> b \in Fields[16]
  BY <1>2, <1>3, <1>4
<1>9. \A b \in {0, 1, 2, 7} : b \in dig'[15] <=> b \in Fields[15]
  BY <1>2, <1>3, <1>4
<1>10. 7 \in dig'[14] <=> 7 \in Fields[14]
  BY <1>2, <1>3, <1>4
<1> QED BY <1>5, <1>6, <1>7, <1>8, <1>9, <1>10

(* The codes read back as they were voted. *)
LEMMA ForcedReadsBack ==
    ASSUME FixcalForce, code \in [Kinds -> Nat], NEW k \in Kinds
    PROVE  ReadBack'[k] = code[k] % (IF k \in ScanOf["wide"] THEN 32 ELSE 16)
<1>1. code["pmos"] \in Nat /\ code["nmos"] \in Nat /\ code["rcal"] \in Nat /\ code["ical"] \in Nat
  BY DEF Kinds
<1>2. /\ B(20,2)' = (IF On("pmos", 4) THEN 1 ELSE 0)
      /\ B(20,1)' = (IF On("pmos", 3) THEN 1 ELSE 0)
      /\ B(20,0)' = (IF On("pmos", 2) THEN 1 ELSE 0)
      /\ B(19,7)' = (IF On("pmos", 1) THEN 1 ELSE 0)
      /\ B(19,6)' = (IF On("pmos", 0) THEN 1 ELSE 0)
  BY StoredBits, FieldBits, Zenon DEF B
<1>3. /\ B(19,1)' = (IF On("nmos", 4) THEN 1 ELSE 0)
      /\ B(19,0)' = (IF On("nmos", 3) THEN 1 ELSE 0)
      /\ B(18,7)' = (IF On("nmos", 2) THEN 1 ELSE 0)
      /\ B(18,6)' = (IF On("nmos", 1) THEN 1 ELSE 0)
      /\ B(18,5)' = (IF On("nmos", 0) THEN 1 ELSE 0)
  BY StoredBits, FieldBits, Zenon DEF B
<1>4. /\ B(16,2)' = (IF On("rcal", 3) THEN 1 ELSE 0)
      /\ B(16,1)' = (IF On("rcal", 2) THEN 1 ELSE 0)
      /\ B(16,0)' = (IF On("rcal", 1) THEN 1 ELSE 0)
      /\ B(15,7)' = (IF On("rcal", 0) THEN 1 ELSE 0)
  BY StoredBits, FieldBits, Zenon DEF B
<1>5. /\ B(15,2)' = (IF On("ical", 3) THEN 1 ELSE 0)
      /\ B(15,1)' = (IF On("ical", 2) THEN 1 ELSE 0)
      /\ B(15,0)' = (IF On("ical", 1) THEN 1 ELSE 0)
      /\ B(14,7)' = (IF On("ical", 0) THEN 1 ELSE 0)
  BY StoredBits, FieldBits, Zenon DEF B
<1>6. 16*B(20,2)' + 8*B(20,1)' + 4*B(20,0)' + 2*B(19,7)' + B(19,6)' = code["pmos"] % 32
  <2>1. /\ B(19,6)' = code["pmos"] % 2
        /\ B(19,7)' = (code["pmos"] \div 2) % 2
        /\ B(20,0)' = (code["pmos"] \div 4) % 2
        /\ B(20,1)' = (code["pmos"] \div 8) % 2
        /\ B(20,2)' = (code["pmos"] \div 16) % 2
    BY <1>1, <1>2, OnIsBit, Zenon
  <2>2. 16 * ((code["pmos"] \div 16) % 2) + 8 * ((code["pmos"] \div 8) % 2)
          + 4 * ((code["pmos"] \div 4) % 2) + 2 * ((code["pmos"] \div 2) % 2) + (code["pmos"] % 2)
        = code["pmos"] % 32
    BY <1>1, FiveBits
  <2> QED BY <2>1, <2>2, Zenon
<1>7. 16*B(19,1)' + 8*B(19,0)' + 4*B(18,7)' + 2*B(18,6)' + B(18,5)' = code["nmos"] % 32
  <2>1. /\ B(18,5)' = code["nmos"] % 2
        /\ B(18,6)' = (code["nmos"] \div 2) % 2
        /\ B(18,7)' = (code["nmos"] \div 4) % 2
        /\ B(19,0)' = (code["nmos"] \div 8) % 2
        /\ B(19,1)' = (code["nmos"] \div 16) % 2
    BY <1>1, <1>3, OnIsBit, Zenon
  <2>2. 16 * ((code["nmos"] \div 16) % 2) + 8 * ((code["nmos"] \div 8) % 2)
          + 4 * ((code["nmos"] \div 4) % 2) + 2 * ((code["nmos"] \div 2) % 2) + (code["nmos"] % 2)
        = code["nmos"] % 32
    BY <1>1, FiveBits
  <2> QED BY <2>1, <2>2, Zenon
<1>8. 8*B(16,2)' + 4*B(16,1)' + 2*B(16,0)' + B(15,7)' = code["rcal"] % 16
  <2>1. /\ B(15,7)' = code["rcal"] % 2
        /\ B(16,0)' = (code["rcal"] \div 2) % 2
        /\ B(16,1)' = (code["rcal"] \div 4) % 2
        /\ B(16,2)' = (code["rcal"] \div 8) % 2
    BY <1>1, <1>4, OnIsBit, Zenon
  <2>2. 8 * ((code["rcal"] \div 8) % 2) + 4 * ((code["rcal"] \div 4) % 2)
          + 2 * ((code["rcal"] \div 2) % 2) + (code["rcal"] % 2)
        = code["rcal"] % 16
    BY <1>1, FiveBits
  <2> QED BY <2>1, <2>2, Zenon
<1>9. 8*B(15,2)' + 4*B(15,1)' + 2*B(15,0)' + B(14,7)' = code["ical"] % 16
  <2>1. /\ B(14,7)' = code["ical"] % 2
        /\ B(15,0)' = (code["ical"] \div 2) % 2
        /\ B(15,1)' = (code["ical"] \div 4) % 2
        /\ B(15,2)' = (code["ical"] \div 8) % 2
    BY <1>1, <1>5, OnIsBit, Zenon
  <2>2. 8 * ((code["ical"] \div 8) % 2) + 4 * ((code["ical"] \div 4) % 2)
          + 2 * ((code["ical"] \div 2) % 2) + (code["ical"] % 2)
        = code["ical"] % 16
    BY <1>1, FiveBits
  <2> QED BY <2>1, <2>2, Zenon
<1>10. /\ ReadBack'["pmos"] = code["pmos"] % 32 /\ ReadBack'["nmos"] = code["nmos"] % 32
       /\ ReadBack'["rcal"] = code["rcal"] % 16 /\ ReadBack'["ical"] = code["ical"] % 16
  BY <1>6, <1>7, <1>8, <1>9 DEF ReadBack
<1> QED BY <1>10 DEF Kinds, ScanOf

(* A step that changes the registers forces what was voted, and that only. *)
LEMMA ForcedStep ==
    FixcalIInv /\ FixcalNext =>
        (dig' # dig =>
            /\ round = Rounds /\ fixed = 1
            /\ \A k \in Kinds :
                  ReadBack'[k] = code[k] % (IF k \in ScanOf["wide"] THEN 32 ELSE 16)
            /\ \A d \in Digs : /\ Overrides[d] \subseteq dig'[d]
                               /\ dig'[d] \ Cleared[d] = dig[d] \ Cleared[d])
<1> SUFFICES ASSUME FixcalIInv, FixcalNext, dig' # dig
             PROVE  /\ round = Rounds /\ fixed = 1
                    /\ \A k \in Kinds :
                          ReadBack'[k] = code[k] % (IF k \in ScanOf["wide"] THEN 32 ELSE 16)
                    /\ \A d \in Digs : /\ Overrides[d] \subseteq dig'[d]
                                       /\ dig'[d] \ Cleared[d] = dig[d] \ Cleared[d]
  OBVIOUS
<1>1. FixcalForce
  BY DEF FixcalNext, FixcalBegin, FixcalRound, FixcalTimeout, FixcalScan
<1>2. round = Rounds /\ fixed = 1
  BY <1>1 DEF FixcalForce, FixcalIInv, Ended
<1>3. \A k \in Kinds : ReadBack'[k] = code[k] % (IF k \in ScanOf["wide"] THEN 32 ELSE 16)
  BY <1>1, ForcedReadsBack DEF FixcalIInv, FixcalTypeOK
<1>4. ASSUME NEW d \in Digs
      PROVE  Overrides[d] \subseteq dig'[d] /\ dig'[d] \ Cleared[d] = dig[d] \ Cleared[d]
  <2>1. dig'[d] = (dig[d] \ Cleared[d]) \cup Overrides[d] \cup Fields[d]
    BY <1>1 DEF FixcalForce
  <2> QED BY <2>1, FieldsAreCleared
<1> QED BY <1>2, <1>3, <1>4

(* Registers change once, after every calibration ended in time, and then  *)
(* hold the voted codes bit by bit (lines 23752 to 23802), the overrides,  *)
(* and nothing else that was not there, for any number of rounds.          *)
THEOREM ForcesOnceAndWhole == FixcalSpec => ForcedOnceAndWhole
<1>1. FixcalIInv /\ [FixcalNext]_fixvars =>
        [dig' # dig =>
            /\ round = Rounds /\ fixed = 1
            /\ \A k \in Kinds :
                  ReadBack'[k] = code[k] % (IF k \in ScanOf["wide"] THEN 32 ELSE 16)
            /\ \A d \in Digs : /\ Overrides[d] \subseteq dig'[d]
                               /\ dig'[d] \ Cleared[d] = dig[d] \ Cleared[d]]_fixvars
  BY ForcedStep
<1> QED BY <1>1, FixcalInvariant, PTL DEF FixcalSpec, ForcedOnceAndWhole
=============================================================================
