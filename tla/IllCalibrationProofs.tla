------------------------ MODULE IllCalibrationProofs ------------------------
(***************************************************************************)
(* The search of serdes_illcalib finds a setting that passed, for any      *)
(* number of settings, any protocols on the lanes and any answers of the   *)
(* self tests; and the searches, which share registers, do not disturb     *)
(* each other's results.                                                   *)
(***************************************************************************)
EXTENDS IllCalibration, SequenceTheorems, TLAPS

-----------------------------------------------------------------------------
(* One search of one lane.                                                 *)

(* The settings b .. n - 1 passed, and b - 1 did not.                      *)
RunSince(r, b, n) ==
    /\ \A i \in b .. n - 1 : r[i]
    /\ b > 0 => ~r[b - 1]

(* count tells the length of that run, one too high after an early glitch. *)
CountOf(r, b, n) ==
    (IF b < n THEN n - b - 1 ELSE 0) + (IF b = 3 /\ r[0] /\ r[1] THEN 1 ELSE 0)

(* No wide eye lies before b, and none anywhere once every setting has     *)
(* been tried.                                                             *)
NoneMissed(r, b, n) ==
    \A i \in 0 .. n - 5 : (\A k \in i .. i + 4 : r[k]) => i >= b /\ n < Settings

NarrowSeen(r, n) == \E i \in 1 .. n - 3 : r[i] /\ r[i + 1] /\ ~r[i + 2]

(* The second choice is there when it is needed, and is a passed setting.  *)
AltOK(s, r, n) ==
    /\ NarrowSeen(r, n) => s.altcount > 0
    /\ IF s.altcount > 0 THEN /\ s.alt \in 0 .. n - 1
                              /\ r[s.alt] \/ (n >= 5 /\ EarlyGlitch(r))
       ELSE s.alt = 0

(* What a search knows when it has tried the settings before n.            *)
Eye(s, r, n) ==
    /\ s.prev <=> n > 0 /\ r[n - 1]
    /\ IF s.mean # 0
       THEN s.mean \in 0 .. n - 1 /\ r[s.mean]
       ELSE \E b \in 0 .. n : /\ RunSince(r, b, n)
                              /\ s.count = CountOf(r, b, n)
                              /\ NoneMissed(r, b, n)
                              /\ AltOK(s, r, n)

SearchType == [prev: BOOLEAN, count: Nat, mean: Nat, alt: Nat, altcount: Nat]

LEMMA Half ==
    ASSUME NEW n \in Nat
    PROVE  n \div 2 \in Nat /\ 2 * (n \div 2) <= n /\ n < 2 * (n \div 2) + 2
<1>1. n \div 2 \in Int /\ n = 2 * (n \div 2) + (n % 2) /\ n % 2 \in {0, 1}
  OBVIOUS
<1> QED BY <1>1

LEMMA FreshEye ==
    ASSUME NEW r \in [Indices -> BOOLEAN] PROVE Fresh \in SearchType /\ Eye(Fresh, r, 0)
<1>1. Fresh \in SearchType BY DEF Fresh, SearchType
<1>2. RunSince(r, 0, 0) /\ Fresh.count = CountOf(r, 0, 0) /\ NoneMissed(r, 0, 0)
  BY DEF Fresh, RunSince, CountOf, NoneMissed
<1>3. AltOK(Fresh, r, 0) BY DEF Fresh, AltOK, NarrowSeen
<1>4. Fresh.prev = FALSE /\ Fresh.mean = 0 BY DEF Fresh
<1>5. 0 \in 0 .. 0 OBVIOUS
<1>6. \E b \in 0 .. 0 : /\ RunSince(r, b, 0) /\ Fresh.count = CountOf(r, b, 0)
                        /\ NoneMissed(r, b, 0) /\ AltOK(Fresh, r, 0)
  BY <1>2, <1>3, <1>5
<1>7. Eye(Fresh, r, 0)
  <2>1. Fresh.prev <=> 0 > 0 /\ r[0 - 1] BY <1>4
  <2> QED BY <2>1, <1>4, <1>6 DEF Eye
<1> QED BY <1>1, <1>7

(* The middle of a run lies in the run.                                    *)
LEMMA MiddleInRun ==
    ASSUME NEW i \in Nat, NEW b \in Nat, NEW g \in {0, 1}, NEW n \in Nat,
           b <= i, n = i - b - 1 + g, n >= 1, g = 1 => b = 3
    PROVE  /\ n >= 4 => Middle(i, n) >= b /\ Middle(i, n) < i /\ Middle(i, n) > 0
           /\ g = 0 \/ n >= 2 => Middle(i, n) >= b /\ Middle(i, n) < i
<1>1. (n + 1) \div 2 \in Nat /\ 2 * ((n + 1) \div 2) <= n + 1
      /\ n + 1 < 2 * ((n + 1) \div 2) + 2
  BY Half
<1> QED BY <1>1 DEF Middle

(* The same where the run includes the last setting of all.                *)
LEMMA LastMiddleInRun ==
    ASSUME NEW i \in Nat, NEW b \in Nat, NEW g \in {0, 1}, NEW n \in Nat,
           b <= i, n = i - b + g, n >= 4, g = 1 => b = 3
    PROVE  Middle(i, n) >= b /\ Middle(i, n) < i /\ Middle(i, n) > 0
<1>1. (n + 1) \div 2 \in Nat /\ 2 * ((n + 1) \div 2) <= n + 1
      /\ n + 1 < 2 * ((n + 1) \div 2) + 2
  BY Half
<1> QED BY <1>1 DEF Middle

(* A setting tried later changes nothing of what is known of the others.   *)
LEMMA JudgeType ==
    ASSUME NEW s \in SearchType, NEW pass \in BOOLEAN, NEW i \in Indices,
           Judge(s, pass, i).mean \in Nat
    PROVE  Judge(s, pass, i) \in SearchType
<1> DEFINE t == Judge(s, pass, i)
           n == IF pass /\ s.prev THEN s.count + 1 ELSE s.count
<1>1. i \in Nat /\ n \in Nat BY DEF SearchType, Indices
<1>2. t.prev \in BOOLEAN /\ t.count \in Nat /\ t.altcount \in Nat
  BY <1>1 DEF SearchType, Judge
<1>3. t.alt \in Nat
  <2>1. CASE n < 4 /\ ~pass /\ i > 2 /\ s.altcount < n
    <3>1. t.alt = Middle(i, n) BY <2>1 DEF Judge
    <3>2. (n + 1) \div 2 \in Nat /\ 2 * ((n + 1) \div 2) <= n + 1
      BY <1>1, Half
    <3> QED BY <3>1, <3>2, <2>1, <1>1 DEF Middle
  <2>2. CASE ~(n < 4 /\ ~pass /\ i > 2 /\ s.altcount < n)
    BY <2>2 DEF SearchType, Judge
  <2> QED BY <2>1, <2>2
<1>4. t = [prev |-> t.prev, count |-> t.count, mean |-> t.mean,
           alt |-> t.alt, altcount |-> t.altcount]
  BY DEF Judge
<1> QED BY <1>2, <1>3, <1>4 DEF SearchType

(* A setting that passed.                                                  *)
LEMMA JudgePass ==
    ASSUME NEW s \in SearchType, NEW r \in [Indices -> BOOLEAN], NEW i \in Indices,
           Eye(s, r, i), s.mean = 0
    PROVE  LET t == Judge(s, TRUE, i) IN
           /\ t.mean \in Nat
           /\ Eye(t, [r EXCEPT ![i] = TRUE], i + 1)
<1> DEFINE t == Judge(s, TRUE, i)
           q == [r EXCEPT ![i] = TRUE]
           n == IF s.prev THEN s.count + 1 ELSE s.count
<1> SUFFICES t.mean \in Nat /\ Eye(t, q, i + 1) OBVIOUS
<1>1. /\ Settings \in Nat /\ Settings > 4 /\ Indices = 0 .. Settings - 1
      /\ i \in Nat /\ i < Settings
  BY IllAssumption DEF Indices
<1>2. q[i] = TRUE /\ \A j \in Indices : j # i => q[j] = r[j]
  OBVIOUS
<1> HIDE DEF t, q, n
<1>3. \A j \in 0 .. i - 1 : j \in Indices /\ q[j] = r[j]
  BY <1>1, <1>2
<1>4. PICK b \in 0 .. i : /\ RunSince(r, b, i) /\ s.count = CountOf(r, b, i)
                          /\ NoneMissed(r, b, i) /\ AltOK(s, r, i)
  BY DEF Eye
<1>5. PICK g \in {0, 1} : g = IF b = 3 /\ r[0] /\ r[1] THEN 1 ELSE 0
  OBVIOUS
<1>6. s.prev <=> b < i
  <2>1. s.prev <=> i > 0 /\ r[i - 1] BY DEF Eye
  <2>2. b < i => i - 1 \in b .. i - 1 BY <1>1
  <2>3. b < i => i > 0 /\ r[i - 1] BY <1>1, <1>4, <2>2 DEF RunSince
  <2>4. b = i => ~(i > 0 /\ r[i - 1]) BY <1>4 DEF RunSince
  <2>5. b < i \/ b = i BY <1>1
  <2> QED BY <2>1, <2>3, <2>4, <2>5
<1>7. n = i - b + g /\ n \in Nat
  <2>1. s.count = (IF b < i THEN i - b - 1 ELSE 0) + g BY <1>4, <1>5 DEF CountOf
  <2> QED BY <2>1, <1>1, <1>6 DEF n
<1>8. t.prev = TRUE /\ t.count = n /\ t.alt = s.alt /\ t.altcount = s.altcount
  BY DEF Judge, t, n
<1>9. t.prev <=> i + 1 > 0 /\ q[(i + 1) - 1]
  <2>1. (i + 1) - 1 = i /\ i + 1 > 0 BY <1>1
  <2> QED BY <2>1, <1>2, <1>8
<1>10. RunSince(q, b, i + 1)
  <2>1. \A j \in b .. (i + 1) - 1 : q[j]
    <3> SUFFICES ASSUME NEW j \in b .. i PROVE q[j]
      BY <1>1
    <3>1. CASE j = i BY <3>1, <1>2
    <3>2. CASE j # i
      <4>1. j \in b .. i - 1 /\ j \in 0 .. i - 1 BY <3>2, <1>1
      <4> QED BY <4>1, <1>3, <1>4 DEF RunSince
    <3> QED BY <3>1, <3>2
  <2>2. b > 0 => ~q[b - 1]
    <3>1. b > 0 => b - 1 \in 0 .. i - 1 BY <1>1
    <3> QED BY <3>1, <1>3, <1>4 DEF RunSince
  <2> QED BY <2>1, <2>2 DEF RunSince
<1>11. g = 1 => b = 3 BY <1>5
<1>12. CASE i = Settings - 1 /\ n >= 4 /\ s.prev
  <2>1. t.mean = Middle(i, n) BY <1>12 DEF Judge, t, n
  <2>2. Middle(i, n) >= b /\ Middle(i, n) < i /\ Middle(i, n) > 0
    BY <1>1, <1>7, <1>11, <1>12, LastMiddleInRun
  <2>3. t.mean \in b .. i - 1 /\ t.mean \in 0 .. i - 1 /\ t.mean \in Nat /\ t.mean # 0
    <3>1. Middle(i, n) \in Int BY <1>1, <1>7, Half DEF Middle
    <3> QED BY <3>1, <2>1, <2>2, <1>1
  <2>4. q[t.mean] BY <2>3, <1>3, <1>4 DEF RunSince
  <2>5. t.mean \in 0 .. (i + 1) - 1 BY <2>3, <1>1
  <2> QED BY <2>3, <2>4, <2>5, <1>9 DEF Eye
<1>13. CASE ~(i = Settings - 1 /\ n >= 4 /\ s.prev)
  <2>1. t.mean = 0 BY <1>13 DEF Judge, t, n
  <2>2. t.count = CountOf(q, b, i + 1)
    <3>1. b = 3 => (q[0] <=> r[0]) /\ (q[1] <=> r[1]) BY <1>1, <1>3
    <3>2. CountOf(q, b, i + 1) = i - b + g
      BY <3>1, <1>1, <1>5 DEF CountOf
    <3> QED BY <3>2, <1>7, <1>8
  <2>3. NoneMissed(q, b, i + 1)
    <3> SUFFICES ASSUME NEW j \in 0 .. (i + 1) - 5, \A k \in j .. j + 4 : q[k]
                 PROVE  j >= b /\ i + 1 < Settings
      BY DEF NoneMissed
    <3>1. j \in Nat /\ j + 4 <= i BY <1>1
    <3>2. j >= b
      <4> SUFFICES ASSUME j < b PROVE FALSE
        BY <3>1
      <4>1. CASE j + 4 = i
        <5>1. b - 1 \in j .. j + 4 /\ b - 1 \in 0 .. i - 1 BY <3>1, <4>1, <1>1
        <5>2. ~r[b - 1] BY <3>1, <1>4 DEF RunSince
        <5> QED BY <5>1, <5>2, <1>3
      <4>2. CASE j + 4 < i
        <5>1. j \in 0 .. i - 5 BY <3>1, <4>2, <1>1
        <5>2. \A k \in j .. j + 4 : k \in 0 .. i - 1 BY <3>1, <4>2, <1>1
        <5>3. \A k \in j .. j + 4 : r[k] BY <5>2, <1>3
        <5> QED BY <5>1, <5>3, <1>4, <3>1 DEF NoneMissed
      <4>3. j + 4 = i \/ j + 4 < i BY <3>1, <1>1
      <4> QED BY <4>1, <4>2, <4>3
    <3>3. n >= 4 /\ s.prev BY <3>1, <3>2, <1>1, <1>6, <1>7
    <3> QED BY <3>2, <3>3, <1>13, <1>1
  <2>4. AltOK(t, q, i + 1)
    <3>1. NarrowSeen(q, i + 1) => NarrowSeen(r, i)
      <4> SUFFICES ASSUME NEW j \in 1 .. (i + 1) - 3, q[j] /\ q[j + 1] /\ ~q[j + 2]
                   PROVE  NarrowSeen(r, i)
        BY DEF NarrowSeen
      <4>1. j + 2 # i BY <1>2
      <4>2. j \in 1 .. i - 3 BY <4>1, <1>1
      <4>3. j \in 0 .. i - 1 /\ j + 1 \in 0 .. i - 1 /\ j + 2 \in 0 .. i - 1
        BY <4>2, <1>1
      <4>4. r[j] /\ r[j + 1] /\ ~r[j + 2] BY <4>3, <1>3
      <4> QED BY <4>2, <4>4 DEF NarrowSeen
    <3>2. s.altcount > 0 => /\ s.alt \in 0 .. (i + 1) - 1
                            /\ q[s.alt] \/ (i + 1 >= 5 /\ EarlyGlitch(q))
      <4> SUFFICES ASSUME s.altcount > 0
                   PROVE  /\ s.alt \in 0 .. (i + 1) - 1
                          /\ q[s.alt] \/ (i + 1 >= 5 /\ EarlyGlitch(q))
        OBVIOUS
      <4>1. s.alt \in 0 .. i - 1 /\ (r[s.alt] \/ (i >= 5 /\ EarlyGlitch(r)))
        BY <1>4 DEF AltOK
      <4>2. i >= 5 => \A k \in 0 .. 4 : q[k] = r[k] BY <1>1, <1>3
      <4>3. i >= 5 /\ EarlyGlitch(r) => i + 1 >= 5 /\ EarlyGlitch(q)
        BY <4>2, <1>1 DEF EarlyGlitch
      <4> QED BY <4>1, <4>3, <1>1, <1>3
    <3> QED BY <3>1, <3>2, <1>4, <1>8 DEF AltOK
  <2>5. b \in 0 .. i + 1 BY <1>1
  <2> QED BY <2>1, <2>2, <2>3, <2>4, <2>5, <1>9, <1>10 DEF Eye
<1> QED BY <1>12, <1>13

(* A setting that failed.                                                  *)
LEMMA JudgeFail ==
    ASSUME NEW s \in SearchType, NEW r \in [Indices -> BOOLEAN], NEW i \in Indices,
           Eye(s, r, i), s.mean = 0
    PROVE  LET t == Judge(s, FALSE, i) IN
           /\ t.mean \in Nat
           /\ Eye(t, [r EXCEPT ![i] = FALSE], i + 1)
<1> DEFINE t == Judge(s, FALSE, i)
           q == [r EXCEPT ![i] = FALSE]
           n == s.count
<1> SUFFICES t.mean \in Nat /\ Eye(t, q, i + 1) OBVIOUS
<1>1. /\ Settings \in Nat /\ Settings > 4 /\ Indices = 0 .. Settings - 1
      /\ i \in Nat /\ i < Settings
  BY IllAssumption DEF Indices
<1>2. q[i] = FALSE /\ \A j \in Indices : j # i => q[j] = r[j]
  OBVIOUS
<1> HIDE DEF t, q, n
<1>3. \A j \in 0 .. i - 1 : j \in Indices /\ q[j] = r[j]
  BY <1>1, <1>2
<1>4. PICK b \in 0 .. i : /\ RunSince(r, b, i) /\ s.count = CountOf(r, b, i)
                          /\ NoneMissed(r, b, i) /\ AltOK(s, r, i)
  BY DEF Eye
<1>5. PICK g \in {0, 1} : g = IF b = 3 /\ r[0] /\ r[1] THEN 1 ELSE 0
  OBVIOUS
<1>6. s.prev <=> b < i
  <2>1. s.prev <=> i > 0 /\ r[i - 1] BY DEF Eye
  <2>2. b < i => i - 1 \in b .. i - 1 BY <1>1
  <2>3. b < i => i > 0 /\ r[i - 1] BY <1>1, <1>4, <2>2 DEF RunSince
  <2>4. b = i => ~(i > 0 /\ r[i - 1]) BY <1>4 DEF RunSince
  <2>5. b < i \/ b = i BY <1>1
  <2> QED BY <2>1, <2>3, <2>4, <2>5
<1>7. n = (IF b < i THEN i - b - 1 ELSE 0) + g /\ n \in Nat
  <2>1. n = (IF b < i THEN i - b - 1 ELSE 0) + g BY <1>4, <1>5 DEF CountOf, n
  <2> QED BY <2>1, <1>1
<1>8. t.prev = FALSE
  BY DEF Judge, t
<1>9. t.prev <=> i + 1 > 0 /\ q[(i + 1) - 1]
  <2>1. (i + 1) - 1 = i /\ i + 1 > 0 BY <1>1
  <2> QED BY <2>1, <1>2, <1>8
<1>11. g = 1 => b = 3 BY <1>5
<1>12. CASE n >= 4
  <2>1. b < i BY <1>7, <1>12, <1>1
  <2>2. t.mean = Middle(i, n) BY <1>6, <1>7, <1>12, <2>1 DEF Judge, t, n
  <2>3. Middle(i, n) >= b /\ Middle(i, n) < i /\ Middle(i, n) > 0
    <3>1. n = i - b - 1 + g /\ b <= i /\ n >= 1 BY <2>1, <1>7, <1>12, <1>1
    <3> QED BY <1>1, <1>7, <1>11, <1>12, <3>1, MiddleInRun
  <2>4. t.mean \in b .. i - 1 /\ t.mean \in 0 .. i - 1 /\ t.mean \in Nat /\ t.mean # 0
    <3>1. Middle(i, n) \in Int BY <1>1, <1>7, Half DEF Middle
    <3> QED BY <3>1, <2>2, <2>3, <1>1
  <2>5. q[t.mean] BY <2>4, <1>3, <1>4 DEF RunSince
  <2>6. t.mean \in 0 .. (i + 1) - 1 BY <2>4, <1>1
  <2> QED BY <2>4, <2>5, <2>6, <1>9 DEF Eye
<1>13. CASE n < 4
  <2>1. t.mean = 0 /\ t.count = (IF i > 2 THEN 0 ELSE n)
    BY <1>13, <1>7, <1>1 DEF Judge, t, n
  <2>2. RunSince(q, i + 1, i + 1)
    <3>1. (i + 1) - 1 = i /\ ~(\E j \in i + 1 .. i : TRUE) BY <1>1
    <3> QED BY <3>1, <1>2 DEF RunSince
  <2>3. t.count = CountOf(q, i + 1, i + 1)
    <3>1. CASE i > 2 BY <3>1, <2>1, <1>1 DEF CountOf
    <3>2. CASE i = 2
      <4>1. q[0] = r[0] /\ q[1] = r[1] BY <3>2, <1>3
      <4>2. CountOf(q, i + 1, i + 1) = IF r[0] /\ r[1] THEN 1 ELSE 0
        BY <4>1, <3>2 DEF CountOf
      <4>3. g = 0 /\ b \in {0, 1, 2} BY <3>2, <1>11
      <4>4. CASE b = 0
        <5>1. r[0] /\ r[1] BY <4>4, <3>2, <1>4 DEF RunSince
        <5> QED BY <5>1, <4>2, <4>3, <4>4, <3>2, <1>7, <2>1
      <4>5. CASE b = 1
        <5>1. ~r[0] BY <4>5, <1>4 DEF RunSince
        <5> QED BY <5>1, <4>2, <4>3, <4>5, <3>2, <1>7, <2>1
      <4>6. CASE b = 2
        <5>1. ~r[1] BY <4>6, <1>4 DEF RunSince
        <5> QED BY <5>1, <4>2, <4>3, <4>6, <3>2, <1>7, <2>1
      <4> QED BY <4>3, <4>4, <4>5, <4>6
    <3>3. CASE i < 2 BY <3>3, <2>1, <1>1, <1>7, <1>11 DEF CountOf
    <3> QED BY <3>1, <3>2, <3>3, <1>1
  <2>4. NoneMissed(q, i + 1, i + 1)
    <3> SUFFICES ASSUME NEW j \in 0 .. (i + 1) - 5, \A k \in j .. j + 4 : q[k]
                 PROVE  FALSE
      BY DEF NoneMissed
    <3>1. j \in Nat /\ j + 4 <= i BY <1>1
    <3>2. j + 4 # i
      <4>1. j + 4 \in j .. j + 4 BY <3>1
      <4> QED BY <4>1, <1>2
    <3>3. j \in 0 .. i - 5 BY <3>1, <3>2, <1>1
    <3>4. \A k \in j .. j + 4 : k \in 0 .. i - 1 BY <3>1, <3>2, <1>1
    <3>5. \A k \in j .. j + 4 : r[k] BY <3>4, <1>3
    <3>6. j >= b BY <3>3, <3>5, <1>4 DEF NoneMissed
    <3> QED BY <3>3, <3>6, <1>7, <1>13, <1>1
  <2> DEFINE best == i > 2 /\ s.altcount < n
  <2>5. /\ t.alt = IF best THEN Middle(i, n) ELSE s.alt
        /\ t.altcount = IF best THEN n ELSE s.altcount
    BY <1>13 DEF Judge, t, n
  <2>6. s.altcount \in Nat BY DEF SearchType
  <2>7. NarrowSeen(q, i + 1) => t.altcount > 0
    <3> SUFFICES ASSUME NEW j \in 1 .. (i + 1) - 3, q[j] /\ q[j + 1] /\ ~q[j + 2]
                 PROVE  t.altcount > 0
      BY DEF NarrowSeen
    <3>1. j \in 0 .. i - 1 /\ j + 1 \in 0 .. i - 1 /\ i > 2 BY <1>1
    <3>2. r[j] /\ r[j + 1] BY <3>1, <1>3
    <3>3. CASE j + 2 = i
      <4>1. b <= j
        <5> SUFFICES ASSUME b > j PROVE FALSE BY <1>1
        <5>1. b - 1 = j \/ b - 1 = j + 1 BY <3>3, <1>1
        <5>2. ~r[b - 1] BY <1>1, <1>4 DEF RunSince
        <5> QED BY <5>1, <5>2, <3>2
      <4>2. n >= 1 BY <4>1, <3>3, <1>7, <1>1
      <4> QED BY <4>2, <3>1, <2>5, <2>6, <1>7
    <3>4. CASE j + 2 < i
      <4>1. j \in 1 .. i - 3 /\ j + 2 \in 0 .. i - 1 BY <3>4, <1>1
      <4>2. ~r[j + 2] BY <4>1, <1>3
      <4>3. s.altcount > 0 BY <4>1, <4>2, <3>2, <1>4 DEF NarrowSeen, AltOK
      <4> QED BY <4>3, <2>5, <2>6, <1>7
    <3>5. j + 2 = i \/ j + 2 < i BY <1>1
    <3> QED BY <3>3, <3>4, <3>5
  <2>8. ASSUME best PROVE AltOK(t, q, i + 1)
    <3>1. n \in 1 .. 3 /\ i > 2 BY <2>8, <2>6, <1>7, <1>13
    <3>2. t.alt = Middle(i, n) /\ t.altcount = n BY <2>5, <2>8
    <3>3. t.alt \in 0 .. i - 1 /\ (q[t.alt] \/ (i + 1 >= 5 /\ EarlyGlitch(q)))
      <4>1. CASE b = i
        <5>1. n = 1 /\ g = 1 /\ i = 3 BY <4>1, <3>1, <1>7, <1>11
        <5>2. Middle(i, n) = 1 BY <5>1 DEF Middle
        <5>3. r[1] BY <5>1, <1>5
        <5>4. 1 \in 0 .. i - 1 /\ t.alt = 1 BY <5>1, <5>2, <3>2
        <5> QED BY <5>3, <5>4, <1>3
      <4>2. CASE b < i /\ (g = 0 \/ n >= 2)
        <5>1. n = i - b - 1 + g /\ b <= i /\ n >= 1 BY <4>2, <3>1, <1>7, <1>1
        <5>2. Middle(i, n) >= b /\ Middle(i, n) < i
          BY <5>1, <4>2, <1>1, <1>7, <1>11, MiddleInRun
        <5>3. Middle(i, n) \in Int BY <1>1, <1>7, Half DEF Middle
        <5>4. t.alt \in b .. i - 1 /\ t.alt \in 0 .. i - 1
          BY <5>2, <5>3, <3>2, <1>1
        <5> QED BY <5>4, <1>3, <1>4 DEF RunSince
      <4>3. CASE b < i /\ g = 1 /\ n = 1
        <5>1. b = 3 /\ i = 4 BY <4>3, <1>7, <1>11, <1>1
        <5>2. Middle(i, n) = 2 BY <5>1, <4>3 DEF Middle
        <5>3. r[0] /\ r[1] BY <4>3, <1>5
        <5>4. ~r[2]
          <6>1. b > 0 /\ b - 1 = 2 BY <5>1
          <6> QED BY <6>1, <1>4 DEF RunSince
        <5>5. r[3]
          <6>1. 3 \in b .. i - 1 BY <5>1
          <6> QED BY <6>1, <1>4 DEF RunSince
        <5>6. \A k \in {0, 1, 2, 3} : q[k] = r[k] BY <5>1, <1>3
        <5>7. EarlyGlitch(q) BY <5>1, <5>3, <5>4, <5>5, <5>6, <1>2 DEF EarlyGlitch
        <5>8. t.alt = 2 /\ t.alt \in 0 .. i - 1 /\ i + 1 >= 5 BY <5>1, <5>2, <3>2
        <5> QED BY <5>7, <5>8
      <4> QED BY <4>1, <4>2, <4>3, <3>1, <1>1
    <3>4. t.alt \in 0 .. (i + 1) - 1 BY <3>3, <1>1
    <3> QED BY <3>1, <3>2, <3>3, <3>4, <2>7 DEF AltOK
  <2>9. ASSUME ~best PROVE AltOK(t, q, i + 1)
    <3>1. t.alt = s.alt /\ t.altcount = s.altcount BY <2>5, <2>9
    <3>2. s.altcount > 0 => /\ s.alt \in 0 .. i - 1
                            /\ r[s.alt] \/ (i >= 5 /\ EarlyGlitch(r))
      BY <1>4 DEF AltOK
    <3>3. i >= 5 => \A k \in 0 .. 4 : q[k] = r[k] BY <1>1, <1>3
    <3>4. i >= 5 /\ EarlyGlitch(r) => i + 1 >= 5 /\ EarlyGlitch(q)
      BY <3>3, <1>1 DEF EarlyGlitch
    <3>5. s.altcount > 0 => /\ s.alt \in 0 .. (i + 1) - 1
                            /\ q[s.alt] \/ (i + 1 >= 5 /\ EarlyGlitch(q))
      BY <3>2, <3>4, <1>1, <1>3
    <3>6. ~(s.altcount > 0) => s.alt = 0 BY <1>4 DEF AltOK
    <3> QED BY <3>1, <3>5, <3>6, <2>7 DEF AltOK
  <2>10. AltOK(t, q, i + 1) BY <2>8, <2>9
  <2>11. i + 1 \in 0 .. i + 1 BY <1>1
  <2> QED BY <2>1, <2>2, <2>3, <2>4, <2>10, <2>11, <1>9 DEF Eye
<1>14. n >= 4 \/ n < 4 BY <1>7
<1> QED BY <1>12, <1>13, <1>14

LEMMA JudgeEye ==
    ASSUME NEW s \in SearchType, NEW r \in [Indices -> BOOLEAN], NEW i \in Indices,
           NEW pass \in BOOLEAN, Eye(s, r, i)
    PROVE  /\ Judge(s, pass, i) \in SearchType
           /\ Eye(Judge(s, pass, i), [r EXCEPT ![i] = pass], i + 1)
<1> DEFINE t == Judge(s, pass, i)
           q == [r EXCEPT ![i] = pass]
<1>1. CASE s.mean = 0
  <2>1. CASE pass = TRUE
    <3>1. t.mean \in Nat /\ Eye(t, q, i + 1) BY <1>1, <2>1, JudgePass
    <3> QED BY <3>1, JudgeType
  <2>2. CASE pass = FALSE
    <3>1. t.mean \in Nat /\ Eye(t, q, i + 1) BY <1>1, <2>2, JudgeFail
    <3> QED BY <3>1, JudgeType
  <2> QED BY <2>1, <2>2
<1>2. CASE s.mean # 0
  <2>1. i \in Nat /\ i < Settings /\ Indices = 0 .. Settings - 1 /\ Settings \in Nat
    BY IllAssumption DEF Indices
  <2>2. s.mean \in 0 .. i - 1 /\ r[s.mean] /\ s.mean \in Nat
    <3>1. s.mean \in Nat BY DEF SearchType
    <3>2. s.mean \in 0 .. i - 1 /\ r[s.mean] BY <1>2 DEF Eye
    <3> QED BY <3>1, <3>2
  <2>3. t.mean = s.mean /\ (t.prev <=> pass) BY <1>2 DEF Judge
  <2>4. (q[i] <=> pass) /\ (q[s.mean] <=> r[s.mean])
    <3>1. s.mean # i /\ s.mean \in Indices BY <2>1, <2>2
    <3> QED BY <3>1
  <2>5. (i + 1) - 1 = i /\ i + 1 > 0 /\ s.mean \in 0 .. (i + 1) - 1 BY <2>1, <2>2
  <2> HIDE DEF t, q
  <2>6. t.prev <=> i + 1 > 0 /\ q[(i + 1) - 1] BY <2>3, <2>4, <2>5
  <2>7. t.mean # 0 /\ t.mean \in 0 .. (i + 1) - 1 /\ q[t.mean]
    BY <1>2, <2>2, <2>3, <2>4, <2>5
  <2>8. Eye(t, q, i + 1) BY <2>6, <2>7 DEF Eye
  <2>9. t \in SearchType BY <2>2, <2>3, JudgeType DEF t
  <2> QED BY <2>8, <2>9 DEF t, q
<1> QED BY <1>1, <1>2

(* What ChosenPassed says of one lane.                                     *)
LEMMA EyeChoice ==
    ASSUME NEW s \in SearchType, NEW r \in [Indices -> BOOLEAN], Eye(s, r, Settings)
    PROVE  /\ Choice(s) \in Indices
           /\ WideEye(r) => r[Choice(s)]
           /\ NarrowEye(r) => r[Choice(s)] \/ EarlyGlitch(r)
<1>1. Settings \in Nat /\ Settings > 4 /\ Indices = 0 .. Settings - 1
  BY IllAssumption DEF Indices
<1>2. CASE s.mean # 0 BY <1>1, <1>2 DEF Eye, Choice
<1>3. CASE s.mean = 0
  <2>1. PICK b \in 0 .. Settings : NoneMissed(r, b, Settings) /\ AltOK(s, r, Settings)
    BY <1>3 DEF Eye
  <2>2. Choice(s) = s.alt BY <1>3 DEF Choice
  <2>3. Choice(s) \in Indices BY <2>1, <2>2, <1>1 DEF AltOK
  <2>4. ~WideEye(r)
    <3> SUFFICES ASSUME NEW i \in Indices, i + 4 < Settings, \A k \in i .. i + 4 : r[k]
                 PROVE  FALSE
      BY DEF WideEye
    <3>1. i \in 0 .. Settings - 5 BY <1>1
    <3>2. \A k \in i .. i + 4 : r[k] OBVIOUS
    <3>3. Settings < Settings BY <3>1, <3>2, <2>1 DEF NoneMissed
    <3> QED BY <3>3, <1>1
  <2>5. NarrowEye(r) => r[Choice(s)] \/ EarlyGlitch(r)
    <3> SUFFICES ASSUME NEW i \in Indices, i > 0, i + 2 < Settings,
                        r[i] /\ r[i + 1] /\ ~r[i + 2]
                 PROVE  r[Choice(s)] \/ EarlyGlitch(r)
      BY DEF NarrowEye
    <3>1. i \in 1 .. Settings - 3 BY <1>1
    <3>2. NarrowSeen(r, Settings) BY <3>1 DEF NarrowSeen
    <3>3. s.altcount > 0 BY <3>2, <2>1 DEF AltOK
    <3>4. r[s.alt] \/ EarlyGlitch(r) BY <3>3, <2>1 DEF AltOK
    <3> QED BY <3>4, <2>2
  <2> QED BY <2>3, <2>4, <2>5
<1> QED BY <1>2, <1>3

-----------------------------------------------------------------------------
(* The registers and the list of searches.                                 *)

RegType == [lo1: 0 .. 255, hi1: 0 .. 15, lo2: 0 .. 255, hi2: 0 .. 15]

LEMMA ValueBound ==
    ASSUME NEW i \in Indices
    PROVE  Value(1, i) \in 4 .. 511 /\ Value(2, i) \in 260 .. 767
<1>1. /\ Settings \in Nat /\ Settings > 4 /\ Indices = 0 .. Settings - 1
      /\ Stride \in Nat /\ 4 + Stride * (Settings - 1) < 512
  BY IllAssumption DEF Indices
<1>2. PICK d \in Nat : Settings - 1 = i + d
  <2>1. (Settings - 1) - i \in Nat /\ Settings - 1 = i + ((Settings - 1) - i) BY <1>1
  <2> QED BY <2>1
<1>3. i \in Nat BY <1>1
<1>4. Stride * (i + d) = Stride * i + Stride * d BY <1>1, <1>2, <1>3
<1>5. Stride * i \in Nat /\ Stride * d \in Nat BY <1>1, <1>2, <1>3
<1>6. 4 + (Stride * i + Stride * d) < 512 BY <1>1, <1>2, <1>4
<1>7. Stride * i <= 507 BY <1>5, <1>6
<1> QED BY <1>5, <1>7 DEF Value

(* A setting is stored whole, and only in its own field.                   *)
LEMMA StoreFacts ==
    ASSUME NEW r \in RegType, NEW slot \in {1, 2}, NEW i \in Indices
    PROVE  /\ Store(r, slot, i) \in RegType
           /\ Stored(Store(r, slot, i), slot) = Value(slot, i)
           /\ \A other \in {1, 2} : other # slot =>
                 Stored(Store(r, slot, i), other) = Stored(r, other)
<1>1. CASE slot = 1
  <2>1. PICK v \in 4 .. 511 : v = Value(1, i) BY ValueBound
  <2>0. PICK h \in 0 .. 15 : h = IF v >= 256 THEN 1 ELSE 0
    OBVIOUS
  <2>3. PICK m \in 0 .. 255 : m = v % 256 /\ v = m + 256 * h
    BY <2>1, <2>0
  <2>2. Store(r, 1, i) = [r EXCEPT !.lo1 = m, !.hi1 = h]
    BY <2>1, <2>0, <2>3 DEF Store
  <2> DEFINE t == Store(r, 1, i)
  <2>4. t \in RegType
    <3>1. [r EXCEPT !.lo1 = m] \in RegType BY DEF RegType
    <3>2. \A u \in RegType : [u EXCEPT !.hi1 = h] \in RegType BY DEF RegType
    <3>3. t = [[r EXCEPT !.lo1 = m] EXCEPT !.hi1 = h] BY <2>2
    <3> QED BY <3>1, <3>2, <3>3
  <2>5. t.lo1 = m /\ t.hi1 = h
    BY <2>2 DEF RegType
  <2>6. t.lo2 = r.lo2 /\ t.hi2 = r.hi2
    BY <2>2 DEF RegType
  <2> HIDE DEF t
  <2>7. Stored(t, 1) = Value(1, i) BY <2>1, <2>3, <2>5 DEF Stored
  <2>8. Stored(t, 2) = Stored(r, 2) BY <2>6 DEF Stored
  <2>9. \A other \in {1, 2} : other # 1 => Stored(t, other) = Stored(r, other)
    BY <2>8
  <2> QED BY <1>1, <2>4, <2>7, <2>9 DEF t
<1>2. CASE slot = 2
  <2>1. PICK v \in 260 .. 767 : v = Value(2, i) BY ValueBound
  <2>0. PICK h \in 0 .. 15 : h = IF v >= 512 THEN 2 ELSE 1
    OBVIOUS
  <2>3. PICK m \in 0 .. 255 : m = v % 256 /\ v = m + 256 * h
    BY <2>1, <2>0
  <2>2. Store(r, 2, i) = [r EXCEPT !.lo2 = m, !.hi2 = h]
    BY <2>1, <2>0, <2>3 DEF Store
  <2> DEFINE t == Store(r, 2, i)
  <2>4. t \in RegType
    <3>1. [r EXCEPT !.lo2 = m] \in RegType BY DEF RegType
    <3>2. \A u \in RegType : [u EXCEPT !.hi2 = h] \in RegType BY DEF RegType
    <3>3. t = [[r EXCEPT !.lo2 = m] EXCEPT !.hi2 = h] BY <2>2
    <3> QED BY <3>1, <3>2, <3>3
  <2>5. t.lo2 = m /\ t.hi2 = h
    BY <2>2 DEF RegType
  <2>6. t.lo1 = r.lo1 /\ t.hi1 = r.hi1
    BY <2>2 DEF RegType
  <2> HIDE DEF t
  <2>7. Stored(t, 2) = Value(2, i) BY <2>1, <2>3, <2>5 DEF Stored
  <2>8. Stored(t, 1) = Stored(r, 1) BY <2>6 DEF Stored
  <2>9. \A other \in {1, 2} : other # 2 => Stored(t, other) = Stored(r, other)
    BY <2>8
  <2> QED BY <1>2, <2>4, <2>7, <2>9 DEF t
<1> QED BY <1>1, <1>2

(* A search is of one SATA lane, in the first field, or of the PCIe lanes. *)
JobSet ==
    {j \in [lanes : SUBSET Lanes, slot : {1, 2}, sata : BOOLEAN] :
        IF j.sata THEN j.slot = 1 /\ \E l \in Active(2) : j.lanes = {l}
                  ELSE j.lanes = Active(1)}

LEMMA JobFacts ==
    /\ Len(Jobs) \in Nat
    /\ \A n \in 1 .. Len(Jobs) : Jobs[n] \in JobSet
<1>1. ASSUME NEW l \in Lanes PROVE SataJob(l) \in Seq(JobSet)
  <2>1. CASE Protocol[l] = 2
    <3>1. l \in Active(2) BY <2>1 DEF Active
    <3>2. [lanes |-> {l}, slot |-> 1, sata |-> TRUE] \in JobSet BY <3>1 DEF JobSet
    <3> QED BY <2>1, <3>2 DEF SataJob
  <2>2. CASE Protocol[l] # 2 BY <2>2 DEF SataJob
  <2> QED BY <2>1, <2>2
<1>2. SataJobs \in Seq(JobSet)
  <2>1. {0, 1, 2, 3} \subseteq Lanes BY DEF Lanes
  <2> HIDE DEF JobSet
  <2>2. SataJob(0) \in Seq(JobSet) /\ SataJob(1) \in Seq(JobSet)
        /\ SataJob(2) \in Seq(JobSet) /\ SataJob(3) \in Seq(JobSet)
    BY <1>1, <2>1
  <2> QED BY <2>2 DEF SataJobs
<1>3. PcieJobs \in Seq(JobSet)
  <2>1. PcieJob(1) \in JobSet BY DEF PcieJob, JobSet, Active
  <2>2. PcieJob(2) \in JobSet BY DEF PcieJob, JobSet, Active
  <2> QED BY <2>1, <2>2 DEF PcieJobs
<1>4. Jobs \in Seq(JobSet) BY <1>2, <1>3 DEF Jobs
<1> QED BY <1>4

-----------------------------------------------------------------------------
(* The invariant.                                                          *)

Busy == ill \in {"start", "search", "settled"}

Searching ==
    /\ Busy => job \in 1 .. Len(Jobs)
    /\ ill = "start" => Jobs[job].sata
    /\ ill \in {"idle", "next", "start"} =>
          /\ iter = 0
          /\ \A l \in Lanes : search[l] = Fresh
    /\ ill \in {"search", "settled"} =>
          \A l \in Jobs[job].lanes : Eye(search[l], result[l], iter)
    /\ ill = "settled" => iter = Settings

Kept(l, slot) == Stored(reg[l], slot) = found[l][slot]

(* Where a lane is searched its fields are elsewhere for a while.          *)
Lent(l) ==
    /\ Jobs[job].sata =>
          /\ saved.lo1 + 256 * saved.hi1 = found[l][1]
          /\ ill = "settled" => Stored(reg[l], 1) = found[l][2]
    /\ ~Jobs[job].sata =>
          \A slot \in {1, 2} : ill = "settled" \/ slot # Jobs[job].slot => Kept(l, slot)

Keeping ==
    ill # "returned" =>
        \A l \in Lanes : IF Busy /\ l \in Jobs[job].lanes
                         THEN Lent(l) ELSE \A slot \in {1, 2} : Kept(l, slot)

Clocked ==
    /\ ill # "search" => bist = {}
    /\ Active(2) \subseteq {3} =>
          IF Busy /\ Jobs[job].sata
          THEN saved.ref = RefSelTable[3] /\ refsel = [RefSelTable EXCEPT ![3] = PcieClock]
          ELSE refsel = RefSelTable

IllIInv == IllTypeOK /\ Searching /\ Keeping /\ Clocked

LEMMA TableTypes ==
    /\ LaneTable \in [Lanes -> RegType] /\ RefSelTable \in [Lanes -> 0 .. 31]
    /\ DOMAIN RefSelTable = Lanes
<1>1. \A l \in Lanes : l + 1 \in {1, 2, 3, 4} BY DEF Lanes
<1> QED BY <1>1 DEF LaneTable, RefSelTable, RegType

LEMMA StoredType ==
    ASSUME NEW r \in RegType, NEW slot \in {1, 2} PROVE Stored(r, slot) \in Nat
<1>1. r.lo1 \in Nat /\ r.hi1 \in Nat /\ r.lo2 \in Nat /\ r.hi2 \in Nat
  BY DEF RegType
<1> QED BY <1>1 DEF Stored

LEMMA IllInitInv == ASSUME IllInit PROVE IllIInv
<1>1. IllTypeOK
  <2>1. 1 \in 1 .. Len(Jobs) + 1 /\ 0 \in 0 .. Settings
    BY JobFacts, IllAssumption
  <2>2. search \in [Lanes -> SearchType]
    BY FreshEye DEF IllInit, IllReset, NoResult, SearchType, Fresh
  <2>3. result \in [Lanes -> [Indices -> BOOLEAN]]
    BY DEF IllInit, IllReset, NoResult
  <2>4. found \in [Lanes -> [{1, 2} -> Nat]]
    BY TableTypes, StoredType DEF IllInit
  <2>5. saved \in [ref : 0 .. 31, lo1 : 0 .. 255, hi1 : 0 .. 15]
    BY DEF IllInit, IllReset, Nothing
  <2>6. reg \in [Lanes -> RegType] /\ refsel \in [Lanes -> 0 .. 31] /\ bist \in SUBSET Lanes
    BY TableTypes DEF IllInit
  <2> QED BY <2>1, <2>2, <2>3, <2>4, <2>5, <2>6
          DEF IllInit, IllReset, IllTypeOK, SearchType, RegType
<1>2. Searching BY DEF IllInit, IllReset, Searching, Busy
<1>3. Keeping BY DEF IllInit, Keeping, Busy, Kept
<1>4. Clocked BY DEF IllInit, Clocked, Busy
<1> QED BY <1>1, <1>2, <1>3, <1>4 DEF IllIInv

(* The parts of the invariant a search in progress gives.                  *)
LEMMA BusyFacts ==
    ASSUME IllIInv, Busy
    PROVE  /\ Jobs[job] \in JobSet /\ Jobs[job].lanes \subseteq Lanes
           /\ Jobs[job].slot \in {1, 2} /\ Jobs[job].sata \in BOOLEAN
<1>1. job \in 1 .. Len(Jobs) BY DEF IllIInv, Searching
<1>2. Jobs[job] \in JobSet BY <1>1, JobFacts
<1>3. Jobs[job] \in [lanes : SUBSET Lanes, slot : {1, 2}, sata : BOOLEAN]
  BY <1>2 DEF JobSet
<1> QED BY <1>2, <1>3

LEMMA IllBeginInv == ASSUME IllIInv, IllBegin PROVE IllIInv'
<1> USE DEF IllIInv, IllBegin
<1>1. IllTypeOK' BY DEF IllTypeOK
<1>2. Searching' BY DEF Searching, Busy
<1>3. Keeping' BY DEF Keeping, Busy, Kept
<1>4. Clocked' BY DEF Clocked, Busy
<1> QED BY <1>1, <1>2, <1>3, <1>4

LEMMA IllBorrowInv == ASSUME IllIInv, IllBorrow PROVE IllIInv'
<1>0. /\ IllTypeOK /\ Searching /\ Keeping /\ Clocked
      /\ ill = "next" /\ job \in 1 .. Len(Jobs) /\ Jobs[job].sata
      /\ ill' = "start"
      /\ UNCHANGED <<job, iter, result, search, reg, bist, found>>
  <2>1. /\ IllTypeOK /\ Searching /\ Keeping /\ Clocked
        /\ ill = "next" /\ job <= Len(Jobs) /\ Jobs[job].sata
        /\ ill' = "start"
        /\ UNCHANGED <<job, iter, result, search, reg, bist, found>>
    BY DEF IllIInv, IllBorrow
  <2>2. job \in 1 .. Len(Jobs) + 1 BY <2>1 DEF IllTypeOK
  <2>3. job \in 1 .. Len(Jobs) BY <2>1, <2>2, JobFacts
  <2> QED BY <2>1, <2>3
<1>1. Jobs[job] \in JobSet BY <1>0, JobFacts
<1>2. PICK m \in Active(2) : Jobs[job].lanes = {m} BY <1>0, <1>1 DEF JobSet
<1>3. m \in Lanes BY DEF Active
<1>4. /\ saved' = [ref |-> refsel[m], lo1 |-> reg[m].lo1, hi1 |-> reg[m].hi1]
      /\ refsel' = [refsel EXCEPT ![m] = PcieClock]
  BY <1>2 DEF IllBorrow
<1>5. reg[m] \in RegType /\ refsel[m] \in 0 .. 31
  BY <1>0, <1>3 DEF IllTypeOK, RegType
<1>6. IllTypeOK'
  <2>1. saved' \in [ref : 0 .. 31, lo1 : 0 .. 255, hi1 : 0 .. 15]
    BY <1>4, <1>5 DEF RegType
  <2>2. refsel' \in [Lanes -> 0 .. 31]
    BY <1>0, <1>3, <1>4 DEF IllTypeOK, PcieClock
  <2> QED BY <1>0, <2>1, <2>2 DEF IllTypeOK
<1>7. Searching' BY <1>0 DEF Searching, Busy
<1>8. Keeping'
  <2>1. \A l \in Lanes : \A slot \in {1, 2} : Kept(l, slot)
    BY <1>0 DEF Keeping, Busy
  <2>2. \A l \in Lanes : \A slot \in {1, 2} : Kept(l, slot)'
    BY <1>0, <2>1 DEF Kept
  <2>3. Stored(reg[m], 1) = found[m][1] BY <1>3, <2>1 DEF Kept
  <2>4. saved'.lo1 + 256 * saved'.hi1 = found[m][1]
    BY <1>4, <2>3 DEF Stored
  <2>5. \A l \in Lanes : l \in Jobs[job].lanes => Lent(l)'
    BY <1>0, <1>2, <2>4 DEF Lent
  <2> QED BY <1>0, <2>2, <2>5 DEF Keeping
<1>9. Clocked'
  <2>1. bist' = {} BY <1>0 DEF Clocked
  <2>2. ASSUME Active(2) \subseteq {3}
        PROVE  saved'.ref = RefSelTable[3] /\ refsel' = [RefSelTable EXCEPT ![3] = PcieClock]
    <3>1. m = 3 BY <2>2
    <3>2. refsel = RefSelTable BY <1>0, <2>2 DEF Clocked, Busy
    <3> QED BY <3>1, <3>2, <1>4
  <2> QED BY <1>0, <2>1, <2>2 DEF Clocked, Busy
<1> QED BY <1>6, <1>7, <1>8, <1>9 DEF IllIInv

LEMMA IllStartInv == ASSUME IllIInv, IllStart PROVE IllIInv'
<1>0. /\ IllTypeOK /\ Searching /\ Keeping /\ Clocked
      /\ ill \in {"start", "next"} /\ job \in 1 .. Len(Jobs)
      /\ ill = "next" => ~Jobs[job].sata
      /\ ill' = "search" /\ bist' = Jobs[job].lanes
      /\ UNCHANGED <<job, iter, result, search, reg, refsel, saved, found>>
  <2>1. /\ IllTypeOK /\ Searching /\ Keeping /\ Clocked
        /\ ill' = "search" /\ bist' = Jobs[job].lanes
        /\ UNCHANGED <<job, iter, result, search, reg, refsel, saved, found>>
    BY DEF IllIInv, IllStart
  <2>2. CASE ill = "start" BY <2>1, <2>2 DEF Searching, Busy
  <2>3. CASE ill = "next" /\ job <= Len(Jobs) /\ ~Jobs[job].sata
    <3>0. job \in 1 .. Len(Jobs) + 1 BY <2>1 DEF IllTypeOK
    <3>1. job \in 1 .. Len(Jobs) BY <2>3, <3>0, JobFacts
    <3> QED BY <2>1, <2>3, <3>1
  <2> QED BY <2>2, <2>3 DEF IllStart
<1>1. Jobs[job] \in [lanes : SUBSET Lanes, slot : {1, 2}, sata : BOOLEAN]
  BY <1>0, JobFacts DEF JobSet
<1>2. IllTypeOK'
  <2>1. bist' \in SUBSET Lanes BY <1>0, <1>1
  <2> QED BY <1>0, <2>1 DEF IllTypeOK
<1>3. Searching'
  <2>1. ASSUME NEW l \in Jobs[job].lanes PROVE Eye(search'[l], result'[l], iter')
    <3>1. l \in Lanes BY <1>1
    <3>2. search[l] = Fresh /\ iter = 0 BY <1>0, <3>1 DEF Searching
    <3>3. result[l] \in [Indices -> BOOLEAN] BY <1>0, <3>1 DEF IllTypeOK
    <3>4. Eye(Fresh, result[l], 0) BY <3>3, FreshEye
    <3> QED BY <1>0, <3>2, <3>4
  <2> QED BY <1>0, <2>1 DEF Searching, Busy
<1>4. Keeping'
  <2>1. CASE ill = "next"
    <3>1. \A l \in Lanes : \A slot \in {1, 2} : Kept(l, slot)'
      BY <1>0, <2>1 DEF Keeping, Busy, Kept
    <3>2. \A l \in Lanes : Lent(l)' BY <1>0, <2>1, <3>1 DEF Lent
    <3> QED BY <1>0, <3>1, <3>2 DEF Keeping
  <2>2. CASE ill = "start"
    <3>1. Jobs[job].sata BY <1>0, <2>2 DEF Searching
    <3>2. ASSUME NEW l \in Lanes, l \in Jobs[job].lanes PROVE Lent(l)'
      <4>1. Lent(l) BY <1>0, <2>2, <3>2 DEF Keeping, Busy
      <4> QED BY <1>0, <3>1, <4>1 DEF Lent
    <3>3. ASSUME NEW l \in Lanes, l \notin Jobs[job].lanes, NEW slot \in {1, 2}
          PROVE  Kept(l, slot)'
      BY <1>0, <2>2, <3>3 DEF Keeping, Busy, Kept
    <3> QED BY <1>0, <3>2, <3>3 DEF Keeping, Busy
  <2> QED BY <1>0, <2>1, <2>2
<1>5. Clocked'
  <2>1. ill = "start" => Jobs[job].sata BY <1>0 DEF Searching
  <2> QED BY <1>0, <2>1 DEF Clocked, Busy
<1> QED BY <1>2, <1>3, <1>4, <1>5 DEF IllIInv

LEMMA IllTryInv == ASSUME IllIInv, IllTry PROVE IllIInv'
<1> DEFINE lanes == Jobs[job].lanes
           slot == Jobs[job].slot
<1>0. /\ IllTypeOK /\ Searching /\ Keeping /\ Clocked
      /\ ill = "search" /\ iter < Settings /\ iter' = iter + 1
      /\ UNCHANGED <<ill, job, refsel, saved, bist, found>>
      /\ reg' = [l \in Lanes |-> IF l \in lanes THEN Store(reg[l], slot, iter)
                                               ELSE reg[l]]
  BY DEF IllIInv, IllTry
<1>1. PICK pass \in [lanes -> BOOLEAN] :
          /\ result' = [l \in Lanes |-> IF l \in lanes
                           THEN [result[l] EXCEPT ![iter] = pass[l]] ELSE result[l]]
          /\ search' = [l \in Lanes |-> IF l \in lanes
                           THEN Judge(search[l], pass[l], iter) ELSE search[l]]
  BY DEF IllTry
<1>2. lanes \subseteq Lanes /\ slot \in {1, 2} /\ Jobs[job].sata \in BOOLEAN
  BY <1>0, BusyFacts DEF Busy
<1>3. Settings \in Nat /\ iter \in 0 .. Settings /\ iter \in Indices
  BY <1>0, IllAssumption DEF IllTypeOK, Indices
<1>4. \A l \in Lanes : /\ search[l] \in SearchType /\ result[l] \in [Indices -> BOOLEAN]
                       /\ reg[l] \in RegType
  BY <1>0 DEF IllTypeOK, SearchType, RegType
<1>5. ASSUME NEW l \in lanes
      PROVE  search'[l] \in SearchType /\ Eye(search'[l], result'[l], iter')
  <2>1. Eye(search[l], result[l], iter) BY <1>0 DEF Searching
  <2>2. l \in Lanes /\ pass[l] \in BOOLEAN BY <1>2
  <2>3. /\ search'[l] = Judge(search[l], pass[l], iter)
        /\ result'[l] = [result[l] EXCEPT ![iter] = pass[l]]
    BY <1>1, <2>2
  <2> QED BY <1>0, <1>3, <1>4, <2>1, <2>2, <2>3, JudgeEye
<1>6. IllTypeOK'
  <2>1. search' \in [Lanes -> SearchType]
    <3>1. \A l \in Lanes : search'[l] \in SearchType BY <1>1, <1>4, <1>5
    <3>2. search' = [l \in Lanes |-> search'[l]] BY <1>1
    <3> QED BY <3>1, <3>2
  <2>2. result' \in [Lanes -> [Indices -> BOOLEAN]]
    BY <1>1, <1>3, <1>4
  <2>3. reg' \in [Lanes -> RegType]
    BY <1>0, <1>2, <1>3, <1>4, StoreFacts
  <2>4. iter' \in 0 .. Settings BY <1>0, <1>3
  <2> QED BY <1>0, <2>1, <2>2, <2>3, <2>4 DEF IllTypeOK, SearchType, RegType
<1>7. Searching' BY <1>0, <1>5 DEF Searching, Busy
<1>8. Keeping'
  <2>1. ASSUME NEW l \in Lanes, l \notin lanes, NEW k \in {1, 2} PROVE Kept(l, k)'
    BY <1>0, <2>1 DEF Keeping, Busy, Kept
  <2>2. ASSUME NEW l \in Lanes, l \in lanes PROVE Lent(l)'
    <3>1. Lent(l) BY <1>0, <2>2 DEF Keeping, Busy
    <3>2. Jobs[job].sata => saved'.lo1 + 256 * saved'.hi1 = found'[l][1]
      BY <1>0, <3>1 DEF Lent
    <3>3. ASSUME ~Jobs[job].sata, NEW k \in {1, 2}, k # slot PROVE Kept(l, k)'
      <4>1. Kept(l, k) BY <1>0, <3>1, <3>3 DEF Lent
      <4>2. Stored(reg'[l], k) = Stored(reg[l], k)
        BY <1>0, <1>2, <1>3, <1>4, <2>2, <3>3, StoreFacts
      <4> QED BY <1>0, <4>1, <4>2 DEF Kept
    <3> QED BY <1>0, <3>2, <3>3 DEF Lent
  <2> QED BY <1>0, <2>1, <2>2 DEF Keeping, Busy
<1>9. Clocked' BY <1>0 DEF Clocked, Busy
<1> QED BY <1>6, <1>7, <1>8, <1>9 DEF IllIInv

LEMMA IllSettleInv == ASSUME IllIInv, IllSettle PROVE IllIInv'
<1> DEFINE lanes == Jobs[job].lanes
           slot == Jobs[job].slot
           keeps == IF Jobs[job].sata THEN 2 ELSE slot
<1>0. /\ IllTypeOK /\ Searching /\ Keeping /\ Clocked
      /\ ill = "search" /\ iter = Settings /\ ill' = "settled" /\ bist' = {}
      /\ UNCHANGED <<job, iter, result, search, refsel, saved>>
      /\ reg' = [l \in Lanes |-> IF l \in lanes THEN Store(reg[l], slot, Choice(search[l]))
                                               ELSE reg[l]]
      /\ found' = [l \in Lanes |-> IF l \in lanes
                      THEN [found[l] EXCEPT ![keeps] = Value(slot, Choice(search[l]))]
                      ELSE found[l]]
  BY DEF IllIInv, IllSettle
<1>1. /\ lanes \subseteq Lanes /\ slot \in {1, 2} /\ Jobs[job].sata \in BOOLEAN
      /\ Jobs[job] \in JobSet
  BY <1>0, BusyFacts DEF Busy
<1>2. Jobs[job].sata => slot = 1 BY <1>1 DEF JobSet
<1>3. keeps \in {1, 2} BY <1>1
<1>4. \A l \in Lanes : /\ search[l] \in SearchType /\ result[l] \in [Indices -> BOOLEAN]
                       /\ reg[l] \in RegType /\ found[l] \in [{1, 2} -> Nat]
  BY <1>0 DEF IllTypeOK, SearchType, RegType
<1>5. \A l \in lanes : Choice(search[l]) \in Indices
  BY <1>0, <1>1, <1>4, EyeChoice DEF Searching
<1>6. ASSUME NEW l \in lanes
      PROVE  /\ reg'[l] \in RegType
             /\ Stored(reg'[l], slot) = found'[l][keeps]
             /\ \A k \in {1, 2} : k # slot => Stored(reg'[l], k) = Stored(reg[l], k)
             /\ \A k \in {1, 2} : k # keeps => found'[l][k] = found[l][k]
             /\ found'[l] \in [{1, 2} -> Nat]
  <2>1. PICK c \in Indices : c = Choice(search[l]) BY <1>5
  <2>2. reg'[l] = Store(reg[l], slot, c) BY <1>0, <1>1, <2>1
  <2>3. found'[l] = [found[l] EXCEPT ![keeps] = Value(slot, c)] BY <1>0, <1>1, <2>1
  <2>4. reg[l] \in RegType /\ found[l] \in [{1, 2} -> Nat] BY <1>1, <1>4
  <2>5. Value(slot, c) \in Nat BY <1>1, ValueBound
  <2>6. /\ reg'[l] \in RegType /\ Stored(reg'[l], slot) = Value(slot, c)
        /\ \A k \in {1, 2} : k # slot => Stored(reg'[l], k) = Stored(reg[l], k)
    BY <1>1, <2>2, <2>4, StoreFacts
  <2> HIDE DEF keeps, slot
  <2>7. /\ found'[l] \in [{1, 2} -> Nat] /\ found'[l][keeps] = Value(slot, c)
        /\ \A k \in {1, 2} : k # keeps => found'[l][k] = found[l][k]
    BY <1>3, <2>3, <2>4, <2>5
  <2> QED BY <2>6, <2>7
<1>7. ASSUME NEW l \in Lanes, l \notin lanes
      PROVE  reg'[l] = reg[l] /\ found'[l] = found[l]
  BY <1>0, <1>7
<1>8. IllTypeOK'
  <2>1. \A l \in Lanes : reg'[l] \in RegType /\ found'[l] \in [{1, 2} -> Nat]
    BY <1>4, <1>6, <1>7
  <2>2. reg' \in [Lanes -> RegType] /\ found' \in [Lanes -> [{1, 2} -> Nat]]
    <3>1. reg' = [l \in Lanes |-> reg'[l]] /\ found' = [l \in Lanes |-> found'[l]]
      BY <1>0
    <3> QED BY <2>1, <3>1
  <2> QED BY <1>0, <2>2 DEF IllTypeOK, RegType
<1>9. Searching' BY <1>0 DEF Searching, Busy
<1>10. Keeping'
  <2>1. ASSUME NEW l \in Lanes, l \notin lanes, NEW k \in {1, 2} PROVE Kept(l, k)'
    <3>1. Kept(l, k) BY <1>0, <2>1 DEF Keeping, Busy
    <3> QED BY <3>1, <2>1, <1>7 DEF Kept
  <2>2. ASSUME NEW l \in Lanes, l \in lanes PROVE Lent(l)'
    <3>1. Lent(l) BY <1>0, <2>2 DEF Keeping, Busy
    <3>2. CASE Jobs[job].sata
      <4>1. keeps = 2 /\ slot = 1 BY <3>2, <1>2
      <4>2. found'[l][1] = found[l][1] /\ Stored(reg'[l], 1) = found'[l][2]
        BY <4>1, <1>6, <2>2
      <4> QED BY <3>1, <3>2, <4>2, <1>0 DEF Lent
    <3>3. CASE ~Jobs[job].sata
      <4>1. PICK p \in {1, 2} : p = slot /\ p = keeps BY <1>1, <3>3
      <4>0. /\ Stored(reg'[l], p) = found'[l][p]
            /\ \A k \in {1, 2} : k # p => Stored(reg'[l], k) = Stored(reg[l], k)
            /\ \A k \in {1, 2} : k # p => found'[l][k] = found[l][k]
        BY <4>1, <1>6, <2>2
      <4>2. Kept(l, p)' BY <4>0 DEF Kept
      <4>3. ASSUME NEW k \in {1, 2}, k # p PROVE Kept(l, k)'
        <5>1. Kept(l, k) BY <3>1, <3>3, <4>1, <4>3 DEF Lent
        <5> QED BY <5>1, <4>0, <4>3 DEF Kept
      <4>4. \A k \in {1, 2} : Kept(l, k)' BY <4>2, <4>3
      <4> QED BY <3>3, <4>4, <1>0 DEF Lent
    <3> QED BY <3>2, <3>3
  <2> QED BY <1>0, <2>1, <2>2 DEF Keeping, Busy
<1>11. Clocked' BY <1>0 DEF Clocked, Busy
<1> QED BY <1>8, <1>9, <1>10, <1>11 DEF IllIInv

(* Between two searches, with the fields and clocks in order.              *)
LEMMA NextSearch ==
    ASSUME IllIInv, ill = "settled", ill' = "next", job' = job + 1,
           iter' = 0, saved' = Nothing, bist' = bist, found' = found,
           result' = [l \in Lanes |-> NoResult], search' = [l \in Lanes |-> Fresh],
           reg' \in [Lanes -> RegType], refsel' \in [Lanes -> 0 .. 31],
           \A l \in Lanes : \A k \in {1, 2} : Kept(l, k)',
           Active(2) \subseteq {3} => refsel' = RefSelTable
    PROVE  IllIInv'
<1>0. IllTypeOK /\ Searching /\ Clocked BY DEF IllIInv
<1>1. IllTypeOK'
  <2>1. job' \in 1 .. Len(Jobs) + 1
    <3>1. job \in 1 .. Len(Jobs) BY <1>0 DEF Searching, Busy
    <3> QED BY <3>1, JobFacts
  <2>2. iter' \in 0 .. Settings BY IllAssumption
  <2>3. result' \in [Lanes -> [Indices -> BOOLEAN]] BY DEF NoResult
  <2>4. search' \in [Lanes -> SearchType]
    <3>1. Fresh \in SearchType BY DEF Fresh, SearchType
    <3> QED BY <3>1
  <2>5. saved' \in [ref : 0 .. 31, lo1 : 0 .. 255, hi1 : 0 .. 15] BY DEF Nothing
  <2> QED BY <1>0, <2>1, <2>2, <2>3, <2>4, <2>5 DEF IllTypeOK, SearchType, RegType
<1>2. Searching' BY DEF Searching, Busy
<1>3. Keeping' BY DEF Keeping, Busy
<1>4. Clocked' BY <1>0 DEF Clocked, Busy
<1> QED BY <1>1, <1>2, <1>3, <1>4 DEF IllIInv

LEMMA IllReturnInv == ASSUME IllIInv, IllReturn PROVE IllIInv'
<1> DEFINE lanes == Jobs[job].lanes
<1>0. /\ IllTypeOK /\ Searching /\ Keeping /\ Clocked
      /\ ill = "settled" /\ ill' = "next" /\ job' = job + 1
      /\ iter' = 0 /\ saved' = Nothing
      /\ result' = [l \in Lanes |-> NoResult] /\ search' = [l \in Lanes |-> Fresh]
      /\ bist' = bist /\ found' = found
  BY DEF IllIInv, IllReturn
<1>1. /\ lanes \subseteq Lanes /\ Jobs[job].sata \in BOOLEAN /\ Jobs[job] \in JobSet
  BY <1>0, BusyFacts DEF Busy
<1>2. reg \in [Lanes -> RegType] /\ refsel \in [Lanes -> 0 .. 31]
      /\ saved.ref \in 0 .. 31 /\ saved.lo1 \in 0 .. 255 /\ saved.hi1 \in 0 .. 15
  BY <1>0 DEF IllTypeOK, RegType
<1>3. CASE Jobs[job].sata
  <2>1. PICK m \in Active(2) : lanes = {m} BY <1>1, <1>3 DEF JobSet
  <2>2. m \in Lanes BY DEF Active
  <2> DEFINE new == [lo1 |-> saved.lo1, hi1 |-> saved.hi1,
                     lo2 |-> reg[m].lo1, hi2 |-> reg[m].hi1]
  <2>3. /\ refsel' = [refsel EXCEPT ![3] = saved.ref]
        /\ reg' = [reg EXCEPT ![m] = new]
    BY <1>3, <2>1 DEF IllReturn
  <2>4. new \in RegType
    <3>1. reg[m] \in RegType BY <1>2, <2>2
    <3>2. reg[m].lo1 \in 0 .. 255 /\ reg[m].hi1 \in 0 .. 15 BY <3>1 DEF RegType
    <3> QED BY <3>2, <1>2 DEF RegType
  <2>5. reg' \in [Lanes -> RegType] /\ refsel' \in [Lanes -> 0 .. 31]
    BY <1>2, <2>2, <2>3, <2>4 DEF Lanes
  <2>6. Stored(new, 1) = saved.lo1 + 256 * saved.hi1
        /\ Stored(new, 2) = Stored(reg[m], 1)
    BY DEF Stored
  <2> HIDE DEF new
  <2>7. ASSUME NEW l \in Lanes, NEW k \in {1, 2} PROVE Kept(l, k)'
    <3>1. CASE l = m
      <4>1. Lent(m) BY <1>0, <2>1, <2>2 DEF Keeping, Busy
      <4>2. saved.lo1 + 256 * saved.hi1 = found[m][1] /\ Stored(reg[m], 1) = found[m][2]
        BY <4>1, <1>0, <1>3 DEF Lent
      <4>3. reg'[l] = new BY <3>1, <2>2, <2>3, <1>2
      <4> QED BY <4>2, <4>3, <3>1, <2>6, <1>0 DEF Kept
    <3>2. CASE l # m
      <4>1. Kept(l, k) BY <1>0, <3>2, <2>1 DEF Keeping, Busy
      <4>2. reg'[l] = reg[l] BY <3>2, <2>3, <1>2
      <4> QED BY <4>1, <4>2, <1>0 DEF Kept
    <3> QED BY <3>1, <3>2
  <2>8. Active(2) \subseteq {3} => refsel' = RefSelTable
    <3> SUFFICES ASSUME Active(2) \subseteq {3} PROVE refsel' = RefSelTable
      OBVIOUS
    <3>1. saved.ref = RefSelTable[3] /\ refsel = [RefSelTable EXCEPT ![3] = PcieClock]
      BY <1>0, <1>3 DEF Clocked, Busy
    <3>2. refsel' = [[RefSelTable EXCEPT ![3] = PcieClock] EXCEPT ![3] = RefSelTable[3]]
      BY <2>3, <3>1
    <3> QED BY <3>2, TableTypes
  <2> QED BY <1>0, <2>5, <2>7, <2>8, NextSearch
<1>4. CASE ~Jobs[job].sata
  <2>1. reg' = reg /\ refsel' = refsel BY <1>4 DEF IllReturn
  <2>2. ASSUME NEW l \in Lanes, NEW k \in {1, 2} PROVE Kept(l, k)'
    <3>1. Kept(l, k)
      <4>1. CASE l \in lanes
        <5>1. Lent(l) BY <1>0, <4>1 DEF Keeping, Busy
        <5> QED BY <5>1, <1>0, <1>4 DEF Lent
      <4>2. CASE l \notin lanes BY <1>0, <4>2 DEF Keeping, Busy
      <4> QED BY <4>1, <4>2
    <3> QED BY <3>1, <2>1, <1>0 DEF Kept
  <2>3. Active(2) \subseteq {3} => refsel' = RefSelTable
    BY <1>0, <1>4, <2>1 DEF Clocked, Busy
  <2> QED BY <1>0, <1>2, <2>1, <2>2, <2>3, NextSearch
<1> QED BY <1>1, <1>3, <1>4

LEMMA IllFinishInv == ASSUME IllIInv, IllFinish PROVE IllIInv'
<1>0. /\ IllTypeOK /\ Searching /\ Keeping /\ Clocked
      /\ ill = "next" /\ ill' = "returned"
      /\ UNCHANGED <<job, iter, result, search, refsel, saved, bist, found>>
      /\ reg' = [l \in Lanes |-> IF l \in Active(3)
                    THEN [reg[l] EXCEPT !.lo1 = 55, !.hi1 = 2, !.hi2 = 0] ELSE reg[l]]
  BY DEF IllIInv, IllFinish
<1>1. reg \in [Lanes -> RegType] BY <1>0 DEF IllTypeOK, RegType
<1>2. ASSUME NEW r \in RegType
      PROVE  [r EXCEPT !.lo1 = 55, !.hi1 = 2, !.hi2 = 0] \in RegType
  <2>1. [r EXCEPT !.lo1 = 55] \in RegType BY DEF RegType
  <2>2. \A u \in RegType : [u EXCEPT !.hi1 = 2] \in RegType BY DEF RegType
  <2>3. \A u \in RegType : [u EXCEPT !.hi2 = 0] \in RegType BY DEF RegType
  <2> QED BY <2>1, <2>2, <2>3
<1>3. reg' \in [Lanes -> RegType] BY <1>0, <1>1, <1>2
<1>4. IllTypeOK' BY <1>0, <1>3 DEF IllTypeOK, RegType
<1>5. Searching' BY <1>0 DEF Searching, Busy
<1>6. Keeping' BY <1>0 DEF Keeping
<1>7. Clocked' BY <1>0 DEF Clocked, Busy
<1> QED BY <1>4, <1>5, <1>6, <1>7 DEF IllIInv

(* The invariant holds as long as serdes_illcalib runs.                    *)
THEOREM IllInvariant == IllSpec => []IllIInv
<1>1. IllIInv /\ [IllNext]_illvars => IllIInv'
  <2> SUFFICES ASSUME IllIInv, [IllNext]_illvars PROVE IllIInv'
    OBVIOUS
  <2>1. CASE IllNext
    BY <2>1, IllBeginInv, IllBorrowInv, IllStartInv, IllTryInv, IllSettleInv,
       IllReturnInv, IllFinishInv DEF IllNext
  <2>2. CASE UNCHANGED illvars
    BY <2>2 DEF illvars, IllIInv, IllTypeOK, Searching, Keeping, Clocked, Busy,
                Kept, Lent
  <2> QED BY <2>1, <2>2
<1> QED BY IllInitInv, <1>1, PTL DEF IllSpec

LEMMA IllInvImplies ==
    ASSUME IllIInv PROVE ChosenPassed /\ FieldsAreKept /\ LanesGivenBack
<1>0. IllTypeOK /\ Searching /\ Keeping /\ Clocked BY DEF IllIInv
<1>1. ChosenPassed
  <2> SUFFICES ASSUME ill = "settled", NEW l \in Jobs[job].lanes
               PROVE  /\ Choice(search[l]) \in Indices
                      /\ WideEye(result[l]) => result[l][Choice(search[l])]
                      /\ NarrowEye(result[l]) =>
                            result[l][Choice(search[l])] \/ EarlyGlitch(result[l])
    BY DEF ChosenPassed
  <2>1. l \in Lanes BY BusyFacts DEF Busy
  <2>2. search[l] \in SearchType /\ result[l] \in [Indices -> BOOLEAN]
    BY <1>0, <2>1 DEF IllTypeOK, SearchType
  <2>3. Eye(search[l], result[l], Settings) BY <1>0 DEF Searching
  <2> QED BY <2>2, <2>3, EyeChoice
<1>2. FieldsAreKept BY <1>0 DEF Keeping, Busy, Kept, FieldsAreKept
<1>3. LanesGivenBack BY <1>0 DEF Clocked, Busy, LanesGivenBack
<1> QED BY <1>1, <1>2, <1>3

(* Where the tests show an eye, the search settles for a setting that      *)
(* passed (lines 23177 to 23204), except possibly after an early glitch,   *)
(* the defect of line 23181; for any number of settings and any protocols. *)
THEOREM ChoicesPassed == IllSpec => []ChosenPassed
BY IllInvariant, IllInvImplies, PTL

(* The searches leave each other's fields alone, for any protocols.        *)
THEOREM FieldsStayKept == IllSpec => []FieldsAreKept
BY IllInvariant, IllInvImplies, PTL

(* No lane is left in its self test or clocked as PCIe, for any protocols  *)
(* that use SATA on lane 3 only.                                           *)
THEOREM LanesComeBack == IllSpec => []LanesGivenBack
BY IllInvariant, IllInvImplies, PTL
=============================================================================
