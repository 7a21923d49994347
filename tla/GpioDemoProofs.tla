--------------------------- MODULE GpioDemoProofs ---------------------------
(***************************************************************************)
(* Proofs about gpio-demo.c, for any number of instances on a chip of any  *)
(* width, also wider than an int, with any signals and patterns: types,    *)
(* the pins given back, and the bits of a value on their pins.             *)
(***************************************************************************)
EXTENDS GpioDemo, FiniteSetTheorems, FunctionTheorems, SequenceTheorems, TLAPS

Known == {Signals[i] : i \in DOMAIN Signals}
Begun == {"start", "open", "export", "catch", "direction"}
Places == Gone \cup Begun \cup {"set", "get", "reopen", "close"}

Ints == [Bits -> {0, 1}]

(* How many entries the frame of an instance may count. *)
Entries(o) == IF o \in DOMAIN Patterns THEN Len(Patterns[o]) ELSE 1

TypesInv ==
    /\ pc \in [Procs -> Places] /\ opt \in [Procs -> Options]
    /\ nchannel \in [Procs -> {-1, 0, Width}] /\ chan \in [Procs -> -2 .. Width]
    /\ frame \in [Procs -> Nat]
    /\ value \in [Procs -> Ints] /\ word \in [Procs -> Nat]
    /\ caught \in [Procs -> SUBSET Known] /\ handling \in [Procs -> SUBSET Known]
    /\ exported \subseteq Channels
    /\ direction \in [Channels -> {"in", "out"}] /\ level \in [Channels -> {0, 1}]
    /\ last \in [Channels -> Nat] /\ seen \in [Procs -> Seq({0, 1})]

(* What an instance knows by where it is: which loop counts from where,    *)
(* and which options lead there.                                           *)
Place(p) ==
    /\ handling[p] \subseteq caught[p]
    /\ frame[p] \in 1 .. Entries(opt[p])
    /\ pc[p] = "start" => frame[p] = 1
    /\ pc[p] \in {"export", "direction", "set", "close"} => chan[p] >= 0
    /\ pc[p] \in {"export", "catch", "direction", "set", "get"} => nchannel[p] \in {-1, Width}
    /\ pc[p] = "direction" => opt[p] # "NONE"
    /\ pc[p] = "set" => opt[p] \notin {"NONE", "IN"}
    /\ pc[p] = "get" => opt[p] = "IN"

(* Somebody will still come past pin c, or ended in a way that leaves it.  *)
Owes(p, c) ==
    \/ pc[p] \in {"export", "catch", "direction", "set", "get", "reopen", "failed", "killed"}
    \/ pc[p] = "close" /\ chan[p] <= c

OwedInv == \A c \in exported : \E p \in Procs : Owes(p, c)

(* An int that is word w shifted out by c places, and one that holds the   *)
(* bits of s, as far as it goes.                                           *)
ShiftedOut(x, w, c) == \A j \in Bits : x[j] = IntBit(w, c + j)
Holds(x, s)         == \A j \in Bits : j < Len(s) => x[j] = s[j + 1]

(* What an instance has moved: while it sets pins, value is what remains   *)
(* of word above the pins below chan; while it reads them, value is what   *)
(* was read above chan.                                                    *)
Moved(p) ==
    /\ pc[p] \in Begun => seen[p] = << >> /\ (opt[p] = "OUT" => value[p] = ToInt(word[p]))
    /\ pc[p] = "set" => seen[p] = << >> /\ ShiftedOut(value[p], word[p], chan[p])
    /\ pc[p] = "get" =>
          /\ \/ nchannel[p] = -1 /\ chan[p] < 0 /\ seen[p] = << >>
             \/ nchannel[p] = Width /\ Len(seen[p]) = Width - 1 - chan[p]
          /\ Holds(value[p], seen[p])
    /\ pc[p] = "reopen" /\ Len(seen[p]) = Width => Holds(value[p], seen[p])
    /\ pc[p] \in Gone \cup {"close"} => seen[p] = << >>

PlaceInv == \A p \in Procs : Place(p)
MovedInv == \A p \in Procs : Moved(p)

(* Every pin is at its bit of the number of whoever drove it last.         *)
DrivenInv == \A c \in Channels : level[c] = IntBit(last[c], c)

GpioInv == TypesInv /\ PlaceInv /\ OwedInv /\ MovedInv /\ DrivenInv

-----------------------------------------------------------------------------
(* Bits and ints. *)

(* 2^n is the number of subsets of 1 .. n, of which there is at least one. *)
LEMMA PowersOfTwo ==
    ASSUME NEW n \in Nat
    PROVE  2^n \in Nat \ {0}
<1> DEFINE S == 1 .. n
<1>1. IsFiniteSet(S) /\ Cardinality(S) = n
  BY FS_Interval
<1> HIDE DEF S
<1>2. IsFiniteSet(SUBSET S) /\ Cardinality(SUBSET S) = 2^n
  BY <1>1, FS_SUBSET, Zenon
<1>3. 2^n \in Nat
  BY <1>2, FS_CardinalityType, Zenon
<1>4. 2^n # 0
  <2>1. {} \in SUBSET S
    OBVIOUS
  <2> QED BY <1>2, <2>1, FS_EmptySet, Zenon
<1> QED BY <1>3, <1>4

LEMMA BitTypes ==
    ASSUME NEW v \in Nat, NEW c \in Nat
    PROVE  Bit(v, c) \in {0, 1} /\ Bit(0, c) = 0
<1>1. \A P \in Nat \ {0} : (v \div P) % 2 \in {0, 1} /\ (0 \div P) % 2 = 0
  OBVIOUS
<1> QED BY <1>1, PowersOfTwo DEF Bit

LEMMA IntTypes ==
    /\ Zero \in Ints /\ MinusOne \in Ints
    /\ \A v \in Nat : ToInt(v) \in Ints /\ ShiftedOut(ToInt(v), v, 0)
    /\ \A x \in Ints : ShiftOut(x) \in Ints /\ x[0] \in {0, 1}
    /\ \A x \in Ints, b \in {0, 1} : ShiftIn(x, b) \in Ints
    /\ \A c \in Channels : IntBit(0, c) = 0
<1> USE GpioAssumption DEF Ints, Bits
<1>1. Zero \in Ints /\ MinusOne \in Ints
  BY DEF Zero, MinusOne
<1>2. ASSUME NEW v \in Nat
      PROVE  ToInt(v) \in Ints /\ ShiftedOut(ToInt(v), v, 0)
  <2>1. \A j \in Bits : j \in Nat /\ Bit(v, j) \in {0, 1}
    BY BitTypes
  <2> QED BY <2>1 DEF ToInt, ShiftedOut, IntBit
<1>3. ASSUME NEW x \in Ints
      PROVE  ShiftOut(x) \in Ints /\ x[0] \in {0, 1}
  BY DEF ShiftOut
<1>4. ASSUME NEW x \in Ints, NEW b \in {0, 1}
      PROVE  ShiftIn(x, b) \in Ints
  BY DEF ShiftIn
<1>5. ASSUME NEW c \in Channels
      PROVE  IntBit(0, c) = 0
  <2>1. c \in Nat /\ IntBits - 1 \in Nat
    BY DEF Channels
  <2> QED BY <2>1, BitTypes DEF IntBit
<1> QED BY <1>1, <1>2, <1>3, <1>4, <1>5

(* One place further, with the sign above the int. *)
LEMMA ShiftOutOnce ==
    ASSUME NEW x \in Ints, NEW w \in Nat, NEW c \in Nat, ShiftedOut(x, w, c)
    PROVE  x[0] = IntBit(w, c) /\ ShiftedOut(ShiftOut(x), w, c + 1)
<1> USE GpioAssumption DEF Bits
<1>1. x[0] = IntBit(w, c)
  <2>1. 0 \in Bits /\ c + 0 = c
    OBVIOUS
  <2>2. x[0] = IntBit(w, c + 0)
    BY <2>1, Zenon DEF ShiftedOut
  <2> QED BY <2>1, <2>2
<1>2. ASSUME NEW j \in Bits
      PROVE  ShiftOut(x)[j] = IntBit(w, (c + 1) + j)
  <2>1. CASE j + 1 \in Bits
    <3>1. ShiftOut(x)[j] = x[j + 1] /\ c + (j + 1) = (c + 1) + j
      BY <2>1 DEF ShiftOut
    <3> QED BY <2>1, <3>1 DEF ShiftedOut
  <2>2. CASE j + 1 \notin Bits
    <3>1. ShiftOut(x)[j] = x[j] /\ x[j] = IntBit(w, c + j)
      BY <2>2 DEF ShiftOut, ShiftedOut
    <3>2. j = IntBits - 1 /\ c \in Nat
      BY <2>2
    <3>3. IntBit(w, c + j) = Bit(w, IntBits - 1) /\ IntBit(w, (c + 1) + j) = Bit(w, IntBits - 1)
      BY <3>2 DEF IntBit
    <3> QED BY <3>1, <3>3
  <2> QED BY <2>1, <2>2
<1> QED BY <1>1, <1>2 DEF ShiftedOut

(* A bit from the next pin down. *)
LEMMA ShiftInOnce ==
    ASSUME NEW x \in Ints, NEW s \in Seq({0, 1}), NEW b \in {0, 1}, Holds(x, s)
    PROVE  /\ <<b>> \o s \in Seq({0, 1}) /\ Len(<<b>> \o s) = Len(s) + 1
           /\ Holds(ShiftIn(x, b), <<b>> \o s)
<1> USE GpioAssumption DEF Bits
<1>1. <<b>> \in Seq({0, 1}) /\ Len(<<b>>) = 1 /\ <<b>>[1] = b
  OBVIOUS
<1>2. Len(s) \in Nat
  BY LenProperties
<1>3. /\ <<b>> \o s \in Seq({0, 1}) /\ Len(<<b>> \o s) = Len(s) + 1 /\ (<<b>> \o s)[1] = b
      /\ \A i \in 1 .. Len(s) : (<<b>> \o s)[i + 1] = s[i]
  BY <1>1, <1>2, ConcatProperties
<1>4. ASSUME NEW j \in Bits, j < Len(s) + 1
      PROVE  ShiftIn(x, b)[j] = (<<b>> \o s)[j + 1]
  <2>1. CASE j = 0
    BY <1>3, <2>1 DEF ShiftIn
  <2>2. CASE j # 0
    <3>1. j - 1 \in Bits /\ j - 1 < Len(s) /\ (j - 1) + 1 = j /\ j \in 1 .. Len(s)
      BY <1>2, <1>4, <2>2
    <3>2. x[j - 1] = s[j]
      BY <3>1 DEF Holds
    <3>3. ShiftIn(x, b)[j] = x[j - 1]
      BY <2>2 DEF ShiftIn
    <3> QED BY <1>3, <3>1, <3>2, <3>3
  <2> QED BY <2>1, <2>2
<1> QED BY <1>3, <1>4 DEF Holds

-----------------------------------------------------------------------------
(* Types. *)

LEMMA Constants ==
    /\ Width \in Nat \ {0} /\ Values \subseteq Nat
    /\ {"NONE", "IN", "OUT"} \subseteq Options /\ DOMAIN Patterns \subseteq Options
    /\ \A o \in Options : o \notin {"NONE", "IN", "OUT"} => o \in DOMAIN Patterns
    /\ \A o \in Options : Entries(o) \in Nat \ {0}
    /\ \A o \in DOMAIN Patterns : \A i \in 1 .. Len(Patterns[o]) : Patterns[o][i] \in Nat
    /\ \A o \in DOMAIN Patterns : Len(Patterns[o]) \in Nat \ {0}
    /\ \A i \in DOMAIN Signals : Signals[i] \in Known
<1>1. \A o \in DOMAIN Patterns : Len(Patterns[o]) \in Nat \ {0}
  BY GpioAssumption, EmptySeq
<1>2. \A o \in DOMAIN Patterns : \A i \in 1 .. Len(Patterns[o]) : Patterns[o][i] \in Nat
  BY GpioAssumption, ElementOfSeq
<1> QED BY <1>1, <1>2, GpioAssumption DEF Options, Entries, Known

(* What a step of an instance does to the others: nothing. *)
LEMMA OnlyItself ==
    ASSUME TypesInv, NEW p \in Procs, Run(p) \/ Signal(p), NEW q \in Procs \ {p}
    PROVE  /\ pc'[q] = pc[q] /\ opt'[q] = opt[q] /\ nchannel'[q] = nchannel[q]
           /\ chan'[q] = chan[q] /\ frame'[q] = frame[q] /\ value'[q] = value[q]
           /\ caught'[q] = caught[q] /\ handling'[q] = handling[q]
           /\ word'[q] = word[q] /\ seen'[q] = seen[q]
<1> USE DEF TypesInv, Goto, At, procvars, kernel, pins
<1>1. CASE Start(p)
  BY <1>1 DEF Start
<1>2. CASE Open(p)
  BY <1>2 DEF Open
<1>3. CASE Export(p)
  BY <1>3 DEF Export
<1>4. CASE Catch(p)
  BY <1>4 DEF Catch
<1>5. CASE Direction(p)
  BY <1>5 DEF Direction
<1>6. CASE SetBit(p)
  BY <1>6 DEF SetBit
<1>7. CASE SetEnd(p)
  BY <1>7 DEF SetEnd
<1>8. CASE GetBit(p)
  BY <1>8 DEF GetBit
<1>9. CASE GetEnd(p)
  BY <1>9 DEF GetEnd
<1>10. CASE Reopen(p)
  BY <1>10 DEF Reopen, Forget
<1>11. CASE Close(p)
  BY <1>11 DEF Close
<1>12. CASE Signal(p)
  BY <1>12 DEF Signal, Forget
<1> QED
  BY <1>1, <1>2, <1>3, <1>4, <1>5, <1>6, <1>7, <1>8, <1>9, <1>10, <1>11, <1>12 DEF Run

LEMMA TypesInit == Init => TypesInv
  BY Constants, IntTypes, EmptySeq DEF Init, TypesInv, Places, Gone, Begun

LEMMA Assign ==
    ASSUME NEW S, NEW f \in [Procs -> S], NEW p \in Procs, NEW e \in S
    PROVE  [f EXCEPT ![p] = e] \in [Procs -> S]
  OBVIOUS

LEMMA TypesStep ==
    ASSUME TypesInv, PlaceInv, NEW p \in Procs, Run(p) \/ Signal(p)
    PROVE  TypesInv'
<1> USE DEF Goto, At, procvars, kernel, pins
<1>a. Place(p)
  BY DEF PlaceInv
<1>b. Width \in Nat \ {0} /\ Values \subseteq Nat /\ {"NONE", "IN", "OUT"} \subseteq Options
  BY Constants
<1>c. /\ \A s \in Places : [pc EXCEPT ![p] = s] \in [Procs -> Places]
      /\ \A o \in Options : [opt EXCEPT ![p] = o] \in [Procs -> Options]
      /\ \A x \in Ints : [value EXCEPT ![p] = x] \in [Procs -> Ints]
      /\ \A v \in Nat : [word EXCEPT ![p] = v] \in [Procs -> Nat]
      /\ \A n \in Nat : [frame EXCEPT ![p] = n] \in [Procs -> Nat]
      /\ \A n \in {-1, 0, Width} : [nchannel EXCEPT ![p] = n] \in [Procs -> {-1, 0, Width}]
      /\ \A c \in -2 .. Width : [chan EXCEPT ![p] = c] \in [Procs -> -2 .. Width]
      /\ \A H \in SUBSET Known : [caught EXCEPT ![p] = H] \in [Procs -> SUBSET Known]
      /\ \A H \in SUBSET Known : [handling EXCEPT ![p] = H] \in [Procs -> SUBSET Known]
      /\ \A t \in Seq({0, 1}) : [seen EXCEPT ![p] = t] \in [Procs -> Seq({0, 1})]
  BY Assign, Zenon DEF TypesInv
<1>d. /\ pc[p] \in Places /\ opt[p] \in Options /\ nchannel[p] \in {-1, 0, Width}
      /\ chan[p] \in -2 .. Width /\ frame[p] \in Nat /\ value[p] \in Ints
      /\ word[p] \in Nat /\ caught[p] \in SUBSET Known
      /\ handling[p] \in SUBSET Known /\ seen[p] \in Seq({0, 1})
  BY Zenon DEF TypesInv
<1>e. /\ pc \in [Procs -> Places]
      /\ \A s \in {"catch", "get", "set", "reopen", "exited"} :
            [pc EXCEPT ![p] = s] \in [Procs -> Places]
  BY <1>c DEF TypesInv, Places, Gone, Begun
<1>1. CASE Start(p)
  <2>1. pc' \in [Procs -> Places]
    BY <1>1, <1>c DEF Start, TypesInv, Places, Gone, Begun
  <2>2. CASE UNCHANGED <<opt, value, word>>
    <3>1. UNCHANGED <<chan, nchannel, frame, caught, handling, exported, direction, level, last, seen>>
      BY <1>1 DEF Start
    <3> QED BY <2>1, <2>2, <3>1 DEF TypesInv
  <2>3. CASE \E o \in Options, v \in Values :
                /\ opt' = [opt EXCEPT ![p] = o]
                /\ value' = [value EXCEPT ![p] = IF o = "OUT" THEN ToInt(v) ELSE Zero]
                /\ word' = [word EXCEPT ![p] = IF o = "OUT" THEN v ELSE 0]
    <3>1. PICK o \in Options, x \in Ints, w \in Nat :
                /\ opt' = [opt EXCEPT ![p] = o]
                /\ value' = [value EXCEPT ![p] = x]
                /\ word' = [word EXCEPT ![p] = w]
      <4>1. PICK o \in Options, v \in Values :
                /\ opt' = [opt EXCEPT ![p] = o]
                /\ value' = [value EXCEPT ![p] = IF o = "OUT" THEN ToInt(v) ELSE Zero]
                /\ word' = [word EXCEPT ![p] = IF o = "OUT" THEN v ELSE 0]
        BY <2>3
      <4>2. /\ (IF o = "OUT" THEN ToInt(v) ELSE Zero) \in Ints
            /\ (IF o = "OUT" THEN v ELSE 0) \in Nat
        BY <1>b, IntTypes
      <4> QED BY <4>1, <4>2, Zenon
    <3>2. opt' \in [Procs -> Options] /\ value' \in [Procs -> Ints] /\ word' \in [Procs -> Nat]
      BY <1>c, <3>1
    <3>3. UNCHANGED <<chan, nchannel, frame, caught, handling, exported, direction, level, last, seen>>
      BY <1>1 DEF Start
    <3> QED BY <2>1, <3>2, <3>3 DEF TypesInv
  <2> QED BY <1>1, <2>2, <2>3 DEF Start
<1>2. CASE Open(p)
  <2>1. pc' \in [Procs -> Places]
    BY <1>2, <1>c DEF Open, Places, Gone, Begun
  <2>2. chan' \in [Procs -> -2 .. Width]
    BY <1>2, <1>b, <1>c DEF Open
  <2>3. nchannel' \in [Procs -> {-1, 0, Width}]
    BY <1>2, <1>b, <1>c DEF Open, TypesInv
  <2>4. UNCHANGED <<opt, value, word, frame, caught, handling, exported, direction, level, last, seen>>
    BY <1>2 DEF Open
  <2> QED BY <2>1, <2>2, <2>3, <2>4 DEF TypesInv
<1>3. CASE Export(p)
  <2>1. pc' \in [Procs -> Places]
    <3>1. pc' = pc \/ pc' = [pc EXCEPT ![p] = "catch"]
      BY <1>3 DEF Export
    <3> QED BY <1>e, <3>1, Zenon
  <2>2. chan' \in [Procs -> -2 .. Width] /\ exported' \subseteq Channels
    <3>1. CASE chan[p] < Width
      <4>1. chan[p] >= 0 /\ chan[p] + 1 \in -2 .. Width /\ chan[p] \in Channels
        BY <1>3, <1>a, <1>b, <1>d, <3>1 DEF Export, Place, Channels
      <4>2. /\ exported' \in {exported, exported \cup {chan[p]}}
            /\ chan' = [chan EXCEPT ![p] = chan[p] + 1]
        BY <1>3, <3>1 DEF Export
      <4>3. exported' \subseteq Channels
        BY <4>1, <4>2 DEF TypesInv
      <4> QED BY <1>c, <4>1, <4>2, <4>3, Zenon DEF TypesInv
    <3>2. CASE ~(chan[p] < Width)
      <4>1. UNCHANGED <<chan, exported>>
        BY <1>3, <3>2 DEF Export
      <4> QED BY <4>1 DEF TypesInv
    <3> QED BY <3>1, <3>2
  <2>3. UNCHANGED <<value, opt, nchannel, frame, caught, handling, direction, level, last, word, seen>>
    BY <1>3 DEF Export
  <2> QED BY <2>1, <2>2, <2>3 DEF TypesInv
<1>4. CASE Catch(p)
  <2>1. PICK i \in DOMAIN Signals :
            /\ caught' = [caught EXCEPT ![p] = @ \cup {Signals[i]}]
            /\ \/ pc' = [pc EXCEPT ![p] = "reopen"]
               \/ pc' = [pc EXCEPT ![p] = "direction"]
               \/ UNCHANGED pc
    BY <1>4 DEF Catch
  <2>2. pc' \in [Procs -> Places]
    BY <2>1, <1>c DEF Places, Gone, Begun, TypesInv
  <2>3. caught' \in [Procs -> SUBSET Known]
    <3>1. caught[p] \cup {Signals[i]} \in SUBSET Known
      BY <1>d, Constants
    <3>2. caught' = [caught EXCEPT ![p] = caught[p] \cup {Signals[i]}]
      BY <2>1
    <3> QED BY <1>c, <3>1, <3>2, Zenon
  <2>4. chan' \in [Procs -> -2 .. Width]
    BY <1>4, <1>b, <1>c DEF Catch
  <2>5. UNCHANGED <<value, opt, nchannel, frame, handling, exported, direction, level, last, word, seen>>
    BY <1>4 DEF Catch
  <2> QED BY <2>2, <2>3, <2>4, <2>5 DEF TypesInv
<1>5. CASE Direction(p)
  <2>1. pc' \in [Procs -> Places]
    <3>1. pc' = pc \/ pc' = [pc EXCEPT ![p] = "get"] \/ pc' = [pc EXCEPT ![p] = "set"]
      BY <1>5 DEF Direction
    <3> QED BY <1>e, <3>1, Zenon
  <2>2. /\ direction' \in [Channels -> {"in", "out"}]
        /\ level' \in [Channels -> {0, 1}] /\ last' \in [Channels -> Nat]
        /\ chan' \in [Procs -> -2 .. Width]
        /\ value' \in [Procs -> Ints] /\ word' \in [Procs -> Nat]
    <3>1. CASE chan[p] < nchannel[p] /\ chan[p] \in exported
      <4>1. chan[p] + 1 \in -2 .. Width /\ chan[p] \in Channels
        BY <1>b, <1>d, <3>1 DEF TypesInv
      <4>2. /\ UNCHANGED <<value, word>> /\ chan' = [chan EXCEPT ![p] = chan[p] + 1]
            /\ direction' = [direction EXCEPT ![chan[p]] = IF opt[p] = "IN" THEN "in" ELSE "out"]
            /\ level' = [level EXCEPT ![chan[p]] = 0] /\ last' = [last EXCEPT ![chan[p]] = 0]
        BY <1>5, <3>1 DEF Direction
      <4>3. /\ direction' \in [Channels -> {"in", "out"}]
            /\ level' \in [Channels -> {0, 1}] /\ last' \in [Channels -> Nat]
        BY <4>1, <4>2 DEF TypesInv
      <4> QED BY <1>c, <4>1, <4>2, <4>3, Zenon DEF TypesInv
    <3>2. CASE ~(chan[p] < nchannel[p] /\ chan[p] \in exported) /\ opt[p] = "IN"
      <4>1. /\ UNCHANGED <<direction, level, last, value, word>>
            /\ chan' = [chan EXCEPT ![p] = nchannel[p] - 1]
        BY <1>5, <3>2 DEF Direction
      <4>2. nchannel[p] - 1 \in -2 .. Width
        BY <1>b, <1>d
      <4> QED BY <1>c, <4>1, <4>2, Zenon DEF TypesInv
    <3>3. CASE ~(chan[p] < nchannel[p] /\ chan[p] \in exported) /\ opt[p] = "OUT"
      <4>1. /\ UNCHANGED <<direction, level, last, value, word>>
            /\ chan' = [chan EXCEPT ![p] = 0]
        BY <1>5, <3>3 DEF Direction
      <4>2. 0 \in -2 .. Width
        BY <1>b
      <4> QED BY <1>c, <4>1, <4>2, Zenon DEF TypesInv
    <3>4. CASE ~(chan[p] < nchannel[p] /\ chan[p] \in exported) /\ opt[p] \notin {"IN", "OUT"}
      <4>1. /\ UNCHANGED <<direction, level, last>> /\ chan' = [chan EXCEPT ![p] = 0]
            /\ value' = [value EXCEPT ![p] = ToInt(Patterns[opt[p]][1])]
            /\ word' = [word EXCEPT ![p] = Patterns[opt[p]][1]]
        BY <1>5, <3>4 DEF Direction
      <4>2. 0 \in -2 .. Width
        BY <1>b
      <4>3. Patterns[opt[p]][1] \in Nat
        <5>1. opt[p] \in DOMAIN Patterns
          BY <1>5, <1>a, <1>d, <3>4, Constants DEF Direction, Place
        <5> QED BY <5>1, Constants
      <4>4. ToInt(Patterns[opt[p]][1]) \in Ints
        BY <4>3, IntTypes
      <4> QED BY <1>c, <4>1, <4>2, <4>3, <4>4, Zenon DEF TypesInv
    <3> QED BY <3>1, <3>2, <3>3, <3>4
  <2>3. UNCHANGED <<opt, nchannel, frame, caught, handling, exported, seen>>
    BY <1>5 DEF Direction
  <2> QED BY <2>1, <2>2, <2>3 DEF TypesInv
<1>6. CASE SetBit(p)
  <2>1. chan[p] \in Channels /\ chan[p] + 1 \in -2 .. Width
    BY <1>6, <1>b, <1>d DEF SetBit, TypesInv
  <2>2. value[p][0] \in {0, 1} /\ ShiftOut(value[p]) \in Ints
    BY <1>d, IntTypes
  <2>3. level' \in [Channels -> {0, 1}] /\ last' \in [Channels -> Nat]
    <3>1. CASE direction[chan[p]] = "out"
      <4>1. /\ level' = [level EXCEPT ![chan[p]] = value[p][0]]
            /\ last' = [last EXCEPT ![chan[p]] = word[p]]
        BY <1>6, <3>1 DEF SetBit
      <4> QED BY <1>d, <2>1, <2>2, <4>1 DEF TypesInv
    <3>2. CASE direction[chan[p]] # "out"
      BY <1>6, <3>2 DEF SetBit, TypesInv
    <3> QED BY <3>1, <3>2
  <2>4. value' \in [Procs -> Ints] /\ chan' \in [Procs -> -2 .. Width]
    <3>1. /\ value' = [value EXCEPT ![p] = ShiftOut(value[p])]
          /\ chan' = [chan EXCEPT ![p] = chan[p] + 1]
      BY <1>6 DEF SetBit
    <3> QED BY <1>c, <2>1, <2>2, <3>1, Zenon
  <2>5. UNCHANGED <<pc, opt, nchannel, frame, caught, handling, exported, direction, word, seen>>
    BY <1>6 DEF SetBit
  <2> QED BY <2>3, <2>4, <2>5 DEF TypesInv
<1>7. CASE SetEnd(p)
  <2>1. pc' \in [Procs -> Places]
    <3>1. pc' = pc \/ pc' = [pc EXCEPT ![p] = "reopen"]
      BY <1>7 DEF SetEnd
    <3> QED BY <1>e, <3>1, Zenon
  <2>2. /\ frame' \in [Procs -> Nat] /\ chan' \in [Procs -> -2 .. Width]
        /\ value' \in [Procs -> Ints] /\ word' \in [Procs -> Nat]
    <3>1. CASE opt[p] = "OUT"
      <4>1. UNCHANGED <<frame, value, word, chan>>
        BY <1>7, <3>1 DEF SetEnd
      <4> QED BY <4>1 DEF TypesInv
    <3>2. CASE opt[p] # "OUT"
      <4>1. opt[p] \in DOMAIN Patterns
        BY <1>7, <1>a, <1>d, <3>2, Constants DEF SetEnd, Place
      <4>2. PICK n \in 1 .. Len(Patterns[opt[p]]) :
                /\ frame' = [frame EXCEPT ![p] = n]
                /\ value' = [value EXCEPT ![p] = ToInt(Patterns[opt[p]][n])]
                /\ word' = [word EXCEPT ![p] = Patterns[opt[p]][n]]
                /\ chan' = [chan EXCEPT ![p] = 0]
        <5>1. Len(Patterns[opt[p]]) \in Nat \ {0} /\ frame[p] \in Nat
          BY <4>1, <1>d, Constants
        <5>2. (IF frame[p] < Len(Patterns[opt[p]]) THEN frame[p] + 1 ELSE 1)
                 \in 1 .. Len(Patterns[opt[p]])
          BY <5>1
        <5> QED BY <1>7, <3>2, <5>2, Zenon DEF SetEnd
      <4>3. Patterns[opt[p]][n] \in Nat /\ n \in Nat /\ 0 \in -2 .. Width
        BY <1>b, <4>1, Constants
      <4>4. ToInt(Patterns[opt[p]][n]) \in Ints
        BY <4>3, IntTypes
      <4> QED BY <1>c, <4>2, <4>3, <4>4, Zenon
    <3> QED BY <3>1, <3>2
  <2>3. UNCHANGED <<opt, nchannel, caught, handling, exported, direction, level, last, seen>>
    BY <1>7 DEF SetEnd
  <2> QED BY <2>1, <2>2, <2>3 DEF TypesInv
<1>8. CASE GetBit(p)
  <2>1. chan[p] \in Channels /\ chan[p] - 1 \in -2 .. Width
    <3>1. chan[p] >= 0 /\ chan[p] \in exported
      BY <1>8 DEF GetBit
    <3> QED BY <1>b, <1>d, <3>1 DEF TypesInv
  <2>2. PICK b \in {0, 1} :
            /\ value' = [value EXCEPT ![p] = ShiftIn(value[p], b)]
            /\ seen' = [seen EXCEPT ![p] = <<b>> \o seen[p]]
    <3>1. level[chan[p]] \in {0, 1}
      BY <2>1 DEF TypesInv
    <3> QED BY <1>8, <3>1 DEF GetBit
  <2>3. ShiftIn(value[p], b) \in Ints
    BY <1>d, IntTypes
  <2>4. <<b>> \o seen[p] \in Seq({0, 1})
    <3>1. <<b>> \in Seq({0, 1})
      OBVIOUS
    <3> QED BY <3>1, <1>d, ConcatProperties
  <2>5. /\ chan' = [chan EXCEPT ![p] = chan[p] - 1]
        /\ UNCHANGED <<pc, opt, nchannel, frame, caught, handling,
                       exported, direction, level, last, word>>
    BY <1>8 DEF GetBit
  <2>6. /\ value' \in [Procs -> Ints] /\ seen' \in [Procs -> Seq({0, 1})]
        /\ chan' \in [Procs -> -2 .. Width]
    BY <1>c, <2>1, <2>2, <2>3, <2>4, <2>5, Zenon
  <2> QED BY <2>5, <2>6 DEF TypesInv
<1>9. CASE GetEnd(p)
  <2>1. pc' \in [Procs -> Places]
    BY <1>9, <1>c DEF GetEnd, Places
  <2>2. value' \in [Procs -> Ints]
    <3>1. (IF chan[p] >= 0 THEN MinusOne ELSE value[p]) \in Ints
      BY <1>d, IntTypes
    <3> QED BY <1>9, <1>c, <3>1, Zenon DEF GetEnd
  <2>3. UNCHANGED <<chan, word, opt, nchannel, frame, caught, handling,
                    exported, direction, level, last, seen>>
    BY <1>9 DEF GetEnd
  <2> QED BY <2>1, <2>2, <2>3 DEF TypesInv
<1>f. ASSUME Forget(p)
      PROVE  /\ opt' \in [Procs -> Options] /\ nchannel' \in [Procs -> {-1, 0, Width}]
             /\ chan' \in [Procs -> -2 .. Width] /\ frame' \in [Procs -> Nat]
             /\ value' \in [Procs -> Ints] /\ word' \in [Procs -> Nat]
             /\ seen' \in [Procs -> Seq({0, 1})]
  <2>1. /\ "NONE" \in Options /\ 0 \in {-1, 0, Width} /\ 0 \in -2 .. Width
        /\ 0 \in Nat /\ 1 \in Nat /\ Zero \in Ints /\ << >> \in Seq({0, 1})
    BY <1>b, EmptySeq, IntTypes
  <2> QED BY <1>c, <1>f, <2>1, Zenon DEF Forget
<1>10. CASE Reopen(p)
  <2>1. pc' \in [Procs -> Places]
    BY <1>10, <1>c DEF Reopen, Places, Gone
  <2>2. UNCHANGED <<caught, handling, exported, direction, level, last>>
    BY <1>10 DEF Reopen
  <2>3. Forget(p)
    BY <1>10 DEF Reopen
  <2> QED BY <1>f, <2>1, <2>2, <2>3 DEF TypesInv
<1>11. CASE Close(p)
  <2>1. pc' \in [Procs -> Places]
    <3>1. pc' = pc \/ pc' = [pc EXCEPT ![p] = "exited"]
      BY <1>11 DEF Close
    <3> QED BY <1>e, <3>1, Zenon
  <2>2. chan' \in [Procs -> -2 .. Width] /\ exported' \subseteq Channels
    <3>1. CASE chan[p] < Width
      <4>1. chan[p] + 1 \in -2 .. Width
        BY <1>b, <1>d, <3>1
      <4>2. exported' = exported \ {chan[p]} /\ chan' = [chan EXCEPT ![p] = chan[p] + 1]
        BY <1>11, <3>1 DEF Close
      <4> QED BY <1>c, <4>1, <4>2, Zenon DEF TypesInv
    <3>2. CASE ~(chan[p] < Width)
      <4>1. UNCHANGED <<chan, exported>>
        BY <1>11, <3>2 DEF Close
      <4> QED BY <4>1 DEF TypesInv
    <3> QED BY <3>1, <3>2
  <2>3. UNCHANGED <<value, opt, nchannel, frame, caught, handling, direction, level, last, word, seen>>
    BY <1>11 DEF Close
  <2> QED BY <2>1, <2>2, <2>3 DEF TypesInv
<1>12. CASE Signal(p)
  <2>1. PICK i \in DOMAIN Signals :
            \/ /\ pc' = [pc EXCEPT ![p] = "reopen"]
               /\ handling' = [handling EXCEPT ![p] = @ \cup {Signals[i]}]
            \/ pc' = [pc EXCEPT ![p] = "killed"] /\ UNCHANGED handling
    BY <1>12 DEF Signal
  <2>2. pc' \in [Procs -> Places]
    BY <1>c, <2>1 DEF Places, Gone
  <2>3. handling' \in [Procs -> SUBSET Known]
    <3>1. handling[p] \cup {Signals[i]} \in SUBSET Known
      BY <1>d, Constants
    <3>2. \/ handling' = handling
          \/ handling' = [handling EXCEPT ![p] = handling[p] \cup {Signals[i]}]
      BY <2>1
    <3>3. handling \in [Procs -> SUBSET Known]
      BY DEF TypesInv
    <3>4. [handling EXCEPT ![p] = handling[p] \cup {Signals[i]}] \in [Procs -> SUBSET Known]
      BY <3>1, <3>3
    <3> QED BY <3>2, <3>3, <3>4, Zenon
  <2>4. UNCHANGED <<caught, exported, direction, level, last>>
    BY <1>12 DEF Signal
  <2>5. Forget(p)
    BY <1>12 DEF Signal
  <2> QED BY <1>f, <2>2, <2>3, <2>4, <2>5 DEF TypesInv
<1> QED
  BY <1>1, <1>2, <1>3, <1>4, <1>5, <1>6, <1>7, <1>8, <1>9, <1>10, <1>11, <1>12 DEF Run

-----------------------------------------------------------------------------
(* Where an instance is. *)

(* The two predicates are about one instance; what an instance does is     *)
(* nothing to those of the others.                                         *)
LEMMA PlaceOfOthers ==
    ASSUME TypesInv, PlaceInv, MovedInv, NEW p \in Procs, Run(p) \/ Signal(p),
           NEW q \in Procs \ {p}
    PROVE  Place(q)' /\ Moved(q)'
<1>1. Place(q) /\ Moved(q)
  BY DEF PlaceInv, MovedInv
<1>2. Place(q)'
  BY <1>1, OnlyItself DEF Place
<1>3. Moved(q)'
  BY <1>1, OnlyItself DEF Moved
<1> QED BY <1>2, <1>3

LEMMA PlaceInit == Init => PlaceInv /\ OwedInv /\ MovedInv /\ DrivenInv
<1> SUFFICES ASSUME Init PROVE PlaceInv /\ OwedInv /\ MovedInv /\ DrivenInv
  OBVIOUS
<1>1. PlaceInv
  <2>1. 1 \in 1 .. Entries("NONE")
    BY Constants
  <2>2. SUFFICES ASSUME NEW p \in Procs
                 PROVE  Place(p)
    BY Zenon DEF PlaceInv
  <2>3. /\ pc[p] = "start" /\ opt[p] = "NONE" /\ frame[p] = 1
        /\ handling[p] = {} /\ caught[p] = {}
    BY DEF Init
  <2> QED BY <2>1, <2>3 DEF Place
<1>2. OwedInv
  BY DEF Init, OwedInv
<1>3. MovedInv
  <2>1. SUFFICES ASSUME NEW p \in Procs
                 PROVE  Moved(p)
    BY Zenon DEF MovedInv
  <2>2. pc[p] = "start" /\ seen[p] = << >> /\ opt[p] = "NONE"
    BY DEF Init
  <2> QED BY <2>2 DEF Moved, Begun, Gone
<1>4. DrivenInv
  BY IntTypes DEF Init, DrivenInv
<1> QED BY <1>1, <1>2, <1>3, <1>4

LEMMA PlaceStep ==
    ASSUME TypesInv, PlaceInv, NEW p \in Procs, Run(p) \/ Signal(p)
    PROVE  Place(p)'
<1> USE DEF Goto, At, procvars, kernel, pins
<1>a. Place(p)
  BY DEF PlaceInv
<1>b. Width \in Nat \ {0} /\ {"NONE", "IN", "OUT"} \subseteq Options
  BY Constants
<1>c. \A o \in Options : Entries(o) \in Nat \ {0}
  BY Constants
<1>d. /\ pc[p] \in Places /\ opt[p] \in Options /\ nchannel[p] \in {-1, 0, Width}
      /\ chan[p] \in -2 .. Width /\ frame[p] \in Nat
  BY Zenon DEF TypesInv
<1>e. Entries(opt[p])' = Entries(opt'[p])
  BY DEF Entries
<1>1. CASE Start(p)
  BY <1>1, <1>a, <1>b, <1>c, <1>d DEF Start, Place, TypesInv
<1>2. CASE Open(p)
  BY <1>2, <1>a, <1>b, <1>d DEF Open, Place, TypesInv
<1>3. CASE Export(p)
  BY <1>3, <1>a, <1>b, <1>d DEF Export, Place, TypesInv
<1>4. CASE Catch(p)
  BY <1>4, <1>a, <1>b, <1>d DEF Catch, Place, TypesInv
<1>5. CASE Direction(p)
  BY <1>5, <1>a, <1>b, <1>d DEF Direction, Place, TypesInv
<1>6. CASE SetBit(p)
  BY <1>6, <1>a, <1>b, <1>d DEF SetBit, Place, TypesInv
<1>7. CASE SetEnd(p)
  <2>1. CASE opt[p] = "OUT"
    BY <1>7, <1>a, <1>d, <2>1 DEF SetEnd, Place, TypesInv
  <2>2. CASE opt[p] # "OUT"
    <3>1. opt[p] \in DOMAIN Patterns
      BY <1>7, <1>a, <1>d, <2>2, Constants DEF SetEnd, Place
    <3>2. Entries(opt[p]) = Len(Patterns[opt[p]]) /\ Len(Patterns[opt[p]]) \in Nat \ {0}
      BY <3>1, Constants DEF Entries
    <3>3. (IF frame[p] < Len(Patterns[opt[p]]) THEN frame[p] + 1 ELSE 1)
             \in 1 .. Entries(opt[p])
      BY <1>d, <3>2
    <3>4. PICK n \in 1 .. Entries(opt[p]) :
              /\ frame' = [frame EXCEPT ![p] = n] /\ chan' = [chan EXCEPT ![p] = 0]
              /\ UNCHANGED <<pc, opt, nchannel, caught, handling>>
      BY <1>7, <2>2, <3>3 DEF SetEnd
    <3>5. frame'[p] = n /\ chan'[p] = 0
      BY <3>4 DEF TypesInv
    <3> QED BY <1>7, <1>a, <3>4, <3>5 DEF SetEnd, Place
  <2> QED BY <2>1, <2>2
<1>8. CASE GetBit(p)
  BY <1>8, <1>a, <1>b, <1>d DEF GetBit, Place, TypesInv
<1>9. CASE GetEnd(p)
  BY <1>9, <1>a, <1>b, <1>d DEF GetEnd, Place, TypesInv
<1>10. CASE Reopen(p)
  BY <1>10, <1>a, <1>b, <1>c, <1>d DEF Reopen, Forget, Place, TypesInv
<1>11. CASE Close(p)
  BY <1>11, <1>a, <1>b, <1>d DEF Close, Place, TypesInv
<1>12. CASE Signal(p)
  BY <1>12, <1>a, <1>b, <1>c, <1>d DEF Signal, Forget, Place, TypesInv
<1> QED
  BY <1>1, <1>2, <1>3, <1>4, <1>5, <1>6, <1>7, <1>8, <1>9, <1>10, <1>11, <1>12 DEF Run

-----------------------------------------------------------------------------
(* What an instance has moved. *)

LEMMA MovedStep ==
    ASSUME TypesInv, PlaceInv, MovedInv, NEW p \in Procs, Run(p) \/ Signal(p)
    PROVE  Moved(p)'
<1> USE DEF Goto, At, procvars, kernel, pins
<1>a. Place(p) /\ Moved(p)
  BY DEF PlaceInv, MovedInv
<1>b. Width \in Nat \ {0}
  BY Constants
<1>d. /\ pc[p] \in Places /\ opt[p] \in Options /\ nchannel[p] \in {-1, 0, Width}
      /\ chan[p] \in -2 .. Width /\ value[p] \in Ints /\ word[p] \in Nat
      /\ seen[p] \in Seq({0, 1})
  BY Zenon DEF TypesInv
<1>n. Len(seen[p]) \in Nat
  BY <1>d, LenProperties
<1>1. CASE Start(p)
  <2>1. seen'[p] = << >> /\ pc'[p] \in {"exited", "open"}
    BY <1>1, <1>a DEF Start, Moved, Begun, TypesInv
  <2>2. pc'[p] = "open" /\ opt'[p] = "OUT" => value'[p] = ToInt(word'[p])
    BY <1>1 DEF Start, TypesInv
  <2> QED BY <2>1, <2>2 DEF Moved, Begun, Gone
<1>2. CASE Open(p)
  <2>1. /\ pc'[p] \in {"export", "catch", "exited"}
        /\ UNCHANGED <<opt, value, word, seen>>
    BY <1>2 DEF Open, TypesInv
  <2>2. pc[p] \in Begun
    BY <1>2 DEF Open, Begun
  <2> QED BY <1>a, <2>1, <2>2 DEF Moved, Begun, Gone
<1>3. CASE Export(p)
  <2>1. pc'[p] \in {"export", "catch"} /\ UNCHANGED <<opt, value, word, seen>>
    BY <1>3 DEF Export, TypesInv
  <2>2. pc[p] \in Begun
    BY <1>3 DEF Export, Begun
  <2> QED BY <1>a, <2>1, <2>2 DEF Moved, Begun, Gone
<1>4. CASE Catch(p)
  <2>1. pc'[p] \in {"catch", "direction", "reopen"} /\ UNCHANGED <<opt, value, word, seen>>
    BY <1>4 DEF Catch, TypesInv
  <2>2. pc[p] \in Begun
    BY <1>4 DEF Catch, Begun
  <2>3. Len(seen'[p]) # Width
    BY <1>a, <1>b, <2>1, <2>2, EmptySeq DEF Moved
  <2> QED BY <1>a, <2>1, <2>2, <2>3 DEF Moved, Begun, Gone
<1>5. CASE Direction(p)
  <2>1. seen[p] = << >> /\ seen' = seen /\ nchannel' = nchannel /\ opt' = opt
    BY <1>5, <1>a DEF Direction, Moved, Begun
  <2>2. Len(seen'[p]) = 0 /\ Holds(value'[p], seen'[p])
    BY <2>1, EmptySeq, GpioAssumption DEF Holds, Bits
  <2>3. CASE pc' = pc
    BY <1>5, <1>a, <2>1, <2>3 DEF Direction, Moved, Begun
  <2>4. CASE opt[p] = "IN" /\ pc' = [pc EXCEPT ![p] = "get"] /\ chan' = [chan EXCEPT ![p] = nchannel[p] - 1]
    <3>1. pc'[p] = "get" /\ chan'[p] = nchannel[p] - 1
      BY <2>4 DEF TypesInv
    <3>2. nchannel[p] \in {-1, Width}
      BY <1>5, <1>a DEF Direction, Place
    <3> QED BY <1>b, <2>1, <2>2, <3>1, <3>2 DEF Moved, Begun, Gone
  <2>5. CASE opt[p] # "IN" /\ pc' = [pc EXCEPT ![p] = "set"] /\ chan' = [chan EXCEPT ![p] = 0]
    <3>1. pc'[p] = "set" /\ chan'[p] = 0
      BY <2>5 DEF TypesInv
    <3>2. value'[p] = ToInt(word'[p]) /\ word'[p] \in Nat
      <4>1. CASE opt[p] = "OUT"
        BY <1>5, <1>a, <1>d, <2>5, <4>1 DEF Direction, Moved, Begun
      <4>2. CASE opt[p] # "OUT"
        <5>1. opt[p] \in DOMAIN Patterns
          BY <1>5, <1>a, <1>d, <2>5, <4>2, Constants DEF Direction, Place
        <5>2. Patterns[opt[p]][1] \in Nat
          BY <5>1, Constants
        <5>3. /\ value' = [value EXCEPT ![p] = ToInt(Patterns[opt[p]][1])]
              /\ word' = [word EXCEPT ![p] = Patterns[opt[p]][1]]
          BY <1>5, <2>5, <3>1, <4>2 DEF Direction
        <5> QED BY <5>2, <5>3 DEF TypesInv
      <4> QED BY <4>1, <4>2
    <3>3. ShiftedOut(value'[p], word'[p], 0)
      BY <3>2, IntTypes
    <3> QED BY <2>1, <3>1, <3>3 DEF Moved, Begun, Gone
  <2> QED BY <1>5, <2>3, <2>4, <2>5 DEF Direction
<1>6. CASE SetBit(p)
  <2>1. /\ pc[p] = "set" /\ pc' = pc /\ word' = word /\ seen' = seen /\ chan[p] >= 0
        /\ chan' = [chan EXCEPT ![p] = chan[p] + 1]
        /\ value' = [value EXCEPT ![p] = ShiftOut(value[p])]
    BY <1>6, <1>a DEF SetBit, Place
  <2>2. /\ pc'[p] = "set" /\ word'[p] = word[p] /\ chan'[p] = chan[p] + 1
        /\ value'[p] = ShiftOut(value[p]) /\ seen'[p] = seen[p]
    BY <2>1 DEF TypesInv
  <2>3. seen[p] = << >> /\ chan[p] \in Nat /\ ShiftedOut(value[p], word[p], chan[p])
    BY <1>a, <1>d, <2>1 DEF Moved
  <2>4. ShiftedOut(value'[p], word'[p], chan'[p])
    BY <1>d, <2>2, <2>3, ShiftOutOnce
  <2> QED BY <2>2, <2>3, <2>4 DEF Moved, Begun, Gone
<1>7. CASE SetEnd(p)
  <2>1. seen'[p] = << >> /\ Len(seen'[p]) # Width
    BY <1>7, <1>a, <1>b, EmptySeq DEF SetEnd, Moved
  <2>2. CASE opt[p] = "OUT"
    <3>1. pc'[p] = "reopen"
      BY <1>7, <2>2 DEF SetEnd, TypesInv
    <3> QED BY <2>1, <3>1 DEF Moved, Begun, Gone
  <2>3. CASE opt[p] # "OUT"
    <3>1. opt[p] \in DOMAIN Patterns
      BY <1>7, <1>a, <1>d, <2>3, Constants DEF SetEnd, Place
    <3>2. Len(Patterns[opt[p]]) \in Nat \ {0} /\ frame[p] \in Nat
      BY <3>1, Constants DEF TypesInv
    <3>3. (IF frame[p] < Len(Patterns[opt[p]]) THEN frame[p] + 1 ELSE 1)
             \in 1 .. Len(Patterns[opt[p]])
      BY <3>2
    <3>4. PICK n \in 1 .. Len(Patterns[opt[p]]) :
              /\ value' = [value EXCEPT ![p] = ToInt(Patterns[opt[p]][n])]
              /\ word' = [word EXCEPT ![p] = Patterns[opt[p]][n]]
              /\ chan' = [chan EXCEPT ![p] = 0]
      BY <1>7, <2>3, <3>3, Zenon DEF SetEnd
    <3>5. Patterns[opt[p]][n] \in Nat
      BY <3>1, Constants
    <3>6. value'[p] = ToInt(word'[p]) /\ word'[p] \in Nat /\ chan'[p] = 0
      BY <3>4, <3>5 DEF TypesInv
    <3>7. pc[p] = "set" /\ pc' = pc
      BY <1>7, <2>3 DEF SetEnd
    <3>8. ShiftedOut(value'[p], word'[p], chan'[p])
      BY <3>6, IntTypes
    <3> QED BY <2>1, <3>7, <3>8 DEF Moved, Begun, Gone
  <2> QED BY <2>2, <2>3
<1>8. CASE GetBit(p)
  <2>1. /\ pc[p] = "get" /\ pc' = pc /\ nchannel' = nchannel /\ chan[p] >= 0
        /\ chan[p] \in exported /\ chan' = [chan EXCEPT ![p] = chan[p] - 1]
    BY <1>8 DEF GetBit
  <2>2. PICK b \in {0, 1} :
            /\ value' = [value EXCEPT ![p] = ShiftIn(value[p], b)]
            /\ seen' = [seen EXCEPT ![p] = <<b>> \o seen[p]]
    <3>1. level[chan[p]] \in {0, 1}
      BY <2>1 DEF TypesInv
    <3> QED BY <1>8, <3>1 DEF GetBit
  <2>3. /\ pc'[p] = "get" /\ chan'[p] = chan[p] - 1 /\ value'[p] = ShiftIn(value[p], b)
        /\ seen'[p] = <<b>> \o seen[p] /\ nchannel'[p] = nchannel[p]
    BY <2>1, <2>2 DEF TypesInv
  <2>4. nchannel[p] = Width /\ Len(seen[p]) = Width - 1 - chan[p] /\ Holds(value[p], seen[p])
    <3>1. \/ nchannel[p] = -1 /\ chan[p] < 0 /\ seen[p] = << >>
          \/ nchannel[p] = Width /\ Len(seen[p]) = Width - 1 - chan[p]
      BY <1>a, <2>1 DEF Moved
    <3>2. ~(chan[p] < 0)
      BY <1>d, <2>1
    <3>3. Holds(value[p], seen[p])
      BY <1>a, <2>1 DEF Moved
    <3> QED BY <3>1, <3>2, <3>3
  <2>5. Len(seen'[p]) = Len(seen[p]) + 1 /\ Holds(value'[p], seen'[p])
    BY <1>d, <2>3, <2>4, ShiftInOnce
  <2>6. nchannel'[p] = Width /\ Len(seen'[p]) = Width - 1 - chan'[p]
    BY <1>b, <1>d, <2>3, <2>4, <2>5
  <2> QED BY <2>3, <2>5, <2>6 DEF Moved, Begun, Gone
<1>9. CASE GetEnd(p)
  <2>1. /\ pc[p] = "get" /\ pc' = [pc EXCEPT ![p] = "reopen"] /\ seen' = seen
        /\ value' = [value EXCEPT ![p] = IF chan[p] >= 0 THEN MinusOne ELSE value[p]]
    BY <1>9 DEF GetEnd
  <2>2. /\ pc'[p] = "reopen" /\ seen'[p] = seen[p]
        /\ value'[p] = IF chan[p] >= 0 THEN MinusOne ELSE value[p]
    BY <2>1 DEF TypesInv
  <2>3. CASE chan[p] >= 0
    <3>1. Len(seen'[p]) = Width - 1 - chan[p]
      BY <1>a, <2>1, <2>3, <1>d DEF Moved
    <3>2. Len(seen'[p]) # Width
      BY <1>b, <1>d, <2>3, <3>1
    <3> QED BY <2>2, <3>2 DEF Moved, Begun, Gone
  <2>4. CASE ~(chan[p] >= 0)
    <3>1. Holds(value'[p], seen'[p])
      BY <1>a, <2>1, <2>2, <2>4 DEF Moved
    <3> QED BY <2>2, <3>1 DEF Moved, Begun, Gone
  <2> QED BY <2>3, <2>4
<1>f. ASSUME Forget(p)
      PROVE  seen'[p] = << >> /\ Len(seen'[p]) # Width
  BY <1>b, <1>f, EmptySeq DEF Forget, TypesInv
<1>10. CASE Reopen(p)
  <2>1. Forget(p) /\ pc'[p] \in {"close", "failed"}
    BY <1>10 DEF Reopen, TypesInv
  <2> QED BY <1>f, <2>1 DEF Moved, Begun, Gone
<1>11. CASE Close(p)
  <2>1. pc[p] = "close" /\ pc'[p] \in {"close", "exited"} /\ seen' = seen
    BY <1>11 DEF Close, TypesInv
  <2> QED BY <1>a, <2>1 DEF Moved, Begun, Gone
<1>12. CASE Signal(p)
  <2>1. Forget(p) /\ pc'[p] \in {"reopen", "killed"}
    BY <1>12 DEF Signal, TypesInv
  <2> QED BY <1>f, <2>1 DEF Moved, Begun, Gone
<1> QED
  BY <1>1, <1>2, <1>3, <1>4, <1>5, <1>6, <1>7, <1>8, <1>9, <1>10, <1>11, <1>12 DEF Run

(* A pin is driven where set_gpio_value puts the lowest bit of what is     *)
(* left of the number, and low where set_gpio_direction turns it.          *)
LEMMA DrivenStep ==
    ASSUME TypesInv, PlaceInv, MovedInv, DrivenInv, NEW p \in Procs, Run(p) \/ Signal(p)
    PROVE  DrivenInv'
<1> USE DEF kernel, pins
<1>a. Place(p) /\ Moved(p)
  BY DEF PlaceInv, MovedInv
<1>b. /\ chan[p] \in -2 .. Width /\ value[p] \in Ints /\ word[p] \in Nat
      /\ exported \subseteq Channels
  BY DEF TypesInv
<1>1. CASE SetBit(p)
  <2>1. /\ chan[p] \in Channels /\ chan[p] \in Nat
        /\ ShiftedOut(value[p], word[p], chan[p])
    BY <1>1, <1>a, <1>b DEF SetBit, Place, Moved, Channels
  <2>2. value[p][0] = IntBit(word[p], chan[p])
    BY <1>b, <2>1, ShiftOutOnce
  <2>3. CASE direction[chan[p]] = "out"
    <3>1. /\ level' = [level EXCEPT ![chan[p]] = value[p][0]]
          /\ last' = [last EXCEPT ![chan[p]] = word[p]]
      BY <1>1, <2>3 DEF SetBit
    <3>2. ASSUME NEW c \in Channels
          PROVE  level'[c] = IntBit(last'[c], c)
      BY <2>1, <2>2, <3>1, <3>2 DEF DrivenInv, TypesInv
    <3> QED BY <3>2 DEF DrivenInv
  <2>4. CASE direction[chan[p]] # "out"
    BY <1>1, <2>4 DEF SetBit, DrivenInv
  <2> QED BY <2>3, <2>4
<1>2. CASE Direction(p)
  <2>1. CASE chan[p] < nchannel[p] /\ chan[p] \in exported
    <3>1. /\ level' = [level EXCEPT ![chan[p]] = 0]
          /\ last' = [last EXCEPT ![chan[p]] = 0]
      BY <1>2, <2>1 DEF Direction
    <3>2. ASSUME NEW c \in Channels
          PROVE  level'[c] = IntBit(last'[c], c)
      <4>1. IntBit(0, c) = 0
        BY IntTypes
      <4> QED BY <3>1, <3>2, <4>1 DEF DrivenInv, TypesInv
    <3> QED BY <3>2 DEF DrivenInv
  <2>2. CASE ~(chan[p] < nchannel[p] /\ chan[p] \in exported)
    BY <1>2, <2>2 DEF Direction, DrivenInv
  <2> QED BY <2>1, <2>2
<1>3. ASSUME UNCHANGED <<level, last>>
      PROVE  DrivenInv'
  BY <1>3 DEF DrivenInv
<1>4. CASE Run(p) /\ ~SetBit(p) /\ ~Direction(p)
  <2>1. UNCHANGED <<level, last>>
    BY <1>4 DEF Run, Start, Open, Export, Catch, SetEnd, GetBit, GetEnd, Reopen, Close
  <2> QED BY <1>3, <2>1
<1>5. CASE Signal(p)
  <2>1. UNCHANGED <<level, last>>
    BY <1>5 DEF Signal
  <2> QED BY <1>3, <2>1
<1> QED BY <1>1, <1>2, <1>4, <1>5

-----------------------------------------------------------------------------
(* Who owes a pin. *)

(* A step hands on what its instance owes, and takes on the pin it exports. *)
LEMMA OwesStep ==
    ASSUME TypesInv, PlaceInv, NEW p \in Procs, Run(p) \/ Signal(p),
           NEW c \in exported', c \in exported => Owes(p, c)
    PROVE  Owes(p, c)'
<1> USE DEF Goto, At, Owes, procvars, kernel, pins
<1>a. chan[p] \in Int /\ Width \in Int
  BY Constants DEF TypesInv
<1>1. CASE Start(p)
  BY <1>1 DEF Start, TypesInv
<1>2. CASE Open(p)
  BY <1>2 DEF Open, TypesInv
<1>3. CASE Export(p)
  BY <1>3 DEF Export, TypesInv
<1>4. CASE Catch(p)
  BY <1>4 DEF Catch, TypesInv
<1>5. CASE Direction(p)
  BY <1>5 DEF Direction, TypesInv
<1>6. CASE SetBit(p)
  BY <1>6 DEF SetBit, TypesInv
<1>7. CASE SetEnd(p)
  BY <1>7 DEF SetEnd, TypesInv
<1>8. CASE GetBit(p)
  BY <1>8 DEF GetBit, TypesInv
<1>9. CASE GetEnd(p)
  BY <1>9 DEF GetEnd, TypesInv
<1>10. CASE Reopen(p)
  <2>1. chan'[p] = 0 /\ exported' = exported /\ pc'[p] \in {"close", "failed"}
    BY <1>10 DEF Reopen, Forget, TypesInv
  <2>2. c \in Channels
    BY <2>1 DEF TypesInv
  <2> QED BY <1>a, <2>1, <2>2 DEF Channels
<1>11. CASE Close(p)
  <2>1. CASE chan[p] < Width
    <3>1. /\ pc[p] = "close" /\ pc' = pc /\ exported' = exported \ {chan[p]}
          /\ chan'[p] = chan[p] + 1
      BY <1>11, <2>1 DEF Close, TypesInv
    <3>2. c # chan[p] /\ chan[p] <= c /\ c \in Int
      BY <3>1 DEF TypesInv, Channels
    <3> QED BY <1>a, <3>1, <3>2
  <2>2. CASE ~(chan[p] < Width)
    <3>1. pc[p] = "close" /\ exported' = exported
      BY <1>11, <2>2 DEF Close
    <3>2. chan[p] <= c /\ c \in 0 .. Width - 1
      BY <3>1 DEF TypesInv, Channels
    <3> QED BY <1>a, <2>2, <3>2
  <2> QED BY <2>1, <2>2
<1>12. CASE Signal(p)
  BY <1>12 DEF Signal, TypesInv
<1> QED
  BY <1>1, <1>2, <1>3, <1>4, <1>5, <1>6, <1>7, <1>8, <1>9, <1>10, <1>11, <1>12 DEF Run

LEMMA OwedStep ==
    ASSUME TypesInv, PlaceInv, OwedInv, NEW p \in Procs, Run(p) \/ Signal(p)
    PROVE  OwedInv'
<1>1. ASSUME NEW c \in exported'
      PROVE  \E q \in Procs : Owes(q, c)'
  <2>1. CASE \E q \in Procs \ {p} : Owes(q, c)
    <3>1. PICK q \in Procs \ {p} : Owes(q, c)
      BY <2>1
    <3>2. Owes(q, c)'
      BY <3>1, OnlyItself DEF Owes
    <3> QED BY <3>2
  <2>2. CASE ~\E q \in Procs \ {p} : Owes(q, c)
    <3>1. c \in exported => Owes(p, c)
      BY <2>2 DEF OwedInv
    <3>2. Owes(p, c)'
      BY <1>1, <3>1, OwesStep
    <3> QED BY <3>2
  <2> QED BY <2>1, <2>2
<1> QED BY <1>1 DEF OwedInv

-----------------------------------------------------------------------------
(* Theorems. *)

(* What any step of any instance, a signal included, keeps: the types,     *)
(* where the instances are, who owes which pin, what they have moved, and  *)
(* what the pins are driven to.                                            *)
THEOREM GpioInvariant == Spec => []GpioInv
<1>1. Init => GpioInv
  BY TypesInit, PlaceInit DEF GpioInv
<1>2. GpioInv /\ [Next]_vars => GpioInv'
  <2>1. ASSUME GpioInv, NEW p \in Procs, Run(p) \/ Signal(p)
        PROVE  GpioInv'
    <3>1. TypesInv /\ PlaceInv /\ OwedInv /\ MovedInv /\ DrivenInv
      BY <2>1 DEF GpioInv
    <3>2. TypesInv' /\ OwedInv' /\ DrivenInv'
      BY <2>1, <3>1, TypesStep, OwedStep, DrivenStep
    <3>3. ASSUME NEW q \in Procs
          PROVE  Place(q)' /\ Moved(q)'
      <4>1. CASE q = p
        BY <2>1, <3>1, <4>1, PlaceStep, MovedStep
      <4>2. CASE q # p
        <5>1. q \in Procs \ {p}
          BY <4>2
        <5> QED BY <2>1, <3>1, <5>1, PlaceOfOthers
      <4> QED BY <4>1, <4>2
    <3>4. PlaceInv' /\ MovedInv'
      BY <3>3 DEF PlaceInv, MovedInv
    <3> QED BY <3>2, <3>4 DEF GpioInv
  <2>2. ASSUME GpioInv, UNCHANGED vars
        PROVE  GpioInv'
    <3>1. /\ UNCHANGED <<pc, chan, value, opt, nchannel, frame, caught, handling>>
          /\ UNCHANGED <<exported, direction, level, last, word, seen>>
      BY <2>2 DEF vars, procvars, kernel, pins
    <3>2. TypesInv'
      BY <2>2, <3>1 DEF GpioInv, TypesInv
    <3>3. PlaceInv'
      BY <2>2, <3>1 DEF GpioInv, PlaceInv, Place
    <3>4. OwedInv'
      BY <2>2, <3>1 DEF GpioInv, OwedInv, Owes
    <3>5. MovedInv'
      BY <2>2, <3>1 DEF GpioInv, MovedInv, Moved
    <3>6. DrivenInv'
      BY <2>2, <3>1 DEF GpioInv, DrivenInv
    <3> QED BY <3>2, <3>3, <3>4, <3>5, <3>6 DEF GpioInv
  <2> QED BY <2>1, <2>2 DEF Next
<1> QED BY <1>1, <1>2, PTL DEF Spec

(* The variables of gpio-demo keep their types: no loop leaves the pins,   *)
(* no pattern is read past its end, and a handler that runs was installed. *)
THEOREM GpioTypes == Spec => []TypeOK
<1>1. GpioInv => TypeOK
  <2>1. SUFFICES ASSUME GpioInv
                 PROVE  TypeOK
    OBVIOUS
  <2>2. TypesInv /\ PlaceInv
    BY <2>1 DEF GpioInv
  <2>3. ASSUME NEW p \in Procs
        PROVE  /\ pc[p] \in Places /\ opt[p] \in Options /\ nchannel[p] \in {-1, 0, Width}
               /\ chan[p] \in -2 .. Width /\ value[p] \in Ints /\ word[p] \in Nat
               /\ caught[p] \in SUBSET Known /\ handling[p] \subseteq caught[p]
               /\ frame[p] \in 1 .. Entries(opt[p])
    BY <2>2, Zenon DEF TypesInv, PlaceInv, Place
  <2>4. /\ exported \subseteq Channels /\ direction \in [Channels -> {"in", "out"}]
        /\ level \in [Channels -> {0, 1}]
    BY <2>2 DEF TypesInv
  <2> QED BY <2>3, <2>4 DEF TypeOK, Places, Begun, Known, Entries, Ints
<1> QED BY <1>1, GpioInvariant, PTL

(* However many instances share a chip, wherever each was stopped: when    *)
(* the last of them has ended and all came through close_gpio_channel, no  *)
(* pin is left exported.                                                   *)
THEOREM PinsGivenBack == Spec => []NothingLeftExported
<1>1. GpioInv => NothingLeftExported
  <2>1. SUFFICES ASSUME OwedInv, \A p \in Procs : pc[p] = "exited"
                 PROVE  exported = {}
    BY DEF GpioInv, NothingLeftExported
  <2>2. \A p \in Procs : \A c : ~Owes(p, c)
    BY <2>1 DEF Owes
  <2> QED BY <2>1, <2>2 DEF OwedInv
<1> QED BY <1>1, GpioInvariant, PTL

(* Every pin is driven to its own bit of the number of whoever drove it    *)
(* last (lines 208 to 219), for any number of instances and pins, also     *)
(* more pins than an int has bits, and though writes to the pins below     *)
(* were dropped; and a value read whole by get_gpio_value has bit c from   *)
(* pin c, for the pins that fit an int.                                    *)
THEOREM BitsStayInPlace == Spec => []BitsKeepTheirPlace
<1>1. GpioInv => BitsKeepTheirPlace
  <2>1. ASSUME MovedInv, NEW p \in Procs, pc[p] = "reopen", Len(seen[p]) = Width,
               NEW c \in Channels \cap Bits
        PROVE  value[p][c] = seen[p][c + 1]
    <3>1. Holds(value[p], seen[p])
      BY <2>1 DEF MovedInv, Moved
    <3>2. c < Len(seen[p]) /\ c \in Bits
      BY <2>1, GpioAssumption DEF Channels
    <3> QED BY <3>1, <3>2 DEF Holds
  <2> QED BY <2>1 DEF GpioInv, DrivenInv, BitsKeepTheirPlace
<1> QED BY <1>1, GpioInvariant, PTL
-----------------------------------------------------------------------------
(* A handler that runs. *)

(* Once in a handler an instance does nothing but give pins back.          *)
InHandler(p) == handling[p] # {} => pc[p] \in Gone \cup {"reopen", "close"}

(* The handlers that may still interrupt it, and the steps to the end of   *)
(* the one it is in; each handler begins the loop over the pins again.     *)
HandlersLeft(p) == Cardinality(Known \ handling[p])

CloseLeft(p) ==
    CASE pc[p] = "reopen" -> Width + 2
      [] pc[p] = "close"  -> Width + 1 - chan[p]
      [] OTHER            -> 0

StepsLeft(p) == HandlersLeft(p) * (Width + 3) + CloseLeft(p)

LEMMA KnownFinite == IsFiniteSet(Known)
<1> DEFINE n == Len(Signals)
           f == [i \in 1 .. n |-> Signals[i]]
<1>1. n \in Nat /\ DOMAIN Signals = 1 .. n
  BY GpioAssumption
<1>2. f \in Surjection(1 .. n, Known)
  BY <1>1 DEF Surjection, Known
<1>3. IsFiniteSet(1 .. n)
  BY <1>1, FS_Interval
<1> HIDE DEF f, n
<1> QED BY <1>2, <1>3, FS_Surjection

LEMMA OneHandlerLess ==
    ASSUME NEW H \in SUBSET Known
    PROVE  /\ Cardinality(Known \ H) \in Nat
           /\ \A s \in Known \ H : Cardinality(Known \ (H \cup {s})) + 1 = Cardinality(Known \ H)
<1>1. IsFiniteSet(Known \ H)
  <2>1. Known \ H \in SUBSET Known
    OBVIOUS
  <2> QED BY <2>1, KnownFinite, FS_Subset
<1>2. Cardinality(Known \ H) \in Nat
  BY <1>1, FS_CardinalityType
<1>3. ASSUME NEW s \in Known \ H
      PROVE  Cardinality(Known \ (H \cup {s})) + 1 = Cardinality(Known \ H)
  <2>1. Known \ (H \cup {s}) = (Known \ H) \ {s}
    OBVIOUS
  <2>2. Cardinality((Known \ H) \ {s}) = Cardinality(Known \ H) - 1
    BY <1>1, FS_RemoveElement
  <2>3. Cardinality(Known \ (H \cup {s})) = Cardinality(Known \ H) - 1
    BY <2>1, <2>2, Zenon
  <2> QED BY <1>2, <2>3
<1> QED BY <1>2, <1>3

LEMMA Products ==
    /\ \A n, k \in Nat : n * k \in Nat
    /\ \A n, k \in Nat : (n + 1) * k = n * k + k
  OBVIOUS

LEMMA CloseLeftType ==
    ASSUME TypesInv, PlaceInv, NEW p \in Procs
    PROVE  CloseLeft(p) \in 0 .. Width + 2 /\ StepsLeft(p) \in Nat
<1>1. Place(p) /\ chan[p] \in -2 .. Width /\ handling[p] \in SUBSET Known
  BY DEF TypesInv, PlaceInv
<1>2. CloseLeft(p) \in 0 .. Width + 2
  BY <1>1, Constants DEF CloseLeft, Place
<1>3. HandlersLeft(p) \in Nat
  BY <1>1, OneHandlerLess DEF HandlersLeft
<1>4. Width + 3 \in Nat
  BY Constants
<1>5. HandlersLeft(p) * (Width + 3) \in Nat
  BY <1>3, <1>4, Products
<1> QED BY <1>2, <1>5, Constants DEF StepsLeft

(* In a handler: one pin after the other, or a further handler, or killed. *)
LEMMA HandlerStep ==
    ASSUME TypesInv, PlaceInv, TypesInv', PlaceInv', NEW p \in Procs, InHandler(p),
           Run(p) \/ Signal(p)
    PROVE  InHandler(p)' /\ (handling[p] # {} => StepsLeft(p)' < StepsLeft(p))
<1> USE DEF Goto, At, procvars, kernel, pins
<1>a. /\ Place(p) /\ pc[p] \in Places /\ chan[p] \in -2 .. Width
      /\ handling[p] \in SUBSET Known /\ Width \in Nat \ {0}
  BY Constants DEF TypesInv, PlaceInv
<1>b. /\ HandlersLeft(p) \in Nat /\ HandlersLeft(p) * (Width + 3) \in Nat
      /\ CloseLeft(p) \in 0 .. Width + 2 /\ CloseLeft(p)' \in 0 .. Width + 2
  <2>1. HandlersLeft(p) \in Nat
    BY <1>a, OneHandlerLess DEF HandlersLeft
  <2>2. CloseLeft(p)' \in 0 .. Width + 2
    <3>1. Place(p)' /\ chan'[p] \in -2 .. Width
      BY DEF TypesInv, PlaceInv
    <3> QED BY <3>1, <1>a DEF CloseLeft, Place
  <2>3. Width + 3 \in Nat
    BY <1>a
  <2> QED BY <2>1, <2>2, <2>3, Products, CloseLeftType
<1>1. ASSUME handling'[p] = handling[p], handling[p] # {} => CloseLeft(p)' < CloseLeft(p)
      PROVE  handling[p] # {} => StepsLeft(p)' < StepsLeft(p)
  <2>1. HandlersLeft(p)' = HandlersLeft(p)
    BY <1>1 DEF HandlersLeft, Known
  <2>2. StepsLeft(p)' = HandlersLeft(p) * (Width + 3) + CloseLeft(p)'
    BY <2>1, Zenon DEF StepsLeft
  <2>3. \A h \in Nat, b, c \in 0 .. Width + 2 : b < c => h + b < h + c
    BY <1>a
  <2> QED BY <1>1, <1>b, <2>2, <2>3 DEF StepsLeft
<1>2. CASE /\ Run(p) /\ ~Reopen(p) /\ ~Close(p)
  <2>1. pc[p] \notin Gone \cup {"reopen", "close"}
    BY <1>2 DEF Run, Start, Open, Export, Catch, Direction, SetBit, SetEnd, GetBit, GetEnd, Gone
  <2>2. handling' = handling
    BY <1>2 DEF Run, Start, Open, Export, Catch, Direction, SetBit, SetEnd, GetBit, GetEnd
  <2> QED BY <2>1, <2>2 DEF InHandler
<1>3. CASE Reopen(p)
  <2>1. pc[p] = "reopen" /\ pc'[p] \in {"close", "failed"} /\ chan'[p] = 0
        /\ handling' = handling
    BY <1>3 DEF Reopen, Forget, TypesInv
  <2>2. InHandler(p)' /\ CloseLeft(p)' < CloseLeft(p)
    BY <2>1, <1>a DEF InHandler, CloseLeft, Gone
  <2> QED BY <1>1, <2>1, <2>2
<1>4. CASE Close(p)
  <2>1. /\ pc[p] = "close" /\ handling' = handling
        /\ \/ pc'[p] = "close" /\ chan'[p] = chan[p] + 1
           \/ pc'[p] = "exited"
    BY <1>4 DEF Close, TypesInv
  <2>2. InHandler(p)' /\ CloseLeft(p)' < CloseLeft(p)
    BY <2>1, <1>a DEF InHandler, CloseLeft, Gone
  <2> QED BY <1>1, <2>1, <2>2
<1>5. CASE Signal(p)
  <2>1. PICK i \in DOMAIN Signals :
            /\ Signals[i] \notin handling[p]
            /\ \/ pc'[p] = "reopen" /\ handling'[p] = handling[p] \cup {Signals[i]}
               \/ pc'[p] = "killed" /\ handling' = handling
    BY <1>5 DEF Signal, TypesInv
  <2>2. InHandler(p)'
    BY <2>1 DEF InHandler, Gone
  <2>3. CASE pc'[p] = "reopen" /\ handling'[p] = handling[p] \cup {Signals[i]}
    <3>1. Signals[i] \in Known \ handling[p]
      BY <2>1, Constants
    <3>2. HandlersLeft(p)' \in Nat /\ HandlersLeft(p) = HandlersLeft(p)' + 1
      <4>1. /\ Cardinality(Known \ (handling[p] \cup {Signals[i]})) + 1
                  = Cardinality(Known \ handling[p])
            /\ handling[p] \cup {Signals[i]} \in SUBSET Known
        BY <3>1, <1>a, OneHandlerLess
      <4>2. Cardinality(Known \ (handling[p] \cup {Signals[i]})) \in Nat
        BY <4>1, OneHandlerLess
      <4>3. HandlersLeft(p)' = Cardinality(Known \ (handling[p] \cup {Signals[i]}))
        BY <2>3 DEF HandlersLeft, Known
      <4> QED BY <4>1, <4>2, <4>3 DEF HandlersLeft
    <3>3. HandlersLeft(p) * (Width + 3) = HandlersLeft(p)' * (Width + 3) + (Width + 3)
      <4>1. Width + 3 \in Nat
        BY <1>a
      <4> QED BY <3>2, <4>1, Products
    <3>4. HandlersLeft(p)' * (Width + 3) \in Nat
      <4>1. Width + 3 \in Nat
        BY <1>a
      <4> QED BY <3>2, <4>1, Products
    <3>5. StepsLeft(p)' < StepsLeft(p)
      BY <1>a, <1>b, <3>3, <3>4 DEF StepsLeft
    <3> QED BY <2>2, <3>5
  <2>4. CASE pc'[p] = "killed" /\ handling' = handling
    <3>1. CloseLeft(p)' = 0
      BY <2>4 DEF CloseLeft
    <3>2. handling[p] # {} => CloseLeft(p) > 0
      <4>1. pc[p] \notin Gone
        BY <1>5 DEF Signal
      <4> QED BY <4>1, <1>a DEF InHandler, CloseLeft
    <3>3. handling[p] # {} => CloseLeft(p)' < CloseLeft(p)
      BY <1>b, <3>1, <3>2
    <3> QED BY <1>1, <2>2, <2>4, <3>3
  <2> QED BY <2>1, <2>3, <2>4
<1> QED BY <1>2, <1>3, <1>4, <1>5

LEMMA HandlerOfOthers ==
    ASSUME TypesInv, NEW p \in Procs, NEW q \in Procs \ {p}, Run(q) \/ Signal(q)
    PROVE  /\ StepsLeft(p)' = StepsLeft(p)
           /\ InHandler(p) => InHandler(p)'
<1>1. pc'[p] = pc[p] /\ chan'[p] = chan[p] /\ handling'[p] = handling[p]
  BY OnlyItself
<1>2. HandlersLeft(p)' = HandlersLeft(p)
  BY <1>1 DEF HandlersLeft, Known
<1>3. CloseLeft(p)' = CloseLeft(p)
  BY <1>1 DEF CloseLeft
<1> QED BY <1>1, <1>2, <1>3 DEF StepsLeft, InHandler

HandlerInv == \A p \in Procs : InHandler(p)

LEMMA HandlersHold == Spec => []HandlerInv
<1>1. Init => HandlerInv
  BY DEF Init, HandlerInv, InHandler
<1>2. GpioInv /\ GpioInv' /\ HandlerInv /\ [Next]_vars => HandlerInv'
  <2>1. ASSUME GpioInv, GpioInv', HandlerInv, NEW q \in Procs, Run(q) \/ Signal(q),
               NEW p \in Procs
        PROVE  InHandler(p)'
    <3>1. CASE q = p
      BY <2>1, <3>1, HandlerStep DEF GpioInv, HandlerInv
    <3>2. CASE q # p
      <4>1. q \in Procs \ {p}
        BY <3>2
      <4> QED BY <2>1, <4>1, HandlerOfOthers DEF GpioInv, HandlerInv
    <3> QED BY <3>1, <3>2
  <2>2. HandlerInv /\ UNCHANGED vars => HandlerInv'
    BY DEF vars, procvars, HandlerInv, InHandler
  <2> QED BY <2>1, <2>2 DEF Next, HandlerInv
<1> QED BY <1>1, <1>2, GpioInvariant, PTL DEF Spec

(* Every step of an instance in a handler (line 260) brings it nearer to   *)
(* its end, a further signal included, and no step of another instance     *)
(* sets it back: close_gpio_channel goes over the pins at most once for    *)
(* each signal.  This is what SignalEnds rests on besides fairness.        *)
THEOREM HandlersRunDown ==
    Spec => [][\A p \in Procs : handling[p] # {} =>
                 /\ StepsLeft(p) \in Nat
                 /\ Run(p) \/ Signal(p) => StepsLeft(p)' < StepsLeft(p)
                 /\ \A q \in Procs \ {p} :
                       Run(q) \/ Signal(q) => StepsLeft(p)' = StepsLeft(p)]_vars
<1>1. GpioInv /\ GpioInv' /\ HandlerInv =>
          \A p \in Procs : handling[p] # {} =>
                 /\ StepsLeft(p) \in Nat
                 /\ Run(p) \/ Signal(p) => StepsLeft(p)' < StepsLeft(p)
                 /\ \A q \in Procs \ {p} :
                       Run(q) \/ Signal(q) => StepsLeft(p)' = StepsLeft(p)
  <2>1. SUFFICES ASSUME GpioInv, GpioInv', HandlerInv, NEW p \in Procs, handling[p] # {}
                 PROVE  /\ StepsLeft(p) \in Nat
                        /\ Run(p) \/ Signal(p) => StepsLeft(p)' < StepsLeft(p)
                        /\ \A q \in Procs \ {p} :
                              Run(q) \/ Signal(q) => StepsLeft(p)' = StepsLeft(p)
    OBVIOUS
  <2>2. TypesInv /\ PlaceInv /\ TypesInv' /\ PlaceInv' /\ InHandler(p)
    BY <2>1 DEF GpioInv, HandlerInv
  <2> QED BY <2>1, <2>2, CloseLeftType, HandlerStep, HandlerOfOthers
<1> QED BY <1>1, GpioInvariant, HandlersHold, PTL
=============================================================================
