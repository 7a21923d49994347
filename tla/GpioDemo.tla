------------------------------ MODULE GpioDemo ------------------------------
(***************************************************************************)
(* gpio-demo.c: a program that borrows the pins of a GPIO chip from the    *)
(* kernel, reads or drives them, and gives them back.  Several instances   *)
(* may run on one chip.  The pins are exported and given back one at a     *)
(* time, and whoever gives a pin back takes it from everybody.             *)
(*                                                                         *)
(* The program ignores what the functions that touch pins return, and its  *)
(* signal handler gives the pins back and exits from wherever it ran.      *)
(***************************************************************************)
EXTENDS Integers, Sequences

CONSTANTS
    Procs,      \* the instances
    Signals,    \* SIGTERM, SIGHUP, SIGQUIT, SIGINT in the order of main
    Width,      \* the channels of the chip
    IntBits,    \* the bits of an int
    Values,     \* what -o may be given
    Patterns    \* cylon and kit, as functions of the option

Channels == 0 .. Width - 1
Bits     == 0 .. IntBits - 1
Options  == {"NONE", "IN", "OUT"} \cup DOMAIN Patterns

ASSUME GpioAssumption ==
    /\ Width \in Nat \ {0} /\ IntBits \in Nat \ {0} /\ Values \subseteq Nat
    /\ Signals \in Seq(STRING)
    /\ \A o \in DOMAIN Patterns : Patterns[o] \in Seq(Nat) \ {<< >>}

VARIABLES
    pc,         \* where an instance is
    opt,        \* gpio_opt
    nchannel,   \* what open_gpio_channel returned
    chan,       \* c of the loop it is in
    frame,      \* i, the entry of a pattern
    value,      \* value, an int, shifted in or out bit by bit
    caught,     \* the signals with a handler
    handling,   \* the signals in whose handler it is
    exported,   \* the kernel: the pins user space has
    direction,  \* the kernel: of each pin
    level,      \* the kernel: what it drives each output to
    word,       \* observation: the number an instance is to set
    last,       \* observation: that number, of who set each pin last
    seen        \* observation: the bits read, the lowest pin first

procvars == <<opt, nchannel, frame, caught, handling>>
pins     == <<direction, level, last>>
kernel   == <<exported, pins>>
vars == <<pc, chan, value, procvars, kernel, word, seen>>

Gone == {"exited", "failed", "killed"}

(* The bits of a number, and what is left of it in an int; the shifts of   *)
(* an int, to the right with its sign.                                     *)
Bit(v, c)     == (v \div 2^c) % 2
ToInt(v)      == [j \in Bits |-> Bit(v, j)]
ShiftOut(x)   == [j \in Bits |-> IF j + 1 \in Bits THEN x[j + 1] ELSE x[j]]
ShiftIn(x, b) == [j \in Bits |-> IF j = 0 THEN b ELSE x[j - 1]]
Zero          == [j \in Bits |-> 0]
MinusOne      == [j \in Bits |-> 1]

Init ==
    /\ pc = [p \in Procs |-> "start"] /\ opt = [p \in Procs |-> "NONE"]
    /\ nchannel = [p \in Procs |-> 0] /\ chan = [p \in Procs |-> 0]
    /\ frame = [p \in Procs |-> 1] /\ value = [p \in Procs |-> Zero]
    /\ caught = [p \in Procs |-> {}] /\ handling = [p \in Procs |-> {}]
    /\ exported = {} /\ direction = [c \in Channels |-> "in"]
    /\ level = [c \in Channels |-> 0] /\ last = [c \in Channels |-> 0]
    /\ word = [p \in Procs |-> 0] /\ seen = [p \in Procs |-> << >>]

Goto(p, s) == pc' = [pc EXCEPT ![p] = s]
At(p, c)   == chan' = [chan EXCEPT ![p] = c]

-----------------------------------------------------------------------------
(* Start-up. *)

(* The options; without -g, or with one that is unknown, usage exits. *)
Start(p) ==
    /\ pc[p] = "start"
    /\ \/ Goto(p, "exited") /\ UNCHANGED <<opt, value, word>>
       \/ /\ Goto(p, "open")
          /\ \E o \in Options, v \in Values :
                /\ opt' = [opt EXCEPT ![p] = o]
                /\ value' = [value EXCEPT ![p] = IF o = "OUT" THEN ToInt(v) ELSE Zero]
                /\ word' = [word EXCEPT ![p] = IF o = "OUT" THEN v ELSE 0]
    /\ UNCHANGED <<chan, nchannel, frame, caught, handling, kernel, seen>>

(* open_gpio_channel reads how many pins there are; a file that cannot be  *)
(* opened makes it return -1, which nobody looks at, a number that cannot  *)
(* be read ends the program.                                               *)
Open(p) ==
    /\ pc[p] = "open"
    /\ \/ Goto(p, "export") /\ nchannel' = [nchannel EXCEPT ![p] = Width]
       \/ Goto(p, "catch") /\ nchannel' = [nchannel EXCEPT ![p] = -1]
       \/ Goto(p, "exited") /\ UNCHANGED nchannel
    /\ At(p, 0)
    /\ UNCHANGED <<opt, frame, value, caught, handling, kernel, word, seen>>

(* One pin more, unless somebody else in the kernel holds it; what the     *)
(* write returns is not looked at.                                         *)
Export(p) ==
    /\ pc[p] = "export"
    /\ IF chan[p] < Width
       THEN /\ exported' \in {exported, exported \cup {chan[p]}}
            /\ At(p, chan[p] + 1) /\ UNCHANGED pc
       ELSE Goto(p, "catch") /\ UNCHANGED <<exported, chan>>
    /\ UNCHANGED <<value, procvars, pins, word, seen>>

(* The handlers are installed one by one, after the pins were taken. *)
Catch(p) ==
    /\ pc[p] = "catch"
    /\ \E i \in DOMAIN Signals :
          /\ Signals[i] \notin caught[p]
          /\ \A j \in 1 .. i - 1 : Signals[j] \in caught[p]
          /\ caught' = [caught EXCEPT ![p] = @ \cup {Signals[i]}]
          /\ IF i = Len(Signals)
             THEN Goto(p, IF opt[p] = "NONE" THEN "reopen" ELSE "direction")
             ELSE UNCHANGED pc
    /\ At(p, 0)
    /\ UNCHANGED <<value, opt, nchannel, frame, handling, kernel, word, seen>>

-----------------------------------------------------------------------------
(* The loops over the pins.  Each ends early at a pin that is not there.   *)

Direction(p) ==
    /\ pc[p] = "direction"
    /\ IF chan[p] < nchannel[p] /\ chan[p] \in exported
       THEN /\ direction' = [direction EXCEPT ![chan[p]] = IF opt[p] = "IN" THEN "in" ELSE "out"]
            /\ level' = [level EXCEPT ![chan[p]] = 0] /\ last' = [last EXCEPT ![chan[p]] = 0]
            /\ At(p, chan[p] + 1) /\ UNCHANGED <<pc, value, word>>
       ELSE /\ UNCHANGED pins
            /\ IF opt[p] = "IN"
               THEN Goto(p, "get") /\ At(p, nchannel[p] - 1) /\ UNCHANGED <<value, word>>
               ELSE /\ Goto(p, "set") /\ At(p, 0)
                    /\ IF opt[p] = "OUT" THEN UNCHANGED <<value, word>>
                       ELSE /\ value' = [value EXCEPT ![p] = ToInt(Patterns[opt[p]][1])]
                            /\ word' = [word EXCEPT ![p] = Patterns[opt[p]][1]]
    /\ UNCHANGED <<procvars, exported, seen>>

SetBitSkips(p) ==   \* Fault: past a write the kernel drops, value is not shifted
    /\ pc[p] = "set" /\ chan[p] < nchannel[p] /\ chan[p] \in exported
    /\ IF direction[chan[p]] = "out"
       THEN /\ level' = [level EXCEPT ![chan[p]] = value[p][0]]
            /\ last' = [last EXCEPT ![chan[p]] = word[p]]
            /\ value' = [value EXCEPT ![p] = ShiftOut(@)]
       ELSE UNCHANGED <<level, last, value>>
    /\ At(p, chan[p] + 1)
    /\ UNCHANGED <<pc, procvars, exported, direction, word, seen>>

(* set_gpio_value: a bit to each pin, the lowest first.  The kernel drops  *)
(* a write to a pin another instance has turned into an input; nobody      *)
(* looks at what the write returns, and value is shifted all the same.     *)
SetBit(p) ==
    /\ pc[p] = "set" /\ chan[p] < nchannel[p] /\ chan[p] \in exported
    /\ IF direction[chan[p]] = "out"
       THEN /\ level' = [level EXCEPT ![chan[p]] = value[p][0]]
            /\ last' = [last EXCEPT ![chan[p]] = word[p]]
       ELSE UNCHANGED <<level, last>>
    /\ value' = [value EXCEPT ![p] = ShiftOut(@)]
    /\ At(p, chan[p] + 1)
    /\ UNCHANGED <<pc, procvars, exported, direction, word, seen>>

(* The loop is over: -o is done, a pattern goes on with its next entry,    *)
(* also when there was no pin to set.                                      *)
SetEnd(p) ==
    /\ pc[p] = "set" /\ ~(chan[p] < nchannel[p] /\ chan[p] \in exported)
    /\ IF opt[p] = "OUT"
       THEN Goto(p, "reopen") /\ UNCHANGED <<frame, value, word, chan>>
       ELSE LET pattern == Patterns[opt[p]]
                next == IF frame[p] < Len(pattern) THEN frame[p] + 1 ELSE 1
            IN  /\ frame' = [frame EXCEPT ![p] = next]
                /\ value' = [value EXCEPT ![p] = ToInt(pattern[next])]
                /\ word' = [word EXCEPT ![p] = pattern[next]]
                /\ At(p, 0) /\ UNCHANGED pc
    /\ UNCHANGED <<opt, nchannel, caught, handling, kernel, seen>>

(* get_gpio_value: a bit from each pin, the highest first.  An input may   *)
(* read as anything.                                                       *)
GetBit(p) ==
    /\ pc[p] = "get" /\ chan[p] >= 0 /\ chan[p] \in exported
    /\ \E b \in IF direction[chan[p]] = "in" THEN {0, 1} ELSE {level[chan[p]]} :
          /\ value' = [value EXCEPT ![p] = ShiftIn(@, b)]
          /\ seen' = [seen EXCEPT ![p] = <<b>> \o @]
    /\ At(p, chan[p] - 1)
    /\ UNCHANGED <<pc, procvars, kernel, word>>

(* What is printed: the value, or -1 when a pin was not there. *)
GetEnd(p) ==
    /\ pc[p] = "get" /\ ~(chan[p] >= 0 /\ chan[p] \in exported)
    /\ value' = [value EXCEPT ![p] = IF chan[p] >= 0 THEN MinusOne ELSE @]
    /\ Goto(p, "reopen")
    /\ UNCHANGED <<chan, procvars, kernel, word, seen>>

-----------------------------------------------------------------------------
(* close_gpio_channel, called by main at its end and by the handler. *)

(* What the rest of an instance's life does not depend on any more. *)
Forget(p) ==
    /\ opt' = [opt EXCEPT ![p] = "NONE"] /\ nchannel' = [nchannel EXCEPT ![p] = 0]
    /\ frame' = [frame EXCEPT ![p] = 1] /\ value' = [value EXCEPT ![p] = Zero]
    /\ word' = [word EXCEPT ![p] = 0] /\ seen' = [seen EXCEPT ![p] = << >>]
    /\ At(p, 0)

(* The chip is looked up again. *)
Reopen(p) ==
    /\ pc[p] = "reopen"
    /\ Goto(p, "close") \/ Goto(p, "failed")
    /\ Forget(p)
    /\ UNCHANGED <<caught, handling, kernel>>

CloseOneMore(p) ==   \* Fault: <= for <
    /\ pc[p] = "close"
    /\ IF chan[p] <= Width
       THEN exported' = exported \ {chan[p]} /\ At(p, chan[p] + 1) /\ UNCHANGED pc
       ELSE Goto(p, "exited") /\ UNCHANGED <<exported, chan>>
    /\ UNCHANGED <<value, procvars, pins, word, seen>>

CloseShort(p) ==   \* Fault: the last pin is forgotten
    /\ pc[p] = "close"
    /\ IF chan[p] < Width - 1
       THEN exported' = exported \ {chan[p]} /\ At(p, chan[p] + 1) /\ UNCHANGED pc
       ELSE Goto(p, "exited") /\ UNCHANGED <<exported, chan>>
    /\ UNCHANGED <<value, procvars, pins, word, seen>>

(* One pin less, whoever exported it. *)
Close(p) ==
    /\ pc[p] = "close"
    /\ IF chan[p] < Width
       THEN exported' = exported \ {chan[p]} /\ At(p, chan[p] + 1) /\ UNCHANGED pc
       ELSE Goto(p, "exited") /\ UNCHANGED <<exported, chan>>
    /\ UNCHANGED <<value, procvars, pins, word, seen>>

SignalSetsFlag(p) ==   \* Fault: the handler sets a flag nobody reads
    /\ pc[p] \notin Gone \cup {"start"}
    /\ \E i \in DOMAIN Signals :
          /\ Signals[i] \in caught[p] \ handling[p]
          /\ handling' = [handling EXCEPT ![p] = @ \cup {Signals[i]}]
    /\ UNCHANGED <<pc, opt, nchannel, frame, value, word, seen, chan, caught, kernel>>

(* A signal kills, unless it has a handler; then its handler runs from its *)
(* start, wherever the instance was, also inside the handler of another    *)
(* signal.  The handler of a signal holds off that signal.                 *)
Signal(p) ==
    /\ pc[p] \notin Gone \cup {"start"}
    /\ \E i \in DOMAIN Signals :
          /\ Signals[i] \notin handling[p]
          /\ IF Signals[i] \in caught[p]
             THEN Goto(p, "reopen") /\ handling' = [handling EXCEPT ![p] = @ \cup {Signals[i]}]
             ELSE Goto(p, "killed") /\ UNCHANGED handling
    /\ Forget(p)
    /\ UNCHANGED <<caught, kernel>>

Run(p) ==
    \/ Start(p) \/ Open(p) \/ Export(p) \/ Catch(p) \/ Direction(p)
    \/ SetBit(p) \/ SetEnd(p) \/ GetBit(p) \/ GetEnd(p) \/ Reopen(p) \/ Close(p)

Next == \E p \in Procs : Run(p) \/ Signal(p)

Spec == Init /\ [][Next]_vars

(* Every instance is scheduled. *)
FairSpec == Spec /\ \A p \in Procs : WF_vars(Run(p))

-----------------------------------------------------------------------------
(* Properties. *)

TypeOK ==
    /\ \A p \in Procs :
          /\ pc[p] \in Gone \cup {"start", "open", "export", "catch", "direction",
                                  "set", "get", "reopen", "close"}
          /\ opt[p] \in Options
          /\ nchannel[p] \in {-1, 0, Width}
          /\ chan[p] \in -2 .. Width
          /\ value[p] \in [Bits -> {0, 1}] /\ word[p] \in Nat
          /\ frame[p] \in 1 .. (IF opt[p] \in DOMAIN Patterns THEN Len(Patterns[opt[p]]) ELSE 1)
          /\ handling[p] \subseteq caught[p]
          /\ caught[p] \subseteq {Signals[i] : i \in DOMAIN Signals}
    /\ exported \subseteq Channels
    /\ direction \in [Channels -> {"in", "out"}] /\ level \in [Channels -> {0, 1}]

(* When all instances have ended on their own or in a handler, no pin is   *)
(* left exported, wherever each was stopped once it had its handlers: not  *)
(* by two that gave back each other's pins, nor by handlers inside         *)
(* handlers.  A kill before the handlers are there, while the pins are     *)
(* being exported included, or a chip that cannot be looked up again does  *)
(* leave pins behind.                                                      *)
NothingLeftExported ==
    (\A p \in Procs : pc[p] = "exited") => exported = {}

(* Bit c of a number once it is in an int: above the int, its sign. *)
IntBit(v, c) == Bit(v, IF c \in Bits THEN c ELSE IntBits - 1)

(* Every pin is driven to its own bit of the number of whoever drove it    *)
(* last, whatever other instances did to the pins below it: given back,    *)
(* exported again, or turned into inputs, so that the kernel dropped what  *)
(* was written there.  And a value read whole has, as far as it fits an    *)
(* int, bit c as it was read at pin c, though it was read from the top.    *)
BitsKeepTheirPlace ==
    /\ \A c \in Channels : level[c] = IntBit(last[c], c)
    /\ \A p \in Procs :
          opt[p] = "IN" /\ pc[p] = "reopen" /\ Len(seen[p]) = Width =>
              \A c \in Channels \cap Bits : value[p][c] = seen[p][c + 1]

(* A handler that has begun ends its instance, also one in an endless      *)
(* pattern on pins that are gone.                                          *)
SignalEnds ==
    \A p \in Procs : (handling[p] # {}) ~> (pc[p] \in Gone)
=============================================================================
