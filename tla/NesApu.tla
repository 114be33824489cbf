-------------------------------- MODULE NesApu --------------------------------
(***************************************************************************)
(* The 2A03's sound chip as the program can observe it: length counters,   *)
(* frame counter and its interrupt, and the memory reader of the delta     *)
(* channel with its interrupt and its requests for DMA.  What only sounds  *)
(* (timers, envelopes, sweep, the mixer) is left out.  Pure operators on   *)
(* a record:                                                               *)
(*   odd: the parity of the cycle                                          *)
(*   len, halt, en: length counters, their halt and enable bits            *)
(*   div, mode, new, delay: the frame counter and a write that takes       *)
(*     effect after some cycles; inhibit, frame: its interrupt             *)
(*   clear: $4015 was read and the interrupt is about to clear             *)
(*   timer, bits, empty, rem, start: the delta channel's reader            *)
(*   irqOn, loop, dmc: its interrupt; pending, abort: its DMA request      *)
(***************************************************************************)
EXTENDS Integers

CONSTANTS ApuChannels,   \* channels with a length counter
          ApuLength,     \* what a length counter is loaded with
          ApuSteps,      \* cycles of the frame counter: q1, h, q3, irq, last, full5
          DmcHalf,       \* half a period of the delta channel, in cycles
          DmcBits,       \* bits of a sample byte
          DmcBytes       \* bytes of a sample

\* The shortest half period of the real chip is of 27 cycles.
ASSUME ApuSizes ==
  /\ ApuLength \in Nat /\ ApuSteps \in [h : Nat, last : Nat, full5 : Nat]
  /\ DmcHalf \in Nat \ 0..2 /\ DmcBits \in Nat \ {0} /\ DmcBytes \in Nat \ {0}

ApuReset ==
  [odd |-> 0, len |-> [c \in ApuChannels |-> 0], halt |-> [c \in ApuChannels |-> FALSE],
   en |-> [c \in ApuChannels |-> FALSE],
   div |-> 0, mode |-> 0, new |-> 0, delay |-> 0, inhibit |-> FALSE, frame |-> FALSE, clear |-> FALSE,
   timer |-> 0, bits |-> DmcBits, empty |-> TRUE, rem |-> 0, start |-> 0,
   irqOn |-> FALSE, loop |-> FALSE, dmc |-> FALSE, pending |-> FALSE, abort |-> FALSE]

ClockLengths(a) ==
  [a EXCEPT !.len = [c \in ApuChannels |-> IF a.halt[c] \/ a.len[c] = 0 THEN a.len[c] ELSE a.len[c] - 1]]

\* The output unit takes the buffer when its bits are used up.
DmcOutput(a) ==
  CASE a.odd = 1 -> a
    [] a.odd = 0 /\ a.timer > 0 -> [a EXCEPT !.timer = @ - 1]
    [] a.odd = 0 /\ a.timer = 0 /\ a.bits > 1 -> [a EXCEPT !.timer = DmcHalf - 1, !.bits = @ - 1]
    [] OTHER -> [a EXCEPT !.timer = DmcHalf - 1, !.bits = DmcBits, !.empty = TRUE]

DmcReader(a) ==
  IF a.start > 1 THEN [a EXCEPT !.start = @ - 1]
  ELSE [a EXCEPT !.start = 0, !.pending = @ \/ (a.empty /\ a.rem > 0)]

DelayedWrite(a) ==
  IF a.delay # 1 THEN [a EXCEPT !.delay = IF @ > 0 THEN @ - 1 ELSE 0]
  ELSE LET b == [a EXCEPT !.delay = 0, !.mode = a.new, !.div = 0]
       IN  IF a.new = 1 THEN ClockLengths(b) ELSE b

FrameCounter(a) ==
  LET t == a.div + 1
      half == t = ApuSteps.h \/ (a.mode = 0 /\ t = ApuSteps.last - 1) \/ (a.mode = 1 /\ t = ApuSteps.full5)
      wraps == IF a.mode = 0 THEN t = ApuSteps.last ELSE t = ApuSteps.full5 + 1
      irq == a.mode = 0 /\ t \in (ApuSteps.last - 2)..ApuSteps.last /\ ~a.inhibit
      counted == [a EXCEPT !.div = IF wraps THEN 0 ELSE t, !.frame = @ \/ irq]
  IN  IF half THEN ClockLengths(counted) ELSE counted

ApuTick(a) ==
  LET b == DmcReader(DmcOutput([a EXCEPT !.odd = 1 - @]))
      c == IF b.clear /\ b.odd = 1 THEN [b EXCEPT !.frame = FALSE, !.clear = FALSE] ELSE b
  IN  FrameCounter(DelayedWrite(c))

\* The state n cycles on, for n small.
ApuRun(a, n) ==
  LET at[k \in 0..n] == IF k = 0 THEN a ELSE ApuTick(at[k - 1])
  IN  at[n]

ApuIrq(a) == a.frame \/ a.dmc

\* apu2a03_until_event: a number of cycles in which nothing can happen that
\* the program would see without asking the chip.
Forever == 99
MApuUntilEvent(a) ==
  LET frame == IF a.mode = 0 /\ ~a.inhibit
               THEN (IF a.div < ApuSteps.last - 2 THEN ApuSteps.last - 2 - a.div ELSE 1) ELSE Forever
      k == a.timer + 1 + (a.bits - 1) * DmcHalf
      dmc == CASE a.empty /\ a.rem > 0 /\ ~a.pending -> 0
               [] ~a.empty /\ a.rem > 0 -> 2 * k
               [] OTHER -> Forever
  IN  IF a.delay > 0 \/ a.clear \/ a.start > 0 THEN 0 ELSE IF dmc < frame THEN dmc ELSE frame
ApuUntilEvent(a) ==
  LET frame == IF a.mode = 0 /\ ~a.inhibit
               THEN (IF a.div < ApuSteps.last - 2 THEN ApuSteps.last - 2 - a.div ELSE 1) ELSE Forever
      k == a.timer + 1 + (a.bits - 1) * DmcHalf
      dmc == CASE a.empty /\ a.rem > 0 /\ ~a.pending -> 0
               [] ~a.empty /\ a.rem > 0 -> 2 * k - a.odd - 1
               [] OTHER -> Forever
  IN  IF a.delay > 0 \/ a.clear \/ a.start > 0 THEN 0 ELSE IF dmc < frame THEN dmc ELSE frame

----------------------------------------------------------------------------
\* Accesses of the program.

ApuHalt(a, c, h) == [a EXCEPT !.halt[c] = h]
ApuLoad(a, c) == IF a.en[c] THEN [a EXCEPT !.len[c] = ApuLength] ELSE a
DmcControl(a, irqOn, loop) ==
  [a EXCEPT !.irqOn = irqOn, !.loop = loop, !.dmc = @ /\ irqOn]

\* $4015: enable the channels in on; delta starts or stops the sample.
ApuEnable(a, on, delta) ==
  LET b == [a EXCEPT !.en = [c \in ApuChannels |-> c \in on],
                     !.len = [c \in ApuChannels |-> IF c \in on THEN a.len[c] ELSE 0],
                     !.dmc = FALSE]
  IN  IF delta
      THEN IF a.rem > 0 THEN b
           ELSE [b EXCEPT !.rem = DmcBytes, !.start = IF a.empty THEN (IF a.odd = 0 THEN 3 ELSE 2) ELSE @]
      ELSE [b EXCEPT !.rem = 0, !.start = 0, !.pending = FALSE, !.abort = @ \/ a.pending]

\* $4017: v is 1 for five steps.
FrameWrite(a, v, inhibit) ==
  [a EXCEPT !.inhibit = inhibit, !.frame = @ /\ ~inhibit, !.clear = @ /\ ~inhibit,
            !.new = v, !.delay = IF a.odd = 0 THEN 4 ELSE 3]

ApuStatus(a) == <<{c \in ApuChannels : a.len[c] > 0}, a.rem > 0, a.frame, a.dmc>>
ApuStatusRead(a) == [a EXCEPT !.clear = @ \/ a.frame]

\* The byte that the DMA fetched arrives.
DmcFill(a) ==
  LET b == [a EXCEPT !.pending = FALSE]
  IN  IF a.rem = 0 THEN b
      ELSE [b EXCEPT !.empty = FALSE,
                     !.rem = IF a.rem = 1 /\ a.loop THEN DmcBytes ELSE @ - 1,
                     !.dmc = @ \/ (a.rem = 1 /\ ~a.loop /\ a.irqOn)]
=============================================================================
