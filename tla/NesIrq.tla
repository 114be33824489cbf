-------------------------------- MODULE NesIrq --------------------------------
(***************************************************************************)
(* The interrupt counters of the NES cartridges: what the program writes   *)
(* to them, what they count (CPU cycles, or the scanlines the PPU reports) *)
(* and the line they share with the sound chip's interrupts.               *)
(*                                                                         *)
(* `irqb' is the board's counter, `cartIrq' and `apuIrq' the two sources,  *)
(* `cpuIrq' the line at the processor, as nes_update_irq last left it.     *)
(* `due' counts, beside the code, the clocks that the values written last  *)
(* leave until the next interrupt; `rang' says that it has run out since   *)
(* the program last acknowledged, with the interrupt enabled.              *)
(* A counter is of two digits of base IrqHalf, as the chips' are of two    *)
(* bytes or nibbles.  A reset is left out (MMC5's clears its counter and   *)
(* its pending flag but not the line it drives).                           *)
(***************************************************************************)
EXTENDS Integers

CONSTANTS IrqHalf,     \* values of half a counter
          IrqDots,     \* dots of a line, for the VRCs' prescalers
          IrqLines     \* visible lines of a frame

ASSUME IrqSizes == IrqHalf \in Nat \ {0} /\ IrqDots \in Nat /\ IrqLines \in Nat

VARIABLES irqb, cartIrq, apuIrq, cpuIrq, due, rang

cartIrqVars == <<irqb, cartIrq, apuIrq, cpuIrq, due, rang>>

IrqTop == IrqHalf * IrqHalf - 1
Halves == 0..(IrqHalf - 1)
IrqBoards == {"mmc3", "mmc5", "vrc4", "vrc6", "rambo", "bandai", "n163", "fme7"}
WithLow(v, x) == (v \div IrqHalf) * IrqHalf + x
WithHigh(v, x) == (v % IrqHalf) + x * IrqHalf

NoCounter == [m |-> "none", latch |-> 0, ctr |-> 0, pre |-> 0, on |-> FALSE, after |-> FALSE,
              cycles |-> FALSE, reload |-> FALSE, counting |-> FALSE, pending |-> FALSE, line |-> 0]

\* Clocks until the counter b next interrupts, by its manual.
DueIn(b) ==
  CASE b.m \in {"mmc3", "rambo"} -> IF b.reload \/ b.ctr = 0 THEN b.latch + 1 ELSE b.ctr
    [] b.m \in {"vrc4", "vrc6"} -> IrqTop - b.ctr + 1
    [] b.m \in {"bandai", "fme7"} -> b.ctr + 1
    [] b.m = "n163" -> IF b.ctr = IrqTop THEN -1 ELSE IrqTop - b.ctr
    [] OTHER -> -1

\* nes_update_irq.
UpdateIrq == cpuIrq' = (apuIrq' \/ cartIrq')

----------------------------------------------------------------------------
\* Writes, as the pairs of the counter they leave and whether they
\* acknowledge.  The programs' order of writes is free.

Mmc3Writes(b) ==
  {<<[b EXCEPT !.latch = v], FALSE>> : v \in 0..IrqTop}
  \cup {<<[b EXCEPT !.reload = TRUE, !.ctr = 0], FALSE>>, <<[b EXCEPT !.on = FALSE], TRUE>>,
        <<[b EXCEPT !.on = TRUE], FALSE>>}

RamboWrites(b) ==
  {<<[b EXCEPT !.latch = v], FALSE>> : v \in 0..IrqTop}
  \cup {<<[b EXCEPT !.cycles = c, !.reload = TRUE, !.pre = 0], FALSE>> : c \in BOOLEAN}
  \cup {<<[b EXCEPT !.on = FALSE], TRUE>>, <<[b EXCEPT !.on = TRUE], FALSE>>}

\* The control register of a VRC: enable after an acknowledgement, enable, mode.
Vrc4Control(b, a, e, c) ==
  <<[b EXCEPT !.after = a, !.on = e, !.cycles = c, !.ctr = IF e THEN b.latch ELSE @,
              !.pre = IF e THEN IrqDots ELSE @], TRUE>>
Vrc4Controls(b) == {Vrc4Control(b, a, e, c) : a, e, c \in BOOLEAN}
Vrc4Writes(b) ==
  {<<[b EXCEPT !.latch = WithLow(@, x)], FALSE>> : x \in Halves}
  \cup {<<[b EXCEPT !.latch = WithHigh(@, x)], FALSE>> : x \in Halves}
  \cup Vrc4Controls(b)
  \cup {<<[b EXCEPT !.on = b.after], TRUE>>}

Vrc6Control(b, a, e, c) ==
  <<[b EXCEPT !.after = a, !.on = e, !.cycles = c, !.ctr = IF e THEN b.latch ELSE @,
              !.pre = IF e THEN 0 ELSE @], ~e>>
Vrc6Controls(b) == {Vrc6Control(b, a, e, c) : a, e, c \in BOOLEAN}
Vrc6Writes(b) ==
  {<<[b EXCEPT !.latch = v], FALSE>> : v \in 0..IrqTop}
  \cup Vrc6Controls(b)
  \cup {<<[b EXCEPT !.ctr = b.latch, !.on = b.after, !.pre = 0], TRUE>>}

BandaiWrites(b) ==
  {<<[b EXCEPT !.on = e, !.ctr = b.latch], TRUE>> : e \in BOOLEAN}
  \cup {<<[b EXCEPT !.latch = WithLow(@, x), !.ctr = WithLow(@, x)], FALSE>> : x \in Halves}
  \cup {<<[b EXCEPT !.latch = WithHigh(@, x), !.ctr = WithHigh(@, x)], FALSE>> : x \in Halves}

N163High(b, x, e) == <<[b EXCEPT !.ctr = WithHigh(@, x), !.on = e], TRUE>>
N163Highs(b) == {N163High(b, x, e) : x \in Halves, e \in BOOLEAN}
N163Writes(b) ==
  {<<[b EXCEPT !.ctr = WithLow(@, x)], TRUE>> : x \in Halves}
  \cup N163Highs(b)

Fme7Control(b, e, c) == <<[b EXCEPT !.on = e, !.counting = c], TRUE>>
Fme7Controls(b) == {Fme7Control(b, e, c) : e, c \in BOOLEAN}
Fme7Writes(b) ==
  Fme7Controls(b)
  \cup {<<[b EXCEPT !.ctr = WithLow(@, x)], FALSE>> : x \in Halves}
  \cup {<<[b EXCEPT !.ctr = WithHigh(@, x)], FALSE>> : x \in Halves}

\* The last one reads $5204.
Mmc5Writes(b) ==
  {<<[b EXCEPT !.latch = v], FALSE>> : v \in 0..IrqLines}
  \cup {<<[b EXCEPT !.on = TRUE], FALSE>>, <<[b EXCEPT !.on = FALSE, !.pending = FALSE], TRUE>>,
        <<[b EXCEPT !.pending = FALSE], TRUE>>}

CounterWrites(b) ==
  CASE b.m = "mmc3" -> Mmc3Writes(b)
    [] b.m = "rambo" -> RamboWrites(b)
    [] b.m = "vrc4" -> Vrc4Writes(b)
    [] b.m = "vrc6" -> Vrc6Writes(b)
    [] b.m = "bandai" -> BandaiWrites(b)
    [] b.m = "n163" -> N163Writes(b)
    [] b.m = "fme7" -> Fme7Writes(b)
    [] b.m = "mmc5" -> Mmc5Writes(b)
    [] OTHER -> {}

IrqWrite ==
  \E w \in CounterWrites(irqb) :
    /\ irqb' = w[1] /\ UNCHANGED apuIrq
    /\ cartIrq' = (cartIrq /\ ~w[2])
    /\ IF w[2] THEN UpdateIrq ELSE UNCHANGED cpuIrq
    /\ due' = DueIn(irqb') /\ rang' = (rang /\ ~w[2])

----------------------------------------------------------------------------
\* One clock of a counter, as the pair of what it becomes and whether it
\* interrupts.

Clocked(b) ==
  CASE b.m \in {"mmc3", "rambo"} ->
         LET n == IF b.reload \/ b.ctr = 0 THEN b.latch ELSE b.ctr - 1
         IN  <<[b EXCEPT !.ctr = n, !.reload = FALSE], n = 0 /\ b.on>>
    [] b.m \in {"vrc4", "vrc6"} ->
         IF b.ctr = IrqTop THEN <<[b EXCEPT !.ctr = b.latch], TRUE>> ELSE <<[b EXCEPT !.ctr = @ + 1], FALSE>>
    [] b.m = "bandai" -> <<[b EXCEPT !.ctr = (@ + IrqTop) % (IrqTop + 1)], b.ctr = 0>>
    [] b.m = "n163" -> IF b.ctr = IrqTop THEN <<b, FALSE>> ELSE <<[b EXCEPT !.ctr = @ + 1], b.ctr + 1 = IrqTop>>
    [] b.m = "fme7" -> <<[b EXCEPT !.ctr = (@ + IrqTop) % (IrqTop + 1)], b.ctr = 0 /\ b.on>>

MClock(b) ==
  /\ irqb' = Clocked(b)[1] /\ cartIrq' = (cartIrq \/ Clocked(b)[2])
  /\ UNCHANGED cpuIrq
  /\ due' = IF due = 1 THEN DueIn(irqb') ELSE due - 1
  /\ rang' = (rang \/ (due = 1 /\ b.on))
Clock(b) ==
  /\ irqb' = Clocked(b)[1] /\ cartIrq' = (cartIrq \/ Clocked(b)[2])
  /\ IF Clocked(b)[2] THEN UpdateIrq ELSE UNCHANGED cpuIrq
  /\ due' = IF due = 1 THEN DueIn(irqb') ELSE due - 1
  /\ rang' = (rang \/ (due = 1 /\ b.on))

\* A cycle that only moves the prescaler.
Prescale(b) == irqb' = b /\ UNCHANGED <<cartIrq, cpuIrq, due, rang>>

\* nes_board_tick and vrc6_tick: one CPU cycle.
CpuCycle ==
  LET b == irqb
      vrcPre == IF b.m = "vrc4" THEN b.pre - 3 ELSE b.pre + 1
      full == IF b.m = "vrc4" THEN vrcPre <= 0 ELSE vrcPre >= IrqDots
  IN  /\ UNCHANGED apuIrq
      /\ \/ b.m \in {"bandai", "n163"} /\ b.on /\ Clock(b)
         \/ b.m = "fme7" /\ b.counting /\ Clock(b)
         \/ b.m = "rambo" /\ b.cycles /\ IF b.pre + 1 >= 4 THEN Clock([b EXCEPT !.pre = 0])
                                         ELSE Prescale([b EXCEPT !.pre = @ + 1])
         \/ b.m \in {"vrc4", "vrc6"} /\ b.on /\ b.cycles /\ Clock(b)
         \/ /\ b.m \in {"vrc4", "vrc6"} /\ b.on /\ ~b.cycles
            /\ IF full THEN Clock([b EXCEPT !.pre = IF b.m = "vrc4" THEN vrcPre + IrqDots ELSE 0])
               ELSE Prescale([b EXCEPT !.pre = vrcPre])

\* The PPU reports line l, visible or the line before the frame; the program
\* does not turn rendering off, which would stop the reports.
Scanline ==
  /\ UNCHANGED apuIrq
  /\ irqb.m = "mmc3" \/ (irqb.m = "rambo" /\ ~irqb.cycles)
  /\ Clock(irqb)

Mmc5Scanline(l) ==
  LET n == IF irqb.counting THEN irqb.ctr + 1 ELSE 0
      hit == irqb.latch > 0 /\ n = irqb.latch
  IN  /\ irqb.m = "mmc5" /\ UNCHANGED apuIrq
      /\ IF l = IrqLines THEN irqb' = [irqb EXCEPT !.counting = FALSE, !.line = 0] /\ UNCHANGED <<cartIrq, cpuIrq, rang>>
         ELSE /\ irqb' = [irqb EXCEPT !.counting = TRUE, !.ctr = n, !.pending = @ \/ hit, !.line = l + 1]
              /\ cartIrq' = (cartIrq \/ (hit /\ irqb.on))
              /\ rang' = (rang \/ (l = irqb.latch /\ l > 0 /\ irqb.on))
              /\ IF hit /\ irqb.on THEN UpdateIrq ELSE UNCHANGED cpuIrq
      /\ UNCHANGED due

\* The sound chip raises or drops its own interrupt; catching up with it
\* ends in nes_update_irq.
ApuEvent ==
  /\ irqb.m # "none"
  /\ apuIrq' \in BOOLEAN /\ UNCHANGED <<irqb, cartIrq, due, rang>>
  /\ UpdateIrq

IrqPowerOn(m) ==
  /\ irqb.m = "none"
  /\ irqb' = [NoCounter EXCEPT !.m = m] /\ due' = DueIn(irqb')
  /\ UNCHANGED <<cartIrq, apuIrq, cpuIrq, rang>>

IrqInit ==
  /\ irqb = NoCounter /\ cartIrq = FALSE /\ apuIrq = FALSE /\ cpuIrq = FALSE
  /\ due = -1 /\ rang = FALSE

IrqNext ==
  \/ \E m \in IrqBoards : IrqPowerOn(m)
  \/ IrqWrite \/ CpuCycle \/ Scanline \/ Mmc5Scanline(irqb.line) \/ ApuEvent

----------------------------------------------------------------------------
\* The processor sees an interrupt of the cartridge on the very clock that
\* the values the program wrote call for and on no other, until it
\* acknowledges, and the sound chip's whenever that has one: a counter that
\* is off by one, a reload that is late or an acknowledgement that drops the
\* other source's interrupt would show.
CountersKeepTime ==
  /\ cartIrq = rang
  /\ cpuIrq = (cartIrq \/ apuIrq)
=============================================================================
