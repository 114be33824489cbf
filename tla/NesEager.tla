------------------------------- MODULE NesEager -------------------------------
(***************************************************************************)
(* What the console promises of its sound chip: on every cycle of the bus  *)
(* the chip has run as far as the processor has, the interrupt line is the *)
(* chip's, and a request for DMA is noticed in the cycle that makes it.    *)
(***************************************************************************)
EXTENDS NesApu

VARIABLES chip, irq, asked

eagerVars == <<chip, irq, asked>>

EagerInit == chip = ApuReset /\ irq = FALSE /\ asked = FALSE

\* What an access of the program can make of the chip.
EagerAccesses(a) ==
  {a, ApuStatusRead(a)}
  \cup {ApuHalt(a, c, h) : c \in ApuChannels, h \in BOOLEAN}
  \cup {ApuLoad(a, c) : c \in ApuChannels}
  \cup {DmcControl(a, i, l) : i, l \in BOOLEAN}
  \cup {[ApuEnable(a, on, d) EXCEPT !.abort = FALSE] : on \in SUBSET ApuChannels, d \in BOOLEAN}
  \cup {FrameWrite(a, v, i) : v \in 0..1, i \in BOOLEAN}

\* A cycle: the chip ticks, and the program may access it or the byte that
\* a DMA fetched may arrive.  The interrupt of a sample that ends shows in
\* the cycle after its last byte.
EagerCycle ==
  \E ticked \in {ApuTick(chip)}, next \in {chip'} :
    /\ \/ next \in EagerAccesses(ticked) /\ irq' = ApuIrq(next)
       \/ next = DmcFill(ticked) /\ irq' = ApuIrq(ticked)
    /\ asked' = next.pending

EagerNext == chip'.odd # chip.odd /\ EagerCycle

EagerSpec == EagerInit /\ [][EagerNext]_eagerVars

\* Except that a byte which arrives just after the output unit came to the
\* end of its bits may be played as if it had come before: the unit takes it,
\* and the chip asks for the next byte one cycle later.
EagerOvertakes ==
  \E ticked \in {ApuTick(chip)} :
    /\ ticked.pending /\ ticked.bits = DmcBits
    /\ chip' = [DmcFill(ticked) EXCEPT !.empty = TRUE, !.pending = DmcFill(ticked).rem > 0]
    /\ irq' = ApuIrq(ticked) /\ asked' = FALSE

EagerMostlyNext == chip'.odd # chip.odd /\ (EagerCycle \/ EagerOvertakes)

EagerMostly == EagerInit /\ [][EagerMostlyNext]_eagerVars
=============================================================================
