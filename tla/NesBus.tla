-------------------------------- MODULE NesBus --------------------------------
(***************************************************************************)
(* The bus of the NES, cycle by cycle: the sound chip that is left behind  *)
(* and brought up to date only when something of it can be seen, and the   *)
(* DMAs that halt the processor, of sprites and of the delta channel, on   *)
(* their own and together.                                                 *)
(*                                                                         *)
(* `apu' is the chip as it was `behind' cycles ago, `left' the number of   *)
(* cycles after which it is looked at (apu_deadline); `irqLine' the        *)
(* interrupt at the processor.  `dma' holds the flags of the machine,      *)
(* `inDma' that the processor is halted, `even' the parity of the cycle.   *)
(* `latch' is the byte read for the sprites, `sprites' what was written.   *)
(* `writes' counts the writes in a row: an instruction makes at most       *)
(* three (entering an interrupt).                                         *)
(* A read that a DMA halts is of no register: the repeated reads of 4015,  *)
(* 4016 and 4017 and their conflicts with the DMA's addresses are left     *)
(* out, and so is a reset, which leaves the flags of a DMA alone.          *)
(* A history variable: `along' is the chip run to the present cycle.       *)
(***************************************************************************)
EXTENDS NesApu, Sequences

CONSTANT OamBytes      \* bytes of a sprite DMA

ASSUME BusSizes == OamBytes \in Nat \ {0}

\* A frame counter of a few cycles, in proportion.
ShortSteps == [h |-> 4, last |-> 9, full5 |-> 11]

VARIABLES apu, behind, left, irqLine, dma, inDma, even, latch, sprites, writes, along

busVars == <<apu, behind, left, irqLine, dma, inDma, even, latch, sprites, writes, along>>

Idle == [halt |-> FALSE, dmc |-> FALSE, dummy |-> FALSE, abort |-> FALSE, oam |-> FALSE, n |-> 0]

BusInit ==
  /\ apu = ApuReset /\ behind = 0 /\ left = 0 /\ irqLine = FALSE
  /\ dma = Idle /\ inDma = FALSE /\ even = FALSE /\ latch = -1 /\ sprites = <<>>
  /\ writes = 0 /\ along = ApuReset

\* nes_dmc_dma_check, on a chip and the flags.
DmaCheck(a, d, in) ==
  LET asks == IF a.pending /\ ~d.dmc THEN [d EXCEPT !.dmc = TRUE, !.dummy = TRUE, !.halt = TRUE] ELSE d
      flags == CASE ~a.abort \/ ~asks.dmc -> asks
                 [] a.abort /\ asks.dmc /\ asks.halt /\ ~in ->
                      [asks EXCEPT !.dmc = FALSE, !.dummy = FALSE, !.halt = FALSE]
                 [] OTHER -> [asks EXCEPT !.abort = TRUE]
  IN  <<[a EXCEPT !.abort = FALSE], flags>>

\* nes_sync_all before the access of a cycle: the chip, its lag, when it is
\* due, the interrupt and the flags afterwards.
Synced ==
  IF behind + 1 >= left
  THEN LET c == DmaCheck(ApuRun(apu, behind + 1), dma, inDma)
       IN  [apu |-> c[1], behind |-> 0, left |-> ApuUntilEvent(c[1]), irq |-> ApuIrq(c[1]), dma |-> c[2]]
  ELSE [apu |-> apu, behind |-> behind + 1, left |-> left, irq |-> irqLine, dma |-> dma]

\* nes_sync_apu_to_cpu for an access to the chip itself.
UpToDate(s) == DmaCheck(ApuRun(s.apu, s.behind), s.dma, inDma)

Settle(a, lag, due, i, d) ==
  /\ along' = ApuRun(a, lag)
  /\ apu' = a /\ behind' = lag /\ left' = due /\ irqLine' = i /\ dma' = d

----------------------------------------------------------------------------
\* A cycle of the processor.

\* It reads something else than the chip; a DMA that waits takes the cycle.
BusRead ==
  /\ ~inDma /\ even' = ~even /\ writes' = 0
  /\ Settle(Synced.apu, Synced.behind, Synced.left, Synced.irq,
            IF ~Synced.dma.halt THEN Synced.dma
            ELSE IF Synced.dma.abort THEN [Synced.dma EXCEPT !.dmc = FALSE, !.dummy = FALSE, !.abort = FALSE, !.halt = FALSE]
                 ELSE [Synced.dma EXCEPT !.halt = FALSE, !.n = 0])
  /\ inDma' = Synced.dma.halt
  /\ sprites' = IF Synced.dma.halt /\ Synced.dma.oam THEN <<>> ELSE sprites
  /\ UNCHANGED latch

Writing == ~inDma /\ writes < 3 /\ writes' = writes + 1

\* It writes something else: a write cannot be halted.
BusWrite ==
  /\ Writing /\ even' = ~even
  /\ Settle(Synced.apu, Synced.behind, Synced.left, Synced.irq, Synced.dma)
  /\ UNCHANGED <<inDma, latch, sprites>>

\* Write to $4014.
BusOam ==
  /\ Writing /\ even' = ~even
  /\ Settle(Synced.apu, Synced.behind, Synced.left, Synced.irq, [Synced.dma EXCEPT !.oam = TRUE, !.halt = TRUE])
  /\ UNCHANGED <<inDma, latch, sprites>>

\* Writes to the chip's registers.  An instruction that writes $4014 does not
\* write another register in its next cycle, so a sprite DMA is not waiting.
ApuWrites(a) ==
  {ApuHalt(a, c, h) : c \in ApuChannels, h \in BOOLEAN}
  \cup {ApuLoad(a, c) : c \in ApuChannels}
  \cup {DmcControl(a, i, l) : i, l \in BOOLEAN}
  \cup {ApuEnable(a, on, d) : on \in SUBSET ApuChannels, d \in BOOLEAN}
  \cup {FrameWrite(a, v, i) : v \in 0..1, i \in BOOLEAN}

BusApuWrite ==
  /\ Writing /\ ~dma.oam /\ even' = ~even
  /\ \E a \in ApuWrites(UpToDate(Synced)[1]) :
       LET c == DmaCheck(a, UpToDate(Synced)[2], FALSE)
       IN  Settle(c[1], 0, 0, ApuIrq(c[1]), c[2])
  /\ UNCHANGED <<inDma, latch, sprites>>

\* Read of $4015.
BusStatus ==
  /\ ~inDma /\ ~Synced.dma.halt /\ even' = ~even /\ writes' = 0
  /\ LET u == UpToDate(Synced)
     IN  Settle(ApuStatusRead(u[1]), 0, 0, ApuIrq(u[1]), u[2])
  /\ UNCHANGED <<inDma, latch, sprites>>

----------------------------------------------------------------------------
\* A cycle of DMA (the loop of nes_run_dma).  The processor goes on in the
\* cycle after the last one.

\* Whether n accesses of a sprite DMA are all: two for each byte.
MOamDone(n) == n = 2 * OamBytes - 2
OamDone(n) == n = 2 * OamBytes

DmaCycle ==
  LET ready == dma.dmc /\ ~dma.halt /\ ~dma.dummy
      cut == IF dma.abort THEN [dma EXCEPT !.dmc = FALSE, !.dummy = FALSE, !.abort = FALSE, !.halt = FALSE] ELSE dma
      waited == CASE cut.halt -> [cut EXCEPT !.halt = FALSE]
                  [] ~cut.halt /\ cut.dummy -> [cut EXCEPT !.dummy = FALSE]
                  [] OTHER -> cut
      s == IF behind + 1 >= left
           THEN LET c == DmaCheck(ApuRun(apu, behind + 1), waited, TRUE)
                IN  [apu |-> c[1], behind |-> 0, left |-> ApuUntilEvent(c[1]), irq |-> ApuIrq(c[1]), dma |-> c[2]]
           ELSE [apu |-> apu, behind |-> behind + 1, left |-> left, irq |-> irqLine, dma |-> waited]
      get == ~even          \* the cycle now run is an even one
  IN  /\ inDma /\ (dma.dmc \/ dma.oam) /\ even' = ~even /\ UNCHANGED writes
      /\ \/ /\ get /\ ready /\ ~dma.abort
            /\ Settle(DmcFill(s.apu), s.behind, 0, s.irq, [s.dma EXCEPT !.dmc = FALSE])
            /\ UNCHANGED <<latch, sprites>>
         \/ /\ get /\ ~(ready /\ ~dma.abort) /\ dma.oam /\ dma.n % 2 = 0
            /\ latch' = dma.n \div 2
            /\ Settle(s.apu, s.behind, s.left, s.irq, [s.dma EXCEPT !.n = @ + 1])
            /\ UNCHANGED sprites
         \/ /\ ~get /\ dma.oam /\ dma.n % 2 = 1
            /\ sprites' = Append(sprites, latch)
            /\ Settle(s.apu, s.behind, s.left, s.irq,
                      IF OamDone(dma.n + 1) THEN [s.dma EXCEPT !.oam = FALSE, !.n = 0] ELSE [s.dma EXCEPT !.n = @ + 1])
            /\ UNCHANGED latch
         \/ /\ IF get THEN ~(ready /\ ~dma.abort) /\ ~(dma.oam /\ dma.n % 2 = 0) ELSE ~(dma.oam /\ dma.n % 2 = 1)
            /\ Settle(s.apu, s.behind, s.left, s.irq, s.dma)
            /\ UNCHANGED <<latch, sprites>>
      /\ inDma' = (dma'.dmc \/ dma'.oam)

BusNext == BusRead \/ BusWrite \/ BusOam \/ BusApuWrite \/ BusStatus \/ DmaCycle

BusSpec == BusInit /\ [][BusNext]_busVars

----------------------------------------------------------------------------
\* The chip that is brought up to date only when it must be cannot be told
\* from one that runs along.
Eager == INSTANCE NesEager WITH
           chip <- along, irq <- irqLine, asked <- dma.dmc /\ ~dma.abort
RunsAlong == Eager!EagerMostly
RunsExactly == Eager!EagerSpec

\* Sprite DMA moves the bytes of its page in order and exactly once, though
\* the delta channel takes cycles out of the middle of it, and once no DMA
\* is asked for any more the processor runs, with nothing left unfetched.
DmaDelivers ==
  /\ \A i \in 1..Len(sprites) : sprites[i] = i - 1
  /\ ~inDma /\ ~dma.halt => Len(sprites) \in {0, OamBytes} /\ ~dma.dmc /\ ~dma.oam
  /\ ~inDma /\ behind = 0 => (apu.pending => dma.dmc)
=============================================================================
