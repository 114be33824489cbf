------------------------------ MODULE Cdp1802 ------------------------------
(***************************************************************************)
(* The CDP1802 core and the CDP1861 video chip that clocks it: one machine *)
(* cycle a step, on_sync (cdp1861_sync) first and then the core's fetch,   *)
(* execute, DMA or interrupt cycle.                                        *)
(*                                                                         *)
(* The chip interrupts once a frame, and on each display line asks for the *)
(* DMA of eight bytes; the interrupt routine counts cycles to move R(0) in *)
(* the six that DMA leaves of a line.  Registers and memory are left out;  *)
(* instructions are told apart by their length and by what they do to the  *)
(* control state.                                                          *)
(***************************************************************************)
EXTENDS Naturals

CONSTANTS VdcLines,       \* lines of a frame, a bound (262 and 312)
          VdcIntLine,     \* the interrupt's (62)
          VdcFirstLine,   \* the display's (64 to 191)
          VdcLastLine

ASSUME CdpLines ==
  /\ {VdcLines, VdcIntLine, VdcFirstLine, VdcLastLine} \subseteq Nat
  /\ VdcIntLine < VdcFirstLine /\ VdcFirstLine <= VdcLastLine /\ VdcLastLine < VdcLines

VARIABLES cdp, vdc,
          \* history: bytes of this line's request still due, whether one was
          \* lost, and the cycles from the interrupt line's request
          cdpDue, cdpLost, cdpLate

cdpVars == <<cdp, vdc, cdpDue, cdpLost, cdpLate>>

MCyclesPerLine == 14
LineBytes == 8
QueueCap == 2048

CdpInit ==
  /\ cdp = [state |-> "execute", left |-> 0, idle |-> FALSE, init |-> TRUE, ie |-> TRUE,
            long |-> FALSE, dma |-> FALSE, irq |-> FALSE, count |-> 0]
  /\ vdc = [line |-> 0, mc |-> 0, on |-> FALSE, fired |-> FALSE]
  /\ cdpDue = 0 /\ cdpLost = FALSE /\ cdpLate = 0

----------------------------------------------------------------------------
\* cdp1861_sync and the requests it makes of the core.

RaisesInt == vdc.line = VdcIntLine /\ vdc.mc = 2
AsksDma == vdc.on /\ vdc.fired /\ vdc.line \in VdcFirstLine .. VdcLastLine /\ vdc.mc = 4

\* cdp1802_request_dma_out: a second one while the first waits is forgotten.
Accepts == AsksDma /\ ~cdp.dma /\ cdp.count + LineBytes <= QueueCap

Requested ==
  [cdp EXCEPT !.irq = @ \/ RaisesInt, !.dma = @ \/ Accepts]

VdcSync ==
  /\ vdc' = [vdc EXCEPT !.fired = @ \/ RaisesInt,
                        !.mc = (@ + 1) % MCyclesPerLine,
                        !.line = IF vdc.mc + 1 = MCyclesPerLine THEN (@ + 1) % VdcLines ELSE @]
  /\ cdpLost' = (cdpLost \/ (AsksDma /\ (cdpDue > 0 \/ ~Accepts)))

\* The requests are looked at where an instruction, an idle or a DMA ends.
MFlushRequests(c) ==
  IF c.dma THEN [c EXCEPT !.dma = FALSE, !.count = @ + LineBytes, !.state = "dma"]
  ELSE IF c.irq /\ c.ie THEN [c EXCEPT !.irq = FALSE, !.state = "interrupt"]
  ELSE [c EXCEPT !.state = "fetch"]

FlushRequests(c) ==
  IF c.dma THEN [c EXCEPT !.dma = FALSE, !.count = @ + LineBytes, !.state = "dma"]
  ELSE IF c.irq THEN [c EXCEPT !.irq = FALSE, !.state = IF c.ie THEN "interrupt" ELSE "fetch"]
  ELSE [c EXCEPT !.state = "fetch"]

\* One cycle of the core after the sync, which leaves it as `c' and delivers
\* `bytes' to the video chip.
CpuCycle(c, bytes) ==
  /\ VdcSync /\ cdp' = c
  /\ cdpDue' = (IF AsksDma /\ Accepts THEN cdpDue + LineBytes ELSE cdpDue) - bytes
  /\ cdpLate' = IF RaisesInt THEN 1
                ELSE IF cdpLate = 0 \/ cdp.state = "interrupt" THEN 0
                ELSE IF cdpLate = MCyclesPerLine THEN cdpLate ELSE cdpLate + 1

\* The first cycle after reset.
InitCycle ==
  /\ cdp.state = "execute" /\ cdp.init
  /\ CpuCycle([Requested EXCEPT !.state = "fetch", !.init = FALSE], 0)

\* Opcodes C0 to CF execute for two cycles; 00 idles.
FetchCycle ==
  /\ cdp.state = "fetch"
  /\ \E long, idle \in BOOLEAN :
       /\ ~(long /\ idle)
       /\ CpuCycle([Requested EXCEPT !.state = "execute", !.left = IF long THEN 2 ELSE 1,
                                     !.long = long, !.idle = idle], 0)

IdleCycle ==
  /\ cdp.state = "execute" /\ ~cdp.init /\ cdp.idle
  /\ CpuCycle(IF Requested.dma \/ Requested.irq
              THEN FlushRequests([Requested EXCEPT !.idle = FALSE]) ELSE Requested, 0)

\* RET and DIS set IE.
ExecuteCycle ==
  /\ cdp.state = "execute" /\ ~cdp.init /\ ~cdp.idle
  /\ \E ie \in BOOLEAN :
       LET c == [Requested EXCEPT !.left = @ - 1, !.ie = ie] IN
       /\ cdp.long => ie = cdp.ie
       /\ CpuCycle(IF c.left = 0 THEN FlushRequests(c) ELSE c, 0)

DmaCycle ==
  /\ cdp.state = "dma"
  /\ LET c == [Requested EXCEPT !.count = @ - 1] IN
     CpuCycle(IF c.count = 0 THEN FlushRequests(c) ELSE c, 1)

InterruptCycle ==
  /\ cdp.state = "interrupt"
  /\ CpuCycle([Requested EXCEPT !.ie = FALSE, !.state = "fetch"], 0)

\* The display is turned on by INP 1 and off by OUT 1, which the machine hears
\* in an execute cycle; off, it forgets that it raised its interrupt.
SetDisplay(on) ==
  /\ cdp.state = "execute" /\ ~cdp.init /\ ~cdp.idle /\ ~cdp.long
  /\ vdc' = [vdc EXCEPT !.on = on, !.fired = @ /\ on] /\ UNCHANGED <<cdp, cdpDue, cdpLost, cdpLate>>

CdpReset ==
  /\ ~cdp.init
  /\ cdp' = [cdp EXCEPT !.state = "execute", !.left = 0, !.idle = FALSE, !.init = TRUE,
                        !.long = FALSE, !.ie = TRUE, !.dma = FALSE, !.irq = FALSE, !.count = 0]
  /\ vdc' = [line |-> 0, mc |-> 0, on |-> FALSE, fired |-> FALSE]
  /\ cdpDue' = 0 /\ cdpLost' = FALSE /\ cdpLate' = 0

CdpNext ==
  \/ InitCycle \/ FetchCycle \/ IdleCycle \/ ExecuteCycle \/ DmaCycle \/ InterruptCycle
  \/ (\E on \in BOOLEAN : SetDisplay(on)) \/ CdpReset

----------------------------------------------------------------------------
\* What the display routines of these machines count on: no line's DMA is lost
\* or still running when the next line's is asked for, its eight bytes are over
\* within eleven cycles of the request, which leaves the routine its time to
\* move R(0) in every line, and the interrupt is answered within four cycles of
\* its request or not at all.
DisplayInStep ==
  /\ ~cdpLost
  /\ cdp.count + (IF cdp.dma THEN LineBytes ELSE 0) = cdpDue
  /\ cdpDue > 0 => vdc.mc \in (5 .. MCyclesPerLine - 1) \cup {0}
  /\ cdp.state = "interrupt" => cdpLate \in 1 .. 3
=============================================================================
