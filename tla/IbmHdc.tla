------------------------------- MODULE IbmHdc -------------------------------
(***************************************************************************)
(* The fixed disk adapter of the IBM 5150 (hardware/device/ibm_hdc.c):     *)
(* command, data and status phases, the stages a command goes through,     *)
(* transfers of several sectors across heads and cylinders, and the        *)
(* interrupt line.                                                         *)
(*                                                                         *)
(* One drive, which a command may find absent (the other unit) or write-   *)
(* protected.  Sector contents are left out; reads and writes of the image *)
(* may fail.  Times are not counted: a wait ends at some tick.  The buffer *)
(* moves at once when the DMA channel is ready.  What the adapter kept for *)
(* a command is cleared here when the command is over: begin sets all of   *)
(* it before it is read again.                                             *)
(***************************************************************************)
EXTENDS Naturals

CONSTANTS
    Cyls, Heads,    \* the drive's geometry
    SPT,            \* IBM_HDC_SPT, sectors per track
    MaxSectors,     \* the sectors a count of 0 asks for: 256
    InitCyls,       \* the cylinders and heads a guest may initialise
    InitHeads       \* the drive to

ASSUME HdcAssumption ==
    /\ {Cyls, Heads, SPT, MaxSectors} \subseteq Nat \ {0}
    /\ InitCyls \subseteq Nat /\ InitHeads \subseteq Nat

VARIABLES
    hdc,
    asked,    \* history: the first sector and the count of the command
    moved     \* history: sectors transferred since

hdcVars == <<hdc, asked, moved>>

Transfers == {"read", "write", "verify"}
Formats == {"format_drive", "format_track"}
HdcOps == Transfers \cup Formats \cup
          {"sense", "initialize", "ecc_length", "read_buffer", "write_buffer",
           "diagnostic", "ready", "recalibrate", "seek", "invalid"}
PioLength == [sense |-> 4, initialize |-> 8, ecc_length |-> 1]

\* A command may name a cylinder, head or sector the drive does not have.
Sectors == [cyl : 0..Cyls, head : 0..Heads, sector : 0..SPT]

HdcTypeOK ==
    /\ hdc \in [phase : {"idle", "cmd", "busy", "pio_out", "pio_in", "dma",
                         "status"},
                stage : {"none", "begin", "finish", "seeked", "sector",
                         "dma_done", "track"},
                wait : BOOLEAN,
                op : HdcOps, at : Sectors, count : 0..MaxSectors,
                heads : InitHeads \cup {Heads},      \* param
                cyls : InitCyls \cup {Cyls},
                cmd_n : 0..5, pio_pos : 0..7,
                failed : BOOLEAN,                     \* status_byte bit 1
                enabled : BOOLEAN,                    \* mask bit 1
                intr : BOOLEAN, out : BOOLEAN]
    /\ asked \in [at : Sectors, count : 0..MaxSectors]
    /\ moved \in 0..MaxSectors

NoSector == [cyl |-> 0, head |-> 0, sector |-> 0]
NothingAsked == [at |-> NoSector, count |-> 0]

HdcInit ==
    /\ hdc = [phase |-> "idle", stage |-> "none", wait |-> FALSE,
              op |-> "invalid", at |-> NoSector, count |-> 0,
              heads |-> Heads, cyls |-> Cyls, cmd_n |-> 0, pio_pos |-> 0,
              failed |-> FALSE, enabled |-> FALSE, intr |-> FALSE,
              out |-> FALSE]
    /\ asked = NothingAsked
    /\ moved = 0

\* The command bytes: an address and a count where the operation has them.
HdcCommands ==
    {c \in [op : HdcOps, at : Sectors, count : 0..(MaxSectors - 1)] :
        /\ c.op \notin Transfers \cup Formats \cup {"seek"} => c.at = NoSector
        /\ c.op \notin Transfers => c.count = 0}

-----------------------------------------------------------------------------
UpdateHdcIrq(h) == [h EXCEPT !.out = h.intr /\ h.enabled]

After(h, stage) == [h EXCEPT !.phase = "busy", !.stage = stage, !.wait = TRUE]

\* finish: err says whether there was an error
HdcFinish(h, err) ==
    UpdateHdcIrq([h EXCEPT !.phase = "status", !.stage = "none",
                           !.wait = FALSE, !.failed = err, !.intr = TRUE])

DmaStart(h) == [h EXCEPT !.phase = "dma", !.stage = "none", !.wait = FALSE]

\* The drive's geometry limits what it was initialised to.
UsedHeads(h) == IF h.heads < Heads THEN h.heads ELSE Heads
UsedCyls(h) == IF h.cyls < Cyls THEN h.cyls ELSE Cyls

AddressOk(h) ==
    /\ h.at.cyl < UsedCyls(h)
    /\ h.at.head < UsedHeads(h)
    /\ h.at.sector < SPT

\* The next sector, on the next head or cylinder after the last of a track.
Following(h) ==
    IF h.at.sector + 1 < SPT THEN [h.at EXCEPT !.sector = @ + 1]
    ELSE IF h.at.head + 1 < UsedHeads(h)
      THEN [h.at EXCEPT !.sector = 0, !.head = @ + 1]
      ELSE [cyl |-> h.at.cyl + 1, head |-> 0, sector |-> 0]

\* mutant: counts down after the test
LastSectorLate(h) == h.count = 0

LastSector(h) == h.count = 1

NextSector(h) ==
    IF LastSector(h) THEN HdcFinish([h EXCEPT !.count = 0], FALSE)
    ELSE LET n == [h EXCEPT !.count = @ - 1, !.at = Following(h)]
         IN  IF AddressOk(n) THEN After(n, "seeked") ELSE HdcFinish(n, TRUE)

\* begin.  present and readonly are the drive's; at and count the command's.
Begin(h, present, readonly) ==
    IF h.op \in {"sense", "ecc_length"} THEN [h EXCEPT !.phase = "pio_in", !.pio_pos = 0]
    ELSE IF h.op = "initialize" THEN [h EXCEPT !.phase = "pio_out", !.pio_pos = 0]
    ELSE IF h.op \in {"read_buffer", "write_buffer"} THEN DmaStart(h)
    ELSE IF h.op = "diagnostic" THEN After(h, "finish")
    ELSE IF h.op = "invalid" \/ ~present THEN HdcFinish(h, TRUE)
    ELSE IF h.op = "ready" THEN HdcFinish(h, FALSE)
    ELSE IF h.op = "recalibrate" THEN After([h EXCEPT !.at = NoSector], "finish")
    ELSE LET k == IF h.op \in Formats THEN [h EXCEPT !.at.sector = 0] ELSE h
         IN  IF ~AddressOk(k) THEN HdcFinish(k, TRUE)
             ELSE IF k.op \in Formats \cup {"write"} /\ readonly THEN HdcFinish(k, TRUE)
             ELSE After(k, IF k.op = "seek" THEN "finish" ELSE "seeked")

\* The track after the one formatted; past the last one the drive is done.
NextTrack(h) ==
    IF h.at.head + 1 < UsedHeads(h) THEN After([h EXCEPT !.at.head = @ + 1], "seeked")
    ELSE IF h.at.cyl + 1 < UsedCyls(h)
      THEN After([h EXCEPT !.at.head = 0, !.at.cyl = @ + 1], "seeked")
      ELSE HdcFinish([h EXCEPT !.at.head = 0], FALSE)

\* run_stage; ok says whether an access to the image succeeds
RunStage(h, ok) ==
    CASE h.stage = "finish" -> HdcFinish(h, FALSE)
      [] h.stage = "seeked" ->
           IF h.op \in Formats THEN After(h, "track")
           ELSE IF h.op = "write" THEN DmaStart(h)
           ELSE After(h, "sector")
      [] h.stage = "sector" ->
           IF h.op = "verify" THEN NextSector(h)
           ELSE IF ~ok THEN HdcFinish(h, TRUE)
           ELSE IF h.op = "write" THEN NextSector(h)
           ELSE DmaStart(h)
      [] h.stage = "dma_done" ->
           IF h.op \in {"read_buffer", "write_buffer"} THEN HdcFinish(h, FALSE)
           ELSE IF h.op = "write" THEN After(h, "sector")
           ELSE NextSector(h)
      [] h.stage = "track" ->
           IF ~ok THEN HdcFinish(h, TRUE)
           ELSE IF h.op = "format_track" THEN HdcFinish(h, FALSE)
           ELSE NextTrack(h)

\* A sector has been moved by the step that leaves it.
Moves(h, ok) ==
    \/ h.stage = "sector" /\ (h.op = "verify" \/ (h.op = "write" /\ ok))
    \/ h.stage = "dma_done" /\ h.op = "read"

-----------------------------------------------------------------------------
\* The command's first bytes are collected; the last one starts it.
HdcCommandByte ==
    /\ hdc.phase = "cmd" /\ hdc.cmd_n < 5
    /\ hdc' = [hdc EXCEPT !.cmd_n = @ + 1]
    /\ UNCHANGED <<asked, moved>>

HdcLastByte(c) ==
    LET count == IF c.count = 0 THEN MaxSectors ELSE c.count
    IN  /\ hdc.phase = "cmd" /\ hdc.cmd_n = 5
        /\ hdc' = After([hdc EXCEPT !.cmd_n = 0, !.op = c.op, !.at = c.at,
                                    !.count = count], "begin")
        /\ asked' = [at |-> c.at, count |-> count]
        /\ moved' = 0

\* Data bytes: the last one of initialize sets the geometry to use.
HdcDataOut(cyls, heads) ==
    /\ hdc.phase = "pio_out"
    /\ hdc' = IF hdc.pio_pos + 1 = PioLength[hdc.op]
                THEN HdcFinish([hdc EXCEPT !.cyls = cyls, !.heads = heads,
                                           !.pio_pos = 0], FALSE)
                ELSE [hdc EXCEPT !.pio_pos = @ + 1]
    /\ UNCHANGED <<asked, moved>>

HdcDataIn ==
    /\ hdc.phase = "pio_in"
    /\ hdc' = IF hdc.pio_pos + 1 = PioLength[hdc.op]
                THEN HdcFinish([hdc EXCEPT !.pio_pos = 0], FALSE)
                ELSE [hdc EXCEPT !.pio_pos = @ + 1]
    /\ UNCHANGED <<asked, moved>>

\* A command is over: it has ended, or a reset or a select abandons it.
Over(h) ==
    [h EXCEPT !.stage = "none", !.wait = FALSE, !.op = "invalid",
              !.at = NoSector, !.count = 0, !.cmd_n = 0, !.pio_pos = 0,
              !.failed = FALSE]
Forget == asked' = NothingAsked /\ moved' = 0

HdcReadStatus ==
    /\ hdc.phase = "status"
    /\ hdc' = UpdateHdcIrq([Over(hdc) EXCEPT !.phase = "idle", !.intr = FALSE])
    /\ Forget

HdcReset ==
    /\ hdc' = UpdateHdcIrq([Over(hdc) EXCEPT !.phase = "idle", !.intr = FALSE])
    /\ Forget

HdcSelect ==
    /\ hdc' = UpdateHdcIrq([Over(hdc) EXCEPT !.phase = "cmd", !.intr = FALSE])
    /\ Forget

HdcMask(enabled) ==
    /\ hdc' = UpdateHdcIrq([hdc EXCEPT !.enabled = enabled])
    /\ UNCHANGED <<asked, moved>>

\* ibm_hdc_tick: the DMA channel is ready and moves the buffer ...
HdcDma ==
    /\ hdc.phase = "dma"
    /\ hdc' = After(hdc, "dma_done")
    /\ UNCHANGED <<asked, moved>>

\* ... or the wait is over and the stage runs.
HdcTick(ok, present, readonly) ==
    /\ hdc.wait
    /\ LET h == [hdc EXCEPT !.wait = FALSE]
       IN  hdc' = IF h.stage = "begin" THEN Begin(h, present, readonly)
                                       ELSE RunStage(h, ok)
    /\ moved' = IF Moves(hdc, ok) THEN moved + 1 ELSE moved
    /\ UNCHANGED asked

HdcPowerOn ==
    /\ hdc' = UpdateHdcIrq([Over(hdc) EXCEPT
                 !.phase = "idle", !.enabled = FALSE, !.intr = FALSE,
                 !.cyls = Cyls, !.heads = Heads])
    /\ Forget

HdcNext ==
    \/ HdcCommandByte
    \/ \E c \in HdcCommands : HdcLastByte(c)
    \/ \E cyls \in InitCyls \cup {Cyls}, heads \in InitHeads \cup {Heads} :
           HdcDataOut(cyls, heads)
    \/ HdcDataIn \/ HdcReadStatus \/ HdcReset \/ HdcSelect
    \/ \E enabled \in BOOLEAN : HdcMask(enabled)
    \/ HdcDma
    \/ \E ok, present, readonly \in BOOLEAN : HdcTick(ok, present, readonly)

-----------------------------------------------------------------------------

\* The number of a sector on the drive as the guest initialised it.
SectorNumber(a) == (a.cyl * UsedHeads(hdc) + a.head) * SPT + a.sector

(***************************************************************************)
(* A read, write or verify that ends without an error has moved exactly    *)
(* the sectors asked for; while it runs it is at the sector that follows   *)
(* those it has moved, on the drive as it was initialised.                 *)
(***************************************************************************)
HdcTransfersAll ==
    /\ hdc.op \in Transfers /\ hdc.phase = "status" /\ ~hdc.failed
         => moved = asked.count
    /\ hdc.op \in Transfers /\ hdc.stage \in {"seeked", "sector", "dma_done"}
         => SectorNumber(hdc.at) = SectorNumber(asked.at) + moved
=============================================================================
