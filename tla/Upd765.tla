------------------------------- MODULE Upd765 -------------------------------
(***************************************************************************)
(* The uPD765 diskette controller of the IBM 5150                          *)
(* (hardware/device/upd765.c): command and result phases, the delay before *)
(* a result, the statuses queued for sense interrupt status and the        *)
(* interrupt line.                                                         *)
(*                                                                         *)
(* Command bytes are their opcode's kind and a count; a transfer to or     *)
(* from the image is done at once in the code (do_rw, do_format), with     *)
(* whatever outcome, and only its result phase is seen here.  Clocks are   *)
(* not counted: a delay ends at some tick.                                 *)
(***************************************************************************)
EXTENDS Naturals, Sequences

VARIABLES
    fdc,      \* the controller
    polite,   \* the guest senses the interrupt status after each seek or reset
    owed      \* history: a seek or reset was signalled and not sensed yet

fdcVars == <<fdc, polite, owed>>

\* command_length, by what execute makes of the opcode
CommandLength ==
    [transfer |-> 9, format |-> 6, read_id |-> 2, seek |-> 3,
     recalibrate |-> 2, sense_interrupt |-> 1, sense_drive |-> 2,
     specify |-> 3, scan |-> 9, invalid |-> 1]
Ops == DOMAIN CommandLength
NoOp == "none"

FdcTypeOK ==
    /\ fdc \in [enabled : BOOLEAN, gate : BOOLEAN,        \* DOR bits 2 and 3
                op : Ops \cup {NoOp}, cmd_len : 0..8,
                res_len : {0, 1, 2, 7}, res_pos : 0..6,
                busy : BOOLEAN, irq_after : BOOLEAN, irq : BOOLEAN,
                ints : Seq({"ready", "seek"}),
                out : BOOLEAN]                            \* last set_irq level
    /\ Len(fdc.ints) <= 4
    /\ polite \in BOOLEAN /\ owed \in BOOLEAN

\* After ibm5150_reset: the DOR holds the controller in reset.
FdcInit ==
    /\ fdc = [enabled |-> FALSE, gate |-> FALSE, op |-> NoOp, cmd_len |-> 0,
              res_len |-> 0, res_pos |-> 0, busy |-> FALSE,
              irq_after |-> FALSE, irq |-> FALSE, ints |-> <<>>, out |-> FALSE]
    /\ polite \in BOOLEAN
    /\ owed = FALSE

-----------------------------------------------------------------------------
SetFdcIrq(f, level) == [f EXCEPT !.irq = level, !.out = level /\ f.gate]

ResetFdc(f) ==
    SetFdcIrq([f EXCEPT !.op = NoOp, !.cmd_len = 0, !.res_len = 0,
                        !.res_pos = 0, !.busy = FALSE, !.irq_after = FALSE,
                        !.ints = <<>>],
              FALSE)

\* result: n bytes, at once or after a delay and then with an interrupt
ResultNow(f, n) == [f EXCEPT !.res_len = n, !.res_pos = 0, !.busy = FALSE,
                             !.irq_after = FALSE]
ResultLater(f, n) == [f EXCEPT !.res_len = n, !.res_pos = 0, !.busy = TRUE,
                               !.irq_after = TRUE]

\* mutant: the line is lowered with the last status only
SenseInterruptLast(f) ==
    ResultNow(SetFdcIrq([f EXCEPT !.ints = Tail(@)],
                        f.irq /\ Len(f.ints) > 1), 2)

SenseInterrupt(f) ==
    ResultNow(SetFdcIrq([f EXCEPT !.ints = Tail(@)], FALSE), 2)

\* seek_int: the status replaces whatever a reset left
Seek(f) == ResultLater([f EXCEPT !.ints = <<"seek">>], 0)

Execute(f, op) ==
    CASE op = "specify" -> f
      [] op \in {"sense_drive", "scan", "invalid"} -> ResultNow(f, 1)
      [] op \in {"seek", "recalibrate"} -> Seek(f)
      [] op = "sense_interrupt" /\ f.ints = <<>> -> ResultNow(f, 1)
      [] op = "sense_interrupt" /\ f.ints # <<>> -> SenseInterrupt(f)
      [] op \in {"transfer", "format", "read_id"} -> ResultLater(f, 7)

\* A command byte: the first one is the opcode.
FdcCommand(op) ==
    /\ ~fdc.busy
    /\ fdc.res_pos >= fdc.res_len
    /\ IF fdc.cmd_len = 0
         THEN polite /\ owed => op = "sense_interrupt"
         ELSE op = fdc.op
    /\ IF fdc.cmd_len + 1 >= CommandLength[op]
         THEN fdc' = [Execute(fdc, op) EXCEPT !.op = NoOp, !.cmd_len = 0]
         ELSE fdc' = [fdc EXCEPT !.op = op, !.cmd_len = @ + 1]
    /\ owed' = (owed /\ op # "sense_interrupt")
    /\ UNCHANGED polite

\* mutant: the interrupt stays until the last byte is read
ReadClearsLate(f) == f.res_pos = 6 /\ f.res_len = 7

ReadClears(f) == f.res_pos = 0 /\ f.res_len = 7

\* A result byte; reading a transfer's result ends its interrupt.
FdcResult ==
    /\ ~fdc.busy
    /\ fdc.res_pos < fdc.res_len
    /\ LET f == IF ReadClears(fdc) THEN SetFdcIrq(fdc, FALSE) ELSE fdc
           last == f.res_pos + 1 >= f.res_len
       IN  fdc' = [f EXCEPT !.res_pos = IF last THEN 0 ELSE @ + 1,
                            !.res_len = IF last THEN 0 ELSE @]
    /\ UNCHANGED <<polite, owed>>

\* DMA/IRQ enable may have changed
DorChanged(f) == SetFdcIrq(f, f.irq)

\* The digital output register.
FdcDor(enabled, gate) ==
    /\ LET f == [fdc EXCEPT !.enabled = enabled, !.gate = gate]
       IN  fdc' = IF ~enabled THEN ResetFdc(f)
                  ELSE IF fdc.enabled THEN DorChanged(f)
                  ELSE [ResetFdc(f) EXCEPT
                          !.ints = <<"ready", "ready", "ready", "ready">>,
                          !.busy = TRUE, !.irq_after = TRUE]
    /\ owed' = (owed /\ enabled /\ fdc.enabled)
    /\ UNCHANGED polite

\* upd765_tick with which the delay ends
FdcTick ==
    /\ fdc.busy
    /\ fdc' = IF fdc.irq_after
                THEN SetFdcIrq([fdc EXCEPT !.busy = FALSE,
                                           !.irq_after = FALSE], TRUE)
                ELSE [fdc EXCEPT !.busy = FALSE]
    /\ owed' = (owed \/ (fdc.irq_after /\ fdc.res_len = 0))
    /\ UNCHANGED polite

\* ibm5150_reset
FdcPowerOn ==
    /\ fdc' = ResetFdc([fdc EXCEPT !.enabled = FALSE, !.gate = FALSE])
    /\ owed' = FALSE
    /\ UNCHANGED polite

FdcNext ==
    \/ \E op \in Ops : FdcCommand(op)
    \/ FdcResult
    \/ \E enabled, gate \in BOOLEAN : FdcDor(enabled, gate)
    \/ FdcTick

FdcSpec == FdcInit /\ [][FdcNext \/ FdcPowerOn]_fdcVars

-----------------------------------------------------------------------------
(***************************************************************************)
(* The interrupt line never hangs: while it is raised there is an unread   *)
(* transfer result or a queued status, and taking either lowers it.        *)
(***************************************************************************)
FdcNoStuckLine ==
    fdc.irq => (fdc.res_len = 7 /\ fdc.res_pos = 0) \/ fdc.ints # <<>>

(***************************************************************************)
(* "the next event raises a fresh edge": if the guest senses the interrupt *)
(* status after each seek and reset - once, as the 19OCT81 BIOS does, not  *)
(* once for each of the four statuses - every completion finds the line    *)
(* low and so is seen by the edge-triggered interrupt controller.          *)
(***************************************************************************)
FdcFreshEdge == [][FdcTick /\ fdc.irq_after /\ polite => ~fdc.irq]_fdcVars
=============================================================================
