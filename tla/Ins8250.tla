------------------------------ MODULE Ins8250 ------------------------------
(***************************************************************************)
(* The INS8250 serial port of the IBM 5150 with a mouse on it              *)
(* (hardware/device/ins8250.c): transmitter and receiver, loopback, modem  *)
(* status and the interrupt line.                                          *)
(*                                                                         *)
(* Characters have no content here and character times are not counted.    *)
(* TEMT is the negation of tx_busy and is not kept.  DTR behaves as RTS.   *)
(***************************************************************************)
EXTENDS Naturals

VARIABLE com

comVars == com

ComTypeOK ==
    com \in [ier : SUBSET {"err", "rx", "thre", "msr"},
             oe : BOOLEAN, dr : BOOLEAN, thre : BOOLEAN,    \* LSR
             delta : BOOLEAN,                               \* msr & 0x0F
             mcr : SUBSET {"rts", "out1", "out2", "loop"},
             dlab : BOOLEAN,
             thre_int : BOOLEAN, tx_busy : BOOLEAN, rx_busy : BOOLEAN,
             out : BOOLEAN]                                 \* last set_irq level

ComReset ==
    [ier |-> {}, oe |-> FALSE, dr |-> FALSE, thre |-> TRUE, delta |-> FALSE,
     mcr |-> {}, dlab |-> FALSE, thre_int |-> FALSE, tx_busy |-> FALSE,
     rx_busy |-> FALSE, out |-> FALSE]

ComInit == com = ComReset

-----------------------------------------------------------------------------
\* pending
ComPending(u) ==
    \/ "err" \in u.ier /\ u.oe
    \/ "rx" \in u.ier /\ u.dr
    \/ "thre" \in u.ier /\ u.thre_int
    \/ "msr" \in u.ier /\ u.delta

ComLine(u) == ComPending(u) /\ "out2" \in u.mcr

UpdateComIrq(u) == [u EXCEPT !.out = ComLine(u)]

\* tx_load: THR moves into the transmitter if that is free.
TxLoad(u) ==
    IF u.tx_busy \/ u.thre THEN u
    ELSE [u EXCEPT !.tx_busy = TRUE, !.thre = TRUE, !.thre_int = TRUE]

RxDeliver(u) == [u EXCEPT !.oe = @ \/ u.dr, !.dr = TRUE]

\* update_msr: in loopback the outputs are the modem inputs.
ModemIn(mcr) == IF "loop" \in mcr THEN mcr \ {"loop"} ELSE {}
ModemDelta(old, new) ==
    \/ \E m \in {"rts", "out2"} : m \in old <=> m \notin new
    \/ "out1" \in old \ new               \* trailing edge of RI

-----------------------------------------------------------------------------
\* Registers

ComReadRbr ==
    /\ ~com.dlab
    /\ com' = UpdateComIrq([com EXCEPT !.dr = FALSE])

\* IIR: THR empty is cleared if it is what the register reports.
ComReadIir ==
    LET thre == /\ "thre" \in com.ier /\ com.thre_int
                /\ ~("err" \in com.ier /\ com.oe)
                /\ ~("rx" \in com.ier /\ com.dr)
    IN  com' = UpdateComIrq([com EXCEPT !.thre_int = @ /\ ~thre])

ComReadLsr == com' = UpdateComIrq([com EXCEPT !.oe = FALSE])

ComReadMsr == com' = UpdateComIrq([com EXCEPT !.delta = FALSE])

ComWriteThr ==
    /\ ~com.dlab
    /\ com' = UpdateComIrq(TxLoad([com EXCEPT !.thre = FALSE,
                                              !.thre_int = FALSE]))

ComWriteIer(ier) ==
    /\ ~com.dlab
    /\ com' = UpdateComIrq(
                [com EXCEPT !.ier = ier,
                            !.thre_int = @ \/ ("thre" \in ier \ com.ier
                                                 /\ com.thre)])

ComWriteLcr(dlab) == com' = [com EXCEPT !.dlab = dlab]

ComWriteMcr(mcr) ==
    com' = UpdateComIrq(
             [com EXCEPT !.mcr = mcr,
                         !.delta = @ \/ ModemDelta(ModemIn(com.mcr),
                                                   ModemIn(mcr))])

\* ins8250_tick: a character may have been sent, or received, and the mouse
\* may have another one.
ComTick(sent, received, mouse) ==
    LET tx == com.tx_busy /\ sent
        rx == com.rx_busy /\ received
        loop == "loop" \in com.mcr
        u1 == IF tx THEN TxLoad([com EXCEPT !.tx_busy = FALSE]) ELSE com
        u2 == IF tx /\ loop THEN RxDeliver(u1) ELSE u1
        u3 == IF rx THEN RxDeliver([u2 EXCEPT !.rx_busy = FALSE]) ELSE u2
        u4 == IF mouse /\ ~loop THEN [u3 EXCEPT !.rx_busy = TRUE] ELSE u3
    IN  com' = IF tx \/ rx THEN UpdateComIrq(u4) ELSE u4

ComPowerOn == com' = ComReset

ComNext ==
    \/ ComReadRbr \/ ComReadIir \/ ComReadLsr \/ ComReadMsr
    \/ ComWriteThr
    \/ \E ier \in SUBSET {"err", "rx", "thre", "msr"} : ComWriteIer(ier)
    \/ \E dlab \in BOOLEAN : ComWriteLcr(dlab)
    \/ \E mcr \in SUBSET {"rts", "out1", "out2", "loop"} : ComWriteMcr(mcr)
    \/ \E sent, received, mouse \in BOOLEAN : ComTick(sent, received, mouse)

=============================================================================
