------------------------------ MODULE I2kInput ------------------------------
(***************************************************************************)
(* Keyboard, mouse and legacy interrupts of the i2000 machine: the 8042    *)
(* whose data port merges three sources, the PS/2 keyboard's queue, the    *)
(* mouse with its reports, and the 8259 pair as the INTA read sees it.     *)
(*                                                                         *)
(* A queue is the number of bytes in it: what the bytes say is left out,   *)
(* which source a byte comes from is not.  Time passes by itself: `kbd     *)
(* retry', `mouse retry' and the report interval are over when InpTime     *)
(* says so.  `told' is what the guest last read from the status port and   *)
(* may rely on until it reads or writes the controller again; `injected'   *)
(* says that the monitor has queued a mouse packet since.  The load of a   *)
(* snapshot, which replaces the guest with its devices, is left out.       *)
(***************************************************************************)
EXTENDS Integers, FiniteSets, FiniteSetsExt

CONSTANTS KbSize,      \* bytes the keyboard queues (64)
          AuxSize,     \* bytes the mouse queues (16)
          Motion       \* the largest backlog of motion, in reports

\* Both queues have room for a byte.
ASSUME InputSizes == KbSize \in Nat \ {0} /\ AuxSize \in Nat \ {0} /\ Motion \in Nat

VARIABLES kbc,         \* a byte of the controller's own waits (0 or 1)
          kbWrite,     \* what the next byte written to the data port is for
          kbq, kbScan, kbParam,
          auxq, mouse,
          irq, ext0,   \* pending lines; ExtINT pending in the processor
          masked, served, told, injected

inpVars == <<kbc, kbWrite, kbq, kbScan, kbParam, auxq, mouse, irq, ext0, masked, served, told, injected>>
cntlVars == <<kbc, kbWrite>>
kbdVars == <<kbq, kbScan, kbParam>>
irqVars == <<irq, ext0, masked, served>>
toldVars == <<told, injected>>

Lines == {"pit", "kbd", "mouse"}
MouseOff == [on |-> FALSE, param |-> FALSE, moved |-> 0, host |-> FALSE, prev |-> FALSE,
             due |-> TRUE, rfi |-> FALSE, retry |-> TRUE, kbdRetry |-> TRUE]

InpInit ==
  /\ kbc = 0 /\ kbWrite = "kbd" /\ kbq = 0 /\ kbScan = TRUE /\ kbParam = FALSE
  /\ auxq = 0 /\ mouse = MouseOff
  /\ irq = {} /\ ext0 = FALSE /\ masked = Lines /\ served = "none" /\ told = "none"
  /\ injected = FALSE

----------------------------------------------------------------------------
\* The data port.

DataSource == IF auxq > 0 THEN "mouse" ELSE IF kbc > 0 \/ kbq > 0 THEN "kbd" ELSE "none"

InpReadStatus ==
  /\ told' = DataSource /\ injected' = FALSE
  /\ UNCHANGED <<cntlVars, kbdVars, auxq, mouse, irqVars>>

InpReadData ==
  /\ told' = "none" /\ injected' = FALSE
  /\ \/ /\ auxq = 0 /\ kbc > 0 /\ kbc' = kbc - 1 /\ UNCHANGED <<kbq, auxq>>
     \/ /\ auxq = 0 /\ kbc = 0 /\ kbq > 0 /\ kbq' = kbq - 1 /\ UNCHANGED <<kbc, auxq>>
     \/ /\ auxq > 0 /\ auxq' = auxq - 1 /\ UNCHANGED <<kbc, kbq>>
     \/ /\ DataSource = "none" /\ UNCHANGED <<kbc, kbq, auxq>>
  /\ UNCHANGED <<kbWrite, kbScan, kbParam, mouse, irqVars>>

\* The commands that answer with a byte; those that take one; the others.
InpCommand ==
  /\ told' = "none" /\ injected' = FALSE
  /\ \/ kbc' = 1 /\ UNCHANGED kbWrite
     \/ \E w \in {"byte", "port", "mouse"} : kbc' = 0 /\ kbWrite' = w
     \/ kbc' = 0 /\ UNCHANGED kbWrite
  /\ UNCHANGED <<kbdVars, auxq, mouse, irqVars>>

QueueByte(q, n) == Min({KbSize, q + n})
AuxQueueByte(q, n) == Min({AuxSize, q + n})

\* ps2_keyboard_command: the argument of a command before, or a command.
KeyboardCommand ==
  \/ /\ kbParam /\ kbParam' = FALSE /\ UNCHANGED kbScan
     /\ \E n \in 1..2 : kbq' = QueueByte(kbq, n)
  \/ /\ ~kbParam
     /\ \/ kbq' = QueueByte(kbq, 2) /\ kbScan' = TRUE /\ UNCHANGED kbParam
        \/ kbq' = QueueByte(kbq, 1) /\ kbScan' \in BOOLEAN /\ UNCHANGED kbParam
        \/ kbq' = QueueByte(kbq, 1) /\ kbParam' = TRUE /\ UNCHANGED kbScan
        \/ kbq' = QueueByte(kbq, 3) /\ UNCHANGED <<kbScan, kbParam>>

MouseDeviceCommand ==
  \/ /\ mouse.param /\ mouse' = [mouse EXCEPT !.param = FALSE] /\ auxq' = AuxQueueByte(auxq, 1)
  \/ /\ ~mouse.param
     /\ \/ /\ auxq' = AuxQueueByte(auxq, 3)
           /\ mouse' = [mouse EXCEPT !.on = FALSE, !.moved = 0, !.host = FALSE, !.prev = FALSE]
        \/ /\ auxq' = AuxQueueByte(auxq, 1)
           /\ \E b \in BOOLEAN : mouse' = [mouse EXCEPT !.on = b]
        \/ auxq' = AuxQueueByte(auxq, 1) /\ mouse' = [mouse EXCEPT !.param = TRUE]
        \/ \E n \in {1, 2, 4} : auxq' = AuxQueueByte(auxq, n) /\ UNCHANGED mouse

InpWriteData ==
  /\ told' = "none" /\ injected' = FALSE /\ kbc' = 0 /\ kbWrite' = "kbd"
  /\ \/ kbWrite \in {"byte", "port"} /\ UNCHANGED <<kbdVars, auxq, mouse>>
     \/ kbWrite = "mouse" /\ MouseDeviceCommand /\ UNCHANGED kbdVars
     \/ kbWrite = "kbd" /\ KeyboardCommand /\ UNCHANGED <<auxq, mouse>>
  /\ UNCHANGED irqVars

----------------------------------------------------------------------------
\* The host's side: keys between two slices, the pointer, the report.

InpHostKey ==
  /\ kbScan /\ \E n \in 1..2 : kbq' = QueueByte(kbq, n)
  /\ UNCHANGED <<cntlVars, kbScan, kbParam, auxq, mouse, irqVars, toldVars>>

Polled(move, button) ==
  IF mouse.on
  THEN [mouse EXCEPT !.moved = Min({Motion, @ + move}), !.host = button]
  ELSE mouse

MReportDue(m) ==
  /\ m.on /\ (m.moved > 0 \/ m.host # m.prev)
  /\ auxq = 0 /\ ~m.rfi /\ m.retry /\ m.due
ReportDue(m) ==
  /\ m.on /\ (m.moved > 0 \/ m.host # m.prev)
  /\ auxq = 0 /\ kbc = 0 /\ kbq = 0
  /\ ~m.rfi /\ m.retry /\ m.due

InpPointer ==
  \E move \in 0..1, button \in BOOLEAN :
     LET m == Polled(move, button)
     IN  /\ \/ /\ ReportDue(m) /\ auxq' = AuxQueueByte(auxq, 3)
               /\ mouse' = [m EXCEPT !.moved = Max({0, @ - 1}), !.prev = m.host]
            \/ ~ReportDue(m) /\ mouse' = m /\ UNCHANGED auxq
         /\ UNCHANGED <<cntlVars, kbdVars, irqVars, toldVars>>

\* The monitor's mousemove: it waits for the mouse's queue and its retry only.
InpMousemove ==
  /\ mouse.on /\ auxq = 0 /\ mouse.retry
  /\ auxq' = AuxQueueByte(auxq, 3)
  /\ \E button \in BOOLEAN : mouse' = [mouse EXCEPT !.prev = button]
  /\ injected' = TRUE
  /\ UNCHANGED <<cntlVars, kbdVars, irqVars, told>>

----------------------------------------------------------------------------
\* Interrupts.

\* Lines that poll finds asserted, besides the timer's.
Asserted ==
  {l \in {"kbd", "mouse"} \ masked :
     \/ l = "kbd" /\ kbc + kbq > 0 /\ mouse.kbdRetry
     \/ l = "mouse" /\ auxq > 0 /\ mouse.retry /\ ~mouse.rfi}

\* i2000_poll_interrupts.  tick: the timer's interval is over; done: an rfi
\* has been executed since the mouse's interrupt was acknowledged.
InpPoll ==
  \E tick, done \in BOOLEAN :
     /\ mouse' = [mouse EXCEPT !.rfi = @ /\ ~done, !.retry = @ /\ ~(mouse.rfi /\ done),
                               !.due = @ /\ ~(mouse.rfi /\ done /\ auxq = 0)]
     /\ LET raised == Asserted \cup (IF tick THEN {"pit"} \ masked ELSE {})
        IN  irq' = irq \cup raised /\ ext0' = (ext0 \/ raised # {})
     /\ UNCHANGED <<cntlVars, kbdVars, auxq, masked, served, toldVars>>

\* The read that replaces the INTA cycles: timer, keyboard, mouse.
InpAcknowledge ==
  /\ ext0 /\ ext0' = FALSE
  /\ \/ "pit" \in irq /\ irq' = irq \ {"pit"} /\ served' = "pit" /\ UNCHANGED mouse
     \/ /\ "pit" \notin irq /\ "kbd" \in irq /\ irq' = irq \ {"kbd"} /\ served' = "kbd"
        /\ mouse' = [mouse EXCEPT !.kbdRetry = FALSE]
     \/ /\ irq = {"mouse"} /\ served' = "mouse"
        /\ mouse' = [mouse EXCEPT !.rfi = TRUE, !.retry = FALSE]
        /\ irq' = IF auxq = 0 THEN {} ELSE irq
     \/ irq = {} /\ served' = "pit" /\ UNCHANGED <<irq, mouse>>
  /\ UNCHANGED <<cntlVars, kbdVars, auxq, masked, toldVars>>

\* The monitor's mousekick raises the mouse's interrupt again.
InpMousekick ==
  /\ auxq > 0 /\ "mouse" \notin masked
  /\ irq' = irq \cup {"mouse"} /\ ext0' = TRUE
  /\ UNCHANGED <<cntlVars, kbdVars, auxq, mouse, masked, served, toldVars>>

InpMask ==
  /\ \E l \in Lines : masked' = IF l \in masked THEN masked \ {l} ELSE masked \cup {l}
  /\ UNCHANGED <<cntlVars, kbdVars, auxq, mouse, irq, ext0, served, toldVars>>

InpTime ==
  /\ mouse' = [mouse EXCEPT !.due = TRUE, !.kbdRetry = TRUE, !.retry = @ \/ ~mouse.rfi]
  /\ UNCHANGED <<cntlVars, kbdVars, auxq, irqVars, toldVars>>

InpReset ==
  /\ kbc' = 0 /\ kbWrite' = "kbd" /\ kbq' = 0 /\ kbScan' = TRUE /\ kbParam' = FALSE
  /\ auxq' = 0 /\ mouse' = MouseOff
  /\ irq' = {} /\ ext0' = FALSE /\ masked' = Lines /\ served' = "none" /\ told' = "none"
  /\ injected' = FALSE

InpNext ==
  \/ InpReadStatus \/ InpReadData \/ InpCommand \/ InpWriteData
  \/ InpHostKey \/ InpPointer \/ InpMousemove \/ InpMousekick
  \/ InpPoll \/ InpAcknowledge \/ InpMask \/ InpTime \/ InpReset

InpSpec == InpInit /\ [][InpNext]_inpVars

----------------------------------------------------------------------------
\* Between the guest's read of the status port and its read of the data port
\* the host may add to any queue: the byte the guest then gets is still of
\* the device the status named, or a mouse driver would take a scan code for
\* a part of its packet.  Only a packet that the monitor's mousemove queues
\* comes before a byte that the status announced.
SourceKept == told # "none" => DataSource = IF injected THEN "mouse" ELSE told
=============================================================================
