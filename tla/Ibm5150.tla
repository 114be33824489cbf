------------------------------ MODULE Ibm5150 ------------------------------
(***************************************************************************)
(* The IBM 5150's interrupt system (hardware/machine/x86/                  *)
(* machine_ibm5150.c): the interrupt controller, and the keyboard, serial  *)
(* port, fixed disk and diskette adapters that drive its lines.            *)
(*                                                                         *)
(* Each behaviour looks at one device against the controller, fitted; in   *)
(* the behaviours of "pic" the guest programs the controller in every way  *)
(* and the lines move freely, in the others it is set up as the BIOS does. *)
(* The guest takes interrupts, ends them and uses the ports as it likes.   *)
(***************************************************************************)
EXTENDS I8259, Upd765, Ins8250, IbmHdc, FiniteSets

CONSTANTS
    Keys,       \* scan codes of keys
    Modifiers,  \* those of modifiers
    KBQ         \* size of kbq

\* The timer, the keyboard and the adapters.
ASSUME WiredLines == {0, 1, 4, 5, 6} \subseteq Lines

\* Bit 7 of a code says that the key went up.
ASSUME KeySizes == Keys \subseteq 1..127 /\ KBQ \in Nat

VARIABLES
    fitted,     \* which device this behaviour is about
    kb,         \* the keyboard and its port
    guest,      \* history: the keys that are down, by the codes the guest got
    lost        \* history: codes were dropped (queue full) or flushed (reset)

kbVars == <<kb, guest, lost>>
vars == <<fitted, picVars, fdcVars, comVars, hdcVars, kbVars>>

\* A scan code; mods (history) are the modifiers held when it was queued.
Codes == [key : Keys, down : BOOLEAN, mods : SUBSET Modifiers]
NoCode == [key |-> 0, down |-> FALSE, mods |-> {}]
SelfTest == [key |-> 170, down |-> TRUE, mods |-> {}]   \* answer to a reset

TypeOK ==
    /\ PicTypeOK /\ FdcTypeOK /\ ComTypeOK /\ HdcTypeOK
    /\ fitted \in {"pic", "kb", "fdc", "com", "hdc"}
    /\ kb \in [clear : BOOLEAN, clock : BOOLEAN,          \* port B bits 7, 6
               full : BOOLEAN, data : Codes \cup {NoCode, SelfTest},
               queue : Seq(Codes), resetting : BOOLEAN,
               key_down : SUBSET Keys, out : BOOLEAN]
    /\ Len(kb.queue) <= KBQ
    /\ guest \in SUBSET Keys /\ lost \in BOOLEAN

\* The BIOS unmasks the lines in edge mode before it uses a device.
PicAfterReset == IF fitted = "pic" THEN PicReset
                 ELSE [PicReset EXCEPT !.imr = {}]

Init ==
    /\ fitted \in {"pic", "kb", "fdc", "com", "hdc"}
    /\ pic = PicAfterReset
    /\ nest = <<>> /\ seen = {}
    /\ FdcInit /\ ComInit /\ HdcInit
    /\ kb = [clear |-> FALSE, clock |-> FALSE, full |-> FALSE, data |-> NoCode,
             queue |-> <<>>, resetting |-> FALSE, key_down |-> {},
             out |-> FALSE]
    /\ guest = {} /\ lost = FALSE

\* i8259_set_irq of one line
DriveLine(line, level) ==
    IF level THEN SetIrq({line}, {}) ELSE SetIrq({}, {line})

-----------------------------------------------------------------------------
\* The keyboard.

\* The guest's keys after it got a code, or a sequence of them: the last that
\* tells of a key counts.
Got(keys, c) ==
    IF c \in {NoCode, SelfTest} THEN keys
    ELSE IF c.down THEN keys \cup {c.key} ELSE keys \ {c.key}
Tells(c, key) == c \notin {NoCode, SelfTest} /\ c.key = key
GotAll(keys, s) ==
    {key \in Keys :
       \/ key \in keys /\ \A i \in DOMAIN s : ~Tells(s[i], key)
       \/ \E i \in DOMAIN s : /\ Tells(s[i], key) /\ s[i].down
                             /\ \A j \in DOMAIN s : i < j => ~Tells(s[j], key)}

KbLine(k) == k.full /\ ~k.clear
KbUpdateIrq(k) == [k EXCEPT !.out = KbLine(k)]

KbEnabled == ~kb.clear /\ kb.clock

\* kb_service: the answer to a reset, or the next code, enters the port.
KbService ==
    /\ ~kb.full
    /\ KbEnabled
    /\ \/ /\ kb.resetting
          /\ kb' = KbUpdateIrq([kb EXCEPT !.resetting = FALSE,
                                          !.data = SelfTest, !.full = TRUE])
       \/ /\ ~kb.resetting
          /\ kb.queue # <<>>
          /\ kb' = KbUpdateIrq([kb EXCEPT !.data = Head(kb.queue),
                                          !.queue = Tail(@), !.full = TRUE])
    /\ UNCHANGED <<guest, lost>>

\* mutant: the code is taken from the port, the request stays
TakenQuietly(k) == k

\* The line follows a write to port B.
Taken(k) == KbUpdateIrq(k)

\* kb_port_b_changed: raising bit 7 empties the port (the guest has read it);
\* releasing the clock after holding it long resets the keyboard.
KbPortB(clear, clock, long) ==
    LET reset == clock /\ ~kb.clock /\ long
        k == [kb EXCEPT !.clear = clear, !.clock = clock,
                        !.queue = IF reset THEN <<>> ELSE @,
                        !.resetting = @ \/ reset,
                        !.full = @ /\ ~clear,
                        !.data = IF clear THEN NoCode ELSE @]
    IN  /\ kb' = Taken(k)
        /\ guest' = IF clear THEN Got(guest, kb.data) ELSE guest
        /\ lost' = (lost \/ reset)

InOrder(keys, down, mods) ==
    [i \in 1..Cardinality(keys) |->
       [key |-> CHOOSE k \in keys : Cardinality({l \in keys : l < k}) = i - 1,
        down |-> down, mods |-> mods]]

\* mutant: the passes are releases, then presses, by code
FrameCodesByCode(now) ==
    LET up == kb.key_down \ now
        down == now \ kb.key_down
        mods == now \cap Modifiers
    IN  InOrder(up, FALSE, mods) \o InOrder(down, TRUE, mods)

\* The four passes: keys up, modifiers up, modifiers down, keys down.
FrameCodes(now) ==
    LET up == kb.key_down \ now
        down == now \ kb.key_down
        mods == now \cap Modifiers
    IN  InOrder(up \ Modifiers, FALSE, mods)
          \o InOrder(up \cap Modifiers, FALSE, mods)
          \o InOrder(down \cap Modifiers, TRUE, mods)
          \o InOrder(down \ Modifiers, TRUE, mods)

Queued(codes) == kb.queue \o codes

\* What does not fit in the queue is dropped.
Kept(q) == IF Len(q) > KBQ THEN SubSeq(q, 1, KBQ) ELSE q

\* scan_keyboard, once a frame
ScanKeyboard(now) ==
    LET q == Queued(FrameCodes(now))
    IN  /\ kb' = [kb EXCEPT !.key_down = now,
                            !.queue = Kept(q)]
        /\ lost' = (lost \/ Len(q) > KBQ)
        /\ UNCHANGED guest

\* ibm5150_reset; key_down is kept.
KbPowerOn ==
    /\ kb' = [kb EXCEPT !.clear = FALSE, !.clock = FALSE, !.full = FALSE,
                        !.data = NoCode, !.queue = <<>>, !.resetting = FALSE,
                        !.out = FALSE]
    /\ guest' = {}
    /\ lost' = (lost \/ kb.key_down # {})

-----------------------------------------------------------------------------
\* The guest and the devices, one at a time.

Keyboard ==
    /\ fitted = "kb"
    /\ \/ /\ KbService \/ \E clear, clock, long \in BOOLEAN :
                            KbPortB(clear, clock, long)
          /\ DriveLine(1, kb'.out)
       \/ /\ \E now \in SUBSET Keys : ScanKeyboard(now)
          /\ UNCHANGED picVars
    /\ UNCHANGED <<fitted, fdcVars, comVars, hdcVars>>

Diskette ==
    /\ fitted = "fdc"
    /\ FdcNext
    /\ DriveLine(6, fdc'.out)
    /\ UNCHANGED <<fitted, kbVars, comVars, hdcVars>>

Serial ==
    /\ fitted = "com"
    /\ ComNext
    /\ DriveLine(4, com'.out)
    /\ UNCHANGED <<fitted, kbVars, fdcVars, hdcVars>>

FixedDisk ==
    /\ fitted = "hdc"
    /\ HdcNext
    /\ DriveLine(5, hdc'.out)
    /\ UNCHANGED <<fitted, kbVars, fdcVars, comVars>>

\* pit_out_changed of channel 0, and any other adapter's line
Wire ==
    /\ fitted = "pic"
    /\ \E line \in {0, 1, 6}, level \in BOOLEAN : DriveLine(line, level)
    /\ UNCHANGED <<fitted, kbVars, fdcVars, comVars, hdcVars>>

Interrupts ==
    /\ \/ TakeInterrupt
       \/ Eoi
    /\ UNCHANGED <<fitted, kbVars, fdcVars, comVars, hdcVars>>

ProgramPic ==
    /\ fitted = "pic"
    /\ \/ PollRead
       \/ \E level, single, icw4 \in BOOLEAN : Icw1(level, single, icw4)
       \/ \E auto \in BOOLEAN : IcwNext(auto)
       \/ \E mask \in SUBSET {0, 1, 6} : Ocw1(mask)
       \/ \E l \in {0, 1, 6} : SpecificEoi(l)
       \/ \E poll \in BOOLEAN : Ocw3(poll)
    /\ UNCHANGED <<fitted, kbVars, fdcVars, comVars, hdcVars>>

\* ibm5150_reset: the controller first, then the devices, which lower their
\* lines.
Reset ==
    /\ pic' = PicAfterReset
    /\ nest' = <<>> /\ seen' = {}
    /\ FdcPowerOn /\ ComPowerOn /\ HdcPowerOn /\ KbPowerOn
    /\ UNCHANGED fitted

Next ==
    \/ Keyboard \/ Diskette \/ Serial \/ FixedDisk
    \/ Wire \/ Interrupts \/ ProgramPic
    \/ Reset

Spec == Init /\ [][Next]_vars

-----------------------------------------------------------------------------
(***************************************************************************)
(* Every line is at the level its device asks for: after no sequence of    *)
(* port accesses, ticks, enables and resets has a device changed its mind  *)
(* without telling the interrupt controller.  The fixed disk asks exactly  *)
(* while a status byte waits to be read, so that nothing of a command that *)
(* a select or a reset abandoned comes back in the next one.               *)
(***************************************************************************)
LinesDriven ==
    /\ fdc.out <=> fdc.irq /\ fdc.gate
    /\ com.out <=> ComLine(com)
    /\ hdc.out <=> hdc.phase = "status" /\ hdc.enabled
    /\ kb.out <=> KbLine(kb)
    /\ fitted # "pic" =>
         pic.lines = {l \in {1, 4, 5, 6} :
                        \/ l = 1 /\ kb.out
                        \/ l = 4 /\ com.out
                        \/ l = 5 /\ hdc.out
                        \/ l = 6 /\ fdc.out}

\* What is on its way to the guest: the code in the port and the queue.
OnTheWay == <<kb.data>> \o kb.queue

(***************************************************************************)
(* No key sticks and none is missed: what the guest has been told, with    *)
(* what is on its way, is the keys that are down, unless the queue was     *)
(* full or a reset flushed it.                                             *)
(***************************************************************************)
KeysAgree == ~lost => GotAll(guest, OnTheWay) = kb.key_down

(***************************************************************************)
(* "otherwise Shift+P can arrive as p": when the guest is told that a key  *)
(* went down, the modifiers it knows to be down are those that were held   *)
(* in that frame, however many keys changed together.                      *)
(***************************************************************************)
ModifiersFirst ==
    ~lost => \A i \in DOMAIN OnTheWay :
               LET c == OnTheWay[i]
               IN  c \notin {NoCode, SelfTest} /\ c.down /\ c.key \notin Modifiers
                     => GotAll(guest, SubSeq(OnTheWay, 1, i)) \cap Modifiers
                          = c.mods

(***************************************************************************)
(* The keyboard tells the guest of every change, in an order it can use.   *)
(***************************************************************************)
KeysArrive == KeysAgree /\ ModifiersFirst
=============================================================================
