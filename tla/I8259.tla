------------------------------- MODULE I8259 -------------------------------
(***************************************************************************)
(* The Intel 8259A interrupt controller of the IBM 5150                    *)
(* (hardware/device/i8259.c): requests, mask, priority with the in-service *)
(* register, end of interrupt, initialisation words and poll mode.         *)
(*                                                                         *)
(* The registers are sets of line numbers; lower numbers have priority.    *)
(* What only changes the value of a port read is left out: read_isr and    *)
(* the vector base.  single and expect_icw4 are kept as the initialisation *)
(* words still expected, icws.                                             *)
(***************************************************************************)
EXTENDS Naturals, Sequences

CONSTANT Lines        \* the lines something is wired to, of 0..7

ASSUME PicAssumption == Lines \subseteq 0..7

VARIABLES
    pic,    \* the controller
    nest,   \* history: the lines in service, in the order they were taken
    seen    \* history: lines acknowledged, or forgotten by ICW1, since they rose

picVars == <<pic, nest, seen>>

IcwSequences == {<<>>, <<2>>, <<2, 3>>, <<2, 4>>, <<2, 3, 4>>, <<3>>, <<3, 4>>, <<4>>}

PicTypeOK ==
    /\ pic \in [imr : SUBSET Lines, irr : SUBSET Lines, isr : SUBSET Lines,
                lines : SUBSET Lines, auto_eoi : BOOLEAN, level_mode : BOOLEAN,
                poll : BOOLEAN, icws : IcwSequences]
    /\ nest \in Seq(Lines)
    /\ seen \in SUBSET Lines

PicReset == [imr |-> Lines, irr |-> {}, isr |-> {}, lines |-> {},
             auto_eoi |-> FALSE, level_mode |-> FALSE, poll |-> FALSE,
             icws |-> <<>>]

-----------------------------------------------------------------------------
\* highest: the first line in priority, as a set of at most one
Highest(S) == {l \in S : \A m \in S : l <= m}

OutranksAll(l) == \A m \in pic.isr : l < m

\* deliverable: the request that would be delivered next, if any
Deliverable == {l \in Highest(pic.irr \ pic.imr) : OutranksAll(l)}

\* acknowledge, by the CPU's INTA (i8259_ack) or a poll; poll is its new value
Acknowledge(l, poll) ==
    /\ pic' = [pic EXCEPT
                 !.irr = (@ \ {l}) \cup
                         (IF pic.level_mode THEN {l} \cap pic.lines ELSE {}),
                 !.isr = IF pic.auto_eoi THEN @ ELSE @ \cup {l},
                 !.poll = poll]
    /\ nest' = IF pic.auto_eoi THEN nest ELSE Append(nest, l)
    /\ seen' = seen \cup {l}

\* x86_step: with interrupts enabled, INTR is taken before an instruction.
TakeInterrupt == \E l \in Deliverable : Acknowledge(l, pic.poll)

\* A read of port 20h in poll mode; other reads change nothing.
PollRead ==
    /\ pic.poll
    /\ \/ \E l \in Deliverable : Acknowledge(l, FALSE)
       \/ /\ Deliverable = {}
          /\ pic' = [pic EXCEPT !.poll = FALSE]
          /\ UNCHANGED <<nest, seen>>

-----------------------------------------------------------------------------
\* i8259_io_write

Icw1(level, single, icw4) ==
    /\ pic' = [pic EXCEPT
                 !.level_mode = level, !.imr = {}, !.isr = {},
                 !.irr = IF level THEN pic.lines ELSE {},
                 !.auto_eoi = FALSE, !.poll = FALSE,
                 !.icws = <<2>> \o (IF single THEN <<>> ELSE <<3>>)
                                \o (IF icw4 THEN <<4>> ELSE <<>>)]
    /\ nest' = <<>>
    /\ seen' = IF level THEN seen ELSE seen \cup pic.lines

\* ICW2 and ICW3 only move on; ICW4 sets automatic EOI.
IcwNext(auto) ==
    /\ pic.icws # <<>>
    /\ pic' = [pic EXCEPT !.icws = Tail(@),
                          !.auto_eoi = IF Head(pic.icws) = 4 THEN auto ELSE @]
    /\ UNCHANGED <<nest, seen>>

Ocw1(mask) ==
    /\ pic.icws = <<>>
    /\ pic' = [pic EXCEPT !.imr = mask]
    /\ UNCHANGED <<nest, seen>>

\* A line is in service once at most.
Without(s, l) ==
    IF \A i \in DOMAIN s : s[i] # l THEN s
    ELSE LET at == CHOOSE i \in DOMAIN s : s[i] = l
         IN  [i \in 1..(Len(s) - 1) |-> IF i < at THEN s[i] ELSE s[i + 1]]

EndOf(l) ==
    /\ pic' = [pic EXCEPT !.isr = @ \ {l}]
    /\ nest' = Without(nest, l)
    /\ UNCHANGED seen

\* A non-specific EOI ends the highest line in service.
Eoi == \E l \in Highest(pic.isr) : EndOf(l)

SpecificEoi(l) == EndOf(l)

Ocw3(poll) ==
    /\ pic' = [pic EXCEPT !.poll = poll]
    /\ UNCHANGED <<nest, seen>>

-----------------------------------------------------------------------------
\* i8259_set_irq for each line of on (now high) or off (now low)

\* mutant: the edge of a masked line is not latched
LatchedUnmasked(on) == IF pic.level_mode THEN on ELSE (on \ pic.lines) \ pic.imr

\* In edge mode a request is latched when the line rises.
Latched(on) == IF pic.level_mode THEN on ELSE on \ pic.lines

SetIrq(on, off) ==
    /\ pic' = [pic EXCEPT
                 !.lines = (@ \ off) \cup on,
                 !.irr = (IF pic.level_mode THEN @ \ off ELSE @) \cup Latched(on)]
    /\ seen' = (seen \ off) \ (on \ pic.lines)
    /\ UNCHANGED nest

-----------------------------------------------------------------------------
(***************************************************************************)
(* Handlers nest by priority: what is in service was taken in order, each  *)
(* line by one of a lower number, so that a non-specific EOI ends the      *)
(* handler entered last (whatever mixture of EOIs, polls, masks and modes  *)
(* the guest uses).                                                        *)
(***************************************************************************)
NestedByPriority ==
    /\ \A i, j \in DOMAIN nest : i < j => nest[j] < nest[i]
    /\ pic.isr = {nest[i] : i \in DOMAIN nest}

(***************************************************************************)
(* No request is lost: while a line is high its interrupt is requested, or *)
(* was acknowledged (or wiped by ICW1) since the line rose - also when the *)
(* line was masked at that time.                                           *)
(***************************************************************************)
NoLostInterrupt == \A l \in pic.lines : l \in pic.irr \cup seen

\* The order in which handlers run: nested by priority, none of them forgotten.
InterruptsInOrder == NestedByPriority /\ NoLostInterrupt
=============================================================================
