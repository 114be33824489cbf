------------------------------- MODULE I8086 -------------------------------
(***************************************************************************)
(* The 8086 core: x86_step with its prefixes, hardware and software        *)
(* interrupts, the single-step trap, HLT, the instruction's shadow after   *)
(* STI, MOV SS and POP SS, and the string instructions, which run to their *)
(* end inside one step.                                                    *)
(*                                                                         *)
(* `x86' is the core at the present level: level 0 is the main program,    *)
(* level n the n-th handler nested in it; a frame is what                  *)
(* deliver_interrupt pushed.  The instruction pointer is the instructions  *)
(* of its level executed so far.  Handlers leave by IRET.                  *)
(*                                                                         *)
(* The two cores with nested interrupts make one promise, stated here.     *)
(***************************************************************************)
EXTENDS Naturals, Sequences, SequencesExt, Z80

CONSTANTS X86Program,   \* instructions of the main program, a bound
          X86Count,     \* largest count of a string instruction, a bound
          X86Depth      \* nested handlers, a bound

VARIABLES x86, x86Frames, irqPending, intr,
          \* history: what the main program did and asked for
          x86Ran, x86Wants, x86Traced, x86Moved

x86Vars == <<x86, x86Frames, irqPending, intr, x86Ran, x86Wants, x86Traced, x86Moved>>

X86Init ==
  /\ x86 = [ip |-> 0, if |-> FALSE, tf |-> FALSE, halted |-> FALSE, inhibit |-> FALSE, cx |-> 0,
            half |-> FALSE]
  /\ x86Frames = <<>> /\ irqPending = FALSE /\ intr = FALSE
  /\ x86Ran = 0 /\ x86Wants = [if |-> FALSE, tf |-> FALSE]
  /\ x86Traced = [due |-> 0, taken |-> 0]
  /\ x86Moved = [due |-> 0, made |-> 0]

X86InMain == x86Frames = <<>>

----------------------------------------------------------------------------
\* deliver_interrupt: flags, CS and IP are pushed, IF and TF cleared.  The
\* handlers save and restore what else they use.

X86Frame(kind, c) ==
  [kind |-> kind, ip |-> c.ip, if |-> c.if, tf |-> c.tf, cx |-> c.cx, half |-> c.half]

X86Delivered(c) == [c EXCEPT !.ip = 0, !.if = FALSE, !.tf = FALSE, !.cx = 0]

\* The head of the step: INTR and x86_request_irq, unless the instruction
\* before was STI, MOV SS or POP SS.
MAnswers == x86.if /\ (irqPending \/ intr)

Answers == ~x86.inhibit /\ x86.if /\ (irqPending \/ intr)

X86Acknowledge ==
  /\ Answers /\ Len(x86Frames) < X86Depth
  /\ irqPending' = FALSE
  /\ intr' = (irqPending /\ intr)       \* intr_ack only when it is the one answered
  /\ x86Frames' = Append(x86Frames, X86Frame("irq", x86))
  /\ x86' = [X86Delivered(x86) EXCEPT !.halted = FALSE, !.inhibit = FALSE]
  /\ UNCHANGED <<x86Ran, x86Wants, x86Traced, x86Moved>>

X86Halted ==
  /\ ~Answers /\ x86.halted
  /\ x86' = [x86 EXCEPT !.inhibit = FALSE]
  /\ UNCHANGED <<x86Frames, irqPending, intr, x86Ran, x86Wants, x86Traced, x86Moved>>

----------------------------------------------------------------------------
\* One instruction with its prefixes.  `after' is the core as it leaves it, up
\* to IP; TF set when it started traps after it, unless it is one of those
\* that hold interrupts off.

Fetches == ~Answers /\ ~x86.halted /\ (X86InMain => x86.ip < X86Program)

Traps(after) == x86.tf /\ ~after.inhibit

Completes(after, frames) ==
  /\ Fetches
  /\ x86Ran' = IF X86InMain THEN x86Ran + 1 ELSE x86Ran
  /\ x86Traced' = IF X86InMain
                  THEN [due |-> x86Traced.due + (IF x86Wants.tf /\ ~after.inhibit THEN 1 ELSE 0),
                        taken |-> x86Traced.taken + (IF Traps(after) THEN 1 ELSE 0)]
                  ELSE x86Traced
  /\ IF Traps(after)
     THEN x86Frames' = Append(frames, X86Frame("trap", after)) /\ x86' = X86Delivered(after)
     ELSE x86Frames' = frames /\ x86' = after
  /\ Len(x86Frames') <= X86Depth
  /\ UNCHANGED <<irqPending, intr>>

Next86 == [x86 EXCEPT !.inhibit = FALSE, !.ip = IF X86InMain THEN @ + 1 ELSE 0]

\* Everything that leaves the control state alone.
Ordinary == Completes(Next86, x86Frames) /\ UNCHANGED <<x86Wants, x86Moved>>

\* CLI, and STI with its shadow.
SetIf(on) ==
  /\ Completes([Next86 EXCEPT !.if = on, !.inhibit = on], x86Frames)
  /\ x86Wants' = IF X86InMain THEN [x86Wants EXCEPT !.if = on] ELSE x86Wants
  /\ UNCHANGED x86Moved

\* POPF; a TF it sets traps from the next instruction on.
Popf(if, tf) ==
  /\ X86InMain /\ Completes([Next86 EXCEPT !.if = if, !.tf = tf], x86Frames)
  /\ x86Wants' = [if |-> if, tf |-> tf] /\ UNCHANGED x86Moved

\* MOV SS or POP SS; until SP is loaded too the stack is not one.
MovSs ==
  /\ X86InMain /\ ~x86.half
  /\ Completes([Next86 EXCEPT !.inhibit = TRUE, !.half = TRUE], x86Frames)
  /\ UNCHANGED <<x86Wants, x86Moved>>

MovSp ==
  /\ x86.half
  /\ Completes([Next86 EXCEPT !.half = FALSE], x86Frames) /\ UNCHANGED <<x86Wants, x86Moved>>

X86Hlt == X86InMain /\ Completes([Next86 EXCEPT !.halted = TRUE], x86Frames) /\ UNCHANGED <<x86Wants, x86Moved>>

\* INT n, INTO and the divide errors: delivered inside the instruction, so a
\* trap of that instruction is pushed on top of it.
Software ==
  /\ X86InMain
  /\ Completes(X86Delivered(Next86), Append(x86Frames, X86Frame("int", Next86)))
  /\ UNCHANGED <<x86Wants, x86Moved>>

LoadCx(n) ==
  /\ X86InMain /\ x86.cx = 0 /\ Completes([Next86 EXCEPT !.cx = n], x86Frames)
  /\ x86Moved' = [due |-> n, made |-> 0] /\ UNCHANGED x86Wants

\* REP and REPNE: to the end of the count, or CMPS and SCAS to the element that
\* settles the comparison.
Repeated(n) ==
  /\ X86InMain /\ n \in 1 .. x86.cx
  /\ Completes([Next86 EXCEPT !.cx = @ - n], x86Frames)
  /\ x86Moved' = [x86Moved EXCEPT !.made = @ + n] /\ UNCHANGED x86Wants

Iret ==
  /\ ~X86InMain
  /\ LET f == Last(x86Frames) IN
     Completes([x86 EXCEPT !.inhibit = FALSE, !.ip = f.ip, !.if = f.if, !.tf = f.tf,
                           !.cx = f.cx, !.half = f.half], Front(x86Frames))
  /\ UNCHANGED <<x86Wants, x86Moved>>

X86Reset ==
  /\ x86Ran > 0
  /\ x86' = [ip |-> 0, if |-> FALSE, tf |-> FALSE, halted |-> FALSE, inhibit |-> FALSE,
             cx |-> 0, half |-> FALSE]
  /\ x86Frames' = <<>> /\ irqPending' = FALSE /\ UNCHANGED intr
  /\ x86Ran' = 0 /\ x86Wants' = [if |-> FALSE, tf |-> FALSE]
  /\ x86Traced' = [due |-> 0, taken |-> 0] /\ x86Moved' = [due |-> 0, made |-> 0]

\* A PIC with a deliverable request, a program that withdraws one, and
\* x86_request_irq.
Devices ==
  /\ \/ intr' = ~intr /\ UNCHANGED irqPending
     \/ ~irqPending /\ irqPending' = TRUE /\ UNCHANGED intr
  /\ UNCHANGED <<x86, x86Frames, x86Ran, x86Wants, x86Traced, x86Moved>>

X86Next ==
  \/ X86Acknowledge \/ X86Halted
  \/ IF x86.half /\ X86InMain THEN MovSp
     ELSE \/ Ordinary \/ MovSs \/ X86Hlt \/ Software \/ Iret
          \/ \E on \in BOOLEAN : SetIf(on)
          \/ \E if, tf \in BOOLEAN : Popf(if, tf)
          \/ \E n \in 1 .. X86Count : LoadCx(n) \/ Repeated(n)
  \/ X86Reset \/ Devices

----------------------------------------------------------------------------
\* What interrupts and traps owe the main program: nothing is ever pushed on a
\* stack whose SS is loaded and SP is not, the program goes on where it was,
\* with the IF and TF it asked for and its string operation unharmed, and each
\* instruction begun with TF set, but for those that hold interrupts off, has
\* trapped once before the next one runs.
X86StackWhole == \A k \in DOMAIN x86Frames : ~x86Frames[k].half

X86Transparent ==
  /\ X86StackWhole
  /\ LET main == IF X86InMain THEN x86 ELSE x86Frames[1] IN
     /\ main.ip = x86Ran
     /\ main.cx + x86Moved.made = x86Moved.due
     /\ main.if = x86Wants.if /\ main.tf = x86Wants.tf
  /\ x86Traced.due = x86Traced.taken

\* A program of the Z80 or the 8086 computes what it computes without interrupts.
ProgramsUnaware == InterruptsUnseen /\ X86Transparent
=============================================================================
