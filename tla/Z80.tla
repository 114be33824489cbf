-------------------------------- MODULE Z80 --------------------------------
(***************************************************************************)
(* The Z80 core: z80_step with NMI, INT in its three modes, HALT, the      *)
(* delay after EI, the repeating block instructions, RETN and RETI, and    *)
(* LD A,I with its parity flag.                                            *)
(*                                                                         *)
(* `z80' is the core at the present level: level 0 is the main program,    *)
(* level n the n-th handler nested in it; a frame is what an interrupt     *)
(* pushed, with the registers its handler saves and restores.  A program   *)
(* counter is the instructions of its level executed so far.  Handlers are *)
(* written as the manual asks: one of INT leaves by EI and RETI, one of    *)
(* NMI by RETN and touches neither EI nor DI.                              *)
(*                                                                         *)
(* nmi_line is the input z80.h documents; of the repository's boards none  *)
(* raises it (machine_z80.c and machine_lagonda.c clear it at reset).  The *)
(* byte on the bus, int_data, is $FF in all of them: mode 0 runs RST 38.   *)
(***************************************************************************)
EXTENDS Naturals, Sequences, SequencesExt

CONSTANTS Z80Program,   \* instructions of the main program, a bound
          Z80Block,     \* largest count of a block instruction, a bound
          Z80Depth      \* nested handlers, a bound

VARIABLES z80, z80Frames, nmiLine, intLine,
          \* history: what the main program asked for and what it did
          z80Ran, z80Wants, z80Told, z80Moved

z80Vars == <<z80, z80Frames, nmiLine, intLine, z80Ran, z80Wants, z80Told, z80Moved>>

Z80Regs == [pc |-> 0, bc |-> 0, pv |-> FALSE]
NoMoves == [due |-> 0, made |-> 0]

Z80Init ==
  /\ z80 = [regs |-> Z80Regs, iff1 |-> FALSE, iff2 |-> FALSE, ei |-> FALSE, p |-> FALSE,
            halted |-> FALSE]
  /\ z80Frames = <<>> /\ nmiLine = FALSE /\ intLine = FALSE
  /\ z80Ran = 0 /\ z80Wants = FALSE /\ z80Told = FALSE /\ z80Moved = NoMoves

InMain == z80Frames = <<>>
Z80Handler == IF InMain THEN "main" ELSE Last(z80Frames).kind

----------------------------------------------------------------------------
\* Interrupt acknowledge.  c->ei was read and cleared at the head of the step.

Z80Pushed(kind) == Append(z80Frames, [kind |-> kind, regs |-> z80.regs])

MTakeNmi ==
  /\ nmiLine /\ nmiLine' = FALSE
  /\ Len(z80Frames) < Z80Depth
  /\ z80Frames' = Z80Pushed("nmi")
  /\ z80' = [z80 EXCEPT !.regs = Z80Regs, !.iff1 = FALSE, !.iff2 = FALSE, !.ei = FALSE,
                        !.p = FALSE, !.halted = FALSE]
  /\ UNCHANGED <<intLine, z80Ran, z80Wants, z80Told, z80Moved>>

TakeNmi ==
  /\ nmiLine /\ nmiLine' = FALSE
  /\ Len(z80Frames) < Z80Depth
  /\ z80Frames' = Z80Pushed("nmi")
  /\ z80' = [z80 EXCEPT !.regs = Z80Regs, !.iff1 = FALSE, !.ei = FALSE, !.p = FALSE,
                        !.halted = FALSE]
  /\ UNCHANGED <<intLine, z80Ran, z80Wants, z80Told, z80Moved>>

TakesInt == ~nmiLine /\ intLine /\ z80.iff1 /\ ~z80.ei

\* After LD A,I the parity it copied is cleared first.
ParityLost == IF z80.p THEN [z80.regs EXCEPT !.pv = FALSE] ELSE z80.regs

\* In modes 0 (the boards leave an RST on the bus), 1 and 2 alike.
TakeInt ==
  /\ TakesInt
  /\ Len(z80Frames) < Z80Depth
  /\ z80Frames' = Append(z80Frames, [kind |-> "int", regs |-> ParityLost])
  /\ z80' = [z80 EXCEPT !.regs = Z80Regs, !.iff1 = FALSE, !.iff2 = FALSE, !.p = FALSE,
                        !.halted = FALSE]
  /\ UNCHANGED <<nmiLine, intLine, z80Ran, z80Wants, z80Told, z80Moved>>

----------------------------------------------------------------------------
\* One instruction: neither line was answered and the core is not halted.

Z80Runs == ~nmiLine /\ ~TakesInt /\ ~z80.halted
Z80Halted == ~nmiLine /\ ~TakesInt /\ z80.halted

\* exec_main with the flags of the step set; what this leaves is z80'.
Z80Executes(next) ==
  /\ Z80Runs
  /\ InMain => z80.regs.pc < Z80Program
  /\ z80' = [next EXCEPT !.regs.pc = IF InMain THEN @ + 1 ELSE 0]
  /\ z80Ran' = IF InMain THEN z80Ran + 1 ELSE z80Ran
  /\ UNCHANGED <<z80Frames, nmiLine, intLine>>

Z80Core == [z80 EXCEPT !.ei = FALSE, !.p = FALSE]

\* Everything else, a run of DD and FD prefixes with what it prefixes included.
Z80Plain == Z80Executes(Z80Core) /\ UNCHANGED <<z80Wants, z80Told, z80Moved>>

EI ==
  /\ Z80Handler # "nmi"
  /\ Z80Executes([Z80Core EXCEPT !.iff1 = TRUE, !.iff2 = TRUE, !.ei = TRUE])
  /\ z80Wants' = (InMain \/ z80Wants) /\ UNCHANGED <<z80Told, z80Moved>>

DI ==
  /\ Z80Handler # "nmi"
  /\ Z80Executes([Z80Core EXCEPT !.iff1 = FALSE, !.iff2 = FALSE])
  /\ z80Wants' = (~InMain /\ z80Wants) /\ UNCHANGED <<z80Told, z80Moved>>

\* LD A,I and LD A,R.
LdAI ==
  /\ Z80Executes([Z80Core EXCEPT !.regs.pv = z80.iff2, !.p = TRUE])
  /\ z80Told' = IF InMain THEN z80Wants ELSE z80Told
  /\ UNCHANGED <<z80Wants, z80Moved>>

Halt == InMain /\ Z80Executes([Z80Core EXCEPT !.halted = TRUE]) /\ UNCHANGED <<z80Wants, z80Told, z80Moved>>

\* The next address is read and thrown away; nothing but R and the time move.
HaltedStep == Z80Halted /\ z80' = Z80Core /\ UNCHANGED <<z80Frames, nmiLine, intLine, z80Ran, z80Wants, z80Told, z80Moved>>

LoadCount(n) ==
  /\ InMain /\ z80.regs.bc = 0
  /\ Z80Executes([Z80Core EXCEPT !.regs.bc = n])
  /\ z80Moved' = [due |-> n, made |-> 0] /\ UNCHANGED <<z80Wants, z80Told>>

\* LDIR and its kin: one byte a step, and the instruction runs again from its
\* own address while the count lasts and no match stops it.
BlockStep(match) ==
  /\ InMain /\ Z80Runs /\ z80.regs.pc < Z80Program /\ z80.regs.bc > 0
  /\ z80Moved' = [z80Moved EXCEPT !.made = @ + 1]
  /\ LET bc == z80.regs.bc - 1
         again == bc > 0 /\ ~match IN
     /\ z80' = [Z80Core EXCEPT !.regs = [z80.regs EXCEPT !.bc = bc, !.pc = IF again THEN @ ELSE @ + 1]]
     /\ z80Ran' = IF again THEN z80Ran ELSE z80Ran + 1
  /\ UNCHANGED <<z80Frames, nmiLine, intLine, z80Wants, z80Told>>

\* RETN and RETI are one instruction to the code.
Z80Return ==
  /\ Z80Runs /\ ~InMain
  /\ Z80Handler = "int" => z80.iff1
  /\ z80Frames' = Front(z80Frames)
  /\ z80' = [Z80Core EXCEPT !.regs = Last(z80Frames).regs, !.iff1 = z80.iff2]
  /\ UNCHANGED <<nmiLine, intLine, z80Ran, z80Wants, z80Told, z80Moved>>

\* z80_reset, and the machines' clearing of both lines after it.
Z80Reset ==
  /\ z80Ran > 0
  /\ z80' = [regs |-> Z80Regs, iff1 |-> FALSE, iff2 |-> FALSE, ei |-> FALSE, p |-> FALSE,
             halted |-> FALSE]
  /\ z80Frames' = <<>> /\ nmiLine' = FALSE /\ intLine' = FALSE
  /\ z80Ran' = 0 /\ z80Wants' = FALSE /\ z80Told' = FALSE /\ z80Moved' = NoMoves

Z80Lines ==
  /\ \/ ~nmiLine /\ nmiLine' = TRUE /\ UNCHANGED intLine
     \/ intLine' = ~intLine /\ UNCHANGED nmiLine
  /\ UNCHANGED <<z80, z80Frames, z80Ran, z80Wants, z80Told, z80Moved>>

Z80Next ==
  \/ TakeNmi \/ TakeInt
  \/ Z80Plain \/ EI \/ DI \/ LdAI \/ Halt \/ HaltedStep \/ Z80Return \/ Z80Reset \/ Z80Lines
  \/ \E n \in 1 .. Z80Block : LoadCount(n)
  \/ \E match \in BOOLEAN : BlockStep(match)

----------------------------------------------------------------------------
\* Interrupts leave the main program as it would have run without them: it is
\* where its own instructions put it, a block instruction interrupted between
\* two bytes moves each of them once, interrupts are enabled there if it asked
\* for them whatever NMIs and INTs were nested in between, and LD A,I tells it
\* so, but for the parity an INT taken at once clears.
MainRegs == IF InMain THEN z80.regs ELSE z80Frames[1].regs

InterruptsUnseen ==
  /\ MainRegs.pc = z80Ran
  /\ MainRegs.bc + z80Moved.made = z80Moved.due
  /\ InMain => z80.iff1 = z80Wants /\ z80.iff2 = z80Wants
  /\ MainRegs.pv => z80Told
  /\ InMain /\ z80.p => z80.regs.pv = z80Told
=============================================================================
