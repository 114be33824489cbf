------------------------------ MODULE Mos6502 -------------------------------
(***************************************************************************)
(* The 6502 core: mos6502_step, mos6502_reset and service_irq, cycle by    *)
(* cycle, with the sampling of NMI and IRQ that `cycle_polling' asks for   *)
(* (the NES), without it (the other machines), and without interrupt pins  *)
(* (the 6507).                                                             *)
(*                                                                         *)
(* An instruction is the sequence of its bus cycles, each tagged with what *)
(* the code does between it and the next one; registers, memory and the    *)
(* flags other than I are left out.  The lines change during any cycle, as *)
(* the machine's read and write callbacks run the other chips.             *)
(***************************************************************************)
EXTENDS Naturals, Sequences, SequencesExt

VARIABLES mosMode, mosTodo, mosI, mosNmi, mosIrq, mosPoll, mosKept,
          \* history: the running sequence, I when it began, the lines at the
          \* end of its first and of its last two cycles, and the boundaries
          \* that passed since an NMI not served yet (0 is none)
          mosKind, mosStartI, mosLines, mosOwed

mosVars == <<mosMode, mosTodo, mosI, mosNmi, mosIrq, mosPoll, mosKept,
             mosKind, mosStartI, mosLines, mosOwed>>

MosModes == {"polling", "plain", "noPins"}
MosQuiet == [nmi |-> FALSE, irq |-> FALSE]
NoPoll == <<MosQuiet, MosQuiet>>       \* the last cycle's sample, and the one before

MosInit ==
  /\ mosMode \in MosModes
  /\ mosTodo = <<"reset", "reset">> /\ mosI = TRUE
  /\ mosNmi = FALSE /\ mosIrq = FALSE
  /\ mosPoll = NoPoll /\ mosKept = MosQuiet
  /\ mosKind = "reset" /\ mosStartI = TRUE /\ mosLines = <<>> /\ mosOwed = 0

----------------------------------------------------------------------------
\* Cycles of the instructions after the opcode fetch.

AddressCycles ==
  [imm |-> 0, zp |-> 1, zpx |-> 2, abs |-> 2, abx |-> 2, izx |-> 4, izy |-> 3]
Indexed == {"abx", "izy"}        \* aby is as abx, zpy as zpx

\* Loads, arithmetic and compares: one read, one more cycle across a page.
ReadCycles(mode, crossed) ==
  AddressCycles[mode] + 1 + (IF mode \in Indexed /\ crossed THEN 1 ELSE 0)

\* Stores, and SHA, SHX, SHY and TAS: an indexed one always spends the cycle.
StoreCycles(mode) == AddressCycles[mode] + 1 + (IF mode \in Indexed THEN 1 ELSE 0)

\* Shifts, INC, DEC and the undocumented pairs: read, write back, write.
ModifyCycles(mode) == AddressCycles[mode] + 3 + (IF mode \in Indexed THEN 1 ELSE 0)

\* Implied ones and KIL; PHA, PHP; PLA; JMP; JSR and RTS.
OtherCycles == {1, 2, 3, 4, 5}

PlainLengths ==
  {ReadCycles(m, x) : m \in DOMAIN AddressCycles, x \in BOOLEAN}
  \cup {StoreCycles(m) : m \in DOMAIN AddressCycles \ {"imm"}}
  \cup {ModifyCycles(m) : m \in DOMAIN AddressCycles \ {"imm"}}
  \cup OtherCycles

Cycles(n) == [k \in 1 .. n |-> "cycle"]

ServiceCycles == Cycles(4) \o <<"pushFlags", "cycle", "vector">>

\* What the opcode names, and how its cycles run.
MosInstructions ==
  {[kind |-> "plain", todo |-> Cycles(n + 1)] : n \in PlainLengths}
  \cup {[kind |-> "flag", todo |-> <<"cycle", t>>] : t \in {"clear", "set"}}                \* CLI, SEI
  \cup {[kind |-> "flag", todo |-> Cycles(3) \o <<t>>] : t \in {"clear", "set"}}            \* PLP
  \cup {[kind |-> "rti", todo |-> Cycles(3) \o <<t>> \o Cycles(2)] : t \in {"clear", "set"}}
  \cup {[kind |-> "plain", todo |-> <<"keep">> \o Cycles(n)] : n \in {1, 3}}     \* branches
  \cup {[kind |-> "near", todo |-> <<"keep", "cycle", "restore">>]}
  \cup {[kind |-> "brk", todo |-> Cycles(2) \o ServiceCycles]}

----------------------------------------------------------------------------
\* One cycle: the lines move, then they are sampled, then the code goes on.

MSampled(nmi, irq) ==
  IF mosMode = "polling"
  THEN <<[nmi |-> nmi, irq |-> irq], mosPoll[1]>>
  ELSE mosPoll

Sampled(nmi, irq) ==
  IF mosMode = "polling"
  THEN <<[nmi |-> nmi, irq |-> irq /\ ~mosI], mosPoll[1]>>
  ELSE mosPoll

MosCycle(tags, nmi, irq) ==
  /\ mosTodo # <<>> /\ Head(mosTodo) \in tags
  /\ mosNmi => nmi
  /\ mosTodo' = Tail(mosTodo)
  /\ mosIrq' = irq
  /\ LET now == [nmi |-> nmi, irq |-> irq] IN
     mosLines' = IF Len(mosLines) < 3 THEN Append(mosLines, now)
                 ELSE <<mosLines[1], mosLines[3], now>>
  /\ UNCHANGED <<mosMode, mosKind, mosStartI>>

\* An NMI edge sets the latch; one that finds it set is the same request.
Latch(nmi) ==
  /\ mosNmi' = nmi
  /\ mosOwed' = IF nmi /\ mosOwed = 0 THEN 1 ELSE mosOwed

PlainCycle(nmi, irq) ==
  /\ MosCycle({"cycle", "reset"}, nmi, irq) /\ Latch(nmi)
  /\ mosPoll' = Sampled(nmi, irq) /\ UNCHANGED <<mosI, mosKept>>

\* do_branch looks at the opcode fetch's sample, and a taken branch that stays
\* on its page puts it back.
KeepCycle(nmi, irq) ==
  /\ MosCycle({"keep"}, nmi, irq) /\ Latch(nmi)
  /\ mosPoll' = Sampled(nmi, irq) /\ mosKept' = Sampled(nmi, irq)[1] /\ UNCHANGED mosI

RestoreCycle(nmi, irq) ==
  /\ MosCycle({"restore"}, nmi, irq) /\ Latch(nmi)
  /\ mosPoll' = IF mosMode = "polling" THEN <<Sampled(nmi, irq)[1], mosKept>> ELSE mosPoll
  /\ mosKept' = MosQuiet /\ UNCHANGED mosI

\* CLI, SEI, and the pop of P in PLP and RTI.
FlagCycle(nmi, irq) ==
  /\ MosCycle({"clear", "set"}, nmi, irq) /\ Latch(nmi)
  /\ mosPoll' = Sampled(nmi, irq) /\ mosI' = (Head(mosTodo) = "set") /\ UNCHANGED mosKept

\* service_irq after the push of P: I is set, and an NMI seen by now takes the
\* vector of a BRK or an IRQ.
PushFlags(nmi, irq) ==
  /\ MosCycle({"pushFlags"}, nmi, irq)
  /\ mosPoll' = Sampled(nmi, irq) /\ mosI' = TRUE /\ UNCHANGED mosKept
  /\ IF mosMode = "polling" /\ mosKind # "nmi" /\ mosPoll'[2].nmi
     THEN mosNmi' = FALSE /\ mosOwed' = 0
     ELSE Latch(nmi)

LastOfService(nmi, irq) ==
  /\ MosCycle({"vector"}, nmi, irq) /\ Latch(nmi)
  /\ mosPoll' = IF mosMode = "polling" THEN NoPoll ELSE mosPoll
  /\ UNCHANGED <<mosI, mosKept>>

----------------------------------------------------------------------------
\* mos6502_step at an instruction boundary.

MosBegin(kind, todo) ==
  /\ mosTodo = <<>>
  /\ mosTodo' = todo /\ mosKind' = kind
  /\ mosStartI' = mosI /\ mosLines' = <<>>
  /\ UNCHANGED <<mosMode, mosI, mosPoll, mosKept>>

TakesNmi == mosMode # "noPins" /\ mosNmi /\ (mosMode = "polling" => mosPoll[2].nmi)
TakesIrq ==
  /\ mosMode # "noPins" /\ ~TakesNmi
  /\ IF mosMode = "polling" THEN mosPoll[2].irq ELSE mosIrq /\ ~mosI

ServeNmi ==
  /\ TakesNmi /\ MosBegin("nmi", ServiceCycles)
  /\ mosNmi' = FALSE /\ mosOwed' = 0 /\ UNCHANGED mosIrq

ServeIrq ==
  /\ TakesIrq /\ MosBegin("irq", ServiceCycles)
  /\ mosOwed' = IF mosOwed = 0 THEN 0 ELSE mosOwed + 1
  /\ UNCHANGED <<mosNmi, mosIrq>>

MosExecute(insn) ==
  /\ ~TakesNmi /\ ~TakesIrq /\ MosBegin(insn.kind, insn.todo)
  /\ IF mosMode = "noPins"
     THEN mosNmi' = FALSE /\ mosIrq' = FALSE /\ mosOwed' = 0
     ELSE /\ mosOwed' = IF mosOwed = 0 THEN 0 ELSE mosOwed + 1
          /\ UNCHANGED <<mosNmi, mosIrq>>

\* The machine's reset button, between two steps: the latch is kept.
MosReset ==
  /\ mosTodo = <<>> /\ mosLines # <<>> /\ mosKind # "reset"
  /\ mosTodo' = <<"reset", "reset">> /\ mosI' = TRUE
  /\ mosKind' = "reset" /\ mosStartI' = TRUE /\ mosLines' = <<>>
  /\ UNCHANGED <<mosMode, mosNmi, mosIrq, mosPoll, mosKept, mosOwed>>

MosNext ==
  \/ \E nmi, irq \in BOOLEAN :
       \/ PlainCycle(nmi, irq) \/ KeepCycle(nmi, irq) \/ RestoreCycle(nmi, irq)
       \/ FlagCycle(nmi, irq) \/ PushFlags(nmi, irq) \/ LastOfService(nmi, irq)
  \/ ServeNmi \/ ServeIrq \/ MosReset
  \/ \E insn \in MosInstructions : MosExecute(insn)

----------------------------------------------------------------------------
\* What the chip promises of the interrupt lines, in terms of the lines
\* themselves: an instruction acts on its penultimate cycle (a taken branch
\* that stays on its page on its first), CLI, SEI and PLP are one instruction
\* late but RTI is not, the first instruction of a handler always runs, and an
\* NMI is served once and at most one boundary late.
MosService == mosKind \in {"nmi", "irq", "brk"}
MosDeciding == mosLines[IF mosKind = "near" THEN 1 ELSE Len(mosLines) - 1]

InterruptsOnTime ==
  /\ mosNmi <=> mosOwed > 0
  /\ mosOwed <= (IF mosMode = "polling" THEN 2 ELSE 1)
  /\ mosTodo = <<>> /\ mosMode = "polling" =>
       /\ TakesNmi <=> ~MosService /\ MosDeciding.nmi
       /\ TakesIrq <=> /\ ~MosService /\ ~MosDeciding.nmi /\ MosDeciding.irq
                       /\ ~(IF mosKind = "rti" THEN mosI ELSE mosStartI)
=============================================================================
