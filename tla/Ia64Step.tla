------------------------------ MODULE Ia64Step ------------------------------
(***************************************************************************)
(* merced_step of the Merced core: recognition of external and timer       *)
(* interrupts, fetch and execution of one slot, delivery of faults through *)
(* deliver_fault, and rfi; with the local interrupt registers (IVR, EOI,   *)
(* TPR, ITM) that the handlers use.                                        *)
(*                                                                         *)
(* An instruction address is a code level and a slot position: level 0 is  *)
(* the interrupted program, level n the handlers running with n collected  *)
(* interruptions open.  Instructions are told apart by what they do to the *)
(* control state.  `open' holds what each collected interruption really    *)
(* interrupted, `serving' the vectors software took from IVR and has not   *)
(* ended; both are history.  `kept' is the handlers' memory: IIP and IPSR  *)
(* saved before psr.ic is set again.  cr.lrr0.m, which masks ExtINT, stays *)
(* clear, as merced_reset leaves it.                                       *)
(***************************************************************************)
EXTENDS Integers, Sequences, FiniteSets, FiniteSetsExt, SequencesExt, Ia64Rse

CONSTANTS Vectors,      \* external vectors devices raise; 2 is NMI, 0 ExtINT
          TimerVector,  \* cr.itv's vector
          StepLevels    \* interruptions open at once, a bound

\* A vector is a byte.
ASSUME StepSizes == Vectors \subseteq 0 .. 255 /\ TimerVector \in 0 .. 255

VARIABLES cpu, ii, open, kept, extPending, inService, timer, tpr, serving

stepVars == <<cpu, ii, open, kept, extPending, inService, timer, tpr, serving>>

Positions == 0 .. 5          \* two bundles of three slots
Class(v) == v \div 16
MmiTpr == 16                 \* tpr.mmi masks everything but NMI
TprValues == {0, 2, 3, MmiTpr}

StepInit ==
  /\ cpu = [lvl |-> 0, pos |-> 0, group |-> TRUE, i |-> FALSE, ic |-> FALSE, inflight |-> FALSE]
  /\ ii = [lvl |-> 0, pos |-> 0, i |-> FALSE, ic |-> FALSE]
  /\ open = <<>> /\ kept = <<>>
  /\ extPending = {} /\ inService = {} /\ serving = <<>>
  /\ timer = "off" /\ tpr = 0

----------------------------------------------------------------------------
\* Masking.

InServiceHighest == IF inService = {} THEN 0 ELSE Max(inService)

MInterruptUnmasked(v) ==
  \/ v = 2
  \/ v = 0 /\ tpr # MmiTpr
  \/ v >= 16 /\ tpr # MmiTpr /\ Class(v) > tpr

InterruptUnmasked(v) ==
  \/ v = 2
  \/ v = 0 /\ tpr # MmiTpr
  \/ /\ v >= 16 /\ tpr # MmiTpr /\ Class(v) > tpr
     /\ inService # {} => Class(v) > Class(InServiceHighest)

\* NMI first, then ExtINT, then the highest vector; -1 when there is none.
ExtHighestUnmasked ==
  LET U == {v \in extPending : InterruptUnmasked(v)}
  IN  IF 2 \in U THEN 2 ELSE IF 0 \in U THEN 0 ELSE IF U = {} THEN -1 ELSE Max(U)

----------------------------------------------------------------------------
\* deliver_fault.  With psr.ic clear nothing is collected: a data TLB miss
\* goes to the nested vector, another fault to its own with ISR.ni, and IIP,
\* IPSR and IFS stay those of the open interruption.

Collected(group) ==
  /\ Len(open) < StepLevels
  /\ ii' = [lvl |-> cpu.lvl, pos |-> cpu.pos, i |-> cpu.i, ic |-> cpu.ic]
  /\ open' = Append(open, [lvl |-> cpu.lvl, pos |-> cpu.pos])
  /\ cpu' = [lvl |-> cpu.lvl + 1, pos |-> 0, group |-> group, i |-> FALSE, ic |-> FALSE,
             inflight |-> FALSE]

MDeliverFault(group) ==
  \/ cpu.ic /\ Collected(group)
  \/ /\ ~cpu.ic
     /\ ii' = [lvl |-> cpu.lvl, pos |-> cpu.pos, i |-> cpu.i, ic |-> cpu.ic]
     /\ cpu' = [cpu EXCEPT !.pos = 0, !.group = group]
     /\ UNCHANGED open

DeliverFault(group) ==
  \/ cpu.ic /\ Collected(group)
  \/ /\ ~cpu.ic
     /\ cpu' = [cpu EXCEPT !.pos = 0, !.group = group]
     /\ UNCHANGED <<ii, open>>

----------------------------------------------------------------------------
\* Interrupts are recognised only where a group starts, with psr.i and psr.ic.

Recognised ==
  /\ cpu.group /\ cpu.i /\ cpu.ic
  /\ \/ ExtHighestUnmasked >= 0
     \/ timer \in {"pending"} /\ InterruptUnmasked(TimerVector)

StepInterrupt ==
  /\ Recognised
  /\ DeliverFault(TRUE)
  /\ UNCHANGED <<kept, extPending, inService, timer, tpr, serving>>

\* The end of merced_step for a slot that executed: ITC advances, and a
\* redirected slot starts a group; otherwise the template's stop bit decides
\* and the address moves on, two slots for a long instruction.
ItcAdvance == \/ UNCHANGED timer
              \/ timer = "armed" /\ timer' = "pending"

NextPos(long) == (cpu.pos + IF long THEN 2 ELSE 1) % 6

Retire(stop, long, c) ==
  cpu' = [c EXCEPT !.pos = NextPos(long), !.group = stop]

Executes == ~Recognised /\ cpu.lvl <= StepLevels

\* Fetch fails its translation, or the template is reserved: merced_step
\* returns before the code that starts a new group.
StepFetchFault ==
  /\ Executes
  /\ DeliverFault(cpu.group)
  /\ UNCHANGED <<kept, extPending, inService, timer, tpr, serving>>

\* A slot that faults: data translation, NaT consumption, break, alloc that is
\* not first in its group, cover without a stop.
StepFault ==
  /\ Executes
  /\ DeliverFault(TRUE)
  /\ ItcAdvance
  /\ UNCHANGED <<kept, extPending, inService, tpr, serving>>

\* Any slot that touches only data, and a nop: the L slot of an MLX bundle
\* takes two slots.
StepPlain ==
  /\ Executes
  /\ \E stop, long \in BOOLEAN :
       /\ long => cpu.pos % 3 = 1
       /\ Retire(stop, long, cpu)
  /\ ItcAdvance
  /\ UNCHANGED <<ii, open, kept, extPending, inService, tpr, serving>>

\* Taken branches, chk recovery, and the two loops run as one step.
StepBranch ==
  /\ Executes
  /\ \E p \in {0, 3} : cpu' = [cpu EXCEPT !.pos = p, !.group = TRUE]
  /\ ItcAdvance
  /\ UNCHANGED <<ii, open, kept, extPending, inService, tpr, serving>>

\* A counted loop of stores or of nops in slot 0 is run at once; the address
\* moves to the next bundle and group_start stays as it was.
StepFastLoop ==
  /\ Executes /\ cpu.pos % 3 = 0
  /\ cpu' = [cpu EXCEPT !.pos = (@ + 3) % 6]
  /\ ItcAdvance
  /\ UNCHANGED <<ii, open, kept, extPending, inService, tpr, serving>>

\* ssm and rsm of psr.i and psr.ic; a change of psr.ic is in flight until srlz.
\* A handler sets psr.ic only once it has saved IIP and IPSR.
StepSsmRsm ==
  /\ Executes
  /\ \E i, ic \in BOOLEAN :
       /\ ic /\ ~cpu.ic => Len(kept) = cpu.lvl
       /\ ~ic /\ cpu.ic => Len(kept) = cpu.lvl
       /\ Retire(TRUE, FALSE, [cpu EXCEPT !.i = i, !.ic = ic,
                                          !.inflight = @ \/ ic # cpu.ic])
  /\ UNCHANGED <<ii, open, kept, extPending, inService, timer, tpr, serving>>

StepSrlz ==
  /\ Executes /\ cpu.inflight
  /\ Retire(TRUE, FALSE, [cpu EXCEPT !.inflight = FALSE])
  /\ UNCHANGED <<ii, open, kept, extPending, inService, timer, tpr, serving>>

\* mov from and to cr.iip and cr.ipsr, in handlers with psr.ic clear.
StepSaveCr ==
  /\ Executes /\ cpu.lvl > 0 /\ ~cpu.ic /\ Len(kept) = cpu.lvl - 1
  /\ kept' = Append(kept, ii)
  /\ Retire(TRUE, FALSE, cpu)
  /\ UNCHANGED <<ii, open, extPending, inService, timer, tpr, serving>>

StepRestoreCr ==
  /\ Executes /\ cpu.lvl > 0 /\ ~cpu.ic /\ Len(kept) = cpu.lvl
  /\ ii' = Last(kept) /\ kept' = Front(kept)
  /\ Retire(TRUE, FALSE, cpu)
  /\ UNCHANGED <<open, extPending, inService, timer, tpr, serving>>

\* rfi, which a handler runs with psr.ic clear and IIP, IPSR its own again.
StepRfi ==
  /\ Executes /\ cpu.lvl > 0 /\ ~cpu.ic /\ Len(kept) = cpu.lvl - 1
  /\ cpu' = [lvl |-> ii.lvl, pos |-> ii.pos, group |-> TRUE, i |-> ii.i, ic |-> ii.ic,
             inflight |-> cpu.inflight]
  /\ open' = Front(open)
  /\ UNCHANGED <<ii, kept, extPending, inService, timer, tpr, serving>>

----------------------------------------------------------------------------
\* Local interrupt registers.

\* mov from cr.ivr: external vectors before the timer's, 15 for none.  From 16
\* up the vector is in service until EOI.
StepReadIvr ==
  /\ Executes /\ cpu.lvl > 0
  /\ LET e   == ExtHighestUnmasked
         t   == timer = "pending" /\ InterruptUnmasked(TimerVector)
         v   == IF e >= 0 THEN e ELSE IF t THEN TimerVector ELSE 15
     IN  /\ extPending' = extPending \ {e}
         /\ timer' = IF e < 0 /\ t THEN "off" ELSE timer
         /\ inService' = IF v >= 16 THEN inService \cup {v} ELSE inService
         /\ serving' = IF v >= 16 THEN Append(serving, v) ELSE serving
  /\ Retire(TRUE, FALSE, cpu)
  /\ UNCHANGED <<ii, open, kept, tpr>>

\* mov to cr.eoi ends the highest vector in service; software ends the one it
\* took last.
StepEoi ==
  /\ Executes /\ serving # <<>>
  /\ inService' = inService \ {InServiceHighest}
  /\ serving' = Front(serving)
  /\ Retire(TRUE, FALSE, cpu)
  /\ UNCHANGED <<ii, open, kept, extPending, timer, tpr>>

StepTpr ==
  /\ Executes
  /\ \E t \in TprValues \ {tpr} : tpr' = t
  /\ Retire(TRUE, FALSE, cpu)
  /\ UNCHANGED <<ii, open, kept, extPending, inService, timer, serving>>

StepArmItm ==
  /\ Executes /\ timer = "off"
  /\ timer' = "armed"
  /\ Retire(TRUE, FALSE, cpu)
  /\ UNCHANGED <<ii, open, kept, extPending, inService, tpr, serving>>

\* merced_raise_external, from the machine between two steps.
RaiseExternal ==
  \E v \in Vectors \ extPending :
    /\ extPending' = extPending \cup {v}
    /\ UNCHANGED <<cpu, ii, open, kept, inService, timer, tpr, serving>>

StepNext ==
  \/ StepInterrupt \/ StepFetchFault \/ StepFault \/ StepPlain \/ StepBranch
  \/ StepFastLoop \/ StepSsmRsm \/ StepSrlz \/ StepSaveCr \/ StepRestoreCr \/ StepRfi
  \/ StepReadIvr \/ StepEoi \/ StepTpr \/ StepArmItm \/ RaiseExternal

StepSpec == StepInit /\ [][StepNext]_stepVars

----------------------------------------------------------------------------
\* Faults taken while psr.ic is clear leave IIP and IPSR alone, so rfi goes
\* back to the slot the innermost collected interruption really interrupted.
RfiResumes ==
  [][Len(open') < Len(open) =>
       cpu'.lvl = Last(open).lvl /\ cpu'.pos = Last(open).pos]_stepVars

\* rfi goes back to the slot that was interrupted, with the registers that the
\* code interrupted there owned.
RfiReturns == RfiTransparent /\ RfiResumes

\* Vectors nest by priority class: the highest in service, which EOI ends, is
\* the one software took from IVR last.
EoiEndsLastTaken ==
  /\ inService = Range(serving)
  /\ serving # <<>> => InServiceHighest = Last(serving)
=============================================================================
