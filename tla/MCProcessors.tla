---------------------------- MODULE MCProcessors ---------------------------
(***************************************************************************)
(* The parts of the Merced core and the other processor cores, each on its *)
(* own from its initial state: `unit' is the part this behaviour is of,    *)
(* `count' bounds the steps of those that are not finite by themselves.    *)
(***************************************************************************)
EXTENDS Ia64Rse, Ia64Step, Ia64Mmu, Ia64Spec, Ia32, Mos6502, Z80, I8086, Cdp1802

VARIABLES unit, count

MCAccesses == {<<0, 1>>, <<0, 2>>, <<1, 1>>}

Bound == [rse |-> 7, step |-> 8, mmu |-> 5, spec |-> 3, alat |-> 5, ia32 |-> 13]
Finite == {"mos6502", "z80", "i8086", "cdp1802"}

ia64 == <<rseVars, stepVars, mmuVars, specVars, ia32Vars>>
others == <<mosVars, z80Vars, x86Vars, cdpVars>>

Init ==
  /\ unit \in DOMAIN Bound \cup Finite /\ count = 0
  /\ RseInit /\ StepInit /\ MmuInit /\ SpecInit /\ Ia32Init
  /\ MosInit /\ (unit # "mos6502" => mosMode = "plain")
  /\ Z80Init /\ X86Init /\ CdpInit

\* The steps of speculation that touch the table, for longer behaviours.
AlatNext ==
  \/ SpecLoad \/ SpecStore \/ SpecCall \/ SpecReturn \/ SpecChkA \/ SpecInvala \/ SpecInvalaE

Ia64Next ==
  /\ count < Bound[unit] /\ count' = count + 1 /\ UNCHANGED others
  /\ \/ unit = "rse"  /\ RseNext  /\ UNCHANGED <<stepVars, mmuVars, specVars, ia32Vars>>
     \/ unit = "step" /\ StepNext /\ UNCHANGED <<rseVars, mmuVars, specVars, ia32Vars>>
     \/ unit = "mmu"  /\ MmuNext  /\ UNCHANGED <<rseVars, stepVars, specVars, ia32Vars>>
     \/ unit = "spec" /\ SpecNext /\ UNCHANGED <<rseVars, stepVars, mmuVars, ia32Vars>>
     \/ unit = "alat" /\ AlatNext /\ UNCHANGED <<rseVars, stepVars, mmuVars, ia32Vars>>
     \/ unit = "ia32" /\ Ia32Next /\ UNCHANGED <<rseVars, stepVars, mmuVars, specVars>>

OthersNext ==
  /\ UNCHANGED <<count, ia64>>
  /\ \/ unit = "mos6502" /\ MosNext /\ UNCHANGED <<z80Vars, x86Vars, cdpVars>>
     \/ unit = "z80"     /\ Z80Next /\ UNCHANGED <<mosVars, x86Vars, cdpVars>>
     \/ unit = "i8086"   /\ X86Next /\ UNCHANGED <<mosVars, z80Vars, cdpVars>>
     \/ unit = "cdp1802" /\ CdpNext /\ UNCHANGED <<mosVars, z80Vars, x86Vars>>

Next ==
  /\ UNCHANGED unit
  /\ IF unit \in Finite THEN OthersNext ELSE Ia64Next

Spec == Init /\ [][Next]_<<unit, count, ia64, others>>
=============================================================================
