---------------------------- MODULE Breakpoints ----------------------------
(***************************************************************************)
(* Breakpoints and watchpoints of the monitor (core/src/monitor_cmds.c)    *)
(* and the run loop that honours them (mos_generic_run in                  *)
(* hardware/machine/mos/machine_mos.c, the shape every other loop has).    *)
(*                                                                         *)
(* The loop polls commands, then, unless paused, runs instructions for a   *)
(* frame.  Before each one it asks gemu_monitor_check_exec; the memory     *)
(* callbacks ask check_read and check_write while the instruction runs.    *)
(* The guest program is arbitrary: an instruction reads and writes any     *)
(* addresses and continues anywhere.                                       *)
(***************************************************************************)
EXTENDS Naturals, Sequences

CONSTANTS
    Addr,      \* addresses
    Key(_),    \* addr & addr_mask: what the machine's address lines tell apart
    Vector,    \* where a reset starts
    BP_MAX,    \* size of bp_entries
    MaxId      \* bound on next_bp_id

\* An example for Key: $F000 and $1000 are the same to an Atari 2600, which has 13
\* address lines.
EvenOdd(a) == a % 2

ASSUME BpAssumption == Vector \in Addr /\ BP_MAX \in Nat \ {0} /\ MaxId \in Nat

VARIABLES
    bps,        \* bp_entries[0 .. n_bps - 1]
    nextId,     \* next_bp_id
    hasExec,    \* has_exec_bp
    hasMem,     \* has_mem_bp
    skip,       \* bp_resume_skip
    skipAddr,   \* bp_resume_addr
    paused,     \* paused
    pc,         \* the CPU's program counter
    inFrame,    \* the loop is in a frame, not polling commands
    \* History, for the properties only.
    stoppedOn,  \* a breakpoint stopped the machine at pc; nothing ran since
    passed,     \* a breakpointed instruction ran since the last such stop
    running     \* instructions ran in frames since the machine was paused

table == <<bps, nextId, hasExec, hasMem>>
bpVars == <<bps, nextId, hasExec, hasMem, skip, skipAddr, paused, pc, inFrame,
          stoppedOn, passed, running>>

\* GemuBpType: watch sets both bits.
Types == {{"exec"}, {"read"}, {"write"}, {"read", "write"}}
Entries == [id : 1..MaxId, type : Types, addr : Addr]

BpTypeOK ==
    /\ bps \in Seq(Entries) /\ Len(bps) <= BP_MAX
    /\ nextId \in 0..MaxId
    /\ hasExec \in BOOLEAN /\ hasMem \in BOOLEAN
    /\ skip \in BOOLEAN /\ skipAddr \in Addr
    /\ paused \in BOOLEAN /\ pc \in Addr /\ inFrame \in BOOLEAN
    /\ stoppedOn \in BOOLEAN /\ passed \in BOOLEAN /\ running \in BOOLEAN

BpInit ==
    /\ bps = <<>> /\ nextId = 0
    /\ hasExec = FALSE /\ hasMem = FALSE
    /\ skip = FALSE /\ skipAddr = Vector
    /\ paused = FALSE
    /\ pc = Vector
    /\ inFrame = FALSE
    /\ stoppedOn = FALSE /\ passed = FALSE /\ running = FALSE

\* check_bp: some entry of the type has the address.
Hits(type, a) ==
    \E i \in DOMAIN bps : type \in bps[i].type /\ Key(bps[i].addr) = Key(a)

\* check_read or check_write of one of the accesses pauses the machine.
Watched(reads, writes) ==
    /\ hasMem
    /\ \/ \E a \in reads : Hits("read", a)
       \/ \E a \in writes : Hits("write", a)

ExecIn(s) == \E i \in DOMAIN s : "exec" \in s[i].type
MemIn(s) == \E i \in DOMAIN s : s[i].type \cap {"read", "write"} # {}

-----------------------------------------------------------------------------
\* Commands, between frames.

SetTableKeepMem(s) ==       \* mutant: watchpoints are not looked for
    /\ bps' = s
    /\ hasExec' = ExecIn(s)
    /\ hasMem' = hasMem

SetTable(s) ==
    /\ bps' = s
    /\ hasExec' = ExecIn(s)
    /\ hasMem' = MemIn(s)

FreshId == nextId + 1

Room == Len(bps) < BP_MAX

Polling == ~inFrame

AddBp(type, a) ==
    /\ Polling
    /\ Room
    /\ nextId < MaxId
    /\ nextId' = nextId + 1
    /\ SetTable(Append(bps, [id |-> FreshId, type |-> type, addr |-> a]))
    /\ UNCHANGED <<skip, skipAddr, paused, pc, inFrame, stoppedOn, passed,
                   running>>

DeleteAll ==
    /\ Polling
    /\ SetTable(<<>>)
    /\ UNCHANGED <<nextId, skip, skipAddr, paused, pc, inFrame, stoppedOn,
                   passed, running>>

\* The first entry with the id goes and the ones behind it move up.
Delete(n) ==
    /\ Polling
    /\ \E i \in DOMAIN bps :
          /\ bps[i].id = n
          /\ \A j \in 1..(i - 1) : bps[j].id # n
          /\ SetTable(SubSeq(bps, 1, i - 1) \o SubSeq(bps, i + 1, Len(bps)))
    /\ UNCHANGED <<nextId, skip, skipAddr, paused, pc, inFrame, stoppedOn,
                   passed, running>>

Cont ==
    /\ Polling
    /\ paused' = FALSE
    /\ UNCHANGED <<table, skip, skipAddr, pc, inFrame, stoppedOn, passed,
                   running>>

\* stop, and a quit or a guest shutdown under -no-shutdown
Stop ==
    /\ Polling
    /\ paused' = TRUE
    /\ running' = FALSE
    /\ UNCHANGED <<table, skip, skipAddr, pc, inFrame, stoppedOn, passed>>

\* step: pauses, and runs count instructions without asking about pc.
Step(next) ==
    /\ Polling
    /\ paused' = TRUE
    /\ pc' = next
    /\ stoppedOn' = FALSE /\ running' = FALSE
    /\ UNCHANGED <<table, skip, skipAddr, inFrame, passed>>

\* The CPU reads its reset vector through the memory callbacks.
Reset(reads) ==
    /\ Polling
    /\ pc' = Vector
    /\ paused' = (paused \/ Watched(reads, {}))
    /\ stoppedOn' = FALSE
    /\ running' = (running /\ ~paused')
    /\ UNCHANGED <<table, skip, skipAddr, inFrame, passed>>

-----------------------------------------------------------------------------
\* The frame.

StartFrame ==
    /\ Polling
    /\ ~paused
    /\ inFrame' = TRUE
    /\ UNCHANGED <<table, skip, skipAddr, paused, pc, stoppedOn, passed,
                   running>>

Resuming == skip /\ pc = skipAddr


\* gemu_monitor_check_exec stops the machine, and the loop breaks.
HitExec ==
    /\ inFrame
    /\ hasExec /\ ~Resuming /\ Hits("exec", pc)
    /\ paused' = TRUE
    /\ skip' = TRUE /\ skipAddr' = pc
    /\ inFrame' = FALSE
    /\ stoppedOn' = TRUE /\ passed' = FALSE /\ running' = FALSE
    /\ UNCHANGED <<table, pc>>

SkipAfterOther == IF hasExec /\ ~Resuming THEN FALSE ELSE skip   \* mutant

\* What check_exec leaves of the skip when it lets an instruction run.
SkipAfter == IF hasExec THEN FALSE ELSE skip

\* The loop leaves the frame after an instruction that paused the machine.
Leaves == paused'

\* One step of the CPU, an instruction or the entry to an interrupt.  It
\* fetches at pc, so pc is among its reads.
Instruction(reads, writes, next) ==
    /\ inFrame
    /\ ~hasExec \/ Resuming \/ ~Hits("exec", pc)
    /\ skip' = SkipAfter
    /\ paused' = (paused \/ Watched(reads \cup {pc}, writes))
    /\ pc' = next
    /\ inFrame' = ~Leaves
    /\ stoppedOn' = FALSE
    /\ passed' = (passed \/ Hits("exec", pc))
    /\ running' = ~Leaves
    /\ UNCHANGED <<table, skipAddr>>

EndFrame ==
    /\ inFrame
    /\ inFrame' = FALSE
    /\ UNCHANGED <<table, skip, skipAddr, paused, pc, stoppedOn, passed,
                   running>>

Runs ==
    \E reads, writes \in SUBSET Addr, next \in Addr :
        Instruction(reads, writes, next)

BpNext ==
    \/ \E type \in Types, a \in Addr : AddBp(type, a)
    \/ DeleteAll
    \/ \E n \in 1..MaxId : Delete(n)
    \/ Cont \/ Stop
    \/ \E reads \in SUBSET Addr : Reset(reads)
    \/ \E a \in Addr : Step(a)
    \/ StartFrame \/ HitExec \/ Runs \/ EndFrame

BpSpec == BpInit /\ [][BpNext]_bpVars

-----------------------------------------------------------------------------
(***************************************************************************)
(* Properties.                                                             *)
(***************************************************************************)

(***************************************************************************)
(* has_exec_bp and has_mem_bp, which let machines skip the table, always   *)
(* say what the table holds: no sequence of break, watch and delete leaves *)
(* a breakpoint that is never looked for.                                  *)
(***************************************************************************)
FlagsMatch == (hasExec <=> ExecIn(bps)) /\ (hasMem <=> MemIn(bps))

(***************************************************************************)
(* delete N names one breakpoint: ids are never used twice, and the table  *)
(* stays in the order the breakpoints were set, whatever was deleted in    *)
(* between.                                                                *)
(***************************************************************************)
IdsAscend ==
    /\ \A i, j \in DOMAIN bps : i < j => bps[i].id < bps[j].id
    /\ \A i \in DOMAIN bps : bps[i].id <= nextId

(***************************************************************************)
(* A breakpoint stops the machine once for each time it gets there: after  *)
(* cont the instruction runs instead of stopping the machine again.        *)
(***************************************************************************)
ResumeRuns == [][HitExec => ~stoppedOn]_bpVars

(***************************************************************************)
(* Between two stops at breakpoints at most one instruction that has a     *)
(* breakpoint runs unstopped (the one resumed on).                         *)
(***************************************************************************)
OnePass == [][passed /\ Hits("exec", pc) => ~Runs]_bpVars

(***************************************************************************)
(* Once the machine is paused - by a command or by a watchpoint in the     *)
(* middle of an instruction - the loop runs no further instruction.        *)
(***************************************************************************)
PausedRunsNothing == ~(inFrame /\ paused)

(***************************************************************************)
(* "let the instruction that was stopped on run", and no other: a machine  *)
(* that is running stops at every breakpoint it reaches.                   *)
(***************************************************************************)
RunningStops == [][running /\ Hits("exec", pc) => ~Runs]_bpVars

\* A machine that is continued from a breakpoint goes on past it, and past no
\* other.
StopsOncePerVisit == ResumeRuns /\ OnePass
=============================================================================
