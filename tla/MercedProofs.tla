---------------------------- MODULE MercedProofs ----------------------------
(***************************************************************************)
(* Proofs about the Merced core: the interrupts in service, rfi,           *)
(* speculation and the translation caches, for every size of the tables    *)
(* and every set of registers, pages and vectors; the restart of its IA-32 *)
(* instructions, for every size of the memory; and its register stack, for *)
(* every register file and any number of interruptions.                    *)
(***************************************************************************)
EXTENDS Ia64Rse, Ia64Step, Ia64Mmu, Ia64Spec, Ia32, SequenceTheorems,
        FiniteSetTheorems, WellFoundedInduction, TLAPS

----------------------------------------------------------------------------
(***************************************************************************)
(* Interrupts in service and rfi.                                          *)
(***************************************************************************)

\* A set of natural numbers has a least one.
LEMMA LeastBy ==
    ASSUME NEW S \in SUBSET Nat, S # {}, NEW R, IsWellFoundedOn(R, Nat),
           \A x, y \in S : (<<y, x>> \in R) <=> y < x
    PROVE  \E m \in S : \A k \in S : m <= k
<1>1. \E x \in S : \A y \in S : ~ (<<y, x>> \in R)
  BY WFMin
<1>2. PICK m \in S : \A y \in S : ~ (<<y, m>> \in R)
  BY <1>1
<1>3. \A y \in S : ~ (y < m)
  BY <1>2, Zenon
<1>4. \A y \in S : m <= y
  BY <1>3
<1> QED
  BY <1>4

LEMMA LeastNatural ==
    ASSUME NEW S \in SUBSET Nat, S # {}
    PROVE  \E m \in S : \A k \in S : m <= k
<1>1. \A x, y \in S : (<<y, x>> \in OpToRel(<, Nat)) <=> y < x
  BY DEF OpToRel
<1> QED
  BY <1>1, NatLessThanWellFounded, LeastBy, Zenon

\* A sequence that is not empty: its last element, and what Front leaves.
LEMMA FrontLast ==
  ASSUME NEW S, NEW q \in Seq(S), q # <<>>
  PROVE  /\ Len(q) \in Nat \ {0} /\ Last(q) = q[Len(q)] /\ Last(q) \in S
         /\ Front(q) \in Seq(S) /\ Len(Front(q)) = Len(q) - 1
         /\ \A i \in 1 .. Len(q) - 1 : Front(q)[i] = q[i]
<1>1. Len(q) \in Nat \ {0}
  BY EmptySeq
<1>2. \A i \in 1 .. Len(q) : q[i] \in S
  BY ElementOfSeq
<1>3. \A i \in 1 .. Len(q) - 1 : q[i] \in S
  BY <1>1, <1>2
<1>4. Len(q) - 1 \in Int /\ 1 \in Int
  BY <1>1
<1> DEFINE f == SubSeq(q, 1, Len(q) - 1)
           n == Len(q)
<1>5. /\ f \in Seq(S)
      /\ Len(f) = IF 1 <= n - 1 THEN n - 1 - 1 + 1 ELSE 0
      /\ \A i \in 1 .. n - 1 - 1 + 1 : f[i] = q[1 + i - 1]
  BY <1>3, <1>4, SubSeqProperties
<1>6. Last(q) = q[n] /\ Last(q) \in S
  BY <1>1, <1>2 DEF Last
<1>7. n \in Nat \ {0}
  BY <1>1
<1> HIDE DEF f, n
<1>8. Len(f) = n - 1 /\ \A i \in 1 .. n - 1 : f[i] = q[i]
  BY <1>5, <1>7
<1> QED
  BY <1>5, <1>6, <1>7, <1>8 DEF Front, f, n

LEMMA AppendLast ==
  ASSUME NEW S, NEW q \in Seq(S), NEW v \in S
  PROVE  /\ Append(q, v) \in Seq(S) /\ Len(Append(q, v)) = Len(q) + 1
         /\ Len(q) \in Nat /\ Append(q, v)[Len(q) + 1] = v
         /\ \A i \in 1 .. Len(q) : Append(q, v)[i] = q[i]
<1>1. Len(q) \in Nat
  BY LenProperties
<1> QED
  BY <1>1, AppendProperties

LEMMA RangeIs ==
  ASSUME NEW S, NEW q \in Seq(S)
  PROVE  \A x : x \in Range(q) <=> \E i \in 1 .. Len(q) : x = q[i]
BY LenProperties DEF Range

\* The vectors software is serving, in the order it took them, ascend; they
\* are those in service.
Bytes == 0 .. 255
Ascending(q) == \A i, j \in 1 .. Len(q) : i < j => q[i] < q[j]
ServingInv ==
  /\ extPending \subseteq Bytes
  /\ serving \in Seq(Bytes)
  /\ Ascending(serving)
  /\ inService = Range(serving)

\* The greatest of a sequence that ascends is its last, and taking it off
\* leaves the others.
LEMMA LastGreatest ==
  ASSUME NEW q \in Seq(Bytes), Ascending(q), q # <<>>
  PROVE  /\ Max(Range(q)) = Last(q) /\ Last(q) \in Range(q) /\ Last(q) \in Bytes
         /\ \A v \in Range(q) : v \in Bytes /\ v <= Last(q)
         /\ Front(q) \in Seq(Bytes) /\ Ascending(Front(q))
         /\ Range(Front(q)) = Range(q) \ {Last(q)}
<1> DEFINE n == Len(q)
           m == Last(q)
<1>1. /\ n \in Nat \ {0} /\ m = q[n] /\ m \in Bytes
      /\ Front(q) \in Seq(Bytes) /\ Len(Front(q)) = n - 1
      /\ \A i \in 1 .. n - 1 : Front(q)[i] = q[i]
  BY FrontLast
<1>2. \A i \in 1 .. n : q[i] \in Bytes
  BY ElementOfSeq
<1>3. \A x : x \in Range(q) <=> \E i \in 1 .. n : x = q[i]
  BY RangeIs
<1>4. \A x : x \in Range(Front(q)) <=> \E i \in 1 .. Len(Front(q)) : x = Front(q)[i]
  BY <1>1, RangeIs
<1>5. \A i \in 1 .. n - 1 : q[i] < m
  BY <1>1, <1>2 DEF Ascending
<1>6. Ascending(Front(q))
  BY <1>1, <1>2 DEF Ascending
<1> HIDE DEF n, m
<1>7. m \in Range(q) /\ \A v \in Range(q) : v \in Bytes /\ v <= m
  <2>1. m \in Range(q)
    BY <1>1, <1>3
  <2>2. \A i \in 1 .. n : i = n \/ i \in 1 .. n - 1
    BY <1>1
  <2>3. m \in Int /\ \A i \in 1 .. n : q[i] \in Bytes /\ q[i] \in Int
    <3>1. \A b \in Bytes : b \in Int
      BY DEF Bytes
    <3> QED
      BY <1>1, <1>2, <3>1
  <2>4. \A i \in 1 .. n : q[i] \in Bytes /\ q[i] <= m
    BY <1>1, <1>5, <2>2, <2>3
  <2> QED
    BY <1>3, <2>1, <2>4
<1>8. Max(Range(q)) = m
  <2>1. \A x \in Range(q) : (\A y \in Range(q) : x >= y) => x = m
    BY <1>1, <1>7 DEF Bytes
  <2>2. \A y \in Range(q) : m >= y
    BY <1>1, <1>7 DEF Bytes
  <2> QED
    BY <1>7, <2>1, <2>2 DEF Max
<1>9. Range(Front(q)) = Range(q) \ {m}
  <2>1. \A i \in 1 .. n : q[i] # m <=> i \in 1 .. n - 1
    BY <1>1, <1>2, <1>5 DEF Bytes
  <2>2. \A x : x \in Range(Front(q)) <=> x \in Range(q) /\ x # m
    BY <1>1, <1>3, <1>4, <2>1
  <2> QED
    BY <2>2, Zenon
<1> QED
  BY <1>1, <1>6, <1>7, <1>8, <1>9 DEF m

LEMMA AppendAscends ==
  ASSUME NEW q \in Seq(Bytes), Ascending(q), NEW v \in Bytes,
         \A w \in Range(q) : w < v
  PROVE  /\ Append(q, v) \in Seq(Bytes) /\ Ascending(Append(q, v))
         /\ Range(Append(q, v)) = Range(q) \cup {v}
<1> DEFINE n == Len(q)
           a == Append(q, v)
<1>1. /\ a \in Seq(Bytes) /\ Len(a) = n + 1 /\ n \in Nat
      /\ a[n + 1] = v /\ \A i \in 1 .. n : a[i] = q[i]
  BY AppendLast
<1>2. \A i \in 1 .. n : q[i] \in Bytes
  BY ElementOfSeq
<1>3. \A x : x \in Range(q) <=> \E i \in 1 .. n : x = q[i]
  BY RangeIs
<1>4. \A x : x \in Range(a) <=> \E i \in 1 .. Len(a) : x = a[i]
  BY <1>1, RangeIs
<1>5. \A i \in 1 .. n : q[i] < v
  BY <1>3
<1>6. Ascending(a)
  <2> SUFFICES ASSUME NEW i \in 1 .. Len(a), NEW j \in 1 .. Len(a), i < j
               PROVE  a[i] < a[j]
    BY DEF Ascending
  <2> HIDE DEF a
  <2>1. i \in 1 .. n /\ (j \in 1 .. n \/ j = n + 1)
    BY <1>1
  <2>2. q[i] < v /\ (j \in 1 .. n => q[i] < q[j])
    BY <1>5, <2>1 DEF Ascending
  <2> QED
    BY <1>1, <2>1, <2>2
<1> HIDE DEF n, a
<1>7. Range(a) = Range(q) \cup {v}
  <2>1. \A i : i \in 1 .. Len(a) <=> i \in 1 .. n \/ i = n + 1
    BY <1>1
  <2>2. \A x : x \in Range(a) <=> x \in Range(q) \/ x = v
    BY <1>1, <1>3, <1>4, <2>1
  <2> QED
    BY <2>2, Zenon
<1> QED
  BY <1>1, <1>6, <1>7 DEF a

----------------------------------------------------------------------------
\* What IVR answers is above all that is in service.
LEMMA UnmaskedIsAbove ==
  ASSUME ServingInv, NEW v \in Bytes, v >= 16, InterruptUnmasked(v)
  PROVE  \A w \in Range(serving) : w < v
<1>1. CASE serving = <<>>
  <2>1. \A x : x \in Range(serving) <=> \E i \in 1 .. Len(serving) : x = serving[i]
    BY RangeIs DEF ServingInv
  <2> QED
    BY <1>1, <2>1
<1>2. CASE serving # <<>>
  <2>1. /\ Max(inService) = Last(serving) /\ Last(serving) \in Bytes
        /\ Last(serving) \in inService
        /\ \A w \in Range(serving) : w \in Bytes /\ w <= Last(serving)
    BY <1>2, LastGreatest DEF ServingInv
  <2>2. Class(v) > Class(Last(serving))
    BY <2>1 DEF InterruptUnmasked, InServiceHighest, Bytes
  <2>3. Last(serving) < v
    BY <2>1, <2>2 DEF Class, Bytes
  <2> QED
    BY <2>1, <2>3, SMTT(60) DEF Bytes
<1> QED
  BY <1>1, <1>2

LEMMA GreatestByte ==
  ASSUME NEW U \in SUBSET Bytes, U # {}
  PROVE  Max(U) \in U
<1> DEFINE S == {255 - v : v \in U}
<1>0. \A v \in U : v \in Int /\ 255 - v \in Nat
  BY DEF Bytes
<1>1. S \in SUBSET Nat /\ S # {}
  BY <1>0
<1>2. PICK m \in S : \A k \in S : m <= k
  BY <1>1, LeastNatural
<1>3. PICK x \in U : m = 255 - x
  BY <1>2
<1>4. \A y \in U : 255 - y \in S
  OBVIOUS
<1>5. \A y \in U : x >= y
  BY <1>0, <1>2, <1>3, <1>4
<1> QED
  BY <1>5 DEF Max

LEMMA HighestUnmasked ==
  ASSUME ServingInv, ExtHighestUnmasked >= 16
  PROVE  ExtHighestUnmasked \in extPending /\ InterruptUnmasked(ExtHighestUnmasked)
<1> DEFINE U == {v \in extPending : InterruptUnmasked(v)}
<1>1. U \in SUBSET Bytes
  BY DEF ServingInv
<1>2. U # {} /\ ExtHighestUnmasked = Max(U)
  BY DEF ExtHighestUnmasked
<1>3. Max(U) \in U
  BY <1>1, <1>2, GreatestByte
<1> QED
  BY <1>2, <1>3

LEMMA EoiTakesLast ==
  ASSUME ServingInv, serving # <<>>
  PROVE  InServiceHighest = Last(serving)
<1>1. Max(inService) = Last(serving) /\ Last(serving) \in inService
  BY LastGreatest DEF ServingInv
<1> QED
  BY <1>1 DEF InServiceHighest

LEMMA ReadIvrKeeps ==
  ASSUME ServingInv, StepReadIvr
  PROVE  ServingInv'
<1> DEFINE t == timer = "pending" /\ InterruptUnmasked(TimerVector)
           e == ExtHighestUnmasked
           v == IF e >= 0 THEN e ELSE IF t THEN TimerVector ELSE 15
<1>1. /\ extPending' = extPending \ {e}
      /\ inService' = IF v >= 16 THEN inService \cup {v} ELSE inService
      /\ serving' = IF v >= 16 THEN Append(serving, v) ELSE serving
  BY DEF StepReadIvr
<1>2. extPending' \subseteq Bytes
  BY <1>1 DEF ServingInv
<1>3. v >= 16 => v \in Bytes /\ InterruptUnmasked(v)
  <2>1. CASE e >= 16
    <3>1. e \in extPending /\ InterruptUnmasked(e)
      BY <2>1, HighestUnmasked
    <3>2. e \in Bytes
      BY <3>1 DEF ServingInv
    <3>3. v = e
      BY <2>1, <3>2 DEF Bytes
    <3> QED
      BY <3>1, <3>2, <3>3
  <2>2. CASE ~(e >= 16) /\ e >= 0
    BY <2>2
  <2>3. CASE ~(e >= 16) /\ ~(e >= 0)
    BY <2>3, StepSizes DEF Bytes
  <2> QED
    BY <2>1, <2>2, <2>3
<1> HIDE DEF v, e, t
<1>4. CASE v >= 16
  <2>1. v \in Bytes /\ \A w \in Range(serving) : w < v
    BY <1>3, <1>4, UnmaskedIsAbove
  <2>2. serving \in Seq(Bytes) /\ Ascending(serving)
    BY DEF ServingInv
  <2>3. /\ Append(serving, v) \in Seq(Bytes) /\ Ascending(Append(serving, v))
        /\ Range(Append(serving, v)) = Range(serving) \cup {v}
    BY <2>1, <2>2, AppendAscends
  <2> QED
    BY <1>1, <1>2, <1>4, <2>3 DEF ServingInv
<1>5. CASE ~(v >= 16)
  BY <1>1, <1>2, <1>5 DEF ServingInv
<1> QED
  BY <1>4, <1>5

LEMMA EoiKeeps ==
  ASSUME ServingInv, StepEoi
  PROVE  ServingInv'
<1>1. /\ inService' = inService \ {Last(serving)} /\ serving' = Front(serving)
      /\ serving # <<>> /\ extPending' = extPending
  BY EoiTakesLast DEF StepEoi
<1>2. /\ Front(serving) \in Seq(Bytes) /\ Ascending(Front(serving))
      /\ Range(Front(serving)) = Range(serving) \ {Last(serving)}
  BY <1>1, LastGreatest DEF ServingInv
<1> QED
  BY <1>1, <1>2 DEF ServingInv

LEMMA ServingTyped == StepInit => ServingInv
<1> SUFFICES ASSUME StepInit PROVE ServingInv
  OBVIOUS
<1>1. extPending = {} /\ inService = {} /\ serving = <<>>
  BY DEF StepInit
<1>2. <<>> \in Seq(Bytes) /\ Len(<<>>) = 0
  BY EmptySeq
<1>3. Ascending(<<>>)
  BY <1>2 DEF Ascending
<1>4. Range(<<>>) = {}
  <2>1. \A x : x \in Range(<<>>) <=> \E i \in 1 .. Len(<<>>) : x = <<>>[i]
    BY <1>2, RangeIs
  <2> QED
    BY <1>2, <2>1
<1> QED
  BY <1>1, <1>2, <1>3, <1>4 DEF ServingInv

LEMMA ServingStep ==
  ASSUME ServingInv, [StepNext]_stepVars
  PROVE  ServingInv'
<1>1. CASE StepReadIvr
  BY <1>1, ReadIvrKeeps
<1>2. CASE StepEoi
  BY <1>2, EoiKeeps
<1>3. CASE RaiseExternal
  BY <1>3, StepSizes DEF RaiseExternal, ServingInv, Bytes
<1>4. CASE UNCHANGED <<extPending, inService, serving>>
  BY <1>4 DEF ServingInv
<1>5. ASSUME StepNext, ~StepReadIvr, ~StepEoi, ~RaiseExternal
      PROVE  UNCHANGED <<extPending, inService, serving>>
  BY <1>5 DEF StepNext, StepInterrupt, StepFetchFault, StepFault, StepPlain, StepBranch,
       StepFastLoop, StepSsmRsm, StepSrlz, StepSaveCr, StepRestoreCr, StepRfi, StepTpr,
       StepArmItm
<1>6. UNCHANGED stepVars => UNCHANGED <<extPending, inService, serving>>
  BY DEF stepVars
<1> QED
  BY <1>1, <1>2, <1>3, <1>4, <1>5, <1>6

\* cr.eoi ends the vector software took from cr.ivr last, whatever the devices
\* raise and however software changes the priority mask.
THEOREM EoiEnds == StepSpec => []EoiEndsLastTaken
<1>1. ServingInv => EoiEndsLastTaken
  BY EoiTakesLast DEF ServingInv, EoiEndsLastTaken
<1> QED
  BY <1>1, ServingTyped, ServingStep, PTL DEF StepSpec

----------------------------------------------------------------------------
(***************************************************************************)
(* rfi.  The interruptions open are those of the levels below the program's *)
(* own, innermost last; each but perhaps the innermost has its IIP and IPSR *)
(* in the handlers' memory, and the innermost has them there or still in    *)
(* the control registers.                                                  *)
(***************************************************************************)

Saved == [lvl : Nat, pos : Positions, i : BOOLEAN, ic : BOOLEAN]
Slots == [lvl : Nat, pos : Positions]
CpuRecs == [lvl : Nat, pos : Positions, group : BOOLEAN, i : BOOLEAN, ic : BOOLEAN,
            inflight : BOOLEAN]

\* What was saved is the jth interruption of those open, which interrupted
\* level j - 1 with psr.ic set.
SavedOf(r, o, j) == r.ic /\ r.lvl = j - 1 /\ o[j].lvl = j - 1 /\ r.pos = o[j].pos

Nested(c, k, o, r) ==
  /\ Len(o) = c.lvl /\ Len(k) \in {c.lvl, c.lvl - 1}
  /\ c.ic => Len(k) = c.lvl
  /\ \A j \in 1 .. Len(k) : SavedOf(k[j], o, j)
  /\ Len(k) = c.lvl - 1 => SavedOf(r, o, c.lvl)

ResumeTyped == /\ cpu \in CpuRecs /\ ii \in Saved
               /\ open \in Seq(Slots) /\ kept \in Seq(Saved)
ResumeInv == ResumeTyped /\ Nested(cpu, kept, open, ii)

LEMMA CpuFields ==
  ASSUME NEW c \in CpuRecs
  PROVE  /\ c.lvl \in Nat /\ c.pos \in Positions /\ c.group \in BOOLEAN /\ c.i \in BOOLEAN
         /\ c.ic \in BOOLEAN /\ c.inflight \in BOOLEAN
BY DEF CpuRecs

LEMMA RetireMoves ==
  ASSUME NEW c \in CpuRecs, NEW stop \in BOOLEAN, NEW long \in BOOLEAN, ResumeTyped,
         Retire(stop, long, c)
  PROVE  cpu' \in CpuRecs /\ cpu'.lvl = c.lvl /\ cpu'.ic = c.ic
<1>1. NextPos(long) \in Positions
  <2>1. cpu.pos \in 0 .. 5
    BY CpuFields DEF ResumeTyped, Positions
  <2> QED
    BY <2>1 DEF NextPos, Positions
<1> QED
  BY <1>1 DEF Retire, CpuRecs

\* Steps that leave what is nested alone.
LEMMA SameLevel ==
  ASSUME ResumeInv, cpu' \in CpuRecs, cpu'.lvl = cpu.lvl,
         cpu'.ic => cpu.ic \/ Len(kept) = cpu.lvl,
         UNCHANGED <<ii, open, kept>>
  PROVE  ResumeInv'
BY DEF ResumeInv, ResumeTyped, Nested

LEMMA CollectedKeeps ==
  ASSUME ResumeInv, cpu.ic, NEW group \in BOOLEAN, Collected(group), UNCHANGED kept
  PROVE  ResumeInv'
<1> DEFINE r == [lvl |-> cpu.lvl, pos |-> cpu.pos]
<1>1. /\ cpu.lvl \in Nat /\ cpu.pos \in Positions /\ cpu.i \in BOOLEAN /\ Len(open) = cpu.lvl
      /\ Len(kept) = cpu.lvl /\ open \in Seq(Slots) /\ kept \in Seq(Saved)
      /\ \A j \in 1 .. Len(kept) : SavedOf(kept[j], open, j)
  BY CpuFields DEF ResumeInv, ResumeTyped, Nested
<1>2. /\ ii' = [lvl |-> cpu.lvl, pos |-> cpu.pos, i |-> cpu.i, ic |-> cpu.ic]
      /\ open' = Append(open, r)
      /\ cpu' = [lvl |-> cpu.lvl + 1, pos |-> 0, group |-> group, i |-> FALSE, ic |-> FALSE,
                 inflight |-> FALSE]
  BY DEF Collected
<1>3. r \in Slots
  BY <1>1 DEF Slots
<1>4. /\ open' \in Seq(Slots) /\ Len(open') = cpu.lvl + 1 /\ open'[cpu.lvl + 1] = r
      /\ \A j \in 1 .. cpu.lvl : open'[j] = open[j]
  BY <1>1, <1>2, <1>3, AppendLast
<1>5. ii' \in Saved
  BY <1>1, <1>2 DEF Saved
<1>6. cpu' \in CpuRecs /\ cpu'.lvl = cpu.lvl + 1 /\ ~cpu'.ic
  BY <1>1, <1>2 DEF CpuRecs, Positions
<1>7. SavedOf(ii', open', cpu.lvl + 1)
  BY <1>1, <1>2, <1>4 DEF SavedOf
<1>8. \A j \in 1 .. Len(kept) : SavedOf(kept[j], open', j)
  BY <1>1, <1>4 DEF SavedOf
<1>9. Nested(cpu', kept', open', ii')
  BY <1>1, <1>4, <1>6, <1>7, <1>8 DEF Nested
<1> QED
  BY <1>1, <1>4, <1>5, <1>6, <1>9 DEF ResumeInv, ResumeTyped

LEMMA FaultKeeps ==
  ASSUME ResumeInv, NEW group \in BOOLEAN, DeliverFault(group), UNCHANGED kept
  PROVE  ResumeInv'
<1>1. CASE cpu.ic /\ Collected(group)
  BY <1>1, CollectedKeeps
<1>2. CASE ~cpu.ic /\ cpu' = [cpu EXCEPT !.pos = 0, !.group = group] /\ UNCHANGED <<ii, open>>
  <2>1. cpu \in CpuRecs
    BY DEF ResumeInv, ResumeTyped
  <2>2. cpu' \in CpuRecs /\ cpu'.lvl = cpu.lvl /\ cpu'.ic = cpu.ic
    <3>1. 0 \in Positions
      BY DEF Positions
    <3> QED
      BY <1>2, <2>1, <3>1 DEF CpuRecs
  <2> QED
    BY <1>2, <2>2, SameLevel
<1> QED
  BY <1>1, <1>2 DEF DeliverFault

LEMMA SaveKeeps ==
  ASSUME ResumeInv, StepSaveCr
  PROVE  ResumeInv'
<1>1. /\ cpu \in CpuRecs /\ cpu.lvl \in Nat /\ ii \in Saved /\ Len(open) = cpu.lvl
      /\ open \in Seq(Slots) /\ kept \in Seq(Saved)
      /\ \A j \in 1 .. Len(kept) : SavedOf(kept[j], open, j)
  BY CpuFields DEF ResumeInv, ResumeTyped, Nested
<1>2. /\ cpu.lvl > 0 /\ ~cpu.ic /\ Len(kept) = cpu.lvl - 1 /\ kept' = Append(kept, ii)
      /\ ii' = ii /\ open' = open /\ Retire(TRUE, FALSE, cpu)
  BY DEF StepSaveCr
<1>3. cpu' \in CpuRecs /\ cpu'.lvl = cpu.lvl /\ cpu'.ic = cpu.ic
  BY <1>1, <1>2, RetireMoves DEF ResumeInv
<1>4. SavedOf(ii, open, cpu.lvl)
  BY <1>2 DEF ResumeInv, Nested
<1>5. /\ kept' \in Seq(Saved) /\ Len(kept') = cpu.lvl /\ kept'[cpu.lvl] = ii
      /\ \A j \in 1 .. cpu.lvl - 1 : kept'[j] = kept[j]
  <2>1. /\ Append(kept, ii) \in Seq(Saved) /\ Len(Append(kept, ii)) = Len(kept) + 1
        /\ Append(kept, ii)[Len(kept) + 1] = ii
        /\ \A j \in 1 .. Len(kept) : Append(kept, ii)[j] = kept[j]
    BY <1>1, AppendLast
  <2> QED
    BY <1>1, <1>2, <2>1
<1>6. \A j \in 1 .. cpu.lvl : SavedOf(kept'[j], open, j)
  <2>1. \A j \in 1 .. cpu.lvl : j \in 1 .. cpu.lvl - 1 \/ j = cpu.lvl
    BY <1>1
  <2> QED
    BY <1>1, <1>2, <1>4, <1>5, <2>1
<1>7. Nested(cpu', kept', open', ii')
  BY <1>1, <1>2, <1>3, <1>5, <1>6 DEF Nested
<1> QED
  BY <1>1, <1>2, <1>3, <1>5, <1>7 DEF ResumeInv, ResumeTyped

LEMMA RestoreKeeps ==
  ASSUME ResumeInv, StepRestoreCr
  PROVE  ResumeInv'
<1>1. /\ cpu \in CpuRecs /\ cpu.lvl \in Nat /\ ii \in Saved /\ Len(open) = cpu.lvl
      /\ open \in Seq(Slots) /\ kept \in Seq(Saved)
      /\ \A j \in 1 .. Len(kept) : SavedOf(kept[j], open, j)
  BY CpuFields DEF ResumeInv, ResumeTyped, Nested
<1>2. /\ cpu.lvl > 0 /\ ~cpu.ic /\ Len(kept) = cpu.lvl /\ kept' = Front(kept)
      /\ ii' = Last(kept) /\ open' = open /\ Retire(TRUE, FALSE, cpu)
  BY DEF StepRestoreCr
<1>3. cpu' \in CpuRecs /\ cpu'.lvl = cpu.lvl /\ cpu'.ic = cpu.ic
  BY <1>1, <1>2, RetireMoves DEF ResumeInv
<1>4. kept # <<>>
  BY <1>1, <1>2, EmptySeq
<1>5. /\ ii' = kept[cpu.lvl] /\ ii' \in Saved
      /\ kept' \in Seq(Saved) /\ Len(kept') = cpu.lvl - 1
      /\ \A j \in 1 .. cpu.lvl - 1 : kept'[j] = kept[j]
  BY <1>1, <1>2, <1>4, FrontLast
<1>6. SavedOf(ii', open, cpu.lvl)
  BY <1>1, <1>2, <1>5
<1>7. \A j \in 1 .. cpu.lvl - 1 : SavedOf(kept'[j], open, j)
  BY <1>1, <1>2, <1>5
<1>8. Nested(cpu', kept', open', ii')
  BY <1>1, <1>2, <1>3, <1>5, <1>6, <1>7 DEF Nested
<1> QED
  BY <1>1, <1>2, <1>3, <1>5, <1>8 DEF ResumeInv, ResumeTyped

LEMMA RfiKeeps ==
  ASSUME ResumeInv, StepRfi
  PROVE  ResumeInv' /\ cpu'.lvl = Last(open).lvl /\ cpu'.pos = Last(open).pos
<1>1. /\ cpu \in CpuRecs /\ cpu.lvl \in Nat /\ ii \in Saved /\ Len(open) = cpu.lvl
      /\ open \in Seq(Slots) /\ kept \in Seq(Saved) /\ cpu.inflight \in BOOLEAN
      /\ \A j \in 1 .. Len(kept) : SavedOf(kept[j], open, j)
  BY CpuFields DEF ResumeInv, ResumeTyped, Nested
<1>2. /\ cpu.lvl > 0 /\ Len(kept) = cpu.lvl - 1 /\ kept' = kept /\ ii' = ii
      /\ cpu' = [lvl |-> ii.lvl, pos |-> ii.pos, group |-> TRUE, i |-> ii.i, ic |-> ii.ic,
                 inflight |-> cpu.inflight]
      /\ open' = Front(open)
  BY DEF StepRfi
<1>3. SavedOf(ii, open, cpu.lvl)
  BY <1>2 DEF ResumeInv, Nested
<1>4. open # <<>>
  BY <1>1, <1>2, EmptySeq
<1>5. /\ Last(open) = open[cpu.lvl]
      /\ open' \in Seq(Slots) /\ Len(open') = cpu.lvl - 1
      /\ \A j \in 1 .. cpu.lvl - 1 : open'[j] = open[j]
  BY <1>1, <1>2, <1>4, FrontLast
<1>6. cpu' \in CpuRecs
  BY <1>1, <1>2 DEF CpuRecs, Saved
<1>7. cpu'.lvl = cpu.lvl - 1 /\ cpu'.ic /\ cpu'.lvl = ii.lvl /\ cpu'.pos = ii.pos
  BY <1>2, <1>3 DEF SavedOf
<1>8. \A j \in 1 .. cpu.lvl - 1 : SavedOf(kept[j], open', j)
  BY <1>1, <1>2, <1>5 DEF SavedOf
<1>9. Nested(cpu', kept', open', ii')
  BY <1>1, <1>2, <1>5, <1>7, <1>8 DEF Nested
<1>10. cpu'.lvl = Last(open).lvl /\ cpu'.pos = Last(open).pos
  BY <1>3, <1>5, <1>7 DEF SavedOf
<1> QED
  BY <1>1, <1>2, <1>5, <1>6, <1>9, <1>10 DEF ResumeInv, ResumeTyped

\* Slots that stay at the level they are at.
LEMMA SlotsKeep ==
  ASSUME ResumeInv,
         \/ StepPlain \/ StepBranch \/ StepFastLoop \/ StepSsmRsm \/ StepSrlz
         \/ StepReadIvr \/ StepEoi \/ StepTpr \/ StepArmItm
  PROVE  ResumeInv' /\ open' = open
<1>1. cpu \in CpuRecs /\ ResumeTyped
  BY DEF ResumeInv, ResumeTyped
<1>2. CASE StepPlain
  <2>1. PICK stop \in BOOLEAN, long \in BOOLEAN : Retire(stop, long, cpu)
    BY <1>2 DEF StepPlain
  <2>2. UNCHANGED <<ii, open, kept>>
    BY <1>2 DEF StepPlain
  <2>3. cpu' \in CpuRecs /\ cpu'.lvl = cpu.lvl /\ cpu'.ic = cpu.ic
    BY <1>1, <2>1, RetireMoves
  <2> QED
    BY <2>2, <2>3, SameLevel
<1>3. CASE StepBranch
  <2>1. PICK p \in {0, 3} : cpu' = [cpu EXCEPT !.pos = p, !.group = TRUE]
    BY <1>3 DEF StepBranch
  <2>2. UNCHANGED <<ii, open, kept>>
    BY <1>3 DEF StepBranch
  <2>3. cpu' \in CpuRecs /\ cpu'.lvl = cpu.lvl /\ cpu'.ic = cpu.ic
    <3>1. p \in Positions
      BY DEF Positions
    <3> QED
      BY <1>1, <2>1, <3>1 DEF CpuRecs
  <2> QED
    BY <2>2, <2>3, SameLevel
<1>4. CASE StepFastLoop
  <2>1. cpu' = [cpu EXCEPT !.pos = (@ + 3) % 6] /\ UNCHANGED <<ii, open, kept>>
    BY <1>4 DEF StepFastLoop
  <2>2. cpu.pos \in 0 .. 5
    BY <1>1, CpuFields DEF Positions
  <2>3. (cpu.pos + 3) % 6 \in Positions
    BY <2>2 DEF Positions
  <2>4. cpu' \in CpuRecs /\ cpu'.lvl = cpu.lvl /\ cpu'.ic = cpu.ic
    BY <1>1, <2>1, <2>3 DEF CpuRecs
  <2> QED
    BY <2>1, <2>4, SameLevel
<1>5. CASE StepSsmRsm
  <2>1. PICK i \in BOOLEAN, ic \in BOOLEAN :
          /\ ic /\ ~cpu.ic => Len(kept) = cpu.lvl
          /\ Retire(TRUE, FALSE, [cpu EXCEPT !.i = i, !.ic = ic,
                                             !.inflight = @ \/ ic # cpu.ic])
    BY <1>5 DEF StepSsmRsm
  <2> DEFINE c == [cpu EXCEPT !.i = i, !.ic = ic, !.inflight = @ \/ ic # cpu.ic]
  <2>2. c \in CpuRecs /\ c.lvl = cpu.lvl /\ c.ic = ic
    BY <1>1, CpuFields DEF CpuRecs
  <2> HIDE DEF c
  <2>3. Retire(TRUE, FALSE, c)
    BY <2>1 DEF c
  <2>4. cpu' \in CpuRecs /\ cpu'.lvl = c.lvl /\ cpu'.ic = c.ic
    BY <1>1, <2>2, <2>3, RetireMoves
  <2>5. UNCHANGED <<ii, open, kept>>
    BY <1>5 DEF StepSsmRsm
  <2> QED
    BY <2>1, <2>2, <2>4, <2>5, SameLevel
<1>6. CASE StepSrlz
  <2> DEFINE c == [cpu EXCEPT !.inflight = FALSE]
  <2>1. c \in CpuRecs /\ c.lvl = cpu.lvl /\ c.ic = cpu.ic
    BY <1>1 DEF CpuRecs
  <2> HIDE DEF c
  <2>2. Retire(TRUE, FALSE, c) /\ UNCHANGED <<ii, open, kept>>
    BY <1>6 DEF StepSrlz, c
  <2>3. cpu' \in CpuRecs /\ cpu'.lvl = c.lvl /\ cpu'.ic = c.ic
    BY <1>1, <2>1, <2>2, RetireMoves
  <2> QED
    BY <2>1, <2>2, <2>3, SameLevel
<1>7. CASE StepReadIvr \/ StepEoi \/ StepTpr \/ StepArmItm
  <2>1. Retire(TRUE, FALSE, cpu) /\ UNCHANGED <<ii, open, kept>>
    BY <1>7 DEF StepReadIvr, StepEoi, StepTpr, StepArmItm
  <2>2. cpu' \in CpuRecs /\ cpu'.lvl = cpu.lvl /\ cpu'.ic = cpu.ic
    BY <1>1, <2>1, RetireMoves
  <2> QED
    BY <2>1, <2>2, SameLevel
<1> QED
  BY <1>2, <1>3, <1>4, <1>5, <1>6, <1>7 DEF StepPlain, StepBranch, StepFastLoop, StepSsmRsm,
     StepSrlz, StepReadIvr, StepEoi, StepTpr, StepArmItm

\* A delivered fault opens an interruption or leaves those open alone.
LEMMA FaultOpens ==
  ASSUME ResumeInv, NEW group \in BOOLEAN, DeliverFault(group)
  PROVE  ~(Len(open') < Len(open))
<1>1. open \in Seq(Slots) /\ cpu.lvl \in Nat /\ cpu.pos \in Positions
  BY CpuFields DEF ResumeInv, ResumeTyped
<1>2. [lvl |-> cpu.lvl, pos |-> cpu.pos] \in Slots
  BY <1>1 DEF Slots
<1>3. /\ Len(Append(open, [lvl |-> cpu.lvl, pos |-> cpu.pos])) = Len(open) + 1
      /\ Len(open) \in Nat
  BY <1>1, <1>2, AppendLast
<1> QED
  BY <1>3 DEF DeliverFault, Collected

LEMMA ResumeStep ==
  ASSUME ResumeInv, [StepNext]_stepVars
  PROVE  /\ ResumeInv'
         /\ Len(open') < Len(open) =>
              cpu'.lvl = Last(open).lvl /\ cpu'.pos = Last(open).pos
<1>1. Len(open) \in Nat /\ cpu.group \in BOOLEAN
  BY LenProperties, CpuFields DEF ResumeInv, ResumeTyped
<1>2. CASE StepInterrupt \/ StepFault
  <2>1. DeliverFault(TRUE) /\ UNCHANGED kept
    BY <1>2 DEF StepInterrupt, StepFault
  <2> QED
    BY <2>1, FaultKeeps, FaultOpens
<1>3. CASE StepFetchFault
  <2>1. DeliverFault(cpu.group) /\ UNCHANGED kept
    BY <1>3 DEF StepFetchFault
  <2> QED
    BY <1>1, <2>1, FaultKeeps, FaultOpens
<1>4. CASE \/ StepPlain \/ StepBranch \/ StepFastLoop \/ StepSsmRsm \/ StepSrlz
           \/ StepReadIvr \/ StepEoi \/ StepTpr \/ StepArmItm
  BY <1>1, <1>4, SlotsKeep
<1>5. CASE StepSaveCr
  <2>1. open' = open
    BY <1>5 DEF StepSaveCr
  <2> QED
    BY <1>1, <1>5, <2>1, SaveKeeps
<1>6. CASE StepRestoreCr
  <2>1. open' = open
    BY <1>6 DEF StepRestoreCr
  <2> QED
    BY <1>1, <1>6, <2>1, RestoreKeeps
<1>7. CASE StepRfi
  BY <1>7, RfiKeeps
<1>8. CASE UNCHANGED <<cpu, ii, open, kept>>
  BY <1>1, <1>8 DEF ResumeInv, ResumeTyped
<1>9. RaiseExternal \/ UNCHANGED stepVars => UNCHANGED <<cpu, ii, open, kept>>
  BY DEF RaiseExternal, stepVars
<1> QED
  BY <1>2, <1>3, <1>4, <1>5, <1>6, <1>7, <1>8, <1>9 DEF StepNext

LEMMA ResumeStarts == StepInit => ResumeInv
<1> SUFFICES ASSUME StepInit PROVE ResumeInv
  OBVIOUS
<1>1. cpu \in CpuRecs /\ cpu.lvl = 0 /\ ~cpu.ic
  BY DEF StepInit, CpuRecs, Positions
<1>2. ii \in Saved
  BY DEF StepInit, Saved, Positions
<1>3. open = <<>> /\ kept = <<>>
  BY DEF StepInit
<1>4. open \in Seq(Slots) /\ kept \in Seq(Saved) /\ Len(open) = 0 /\ Len(kept) = 0
  BY <1>3, EmptySeq
<1>5. Nested(cpu, kept, open, ii)
  BY <1>1, <1>4 DEF Nested
<1> QED
  BY <1>1, <1>2, <1>4, <1>5 DEF ResumeInv, ResumeTyped

\* rfi goes back to the slot that the innermost collected interruption really
\* interrupted, however many faults were taken with psr.ic clear in between.
THEOREM RfiGoesBack == StepSpec => RfiResumes
<1>1. ResumeInv /\ [StepNext]_stepVars =>
        [Len(open') < Len(open) =>
           cpu'.lvl = Last(open).lvl /\ cpu'.pos = Last(open).pos]_stepVars
  BY ResumeStep
<1>2. ResumeInv /\ [StepNext]_stepVars => ResumeInv'
  BY ResumeStep
<1> QED
  BY <1>1, <1>2, ResumeStarts, PTL DEF StepSpec, RfiResumes

----------------------------------------------------------------------------
(***************************************************************************)
(* Speculation.                                                            *)
(***************************************************************************)

Regs == SpecStatics \cup {32, 33}
GrRecs == [nat : BOOLEAN, bad : Taints, from : SpecAccesses \cup {NoAccess}, val : SUBSET SpecBytes]
AlatRecs == [valid : BOOLEAN, reg : {0} \cup Numbers, at : SpecAccesses \cup {NoAccess}]

\* The register that a number names in the frame at depth d, and the bytes of
\* an access that are 1 in memory m.
RegOf(n, d) == IF n < 32 THEN n ELSE n + d
Ones(m, a) == {b \in a[1] .. a[1] + a[2] - 1 : m[b] = 1}

\* An entry that a search finds is of the access its register was loaded by,
\* and the register holds what that access reads now.
EntriesCurrent(g, al, mask, m, d) ==
  \A n \in Numbers : g[RegOf(n, d)].from # NoAccess =>
    \A i \in mask : al[i].reg = n =>
      /\ al[i].at = g[RegOf(n, d)].from
      /\ g[RegOf(n, d)].val = Ones(m, g[RegOf(n, d)].from)

GrSound(g) == g \in [Regs -> GrRecs] /\ \A r \in Regs : g[r].bad = "deferred" => g[r].nat

AlatTyped == alat \in [1 .. NAlat -> AlatRecs] /\ validMask \in SUBSET (1 .. NAlat)

\* The other places a value can be.
SpecRest ==
  /\ slot \in [bad : Taints, unat : BOOLEAN] /\ (slot.bad = "deferred" => slot.unat)
  /\ pr \in [on : BOOLEAN, bad : Taints] /\ (pr.bad = "deferred" => ~pr.on)
  /\ fr \in [nat : BOOLEAN, bad : Taints] /\ (fr.bad = "deferred" => fr.nat)
  /\ br \in Taints \ {"deferred"} /\ stained \in BOOLEAN

SpecInv ==
  /\ GrSound(gr) /\ AlatTyped /\ depth \in {0, 1} /\ SpecRest
  /\ EntriesCurrent(gr, alat, validMask, mem, depth)

LEMMA PhysTyped ==
  ASSUME NEW d \in {0, 1}
  PROVE  /\ \A n \in Numbers : RegOf(n, d) \in Regs
         /\ \A m, n \in Numbers : RegOf(m, d) = RegOf(n, d) => m = n
BY SpecSizes DEF RegOf, Numbers, Stacked, Regs

\* Registers that lose what they were loaded by.
Forgets(g2, g) == GrSound(g2) /\ \A r \in Regs : g2[r] = g[r] \/ g2[r].from = NoAccess

LEMMA PlainSound ==
  ASSUME NEW nat \in BOOLEAN, NEW bad \in Taints, bad = "deferred" => nat
  PROVE  /\ Plain(nat, bad) \in GrRecs /\ Plain(nat, bad).from = NoAccess
         /\ Plain(nat, bad).bad = "deferred" => Plain(nat, bad).nat
BY DEF Plain, GrRecs

\* A join is "deferred" only if one of the joined is, and a loss never is.
LEMMA Joined ==
  ASSUME NEW T \in SUBSET Taints
  PROVE  Join(T) \in Taints /\ (Join(T) = "deferred" => "deferred" \in T)
BY DEF Join, Taints

LEMMA Lost == \A t \in Taints : Lose(t) \in Taints \ {"deferred"}
BY DEF Lose, Taints

LEMMA WrittenForgets ==
  ASSUME GrSound(gr), depth \in {0, 1}, NEW n \in Numbers,
         NEW nat \in BOOLEAN, NEW bad \in Taints, bad = "deferred" => nat
  PROVE  Forgets(GrWritten(n, nat, bad), gr)
<1> DEFINE x == Plain(nat, bad)
<1>1. x \in GrRecs /\ x.from = NoAccess /\ (x.bad = "deferred" => x.nat)
  BY PlainSound
<1>2. GrWritten(n, nat, bad) = [gr EXCEPT ![Phys(n)] = x]
  BY DEF GrWritten
<1> HIDE DEF x
<1> QED
  BY <1>1, <1>2 DEF Forgets, GrSound

\* What a number names has its bits.
LEMMA BitsTyped ==
  ASSUME GrSound(gr), depth \in {0, 1}, NEW n \in Numbers
  PROVE  /\ Phys(n) \in Regs /\ Phys(n) = RegOf(n, depth)
         /\ NatOf(n) \in BOOLEAN /\ BadOf(n) \in Taints /\ (BadOf(n) = "deferred" => NatOf(n))
<1>1. Phys(n) = RegOf(n, depth) /\ Phys(n) \in Regs
  BY PhysTyped DEF Phys, RegOf
<1> QED
  BY <1>1 DEF GrSound, GrRecs, NatOf, BadOf

LEMMA BitsJoined ==
  ASSUME GrSound(gr), depth \in {0, 1}, NEW S \in SUBSET Numbers
  PROVE  /\ ResultNat(S) \in BOOLEAN /\ BadOfAny(S) \in Taints
         /\ BadOfAny(S) = "deferred" => ResultNat(S)
<1> DEFINE T == {BadOf(n) : n \in S}
<1>1. T \in SUBSET Taints
  BY BitsTyped
<1>2. BadOfAny(S) \in Taints /\ (BadOfAny(S) = "deferred" => "deferred" \in T)
  <2> HIDE DEF T
  <2>1. BadOfAny(S) = Join(T)
    BY DEF BadOfAny, T
  <2> QED
    BY <1>1, <2>1, Joined
<1>3. "deferred" \in T => ResultNat(S)
  BY BitsTyped DEF ResultNat
<1>4. ResultNat(S) \in BOOLEAN
  BY DEF ResultNat
<1> QED
  BY <1>2, <1>3, <1>4

LEMMA PostIncForgets ==
  ASSUME NEW g, GrSound(g), GrSound(gr), depth \in {0, 1}, NEW base \in Numbers, NEW inc \in Increments
  PROVE  Forgets(PostInc(g, base, inc), g)
<1>a. inc.by \in SUBSET Numbers
  BY DEF Increments
<1> DEFINE old == g[Phys(base)]
           nat == old.nat \/ ResultNat(inc.by)
           bad == Join({old.bad, BadOfAny(inc.by)})
           x == Plain(nat, bad)
<1>1. Phys(base) \in Regs
  BY BitsTyped
<1>2. old.nat \in BOOLEAN /\ old.bad \in Taints /\ (old.bad = "deferred" => old.nat)
  BY <1>1 DEF GrSound, GrRecs
<1>b. /\ ResultNat(inc.by) \in BOOLEAN /\ BadOfAny(inc.by) \in Taints
      /\ BadOfAny(inc.by) = "deferred" => ResultNat(inc.by)
  BY <1>a, BitsJoined
<1> HIDE DEF old
<1>3. nat \in BOOLEAN /\ bad \in Taints /\ (bad = "deferred" => nat)
  <2>1. {old.bad, BadOfAny(inc.by)} \in SUBSET Taints
    BY <1>2, <1>b
  <2>2. bad \in Taints /\ (bad = "deferred" => "deferred" \in {old.bad, BadOfAny(inc.by)})
    BY <2>1, Joined
  <2>3. bad = "deferred" => old.bad = "deferred" \/ BadOfAny(inc.by) = "deferred"
    BY <2>2
  <2>4. nat \in BOOLEAN
    OBVIOUS
  <2> HIDE DEF bad
  <2>5. bad = "deferred" => nat
    BY <1>2, <1>b, <2>3, Zenon
  <2> QED
    BY <2>2, <2>4, <2>5
<1>5. x \in GrRecs /\ x.from = NoAccess /\ (x.bad = "deferred" => x.nat)
  <2> HIDE DEF nat, bad
  <2> QED
    BY <1>3, PlainSound
<1>4. PostInc(g, base, inc) = g \/ PostInc(g, base, inc) = [g EXCEPT ![Phys(base)] = x]
  BY <1>1 DEF PostInc, GrSound, old
<1> HIDE DEF x
<1> QED
  BY <1>4, <1>5 DEF Forgets, GrSound

\* An entry that is dropped, and a register that forgets, answer for nothing.
Outlived(g, g2, al, al2, mask, mask2) ==
  /\ \A r \in Regs : g2[r] = g[r] \/ g2[r].from = NoAccess
  /\ mask2 \subseteq mask
  /\ \A i \in mask2 : al2[i].reg = al[i].reg /\ al2[i].at = al[i].at

LEMMA StaysCurrent ==
  ASSUME NEW g, NEW g2, NEW al, NEW al2, NEW mask, NEW mask2, NEW m, NEW d \in {0, 1},
         EntriesCurrent(g, al, mask, m, d), Outlived(g, g2, al, al2, mask, mask2)
  PROVE  EntriesCurrent(g2, al2, mask2, m, d)
BY PhysTyped DEF EntriesCurrent, Outlived

LEMMA DropKeeps ==
  ASSUME AlatTyped, NEW E \in SUBSET (1 .. NAlat), Drop(E)
  PROVE  /\ AlatTyped' /\ validMask' = validMask \ E
         /\ \A i \in validMask' : alat'[i].reg = alat[i].reg /\ alat'[i].at = alat[i].at
<1>1. \A i \in 1 .. NAlat : [alat[i] EXCEPT !.valid = FALSE] \in AlatRecs
  BY DEF AlatTyped, AlatRecs
<1>2. alat' = [i \in 1 .. NAlat |-> IF i \in E THEN [alat[i] EXCEPT !.valid = FALSE] ELSE alat[i]]
      /\ validMask' = validMask \ E
  BY DEF Drop, Invalid
<1> QED
  BY <1>1, <1>2 DEF AlatTyped

\* An entry that is set is of the register's new access, and is its only one.
LEMMA SetCurrent ==
  ASSUME AlatTyped, NEW n \in Numbers, NEW a \in SpecAccesses, AlatSet(n, a)
  PROVE  /\ AlatTyped'
         /\ \A i \in validMask' : \/ alat'[i].reg = n /\ alat'[i].at = a
                                  \/ /\ i \in validMask /\ alat'[i].reg # n
                                     /\ alat'[i].reg = alat[i].reg /\ alat'[i].at = alat[i].at
<1> DEFINE E == OfReg(n)
           free == {i \in 1 .. NAlat : ~Invalid(E)[i].valid}
           s == CHOOSE i \in free : \A j \in free : i <= j
           new == [valid |-> TRUE, reg |-> n, at |-> a]
<1>1. E \in SUBSET (1 .. NAlat) /\ E = {i \in validMask : alat[i].reg = n}
  BY DEF OfReg, AlatTyped
<1>2. CASE free = {}
  <2>1. Drop(E)
    BY <1>2 DEF AlatSet
  <2> QED
    BY <1>1, <2>1, DropKeeps
<1>3. CASE free # {}
  <2>1. alat' = [Invalid(E) EXCEPT ![s] = new] /\ validMask' = (validMask \ E) \cup {s}
    BY <1>3 DEF AlatSet
  <2>2. s \in free
    <3>1. free \in SUBSET Nat
      BY SpecSizes
    <3>2. \E i \in free : \A j \in free : i <= j
      BY <1>3, <3>1, LeastNatural
    <3> QED
      BY <3>2, Zenon
  <2>3. s \in 1 .. NAlat
    BY <2>2
  <2> HIDE DEF s
  <2>4. \A i \in 1 .. NAlat : [alat[i] EXCEPT !.valid = FALSE] \in AlatRecs
    BY DEF AlatTyped, AlatRecs
  <2>5. Invalid(E) \in [1 .. NAlat -> AlatRecs]
        /\ \A i \in 1 .. NAlat : Invalid(E)[i].reg = alat[i].reg /\ Invalid(E)[i].at = alat[i].at
    BY <2>4 DEF AlatTyped, Invalid, AlatRecs
  <2>6. new \in AlatRecs
    BY DEF AlatRecs
  <2> HIDE DEF free
  <2>7. AlatTyped'
    <3> HIDE DEF new, E
    <3> QED
      BY <1>1, <2>1, <2>3, <2>5, <2>6 DEF AlatTyped
  <2>8. alat'[s].reg = n /\ alat'[s].at = a
    BY <2>1, <2>3, <2>5
  <2>9. \A i \in validMask \ E : i # s => /\ alat'[i].reg # n
                                          /\ alat'[i].reg = alat[i].reg /\ alat'[i].at = alat[i].at
    <3>1. \A i \in validMask : i \in 1 .. NAlat
      BY DEF AlatTyped
    <3> HIDE DEF new
    <3> QED
      BY <1>1, <2>1, <2>3, <2>5, <3>1
  <2> QED
    BY <2>1, <2>7, <2>8, <2>9
<1> QED
  BY <1>2, <1>3

\* A store leaves no entry of an access that it overlaps.
LEMMA StoreCurrent ==
  ASSUME AlatTyped, GrSound(gr), depth \in {0, 1}, NEW a \in SpecAccesses, NEW v,
         NEW t, EntriesCurrent(gr, alat, validMask, mem, depth), PhysWritten(a, v, t)
  PROVE  AlatTyped' /\ EntriesCurrent(gr, alat', validMask', mem', depth)
<1>1. Overlapping(a) \in SUBSET (1 .. NAlat)
  BY DEF Overlapping, AlatTyped
<1>2. Drop(Overlapping(a))
  BY DEF PhysWritten, AlatInvalidateStore
<1>3. /\ AlatTyped' /\ validMask' = validMask \ Overlapping(a)
      /\ \A i \in validMask' : alat'[i].reg = alat[i].reg /\ alat'[i].at = alat[i].at
  BY <1>1, <1>2, DropKeeps
<1> SUFFICES ASSUME NEW n \in Numbers, gr[RegOf(n, depth)].from # NoAccess,
                    NEW i \in validMask', alat'[i].reg = n
             PROVE  /\ alat'[i].at = gr[RegOf(n, depth)].from
                    /\ gr[RegOf(n, depth)].val = Ones(mem', gr[RegOf(n, depth)].from)
  BY <1>3 DEF EntriesCurrent
<1> DEFINE f == gr[RegOf(n, depth)].from
<1>4. i \in validMask /\ i \notin Overlapping(a) /\ alat[i].reg = n
  BY <1>3
<1>5. alat[i].at = f /\ gr[RegOf(n, depth)].val = Ones(mem, f)
  BY <1>4 DEF EntriesCurrent
<1>6. f \in SpecAccesses
  BY PhysTyped DEF GrSound, GrRecs
<1>7. /\ f[1] \in Nat /\ f[2] \in Nat /\ a[1] \in Nat /\ a[2] \in Nat
  BY <1>6, SpecSizes
<1>8. ~(f[1] < a[1] + a[2] /\ a[1] < f[1] + f[2])
  BY <1>4, <1>5 DEF Overlapping
<1>9. \A b \in f[1] .. f[1] + f[2] - 1 : mem'[b] = mem[b]
  <2>1. \A b \in f[1] .. f[1] + f[2] - 1 : b \in SpecBytes /\ b \notin a[1] .. a[1] + a[2] - 1
    BY <1>6, <1>7, <1>8 DEF SpecBytes
  <2> QED
    BY <2>1 DEF PhysWritten
<1> QED
  BY <1>3, <1>4, <1>5, <1>9 DEF Ones

LEMMA SpecStart == SpecInit => SpecInv
<1> SUFFICES ASSUME SpecInit PROVE SpecInv
  OBVIOUS
<1> DEFINE x == Plain(FALSE, "none")
<1>1. x \in GrRecs /\ x.bad # "deferred" /\ x.from = NoAccess
  BY DEF Plain, GrRecs, Taints
<1>a. gr = [n \in Regs |-> x] /\ SpecRest
  BY DEF SpecInit, SpecRest, Taints, Regs
<1> HIDE DEF x
<1>2. GrSound(gr)
  BY <1>1, <1>a DEF GrSound
<1>3. AlatTyped
  BY DEF SpecInit, AlatTyped, AlatRecs
<1>4. EntriesCurrent(gr, alat, validMask, mem, depth)
  BY DEF SpecInit, EntriesCurrent
<1> QED
  BY <1>a, <1>2, <1>3, <1>4 DEF SpecInv, SpecInit

\* A step that writes registers without loading them in advance, and no memory.
LEMMA WriteStep ==
  ASSUME SpecInv, Forgets(gr', gr), depth' = depth, mem' = mem, SpecRest', AlatTyped',
         validMask' \subseteq validMask,
         \A i \in validMask' : alat'[i].reg = alat[i].reg /\ alat'[i].at = alat[i].at
  PROVE  SpecInv'
<1>a. EntriesCurrent(gr, alat, validMask, mem, depth) /\ depth \in {0, 1}
      /\ \A r \in Regs : gr'[r] = gr[r] \/ gr'[r].from = NoAccess
  BY DEF SpecInv, Forgets
<1>1. EntriesCurrent(gr', alat', validMask', mem, depth)
  <2>1. Outlived(gr, gr', alat, alat', validMask, validMask')
    BY <1>a DEF Outlived
  <2> QED
    BY <1>a, <2>1, StaysCurrent
<1> QED
  BY <1>1 DEF SpecInv, Forgets

LEMMA SameForgets == ASSUME GrSound(gr) PROVE Forgets(gr, gr)
BY DEF Forgets

LEMMA AluStep == SpecInv /\ SpecAlu => SpecInv'
<1> SUFFICES ASSUME SpecInv, NEW dest \in Numbers,
                    NEW S \in {{}} \cup {{n} : n \in Numbers} \cup {Numbers}, Alu(dest, S)
             PROVE  SpecInv'
  BY DEF SpecAlu
<1>1. GrSound(gr) /\ depth \in {0, 1} /\ SpecRest /\ AlatTyped
  BY DEF SpecInv
<1>2. S \in SUBSET Numbers
  OBVIOUS
<1>3. /\ ResultNat(S) \in BOOLEAN /\ BadOfAny(S) \in Taints
      /\ BadOfAny(S) = "deferred" => ResultNat(S)
  BY <1>1, <1>2, BitsJoined
<1>4. gr' = GrWritten(dest, ResultNat(S), BadOfAny(S))
  BY DEF Alu
<1>5. Forgets(gr', gr)
  BY <1>1, <1>3, <1>4, WrittenForgets
<1>6. depth' = depth /\ UNCHANGED <<alatVars, memVars, fileVars>>
  BY DEF Alu
<1> QED
  BY <1>1, <1>5, <1>6, WriteStep DEF SpecRest, AlatTyped, alatVars, memVars, fileVars

\* No value that is still "deferred" sets a predicate: a compare of a NaT
\* clears it, tnat is about the bit, and a move to it loses the value.
LEMMA PredicateStep == SpecInv /\ (SpecCompare \/ SpecTnat \/ SpecMovToPr) => SpecInv'
<1> SUFFICES ASSUME SpecInv, SpecCompare \/ SpecTnat \/ SpecMovToPr PROVE SpecInv'
  OBVIOUS
<1>1. GrSound(gr) /\ depth \in {0, 1} /\ SpecRest /\ AlatTyped
  BY DEF SpecInv
<1>2. depth' = depth /\ gr' = gr /\ slot' = slot /\ br' = br /\ fr' = fr
      /\ UNCHANGED <<alatVars, memVars>>
  BY DEF SpecCompare, SpecTnat, SpecMovToPr
<1>3. pr' = pr \/ \E o \in BOOLEAN, t \in Taints \ {"deferred"} : pr' = [on |-> o, bad |-> t]
  <2>1. CASE SpecCompare
    <3>1. PICK n \in Numbers, family \in {"norm", "unc", "and", "or"}, res \in BOOLEAN :
             pr' = IF (family = "or" /\ (NatOf(n) \/ ~res)) \/ (family = "and" /\ ~NatOf(n) /\ res)
                   THEN pr
                   ELSE [on |-> res /\ ~NatOf(n), bad |-> IF NatOf(n) THEN "none" ELSE BadOf(n)]
      BY <2>1 DEF SpecCompare
    <3> DEFINE o == res /\ ~NatOf(n)
               t == IF NatOf(n) THEN "none" ELSE BadOf(n)
    <3>2. t \in Taints \ {"deferred"}
      BY <1>1, BitsTyped DEF Taints
    <3>3. o \in BOOLEAN
      OBVIOUS
    <3>4. pr' = pr \/ pr' = [on |-> o, bad |-> t]
      BY <3>1, Zenon
    <3> HIDE DEF o, t
    <3> QED
      BY <3>2, <3>3, <3>4
  <2>2. CASE SpecTnat
    <3>1. PICK n \in Numbers, sense \in BOOLEAN : pr' = [on |-> NatOf(n) = sense, bad |-> "none"]
      BY <2>2 DEF SpecTnat
    <3> DEFINE o == NatOf(n) = sense
    <3>2. o \in BOOLEAN /\ "none" \in Taints \ {"deferred"}
      BY DEF Taints
    <3>3. pr' = [on |-> o, bad |-> "none"]
      BY <3>1
    <3> HIDE DEF o
    <3> QED
      BY <3>2, <3>3
  <2>3. CASE SpecMovToPr
    <3>1. PICK n \in Numbers, v \in BOOLEAN : pr' = [on |-> v, bad |-> Lose(BadOf(n))]
      BY <2>3 DEF SpecMovToPr
    <3> DEFINE t == Lose(BadOf(n))
    <3>2. t \in Taints \ {"deferred"}
      BY <1>1, BitsTyped, Lost
    <3>3. pr' = [on |-> v, bad |-> t]
      BY <3>1
    <3> HIDE DEF t
    <3> QED
      BY <3>2, <3>3
  <2> QED
    BY <2>1, <2>2, <2>3
<1>4. pr' \in [on : BOOLEAN, bad : Taints] /\ (pr'.bad = "deferred" => ~pr'.on)
  <2>1. CASE pr' = pr
    BY <1>1, <2>1 DEF SpecRest
  <2>2. ASSUME NEW o \in BOOLEAN, NEW t \in Taints \ {"deferred"}, pr' = [on |-> o, bad |-> t]
        PROVE  pr' \in [on : BOOLEAN, bad : Taints] /\ (pr'.bad = "deferred" => ~pr'.on)
    BY <2>2
  <2> QED
    BY <1>3, <2>1, <2>2
<1>5. Forgets(gr', gr)
  BY <1>1, <1>2, SameForgets
<1> QED
  BY <1>1, <1>2, <1>4, <1>5, WriteStep DEF SpecRest, AlatTyped, alatVars, memVars

\* A value keeps its NaT in a floating-point register, and is lost in a branch
\* or application register; a predicate's value is none that is deferred.
LEMMA MoveStep ==
  SpecInv /\ (SpecMovFromPr \/ SpecMovToBr \/ SpecMovFromBr \/ SpecSetf \/ SpecGetf) => SpecInv'
<1> SUFFICES ASSUME SpecInv, SpecMovFromPr \/ SpecMovToBr \/ SpecMovFromBr \/ SpecSetf \/ SpecGetf
             PROVE  SpecInv'
  OBVIOUS
<1>1. GrSound(gr) /\ depth \in {0, 1} /\ SpecRest /\ AlatTyped
  BY DEF SpecInv
<1>2. depth' = depth /\ slot' = slot /\ pr' = pr /\ UNCHANGED <<alatVars, memVars>>
  BY DEF SpecMovFromPr, SpecMovToBr, SpecMovFromBr, SpecSetf, SpecGetf, fileVars
<1>3. ASSUME NEW dest \in Numbers, NEW nat \in BOOLEAN, NEW bad \in Taints, bad = "deferred" => nat,
             gr' = GrWritten(dest, nat, bad), br' = br, fr' = fr
      PROVE  Forgets(gr', gr) /\ SpecRest'
  BY <1>1, <1>2, <1>3, WrittenForgets DEF SpecRest, memVars
<1>4. Forgets(gr', gr) /\ SpecRest'
  <2>1. CASE SpecMovFromPr
    <3>1. PICK dest \in Numbers : gr' = GrWritten(dest, FALSE, Lose(pr.bad)) /\ br' = br /\ fr' = fr
      BY <2>1 DEF SpecMovFromPr, fileVars
    <3>2. Lose(pr.bad) \in Taints /\ Lose(pr.bad) # "deferred"
      BY <1>1, Lost DEF SpecRest
    <3> QED
      BY <1>3, <3>1, <3>2
  <2>2. CASE SpecMovToBr
    <3>1. PICK n \in Numbers : br' = Lose(BadOf(n)) /\ gr' = gr /\ fr' = fr
      BY <2>2 DEF SpecMovToBr
    <3>2. br' \in Taints \ {"deferred"}
      BY <1>1, <3>1, BitsTyped, Lost
    <3> QED
      BY <1>1, <1>2, <3>1, <3>2, SameForgets DEF SpecRest, memVars
  <2>3. CASE SpecMovFromBr
    <3>1. PICK dest \in Numbers : gr' = GrWritten(dest, FALSE, br) /\ br' = br /\ fr' = fr
      BY <2>3 DEF SpecMovFromBr, fileVars
    <3>2. br \in Taints /\ br # "deferred"
      BY <1>1 DEF SpecRest
    <3> QED
      BY <1>3, <3>1, <3>2
  <2>4. CASE SpecSetf
    <3>1. PICK n \in Numbers : fr' = [nat |-> NatOf(n), bad |-> BadOf(n)] /\ gr' = gr /\ br' = br
      BY <2>4 DEF SpecSetf
    <3>2. fr' \in [nat : BOOLEAN, bad : Taints] /\ (fr'.bad = "deferred" => fr'.nat)
      BY <1>1, <3>1, BitsTyped
    <3> QED
      BY <1>1, <1>2, <3>1, <3>2, SameForgets DEF SpecRest, memVars
  <2>5. CASE SpecGetf
    <3>1. PICK dest \in Numbers : gr' = GrWritten(dest, fr.nat, fr.bad) /\ br' = br /\ fr' = fr
      BY <2>5 DEF SpecGetf, fileVars
    <3>2. fr.nat \in BOOLEAN /\ fr.bad \in Taints /\ (fr.bad = "deferred" => fr.nat)
      BY <1>1 DEF SpecRest
    <3> QED
      BY <1>3, <3>1, <3>2
  <2> QED
    BY <2>1, <2>2, <2>3, <2>4, <2>5
<1> QED
  BY <1>1, <1>2, <1>4, WriteStep DEF AlatTyped, alatVars, memVars

LEMMA FetchedTyped ==
  ASSUME GrSound(gr), depth \in {0, 1}, NEW base \in Numbers
  PROVE  FetchedBad(base) \in Taints \ {"deferred"}
<1> DEFINE t == Lose(BadOf(base))
           u == IF stained THEN "lost" ELSE "none"
<1>1. t \in Taints \ {"deferred"} /\ u \in Taints \ {"deferred"}
  BY BitsTyped, Lost DEF Taints
<1>2. FetchedBad(base) = Join({t, u})
  BY DEF FetchedBad
<1> HIDE DEF t, u
<1>3. {t, u} \in SUBSET Taints /\ "deferred" \notin {t, u}
  BY <1>1
<1> QED
  BY <1>2, <1>3, Joined

LEMMA ForgetsTwice ==
  ASSUME NEW g, NEW h, NEW k, Forgets(h, g), Forgets(k, h)
  PROVE  Forgets(k, g)
BY DEF Forgets

LEMMA LoadedTyped ==
  ASSUME GrSound(gr), depth \in {0, 1}, NEW dest \in Numbers, NEW base \in Numbers,
         NEW a \in SpecAccesses, NEW advanced \in BOOLEAN
  PROVE  /\ GrSound(Loaded(dest, base, a, advanced))
         /\ \A r \in Regs : r # Phys(dest) => Loaded(dest, base, a, advanced)[r] = gr[r]
         /\ ~advanced => Loaded(dest, base, a, advanced)[Phys(dest)].from = NoAccess
         /\ advanced => /\ Loaded(dest, base, a, advanced)[Phys(dest)].from = a
                        /\ Loaded(dest, base, a, advanced)[Phys(dest)].val = Ones(mem, a)
<1> DEFINE t == FetchedBad(base)
           x == [nat |-> FALSE, bad |-> t, from |-> IF advanced THEN a ELSE NoAccess,
                 val |-> IF advanced THEN Contents(a) ELSE {}]
<1>1. Contents(a) \in SUBSET SpecBytes /\ Contents(a) = Ones(mem, a)
  BY DEF Contents, SpecBytes, Ones
<1>a. t \in Taints /\ t # "deferred"
  BY FetchedTyped
<1>3. Loaded(dest, base, a, advanced) = [gr EXCEPT ![Phys(dest)] = x]
  BY DEF Loaded
<1> HIDE DEF t
<1>2. x \in GrRecs /\ x.bad # "deferred"
  BY <1>1, <1>a DEF GrRecs
<1>4. Phys(dest) \in Regs
  BY BitsTyped
<1>5. /\ ~advanced => x.from = NoAccess
      /\ advanced => x.from = a /\ x.val = Ones(mem, a)
  BY <1>1
<1> HIDE DEF x
<1> QED
  BY <1>2, <1>3, <1>4, <1>5 DEF GrSound

\* A load that is not an advanced one is a write like any other.
LEMMA PlainLoadForgets ==
  ASSUME GrSound(gr), depth \in {0, 1}, NEW dest \in Numbers, NEW base \in Numbers,
         NEW a \in SpecAccesses
  PROVE  Forgets(Loaded(dest, base, a, FALSE), gr)
<1> DEFINE h == Loaded(dest, base, a, FALSE)
<1>1. /\ GrSound(h) /\ \A r \in Regs : r # Phys(dest) => h[r] = gr[r]
      /\ h[Phys(dest)].from = NoAccess
  BY LoadedTyped
<1> HIDE DEF h
<1>2. \A r \in Regs : h[r] = gr[r] \/ h[r].from = NoAccess
  BY <1>1
<1> QED
  BY <1>1, <1>2 DEF Forgets, h

\* What a check does to the table.
LEMMA CheckDrops ==
  ASSUME AlatTyped, NEW n \in Numbers, NEW a \in SpecAccesses, NEW clear \in BOOLEAN,
         AlatCheck(n, a, clear) \/ UNCHANGED alatVars
  PROVE  /\ AlatTyped' /\ validMask' \subseteq validMask
         /\ \A i \in validMask' : alat'[i].reg = alat[i].reg /\ alat'[i].at = alat[i].at
<1>1. Drop(OfReg(n)) \/ UNCHANGED <<alat, validMask>>
  BY DEF AlatCheck, AlatInvalidateReg, alatVars
<1>2. OfReg(n) \in SUBSET (1 .. NAlat)
  BY DEF OfReg, AlatTyped
<1>3. CASE Drop(OfReg(n))
  BY <1>2, <1>3, DropKeeps
<1>4. CASE UNCHANGED <<alat, validMask>>
  BY <1>4 DEF AlatTyped
<1> QED
  BY <1>1, <1>3, <1>4

\* Any other step that writes a register, and then increments a base.
LEMMA IncStep ==
  ASSUME SpecInv, NEW g, Forgets(g, gr), NEW base \in Numbers, NEW inc \in Increments,
         gr' = PostInc(g, base, inc), depth' = depth, SpecRest', AlatTyped', mem' = mem,
         validMask' \subseteq validMask,
         \A i \in validMask' : alat'[i].reg = alat[i].reg /\ alat'[i].at = alat[i].at
  PROVE  SpecInv'
<1>1. GrSound(gr) /\ depth \in {0, 1} /\ GrSound(g)
  BY DEF SpecInv, Forgets
<1>2. Forgets(PostInc(g, base, inc), g)
  BY <1>1, PostIncForgets
<1>3. Forgets(gr', gr)
  BY <1>2, ForgetsTwice
<1> QED
  BY <1>3, WriteStep

\* An advanced load and its entry.
LEMMA AdvancedCurrent ==
  ASSUME GrSound(gr), depth \in {0, 1}, AlatTyped, NEW dest \in Numbers, NEW base \in Numbers,
         NEW a \in SpecAccesses, EntriesCurrent(gr, alat, validMask, mem, depth), AlatSet(dest, a)
  PROVE  /\ GrSound(Loaded(dest, base, a, TRUE)) /\ AlatTyped'
         /\ EntriesCurrent(Loaded(dest, base, a, TRUE), alat', validMask', mem, depth)
<1> DEFINE g == Loaded(dest, base, a, TRUE)
<1>1. /\ AlatTyped'
      /\ \A i \in validMask' : \/ alat'[i].reg = dest /\ alat'[i].at = a
                               \/ /\ i \in validMask /\ alat'[i].reg # dest
                                  /\ alat'[i].reg = alat[i].reg /\ alat'[i].at = alat[i].at
  BY SetCurrent
<1>2. /\ GrSound(g) /\ \A r \in Regs : r # RegOf(dest, depth) => g[r] = gr[r]
      /\ g[RegOf(dest, depth)].from = a /\ g[RegOf(dest, depth)].val = Ones(mem, a)
  <2>1. Phys(dest) = RegOf(dest, depth) /\ TRUE \in BOOLEAN
    BY BitsTyped
  <2>2. /\ GrSound(g) /\ \A r \in Regs : r # Phys(dest) => g[r] = gr[r]
        /\ g[Phys(dest)].from = a /\ g[Phys(dest)].val = Ones(mem, a)
    BY <2>1, LoadedTyped
  <2> HIDE DEF g
  <2> QED
    BY <2>1, <2>2, Zenon
<1> HIDE DEF g
<1>3. EntriesCurrent(g, alat', validMask', mem, depth)
  <2> SUFFICES ASSUME NEW n \in Numbers, g[RegOf(n, depth)].from # NoAccess,
                      NEW i \in validMask', alat'[i].reg = n
               PROVE  /\ alat'[i].at = g[RegOf(n, depth)].from
                      /\ g[RegOf(n, depth)].val = Ones(mem, g[RegOf(n, depth)].from)
    BY DEF EntriesCurrent
  <2>1. CASE n = dest
    BY <1>1, <1>2, <2>1
  <2>2. CASE n # dest
    <3>1. RegOf(n, depth) \in Regs /\ RegOf(n, depth) # RegOf(dest, depth)
      BY <2>2, PhysTyped
    <3>2. g[RegOf(n, depth)] = gr[RegOf(n, depth)]
      BY <1>2, <3>1
    <3>3. i \in validMask /\ alat[i].reg = n /\ alat'[i].at = alat[i].at
      BY <1>1, <2>2
    <3> QED
      BY <3>2, <3>3 DEF EntriesCurrent
  <2> QED
    BY <2>1, <2>2
<1> QED
  BY <1>1, <1>2, <1>3 DEF g

LEMMA LoadStep == SpecInv /\ SpecLoad => SpecInv'
<1> SUFFICES ASSUME SpecInv, SpecLoad PROVE SpecInv'
  OBVIOUS
<1>1. GrSound(gr) /\ depth \in {0, 1} /\ SpecRest /\ AlatTyped
      /\ EntriesCurrent(gr, alat, validMask, mem, depth)
  BY DEF SpecInv
<1>2. PICK dest \in Numbers, base \in Numbers, a \in SpecAccesses, inc \in Increments,
           type \in {"plain", "advanced", "c.clr", "c.nc", "c.acq"} :
    LET check == type \in {"c.clr", "c.nc", "c.acq"}
        hit   == check /\ AlatHit(dest, a)
        sets  == type \in {"advanced", "c.acq"} /\ ~hit
        g     == IF hit THEN gr ELSE Loaded(dest, base, a, sets)
    IN  /\ ~NatOf(base)
        /\ IF sets THEN AlatSet(dest, a)
           ELSE IF check THEN AlatCheck(dest, a, type = "c.clr")
           ELSE UNCHANGED alatVars
        /\ gr' = PostInc(g, base, inc)
        /\ UNCHANGED <<depth, memVars, fileVars>>
  BY DEF SpecLoad
<1> DEFINE check == type \in {"c.clr", "c.nc", "c.acq"}
           hit   == check /\ AlatHit(dest, a)
           sets  == type \in {"advanced", "c.acq"} /\ ~hit
           clear == type = "c.clr"
<1>3. depth' = depth /\ mem' = mem /\ SpecRest'
  BY <1>1, <1>2 DEF SpecRest, memVars, fileVars
<1>4. CASE sets
  <2>1. ~hit /\ sets = TRUE
    BY <1>4
  <2> DEFINE g == Loaded(dest, base, a, TRUE)
  <2>2. AlatSet(dest, a) /\ gr' = PostInc(g, base, inc)
    BY <1>2, <1>4, <2>1, Zenon
  <2>3. GrSound(g) /\ AlatTyped' /\ EntriesCurrent(g, alat', validMask', mem, depth)
    BY <1>1, <2>2, AdvancedCurrent
  <2> HIDE DEF g
  <2>4. Forgets(gr', g)
    BY <1>1, <2>2, <2>3, PostIncForgets
  <2>5. Outlived(g, gr', alat', alat', validMask', validMask')
    BY <2>4 DEF Forgets, Outlived
  <2>6. EntriesCurrent(gr', alat', validMask', mem, depth)
    BY <1>1, <2>3, <2>5, StaysCurrent
  <2> QED
    BY <1>1, <1>3, <2>3, <2>4, <2>6 DEF SpecInv, Forgets
<1>5. CASE ~sets
  <2>1. AlatCheck(dest, a, clear) \/ UNCHANGED alatVars
    BY <1>2, <1>5, Zenon
  <2>2. clear \in BOOLEAN
    OBVIOUS
  <2>3. /\ AlatTyped' /\ validMask' \subseteq validMask
        /\ \A i \in validMask' : alat'[i].reg = alat[i].reg /\ alat'[i].at = alat[i].at
    <3> HIDE DEF clear
    <3> QED
      BY <1>1, <2>1, <2>2, CheckDrops
  <2>4. \/ gr' = PostInc(gr, base, inc)
        \/ gr' = PostInc(Loaded(dest, base, a, FALSE), base, inc)
    <3>1. sets = FALSE
      BY <1>5
    <3> QED
      BY <1>2, <3>1, Zenon
  <2>5. Forgets(gr, gr) /\ Forgets(Loaded(dest, base, a, FALSE), gr)
    BY <1>1, SameForgets, PlainLoadForgets
  <2> HIDE DEF clear, sets, hit, check
  <2>6. CASE gr' = PostInc(gr, base, inc)
    BY <1>3, <2>3, <2>5, <2>6, IncStep
  <2>7. CASE gr' = PostInc(Loaded(dest, base, a, FALSE), base, inc)
    BY <1>3, <2>3, <2>5, <2>7, IncStep
  <2> QED
    BY <2>4, <2>6, <2>7
<1> QED
  BY <1>4, <1>5

LEMMA CheckLoadStep == SpecInv /\ SpecCheckLoad => SpecInv'
<1> SUFFICES ASSUME SpecInv, SpecCheckLoad PROVE SpecInv'
  OBVIOUS
<1>1. GrSound(gr) /\ depth \in {0, 1} /\ SpecRest /\ AlatTyped
  BY DEF SpecInv
<1>2. PICK dest \in Numbers, base \in Numbers, a \in SpecAccesses, clear \in BOOLEAN :
        /\ AlatCheck(dest, a, clear)
        /\ gr' = IF AlatHit(dest, a) THEN gr ELSE Loaded(dest, base, a, FALSE)
        /\ UNCHANGED <<depth, memVars, fileVars>>
  BY DEF SpecCheckLoad
<1>3. /\ AlatTyped' /\ validMask' \subseteq validMask
      /\ \A i \in validMask' : alat'[i].reg = alat[i].reg /\ alat'[i].at = alat[i].at
  BY <1>1, <1>2, CheckDrops
<1>4. Forgets(gr', gr)
  BY <1>1, <1>2, SameForgets, PlainLoadForgets
<1>5. depth' = depth /\ mem' = mem /\ SpecRest'
  BY <1>1, <1>2 DEF SpecRest, memVars, fileVars
<1> QED
  BY <1>3, <1>4, <1>5, WriteStep

\* Steps that write one register, and neither the table nor memory.
LEMMA RegisterStep ==
  SpecInv /\ (SpecDefer \/ SpecSpill \/ SpecFill \/ SpecLfetch \/ SpecFpLoad) => SpecInv'
<1> SUFFICES ASSUME SpecInv, SpecDefer \/ SpecSpill \/ SpecFill \/ SpecLfetch \/ SpecFpLoad
             PROVE  SpecInv'
  OBVIOUS
<1>1. GrSound(gr) /\ depth \in {0, 1} /\ SpecRest /\ AlatTyped /\ Forgets(gr, gr)
  BY SameForgets DEF SpecInv
<1>2. depth' = depth /\ UNCHANGED <<alatVars, memVars>>
  BY DEF SpecDefer, SpecSpill, SpecFill, SpecLfetch, SpecFpLoad
<1>3. AlatTyped' /\ alat' = alat /\ validMask' = validMask /\ mem' = mem /\ stained' = stained
  BY <1>1, <1>2 DEF AlatTyped, alatVars, memVars
<1>4. ASSUME NEW g, Forgets(g, gr), NEW base \in Numbers, NEW inc \in Increments,
             gr' = PostInc(g, base, inc), SpecRest'
      PROVE  SpecInv'
  BY <1>2, <1>3, <1>4, IncStep
<1>5. CASE SpecDefer
  <2>1. PICK dest \in Numbers, base \in Numbers, inc \in Increments :
          gr' = PostInc(GrWritten(dest, TRUE, "deferred"), base, inc)
    BY <1>5 DEF SpecDefer
  <2>2. Forgets(GrWritten(dest, TRUE, "deferred"), gr)
    BY <1>1, WrittenForgets DEF Taints
  <2>3. SpecRest'
    BY <1>1, <1>3, <1>5 DEF SpecDefer, SpecRest, fileVars
  <2> QED
    BY <1>4, <2>1, <2>2, <2>3
<1>6. CASE SpecSpill
  <2>1. PICK n \in Numbers, base \in Numbers, inc \in Increments :
          /\ slot' = [bad |-> BadOf(n), unat |-> NatOf(n)] /\ gr' = PostInc(gr, base, inc)
          /\ UNCHANGED <<pr, br, fr>>
    BY <1>6 DEF SpecSpill
  <2>2. slot' \in [bad : Taints, unat : BOOLEAN] /\ (slot'.bad = "deferred" => slot'.unat)
    BY <1>1, <2>1, BitsTyped
  <2>3. SpecRest'
    BY <1>1, <1>3, <2>1, <2>2 DEF SpecRest
  <2> QED
    BY <1>1, <1>4, <2>1, <2>3
<1>7. CASE SpecFill
  <2>1. PICK n \in Numbers, base \in Numbers, inc \in Increments :
          gr' = PostInc(GrWritten(n, slot.unat, slot.bad), base, inc)
    BY <1>7 DEF SpecFill, FillNat
  <2>2. slot.unat \in BOOLEAN /\ slot.bad \in Taints /\ (slot.bad = "deferred" => slot.unat)
    BY <1>1 DEF SpecRest
  <2>3. Forgets(GrWritten(n, slot.unat, slot.bad), gr)
    BY <1>1, <2>2, WrittenForgets
  <2>4. SpecRest'
    BY <1>1, <1>3, <1>7 DEF SpecFill, SpecRest, fileVars
  <2> QED
    BY <1>4, <2>1, <2>3, <2>4
<1>8. CASE SpecLfetch
  <2>1. SpecRest'
    BY <1>1, <1>3, <1>8 DEF SpecLfetch, SpecRest, fileVars
  <2> QED
    BY <1>1, <1>4, <1>8, <2>1 DEF SpecLfetch
<1>9. CASE SpecFpLoad
  <2>1. PICK base \in Numbers, inc \in Increments :
          /\ fr' = [nat |-> FALSE, bad |-> FetchedBad(base)] /\ gr' = PostInc(gr, base, inc)
          /\ UNCHANGED <<slot, pr, br>>
    BY <1>9 DEF SpecFpLoad
  <2>2. fr' \in [nat : BOOLEAN, bad : Taints] /\ (fr'.bad = "deferred" => fr'.nat)
    BY <1>1, <2>1, FetchedTyped
  <2>3. SpecRest'
    BY <1>1, <1>3, <2>1, <2>2 DEF SpecRest
  <2> QED
    BY <1>1, <1>4, <2>1, <2>3
<1> QED
  BY <1>5, <1>6, <1>7, <1>8, <1>9

\* A register that a rotation renames, or that the backing store brings back.
LEMMA RenameStep == SpecInv /\ (SpecRotate \/ SpecLoadRs) => SpecInv'
<1> SUFFICES ASSUME SpecInv, SpecRotate \/ SpecLoadRs PROVE SpecInv'
  OBVIOUS
<1>1. GrSound(gr) /\ depth \in {0, 1} /\ SpecRest /\ AlatTyped
  BY DEF SpecInv
<1>2. depth' = depth /\ UNCHANGED <<alatVars, memVars, fileVars>>
  BY DEF SpecRotate, SpecLoadRs
<1>3. Forgets(gr', gr)
  <2>1. CASE SpecRotate
    <3>1. PICK t \in Taints : gr' = GrWritten(Stacked, t = "deferred", t)
      BY <2>1 DEF SpecRotate
    <3>2. Stacked \in Numbers /\ (t = "deferred") \in BOOLEAN
      BY DEF Numbers
    <3> QED
      BY <1>1, <3>1, <3>2, WrittenForgets
  <2>2. CASE SpecLoadRs
    <3>1. PICK r \in {32, 33} : gr' = [gr EXCEPT ![r] = Plain(FALSE, Lose(gr[r].bad))]
      BY <1>1, <2>2 DEF SpecLoadRs, GrSound, Regs
    <3> DEFINE t == Lose(gr[r].bad)
               x == Plain(FALSE, t)
    <3>2. r \in Regs
      BY DEF Regs
    <3>3. t \in Taints \ {"deferred"}
      <4>1. gr[r].bad \in Taints
        BY <1>1, <3>2 DEF GrSound, GrRecs
      <4> QED
        BY <4>1, Lost
    <3>4. x \in GrRecs /\ x.from = NoAccess /\ (x.bad = "deferred" => x.nat)
      <4> HIDE DEF t
      <4> QED
        BY <3>3, PlainSound
    <3>5. gr' = [gr EXCEPT ![r] = x]
      BY <3>1
    <3> HIDE DEF x
    <3> QED
      BY <1>1, <3>2, <3>4, <3>5 DEF Forgets, GrSound
  <2> QED
    BY <2>1, <2>2
<1> QED
  BY <1>1, <1>2, <1>3, WriteStep DEF SpecRest, AlatTyped, alatVars, memVars, fileVars

\* A step that writes memory, and then registers without loading them.
LEMMA StoreWrites ==
  ASSUME SpecInv, NEW a \in SpecAccesses, NEW v, NEW t \in Taints, PhysWritten(a, v, t),
         Forgets(gr', gr), depth' = depth, UNCHANGED fileVars
  PROVE  SpecInv'
<1>1. GrSound(gr) /\ depth \in {0, 1} /\ AlatTyped /\ SpecRest
      /\ EntriesCurrent(gr, alat, validMask, mem, depth)
  BY DEF SpecInv
<1>2. AlatTyped' /\ EntriesCurrent(gr, alat', validMask', mem', depth)
  BY <1>1, StoreCurrent
<1>3. EntriesCurrent(gr', alat', validMask', mem', depth)
  <2>1. Outlived(gr, gr', alat', alat', validMask', validMask')
    BY DEF Forgets, Outlived
  <2> QED
    BY <1>1, <1>2, <2>1, StaysCurrent
<1>4. SpecRest'
  <2>1. stained' = (stained \/ t # "none")
    BY DEF PhysWritten
  <2>2. stained' \in BOOLEAN
    BY <2>1
  <2> QED
    BY <1>1, <2>2 DEF SpecRest, fileVars
<1> QED
  BY <1>1, <1>2, <1>3, <1>4 DEF SpecInv, Forgets

LEMMA StoreStep == SpecInv /\ (SpecStore \/ SpecFpStore \/ SpecSemaphore) => SpecInv'
<1> SUFFICES ASSUME SpecInv, SpecStore \/ SpecFpStore \/ SpecSemaphore PROVE SpecInv'
  OBVIOUS
<1>1. GrSound(gr) /\ depth \in {0, 1} /\ SpecRest /\ AlatTyped
  BY DEF SpecInv
<1>2. CASE SpecStore
  <2>1. PICK n \in Numbers, base \in Numbers, a \in SpecAccesses, v \in {0, 1}, inc \in Increments :
          /\ PhysWritten(a, v, BadOfAny({n, base})) /\ gr' = PostInc(gr, base, inc)
          /\ depth' = depth /\ UNCHANGED fileVars
    BY <1>2 DEF SpecStore
  <2>2. BadOfAny({n, base}) \in Taints
    <3>1. {n, base} \in SUBSET Numbers
      OBVIOUS
    <3> QED
      BY <1>1, <3>1, BitsJoined
  <2>3. Forgets(gr', gr)
    BY <1>1, <2>1, PostIncForgets
  <2> QED
    BY <2>1, <2>2, <2>3, StoreWrites
<1>3. CASE SpecFpStore
  <2>1. PICK base \in Numbers, a \in SpecAccesses, v \in {0, 1}, inc \in Increments :
          /\ PhysWritten(a, v, Join({BadOf(base), fr.bad})) /\ gr' = PostInc(gr, base, inc)
          /\ depth' = depth /\ UNCHANGED fileVars
    BY <1>3 DEF SpecFpStore
  <2>2. Join({BadOf(base), fr.bad}) \in Taints
    <3>1. {BadOf(base), fr.bad} \in SUBSET Taints
      BY <1>1, BitsTyped DEF SpecRest
    <3> QED
      BY <3>1, Joined
  <2>3. Forgets(gr', gr)
    BY <1>1, <2>1, PostIncForgets
  <2> QED
    BY <2>1, <2>2, <2>3, StoreWrites
<1>4. CASE SpecSemaphore
  <2>1. PICK dest \in Numbers, n \in Numbers, base \in Numbers, a \in SpecAccesses, v \in {0, 1},
             stores \in BOOLEAN :
          /\ IF stores THEN PhysWritten(a, v, BadOfAny({n, base})) ELSE UNCHANGED <<memVars, alatVars>>
          /\ gr' = GrWritten(dest, FALSE, FetchedBad(base))
          /\ depth' = depth /\ UNCHANGED fileVars
    BY <1>4 DEF SpecSemaphore
  <2>2. FetchedBad(base) \in Taints /\ FetchedBad(base) # "deferred"
    BY <1>1, FetchedTyped
  <2>3. Forgets(gr', gr)
    BY <1>1, <2>1, <2>2, WrittenForgets
  <2>4. BadOfAny({n, base}) \in Taints
    <3>1. {n, base} \in SUBSET Numbers
      OBVIOUS
    <3> QED
      BY <1>1, <3>1, BitsJoined
  <2>5. CASE stores
    BY <2>1, <2>3, <2>4, <2>5, StoreWrites
  <2>6. CASE ~stores
    BY <1>1, <2>1, <2>3, <2>6, WriteStep DEF AlatTyped, SpecRest, alatVars, memVars, fileVars
  <2> QED
    BY <2>5, <2>6
<1> QED
  BY <1>2, <1>3, <1>4

LEMMA DropStep == SpecInv /\ (SpecChkA \/ SpecInvalaE \/ SpecRfi) => SpecInv'
<1> SUFFICES ASSUME SpecInv, SpecChkA \/ SpecInvalaE \/ SpecRfi PROVE SpecInv'
  OBVIOUS
<1>1. GrSound(gr) /\ depth \in {0, 1} /\ SpecRest /\ AlatTyped
  BY DEF SpecInv
<1>2. depth' = depth /\ gr' = gr /\ UNCHANGED <<memVars, fileVars>>
  BY DEF SpecChkA, SpecInvalaE, SpecRfi
<1>3. (\E E \in SUBSET (1 .. NAlat) : Drop(E)) \/ UNCHANGED <<alat, validMask>>
  <2>1. /\ \A n : OfReg(n) \in SUBSET (1 .. NAlat)
        /\ {i \in validMask : alat[i].reg >= 32} \in SUBSET (1 .. NAlat)
    BY <1>1 DEF OfReg, AlatTyped
  <2> QED
    BY <2>1 DEF SpecChkA, SpecInvalaE, SpecRfi, AlatCheckReg, AlatInvalidateReg, DropsStacked,
                AlatInvalidateStacked, alatVars
<1>4. /\ AlatTyped' /\ validMask' \subseteq validMask
      /\ \A i \in validMask' : alat'[i].reg = alat[i].reg /\ alat'[i].at = alat[i].at
  BY <1>1, <1>3, DropKeeps DEF AlatTyped
<1>5. Forgets(gr', gr) /\ SpecRest'
  BY <1>1, <1>2, SameForgets DEF SpecRest, memVars, fileVars
<1> QED
  BY <1>2, <1>4, <1>5, WriteStep DEF memVars

LEMMA InvalaStep == SpecInv /\ SpecInvala => SpecInv'
<1> SUFFICES ASSUME SpecInv, SpecInvala PROVE SpecInv'
  OBVIOUS
<1>1. depth' = depth /\ gr' = gr /\ UNCHANGED <<memVars, fileVars>> /\ validMask' = validMask
      /\ alat' = [i \in 1 .. NAlat |-> [valid |-> FALSE, reg |-> 0, at |-> NoAccess]]
  BY DEF SpecInvala
<1>2. AlatTyped'
  BY <1>1 DEF SpecInv, AlatTyped, AlatRecs
<1>3. 0 \notin Numbers
  BY SpecSizes DEF Numbers, Stacked
<1>4. EntriesCurrent(gr, alat', validMask', mem, depth)
  BY <1>1, <1>2, <1>3 DEF EntriesCurrent, AlatTyped
<1>5. mem' = mem /\ (SpecRest => SpecRest')
  BY <1>1 DEF SpecRest, memVars, fileVars
<1> QED
  BY <1>1, <1>2, <1>4, <1>5 DEF SpecInv

\* A frame's r32 is another register than its caller's, and the table says
\* nothing of either.
LEMMA FrameStep == SpecInv /\ (SpecCall \/ SpecReturn) => SpecInv'
<1> SUFFICES ASSUME SpecInv, SpecCall \/ SpecReturn PROVE SpecInv'
  OBVIOUS
<1>1. GrSound(gr) /\ depth \in {0, 1} /\ SpecRest /\ AlatTyped
      /\ EntriesCurrent(gr, alat, validMask, mem, depth)
  BY DEF SpecInv
<1>2. depth' \in {0, 1} /\ UNCHANGED <<memVars, fileVars>>
      /\ Drop({i \in validMask : alat[i].reg >= 32})
  BY DEF SpecCall, SpecReturn, DropsStacked, AlatInvalidateStacked
<1>3. /\ AlatTyped' /\ validMask' = validMask \ {i \in validMask : alat[i].reg >= 32}
      /\ \A i \in validMask' : alat'[i].reg = alat[i].reg /\ alat'[i].at = alat[i].at
  BY <1>1, <1>2, DropKeeps DEF AlatTyped
<1>4. GrSound(gr') /\ \A r \in Regs : gr'[r] = gr[r] \/ r = 33
  <2>1. CASE SpecCall
    <3>1. PICK t \in Taints : gr' = [gr EXCEPT ![33] = Plain(t = "deferred", t)]
      BY <2>1 DEF SpecCall
    <3> DEFINE x == Plain(t = "deferred", t)
    <3>a. (t = "deferred") \in BOOLEAN
      OBVIOUS
    <3>2. x \in GrRecs /\ (x.bad = "deferred" => x.nat)
      BY <3>a, PlainSound
    <3>3. gr' = [gr EXCEPT ![33] = x]
      BY <3>1
    <3> HIDE DEF x
    <3> QED
      BY <1>1, <3>2, <3>3 DEF GrSound
  <2>2. CASE SpecReturn
    BY <1>1, <2>2 DEF SpecReturn
  <2> QED
    BY <2>1, <2>2
<1>5. EntriesCurrent(gr', alat', validMask', mem, depth')
  <2> SUFFICES ASSUME NEW n \in Numbers, gr'[RegOf(n, depth')].from # NoAccess,
                      NEW i \in validMask', alat'[i].reg = n
               PROVE  /\ alat'[i].at = gr'[RegOf(n, depth')].from
                      /\ gr'[RegOf(n, depth')].val = Ones(mem, gr'[RegOf(n, depth')].from)
    BY DEF EntriesCurrent
  <2>1. i \in validMask /\ alat[i].reg = n /\ ~(n >= 32) /\ alat'[i].at = alat[i].at
    BY <1>3
  <2>2. n \in SpecStatics /\ n \in 1..31 /\ n \in Regs
    <3>1. n \in SpecStatics
      BY <2>1 DEF Numbers, Stacked
    <3> QED
      BY <3>1, SpecSizes DEF Regs
  <2>3. RegOf(n, depth') = n /\ RegOf(n, depth) = n /\ gr'[n] = gr[n]
    BY <1>4, <2>2 DEF RegOf
  <2> QED
    BY <1>1, <2>1, <2>3 DEF EntriesCurrent
<1>6. mem' = mem /\ SpecRest'
  BY <1>1, <1>2 DEF SpecRest, memVars, fileVars
<1> QED
  BY <1>1, <1>2, <1>3, <1>4, <1>5, <1>6 DEF SpecInv

LEMMA SpecSafe == SpecInv => SpeculationIsSound
<1> SUFFICES ASSUME SpecInv PROVE SpeculationIsSound
  OBVIOUS
<1>1. NatTracks
  BY DEF SpecInv, GrSound, SpecRest, NatTracks
<1>2. HitIsCurrent
  <2> SUFFICES ASSUME NEW n \in Numbers, gr[Phys(n)].from # NoAccess, OfReg(n) # {}
               PROVE  gr[Phys(n)].val = Contents(gr[Phys(n)].from)
    BY DEF HitIsCurrent, CurrentOnHit
  <2>1. Phys(n) = RegOf(n, depth)
    BY BitsTyped DEF SpecInv
  <2>2. PICK i \in validMask : alat[i].reg = n
    BY DEF OfReg
  <2> QED
    BY <2>1, <2>2 DEF SpecInv, EntriesCurrent, Contents, Ones
<1> QED
  BY <1>1, <1>2 DEF SpeculationIsSound

\* A value of a deferred load keeps its NaT through arithmetic, spill and fill
\* and FP registers until an instruction that looks at no NaT loses it, it never
\* decides a predicate that is set, and a check that hits leaves what memory holds (alat_set, alat_check,
\* alat_invalidate_store and the NaT bits of merced.c), for any number of
\* registers, accesses of any size and any size of the table.
THEOREM SpeculationSound == SpecSpec => []SpeculationIsSound
<1>1. SpecInv /\ [SpecNext]_specVars => SpecInv'
  <2>1. SpecInv /\ UNCHANGED specVars => SpecInv'
    BY DEF SpecInv, SpecRest, specVars, AlatTyped
  <2> QED
    BY <2>1, AluStep, PredicateStep, MoveStep, LoadStep, CheckLoadStep, RegisterStep, RenameStep,
       StoreStep, DropStep, InvalaStep, FrameStep DEF SpecNext
<1> QED
  BY <1>1, SpecStart, SpecSafe, PTL DEF SpecSpec

----------------------------------------------------------------------------
(***************************************************************************)
(* Translation.                                                            *)
(***************************************************************************)

Uses == {"none", "kernel", "user"}
Empties == [valid : {FALSE}, purge : {FALSE}]
Entries == Empties \cup [valid : BOOLEAN, purge : BOOLEAN, rid : MmuRids, page : MmuPages,
                      frame : MmuFrames, use : Uses]

LEMMA EntriesTyped ==
  /\ None \in Entries /\ ~None.valid /\ ~None.purge
  /\ \A e \in Entries : /\ e.valid \in BOOLEAN /\ e.purge \in BOOLEAN
                        /\ e.valid => /\ e.rid \in MmuRids /\ e.page \in MmuPages
                                      /\ e.frame \in MmuFrames /\ e.use \in Uses
<1>1. None \in Entries /\ ~None.valid /\ ~None.purge
  BY DEF None, Entries, Empties
<1>2. ASSUME NEW e \in Entries
      PROVE  /\ e.valid \in BOOLEAN /\ e.purge \in BOOLEAN
             /\ e.valid => /\ e.rid \in MmuRids /\ e.page \in MmuPages
                           /\ e.frame \in MmuFrames /\ e.use \in Uses
  <2>1. CASE e \in Empties
    BY <2>1 DEF Empties
  <2>2. CASE e \notin Empties
    BY <1>2, <2>2 DEF Entries
  <2> QED
    BY <2>1, <2>2
<1> QED
  BY <1>1, <1>2

\* Whether two entries translate alike: a purge mark makes no difference.
Alike(e, f) == /\ e.valid = f.valid
               /\ e.valid => /\ e.rid = f.rid /\ e.page = f.page
                             /\ e.frame = f.frame /\ e.use = f.use

LEMMA EntriesChanged ==
  ASSUME NEW e \in Entries
  PROVE  /\ [e EXCEPT !.valid = FALSE] \in Entries
         /\ [e EXCEPT !.valid = FALSE].purge = e.purge
         /\ ~[e EXCEPT !.valid = FALSE].valid
         /\ [e EXCEPT !.purge = FALSE, !.valid = FALSE] \in Entries
         /\ ~[e EXCEPT !.purge = FALSE, !.valid = FALSE].purge
         /\ e.valid => /\ [e EXCEPT !.purge = TRUE] \in Entries
                       /\ [e EXCEPT !.purge = TRUE].purge
                       /\ Alike(e, [e EXCEPT !.purge = TRUE])
<1>1. CASE e \in Empties
  <2>1. ~e.valid /\ ~e.purge
    BY <1>1 DEF Empties
  <2>2. /\ [e EXCEPT !.valid = FALSE] \in Empties
        /\ [e EXCEPT !.valid = FALSE].purge = e.purge
        /\ ~[e EXCEPT !.valid = FALSE].valid
    BY <1>1 DEF Empties
  <2>3. /\ [e EXCEPT !.purge = FALSE, !.valid = FALSE] \in Empties
        /\ ~[e EXCEPT !.purge = FALSE, !.valid = FALSE].purge
    BY <1>1 DEF Empties
  <2> QED
    BY <2>1, <2>2, <2>3 DEF Entries
<1>2. CASE e \notin Empties
  <2>1. e \in [valid : BOOLEAN, purge : BOOLEAN, rid : MmuRids, page : MmuPages,
               frame : MmuFrames, use : Uses]
    BY <1>2 DEF Entries
  <2>2. /\ [e EXCEPT !.valid = FALSE] \in [valid : BOOLEAN, purge : BOOLEAN, rid : MmuRids,
              page : MmuPages, frame : MmuFrames, use : Uses]
        /\ [e EXCEPT !.valid = FALSE].purge = e.purge
        /\ ~[e EXCEPT !.valid = FALSE].valid
    BY <2>1
  <2>3. /\ [e EXCEPT !.purge = FALSE, !.valid = FALSE] \in [valid : BOOLEAN, purge : BOOLEAN,
              rid : MmuRids, page : MmuPages, frame : MmuFrames, use : Uses]
        /\ ~[e EXCEPT !.purge = FALSE, !.valid = FALSE].purge
    BY <2>1
  <2>4. /\ [e EXCEPT !.purge = TRUE] \in [valid : BOOLEAN, purge : BOOLEAN, rid : MmuRids,
              page : MmuPages, frame : MmuFrames, use : Uses]
        /\ [e EXCEPT !.purge = TRUE].purge
        /\ Alike(e, [e EXCEPT !.purge = TRUE])
    BY <2>1 DEF Alike
  <2> QED
    BY <2>2, <2>3, <2>4 DEF Entries
<1> QED
  BY <1>1, <1>2

Tables(n) == [1 .. n -> Entries]

LEMMA SearchTyped ==
  ASSUME NEW n \in Nat, NEW t \in Tables(n), NEW rid, NEW page
  PROVE  LET e == TlbSearch(t, n, rid, page)
         IN  e \in Entries /\ (e.valid => e.rid = rid /\ e.page = page)
<1> DEFINE Hits == {k \in 1 .. n : Matches(t[k], rid, page)}
           c == CHOOSE k \in Hits : \A j \in Hits : k <= j
<1>1. CASE Hits = {}
  <2>1. TlbSearch(t, n, rid, page) = None
    BY <1>1 DEF TlbSearch
  <2> QED
    BY <2>1, EntriesTyped
<1>2. CASE Hits # {}
  <2>1. Hits \in SUBSET Nat
    OBVIOUS
  <2>2. \E k \in Hits : \A j \in Hits : k <= j
    BY <1>2, <2>1, LeastNatural
  <2>3. c \in Hits
    BY <2>2, Zenon
  <2>4. TlbSearch(t, n, rid, page) = t[c]
    BY <1>2 DEF TlbSearch
  <2> HIDE DEF c
  <2> QED
    BY <2>3, <2>4 DEF Tables, Matches
<1> QED
  BY <1>1, <1>2

LEMMA SearchAlike ==
  ASSUME NEW n \in Nat, NEW t \in Tables(n), NEW u \in Tables(n),
         \A k \in 1 .. n : Alike(t[k], u[k]), NEW rid, NEW page
  PROVE  Alike(TlbSearch(t, n, rid, page), TlbSearch(u, n, rid, page))
<1> DEFINE Hits == {k \in 1 .. n : Matches(t[k], rid, page)}
           c == CHOOSE k \in Hits : \A j \in Hits : k <= j
<1>1. Hits = {k \in 1 .. n : Matches(u[k], rid, page)}
  BY DEF Matches, Alike
<1>2. CASE Hits = {}
  <2>1. TlbSearch(t, n, rid, page) = None
    BY <1>2 DEF TlbSearch
  <2>2. TlbSearch(u, n, rid, page) = None
    BY <1>1, <1>2, Zenon DEF TlbSearch
  <2> QED
    BY <2>1, <2>2 DEF Alike
<1>3. CASE Hits # {}
  <2>1. Hits \in SUBSET Nat
    OBVIOUS
  <2>2. \E k \in Hits : \A j \in Hits : k <= j
    BY <1>3, <2>1, LeastNatural
  <2>3. c \in 1 .. n
    BY <2>2, Zenon
  <2>4. TlbSearch(t, n, rid, page) = t[c]
    BY <1>3, Zenon DEF TlbSearch
  <2>5. TlbSearch(u, n, rid, page) = u[c]
    BY <1>1, <1>3, Zenon DEF TlbSearch
  <2> HIDE DEF c
  <2> QED
    BY <2>3, <2>4, <2>5
<1> QED
  BY <1>2, <1>3

\* What a reference is given by tables T and C, the keys, the region r, and
\* the side, privilege level and psr.dt it is made with.
Reached(T, C, r, page) ==
  LET e == TlbSearch(T, NTr, r, page)
  IN  IF e.valid THEN e ELSE TlbSearch(C, NTc, r, page)

Gives(e, key, c) ==
  IF e.valid /\ e.use # "none" /\ key /\ (c = 0 \/ e.use = "user") THEN e.frame ELSE 0

Translation(T, C, key, r, s, c, d, page) ==
  IF s = "d" /\ ~d THEN page ELSE Gives(Reached(T[s], C[s], r, page), key, c)

LEMMA FullIsTranslation ==
  ASSUME NEW s \in Sides, NEW page \in MmuPages
  PROVE  FullTranslate(s, page) = Translation(tr, tc, keyOk, rr, s, cpl, dt, page)
<1>1. Found(s, page) = Reached(tr[s], tc[s], rr, page)
  BY DEF Found, Reached
<1> DEFINE e == Reached(tr[s], tc[s], rr, page)
<1>2. FullTranslate(s, page) = IF s = "d" /\ ~dt THEN page
                               ELSE IF e.valid /\ Allowed(e) THEN e.frame ELSE 0
  BY <1>1, Zenon DEF FullTranslate
<1>3. Allowed(e) <=> (e.use # "none" /\ keyOk) /\ (cpl = 0 \/ e.use = "user")
  BY DEF Allowed
<1> HIDE DEF e
<1>4. (IF e.valid /\ Allowed(e) THEN e.frame ELSE 0) = Gives(e, keyOk, cpl)
  BY <1>3, Zenon DEF Gives
<1> QED
  BY <1>2, <1>4, Zenon DEF Translation, e

LEMMA TranslationTyped ==
  ASSUME NEW T \in [Sides -> Tables(NTr)], NEW C \in [Sides -> Tables(NTc)], NEW key, NEW r,
         NEW s \in Sides, NEW c, NEW d, NEW page \in MmuPages
  PROVE  Translation(T, C, key, r, s, c, d, page) \in MmuFrames \cup {0}
<1>1. NTr \in Nat /\ NTc \in Nat /\ MmuPages \subseteq MmuFrames
  BY MmuSizes
<1>2. Reached(T[s], C[s], r, page) \in Entries
  BY <1>1, SearchTyped DEF Reached
<1> DEFINE e == Reached(T[s], C[s], r, page)
<1>3. e.valid => e.frame \in MmuFrames
  BY <1>2, EntriesTyped
<1> HIDE DEF e
<1>4. Gives(e, key, c) \in MmuFrames \cup {0}
  BY <1>3 DEF Gives
<1> QED
  BY <1>1, <1>4, Zenon DEF Translation, e

\* A side whose entries translate alike translates alike.
LEMMA TranslationAlike ==
  ASSUME NEW T \in [Sides -> Tables(NTr)], NEW C \in [Sides -> Tables(NTc)],
         NEW U \in [Sides -> Tables(NTr)], NEW D \in [Sides -> Tables(NTc)],
         NEW s \in Sides,
         \A k \in 1 .. NTr : Alike(T[s][k], U[s][k]),
         \A k \in 1 .. NTc : Alike(C[s][k], D[s][k])
  PROVE  \A key, r, c, d, page :
           Translation(T, C, key, r, s, c, d, page) = Translation(U, D, key, r, s, c, d, page)
<1> SUFFICES ASSUME NEW key, NEW r, NEW c, NEW d, NEW page
             PROVE  Translation(T, C, key, r, s, c, d, page) = Translation(U, D, key, r, s, c, d, page)
  OBVIOUS
<1>1. NTr \in Nat /\ NTc \in Nat
  BY MmuSizes
<1>2. Alike(TlbSearch(T[s], NTr, r, page), TlbSearch(U[s], NTr, r, page))
  BY <1>1, SearchAlike
<1>3. Alike(TlbSearch(C[s], NTc, r, page), TlbSearch(D[s], NTc, r, page))
  BY <1>1, SearchAlike
<1>4. Alike(Reached(T[s], C[s], r, page), Reached(U[s], D[s], r, page))
  BY <1>2, <1>3 DEF Reached, Alike
<1> DEFINE e == Reached(T[s], C[s], r, page)
           f == Reached(U[s], D[s], r, page)
<1> HIDE DEF e, f
<1>5. Gives(e, key, c) = Gives(f, key, c)
  <2>1. Alike(e, f)
    BY <1>4 DEF e, f
  <2> QED
    BY <2>1 DEF Gives, Alike
<1> QED
  BY <1>5, Zenon DEF Translation, e, f

----------------------------------------------------------------------------
\* The marks that wait: Pending, as sets.

MarksOf(t, n) == {k \in 1 .. n : t[k].purge}

LEMMA MarksFinite ==
  ASSUME NEW n \in Nat, NEW t
  PROVE  IsFiniteSet(MarksOf(t, n)) /\ Pending(t, n) \in Nat /\ Pending(t, n) = Cardinality(MarksOf(t, n))
<1>1. MarksOf(t, n) \in SUBSET (1 .. n) /\ IsFiniteSet(1 .. n)
  BY FS_Interval DEF MarksOf
<1>2. IsFiniteSet(MarksOf(t, n))
  BY <1>1, FS_Subset
<1> QED
  BY <1>2, FS_CardinalityType DEF Pending, MarksOf

LEMMA FewerMarks ==
  ASSUME NEW n \in Nat, NEW t, NEW u, \A k \in 1 .. n : u[k].purge => t[k].purge
  PROVE  Pending(u, n) <= Pending(t, n)
<1>1. MarksOf(u, n) \in SUBSET MarksOf(t, n)
  BY DEF MarksOf
<1> QED
  BY <1>1, MarksFinite, FS_Subset

LEMMA MoreMarks ==
  ASSUME NEW n \in Nat, NEW t \in Tables(n), NEW page
  PROVE  /\ Pending(Marked(t, n, page), n) = Pending(t, n) + NewMarks(t, n, page)
         /\ NewMarks(t, n, page) \in Nat
         /\ Marked(t, n, page) \in Tables(n)
         /\ \A k \in 1 .. n : Alike(t[k], Marked(t, n, page)[k])
<1> DEFINE N == {k \in 1 .. n : Matches(t[k], rr, page) /\ ~t[k].purge}
           u == Marked(t, n, page)
<1>1. \A k \in 1 .. n : u[k] = IF Matches(t[k], rr, page) THEN [t[k] EXCEPT !.purge = TRUE] ELSE t[k]
  BY DEF Marked
<1>2. \A k \in 1 .. n : Matches(t[k], rr, page) => t[k].valid
  BY DEF Matches
<1>3. \A k \in 1 .. n : /\ t[k] \in Entries /\ u[k] \in Entries /\ Alike(t[k], u[k])
                        /\ u[k].purge <=> t[k].purge \/ Matches(t[k], rr, page)
  <2> SUFFICES ASSUME NEW k \in 1 .. n
               PROVE  /\ t[k] \in Entries /\ u[k] \in Entries /\ Alike(t[k], u[k])
                      /\ u[k].purge <=> t[k].purge \/ Matches(t[k], rr, page)
    OBVIOUS
  <2>1. t[k] \in Entries
    BY DEF Tables
  <2>2. CASE Matches(t[k], rr, page)
    <3>1. u[k] = [t[k] EXCEPT !.purge = TRUE] /\ t[k].valid
      BY <1>1, <1>2, <2>2
    <3>2. u[k] \in Entries /\ u[k].purge /\ Alike(t[k], u[k])
      <4> DEFINE e == t[k]
      <4>1. e \in Entries /\ e.valid /\ u[k] = [e EXCEPT !.purge = TRUE]
        BY <2>1, <3>1
      <4> HIDE DEF e, u
      <4>2. /\ [e EXCEPT !.purge = TRUE] \in Entries /\ [e EXCEPT !.purge = TRUE].purge
            /\ Alike(e, [e EXCEPT !.purge = TRUE])
        BY <4>1, EntriesChanged
      <4>3. u[k] \in Entries /\ u[k].purge /\ Alike(e, u[k])
        BY <4>1, <4>2, Zenon
      <4> QED
        BY <4>3 DEF e
    <3> QED
      BY <2>1, <2>2, <3>2
  <2>3. CASE ~Matches(t[k], rr, page)
    <3>1. u[k] = t[k]
      BY <1>1, <2>3
    <3> QED
      BY <2>1, <2>3, <3>1 DEF Alike
  <2> QED
    BY <2>2, <2>3
<1>4. u \in Tables(n)
  BY <1>3 DEF Tables, Marked
<1>13. \A k \in 1 .. n : Alike(t[k], u[k])
  BY <1>3, Zenon
<1>15. \A k \in 1 .. n : u[k].purge <=> (t[k].purge \/ Matches(t[k], rr, page))
  BY <1>3, Zenon
<1> HIDE DEF u
<1>5. MarksOf(u, n) = MarksOf(t, n) \cup N /\ MarksOf(t, n) \cap N = {}
  <2>1. \A k \in 1 .. n : u[k].purge <=> (t[k].purge \/ k \in N)
    BY <1>15
  <2>2. N \subseteq 1 .. n /\ \A k \in N : ~t[k].purge
    OBVIOUS
  <2> HIDE DEF N
  <2> QED
    BY <2>1, <2>2 DEF MarksOf
<1>6. N \in SUBSET (1 .. n) /\ IsFiniteSet(1 .. n)
  BY FS_Interval
<1>7. IsFiniteSet(N)
  BY <1>6, FS_Subset
<1>8. Cardinality(N) \in Nat
  BY <1>7, FS_CardinalityType
<1>9. NewMarks(t, n, page) = Cardinality(N)
  BY DEF NewMarks
<1> HIDE DEF N
<1>10. IsFiniteSet(MarksOf(t, n)) /\ Pending(t, n) \in Nat /\ Pending(t, n) = Cardinality(MarksOf(t, n))
       /\ Pending(u, n) = Cardinality(MarksOf(u, n))
  BY MarksFinite
<1>11. Cardinality(MarksOf(t, n) \cup N) = Cardinality(MarksOf(t, n)) + Cardinality(N) - Cardinality({})
  BY <1>5, <1>7, <1>10, FS_Union
<1>12. Cardinality({}) = 0
  BY FS_EmptySet
<1>14. Pending(u, n) = Pending(t, n) + Cardinality(N)
  BY <1>5, <1>8, <1>10, <1>11, <1>12
<1> QED
  BY <1>4, <1>8, <1>9, <1>13, <1>14 DEF u

LEMMA PurgedTyped ==
  ASSUME NEW n \in Nat, NEW t \in Tables(n)
  PROVE  /\ Purged(t, n) \in Tables(n) /\ Pending(Purged(t, n), n) = 0
         /\ Pending(t, n) = 0 => Purged(t, n) = t
<1> DEFINE u == Purged(t, n)
<1>1. \A k \in 1 .. n : t[k] \in Entries
  BY DEF Tables
<1>2. \A k \in 1 .. n : u[k] \in Entries /\ ~u[k].purge
  BY <1>1, EntriesChanged DEF Purged
<1>3. u \in Tables(n)
  BY <1>2 DEF Tables, Purged
<1>4. Pending(u, n) = 0
  <2> HIDE DEF u
  <2>1. MarksOf(u, n) = {}
    BY <1>2 DEF MarksOf
  <2> QED
    BY <2>1, MarksFinite, FS_EmptySet
<1>5. ASSUME Pending(t, n) = 0 PROVE u = t
  <2>1. MarksOf(t, n) = {}
    BY <1>5, MarksFinite, FS_EmptySet
  <2>2. \A k \in 1 .. n : ~t[k].purge
    BY <2>1 DEF MarksOf
  <2>3. u = [k \in 1 .. n |-> t[k]]
    BY <2>2 DEF Purged
  <2> QED
    BY <2>3 DEF Tables
<1> QED
  BY <1>3, <1>4, <1>5

\* The marks of all tables.
Waiting(T, C) == Pending(T["i"], NTr) + Pending(C["i"], NTc) + Pending(T["d"], NTr) + Pending(C["d"], NTc)

AllTr == [Sides -> Tables(NTr)]
AllTc == [Sides -> Tables(NTc)]

LEMMA WaitingTyped ==
  ASSUME NEW T \in AllTr, NEW C \in AllTc
  PROVE  /\ Waiting(T, C) \in Nat
         /\ \A s \in Sides : Pending(T[s], NTr) \in Nat /\ Pending(C[s], NTc) \in Nat
<1>1. NTr \in Nat /\ NTc \in Nat
  BY MmuSizes
<1>2. \A s : Pending(T[s], NTr) \in Nat /\ Pending(C[s], NTc) \in Nat
  BY <1>1, MarksFinite
<1> QED
  BY <1>2 DEF Waiting

LEMMA WaitingOfSide ==
  ASSUME NEW T \in AllTr, NEW C \in AllTc, NEW U \in AllTr, NEW D \in AllTc,
         NEW s \in Sides, NEW m \in Nat,
         \A o \in Sides \ {s} : U[o] = T[o] /\ D[o] = C[o],
         Pending(U[s], NTr) + Pending(D[s], NTc) <= Pending(T[s], NTr) + Pending(C[s], NTc) + m
  PROVE  Waiting(U, D) <= Waiting(T, C) + m
<1>1. \A o \in Sides : /\ Pending(T[o], NTr) \in Nat /\ Pending(C[o], NTc) \in Nat
                       /\ Pending(U[o], NTr) \in Nat /\ Pending(D[o], NTc) \in Nat
  BY WaitingTyped
<1>2. s = "i" \/ s = "d"
  BY DEF Sides
<1>3. "i" \in Sides /\ "d" \in Sides
  BY DEF Sides
<1>4. CASE s = "i"
  <2>1. Pending(U["d"], NTr) = Pending(T["d"], NTr) /\ Pending(D["d"], NTc) = Pending(C["d"], NTc)
    BY <1>3, <1>4
  <2> QED
    BY <1>1, <1>3, <1>4, <2>1 DEF Waiting
<1>5. CASE s = "d"
  <2>1. Pending(U["i"], NTr) = Pending(T["i"], NTr) /\ Pending(D["i"], NTc) = Pending(C["i"], NTc)
    BY <1>3, <1>5
  <2> QED
    BY <1>1, <1>3, <1>5, <2>1 DEF Waiting
<1> QED
  BY <1>2, <1>4, <1>5

\* A table whose entry is replaced by one without a mark.
LEMMA ReplacedTable ==
  ASSUME NEW n \in Nat, NEW t \in Tables(n), NEW k \in 1 .. n, NEW e \in Entries, ~e.purge
  PROVE  /\ [t EXCEPT ![k] = e] \in Tables(n)
         /\ Pending([t EXCEPT ![k] = e], n) <= Pending(t, n)
         /\ t[k].purge => Pending([t EXCEPT ![k] = e], n) = Pending(t, n) - 1
<1> DEFINE u == [t EXCEPT ![k] = e]
<1>1. u \in Tables(n) /\ u[k] = e /\ \A j \in 1 .. n : j # k => u[j] = t[j]
  BY DEF Tables
<1> HIDE DEF u
<1>2. MarksOf(u, n) = MarksOf(t, n) \ {k}
  BY <1>1 DEF MarksOf
<1>3. k \in MarksOf(t, n) <=> t[k].purge
  BY DEF MarksOf
<1>4. IsFiniteSet(MarksOf(t, n)) /\ Pending(t, n) \in Nat /\ Pending(t, n) = Cardinality(MarksOf(t, n))
      /\ Pending(u, n) = Cardinality(MarksOf(u, n))
  BY MarksFinite
<1>5. Cardinality(MarksOf(u, n)) = IF k \in MarksOf(t, n) THEN Cardinality(MarksOf(t, n)) - 1
                                   ELSE Cardinality(MarksOf(t, n))
  BY <1>2, <1>4, FS_RemoveElement
<1>6. Pending(u, n) <= Pending(t, n) /\ (t[k].purge => Pending(u, n) = Pending(t, n) - 1)
  BY <1>3, <1>4, <1>5
<1> QED
  BY <1>1, <1>6 DEF u

\* A table whose entry is replaced by any other has one mark more at most.
LEMMA ReplacedByMark ==
  ASSUME NEW n \in Nat, NEW t \in Tables(n), NEW k \in 1 .. n, NEW e \in Entries
  PROVE  /\ [t EXCEPT ![k] = e] \in Tables(n)
         /\ Pending([t EXCEPT ![k] = e], n) <= Pending(t, n) + (IF e.purge THEN 1 ELSE 0)
<1> DEFINE u == [t EXCEPT ![k] = e]
<1>1. u \in Tables(n) /\ u[k] = e /\ \A j \in 1 .. n : j # k => u[j] = t[j]
  BY DEF Tables
<1>2. CASE ~e.purge
  <2>1. Pending(u, n) <= Pending(t, n) /\ Pending(u, n) \in Nat /\ Pending(t, n) \in Nat
    BY <1>2, ReplacedTable, MarksFinite
  <2> HIDE DEF u
  <2> QED
    BY <1>1, <1>2, <2>1 DEF u
<1>3. CASE e.purge
  <2> HIDE DEF u
  <2>1. MarksOf(u, n) \in SUBSET (MarksOf(t, n) \cup {k})
    BY <1>1 DEF MarksOf
  <2>2. IsFiniteSet(MarksOf(t, n)) /\ Pending(t, n) \in Nat /\ Pending(t, n) = Cardinality(MarksOf(t, n))
        /\ Pending(u, n) = Cardinality(MarksOf(u, n)) /\ Pending(u, n) \in Nat
    BY MarksFinite
  <2>3. /\ IsFiniteSet(MarksOf(t, n) \cup {k})
        /\ Cardinality(MarksOf(t, n) \cup {k}) = IF k \in MarksOf(t, n) THEN Cardinality(MarksOf(t, n))
                                                 ELSE Cardinality(MarksOf(t, n)) + 1
    BY <2>2, FS_AddElement
  <2>4. Cardinality(MarksOf(u, n)) <= Cardinality(MarksOf(t, n) \cup {k})
    BY <2>1, <2>3, FS_Subset
  <2>5. Pending(u, n) <= Pending(t, n) + 1
    BY <2>2, <2>3, <2>4
  <2> QED
    BY <1>1, <1>3, <2>5 DEF u
<1> QED
  BY <1>2, <1>3

LEMMA DroppedTable ==
  ASSUME NEW t \in Tables(NTc), NEW page
  PROVE  Dropped(t, page) \in Tables(NTc) /\ Pending(Dropped(t, page), NTc) <= Pending(t, NTc)
<1> DEFINE u == Dropped(t, page)
<1>0. NTc \in Nat
  BY MmuSizes
<1>1. \A k \in 1 .. NTc : /\ u[k] \in Entries
                          /\ u[k].purge = t[k].purge
  BY EntriesChanged DEF Dropped, Tables
<1>2. u \in Tables(NTc)
  BY <1>1 DEF Dropped, Tables
<1> HIDE DEF u
<1>3. Pending(u, NTc) <= Pending(t, NTc)
  BY <1>0, <1>1, FewerMarks
<1> QED
  BY <1>2, <1>3 DEF u

PteRecs == [rid : MmuRids, frame : MmuFrames, use : Uses]

LEMMA InsertedTyped ==
  ASSUME tr \in AllTr, tc \in AllTc, tcNext \in [Sides -> Nat], rr \in MmuRids,
         NEW s \in Sides, NEW page \in MmuPages, NEW pte, pte.frame \in MmuFrames, pte.use \in Uses,
         InsertTc(s, page, pte)
  PROVE  /\ tc' \in AllTc /\ tcNext' \in [Sides -> Nat]
         /\ \A o \in Sides \ {s} : tc'[o] = tc[o]
         /\ Waiting(tr, tc') <= Waiting(tr, tc)
<1> DEFINE e == TlbEntry(page, pte)
           t == Dropped(tc[s], page)
           u == [t EXCEPT ![NextTc(s)] = e]
<1>1. e \in Entries /\ ~e.purge
  BY DEF TlbEntry, Entries
<1>2. NTc \in Nat \ {0} /\ NTr \in Nat /\ tcNext[s] \in Nat
  BY MmuSizes
<1>3. NextTc(s) \in 1 .. NTc
  BY <1>2 DEF NextTc
<1>4. tc[s] \in Tables(NTc)
  BY DEF AllTc
<1>5. t \in Tables(NTc) /\ Pending(t, NTc) <= Pending(tc[s], NTc)
  BY <1>4, DroppedTable
<1> HIDE DEF e, t
<1>6. u \in Tables(NTc) /\ Pending(u, NTc) <= Pending(t, NTc)
  BY <1>1, <1>2, <1>3, <1>5, ReplacedTable
<1>7. tc' = [tc EXCEPT ![s] = u]
  BY DEF InsertTc, e, t, AllTc
<1>8. tcNext' \in [Sides -> Nat]
  BY <1>2 DEF InsertTc
<1> HIDE DEF u
<1>9. tc' \in AllTc /\ tc'[s] = u /\ \A o \in Sides \ {s} : tc'[o] = tc[o]
  BY <1>6, <1>7 DEF AllTc
<1>10. Pending(u, NTc) \in Nat /\ Pending(t, NTc) \in Nat /\ Pending(tc[s], NTc) \in Nat
       /\ Pending(tr[s], NTr) \in Nat
  BY <1>2, MarksFinite
<1>11. Pending(tr[s], NTr) + Pending(tc'[s], NTc) <= Pending(tr[s], NTr) + Pending(tc[s], NTc) + 0
  BY <1>5, <1>6, <1>9, <1>10
<1>12. Waiting(tr, tc') <= Waiting(tr, tc) + 0
  BY <1>9, <1>11, WaitingOfSide
<1>13. Waiting(tr, tc) \in Nat /\ Waiting(tr, tc') \in Nat
  BY <1>9, WaitingTyped
<1> QED
  BY <1>8, <1>9, <1>12, <1>13

----------------------------------------------------------------------------
XlateRecs == Empties \cup [valid : {TRUE}, purge : {FALSE}, side : Sides, cpl : {0, 3}, dt : BOOLEAN,
                           rr : MmuRids, frame : MmuFrames]
TbRecs == Empties \cup [valid : {TRUE}, purge : {FALSE}, frame : MmuFrames, word : Int]
BundleRecs == [valid : BOOLEAN, current : BOOLEAN, page : MmuPages \cup {0},
               frame : MmuFrames \cup {0}, word : Int]

\* A cached page is what it was made under gives.
XlateSound(x, T, C, key, r) ==
  /\ x \in [MmuPages -> XlateRecs]
  /\ \A p \in MmuPages : x[p].valid =>
        x[p].frame = Translation(T, C, key, r, x[p].side, x[p].cpl, x[p].dt, p)

WordsSound(b, x, m) ==
  /\ b \in BundleRecs /\ x \in [MmuPages -> TbRecs] /\ m \in [MmuFrames -> Int]
  /\ b.valid => b.frame \in MmuFrames /\ b.word = m[b.frame]
  /\ \A p \in MmuPages : x[p].valid => x[p].word = m[x[p].frame]

FetchSound(x, T, C, key, r, c, d) ==
  \A p \in MmuPages : x[p].valid => x[p].frame = Translation(T, C, key, r, "i", c, d, p)

MmuTyped ==
  /\ tr \in AllTr /\ tc \in AllTc /\ tcNext \in [Sides -> Nat]
  /\ rr \in MmuRids /\ cpl \in {0, 3} /\ dt \in BOOLEAN /\ keyOk \in BOOLEAN
  /\ vhpt \in [MmuPages -> PteRecs] /\ unserialized \in BOOLEAN

MmuInv ==
  /\ MmuTyped
  /\ XlateSound(xlate, tr, tc, keyOk, rr)
  /\ WordsSound(bundle, tb, code)
  /\ ~unserialized => FetchSound(tb, tr, tc, keyOk, rr, cpl, dt)
  /\ purges \in Int /\ Waiting(tr, tc) <= purges

LEMMA EmptyCaches ==
  ASSUME NEW x, x = [p \in MmuPages |-> None]
  PROVE  /\ x \in [MmuPages -> XlateRecs] /\ x \in [MmuPages -> TbRecs]
         /\ \A p \in MmuPages : ~x[p].valid
BY DEF None, XlateRecs, TbRecs, Empties

LEMMA MmuStart == MmuInit => MmuInv
<1> SUFFICES ASSUME MmuInit PROVE MmuInv
  OBVIOUS
<1>0. NTr \in Nat /\ NTc \in Nat
  BY MmuSizes
<1>1. rr \in MmuRids
  BY MmuSizes, Zenon DEF MmuInit
<1>2. tr \in AllTr /\ tc \in AllTc
  BY EntriesTyped DEF MmuInit, AllTr, AllTc, Tables
<1>3. vhpt \in [MmuPages -> PteRecs]
  BY <1>1, MmuSizes DEF MmuInit, PteRecs, Uses
<1>4. MmuTyped
  BY <1>1, <1>2, <1>3 DEF MmuInit, MmuTyped
<1>5. XlateSound(xlate, tr, tc, keyOk, rr)
  BY EmptyCaches DEF MmuInit, XlateSound
<1>6. WordsSound(bundle, tb, code)
  BY EmptyCaches DEF MmuInit, WordsSound, BundleRecs
<1>7. FetchSound(tb, tr, tc, keyOk, rr, cpl, dt)
  BY EmptyCaches DEF MmuInit, FetchSound
<1>8. purges \in Int /\ Waiting(tr, tc) <= purges
  <2>1. \A s \in Sides : MarksOf(tr[s], NTr) = {} /\ MarksOf(tc[s], NTc) = {}
    BY EntriesTyped DEF MmuInit, MarksOf
  <2>2. \A s \in Sides : Pending(tr[s], NTr) = 0 /\ Pending(tc[s], NTc) = 0
    BY <1>0, <2>1, MarksFinite, FS_EmptySet
  <2> QED
    BY <2>2 DEF Waiting, Sides, MmuInit
<1> QED
  BY <1>4, <1>5, <1>6, <1>7, <1>8 DEF MmuInv

\* A step that empties the page cache and waits for serialization.
LEMMA FlushStep ==
  ASSUME MmuInv, MmuTyped', XlateFlush, unserialized' = TRUE,
         tb' = tb, bundle' = bundle, code' = code,
         purges' \in Int, Waiting(tr', tc') <= purges'
  PROVE  MmuInv'
<1>1. XlateSound(xlate', tr', tc', keyOk', rr')
  BY EmptyCaches DEF XlateFlush, XlateSound
<1> QED
  BY <1>1 DEF MmuInv

LEMMA ItcStep == MmuInv /\ MmuItc => MmuInv'
<1> SUFFICES ASSUME MmuInv, MmuItc PROVE MmuInv'
  OBVIOUS
<1>1. PICK s \in Sides, page \in MmuPages, pte \in Ptes : InsertTc(s, page, pte)
  BY DEF MmuItc
<1>2. /\ XlateFlush /\ unserialized' = TRUE /\ tr' = tr /\ purges' = purges /\ rr' = rr /\ cpl' = cpl
      /\ dt' = dt /\ keyOk' = keyOk /\ vhpt' = vhpt /\ tb' = tb /\ bundle' = bundle /\ code' = code
  BY DEF MmuItc
<1>3. /\ tr \in AllTr /\ tc \in AllTc /\ tcNext \in [Sides -> Nat] /\ rr \in MmuRids
      /\ purges \in Int /\ Waiting(tr, tc) <= purges
  BY DEF MmuInv, MmuTyped
<1>4. pte.frame \in MmuFrames /\ pte.use \in Uses
  BY DEF Ptes, Uses
<1>5. tc' \in AllTc /\ tcNext' \in [Sides -> Nat] /\ Waiting(tr, tc') <= Waiting(tr, tc)
  BY <1>1, <1>3, <1>4, InsertedTyped
<1>6. Waiting(tr, tc) \in Nat /\ Waiting(tr, tc') \in Nat
  BY <1>3, <1>5, WaitingTyped
<1>7. purges' \in Int /\ Waiting(tr', tc') <= purges'
  BY <1>2, <1>3, <1>5, <1>6
<1>8. MmuTyped'
  BY <1>2, <1>5 DEF MmuInv, MmuTyped
<1> QED
  BY <1>2, <1>7, <1>8, FlushStep

LEMMA ItrStep == MmuInv /\ MmuItr => MmuInv'
<1> SUFFICES ASSUME MmuInv, MmuItr PROVE MmuInv'
  OBVIOUS
<1>1. PICK s \in Sides, n \in 1 .. NTr, page \in MmuPages, pte \in Ptes :
        /\ pte.use # "none"
        /\ \A k \in (1 .. NTr) \ {n} : ~Matches(tr[s][k], rr, page)
        /\ tr' = [tr EXCEPT ![s][n] = TlbEntry(page, pte)]
        /\ LET stays == IF tr[s][n].valid THEN [tc[s] EXCEPT ![NextTc(s)] = tr[s][n]] ELSE tc[s]
           IN  tc' = [tc EXCEPT ![s] = Dropped(stays, page)]
        /\ tcNext' = [tcNext EXCEPT ![s] = IF tr[s][n].valid THEN (@ + 1) % NTc ELSE @]
        /\ XlateFlush
        /\ unserialized' = TRUE
        /\ UNCHANGED <<purges, rr, cpl, dt, keyOk, vhpt, tb, bundle, code>>
  BY Zenon DEF MmuItr
<1>2. /\ XlateFlush /\ unserialized' = TRUE /\ purges' = purges /\ rr' = rr /\ cpl' = cpl
      /\ dt' = dt /\ keyOk' = keyOk /\ vhpt' = vhpt /\ tb' = tb /\ bundle' = bundle /\ code' = code
  BY DEF MmuItr
<1>3. /\ tr \in AllTr /\ tc \in AllTc /\ tcNext \in [Sides -> Nat] /\ rr \in MmuRids
      /\ purges \in Int /\ Waiting(tr, tc) <= purges
  BY DEF MmuInv, MmuTyped
<1>4. NTc \in Nat \ {0} /\ NTr \in Nat /\ tcNext[s] \in Nat
  BY <1>3, MmuSizes
<1> DEFINE e == TlbEntry(page, pte)
           old == tr[s][n]
           stays == IF old.valid THEN [tc[s] EXCEPT ![NextTc(s)] = old] ELSE tc[s]
           one == IF old.purge THEN 1 ELSE 0
<1>5. e \in Entries /\ ~e.purge
  BY <1>3 DEF TlbEntry, Entries, Ptes, Uses
<1>6. tr[s] \in Tables(NTr) /\ tc[s] \in Tables(NTc) /\ old \in Entries
  BY <1>3 DEF AllTr, AllTc, Tables
<1>7. tr' = [tr EXCEPT ![s] = [tr[s] EXCEPT ![n] = e]]
  BY <1>1, <1>3 DEF AllTr
<1>8. NextTc(s) \in 1 .. NTc
  BY <1>4 DEF NextTc
<1>9. tc' = [tc EXCEPT ![s] = Dropped(stays, page)]
  BY <1>1
<1> HIDE DEF e, old
<1>10. /\ [tr[s] EXCEPT ![n] = e] \in Tables(NTr)
       /\ Pending([tr[s] EXCEPT ![n] = e], NTr) <= Pending(tr[s], NTr)
       /\ old.purge => Pending([tr[s] EXCEPT ![n] = e], NTr) = Pending(tr[s], NTr) - 1
  BY <1>4, <1>5, <1>6, ReplacedTable DEF old
<1>11. stays \in Tables(NTc) /\ Pending(stays, NTc) <= Pending(tc[s], NTc) + one
  <2>1. /\ [tc[s] EXCEPT ![NextTc(s)] = old] \in Tables(NTc)
        /\ Pending([tc[s] EXCEPT ![NextTc(s)] = old], NTc) <= Pending(tc[s], NTc) + one
    BY <1>4, <1>6, <1>8, ReplacedByMark
  <2>2. Pending(tc[s], NTc) \in Nat
    BY <1>4, MarksFinite
  <2> QED
    BY <1>6, <2>1, <2>2
<1> HIDE DEF stays
<1>12. Dropped(stays, page) \in Tables(NTc) /\ Pending(Dropped(stays, page), NTc) <= Pending(stays, NTc)
  BY <1>11, DroppedTable
<1>13. /\ tr' \in AllTr /\ tr'[s] = [tr[s] EXCEPT ![n] = e] /\ \A o \in Sides \ {s} : tr'[o] = tr[o]
  BY <1>3, <1>7, <1>10 DEF AllTr
<1>14. /\ tc' \in AllTc /\ tc'[s] = Dropped(stays, page) /\ \A o \in Sides \ {s} : tc'[o] = tc[o]
  BY <1>3, <1>9, <1>12 DEF AllTc
<1>15. /\ Pending(tr[s], NTr) \in Nat /\ Pending(tc[s], NTc) \in Nat /\ Pending(stays, NTc) \in Nat
       /\ Pending(tr'[s], NTr) \in Nat /\ Pending(tc'[s], NTc) \in Nat
  BY <1>4, MarksFinite
<1>16. Pending(tr'[s], NTr) + Pending(tc'[s], NTc) <= Pending(tr[s], NTr) + Pending(tc[s], NTc) + 0
  <2>1. Pending(tr'[s], NTr) <= Pending(tr[s], NTr) - one
    BY <1>10, <1>13, <1>15
  <2>2. Pending(tc'[s], NTc) <= Pending(tc[s], NTc) + one
    BY <1>11, <1>12, <1>14, <1>15
  <2> QED
    BY <1>15, <2>1, <2>2
<1>17. Waiting(tr', tc') <= Waiting(tr, tc) + 0
  BY <1>3, <1>13, <1>14, <1>16, WaitingOfSide
<1>18. Waiting(tr, tc) \in Nat /\ Waiting(tr', tc') \in Nat
  BY <1>3, <1>13, <1>14, WaitingTyped
<1>19. purges' \in Int /\ Waiting(tr', tc') <= purges'
  BY <1>2, <1>3, <1>17, <1>18
<1>20. tcNext' \in [Sides -> Nat]
  BY <1>1, <1>3, <1>4 DEF old
<1>21. MmuTyped'
  BY <1>2, <1>13, <1>14, <1>20 DEF MmuInv, MmuTyped
<1> QED
  BY <1>2, <1>19, <1>21, FlushStep

\* Marking entries changes no translation.
LEMMA MarkStep ==
  ASSUME MmuInv, MmuTyped', unserialized' = TRUE, xlate' = xlate, tb' = tb, bundle' = bundle,
         code' = code, keyOk' = keyOk, rr' = rr, purges' \in Int, Waiting(tr', tc') <= purges',
         \A s \in Sides : /\ \A k \in 1 .. NTr : Alike(tr[s][k], tr'[s][k])
                          /\ \A k \in 1 .. NTc : Alike(tc[s][k], tc'[s][k])
  PROVE  MmuInv'
<1>1. tr \in AllTr /\ tc \in AllTc /\ tr' \in AllTr /\ tc' \in AllTc
  BY DEF MmuInv, MmuTyped
<1>2. XlateSound(xlate, tr', tc', keyOk, rr)
  <2> SUFFICES ASSUME NEW p \in MmuPages, xlate[p].valid
               PROVE  xlate[p].frame =
                        Translation(tr', tc', keyOk, rr, xlate[p].side, xlate[p].cpl, xlate[p].dt, p)
    BY DEF MmuInv, XlateSound
  <2> DEFINE x == xlate[p]
  <2>1. /\ x.side \in Sides
        /\ x.frame = Translation(tr, tc, keyOk, rr, x.side, x.cpl, x.dt, p)
    BY DEF MmuInv, XlateSound, XlateRecs, Empties
  <2> DEFINE s == x.side
             c == x.cpl
             d == x.dt
  <2> HIDE DEF s, c, d
  <2>2. s \in Sides
    BY <2>1 DEF s
  <2>3. \A key, r, k, l, page :
          Translation(tr, tc, key, r, s, k, l, page) = Translation(tr', tc', key, r, s, k, l, page)
    <3>1. \A k \in 1 .. NTr : Alike(tr[s][k], tr'[s][k])
      BY <2>2
    <3>2. \A k \in 1 .. NTc : Alike(tc[s][k], tc'[s][k])
      BY <2>2
    <3>3. /\ tr \in [Sides -> Tables(NTr)] /\ tc \in [Sides -> Tables(NTc)]
          /\ tr' \in [Sides -> Tables(NTr)] /\ tc' \in [Sides -> Tables(NTc)]
      BY <1>1 DEF AllTr, AllTc
    <3> QED
      BY <2>2, <3>1, <3>2, <3>3, TranslationAlike, SMTT(200)
  <2> QED
    BY <2>1, <2>3, ZenonT(60) DEF s, c, d
<1> QED
  BY <1>2 DEF MmuInv

LEMMA PtcStep == MmuInv /\ MmuPtc => MmuInv'
<1> SUFFICES ASSUME MmuInv, MmuPtc PROVE MmuInv'
  OBVIOUS
<1>1. PICK page \in MmuPages :
        /\ tc' = [s \in Sides |-> Marked(tc[s], NTc, page)]
        /\ purges' = purges + NewMarks(tc["i"], NTc, page) + NewMarks(tc["d"], NTc, page)
  BY DEF MmuPtc
<1>2. /\ unserialized' = TRUE /\ tr' = tr /\ tcNext' = tcNext /\ rr' = rr /\ cpl' = cpl
      /\ dt' = dt /\ keyOk' = keyOk /\ vhpt' = vhpt /\ tb' = tb /\ bundle' = bundle /\ code' = code
      /\ xlate' = xlate
  BY DEF MmuPtc
<1>3. /\ tr \in AllTr /\ tc \in AllTc /\ purges \in Int /\ Waiting(tr, tc) <= purges
  BY DEF MmuInv, MmuTyped
<1>4. NTc \in Nat /\ NTr \in Nat /\ "i" \in Sides /\ "d" \in Sides
  BY MmuSizes DEF Sides
<1>5. \A s \in Sides :
        /\ Pending(tc'[s], NTc) = Pending(tc[s], NTc) + NewMarks(tc[s], NTc, page)
        /\ NewMarks(tc[s], NTc, page) \in Nat
        /\ tc'[s] \in Tables(NTc) /\ \A k \in 1 .. NTc : Alike(tc[s][k], tc'[s][k])
  <2> SUFFICES ASSUME NEW s \in Sides
               PROVE  /\ Pending(tc'[s], NTc) = Pending(tc[s], NTc) + NewMarks(tc[s], NTc, page)
                      /\ NewMarks(tc[s], NTc, page) \in Nat
                      /\ tc'[s] \in Tables(NTc) /\ \A k \in 1 .. NTc : Alike(tc[s][k], tc'[s][k])
    OBVIOUS
  <2>1. tc'[s] = Marked(tc[s], NTc, page) /\ tc[s] \in Tables(NTc)
    BY <1>1, <1>3 DEF AllTc
  <2> QED
    BY <1>4, <2>1, MoreMarks
<1>6. tc' \in AllTc
  BY <1>1, <1>5 DEF AllTc
<1>7. \A s \in Sides : Pending(tr[s], NTr) \in Nat /\ Pending(tc[s], NTc) \in Nat
  BY <1>3, WaitingTyped
<1>8. purges' \in Int /\ Waiting(tr', tc') <= purges'
  BY <1>1, <1>2, <1>3, <1>4, <1>5, <1>7 DEF Waiting
<1>9. MmuTyped'
  BY <1>2, <1>6 DEF MmuInv, MmuTyped
<1>10. \A s \in Sides : \A k \in 1 .. NTr : Alike(tr[s][k], tr'[s][k])
  BY <1>2 DEF Alike
<1> QED
  BY <1>2, <1>5, <1>8, <1>9, <1>10, MarkStep

LEMMA PtrStep == MmuInv /\ MmuPtr => MmuInv'
<1> SUFFICES ASSUME MmuInv, MmuPtr PROVE MmuInv'
  OBVIOUS
<1>1. PICK s \in Sides, page \in MmuPages :
        /\ tr' = [tr EXCEPT ![s] = Marked(@, NTr, page)]
        /\ tc' = [tc EXCEPT ![s] = Marked(@, NTc, page)]
        /\ purges' = purges + NewMarks(tr[s], NTr, page) + NewMarks(tc[s], NTc, page)
  BY DEF MmuPtr
<1>2. /\ unserialized' = TRUE /\ tcNext' = tcNext /\ rr' = rr /\ cpl' = cpl
      /\ dt' = dt /\ keyOk' = keyOk /\ vhpt' = vhpt /\ tb' = tb /\ bundle' = bundle /\ code' = code
      /\ xlate' = xlate
  BY DEF MmuPtr
<1>3. /\ tr \in AllTr /\ tc \in AllTc /\ purges \in Int /\ Waiting(tr, tc) <= purges
  BY DEF MmuInv, MmuTyped
<1>4. NTc \in Nat /\ NTr \in Nat
  BY MmuSizes
<1>5. tr[s] \in Tables(NTr) /\ tc[s] \in Tables(NTc)
  BY <1>3 DEF AllTr, AllTc
<1> DEFINE t == Marked(tr[s], NTr, page)
           u == Marked(tc[s], NTc, page)
           m == NewMarks(tr[s], NTr, page) + NewMarks(tc[s], NTc, page)
<1>6. /\ Pending(t, NTr) = Pending(tr[s], NTr) + NewMarks(tr[s], NTr, page)
      /\ NewMarks(tr[s], NTr, page) \in Nat
      /\ t \in Tables(NTr) /\ \A k \in 1 .. NTr : Alike(tr[s][k], t[k])
  BY <1>4, <1>5, MoreMarks
<1>7. /\ Pending(u, NTc) = Pending(tc[s], NTc) + NewMarks(tc[s], NTc, page)
      /\ NewMarks(tc[s], NTc, page) \in Nat
      /\ u \in Tables(NTc) /\ \A k \in 1 .. NTc : Alike(tc[s][k], u[k])
  BY <1>4, <1>5, MoreMarks
<1> HIDE DEF t, u
<1>8. /\ tr' \in AllTr /\ tr'[s] = t /\ \A o \in Sides \ {s} : tr'[o] = tr[o]
  BY <1>1, <1>3, <1>6 DEF AllTr, t
<1>9. /\ tc' \in AllTc /\ tc'[s] = u /\ \A o \in Sides \ {s} : tc'[o] = tc[o]
  BY <1>1, <1>3, <1>7 DEF AllTc, u
<1>10. m \in Nat
  BY <1>6, <1>7
<1>11. Pending(tr'[s], NTr) + Pending(tc'[s], NTc) <= Pending(tr[s], NTr) + Pending(tc[s], NTc) + m
  <2>1. Pending(tr[s], NTr) \in Nat /\ Pending(tc[s], NTc) \in Nat
    BY <1>4, MarksFinite
  <2> QED
    BY <1>6, <1>7, <1>8, <1>9, <2>1
<1>12. purges' = purges + m
  BY <1>1, <1>3, <1>6, <1>7
<1> HIDE DEF m
<1>13. Waiting(tr', tc') <= Waiting(tr, tc) + m
  BY <1>3, <1>8, <1>9, <1>10, <1>11, WaitingOfSide
<1>14. Waiting(tr, tc) \in Nat /\ Waiting(tr', tc') \in Nat
  BY <1>3, <1>8, <1>9, WaitingTyped
<1>15. purges' \in Int /\ Waiting(tr', tc') <= purges'
  BY <1>3, <1>10, <1>12, <1>13, <1>14
<1>16. MmuTyped'
  BY <1>2, <1>8, <1>9 DEF MmuInv, MmuTyped
<1>17. \A o \in Sides : /\ \A k \in 1 .. NTr : Alike(tr[o][k], tr'[o][k])
                        /\ \A k \in 1 .. NTc : Alike(tc[o][k], tc'[o][k])
  <2> SUFFICES ASSUME NEW o \in Sides
               PROVE  /\ \A k \in 1 .. NTr : Alike(tr[o][k], tr'[o][k])
                      /\ \A k \in 1 .. NTc : Alike(tc[o][k], tc'[o][k])
    OBVIOUS
  <2>1. CASE o = s
    BY <1>6, <1>7, <1>8, <1>9, <2>1
  <2>2. CASE o # s
    BY <1>8, <1>9, <2>2 DEF Alike
  <2> QED
    BY <2>1, <2>2
<1> QED
  BY <1>2, <1>15, <1>16, <1>17, MarkStep

LEMMA OtherFlushSteps == MmuInv /\ (MmuPtcE \/ MmuMovRr \/ MmuMovPkr) => MmuInv'
<1> SUFFICES ASSUME MmuInv, MmuPtcE \/ MmuMovRr \/ MmuMovPkr PROVE MmuInv'
  OBVIOUS
<1>1. /\ XlateFlush /\ unserialized' = TRUE /\ purges' = purges /\ cpl' = cpl /\ tr' = tr
      /\ dt' = dt /\ vhpt' = vhpt /\ tb' = tb /\ bundle' = bundle /\ code' = code /\ tcNext' = tcNext
  BY DEF MmuPtcE, MmuMovRr, MmuMovPkr
<1>2. /\ tr \in AllTr /\ tc \in AllTc /\ purges \in Int /\ Waiting(tr, tc) <= purges
      /\ rr \in MmuRids /\ keyOk \in BOOLEAN
  BY DEF MmuInv, MmuTyped
<1>3. rr' \in MmuRids /\ keyOk' \in BOOLEAN
  BY <1>2 DEF MmuPtcE, MmuMovRr, MmuMovPkr
<1>4. NTc \in Nat /\ NTr \in Nat /\ "i" \in Sides /\ "d" \in Sides
  BY MmuSizes DEF Sides
<1>5. tc' \in AllTc /\ Waiting(tr, tc') <= purges
  <2>1. CASE MmuPtcE
    <3>1. tc' = [s \in Sides |-> [n \in 1 .. NTc |-> None]]
      BY <2>1 DEF MmuPtcE
    <3>2. tc' \in AllTc
      BY <3>1, EntriesTyped DEF AllTc, Tables
    <3>3. \A s \in Sides : MarksOf(tc'[s], NTc) = {}
      BY <3>1, EntriesTyped DEF MarksOf
    <3>4. \A s \in Sides : Pending(tc'[s], NTc) = 0
      BY <1>4, <3>3, MarksFinite, FS_EmptySet
    <3>5. \A s \in Sides : Pending(tr[s], NTr) \in Nat /\ Pending(tc[s], NTc) \in Nat
      BY <1>2, WaitingTyped
    <3> QED
      BY <1>2, <1>4, <3>2, <3>4, <3>5 DEF Waiting
  <2>2. CASE MmuMovRr \/ MmuMovPkr
    BY <1>2, <2>2 DEF MmuMovRr, MmuMovPkr
  <2> QED
    BY <2>1, <2>2
<1>6. MmuTyped'
  BY <1>1, <1>3, <1>5 DEF MmuInv, MmuTyped
<1> QED
  BY <1>1, <1>2, <1>5, <1>6, FlushStep

\* Completing purges of the sides in S: what they mark goes, and the cached
\* pages with it.
LEMMA Completed ==
  ASSUME MmuInv, NEW S \in SUBSET Sides, TlbCompletePending(S)
  PROVE  /\ tr' \in AllTr /\ tc' \in AllTc
         /\ purges' \in Int /\ Waiting(tr', tc') <= purges'
         /\ \/ XlateFlush
            \/ xlate' = xlate /\ tr' = tr /\ tc' = tc
         /\ \A s \in Sides \ S : tr'[s] = tr[s] /\ tc'[s] = tc[s]
<1>1. /\ tr \in AllTr /\ tc \in AllTc /\ purges \in Int /\ Waiting(tr, tc) <= purges
  BY DEF MmuInv, MmuTyped
<1>2. CASE purges = 0
  BY <1>1, <1>2 DEF TlbCompletePending
<1>3. CASE purges # 0
  <2> DEFINE Done(s) == Pending(tr[s], NTr) + Pending(tc[s], NTc)
             done == (IF "i" \in S THEN Done("i") ELSE 0) + (IF "d" \in S THEN Done("d") ELSE 0)
  <2>1. /\ tr' = [s \in Sides |-> IF s \in S THEN Purged(tr[s], NTr) ELSE tr[s]]
        /\ tc' = [s \in Sides |-> IF s \in S THEN Purged(tc[s], NTc) ELSE tc[s]]
        /\ purges' = purges - done
        /\ IF done > 0 THEN XlateFlush ELSE UNCHANGED xlate
    BY <1>3, Zenon DEF TlbCompletePending
  <2>2. NTc \in Nat /\ NTr \in Nat /\ "i" \in Sides /\ "d" \in Sides
    BY MmuSizes DEF Sides
  <2>3. \A s \in Sides : tr[s] \in Tables(NTr) /\ tc[s] \in Tables(NTc)
    BY <1>1 DEF AllTr, AllTc
  <2>4. \A s \in Sides :
          /\ Purged(tr[s], NTr) \in Tables(NTr) /\ Pending(Purged(tr[s], NTr), NTr) = 0
          /\ Pending(tr[s], NTr) = 0 => Purged(tr[s], NTr) = tr[s]
          /\ Purged(tc[s], NTc) \in Tables(NTc) /\ Pending(Purged(tc[s], NTc), NTc) = 0
          /\ Pending(tc[s], NTc) = 0 => Purged(tc[s], NTc) = tc[s]
    BY <2>2, <2>3, PurgedTyped
  <2>5. tr' \in AllTr /\ tc' \in AllTc
    BY <2>1, <2>3, <2>4 DEF AllTr, AllTc
  <2>6. \A s \in Sides : Pending(tr[s], NTr) \in Nat /\ Pending(tc[s], NTc) \in Nat
    BY <1>1, WaitingTyped
  <2>7. /\ Pending(tr'["i"], NTr) = IF "i" \in S THEN 0 ELSE Pending(tr["i"], NTr)
        /\ Pending(tc'["i"], NTc) = IF "i" \in S THEN 0 ELSE Pending(tc["i"], NTc)
        /\ Pending(tr'["d"], NTr) = IF "d" \in S THEN 0 ELSE Pending(tr["d"], NTr)
        /\ Pending(tc'["d"], NTc) = IF "d" \in S THEN 0 ELSE Pending(tc["d"], NTc)
    BY <2>1, <2>2, <2>4
  <2>8. done \in Nat
    BY <2>2, <2>6
  <2>9. Waiting(tr', tc') = Waiting(tr, tc) - done
    BY <2>2, <2>6, <2>7 DEF Waiting
  <2>10. Waiting(tr, tc) \in Nat
    BY <1>1, WaitingTyped
  <2>11. ASSUME ~(done > 0) PROVE tr' = tr /\ tc' = tc
    <3>1. \A s \in S : s \in {"i", "d"}
      BY DEF Sides
    <3>2. \A s \in S : Pending(tr[s], NTr) = 0 /\ Pending(tc[s], NTc) = 0
      BY <2>2, <2>6, <2>11, <3>1
    <3>3. tr' = [s \in Sides |-> tr[s]] /\ tc' = [s \in Sides |-> tc[s]]
      BY <2>1, <2>4, <3>2
    <3> QED
      BY <1>1, <3>3 DEF AllTr, AllTc
  <2> HIDE DEF done
  <2>12. purges' \in Int /\ Waiting(tr', tc') <= purges'
    BY <1>1, <2>1, <2>8, <2>9, <2>10
  <2>13. \/ XlateFlush
         \/ xlate' = xlate /\ tr' = tr /\ tc' = tc
    BY <2>1, <2>11
  <2>14. \A s \in Sides \ S : tr'[s] = tr[s] /\ tc'[s] = tc[s]
    BY <2>1
  <2> QED
    BY <2>5, <2>12, <2>13, <2>14
<1> QED
  BY <1>2, <1>3

LEMMA SrlzDStep == MmuInv /\ MmuSrlzD => MmuInv'
<1> SUFFICES ASSUME MmuInv, MmuSrlzD PROVE MmuInv'
  OBVIOUS
<1>1. /\ TlbCompletePending({"d"}) /\ tcNext' = tcNext /\ rr' = rr /\ cpl' = cpl /\ dt' = dt
      /\ keyOk' = keyOk /\ vhpt' = vhpt /\ tb' = tb /\ bundle' = bundle /\ code' = code
      /\ unserialized' = unserialized
  BY DEF MmuSrlzD
<1>2. {"d"} \in SUBSET Sides /\ "i" \in Sides \ {"d"} /\ "i" \in Sides
  BY DEF Sides
<1>3. /\ tr' \in AllTr /\ tc' \in AllTc
      /\ purges' \in Int /\ Waiting(tr', tc') <= purges'
      /\ \/ XlateFlush
         \/ xlate' = xlate /\ tr' = tr /\ tc' = tc
      /\ tr'["i"] = tr["i"] /\ tc'["i"] = tc["i"]
  BY <1>1, <1>2, Completed
<1>4. XlateSound(xlate', tr', tc', keyOk', rr')
  BY <1>1, <1>3, EmptyCaches DEF XlateFlush, XlateSound, MmuInv
<1>5. ~unserialized' => FetchSound(tb', tr', tc', keyOk', rr', cpl', dt')
  BY <1>1, <1>3 DEF MmuInv, FetchSound, Translation
<1>6. MmuTyped'
  BY <1>1, <1>3 DEF MmuInv, MmuTyped
<1> QED
  BY <1>1, <1>3, <1>4, <1>5, <1>6 DEF MmuInv

LEMMA SrlzIStep == MmuInv /\ MmuSrlzI => MmuInv'
<1> SUFFICES ASSUME MmuInv, MmuSrlzI PROVE MmuInv'
  OBVIOUS
<1>1. /\ TlbCompletePending({"i", "d"}) /\ tcNext' = tcNext /\ rr' = rr
      /\ keyOk' = keyOk /\ vhpt' = vhpt /\ code' = code
      /\ tb' = [p \in MmuPages |-> None] /\ bundle' = [bundle EXCEPT !.current = FALSE]
      /\ unserialized' = FALSE /\ cpl' \in {0, 3} /\ dt' \in BOOLEAN
  BY DEF MmuSrlzI
<1>2. {"i", "d"} \in SUBSET Sides
  BY DEF Sides
<1>3. /\ tr' \in AllTr /\ tc' \in AllTc
      /\ purges' \in Int /\ Waiting(tr', tc') <= purges'
      /\ \/ XlateFlush
         \/ xlate' = xlate /\ tr' = tr /\ tc' = tc
  BY <1>1, <1>2, Completed
<1>4. XlateSound(xlate', tr', tc', keyOk', rr')
  BY <1>1, <1>3, EmptyCaches DEF XlateFlush, XlateSound, MmuInv
<1>5. tb' \in [MmuPages -> TbRecs] /\ \A p \in MmuPages : ~tb'[p].valid
  BY <1>1, EmptyCaches
<1>6. FetchSound(tb', tr', tc', keyOk', rr', cpl', dt')
  BY <1>5 DEF FetchSound
<1>7. WordsSound(bundle', tb', code')
  <2>1. bundle \in BundleRecs /\ (bundle.valid => bundle.frame \in MmuFrames /\ bundle.word = code[bundle.frame])
        /\ code \in [MmuFrames -> Int]
    BY DEF MmuInv, WordsSound
  <2>2. /\ bundle' \in BundleRecs /\ bundle'.valid = bundle.valid
        /\ bundle'.frame = bundle.frame /\ bundle'.word = bundle.word
    BY <1>1, <2>1 DEF BundleRecs
  <2> QED
    BY <1>1, <1>5, <2>1, <2>2 DEF WordsSound
<1>8. MmuTyped'
  BY <1>1, <1>3 DEF MmuInv, MmuTyped
<1> QED
  BY <1>3, <1>4, <1>6, <1>7, <1>8 DEF MmuInv

LEMMA WritePteStep == MmuInv /\ MmuWritePte => MmuInv'
<1> SUFFICES ASSUME MmuInv, MmuWritePte PROVE MmuInv'
  OBVIOUS
<1>1. PICK page \in MmuPages, pte \in Ptes :
        vhpt' = [vhpt EXCEPT ![page] = [rid |-> rr, frame |-> pte.frame, use |-> pte.use]]
  BY DEF MmuWritePte
<1>2. /\ tr' = tr /\ tc' = tc /\ tcNext' = tcNext /\ purges' = purges /\ rr' = rr /\ cpl' = cpl
      /\ dt' = dt /\ keyOk' = keyOk /\ xlate' = xlate /\ tb' = tb /\ bundle' = bundle /\ code' = code
      /\ unserialized' = unserialized
  BY DEF MmuWritePte
<1>3. [rid |-> rr, frame |-> pte.frame, use |-> pte.use] \in PteRecs
  BY DEF MmuInv, MmuTyped, PteRecs, Ptes, Uses
<1>4. vhpt' \in [MmuPages -> PteRecs]
  BY <1>1, <1>3 DEF MmuInv, MmuTyped
<1>5. MmuTyped'
  BY <1>2, <1>4 DEF MmuInv, MmuTyped
<1> QED
  BY <1>2, <1>5 DEF MmuInv

\* A page that is stored in the cache is what the reference was given.
LEMMA StoredSound ==
  ASSUME MmuInv, NEW s \in Sides, NEW page \in MmuPages, NEW f,
         f = FullTranslate(s, page), f # 0, XlateStore(s, page, f)
  PROVE  XlateSound(xlate', tr, tc, keyOk, rr) /\ f \in MmuFrames
<1>1. /\ tr \in AllTr /\ tc \in AllTc /\ rr \in MmuRids /\ cpl \in {0, 3} /\ dt \in BOOLEAN
      /\ XlateSound(xlate, tr, tc, keyOk, rr)
  BY DEF MmuInv, MmuTyped
<1>2. f = Translation(tr, tc, keyOk, rr, s, cpl, dt, page)
  BY FullIsTranslation
<1>3. f \in MmuFrames
  <2>1. Translation(tr, tc, keyOk, rr, s, cpl, dt, page) \in MmuFrames \cup {0}
    BY <1>1, TranslationTyped DEF AllTr, AllTc
  <2> QED
    BY <1>2, <2>1
<1> DEFINE x == [valid |-> TRUE, purge |-> FALSE, side |-> s, cpl |-> cpl, dt |-> dt, rr |-> rr,
                 frame |-> f]
<1>4. x \in XlateRecs
  BY <1>1, <1>3 DEF XlateRecs
<1>5. xlate' = [xlate EXCEPT ![page] = x]
  BY DEF XlateStore
<1>6. x.side = s /\ x.cpl = cpl /\ x.dt = dt /\ x.frame = f
  OBVIOUS
<1> HIDE DEF x
<1>7. xlate' \in [MmuPages -> XlateRecs] /\ xlate'[page] = x
      /\ \A p \in MmuPages : p # page => xlate'[p] = xlate[p]
  BY <1>1, <1>4, <1>5 DEF XlateSound
<1>8. ASSUME NEW p \in MmuPages, xlate'[p].valid
      PROVE  xlate'[p].frame = Translation(tr, tc, keyOk, rr, xlate'[p].side, xlate'[p].cpl, xlate'[p].dt, p)
  <2>1. CASE p = page
    BY <1>2, <1>6, <1>7, <2>1
  <2>2. CASE p # page
    BY <1>1, <1>7, <1>8, <2>2 DEF XlateSound
  <2> QED
    BY <2>1, <2>2
<1> QED
  BY <1>3, <1>7, <1>8 DEF XlateSound

LEMMA ReferenceStep == MmuInv /\ MmuReference => MmuInv'
<1> SUFFICES ASSUME MmuInv, MmuReference PROVE MmuInv'
  OBVIOUS
<1>1. PICK page \in MmuPages :
        IF Found("d", page).valid
        THEN LET f == FullTranslate("d", page)
             IN  /\ f # 0 /\ XlateStore("d", page, f)
                 /\ UNCHANGED <<tc, tcNext, unserialized>>
        ELSE /\ vhpt[page].rid = rr
             /\ InsertTc("d", page, vhpt[page])
             /\ XlateFlush
             /\ unserialized' = TRUE
  BY DEF MmuReference
<1>2. /\ tr' = tr /\ purges' = purges /\ rr' = rr /\ cpl' = cpl /\ dt' = dt /\ keyOk' = keyOk
      /\ vhpt' = vhpt /\ tb' = tb /\ bundle' = bundle /\ code' = code
  BY DEF MmuReference
<1>3. /\ tr \in AllTr /\ tc \in AllTc /\ tcNext \in [Sides -> Nat] /\ rr \in MmuRids
      /\ purges \in Int /\ Waiting(tr, tc) <= purges /\ vhpt \in [MmuPages -> PteRecs]
      /\ "d" \in Sides
  BY DEF MmuInv, MmuTyped, Sides
<1>4. CASE Found("d", page).valid
  <2> DEFINE f == FullTranslate("d", page)
  <2>1. f # 0 /\ XlateStore("d", page, f) /\ UNCHANGED <<tc, tcNext, unserialized>>
    BY <1>1, <1>4
  <2>2. XlateSound(xlate', tr, tc, keyOk, rr)
    BY <1>3, <2>1, StoredSound
  <2>3. MmuTyped'
    BY <1>2, <2>1 DEF MmuInv, MmuTyped
  <2> QED
    BY <1>2, <2>1, <2>2, <2>3 DEF MmuInv
<1>5. CASE ~Found("d", page).valid
  <2>1. InsertTc("d", page, vhpt[page]) /\ XlateFlush /\ unserialized' = TRUE
    BY <1>1, <1>5
  <2>2. vhpt[page].frame \in MmuFrames /\ vhpt[page].use \in Uses
    BY <1>3 DEF PteRecs
  <2>3. tc' \in AllTc /\ tcNext' \in [Sides -> Nat] /\ Waiting(tr, tc') <= Waiting(tr, tc)
    BY <1>3, <2>1, <2>2, InsertedTyped
  <2>4. Waiting(tr, tc) \in Nat /\ Waiting(tr, tc') \in Nat
    BY <1>3, <2>3, WaitingTyped
  <2>5. purges' \in Int /\ Waiting(tr', tc') <= purges'
    BY <1>2, <1>3, <2>3, <2>4
  <2>6. MmuTyped'
    BY <1>2, <2>1, <2>3 DEF MmuInv, MmuTyped
  <2> QED
    BY <1>2, <2>1, <2>5, <2>6, FlushStep
<1> QED
  BY <1>4, <1>5

LEMMA FetchStep == MmuInv /\ MmuFetch => MmuInv'
<1> SUFFICES ASSUME MmuInv, MmuFetch PROVE MmuInv'
  OBVIOUS
<1>1. PICK page \in MmuPages :
        LET cached == tb[page].valid
            f == IF cached THEN tb[page].frame
                 ELSE IF XlateHit("i", page) THEN xlate[page].frame
                 ELSE FullTranslate("i", page)
            same == ~cached /\ bundle.valid /\ bundle.page = page /\ bundle.frame = f
            w == IF cached THEN tb[page].word ELSE IF same THEN bundle.word ELSE code[f]
        IN  /\ f # 0
            /\ bundle' = [valid |-> TRUE, current |-> TRUE, page |-> page, frame |-> f, word |-> w]
            /\ tb' = [tb EXCEPT ![page] = [valid |-> TRUE, purge |-> FALSE, frame |-> f, word |-> w]]
            /\ IF cached \/ XlateHit("i", page) THEN UNCHANGED xlate
                                                 ELSE XlateStore("i", page, f)
  BY DEF MmuFetch
<1> DEFINE cached == tb[page].valid
           f == IF cached THEN tb[page].frame
                ELSE IF XlateHit("i", page) THEN xlate[page].frame
                ELSE FullTranslate("i", page)
           same == ~cached /\ bundle.valid /\ bundle.page = page /\ bundle.frame = f
           w == IF cached THEN tb[page].word ELSE IF same THEN bundle.word ELSE code[f]
<1>2. /\ f # 0
      /\ bundle' = [valid |-> TRUE, current |-> TRUE, page |-> page, frame |-> f, word |-> w]
      /\ tb' = [tb EXCEPT ![page] = [valid |-> TRUE, purge |-> FALSE, frame |-> f, word |-> w]]
      /\ IF cached \/ XlateHit("i", page) THEN UNCHANGED xlate ELSE XlateStore("i", page, f)
  BY <1>1, Zenon
<1>3. /\ tr' = tr /\ tc' = tc /\ tcNext' = tcNext /\ purges' = purges /\ rr' = rr /\ cpl' = cpl
      /\ dt' = dt /\ keyOk' = keyOk /\ vhpt' = vhpt /\ code' = code /\ unserialized' = unserialized
  BY DEF MmuFetch
<1>4. /\ tr \in AllTr /\ tc \in AllTc /\ "i" \in Sides
      /\ XlateSound(xlate, tr, tc, keyOk, rr) /\ WordsSound(bundle, tb, code)
      /\ ~unserialized => FetchSound(tb, tr, tc, keyOk, rr, cpl, dt)
  BY DEF MmuInv, MmuTyped, Sides
<1>5. FullTranslate("i", page) = Translation(tr, tc, keyOk, rr, "i", cpl, dt, page)
  BY <1>4, FullIsTranslation
<1>6. ~cached => f = FullTranslate("i", page)
  <2>1. XlateHit("i", page) => xlate[page].frame = FullTranslate("i", page)
    BY <1>4, <1>5 DEF XlateHit, XlateSound
  <2> QED
    BY <2>1
<1>7. f \in MmuFrames
  <2>1. cached => tb[page].frame \in MmuFrames
    BY <1>4 DEF WordsSound, TbRecs, Empties
  <2>2. FullTranslate("i", page) \in MmuFrames \cup {0}
    BY <1>4, <1>5, TranslationTyped DEF AllTr, AllTc
  <2> QED
    BY <1>2, <1>6, <2>1, <2>2
<1>8. w = code[f] /\ code[f] \in Int
  <2>1. /\ cached => tb[page].word = code[tb[page].frame]
        /\ bundle.valid => bundle.word = code[bundle.frame]
        /\ code \in [MmuFrames -> Int]
    BY <1>4 DEF WordsSound
  <2> QED
    BY <1>7, <2>1
<1>9. XlateSound(xlate', tr, tc, keyOk, rr)
  <2>1. CASE cached \/ XlateHit("i", page)
    BY <1>2, <1>4, <2>1
  <2>2. CASE ~(cached \/ XlateHit("i", page))
    BY <1>2, <1>4, <1>6, <2>2, StoredSound
  <2> QED
    BY <2>1, <2>2
<1>10. ~unserialized => f = Translation(tr, tc, keyOk, rr, "i", cpl, dt, page)
  BY <1>4, <1>5, <1>6 DEF FetchSound
<1> HIDE DEF f, w
<1>11. bundle' \in BundleRecs /\ bundle'.frame = f /\ bundle'.word = w
  BY <1>2, <1>7, <1>8 DEF BundleRecs
<1> DEFINE x == [valid |-> TRUE, purge |-> FALSE, frame |-> f, word |-> w]
<1>12. x \in TbRecs /\ x.frame = f /\ x.word = w
  BY <1>7, <1>8 DEF TbRecs
<1>13. tb' = [tb EXCEPT ![page] = x]
  BY <1>2
<1> HIDE DEF x
<1>14. tb' \in [MmuPages -> TbRecs] /\ tb'[page] = x /\ \A p \in MmuPages : p # page => tb'[p] = tb[p]
  BY <1>4, <1>12, <1>13 DEF WordsSound
<1>15. WordsSound(bundle', tb', code)
  BY <1>4, <1>7, <1>8, <1>11, <1>12, <1>14 DEF WordsSound
<1>16. ~unserialized => FetchSound(tb', tr, tc, keyOk, rr, cpl, dt)
  BY <1>4, <1>10, <1>12, <1>14 DEF FetchSound
<1>17. MmuTyped'
  BY <1>3 DEF MmuInv, MmuTyped
<1> QED
  BY <1>3, <1>9, <1>15, <1>16, <1>17 DEF MmuInv

LEMMA CodeStep == MmuInv /\ MmuStore => MmuInv'
<1> SUFFICES ASSUME MmuInv, MmuStore PROVE MmuInv'
  OBVIOUS
<1>1. PICK f \in MmuFrames : code' = [code EXCEPT ![f] = 1 - @] /\ PhysWrite(f)
  BY DEF MmuStore
<1>2. /\ tr' = tr /\ tc' = tc /\ tcNext' = tcNext /\ purges' = purges /\ rr' = rr /\ cpl' = cpl
      /\ dt' = dt /\ keyOk' = keyOk /\ vhpt' = vhpt /\ xlate' = xlate /\ unserialized' = unserialized
  BY DEF MmuStore
<1>3. WordsSound(bundle, tb, code) /\ (~unserialized => FetchSound(tb, tr, tc, keyOk, rr, cpl, dt))
  BY DEF MmuInv
<1>4. code' \in [MmuFrames -> Int] /\ \A g \in MmuFrames : g # f => code'[g] = code[g]
  BY <1>1, <1>3 DEF WordsSound
<1>5. /\ bundle' \in BundleRecs /\ bundle'.frame = bundle.frame /\ bundle'.word = bundle.word
      /\ bundle'.valid => bundle.valid /\ bundle.frame # f
  BY <1>1, <1>3 DEF WordsSound, BundleRecs, PhysWrite
<1>6. \A p \in MmuPages : \/ tb'[p] = None
                          \/ tb'[p] = tb[p] /\ (tb[p].valid => tb[p].frame # f)
  BY <1>1 DEF PhysWrite
<1>7. None \in TbRecs /\ ~None.valid
  BY DEF None, TbRecs, Empties
<1>8. tb' \in [MmuPages -> TbRecs]
  BY <1>1, <1>3, <1>7 DEF PhysWrite, WordsSound
<1>9. \A p \in MmuPages : tb[p].valid => tb[p].frame \in MmuFrames
  BY <1>3 DEF WordsSound, TbRecs, Empties
<1>10. WordsSound(bundle', tb', code')
  BY <1>3, <1>4, <1>5, <1>6, <1>7, <1>8, <1>9 DEF WordsSound
<1>11. ~unserialized => FetchSound(tb', tr, tc, keyOk, rr, cpl, dt)
  BY <1>3, <1>6, <1>7 DEF FetchSound
<1>12. MmuTyped'
  BY <1>2 DEF MmuInv, MmuTyped
<1> QED
  BY <1>2, <1>10, <1>11, <1>12 DEF MmuInv

LEMMA SetDtStep == MmuInv /\ MmuSetDt => MmuInv'
<1> SUFFICES ASSUME MmuInv, MmuSetDt PROVE MmuInv'
  OBVIOUS
<1>1. /\ tr' = tr /\ tc' = tc /\ tcNext' = tcNext /\ purges' = purges /\ rr' = rr /\ cpl' = cpl
      /\ dt' = ~dt /\ keyOk' = keyOk /\ vhpt' = vhpt /\ xlate' = xlate /\ tb' = tb
      /\ bundle' = bundle /\ code' = code /\ unserialized' = unserialized
  BY DEF MmuSetDt
<1>2. MmuTyped'
  BY <1>1 DEF MmuInv, MmuTyped
<1>3. ~unserialized => FetchSound(tb, tr, tc, keyOk, rr, cpl, dt')
  BY DEF MmuInv, FetchSound, Translation
<1> QED
  BY <1>1, <1>2, <1>3 DEF MmuInv

LEMMA MmuSafe == MmuInv => TranslationsCurrent
<1> SUFFICES ASSUME MmuInv PROVE TranslationsCurrent
  OBVIOUS
<1>1. tr \in AllTr /\ tc \in AllTc /\ purges \in Int /\ Waiting(tr, tc) <= purges
  BY DEF MmuInv, MmuTyped
<1>2. XlateAgrees
  BY FullIsTranslation DEF XlateAgrees, XlateHit, MmuInv, XlateSound
<1>3. BundleCurrent
  <2>1. "i" \in Sides
    BY DEF Sides
  <2> QED
    BY <2>1, FullIsTranslation DEF BundleCurrent, MmuInv, WordsSound, FetchSound
<1>4. (\E s \in Sides : Pending(tr[s], NTr) + Pending(tc[s], NTc) > 0) => purges > 0
  <2>1. "i" \in Sides /\ "d" \in Sides /\ \A s \in Sides : s = "i" \/ s = "d"
    BY DEF Sides
  <2>2. \A s \in Sides : Pending(tr[s], NTr) \in Nat /\ Pending(tc[s], NTc) \in Nat
    BY <1>1, WaitingTyped
  <2> QED
    BY <1>1, <2>1, <2>2 DEF Waiting
<1> QED
  BY <1>2, <1>3, <1>4 DEF TranslationsCurrent

\* No cache in front of the translation registers outlives what it was filled
\* from, and no purge is forgotten (va_translate_ex, itc, itr, ptc, ptr, ptc_e,
\* tlb_complete_pending, srlz and phys_write of merced.c), for any number of
\* pages, frames, regions and entries.
THEOREM TranslationSound == MmuSpec => []TranslationsCurrent
<1>1. MmuInv /\ [MmuNext]_mmuVars => MmuInv'
  <2>1. MmuInv /\ UNCHANGED mmuVars => MmuInv'
    BY DEF MmuInv, MmuTyped, mmuVars
  <2> QED
    BY <2>1, ItcStep, ItrStep, WritePteStep, ReferenceStep, PtcStep, PtrStep, OtherFlushSteps,
       SrlzDStep, SrlzIStep, SetDtStep, FetchStep, CodeStep DEF MmuNext
<1> QED
  BY <1>1, MmuStart, MmuSafe, PTL DEF MmuSpec
----------------------------------------------------------------------------
(***************************************************************************)
(* Faults and restarts of the IA-32 instructions.                          *)
(***************************************************************************)

LEMMA StateFields ==
  ASSUME NEW s \in Ia32States
  PROVE  /\ s.sp \in Ia32Data /\ s.si \in Ia32Data /\ s.di \in Ia32Data /\ s.cx \in Nat
         /\ s.cf \in Nat /\ s.acc \in Nat /\ s.mem \in [Ia32Data -> Nat] /\ s.dev \in Nat
         /\ s.fault \in Ia32Pages \cup {NoPage}
BY DEF Ia32States

LEMMA DataIs ==
  /\ 0 \in Ia32Data /\ 1 \in Ia32Data /\ CursorWord \in Ia32Data
  /\ Ia32Data \subseteq Int /\ \A i \in Int : At(i) \in Ia32Data
  /\ \A a \in Ia32Data : PageOf(a) \in Ia32Pages
  /\ PageOf(CodeWord) \in Ia32Pages /\ NoPage \notin Ia32Pages
<1>1. Ia32Words \in Nat /\ Ia32Words >= 4
  BY Ia32Size
<1>2. PageOf(CodeWord) \in Nat /\ \A a \in Ia32Data : PageOf(a) \in Nat /\ PageOf(a) <= PageOf(CodeWord)
  BY <1>1 DEF PageOf, CodeWord, Ia32Data
<1>3. \A i \in Int : At(i) \in Ia32Data
  BY <1>1 DEF At, Ia32Data
<1>4. PageOf(CodeWord) \in Ia32Pages /\ \A a \in Ia32Data : PageOf(a) \in Ia32Pages
  BY <1>2 DEF Ia32Pages
<1>5. NoPage \notin Ia32Pages
  BY <1>2 DEF Ia32Pages, NoPage
<1> QED
  BY <1>1, <1>3, <1>4, <1>5 DEF Ia32Data, CursorWord

\* One field of a state set.
LEMMA WithFault ==
  ASSUME NEW s \in Ia32States, NEW p \in Ia32Pages \cup {NoPage}
  PROVE  /\ [s EXCEPT !.fault = p] \in Ia32States /\ [s EXCEPT !.fault = p].fault = p
         /\ [s EXCEPT !.fault = p].cx = s.cx
BY DEF Ia32States

LEMMA WithWord ==
  ASSUME NEW s \in Ia32States, NEW a \in Ia32Data, NEW w \in Nat
  PROVE  /\ [s EXCEPT !.mem[a] = w] \in Ia32States /\ [s EXCEPT !.mem[a] = w].fault = s.fault
         /\ [s EXCEPT !.mem[a] = w].cx = s.cx
<1> DEFINE m == [s.mem EXCEPT ![a] = w]
<1>1. m \in [Ia32Data -> Nat]
  BY StateFields
<1>2. [s EXCEPT !.mem[a] = w] = [s EXCEPT !.mem = m]
  OBVIOUS
<1> HIDE DEF m
<1> QED
  BY <1>1, <1>2 DEF Ia32States

LEMMA WithRegs ==
  ASSUME NEW s \in Ia32States, NEW d \in Ia32Data, NEW w \in Nat, NEW i \in Nat
  PROVE  /\ [s EXCEPT !.sp = d] \in Ia32States /\ [s EXCEPT !.sp = d].fault = s.fault
         /\ [s EXCEPT !.si = d] \in Ia32States /\ [s EXCEPT !.si = d].fault = s.fault
         /\ [s EXCEPT !.di = d] \in Ia32States /\ [s EXCEPT !.di = d].fault = s.fault
         /\ [s EXCEPT !.acc = w] \in Ia32States /\ [s EXCEPT !.acc = w].fault = s.fault
         /\ [s EXCEPT !.cf = w] \in Ia32States /\ [s EXCEPT !.cf = w].fault = s.fault
         /\ [s EXCEPT !.dev = w] \in Ia32States /\ [s EXCEPT !.dev = w].fault = s.fault
         /\ [s EXCEPT !.cx = i] \in Ia32States /\ [s EXCEPT !.cx = i].fault = s.fault
         /\ [s EXCEPT !.sp = d].cx = s.cx /\ [s EXCEPT !.si = d].cx = s.cx /\ [s EXCEPT !.di = d].cx = s.cx
         /\ [s EXCEPT !.acc = w].cx = s.cx /\ [s EXCEPT !.cf = w].cx = s.cx /\ [s EXCEPT !.dev = w].cx = s.cx
         /\ [s EXCEPT !.cx = i].cx = i
<1>1. /\ [s EXCEPT !.sp = d] \in Ia32States /\ [s EXCEPT !.sp = d].fault = s.fault
      /\ [s EXCEPT !.sp = d].cx = s.cx
  BY DEF Ia32States
<1>2. /\ [s EXCEPT !.si = d] \in Ia32States /\ [s EXCEPT !.si = d].fault = s.fault
      /\ [s EXCEPT !.si = d].cx = s.cx
  BY DEF Ia32States
<1>3. /\ [s EXCEPT !.di = d] \in Ia32States /\ [s EXCEPT !.di = d].fault = s.fault
      /\ [s EXCEPT !.di = d].cx = s.cx
  BY DEF Ia32States
<1>4. /\ [s EXCEPT !.acc = w] \in Ia32States /\ [s EXCEPT !.acc = w].fault = s.fault
      /\ [s EXCEPT !.acc = w].cx = s.cx
  BY DEF Ia32States
<1>5. /\ [s EXCEPT !.cf = w] \in Ia32States /\ [s EXCEPT !.cf = w].fault = s.fault
      /\ [s EXCEPT !.cf = w].cx = s.cx
  BY DEF Ia32States
<1>6. /\ [s EXCEPT !.dev = w] \in Ia32States /\ [s EXCEPT !.dev = w].fault = s.fault
      /\ [s EXCEPT !.dev = w].cx = s.cx
  BY DEF Ia32States
<1>7. /\ [s EXCEPT !.cx = i] \in Ia32States /\ [s EXCEPT !.cx = i].fault = s.fault
      /\ [s EXCEPT !.cx = i].cx = i
  BY DEF Ia32States
<1> QED
  BY <1>1, <1>2, <1>3, <1>4, <1>5, <1>6, <1>7

\* Two attempts, one with the pages that translate and one with all: what the
\* first leaves unfaulted is what the second leaves.
Pair(t, u) ==
  /\ t \in Ia32States /\ u \in Ia32States
  /\ Ok(t) => t = u

LEMMA PairTouch ==
  ASSUME NEW t, NEW u, Pair(t, u), NEW M, NEW a \in Ia32Data \cup {CodeWord}, NEW b \in Ia32Data \cup {CodeWord},
         Ok(t) => b = a
  PROVE  /\ Pair(Touch(t, a, M), Touch(u, b, Ia32Pages)) /\ (Ok(Touch(t, a, M)) => Ok(t) /\ Touch(t, a, M) = t)
         /\ Touch(u, b, Ia32Pages) = u /\ (~Ok(t) => Touch(t, a, M) = t)
<1>1. PageOf(a) \in Ia32Pages /\ PageOf(b) \in Ia32Pages /\ PageOf(a) # NoPage
  BY DataIs
<1>2. t \in Ia32States /\ u \in Ia32States /\ (Ok(t) => t = u)
  BY DEF Pair
<1>3. Touch(u, b, Ia32Pages) = u
  BY <1>1 DEF Touch
<1>4. CASE ~Ok(t) \/ PageOf(a) \in M
  <2>1. Touch(t, a, M) = t
    BY <1>4 DEF Touch
  <2> QED
    BY <1>3, <2>1
<1>5. CASE Ok(t) /\ PageOf(a) \notin M
  <2>1. Touch(t, a, M) = [t EXCEPT !.fault = PageOf(a)]
    BY <1>5 DEF Touch
  <2>2. /\ Touch(t, a, M) \in Ia32States /\ Touch(t, a, M).fault = PageOf(a)
        /\ Touch(t, a, M).cx = t.cx
    BY <1>1, <1>2, <2>1, WithFault
  <2>3. ~Ok(Touch(t, a, M))
    BY <1>1, <2>2 DEF Ok
  <2> QED
    BY <1>2, <1>3, <1>5, <2>2, <2>3 DEF Pair
<1> QED
  BY <1>4, <1>5

LEMMA PairStore ==
  ASSUME NEW t, NEW u, Pair(t, u), NEW M, NEW a \in Ia32Data, NEW b \in Ia32Data, NEW v \in Nat, NEW w \in Nat,
         Ok(t) => b = a /\ w = v
  PROVE  /\ Pair(StoreAt(t, a, v, M), StoreAt(u, b, w, Ia32Pages))
         /\ Ok(StoreAt(t, a, v, M)) => Ok(t) /\ PageOf(a) \in M
         /\ ~Ok(t) => StoreAt(t, a, v, M) = t
<1> DEFINE f == Touch(t, a, M)
           g == Touch(u, b, Ia32Pages)
<1>1. Pair(f, g) /\ (Ok(f) => Ok(t) /\ f = t) /\ g = u /\ (~Ok(t) => f = t)
  BY PairTouch
<1>2. StoreAt(t, a, v, M) = IF Ok(f) THEN [f EXCEPT !.mem[a] = v] ELSE f
  BY DEF StoreAt
<1>3. StoreAt(u, b, w, Ia32Pages) = IF Ok(g) THEN [g EXCEPT !.mem[b] = w] ELSE g
  BY DEF StoreAt
<1>a. Ok(f) => PageOf(a) \in M
  <2>1. Ok(t) /\ PageOf(a) \notin M => f = [t EXCEPT !.fault = PageOf(a)]
    BY DEF Touch
  <2>2. t \in Ia32States /\ PageOf(a) \in Ia32Pages /\ PageOf(a) # NoPage
    BY DataIs DEF Pair
  <2>3. Ok(t) /\ PageOf(a) \notin M => f.fault = PageOf(a)
    BY <2>1, <2>2, WithFault
  <2> QED
    BY <1>1, <2>2, <2>3 DEF Ok
<1> HIDE DEF f, g
<1>4. f \in Ia32States /\ g \in Ia32States /\ (Ok(f) => f = g)
  BY <1>1 DEF Pair
<1>5. /\ [f EXCEPT !.mem[a] = v] \in Ia32States /\ [f EXCEPT !.mem[a] = v].cx = f.cx
      /\ [f EXCEPT !.mem[a] = v].fault = f.fault
      /\ [g EXCEPT !.mem[b] = w] \in Ia32States /\ [g EXCEPT !.mem[b] = w].cx = g.cx
  BY <1>4, WithWord
<1>6. CASE Ok(f)
  <2>1. Ok(g) /\ a = b /\ v = w /\ f = g
    BY <1>1, <1>4, <1>6
  <2>2. StoreAt(t, a, v, M) = [f EXCEPT !.mem[a] = v] /\ StoreAt(u, b, w, Ia32Pages) = [f EXCEPT !.mem[a] = v]
    BY <1>2, <1>3, <1>6, <2>1
  <2> QED
    BY <1>1, <1>4, <1>5, <1>6, <1>a, <2>2 DEF Pair
<1>7. CASE ~Ok(f)
  <2>1. StoreAt(t, a, v, M) = f
    BY <1>2, <1>7
  <2>2. StoreAt(u, b, w, Ia32Pages) \in Ia32States
    BY <1>3, <1>4, <1>5
  <2> QED
    BY <1>1, <1>4, <1>7, <2>1, <2>2 DEF Pair
<1> QED
  BY <1>6, <1>7

\* A register written only where nothing has faulted.
LEMMA PairSp ==
  ASSUME NEW t, NEW u, Pair(t, u), NEW k \in Int
  PROVE  LET f == IF Ok(t) THEN [t EXCEPT !.sp = At(@ + k)] ELSE t
             g == IF Ok(u) THEN [u EXCEPT !.sp = At(@ + k)] ELSE u
         IN  Pair(f, g) /\ (Ok(f) => Ok(t))
<1> DEFINE f == IF Ok(t) THEN [t EXCEPT !.sp = At(@ + k)] ELSE t
           g == IF Ok(u) THEN [u EXCEPT !.sp = At(@ + k)] ELSE u
<1>1. t \in Ia32States /\ u \in Ia32States /\ (Ok(t) => t = u)
  BY DEF Pair
<1>2. At(t.sp + k) \in Ia32Data /\ At(u.sp + k) \in Ia32Data
  <2>a. t.sp \in Int /\ u.sp \in Int
    BY <1>1, StateFields, DataIs
  <2>1. t.sp + k \in Int /\ u.sp + k \in Int
    BY <2>a
  <2> QED
    BY <2>1, DataIs
<1>3. f = (IF Ok(t) THEN [t EXCEPT !.sp = At(t.sp + k)] ELSE t)
      /\ g = (IF Ok(u) THEN [u EXCEPT !.sp = At(u.sp + k)] ELSE u)
  OBVIOUS
<1> HIDE DEF f, g
<1>4. f \in Ia32States /\ g \in Ia32States /\ f.fault = t.fault
  BY <1>1, <1>2, <1>3, WithRegs
<1>5. Ok(f) => Ok(t) /\ f = g
  BY <1>1, <1>3, <1>4 DEF Ok
<1> QED
  BY <1>1, <1>4, <1>5 DEF Pair, f, g

LEMMA PairPush ==
  ASSUME NEW t, NEW u, Pair(t, u), NEW M, NEW v \in Nat, NEW w \in Nat, Ok(t) => w = v
  PROVE  /\ Pair(Push(t, v, M), Push(u, w, Ia32Pages))
         /\ Ok(Push(t, v, M)) => Ok(t)
<1> DEFINE a == At(t.sp - 1)
           b == At(u.sp - 1)
           f == StoreAt(t, a, v, M)
           g == StoreAt(u, b, w, Ia32Pages)
<1>1. t \in Ia32States /\ u \in Ia32States /\ (Ok(t) => t = u)
  BY DEF Pair
<1>a. t.sp \in Int /\ u.sp \in Int
  BY <1>1, StateFields, DataIs
<1>2. t.sp - 1 \in Int /\ u.sp - 1 \in Int
  BY <1>a
<1>3. a \in Ia32Data /\ b \in Ia32Data /\ (Ok(t) => b = a)
  BY <1>1, <1>2, DataIs
<1> HIDE DEF a, b
<1>4. Pair(f, g) /\ (Ok(f) => Ok(t))
  BY <1>3, PairStore
<1>5. /\ Push(t, v, M) = IF Ok(f) THEN [f EXCEPT !.sp = At(@ - 1)] ELSE f
      /\ Push(u, w, Ia32Pages) = IF Ok(g) THEN [g EXCEPT !.sp = At(@ - 1)] ELSE g
  BY DEF Push, a, b
<1> HIDE DEF f, g
<1>6. f.sp - 1 = f.sp + (-1) /\ g.sp - 1 = g.sp + (-1)
  <2>1. f.sp \in Int /\ g.sp \in Int
    BY <1>4, StateFields, DataIs DEF Pair
  <2> QED
    BY <2>1
<1>7. /\ Push(t, v, M) = IF Ok(f) THEN [f EXCEPT !.sp = At(@ + (-1))] ELSE f
      /\ Push(u, w, Ia32Pages) = IF Ok(g) THEN [g EXCEPT !.sp = At(@ + (-1))] ELSE g
  BY <1>5, <1>6
<1>8. -1 \in Int
  OBVIOUS
<1> QED
  BY <1>4, <1>7, <1>8, PairSp

LEMMA PairPop ==
  ASSUME NEW t, NEW u, Pair(t, u), NEW M
  PROVE  /\ Pair(Pop(t, M), Pop(u, Ia32Pages))
         /\ Ok(Pop(t, M)) => Ok(t)
<1> DEFINE f == Touch(t, t.sp, M)
           g == Touch(u, u.sp, Ia32Pages)
<1>1. t.sp \in Ia32Data /\ u.sp \in Ia32Data /\ (Ok(t) => u.sp = t.sp)
  BY StateFields DEF Pair
<1>2. Pair(f, g) /\ (Ok(f) => Ok(t))
  BY <1>1, PairTouch
<1>3. /\ Pop(t, M) = IF Ok(f) THEN [f EXCEPT !.sp = At(@ + 1)] ELSE f
      /\ Pop(u, Ia32Pages) = IF Ok(g) THEN [g EXCEPT !.sp = At(@ + 1)] ELSE g
  BY DEF Pop
<1> HIDE DEF f, g
<1>4. 1 \in Int
  OBVIOUS
<1>5. LET y == IF Ok(f) THEN [f EXCEPT !.sp = At(@ + 1)] ELSE f
          z == IF Ok(g) THEN [g EXCEPT !.sp = At(@ + 1)] ELSE g
      IN  Pair(y, z) /\ (Ok(y) => Ok(f))
  BY <1>2, <1>4, PairSp
<1> QED
  BY <1>2, <1>3, <1>5

LEMMA PairSets ==
  ASSUME NEW t, NEW u, Pair(t, u), NEW v \in Nat, NEW w \in Nat, Ok(t) => w = v
  PROVE  /\ Pair(SetAcc(t, v), SetAcc(u, w)) /\ (Ok(SetAcc(t, v)) => Ok(t))
         /\ Pair(SetCf(t, v), SetCf(u, w)) /\ (Ok(SetCf(t, v)) => Ok(t))
<1>1. t \in Ia32States /\ u \in Ia32States /\ (Ok(t) => t = u)
  BY DEF Pair
<1>2. Pair(SetAcc(t, v), SetAcc(u, w)) /\ (Ok(SetAcc(t, v)) => Ok(t))
  <2> DEFINE f == SetAcc(t, v)
             g == SetAcc(u, w)
  <2>1. f = (IF Ok(t) THEN [t EXCEPT !.acc = v] ELSE t) /\ g = (IF Ok(u) THEN [u EXCEPT !.acc = w] ELSE u)
    BY DEF SetAcc
  <2> HIDE DEF f, g
  <2>2. f \in Ia32States /\ g \in Ia32States
    BY <1>1, <2>1, WithRegs, DataIs
  <2>3. Ok(t) => f = g
    BY <1>1, <2>1
  <2>4. ~Ok(t) => f = t
    BY <2>1
  <2> QED
    BY <1>1, <2>2, <2>3, <2>4 DEF Pair, f, g
<1>3. Pair(SetCf(t, v), SetCf(u, w)) /\ (Ok(SetCf(t, v)) => Ok(t))
  <2> DEFINE f == SetCf(t, v)
             g == SetCf(u, w)
  <2>1. f = (IF Ok(t) THEN [t EXCEPT !.cf = v] ELSE t) /\ g = (IF Ok(u) THEN [u EXCEPT !.cf = w] ELSE u)
    BY DEF SetCf
  <2> HIDE DEF f, g
  <2>2. f \in Ia32States /\ g \in Ia32States
    BY <1>1, <2>1, WithRegs, DataIs
  <2>3. Ok(t) => f = g
    BY <1>1, <2>1
  <2>4. ~Ok(t) => f = t
    BY <2>1
  <2> QED
    BY <1>1, <2>2, <2>3, <2>4 DEF Pair, f, g
<1> QED
  BY <1>2, <1>3

\* The values an instruction computes from the state it starts in.
LEMMA ValuesOf ==
  ASSUME NEW s \in Ia32States
  PROVE  /\ \A a \in Ia32Data : s.mem[a] \in Nat
         /\ At(s.si + 1) \in Ia32Data /\ At(s.sp + 2) \in Ia32Data
         /\ Sum(s) \in Nat /\ Sum(s) % 2 \in Nat /\ Sum(s) \div 2 \in Nat /\ s.sp % 2 \in Nat
<1>1. \A a \in Ia32Data : s.mem[a] \in Nat
  BY StateFields
<1>2. s.sp \in Int /\ s.si \in Int /\ s.sp \in Nat
  BY StateFields, DataIs DEF Ia32Data
<1>3. s.si + 1 \in Int /\ s.sp + 2 \in Int
  BY <1>2
<1>4. Sum(s) \in Nat
  <2>1. s.mem[s.di] \in Nat /\ s.acc \in Nat /\ s.cf \in Nat
    BY <1>1, StateFields
  <2> QED
    BY <2>1 DEF Sum
<1>5. Sum(s) % 2 \in Nat /\ Sum(s) \div 2 \in Nat
  <2> DEFINE n == Sum(s)
  <2>1. n \in Nat
    BY <1>4
  <2> HIDE DEF n
  <2>2. n % 2 \in Nat /\ n \div 2 \in Nat
    BY <2>1
  <2> QED
    BY <2>2 DEF n
<1>6. s.sp % 2 \in Nat
  <2> DEFINE n == s.sp
  <2>1. n \in Nat
    BY <1>2
  <2> HIDE DEF n
  <2>2. n % 2 \in Nat
    BY <2>1
  <2> QED
    BY <2>2 DEF n
<1> QED
  BY <1>1, <1>3, <1>4, <1>5, <1>6, DataIs

\* Instructions of one access or two.
LEMMA PairSingle ==
  ASSUME NEW s \in Ia32States, NEW M
  PROVE  /\ Pair(XMov(s, M), XMov(s, Ia32Pages))
         /\ Pair(XStore(s, M), XStore(s, Ia32Pages))
         /\ Pair(XPush(s, M), XPush(s, Ia32Pages))
         /\ Pair(XPop(s, M), XPop(s, Ia32Pages))
         /\ Pair(XXchg(s, M), XXchg(s, Ia32Pages))
         /\ Pair(XLoadFar(s, M), XLoadFar(s, Ia32Pages))
         /\ Pair(XCall(s, M), XCall(s, Ia32Pages))
         /\ Pair(XRet(s, M), XRet(s, Ia32Pages))
         /\ Pair(XRetImm(s, M), XRetImm(s, Ia32Pages))
<1>1. Pair(s, s)
  BY DEF Pair
<1>2. /\ s.di \in Ia32Data /\ s.si \in Ia32Data /\ s.sp \in Ia32Data /\ s.acc \in Nat
      /\ \A a \in Ia32Data : s.mem[a] \in Nat
      /\ At(s.si + 1) \in Ia32Data
  BY StateFields, ValuesOf
<1>3. /\ Pair(Touch(s, s.di, M), Touch(s, s.di, Ia32Pages))
      /\ Pair(Touch(s, s.si, M), Touch(s, s.si, Ia32Pages))
  BY <1>1, <1>2, PairTouch
<1>4. Pair(XMov(s, M), XMov(s, Ia32Pages))
  BY <1>2, <1>3, PairSets DEF XMov
<1>5. Pair(XStore(s, M), XStore(s, Ia32Pages))
  BY <1>1, <1>2, PairStore DEF XStore
<1>6. Pair(XPush(s, M), XPush(s, Ia32Pages)) /\ Pair(XCall(s, M), XCall(s, Ia32Pages))
  <2>1. 0 \in Nat
    OBVIOUS
  <2>2. Pair(XPush(s, M), XPush(s, Ia32Pages))
    BY <1>1, <1>2, PairPush DEF XPush
  <2>3. Pair(XCall(s, M), XCall(s, Ia32Pages))
    BY <1>1, <2>1, PairPush DEF XCall
  <2> QED
    BY <2>2, <2>3
<1>7. Pair(Pop(s, M), Pop(s, Ia32Pages))
  BY <1>1, PairPop
<1>8. Pair(XPop(s, M), XPop(s, Ia32Pages))
  BY <1>2, <1>7, PairSets DEF XPop
<1>9. Pair(XXchg(s, M), XXchg(s, Ia32Pages))
  <2>1. Pair(StoreAt(Touch(s, s.di, M), s.di, s.acc, M),
             StoreAt(Touch(s, s.di, Ia32Pages), s.di, s.acc, Ia32Pages))
    BY <1>2, <1>3, PairStore
  <2> QED
    BY <1>2, <2>1, PairSets DEF XXchg
<1>10. Pair(XLoadFar(s, M), XLoadFar(s, Ia32Pages))
  <2>1. Pair(Touch(Touch(s, s.si, M), At(s.si + 1), M),
             Touch(Touch(s, s.si, Ia32Pages), At(s.si + 1), Ia32Pages))
    BY <1>2, <1>3, PairTouch
  <2> QED
    BY <1>2, <2>1, PairSets DEF XLoadFar
<1> QED
  BY <1>4, <1>5, <1>6, <1>7, <1>8, <1>9, <1>10 DEF XRet, XRetImm

\* The arithmetic, and what scrolls the screen.
LEMMA PairModify ==
  ASSUME NEW s \in Ia32States, NEW M
  PROVE  /\ Pair(XGroup1(s, M), XGroup1(s, Ia32Pages))
         /\ Pair(XAdcToMem(s, M), XAdcToMem(s, Ia32Pages))
         /\ Pair(XRotate(s, M), XRotate(s, Ia32Pages))
         /\ Pair(XPopMem(s, M), XPopMem(s, Ia32Pages))
         /\ Pair(XTeletype(s, M), XTeletype(s, Ia32Pages))
<1>1. Pair(s, s)
  BY DEF Pair
<1>2. /\ s.di \in Ia32Data /\ s.sp \in Ia32Data /\ s.acc \in Nat /\ s.cf \in Nat
      /\ \A a \in Ia32Data : s.mem[a] \in Nat
      /\ Sum(s) % 2 \in Nat /\ Sum(s) \div 2 \in Nat
  BY StateFields, ValuesOf
<1>3. Pair(Touch(s, s.di, M), Touch(s, s.di, Ia32Pages))
  BY <1>1, <1>2, PairTouch
<1>4. Pair(XGroup1(s, M), XGroup1(s, Ia32Pages))
  <2>1. Pair(StoreAt(Touch(s, s.di, M), s.di, Sum(s) % 2, M),
             StoreAt(Touch(s, s.di, Ia32Pages), s.di, Sum(s) % 2, Ia32Pages))
    BY <1>2, <1>3, PairStore
  <2> QED
    BY <1>2, <2>1, PairSets DEF XGroup1
<1>5. Pair(XAdcToMem(s, M), XAdcToMem(s, Ia32Pages))
  <2>1. Pair(SetCf(Touch(s, s.di, M), Sum(s) \div 2), SetCf(Touch(s, s.di, Ia32Pages), Sum(s) \div 2))
    BY <1>2, <1>3, PairSets
  <2> QED
    BY <1>2, <2>1, PairStore DEF XAdcToMem
<1>6. Pair(XRotate(s, M), XRotate(s, Ia32Pages))
  <2>1. Pair(SetCf(Touch(s, s.di, M), s.mem[s.di]), SetCf(Touch(s, s.di, Ia32Pages), s.mem[s.di]))
    BY <1>2, <1>3, PairSets
  <2> QED
    BY <1>2, <2>1, PairStore DEF XRotate
<1>7. Pair(XPopMem(s, M), XPopMem(s, Ia32Pages))
  <2>1. Pair(Pop(s, M), Pop(s, Ia32Pages))
    BY <1>1, PairPop
  <2> QED
    BY <1>2, <2>1, PairStore DEF XPopMem
<1>8. Pair(XTeletype(s, M), XTeletype(s, Ia32Pages))
  <2> DEFINE t(N) == Touch(s, CursorWord, N)
             d(N) == Touch(t(N), 1, N)
             e(N) == StoreAt(d(N), 0, s.mem[1], N)
             f(N) == StoreAt(e(N), 1, 0, N)
             row == s.mem[CursorWord] + 1
  <2>1. 0 \in Nat /\ 1 \in Nat /\ 0 \in Ia32Data /\ 1 \in Ia32Data /\ CursorWord \in Ia32Data
        /\ s.mem[1] \in Nat
    BY <1>2, DataIs
  <2>2. Pair(t(M), t(Ia32Pages))
    BY <1>1, <2>1, PairTouch
  <2> HIDE DEF t
  <2>3. Pair(d(M), d(Ia32Pages))
    BY <2>1, <2>2, PairTouch
  <2> HIDE DEF d
  <2>4. Pair(e(M), e(Ia32Pages))
    BY <2>1, <2>3, PairStore
  <2> HIDE DEF e
  <2>5. Pair(f(M), f(Ia32Pages))
    BY <2>1, <2>4, PairStore
  <2> HIDE DEF f, row
  <2> DEFINE g(N) == IF row > 1 THEN f(N) ELSE t(N)
  <2>6. Pair(g(M), g(Ia32Pages))
    BY <2>2, <2>5
  <2>7. /\ XTeletype(s, M) = StoreAt(g(M), CursorWord, 1, M)
        /\ XTeletype(s, Ia32Pages) = StoreAt(g(Ia32Pages), CursorWord, 1, Ia32Pages)
    BY DEF XTeletype, t, d, e, f, row
  <2> HIDE DEF g
  <2>8. Pair(StoreAt(g(M), CursorWord, 1, M), StoreAt(g(Ia32Pages), CursorWord, 1, Ia32Pages))
    BY <2>1, <2>6, PairStore
  <2> QED
    BY <2>7, <2>8
<1> QED
  BY <1>4, <1>5, <1>6, <1>7, <1>8

\* Several pushes and pops.
LEMMA PairMany ==
  ASSUME NEW s \in Ia32States, NEW M
  PROVE  /\ Pair(XPushAll(s, M), XPushAll(s, Ia32Pages))
         /\ Pair(XPopAll(s, M), XPopAll(s, Ia32Pages))
         /\ Pair(XCallFar(s, M), XCallFar(s, Ia32Pages))
         /\ Pair(XRetFar(s, M), XRetFar(s, Ia32Pages))
         /\ Pair(XInt(s, M), XInt(s, Ia32Pages))
         /\ Pair(XIret(s, M), XIret(s, Ia32Pages))
<1>1. Pair(s, s)
  BY DEF Pair
<1>2. /\ s.acc \in Nat /\ s.cf \in Nat /\ s.sp % 2 \in Nat /\ 0 \in Nat /\ 1 \in Nat
      /\ 0 \in Ia32Data /\ 1 \in Ia32Data /\ s.mem[At(s.sp + 2)] \in Nat
  BY StateFields, ValuesOf, DataIs
<1>3. /\ Pair(Push(s, s.acc, M), Push(s, s.acc, Ia32Pages)) /\ Pair(Push(s, 1, M), Push(s, 1, Ia32Pages))
      /\ Pair(Push(s, s.cf, M), Push(s, s.cf, Ia32Pages)) /\ Pair(Pop(s, M), Pop(s, Ia32Pages))
  BY <1>1, <1>2, PairPush, PairPop
<1>4. Pair(XPushAll(s, M), XPushAll(s, Ia32Pages))
  <2>1. Pair(Push(Push(s, s.acc, M), s.sp % 2, M), Push(Push(s, s.acc, Ia32Pages), s.sp % 2, Ia32Pages))
    BY <1>2, <1>3, PairPush
  <2> QED
    BY <1>2, <2>1, PairPush DEF XPushAll
<1>5. Pair(Pop(Pop(s, M), M), Pop(Pop(s, Ia32Pages), Ia32Pages))
  BY <1>3, PairPop
<1>6. Pair(Pop(Pop(Pop(s, M), M), M), Pop(Pop(Pop(s, Ia32Pages), Ia32Pages), Ia32Pages))
  BY <1>5, PairPop
<1>7. Pair(XPopAll(s, M), XPopAll(s, Ia32Pages)) /\ Pair(XIret(s, M), XIret(s, Ia32Pages))
  BY <1>2, <1>6, PairSets DEF XPopAll, XIret
<1>8. Pair(XCallFar(s, M), XCallFar(s, Ia32Pages))
  BY <1>2, <1>3, PairPush DEF XCallFar
<1>9. Pair(XRetFar(s, M), XRetFar(s, Ia32Pages))
  BY <1>5 DEF XRetFar
<1>10. Pair(XInt(s, M), XInt(s, Ia32Pages))
  <2> DEFINE p(N) == Push(Push(s, s.cf, N), 1, N)
             q(N) == Push(p(N), 0, N)
             r(N) == Touch(q(N), 0, N)
             t(N) == Touch(r(N), 1, N)
  <2>1. Pair(p(M), p(Ia32Pages))
    BY <1>2, <1>3, PairPush
  <2> HIDE DEF p
  <2>2. Pair(q(M), q(Ia32Pages))
    BY <1>2, <2>1, PairPush
  <2> HIDE DEF q
  <2>3. Pair(r(M), r(Ia32Pages))
    BY <1>2, <2>2, PairTouch
  <2> HIDE DEF r
  <2>4. Pair(t(M), t(Ia32Pages))
    BY <1>2, <2>3, PairTouch
  <2> HIDE DEF t
  <2>5. /\ XInt(s, M) = SetCf(t(M), s.cf)
        /\ XInt(s, Ia32Pages) = SetCf(t(Ia32Pages), s.cf)
    BY DEF XInt, SetCf, t, r, q, p
  <2> QED
    BY <1>2, <2>4, <2>5, PairSets
<1> QED
  BY <1>4, <1>7, <1>8, <1>9, <1>10

\* The function that Repeat chooses: what each round leaves.
Rounds(f, s, b, N) ==
  f = [n \in 0 .. N |-> IF n = 0 THEN s ELSE IF Ok(f[n - 1]) THEN b[f[n - 1]] ELSE f[n - 1]]

LEMMA RoundsExist ==
  ASSUME NEW s, NEW b, NEW N \in Nat
  PROVE  \E f : Rounds(f, s, b, N)
<1> DEFINE S == {m \in Nat : ~(\E f : Rounds(f, s, b, m))}
<1> SUFFICES ASSUME S # {} PROVE FALSE
  OBVIOUS
<1>1. PICK m \in S : \A k \in S : m <= k
  BY LeastNatural
<1>2. m # 0
  <2>1. Rounds([k \in 0 .. 0 |-> s], s, b, 0)
    BY DEF Rounds
  <2> QED
    BY <2>1
<1>3. m - 1 \in Nat /\ m - 1 \notin S
  BY <1>1, <1>2
<1>4. PICK g : Rounds(g, s, b, m - 1)
  BY <1>3
<1> DEFINE h == [k \in 0 .. m |-> IF k = 0 THEN s ELSE IF Ok(g[k - 1]) THEN b[g[k - 1]] ELSE g[k - 1]]
<1>5. \A k \in 0 .. m - 1 : g[k] = IF k = 0 THEN s ELSE IF Ok(g[k - 1]) THEN b[g[k - 1]] ELSE g[k - 1]
  BY <1>4 DEF Rounds
<1>6. \A k \in 0 .. m - 1 : h[k] = g[k]
  BY <1>3, <1>5
<1>7. \A k \in 0 .. m : k # 0 => h[k - 1] = g[k - 1]
  BY <1>3, <1>6
<1>8. Rounds(h, s, b, m)
  BY <1>7 DEF Rounds
<1> QED
  BY <1>1, <1>8

LEMMA RepeatIs ==
  ASSUME NEW s, NEW b, s.cx \in Nat
  PROVE  \E f : Rounds(f, s, b, s.cx) /\ Repeat(s, b) = f[s.cx]
<1> DEFINE f == CHOOSE f : Rounds(f, s, b, s.cx)
<1>1. Rounds(f, s, b, s.cx)
  BY RoundsExist
<1>2. Repeat(s, b) = f[s.cx]
  BY DEF Repeat, Rounds
<1> QED
  BY <1>1, <1>2

LEMMA RoundsStep ==
  ASSUME NEW f, NEW s, NEW b, NEW N \in Nat, Rounds(f, s, b, N)
  PROVE  /\ f[0] = s
         /\ \A n \in 1 .. N : /\ n - 1 \in 0 .. N /\ n \in 0 .. N
                              /\ Ok(f[n - 1]) => f[n] = b[f[n - 1]]
                              /\ ~Ok(f[n - 1]) => f[n] = f[n - 1]
<1>1. \A n \in 0 .. N : f[n] = IF n = 0 THEN s ELSE IF Ok(f[n - 1]) THEN b[f[n - 1]] ELSE f[n - 1]
  BY DEF Rounds
<1>2. \A n \in 1 .. N : n \in 0 .. N /\ n - 1 \in 0 .. N /\ n # 0
  OBVIOUS
<1> QED
  BY <1>1, <1>2

\* A round that takes states to states, and counts down by no more than one.
RoundOk(b) == \A t \in Ia32States : t.cx > 0 => b[t] \in Ia32States /\ b[t].cx >= t.cx - 1

LEMMA RoundsTyped ==
  ASSUME NEW s \in Ia32States, NEW b, RoundOk(b), NEW f, Rounds(f, s, b, s.cx)
  PROVE  \A n \in 0 .. s.cx : f[n] \in Ia32States /\ f[n].cx >= s.cx - n
<1>1. s.cx \in Nat
  BY StateFields
<1> DEFINE S == {n \in 0 .. s.cx : ~(f[n] \in Ia32States /\ f[n].cx >= s.cx - n)}
<1> SUFFICES ASSUME S # {} PROVE FALSE
  OBVIOUS
<1>2. PICK n \in S : \A k \in S : n <= k
  <2>1. S \in SUBSET Nat
    BY <1>1
  <2> QED
    BY <2>1, LeastNatural
<1>3. n # 0
  BY <1>1, RoundsStep
<1>4. n \in 1 .. s.cx /\ n - 1 \in 0 .. s.cx /\ n - 1 \notin S
  BY <1>1, <1>2, <1>3
<1>5. f[n - 1] \in Ia32States /\ f[n - 1].cx >= s.cx - (n - 1)
  BY <1>4
<1>6. f[n - 1].cx \in Nat /\ f[n - 1].cx > 0
  BY <1>1, <1>4, <1>5, StateFields
<1>7. f[n] = b[f[n - 1]] \/ f[n] = f[n - 1]
  BY <1>1, <1>4, RoundsStep
<1>8. f[n] \in Ia32States /\ f[n].cx >= f[n - 1].cx - 1
  <2>1. CASE f[n] = b[f[n - 1]]
    BY <1>5, <1>6, <2>1 DEF RoundOk
  <2>2. CASE f[n] = f[n - 1]
    BY <1>5, <1>6, <2>2
  <2> QED
    BY <1>7, <2>1, <2>2
<1>9. f[n].cx \in Nat
  BY <1>8, StateFields
<1> DEFINE c == f[n].cx
           d == f[n - 1].cx
<1>10. c \in Nat /\ d \in Nat /\ c >= d - 1 /\ d >= s.cx - (n - 1) /\ n \in Nat /\ s.cx \in Nat
  BY <1>1, <1>4, <1>5, <1>6, <1>8, <1>9
<1> HIDE DEF c, d
<1>11. c >= s.cx - n
  BY <1>10
<1> QED
  BY <1>2, <1>8, <1>11 DEF c

\* Rounds that agree wherever the first does not fault.
LEMMA RoundsAgree ==
  ASSUME NEW s \in Ia32States, NEW b, RoundOk(b), NEW c, NEW f, Rounds(f, s, b, s.cx),
         NEW g, Rounds(g, s, c, s.cx),
         \A t \in Ia32States : t.cx > 0 /\ Ok(t) /\ Ok(b[t]) => b[t] = c[t]
  PROVE  \A n \in 0 .. s.cx : Ok(f[n]) => f[n] = g[n]
<1>1. s.cx \in Nat
  BY StateFields
<1> DEFINE S == {n \in 0 .. s.cx : ~(Ok(f[n]) => f[n] = g[n])}
<1> SUFFICES ASSUME S # {} PROVE FALSE
  OBVIOUS
<1>2. PICK n \in S : \A k \in S : n <= k
  <2>1. S \in SUBSET Nat
    BY <1>1
  <2> QED
    BY <2>1, LeastNatural
<1>3. n # 0
  BY <1>1, RoundsStep
<1>4. n \in 1 .. s.cx /\ n - 1 \in 0 .. s.cx /\ n - 1 \notin S
  BY <1>1, <1>2, <1>3
<1>5. f[n - 1] \in Ia32States /\ f[n - 1].cx > 0
  <2>1. f[n - 1] \in Ia32States /\ f[n - 1].cx >= s.cx - (n - 1)
    BY <1>4, RoundsTyped
  <2>2. f[n - 1].cx \in Nat
    BY <2>1, StateFields
  <2> QED
    BY <1>1, <1>4, <2>1, <2>2
<1>6. /\ Ok(f[n - 1]) => f[n] = b[f[n - 1]]
      /\ ~Ok(f[n - 1]) => f[n] = f[n - 1]
      /\ Ok(g[n - 1]) => g[n] = c[g[n - 1]]
  BY <1>1, <1>4, RoundsStep
<1>7. Ok(f[n]) /\ f[n] # g[n]
  BY <1>2
<1>8. Ok(f[n - 1])
  BY <1>6, <1>7
<1>9. f[n - 1] = g[n - 1]
  BY <1>4, <1>8
<1> QED
  BY <1>5, <1>6, <1>7, <1>8, <1>9

LEMMA PairRepeat ==
  ASSUME NEW s \in Ia32States, NEW b, RoundOk(b), NEW c, RoundOk(c),
         \A t \in Ia32States : t.cx > 0 /\ Ok(t) /\ Ok(b[t]) => b[t] = c[t]
  PROVE  Pair(Repeat(s, b), Repeat(s, c))
<1>1. s.cx \in Nat /\ s.cx \in 0 .. s.cx
  <2>1. s.cx \in Nat
    BY StateFields
  <2> QED
    BY <2>1
<1>2. PICK f : Rounds(f, s, b, s.cx) /\ Repeat(s, b) = f[s.cx]
  BY <1>1, RepeatIs
<1>3. PICK g : Rounds(g, s, c, s.cx) /\ Repeat(s, c) = g[s.cx]
  BY <1>1, RepeatIs
<1>4. f[s.cx] \in Ia32States
  BY <1>1, <1>2, RoundsTyped
<1>5. g[s.cx] \in Ia32States
  BY <1>1, <1>3, RoundsTyped
<1>6. Ok(f[s.cx]) => f[s.cx] = g[s.cx]
  BY <1>1, <1>2, <1>3, RoundsAgree
<1> QED
  BY <1>2, <1>3, <1>4, <1>5, <1>6 DEF Pair

LEMMA KeepsCount ==
  ASSUME NEW t \in Ia32States, NEW M, NEW a \in Ia32Data, NEW v \in Nat
  PROVE  /\ Touch(t, a, M) \in Ia32States /\ Touch(t, a, M).cx = t.cx
         /\ StoreAt(t, a, v, M) \in Ia32States /\ StoreAt(t, a, v, M).cx = t.cx
         /\ SetAcc(t, v) \in Ia32States /\ SetAcc(t, v).cx = t.cx
<1>1. PageOf(a) \in Ia32Pages
  BY DataIs
<1>2. Touch(t, a, M) \in Ia32States /\ Touch(t, a, M).cx = t.cx
  BY <1>1, WithFault DEF Touch
<1> DEFINE u == Touch(t, a, M)
<1>3. StoreAt(t, a, v, M) = IF Ok(u) THEN [u EXCEPT !.mem[a] = v] ELSE u
  BY DEF StoreAt
<1> HIDE DEF u
<1>4. u \in Ia32States /\ u.cx = t.cx
  BY <1>2 DEF u
<1>5. StoreAt(t, a, v, M) \in Ia32States /\ StoreAt(t, a, v, M).cx = t.cx
  BY <1>3, <1>4, WithWord
<1>6. SetAcc(t, v) \in Ia32States /\ SetAcc(t, v).cx = t.cx
  <2>1. 0 \in Ia32Data /\ 0 \in Nat
    BY DataIs
  <2> QED
    BY <2>1, WithRegs DEF SetAcc
<1> QED
  BY <1>2, <1>5, <1>6

\* A word taken from the device.
Taken(u) == [u EXCEPT !.mem[u.di] = u.dev % 2, !.dev = @ + 1, !.di = At(@ + 1), !.cx = @ - 1]

LEMMA TakenIs ==
  ASSUME NEW u \in Ia32States, u.cx > 0
  PROVE  Taken(u) \in Ia32States /\ Taken(u).cx = u.cx - 1 /\ Taken(u).fault = u.fault
<1>1. /\ u.di \in Ia32Data /\ u.di \in Int /\ u.dev \in Nat /\ u.cx \in Nat
  BY StateFields, DataIs
<1>2. u.cx - 1 \in Nat /\ u.dev + 1 \in Nat /\ u.dev % 2 \in Nat
  <2> DEFINE n == u.dev
  <2>1. n \in Nat
    BY <1>1
  <2> HIDE DEF n
  <2>2. n % 2 \in Nat /\ n + 1 \in Nat
    BY <2>1
  <2> QED
    BY <1>1, <2>2 DEF n
<1>3. At(u.di + 1) \in Ia32Data
  <2>1. u.di + 1 \in Int
    BY <1>1
  <2> QED
    BY <2>1, DataIs
<1> DEFINE d == u.dev % 2
           e == u.dev + 1
           i == At(u.di + 1)
           c == u.cx - 1
           p == [u EXCEPT !.mem[u.di] = d]
           q == [p EXCEPT !.dev = e]
           r == [q EXCEPT !.di = i]
           w == [r EXCEPT !.cx = c]
<1>4. Taken(u) = [u EXCEPT !.mem[u.di] = d, !.dev = e, !.di = i, !.cx = c]
  BY DEF Taken
<1> HIDE DEF d, e, i, c
<1>5. Taken(u) = w
  BY <1>4
<1>6. p \in Ia32States /\ p.fault = u.fault /\ p.cx = u.cx
  BY <1>1, <1>2, WithWord DEF d
<1> HIDE DEF p
<1>7. q \in Ia32States /\ q.fault = p.fault
  BY <1>2, <1>3, <1>6, WithRegs DEF e, i, c
<1> HIDE DEF q
<1>8. r \in Ia32States /\ r.fault = q.fault
  BY <1>2, <1>3, <1>7, WithRegs DEF e, i, c
<1> HIDE DEF r
<1>9. w \in Ia32States /\ w.fault = r.fault /\ w.cx = c
  <2>1. c \in Nat /\ 0 \in Ia32Data /\ 0 \in Nat
    BY <1>2, DataIs DEF c
  <2> QED
    BY <1>8, <2>1, WithRegs
<1> QED
  BY <1>5, <1>6, <1>7, <1>8, <1>9 DEF c

\* A round of REP INS.
InsRound(M) ==
  [t \in Ia32States |->
    LET u == Touch(t, t.di, M)
    IN  IF Ok(u) THEN [u EXCEPT !.mem[t.di] = t.dev % 2, !.dev = @ + 1,
                                !.di = At(@ + 1), !.cx = @ - 1]
                 ELSE u]

LEMMA InsIs ==
  ASSUME NEW s, NEW M
  PROVE  XRepIns(s, M) = Repeat(s, InsRound(M))
BY DEF XRepIns, InsRound

LEMMA InsRoundIs ==
  ASSUME NEW t \in Ia32States, NEW M
  PROVE  /\ Ok(t) /\ PageOf(t.di) \in M => InsRound(M)[t] = Taken(t)
         /\ Ok(t) /\ PageOf(t.di) \notin M => InsRound(M)[t] = [t EXCEPT !.fault = PageOf(t.di)]
         /\ ~Ok(t) => InsRound(M)[t] = t
<1> DEFINE u == Touch(t, t.di, M)
<1>1. InsRound(M)[t] = IF Ok(u) THEN [u EXCEPT !.mem[t.di] = t.dev % 2, !.dev = @ + 1,
                                               !.di = At(@ + 1), !.cx = @ - 1]
                                ELSE u
  BY DEF InsRound
<1>2. PageOf(t.di) \in Ia32Pages /\ PageOf(t.di) # NoPage
  BY StateFields, DataIs
<1>3. CASE Ok(t) /\ PageOf(t.di) \in M
  <2>1. u = t
    BY <1>3 DEF Touch
  <2> QED
    BY <1>1, <1>3, <2>1 DEF Taken
<1>4. CASE Ok(t) /\ PageOf(t.di) \notin M
  <2>1. u = [t EXCEPT !.fault = PageOf(t.di)]
    BY <1>4 DEF Touch
  <2>2. ~Ok(u)
    BY <1>2, <2>1, WithFault DEF Ok
  <2> QED
    BY <1>1, <1>4, <2>1, <2>2
<1>5. CASE ~Ok(t)
  <2>1. u = t
    BY <1>5 DEF Touch
  <2> QED
    BY <1>1, <1>5, <2>1
<1> QED
  BY <1>3, <1>4, <1>5

LEMMA InsRoundOk ==
  ASSUME NEW M
  PROVE  /\ RoundOk(InsRound(M))
         /\ \A t \in Ia32States : t.cx > 0 /\ Ok(t) /\ Ok(InsRound(M)[t]) =>
              InsRound(M)[t] = InsRound(Ia32Pages)[t]
<1> SUFFICES ASSUME NEW t \in Ia32States, t.cx > 0
             PROVE  /\ InsRound(M)[t] \in Ia32States /\ InsRound(M)[t].cx >= t.cx - 1
                    /\ Ok(t) /\ Ok(InsRound(M)[t]) => InsRound(M)[t] = InsRound(Ia32Pages)[t]
  BY DEF RoundOk
<1>1. PageOf(t.di) \in Ia32Pages /\ PageOf(t.di) # NoPage /\ t.cx \in Nat
  BY StateFields, DataIs
<1>2. /\ Taken(t) \in Ia32States /\ Taken(t).cx >= t.cx - 1
  <2>1. Taken(t) \in Ia32States /\ Taken(t).cx = t.cx - 1
    BY TakenIs
  <2> QED
    BY <1>1, <2>1
<1>3. CASE Ok(t) /\ PageOf(t.di) \in M
  BY <1>1, <1>2, <1>3, InsRoundIs
<1>4. CASE Ok(t) /\ PageOf(t.di) \notin M
  <2>1. InsRound(M)[t] = [t EXCEPT !.fault = PageOf(t.di)]
    BY <1>4, InsRoundIs
  <2>2. InsRound(M)[t] \in Ia32States /\ InsRound(M)[t].cx = t.cx /\ InsRound(M)[t].fault = PageOf(t.di)
    BY <1>1, <2>1, WithFault
  <2> QED
    BY <1>1, <2>2 DEF Ok
<1>5. CASE ~Ok(t)
  <2>1. InsRound(M)[t] = t
    BY <1>5, InsRoundIs
  <2> QED
    BY <1>1, <1>5, <2>1
<1> QED
  BY <1>3, <1>4, <1>5

\* The rounds of the other three: what the access leaves, and the registers
\* moved on if it did not fault.
LEMMA MovedOn ==
  ASSUME NEW u \in Ia32States
  PROVE  /\ [u EXCEPT !.si = At(@ + 1), !.di = At(@ + 1)] \in Ia32States
         /\ [u EXCEPT !.si = At(@ + 1), !.di = At(@ + 1)].cx = u.cx
         /\ [u EXCEPT !.di = At(@ + 1)] \in Ia32States /\ [u EXCEPT !.di = At(@ + 1)].cx = u.cx
         /\ [u EXCEPT !.si = At(@ + 1)] \in Ia32States /\ [u EXCEPT !.si = At(@ + 1)].cx = u.cx
         /\ [u EXCEPT !.si = At(@ + 1), !.di = At(@ + 1)].fault = u.fault
         /\ [u EXCEPT !.di = At(@ + 1)].fault = u.fault /\ [u EXCEPT !.si = At(@ + 1)].fault = u.fault
<1>1. u.si \in Int /\ u.di \in Int /\ 0 \in Nat
  BY StateFields, DataIs
<1>2. u.si + 1 \in Int /\ u.di + 1 \in Int
  BY <1>1
<1> DEFINE i == At(u.si + 1)
           d == At(u.di + 1)
           p == [u EXCEPT !.si = i]
<1>3. i \in Ia32Data /\ d \in Ia32Data
  BY <1>2, DataIs
<1>4. [u EXCEPT !.si = At(@ + 1), !.di = At(@ + 1)] = [p EXCEPT !.di = d]
  OBVIOUS
<1>5. [u EXCEPT !.di = At(@ + 1)] = [u EXCEPT !.di = d] /\ [u EXCEPT !.si = At(@ + 1)] = p
  OBVIOUS
<1> HIDE DEF i, d
<1>6. p \in Ia32States /\ p.cx = u.cx /\ p.fault = u.fault
  BY <1>1, <1>3, WithRegs
<1> HIDE DEF p
<1>7. [p EXCEPT !.di = d] \in Ia32States /\ [p EXCEPT !.di = d].cx = p.cx /\ [p EXCEPT !.di = d].fault = p.fault
  BY <1>1, <1>3, <1>6, WithRegs
<1>8. [u EXCEPT !.di = d] \in Ia32States /\ [u EXCEPT !.di = d].cx = u.cx /\ [u EXCEPT !.di = d].fault = u.fault
  BY <1>1, <1>3, WithRegs
<1> QED
  BY <1>4, <1>5, <1>6, <1>7, <1>8

MovsRound(M) ==
  [t \in Ia32States |->
    LET u == StoreAt(Touch(t, t.si, M), t.di, t.mem[t.si], M)
    IN  IF Ok(u) THEN [u EXCEPT !.si = At(@ + 1), !.di = At(@ + 1)] ELSE u]
StosRound(M) ==
  [t \in Ia32States |->
    LET u == StoreAt(t, t.di, t.acc, M) IN IF Ok(u) THEN [u EXCEPT !.di = At(@ + 1)] ELSE u]
LodsRound(M) ==
  [t \in Ia32States |->
    LET u == SetAcc(Touch(t, t.si, M), t.mem[t.si])
    IN  IF Ok(u) THEN [u EXCEPT !.si = At(@ + 1)] ELSE u]

LEMMA OthersAre ==
  ASSUME NEW s, NEW M
  PROVE  /\ XRepMovs(s, M) = CountAtEnd(Repeat(s, MovsRound(M)))
         /\ XRepStos(s, M) = CountAtEnd(Repeat(s, StosRound(M)))
         /\ XRepLods(s, M) = CountAtEnd(Repeat(s, LodsRound(M)))
BY DEF XRepMovs, XRepStos, XRepLods, MovsRound, StosRound, LodsRound

LEMMA MovsRoundOk ==
  ASSUME NEW M
  PROVE  /\ RoundOk(MovsRound(M))
         /\ \A t \in Ia32States : t.cx > 0 /\ Ok(t) /\ Ok(MovsRound(M)[t]) =>
              MovsRound(M)[t] = MovsRound(Ia32Pages)[t]
<1> SUFFICES ASSUME NEW t \in Ia32States, t.cx > 0
             PROVE  /\ MovsRound(M)[t] \in Ia32States /\ MovsRound(M)[t].cx >= t.cx - 1
                    /\ Ok(t) /\ Ok(MovsRound(M)[t]) => MovsRound(M)[t] = MovsRound(Ia32Pages)[t]
  BY DEF RoundOk
<1> DEFINE u(N) == StoreAt(Touch(t, t.si, N), t.di, t.mem[t.si], N)
           n(N) == [u(N) EXCEPT !.si = At(@ + 1), !.di = At(@ + 1)]
<1>1. t.si \in Ia32Data /\ t.di \in Ia32Data /\ t.mem[t.si] \in Nat /\ t.cx \in Nat
  BY StateFields
<1>2. Pair(t, t)
  BY DEF Pair
<1>3. Pair(Touch(t, t.si, M), Touch(t, t.si, Ia32Pages))
  BY <1>1, <1>2, PairTouch
<1>4. Pair(u(M), u(Ia32Pages))
  BY <1>1, <1>3, PairStore
<1>5. u(M).cx = t.cx
  <2>1. Touch(t, t.si, M) \in Ia32States /\ Touch(t, t.si, M).cx = t.cx
    BY <1>1, KeepsCount
  <2> DEFINE v == Touch(t, t.si, M)
  <2> HIDE DEF v
  <2>2. v \in Ia32States /\ v.cx = t.cx
    BY <2>1 DEF v
  <2>3. StoreAt(v, t.di, t.mem[t.si], M).cx = v.cx
    BY <1>1, <2>2, KeepsCount
  <2> QED
    BY <2>2, <2>3 DEF v
<1>6. \A N : MovsRound(N)[t] = IF Ok(u(N)) THEN n(N) ELSE u(N)
  BY DEF MovsRound
<1> HIDE DEF u
<1>7. u(M) \in Ia32States /\ (Ok(u(M)) => u(M) = u(Ia32Pages))
  BY <1>4 DEF Pair
<1>8. n(M) \in Ia32States /\ n(M).cx = u(M).cx /\ n(M).fault = u(M).fault
  BY <1>7, MovedOn
<1> HIDE DEF n
<1>9. MovsRound(M)[t] \in Ia32States /\ MovsRound(M)[t].cx = t.cx
  BY <1>5, <1>6, <1>7, <1>8
<1>10. Ok(MovsRound(M)[t]) => Ok(u(M))
  BY <1>6
<1>11. Ok(u(M)) => MovsRound(M)[t] = MovsRound(Ia32Pages)[t]
  BY <1>6, <1>7 DEF n
<1> QED
  BY <1>1, <1>9, <1>10, <1>11

LEMMA StosRoundOk ==
  ASSUME NEW M
  PROVE  /\ RoundOk(StosRound(M))
         /\ \A t \in Ia32States : t.cx > 0 /\ Ok(t) /\ Ok(StosRound(M)[t]) =>
              StosRound(M)[t] = StosRound(Ia32Pages)[t]
<1> SUFFICES ASSUME NEW t \in Ia32States, t.cx > 0
             PROVE  /\ StosRound(M)[t] \in Ia32States /\ StosRound(M)[t].cx >= t.cx - 1
                    /\ Ok(t) /\ Ok(StosRound(M)[t]) => StosRound(M)[t] = StosRound(Ia32Pages)[t]
  BY DEF RoundOk
<1> DEFINE u(N) == StoreAt(t, t.di, t.acc, N)
           n(N) == [u(N) EXCEPT !.di = At(@ + 1)]
<1>1. t.di \in Ia32Data /\ t.acc \in Nat /\ t.cx \in Nat
  BY StateFields
<1>2. Pair(t, t)
  BY DEF Pair
<1>4. Pair(u(M), u(Ia32Pages))
  BY <1>1, <1>2, PairStore
<1>5. u(M).cx = t.cx
  BY <1>1, KeepsCount
<1>6. \A N : StosRound(N)[t] = IF Ok(u(N)) THEN n(N) ELSE u(N)
  BY DEF StosRound
<1> HIDE DEF u
<1>7. u(M) \in Ia32States /\ (Ok(u(M)) => u(M) = u(Ia32Pages))
  BY <1>4 DEF Pair
<1>8. n(M) \in Ia32States /\ n(M).cx = u(M).cx /\ n(M).fault = u(M).fault
  BY <1>7, MovedOn
<1> HIDE DEF n
<1>9. StosRound(M)[t] \in Ia32States /\ StosRound(M)[t].cx = t.cx
  BY <1>5, <1>6, <1>7, <1>8
<1>10. Ok(StosRound(M)[t]) => Ok(u(M))
  BY <1>6
<1>11. Ok(u(M)) => StosRound(M)[t] = StosRound(Ia32Pages)[t]
  BY <1>6, <1>7 DEF n
<1> QED
  BY <1>1, <1>9, <1>10, <1>11

LEMMA LodsRoundOk ==
  ASSUME NEW M
  PROVE  /\ RoundOk(LodsRound(M))
         /\ \A t \in Ia32States : t.cx > 0 /\ Ok(t) /\ Ok(LodsRound(M)[t]) =>
              LodsRound(M)[t] = LodsRound(Ia32Pages)[t]
<1> SUFFICES ASSUME NEW t \in Ia32States, t.cx > 0
             PROVE  /\ LodsRound(M)[t] \in Ia32States /\ LodsRound(M)[t].cx >= t.cx - 1
                    /\ Ok(t) /\ Ok(LodsRound(M)[t]) => LodsRound(M)[t] = LodsRound(Ia32Pages)[t]
  BY DEF RoundOk
<1> DEFINE u(N) == SetAcc(Touch(t, t.si, N), t.mem[t.si])
           n(N) == [u(N) EXCEPT !.si = At(@ + 1)]
<1>1. t.si \in Ia32Data /\ t.mem[t.si] \in Nat /\ t.cx \in Nat
  BY StateFields
<1>2. Pair(t, t)
  BY DEF Pair
<1>3. Pair(Touch(t, t.si, M), Touch(t, t.si, Ia32Pages))
  BY <1>1, <1>2, PairTouch
<1>4. Pair(u(M), u(Ia32Pages))
  BY <1>1, <1>3, PairSets
<1>5. u(M).cx = t.cx
  <2>1. Touch(t, t.si, M) \in Ia32States /\ Touch(t, t.si, M).cx = t.cx
    BY <1>1, KeepsCount
  <2> DEFINE v == Touch(t, t.si, M)
  <2> HIDE DEF v
  <2>2. v \in Ia32States /\ v.cx = t.cx
    BY <2>1 DEF v
  <2>3. SetAcc(v, t.mem[t.si]).cx = v.cx
    BY <1>1, <2>2, KeepsCount
  <2> QED
    BY <2>2, <2>3 DEF v
<1>6. \A N : LodsRound(N)[t] = IF Ok(u(N)) THEN n(N) ELSE u(N)
  BY DEF LodsRound
<1> HIDE DEF u
<1>7. u(M) \in Ia32States /\ (Ok(u(M)) => u(M) = u(Ia32Pages))
  BY <1>4 DEF Pair
<1>8. n(M) \in Ia32States /\ n(M).cx = u(M).cx /\ n(M).fault = u(M).fault
  BY <1>7, MovedOn
<1> HIDE DEF n
<1>9. LodsRound(M)[t] \in Ia32States /\ LodsRound(M)[t].cx = t.cx
  BY <1>5, <1>6, <1>7, <1>8
<1>10. Ok(LodsRound(M)[t]) => Ok(u(M))
  BY <1>6
<1>11. Ok(u(M)) => LodsRound(M)[t] = LodsRound(Ia32Pages)[t]
  BY <1>6, <1>7 DEF n
<1> QED
  BY <1>1, <1>9, <1>10, <1>11

LEMMA PairCount ==
  ASSUME NEW t, NEW u, Pair(t, u)
  PROVE  Pair(CountAtEnd(t), CountAtEnd(u))
<1>1. t \in Ia32States /\ u \in Ia32States /\ (Ok(t) => t = u)
  BY DEF Pair
<1>2. 0 \in Ia32Data /\ 0 \in Nat
  BY DataIs
<1>3. CountAtEnd(t) \in Ia32States /\ CountAtEnd(u) \in Ia32States
  BY <1>1, <1>2, WithRegs DEF CountAtEnd
<1>4. Ok(CountAtEnd(t)) => CountAtEnd(t) = CountAtEnd(u)
  BY <1>1 DEF CountAtEnd
<1> QED
  BY <1>3, <1>4 DEF Pair

LEMMA PairStrings ==
  ASSUME NEW s \in Ia32States, NEW M
  PROVE  /\ Pair(XRepIns(s, M), XRepIns(s, Ia32Pages))
         /\ Pair(XRepMovs(s, M), XRepMovs(s, Ia32Pages))
         /\ Pair(XRepStos(s, M), XRepStos(s, Ia32Pages))
         /\ Pair(XRepLods(s, M), XRepLods(s, Ia32Pages))
<1>1. Pair(Repeat(s, InsRound(M)), Repeat(s, InsRound(Ia32Pages)))
  BY InsRoundOk, PairRepeat
<1>2. Pair(Repeat(s, MovsRound(M)), Repeat(s, MovsRound(Ia32Pages)))
  BY MovsRoundOk, PairRepeat
<1>3. Pair(Repeat(s, StosRound(M)), Repeat(s, StosRound(Ia32Pages)))
  BY StosRoundOk, PairRepeat
<1>4. Pair(Repeat(s, LodsRound(M)), Repeat(s, LodsRound(Ia32Pages)))
  BY LodsRoundOk, PairRepeat
<1> QED
  BY <1>1, <1>2, <1>3, <1>4, PairCount, InsIs, OthersAre

\* The state of a faulted attempt once the handler has inserted the translation.
Lifted(t) == [t EXCEPT !.fault = NoPage]

LEMMA LiftedIs ==
  ASSUME NEW t \in Ia32States
  PROVE  /\ Lifted(t) \in Ia32States /\ Ok(Lifted(t))
         /\ Ok(t) => \A p : Lifted([t EXCEPT !.fault = p]) = t
<1>1. NoPage \in Ia32Pages \cup {NoPage}
  OBVIOUS
<1>2. Lifted(t) \in Ia32States /\ Ok(Lifted(t))
  BY <1>1, WithFault DEF Lifted, Ok
<1>3. ASSUME Ok(t), NEW p PROVE Lifted([t EXCEPT !.fault = p]) = t
  BY <1>3 DEF Lifted, Ok, Ia32States
<1> QED
  BY <1>2, <1>3

\* A round of REP INS that faults has changed nothing.
LEMMA InsLifted ==
  ASSUME NEW t \in Ia32States, NEW M, Ok(t), ~Ok(InsRound(M)[t]), t.cx > 0
  PROVE  Lifted(InsRound(M)[t]) = t
<1>1. PageOf(t.di) \notin M
  <2>1. PageOf(t.di) \in M => InsRound(M)[t] = Taken(t)
    BY InsRoundIs
  <2>2. Ok(Taken(t))
    BY TakenIs DEF Ok
  <2> QED
    BY <2>1, <2>2
<1> QED
  BY <1>1, InsRoundIs, LiftedIs

\* With every page translating no round faults, and each counts one down.
LEMMA InsRounds ==
  ASSUME NEW s \in Ia32States, Ok(s), NEW g, Rounds(g, s, InsRound(Ia32Pages), s.cx)
  PROVE  \A n \in 0 .. s.cx : g[n] \in Ia32States /\ Ok(g[n]) /\ g[n].cx = s.cx - n
<1>1. s.cx \in Nat
  BY StateFields
<1> DEFINE S == {n \in 0 .. s.cx : ~(g[n] \in Ia32States /\ Ok(g[n]) /\ g[n].cx = s.cx - n)}
<1> SUFFICES ASSUME S # {} PROVE FALSE
  OBVIOUS
<1>2. PICK n \in S : \A k \in S : n <= k
  <2>1. S \in SUBSET Nat
    BY <1>1
  <2> QED
    BY <2>1, LeastNatural
<1>3. n # 0
  BY <1>1, RoundsStep
<1>4. n \in 1 .. s.cx /\ n - 1 \in 0 .. s.cx /\ n - 1 \notin S
  BY <1>1, <1>2, <1>3
<1>5. g[n - 1] \in Ia32States /\ Ok(g[n - 1]) /\ g[n - 1].cx = s.cx - (n - 1)
  BY <1>4
<1>6. g[n - 1].cx > 0
  BY <1>1, <1>4, <1>5
<1>7. PageOf(g[n - 1].di) \in Ia32Pages
  BY <1>5, StateFields, DataIs
<1>8. g[n] = InsRound(Ia32Pages)[g[n - 1]]
  BY <1>1, <1>4, <1>5, RoundsStep
<1>9. g[n] = Taken(g[n - 1])
  BY <1>5, <1>7, <1>8, InsRoundIs
<1>10. g[n] \in Ia32States /\ g[n].cx = g[n - 1].cx - 1 /\ g[n].fault = g[n - 1].fault
  BY <1>5, <1>6, <1>9, TakenIs
<1>11. Ok(g[n])
  BY <1>5, <1>10 DEF Ok
<1>12. g[n].cx = s.cx - n
  BY <1>1, <1>4, <1>5, <1>10
<1> QED
  BY <1>2, <1>10, <1>11, <1>12

\* A faulted REP INS stands, once lifted, where an unfaulted one was on its way.
LEMMA InsStops ==
  ASSUME NEW s \in Ia32States, Ok(s), NEW M, NEW f, Rounds(f, s, InsRound(M), s.cx),
         NEW g, Rounds(g, s, InsRound(Ia32Pages), s.cx)
  PROVE  \A n \in 0 .. s.cx : ~Ok(f[n]) => \E m \in 0 .. s.cx : Lifted(f[n]) = g[m]
<1>1. s.cx \in Nat
  BY StateFields
<1> DEFINE S == {n \in 0 .. s.cx : ~(~Ok(f[n]) => \E m \in 0 .. s.cx : Lifted(f[n]) = g[m])}
<1> SUFFICES ASSUME S # {} PROVE FALSE
  OBVIOUS
<1>2. PICK n \in S : \A k \in S : n <= k
  <2>1. S \in SUBSET Nat
    BY <1>1
  <2> QED
    BY <2>1, LeastNatural
<1>3. ~Ok(f[n]) /\ ~ \E m \in 0 .. s.cx : Lifted(f[n]) = g[m]
  BY <1>2
<1>4. n # 0
  BY <1>1, <1>3, RoundsStep
<1>5. n \in 1 .. s.cx /\ n - 1 \in 0 .. s.cx /\ n - 1 \notin S
  BY <1>1, <1>2, <1>4
<1>6. /\ Ok(f[n - 1]) => f[n] = InsRound(M)[f[n - 1]]
      /\ ~Ok(f[n - 1]) => f[n] = f[n - 1]
  BY <1>1, <1>5, RoundsStep
<1>7. f[n - 1] \in Ia32States /\ f[n - 1].cx > 0
  <2>1. f[n - 1] \in Ia32States /\ f[n - 1].cx >= s.cx - (n - 1)
    BY <1>5, InsRoundOk, RoundsTyped
  <2>2. f[n - 1].cx \in Nat
    BY <2>1, StateFields
  <2> QED
    BY <1>1, <1>5, <2>1, <2>2
<1>8. CASE Ok(f[n - 1])
  <2>1. f[n - 1] = g[n - 1]
    <3>1. \A k \in 0 .. s.cx : Ok(f[k]) => f[k] = g[k]
      BY InsRoundOk, RoundsAgree
    <3> QED
      BY <1>5, <1>8, <3>1
  <2>2. Lifted(f[n]) = f[n - 1]
    BY <1>3, <1>6, <1>7, <1>8, InsLifted
  <2> QED
    BY <1>3, <1>5, <2>1, <2>2
<1>9. CASE ~Ok(f[n - 1])
  <2>1. \E m \in 0 .. s.cx : Lifted(f[n - 1]) = g[m]
    BY <1>5, <1>9
  <2> QED
    BY <1>3, <1>6, <1>9, <2>1
<1> QED
  BY <1>8, <1>9

\* And goes on from there as it would have.
LEMMA InsGoesOn ==
  ASSUME NEW s \in Ia32States, Ok(s), NEW g, Rounds(g, s, InsRound(Ia32Pages), s.cx),
         NEW m \in 0 .. s.cx
  PROVE  Repeat(g[m], InsRound(Ia32Pages)) = g[s.cx]
<1>1. s.cx \in Nat
  BY StateFields
<1>2. g[m] \in Ia32States /\ g[m].cx = s.cx - m /\ s.cx - m \in Nat
  BY <1>1, InsRounds
<1> DEFINE N == s.cx - m
<1>3. PICK h : Rounds(h, g[m], InsRound(Ia32Pages), g[m].cx) /\ Repeat(g[m], InsRound(Ia32Pages)) = h[g[m].cx]
  BY <1>2, RepeatIs
<1>4. Rounds(h, g[m], InsRound(Ia32Pages), N) /\ N \in Nat
  BY <1>2, <1>3
<1> HIDE DEF N
<1>5. \A k \in 0 .. N : h[k] = g[m + k]
  <2> DEFINE S == {k \in 0 .. N : h[k] # g[m + k]}
  <2> SUFFICES ASSUME S # {} PROVE FALSE
    OBVIOUS
  <2>1. PICK k \in S : \A j \in S : k <= j
    <3>1. S \in SUBSET Nat
      BY <1>4
    <3> QED
      BY <3>1, LeastNatural
  <2>2. k # 0
    <3>1. h[0] = g[m] /\ m + 0 = m
      BY <1>4, RoundsStep
    <3> QED
      BY <2>1, <3>1
  <2>3. k \in 1 .. N /\ k - 1 \in 0 .. N /\ k - 1 \notin S
    BY <1>4, <2>1, <2>2
  <2>4. h[k - 1] = g[m + (k - 1)]
    BY <2>3
  <2>5. m + k \in 1 .. s.cx /\ (m + k) - 1 = m + (k - 1) /\ (m + k) - 1 \in 0 .. s.cx
    BY <1>1, <2>3 DEF N
  <2>6. Ok(g[(m + k) - 1]) /\ g[m + k] = InsRound(Ia32Pages)[g[(m + k) - 1]]
    <3>1. Ok(g[(m + k) - 1])
      BY <2>5, InsRounds
    <3> QED
      BY <1>1, <2>5, <3>1, RoundsStep
  <2>7. h[k] = InsRound(Ia32Pages)[h[k - 1]]
    <3>1. Ok(h[k - 1])
      BY <2>4, <2>5, <2>6
    <3> QED
      BY <1>4, <2>3, <3>1, RoundsStep
  <2> QED
    BY <2>1, <2>4, <2>5, <2>6, <2>7
<1>6. N \in 0 .. N /\ m + N = s.cx
  BY <1>1, <1>4 DEF N
<1> QED
  BY <1>2, <1>3, <1>5, <1>6 DEF N

LEMMA InsRestarts ==
  ASSUME NEW s \in Ia32States, Ok(s), NEW M, ~Ok(XRepIns(s, M))
  PROVE  XRepIns(Lifted(XRepIns(s, M)), Ia32Pages) = XRepIns(s, Ia32Pages)
<1>1. s.cx \in Nat /\ s.cx \in 0 .. s.cx
  <2>1. s.cx \in Nat
    BY StateFields
  <2> QED
    BY <2>1
<1>2. PICK f : Rounds(f, s, InsRound(M), s.cx) /\ XRepIns(s, M) = f[s.cx]
  BY <1>1, RepeatIs, InsIs
<1>3. PICK g : Rounds(g, s, InsRound(Ia32Pages), s.cx) /\ XRepIns(s, Ia32Pages) = g[s.cx]
  BY <1>1, RepeatIs, InsIs
<1>4. PICK m \in 0 .. s.cx : Lifted(f[s.cx]) = g[m]
  BY <1>1, <1>2, <1>3, InsStops
<1>5. Repeat(g[m], InsRound(Ia32Pages)) = g[s.cx]
  BY <1>3, InsGoesOn
<1> QED
  BY <1>2, <1>3, <1>4, <1>5, InsIs

\* Nothing has been changed, or only where nothing has faulted.
Held(t, s) == t \in Ia32States /\ (Ok(t) => t = s) /\ (~Ok(t) => Lifted(t) = s)
Undone(t, s) == t \in Ia32States /\ (~Ok(t) => Lifted(t) = s)

LEMMA HeldTouch ==
  ASSUME NEW s, Ok(s), NEW t, Held(t, s), NEW M, NEW a \in Ia32Data \cup {CodeWord}
  PROVE  /\ Held(Touch(t, a, M), s)
         /\ Ok(Touch(t, a, M)) => Ok(t) /\ PageOf(a) \in M
         /\ ~Ok(t) => Touch(t, a, M) = t
<1>1. PageOf(a) \in Ia32Pages /\ PageOf(a) # NoPage
  BY DataIs
<1>2. t \in Ia32States /\ (Ok(t) => t = s) /\ (~Ok(t) => Lifted(t) = s)
  BY DEF Held
<1>3. CASE ~Ok(t) \/ PageOf(a) \in M
  <2>1. Touch(t, a, M) = t
    BY <1>3 DEF Touch
  <2> QED
    BY <1>3, <2>1
<1>4. CASE Ok(t) /\ PageOf(a) \notin M
  <2>1. Touch(t, a, M) = [t EXCEPT !.fault = PageOf(a)]
    BY <1>4 DEF Touch
  <2>2. Touch(t, a, M) \in Ia32States /\ ~Ok(Touch(t, a, M))
    BY <1>1, <1>2, <2>1, WithFault DEF Ok
  <2>3. Lifted(Touch(t, a, M)) = s
    BY <1>2, <1>4, <2>1, LiftedIs
  <2> QED
    BY <1>4, <2>2, <2>3 DEF Held
<1> QED
  BY <1>3, <1>4

\* A store onto a page that translates.
LEMMA StorePasses ==
  ASSUME NEW t \in Ia32States, NEW M, NEW a \in Ia32Data, NEW v \in Nat
  PROVE  /\ StoreAt(t, a, v, M) \in Ia32States
         /\ Ok(t) /\ PageOf(a) \in M => Ok(StoreAt(t, a, v, M))
         /\ ~Ok(t) => StoreAt(t, a, v, M) = t
<1>1. (Ok(t) /\ PageOf(a) \in M) \/ ~Ok(t) => Touch(t, a, M) = t
  BY DEF Touch
<1>2. Ok(t) /\ PageOf(a) \in M => Ok(StoreAt(t, a, v, M))
  <2>1. Ok(t) /\ PageOf(a) \in M => StoreAt(t, a, v, M) = [t EXCEPT !.mem[a] = v]
    BY <1>1 DEF StoreAt
  <2>2. [t EXCEPT !.mem[a] = v].fault = t.fault
    BY WithWord
  <2> QED
    BY <2>1, <2>2 DEF Ok
<1>3. ~Ok(t) => StoreAt(t, a, v, M) = t
  BY <1>1 DEF StoreAt
<1> QED
  BY <1>2, <1>3, KeepsCount

LEMMA HeldStore ==
  ASSUME NEW s, Ok(s), NEW t, Held(t, s), NEW M, NEW a \in Ia32Data, NEW v \in Nat
  PROVE  Undone(StoreAt(t, a, v, M), s)
<1> DEFINE u == Touch(t, a, M)
<1>1. Held(u, s)
  BY HeldTouch
<1>2. StoreAt(t, a, v, M) = IF Ok(u) THEN [u EXCEPT !.mem[a] = v] ELSE u
  BY DEF StoreAt
<1> HIDE DEF u
<1>3. u \in Ia32States /\ (~Ok(u) => Lifted(u) = s)
  BY <1>1 DEF Held
<1>4. [u EXCEPT !.mem[a] = v] \in Ia32States /\ [u EXCEPT !.mem[a] = v].fault = u.fault
  BY <1>3, WithWord
<1>5. Ok(u) => Ok([u EXCEPT !.mem[a] = v])
  BY <1>4 DEF Ok
<1> QED
  BY <1>2, <1>3, <1>4, <1>5 DEF Undone

LEMMA UndoneSets ==
  ASSUME NEW s, NEW t, Undone(t, s), NEW v \in Nat, NEW i \in Int
  PROVE  /\ Undone(SetAcc(t, v), s) /\ Undone(SetCf(t, v), s)
         /\ Undone(IF Ok(t) THEN [t EXCEPT !.sp = At(i)] ELSE t, s)
<1>1. t \in Ia32States /\ (~Ok(t) => Lifted(t) = s)
  BY DEF Undone
<1>2. At(i) \in Ia32Data /\ 0 \in Nat
  BY DataIs
<1>3. /\ [t EXCEPT !.acc = v] \in Ia32States /\ [t EXCEPT !.acc = v].fault = t.fault
      /\ [t EXCEPT !.cf = v] \in Ia32States /\ [t EXCEPT !.cf = v].fault = t.fault
      /\ [t EXCEPT !.sp = At(i)] \in Ia32States /\ [t EXCEPT !.sp = At(i)].fault = t.fault
  BY <1>1, <1>2, WithRegs
<1>4. Ok(t) => /\ Ok([t EXCEPT !.acc = v]) /\ Ok([t EXCEPT !.cf = v])
               /\ Ok([t EXCEPT !.sp = At(i)])
  BY <1>3 DEF Ok
<1>5. Undone(SetAcc(t, v), s)
  BY <1>1, <1>3, <1>4 DEF Undone, SetAcc
<1>6. Undone(SetCf(t, v), s)
  BY <1>1, <1>3, <1>4 DEF Undone, SetCf
<1>7. Undone(IF Ok(t) THEN [t EXCEPT !.sp = At(i)] ELSE t, s)
  <2>1. CASE Ok(t)
    BY <1>3, <1>4, <2>1 DEF Undone
  <2>2. CASE ~Ok(t)
    BY <1>1, <2>2 DEF Undone
  <2> QED
    BY <2>1, <2>2
<1> QED
  BY <1>5, <1>6, <1>7

\* A push that faults puts the stack pointer back; a pop moves it last.
LEMMA UndoneStack ==
  ASSUME NEW s \in Ia32States, Ok(s), NEW M, NEW v \in Nat
  PROVE  Undone(Push(s, v, M), s) /\ Undone(Pop(s, M), s)
<1>1. Held(s, s)
  BY DEF Held
<1>2. s.sp \in Ia32Data /\ s.sp \in Int
  BY StateFields, DataIs
<1>3. Undone(Push(s, v, M), s)
  <2> DEFINE a == At(s.sp - 1)
             t == StoreAt(s, a, v, M)
  <2>1. a \in Ia32Data
    <3>1. s.sp - 1 \in Int
      BY <1>2
    <3> QED
      BY <3>1, DataIs
  <2>2. Push(s, v, M) = IF Ok(t) THEN [t EXCEPT !.sp = At(t.sp - 1)] ELSE t
    BY DEF Push
  <2> HIDE DEF a
  <2>3. Undone(t, s)
    BY <1>1, <2>1, HeldStore
  <2> HIDE DEF t
  <2>4. t.sp - 1 \in Int
    <3>1. t.sp \in Int
      BY <2>3, StateFields, DataIs DEF Undone
    <3> QED
      BY <3>1
  <2>5. 0 \in Nat
    OBVIOUS
  <2> QED
    BY <2>2, <2>3, <2>4, <2>5, UndoneSets
<1>4. Undone(Pop(s, M), s)
  <2> DEFINE t == Touch(s, s.sp, M)
  <2>1. Held(t, s)
    BY <1>1, <1>2, HeldTouch
  <2>2. Pop(s, M) = IF Ok(t) THEN [t EXCEPT !.sp = At(t.sp + 1)] ELSE t
    BY DEF Pop
  <2> HIDE DEF t
  <2>3. Undone(t, s)
    BY <2>1 DEF Held, Undone
  <2>4. t.sp + 1 \in Int
    <3>1. t.sp \in Int
      BY <2>3, StateFields, DataIs DEF Undone
    <3> QED
      BY <3>1
  <2>5. 0 \in Nat
    OBVIOUS
  <2> QED
    BY <2>2, <2>3, <2>4, <2>5, UndoneSets
<1> QED
  BY <1>3, <1>4

\* What the screen's newline reads and writes: the page of the cursor, and the
\* one page of the two words it scrolls.
LEMMA UndoneTeletype ==
  ASSUME NEW s \in Ia32States, Ok(s), NEW M
  PROVE  Undone(XTeletype(s, M), s)
<1>0. 0 \in Nat /\ 1 \in Nat /\ 0 \in Ia32Data /\ 1 \in Ia32Data /\ CursorWord \in Ia32Data
      /\ PageOf(0) = PageOf(1)
  BY DataIs DEF PageOf
<1>1. Held(s, s) /\ s.mem[1] \in Nat
  BY <1>0, StateFields DEF Held
<1> DEFINE t == Touch(s, CursorWord, M)
           d == Touch(t, 1, M)
           e == StoreAt(d, 0, s.mem[1], M)
           f == StoreAt(e, 1, 0, M)
           row == s.mem[CursorWord] + 1
<1>2. Held(t, s) /\ (Ok(t) => PageOf(CursorWord) \in M)
  BY <1>0, <1>1, HeldTouch
<1> HIDE DEF t
<1>3. Held(d, s) /\ (Ok(d) => Ok(t) /\ PageOf(1) \in M) /\ (~Ok(t) => d = t)
  BY <1>0, <1>2, HeldTouch
<1> HIDE DEF d
<1>4. d \in Ia32States
  BY <1>3 DEF Held
<1>5. e \in Ia32States /\ (Ok(d) => Ok(e)) /\ (~Ok(d) => e = d)
  BY <1>0, <1>1, <1>3, <1>4, StorePasses
<1> HIDE DEF e
<1>6. f \in Ia32States /\ (Ok(d) => Ok(f)) /\ (~Ok(d) => f = d)
  BY <1>0, <1>3, <1>5, StorePasses
<1> HIDE DEF f, row
<1>7. XTeletype(s, M) = StoreAt(IF row > 1 THEN f ELSE t, CursorWord, 1, M)
  BY DEF XTeletype, row, f, e, d, t
<1>8. CASE row > 1
  <2>1. XTeletype(s, M) = StoreAt(f, CursorWord, 1, M)
    BY <1>7, <1>8
  <2>2. /\ StoreAt(f, CursorWord, 1, M) \in Ia32States
        /\ Ok(f) /\ PageOf(CursorWord) \in M => Ok(StoreAt(f, CursorWord, 1, M))
        /\ ~Ok(f) => StoreAt(f, CursorWord, 1, M) = f
    <3>1. f \in Ia32States /\ CursorWord \in Ia32Data /\ 1 \in Nat
      BY <1>0, <1>6
    <3> QED
      BY <3>1, StorePasses
  <2>3. Ok(d) => Ok(XTeletype(s, M))
    BY <1>2, <1>3, <1>6, <2>1, <2>2
  <2>4. ~Ok(d) => XTeletype(s, M) = d
    BY <1>6, <2>1, <2>2
  <2> QED
    BY <1>3, <2>1, <2>2, <2>3, <2>4 DEF Held, Undone
<1>9. CASE ~(row > 1)
  <2>1. XTeletype(s, M) = StoreAt(t, CursorWord, 1, M)
    BY <1>7, <1>9
  <2> QED
    BY <1>0, <1>2, <2>1, HeldStore
<1> QED
  BY <1>8, <1>9

\* Instructions that have not changed anything when they fault, but for REP INS.
LEMMA UndoneSingle ==
  ASSUME NEW s \in Ia32States, Ok(s), NEW M
  PROVE  /\ Undone(XMov(s, M), s) /\ Undone(XStore(s, M), s) /\ Undone(XPush(s, M), s)
         /\ Undone(XPop(s, M), s) /\ Undone(XXchg(s, M), s) /\ Undone(XLoadFar(s, M), s)
         /\ Undone(XCall(s, M), s) /\ Undone(XRet(s, M), s) /\ Undone(XGroup1(s, M), s)
<1>1. Held(s, s)
  BY DEF Held
<1>2. /\ s.di \in Ia32Data /\ s.si \in Ia32Data /\ s.sp \in Ia32Data
      /\ s.acc \in Nat /\ 0 \in Nat /\ 0 \in Int
  BY StateFields
<1>3. /\ s.mem[s.di] \in Nat /\ s.mem[s.si] \in Nat /\ s.mem[s.sp] \in Nat
      /\ At(s.si + 1) \in Ia32Data /\ Sum(s) % 2 \in Nat /\ Sum(s) \div 2 \in Nat
  BY <1>2, ValuesOf
<1>4. \A t : Held(t, s) => Undone(t, s)
  BY DEF Held, Undone
<1>5. Held(Touch(s, s.di, M), s) /\ Held(Touch(Touch(s, s.si, M), At(s.si + 1), M), s)
  <2>1. Held(Touch(s, s.di, M), s) /\ Held(Touch(s, s.si, M), s)
    BY <1>1, <1>2, HeldTouch
  <2> QED
    BY <1>3, <2>1, HeldTouch
<1>6. Undone(XMov(s, M), s) /\ Undone(XLoadFar(s, M), s)
  <2>1. Undone(Touch(s, s.di, M), s) /\ Undone(Touch(Touch(s, s.si, M), At(s.si + 1), M), s)
    BY <1>4, <1>5
  <2>2. Undone(SetAcc(Touch(s, s.di, M), s.mem[s.di]), s)
    BY <1>2, <1>3, <2>1, UndoneSets
  <2>3. Undone(SetAcc(Touch(Touch(s, s.si, M), At(s.si + 1), M), s.mem[s.si]), s)
    BY <1>2, <1>3, <2>1, UndoneSets
  <2> QED
    BY <2>2, <2>3 DEF XMov, XLoadFar
<1>7. Undone(XStore(s, M), s)
  BY <1>1, <1>2, HeldStore DEF XStore
<1>8. Undone(XPush(s, M), s) /\ Undone(XCall(s, M), s) /\ Undone(XRet(s, M), s)
  BY <1>2, UndoneStack DEF XPush, XCall, XRet
<1>9. Undone(XPop(s, M), s)
  <2>1. Undone(Pop(s, M), s)
    BY <1>2, UndoneStack
  <2>2. Undone(SetAcc(Pop(s, M), s.mem[s.sp]), s)
    BY <1>2, <1>3, <2>1, UndoneSets
  <2> QED
    BY <2>2 DEF XPop
<1>10. Undone(XXchg(s, M), s) /\ Undone(XGroup1(s, M), s)
  <2>1. /\ Undone(StoreAt(Touch(s, s.di, M), s.di, s.acc, M), s)
        /\ Undone(StoreAt(Touch(s, s.di, M), s.di, Sum(s) % 2, M), s)
    BY <1>2, <1>3, <1>5, HeldStore
  <2>2. Undone(SetAcc(StoreAt(Touch(s, s.di, M), s.di, s.acc, M), s.mem[s.di]), s)
    BY <1>2, <1>3, <2>1, UndoneSets
  <2>3. Undone(SetCf(StoreAt(Touch(s, s.di, M), s.di, Sum(s) % 2, M), Sum(s) \div 2), s)
    BY <1>2, <1>3, <2>1, UndoneSets
  <2> QED
    BY <2>2, <2>3 DEF XXchg, XGroup1
<1> QED
  BY <1>6, <1>7, <1>8, <1>9, <1>10

\* What Body is for each name.
LEMMA BodyIs ==
  ASSUME NEW s, NEW M
  PROVE  /\ Body("mov", s, M) = XMov(s, M)
         /\ Body("store", s, M) = XStore(s, M)
         /\ Body("push", s, M) = XPush(s, M)
         /\ Body("pop", s, M) = XPop(s, M)
         /\ Body("xchg", s, M) = XXchg(s, M)
         /\ Body("loadfar", s, M) = XLoadFar(s, M)
         /\ Body("call", s, M) = XCall(s, M)
         /\ Body("ret", s, M) = XRet(s, M)
         /\ Body("group1", s, M) = XGroup1(s, M)
         /\ Body("ins", s, M) = XRepIns(s, M)
         /\ Body("teletype", s, M) = XTeletype(s, M)
         /\ Body("adc", s, M) = XAdcToMem(s, M)
         /\ Body("rotate", s, M) = XRotate(s, M)
         /\ Body("pushall", s, M) = XPushAll(s, M)
         /\ Body("popall", s, M) = XPopAll(s, M)
         /\ Body("callfar", s, M) = XCallFar(s, M)
         /\ Body("retfar", s, M) = XRetFar(s, M)
         /\ Body("int", s, M) = XInt(s, M)
         /\ Body("iret", s, M) = XIret(s, M)
         /\ Body("popmem", s, M) = XPopMem(s, M)
         /\ Body("retimm", s, M) = XRetImm(s, M)
         /\ Body("movs", s, M) = XRepMovs(s, M)
         /\ Body("stos", s, M) = XRepStos(s, M)
         /\ Body("lods", s, M) = XRepLods(s, M)
<1>1. Body("mov", s, M) = XMov(s, M)
  BY DEF Body
<1>2. Body("store", s, M) = XStore(s, M)
  BY DEF Body
<1>3. Body("push", s, M) = XPush(s, M)
  BY DEF Body
<1>4. Body("pop", s, M) = XPop(s, M)
  BY DEF Body
<1>5. Body("xchg", s, M) = XXchg(s, M)
  BY DEF Body
<1>6. Body("loadfar", s, M) = XLoadFar(s, M)
  BY DEF Body
<1>7. Body("call", s, M) = XCall(s, M)
  BY DEF Body
<1>8. Body("ret", s, M) = XRet(s, M)
  BY DEF Body
<1>9. Body("group1", s, M) = XGroup1(s, M)
  BY DEF Body
<1>10. Body("ins", s, M) = XRepIns(s, M)
  BY DEF Body
<1>11. Body("teletype", s, M) = XTeletype(s, M)
  BY DEF Body
<1>12. Body("adc", s, M) = XAdcToMem(s, M)
  BY DEF Body
<1>13. Body("rotate", s, M) = XRotate(s, M)
  BY DEF Body
<1>14. Body("pushall", s, M) = XPushAll(s, M)
  BY DEF Body
<1>15. Body("popall", s, M) = XPopAll(s, M)
  BY DEF Body
<1>16. Body("callfar", s, M) = XCallFar(s, M)
  BY DEF Body
<1>17. Body("retfar", s, M) = XRetFar(s, M)
  BY DEF Body
<1>18. Body("int", s, M) = XInt(s, M)
  BY DEF Body
<1>19. Body("iret", s, M) = XIret(s, M)
  BY DEF Body
<1>20. Body("popmem", s, M) = XPopMem(s, M)
  BY DEF Body
<1>21. Body("retimm", s, M) = XRetImm(s, M)
  BY DEF Body
<1>22. Body("movs", s, M) = XRepMovs(s, M)
  BY DEF Body
<1>23. Body("stos", s, M) = XRepStos(s, M)
  BY DEF Body
<1>24. Body("lods", s, M) = XRepLods(s, M)
  BY DEF Body
<1> QED
  BY <1>1, <1>2, <1>3, <1>4, <1>5, <1>6, <1>7, <1>8, <1>9, <1>10, <1>11, <1>12, <1>13, <1>14, <1>15, <1>16, <1>17, <1>18, <1>19, <1>20, <1>21, <1>22, <1>23, <1>24

Names == Restartable \cup PartlyDone

LEMMA PairBody ==
  ASSUME NEW s \in Ia32States, NEW M, NEW k \in Names
  PROVE  Pair(Body(k, s, M), Body(k, s, Ia32Pages))
<1>1. CASE k \in {"mov", "store", "push", "pop", "xchg", "loadfar", "call", "ret"}
  BY <1>1, BodyIs, PairSingle
<1>2. CASE k \in {"group1", "adc", "rotate", "popmem", "teletype"}
  BY <1>2, BodyIs, PairModify
<1>3. CASE k \in {"pushall", "popall", "callfar", "retfar", "int", "iret"}
  BY <1>3, BodyIs, PairMany
<1>4. CASE k \in {"ins", "movs", "stos", "lods"}
  BY <1>4, BodyIs, PairStrings
<1>5. CASE k = "retimm"
  <2>1. Pair(XRet(s, M), XRet(s, Ia32Pages))
    BY PairSingle
  <2> QED
    BY <1>5, <2>1, BodyIs DEF XRet, XRetImm
<1> QED
  BY <1>1, <1>2, <1>3, <1>4, <1>5 DEF Names, Restartable, PartlyDone

LEMMA PairExecute ==
  ASSUME NEW s \in Ia32States, NEW M, NEW k \in Names
  PROVE  Pair(Execute(k, s, M), Execute(k, s, Ia32Pages))
<1>1. CASE k = "retimm"
  <2>1. Pair(Body(k, s, M), Body(k, s, Ia32Pages))
    BY PairBody
  <2>2. Pair(Touch(Body(k, s, M), CodeWord, M), Touch(Body(k, s, Ia32Pages), CodeWord, Ia32Pages))
    BY <2>1, PairTouch
  <2> QED
    BY <1>1, <2>2 DEF Execute
<1>2. CASE k # "retimm"
  <2> DEFINE t == Touch(s, CodeWord, M)
             u == Touch(s, CodeWord, Ia32Pages)
  <2>1. Pair(s, s)
    BY DEF Pair
  <2>2. Pair(t, u) /\ u = s /\ (Ok(t) => t = s)
    BY <2>1, PairTouch
  <2>3. /\ Execute(k, s, M) = IF Ok(t) THEN Body(k, t, M) ELSE t
        /\ Execute(k, s, Ia32Pages) = IF Ok(u) THEN Body(k, u, Ia32Pages) ELSE u
    BY <1>2 DEF Execute
  <2> HIDE DEF t, u
  <2>4. CASE Ok(t)
    BY <2>2, <2>3, <2>4, PairBody
  <2>5. CASE ~Ok(t)
    <3>1. Body(k, s, Ia32Pages) \in Ia32States
      BY PairBody DEF Pair
    <3> QED
      BY <2>2, <2>3, <2>5, <3>1 DEF Pair
  <2> QED
    BY <2>4, <2>5
<1> QED
  BY <1>1, <1>2

\* A faulted attempt of a restartable instruction, run again over what it left,
\* makes what an unfaulted one makes of the state it started in.
LEMMA Restarts ==
  ASSUME NEW s \in Ia32States, Ok(s), NEW M, NEW k \in Restartable, ~Ok(Execute(k, s, M))
  PROVE  Execute(k, Lifted(Execute(k, s, M)), Ia32Pages) = Execute(k, s, Ia32Pages)
<1> DEFINE t == Touch(s, CodeWord, M)
           y == Execute(k, s, M)
<1>1. y = IF Ok(t) THEN Body(k, t, M) ELSE t
  BY DEF Execute, Restartable
<1>2. Held(s, s)
  BY DEF Held
<1>3. Held(t, s)
  BY <1>2, HeldTouch
<1>4. ~Ok(y)
  OBVIOUS
<1> HIDE DEF t, y
<1>5. CASE ~Ok(t)
  BY <1>1, <1>3, <1>5 DEF Held, y
<1>6. CASE Ok(t) /\ k # "ins"
  <2>1. y = Body(k, s, M)
    BY <1>1, <1>3, <1>6 DEF Held
  <2>2. Undone(Body(k, s, M), s)
    BY <1>6, BodyIs, UndoneSingle, UndoneTeletype DEF Restartable
  <2> QED
    BY <1>4, <2>1, <2>2 DEF Undone, y
<1>7. CASE Ok(t) /\ k = "ins"
  <2>1. y = XRepIns(s, M)
    BY <1>1, <1>3, <1>7, BodyIs DEF Held
  <2>2. XRepIns(Lifted(y), Ia32Pages) = XRepIns(s, Ia32Pages)
    BY <1>4, <2>1, InsRestarts
  <2>3. y \in Ia32States
    BY <2>1, PairStrings DEF Pair
  <2>4. Lifted(y) \in Ia32States /\ Ok(Lifted(y))
    BY <2>3, LiftedIs
  <2>5. \A w \in Ia32States : Ok(w) => Execute("ins", w, Ia32Pages) = XRepIns(w, Ia32Pages)
    <3> TAKE w \in Ia32States
    <3>1. Touch(w, CodeWord, Ia32Pages) = w
      BY DataIs DEF Touch
    <3> QED
      BY <3>1, BodyIs DEF Execute
  <2> QED
    BY <1>7, <2>2, <2>4, <2>5 DEF y
<1> QED
  BY <1>5, <1>6, <1>7

\* Between attempts the machine is where a run without a fault would have gone on.
RestartInv ==
  /\ xcore \in Ia32States /\ op \in {"none"} \cup Names
  /\ op = "none" => Ok(xcore)
  /\ op \in Restartable => Execute(op, Lifted(xcore), Ia32Pages) = want

LEMMA RestartStarts == Ia32Init => RestartInv
<1> SUFFICES ASSUME Ia32Init PROVE RestartInv
  OBVIOUS
<1>1. 0 \in Ia32Data /\ 1 \in Ia32Data /\ 3 \in Ia32Data
  BY Ia32Size DEF Ia32Data
<1>2. [a \in Ia32Data |-> a % 2] \in [Ia32Data -> Nat]
  <2>1. \A a \in Ia32Data : a % 2 \in Nat
    BY Ia32Size DEF Ia32Data
  <2> QED
    BY <2>1
<1>3. xcore \in Ia32States
  BY <1>1, <1>2 DEF Ia32Init, Ia32States
<1>4. Ok(xcore) /\ op = "none"
  BY DEF Ia32Init, Ok
<1> QED
  BY <1>3, <1>4 DEF RestartInv, Restartable

LEMMA RestartStep ==
  ASSUME RestartInv, [Ia32Next]_ia32Vars
  PROVE  RestartInv' /\ RetiresRight(Restartable)
<1>1. /\ xcore \in Ia32States /\ op \in {"none"} \cup Names
      /\ op = "none" => Ok(xcore)
      /\ op \in Restartable => Execute(op, Lifted(xcore), Ia32Pages) = want
  BY DEF RestartInv
<1>2. "none" \notin Names
  BY DEF Names, Restartable, PartlyDone
<1>3. CASE Ia32Attempt
  <2>1. Ok(xcore) /\ Lifted(xcore) = xcore
    <3>1. Ok(xcore)
      BY <1>3 DEF Ia32Attempt
    <3> QED
      BY <1>1, <3>1 DEF Lifted, Ok, Ia32States
  <2>2. PICK k \in IF op = "none" THEN Names ELSE {op} :
          /\ xcore' = Execute(k, xcore, mapped)
          /\ op' = IF Ok(Execute(k, xcore, mapped)) THEN "none" ELSE k
          /\ want' = IF op = "none" THEN Execute(k, xcore, Ia32Pages) ELSE want
    BY <1>3 DEF Ia32Attempt, Names
  <2>3. k \in Names /\ (op = "none" \/ op = k)
    BY <1>1, <2>2
  <2>4. Pair(xcore', Execute(k, xcore, Ia32Pages))
    BY <1>1, <2>2, <2>3, PairExecute
  <2>5. k \in Restartable => want' = Execute(k, xcore, Ia32Pages)
    BY <1>1, <1>2, <2>1, <2>2, <2>3
  <2>6. xcore' \in Ia32States /\ (Ok(xcore') => xcore' = Execute(k, xcore, Ia32Pages))
    BY <2>4 DEF Pair
  <2>7. op' = IF Ok(xcore') THEN "none" ELSE k
    BY <2>2
  <2>8. RestartInv'
    <3>1. CASE Ok(xcore')
      <4>1. op' = "none"
        BY <2>7, <3>1
      <4>2. Ok(xcore)'
        BY <3>1 DEF Ok
      <4> QED
        BY <1>2, <2>6, <4>1, <4>2 DEF RestartInv, Names
    <3>2. CASE ~Ok(xcore')
      <4>1. op' = k
        BY <2>7, <3>2
      <4>2. k \in Restartable => Execute(k, Lifted(xcore'), Ia32Pages) = want'
        BY <1>1, <2>1, <2>2, <2>5, <3>2, Restarts
      <4> QED
        BY <1>2, <2>3, <2>6, <4>1, <4>2 DEF RestartInv, Names
    <3> QED
      BY <3>1, <3>2
  <2>9. RetiresRight(Restartable)
    <3> SUFFICES ASSUME op' = "none", op \in Restartable \/ op = "none" PROVE xcore' = want'
      BY DEF RetiresRight
    <3>1. Ok(xcore')
      BY <1>2, <2>3, <2>7
    <3>2. CASE op = "none"
      BY <2>2, <2>6, <3>1, <3>2
    <3>3. CASE op \in Restartable
      <4>1. k \in Restartable
        BY <1>2, <2>3, <3>3 DEF Names
      <4> QED
        BY <2>5, <2>6, <3>1, <4>1
    <3> QED
      BY <3>2, <3>3
  <2> QED
    BY <2>8, <2>9
<1>4. CASE Ia32Refill
  <2>1. ~Ok(xcore) /\ xcore' = Lifted(xcore) /\ op' = op /\ want' = want
    BY <1>4 DEF Ia32Refill, Lifted
  <2>2. op # "none"
    BY <1>1, <2>1
  <2>3. xcore' \in Ia32States /\ Ok(xcore')
    BY <1>1, <2>1, LiftedIs
  <2>4. Lifted(xcore') = xcore'
    BY <2>3 DEF Lifted, Ok, Ia32States
  <2>5. Ok(xcore)'
    BY <2>3 DEF Ok
  <2>6. RestartInv'
    BY <1>1, <2>1, <2>3, <2>4, <2>5 DEF RestartInv
  <2>7. RetiresRight(Restartable)
    BY <2>1, <2>2 DEF RetiresRight
  <2> QED
    BY <2>6, <2>7
<1>5. CASE UNCHANGED ia32Vars
  <2>1. xcore' = xcore /\ op' = op /\ want' = want
    BY <1>5 DEF ia32Vars
  <2>2. RestartInv'
    BY <1>1, <2>1 DEF RestartInv, Ok, Lifted
  <2>3. RetiresRight(Restartable)
    BY <2>1 DEF RetiresRight
  <2> QED
    BY <2>2, <2>3
<1> QED
  BY <1>3, <1>4, <1>5 DEF Ia32Next

\* However many of its accesses fault on the way, and wherever the handler puts
\* the translations, an instruction that keeps its changes to the end, REP INS
\* among them, leaves what it would have left without a fault.
THEOREM RestartsHold == Ia32Spec => RestartsPrecisely
<1>1. RestartInv /\ [Ia32Next]_ia32Vars => [RetiresRight(Restartable)]_ia32Vars
  BY RestartStep
<1>2. RestartInv /\ [Ia32Next]_ia32Vars => RestartInv'
  BY RestartStep
<1> QED
  BY <1>1, <1>2, RestartStarts, PTL DEF Ia32Spec, RestartsPrecisely

----------------------------------------------------------------------------
(***************************************************************************)
(* The register stack: places of registers in a backing store.             *)
(***************************************************************************)

\* A word's place among the registers: the collection words below it do not count.
RegRank(a) == a - a \div RseGroup
\* The address of the register of a place.
RegHome(r) == r + r \div (RseGroup - 1)

LEMMA Dividing ==
  ASSUME NEW b \in Int, NEW g \in Nat, g >= 1
  PROVE  b = g * (b \div g) + (b % g) /\ (b % g) \in 0 .. g - 1 /\ b \div g \in Int
OBVIOUS

LEMMA Distributes ==
  ASSUME NEW g \in Int, NEW d \in Int, NEW q \in Int
  PROVE  g * (d - q) = g * d - g * q
OBVIOUS

LEMMA DividedBy ==
  ASSUME NEW b \in Int, NEW g \in Nat, g >= 1, NEW q \in Int, NEW r \in 0 .. g - 1, b = g * q + r
  PROVE  b \div g = q /\ b % g = r
<1> DEFINE d == b \div g
           m == b % g
<1>1. d \in Int /\ b = g * d + m /\ m \in 0 .. g - 1
  BY Dividing
<1> HIDE DEF d, m
<1>2. g * (d - q) = g * d - g * q /\ g * (q - d) = g * q - g * d
  BY <1>1, Distributes
<1> DEFINE x == g * d
           y == g * q
<1>3. x \in Int /\ y \in Int /\ x + m = y + r /\ m \in 0 .. g - 1
  BY <1>1
<1>4. d - q < 1
  <2>1. SUFFICES ASSUME d - q >= 1 PROVE FALSE
    BY <1>1
  <2>2. g * (d - q) >= g * 1
    BY <2>1, <1>1
  <2>3. x - y >= g
    BY <2>2, <1>2, <1>1
  <2> HIDE DEF x, y
  <2> QED
    BY <2>3, <1>3
<1>5. d - q > -1
  <2>1. SUFFICES ASSUME q - d >= 1 PROVE FALSE
    BY <1>1
  <2>2. g * (q - d) >= g * 1
    BY <2>1, <1>1
  <2>3. y - x >= g
    BY <2>2, <1>2, <1>1
  <2> HIDE DEF x, y
  <2> QED
    BY <2>3, <1>3
<1>6. d = q
  BY <1>4, <1>5, <1>1
<1>7. m = r
  BY <1>6, <1>3
<1> QED
  BY <1>6, <1>7 DEF d, m

LEMMA GroupIs ==
  RseGroup \in Nat /\ RseGroup >= 2 /\ RseGroup - 1 \in Nat /\ RseGroup - 1 >= 1
BY RseConstants

\* A register's place and address are each other's inverse.
LEMMA HomeIs ==
  ASSUME NEW r \in Int
  PROVE  /\ RegHome(r) \in Int /\ ~IsRnatSlot(RegHome(r)) /\ RegRank(RegHome(r)) = r
         /\ RegRank(RegHome(r) + 1) = r + 1
<1> DEFINE g == RseGroup - 1
           q == r \div g
           m == r % g
<1>1. g \in Nat /\ g >= 1
  BY GroupIs
<1> HIDE DEF g
<1>2. r = g * q + m /\ m \in 0 .. g - 1 /\ q \in Int
  BY <1>1, Dividing
<1>3. RegHome(r) = r + q
  BY DEF RegHome, g
<1> HIDE DEF q, m
<1>4. r = (RseGroup - 1) * q + m /\ m \in 0 .. RseGroup - 2 /\ q \in Int
  BY <1>2, GroupIs DEF g
<1>5. (RseGroup - 1) * q = RseGroup * q - q
  BY GroupIs, <1>4
<1>6. RegHome(r) = RseGroup * q + m
  BY <1>3, <1>4, <1>5, GroupIs
<1>7. RegHome(r) \div RseGroup = q /\ RegHome(r) % RseGroup = m
  BY <1>4, <1>6, GroupIs, DividedBy
<1>8. CASE m + 1 \in 0 .. RseGroup - 1
  <2>1. (RegHome(r) + 1) \div RseGroup = q
    <3>1. RegHome(r) + 1 = RseGroup * q + (m + 1)
      BY <1>4, <1>6, GroupIs
    <3> QED
      BY <1>4, <1>8, <3>1, GroupIs, DividedBy
  <2> QED
    BY <1>4, <1>5, <1>6, <1>7, <2>1, GroupIs DEF RegRank, IsRnatSlot
<1> QED
  BY <1>4, <1>8, GroupIs

LEMMA RankIs ==
  ASSUME NEW a \in Int
  PROVE  /\ RegRank(a) \in Int
         /\ ~IsRnatSlot(a) => RegHome(RegRank(a)) = a /\ RegRank(a + 1) = RegRank(a) + 1
         /\ IsRnatSlot(a) => RegRank(a + 1) = RegRank(a)
<1> DEFINE q == a \div RseGroup
           m == a % RseGroup
<1>1. a = RseGroup * q + m /\ m \in 0 .. RseGroup - 1 /\ q \in Int
  BY GroupIs, Dividing
<1>2. RegRank(a) = a - q /\ (IsRnatSlot(a) <=> m = RseGroup - 1)
  BY DEF RegRank, IsRnatSlot
<1> HIDE DEF q, m
<1>3. (RseGroup - 1) * q = RseGroup * q - q
  BY GroupIs, <1>1
<1>4. CASE m # RseGroup - 1
  <2>1. a - q = (RseGroup - 1) * q + m /\ m \in 0 .. RseGroup - 1 - 1 /\ a - q \in Int
    BY <1>1, <1>3, <1>4, GroupIs
  <2>2. (a - q) \div (RseGroup - 1) = q
    BY <1>1, <2>1, GroupIs, DividedBy
  <2>3. RegHome(RegRank(a)) = a
    BY <1>1, <1>2, <2>2, GroupIs DEF RegHome
  <2>4. (a + 1) \div RseGroup = q
    <3>1. a + 1 = RseGroup * q + (m + 1) /\ m + 1 \in 0 .. RseGroup - 1 /\ a + 1 \in Int
      BY <1>1, <1>4, GroupIs
    <3> QED
      BY <1>1, <3>1, GroupIs, DividedBy
  <2> QED
    BY <1>1, <1>2, <1>4, <2>3, <2>4 DEF RegRank
<1>5. CASE m = RseGroup - 1
  <2>1. a + 1 = RseGroup * (q + 1) + 0 /\ 0 \in 0 .. RseGroup - 1 /\ a + 1 \in Int /\ q + 1 \in Int
    <3>1. RseGroup * (q + 1) = RseGroup * q + RseGroup
      BY <1>1, GroupIs
    <3> QED
      BY <1>1, <1>5, <3>1, GroupIs
  <2>2. (a + 1) \div RseGroup = q + 1
    BY <2>1, GroupIs, DividedBy
  <2> QED
    BY <1>1, <1>2, <1>5, <2>2 DEF RegRank
<1> QED
  BY <1>1, <1>4, <1>5

\* Addresses are at least as far apart as places, and at most twice as far.
LEMMA HomeSpreads ==
  ASSUME NEW r \in Int, NEW n \in Nat
  PROVE  RegHome(r + n) - RegHome(r) \in n .. 2 * n
<1> DEFINE g == RseGroup - 1
           q == r \div g
           m == r % g
           q2 == (r + n) \div g
           m2 == (r + n) % g
<1>1. g \in Nat /\ g >= 1
  BY GroupIs
<1> HIDE DEF g
<1>2. /\ r = g * q + m /\ m \in 0 .. g - 1 /\ q \in Int
      /\ r + n = g * q2 + m2 /\ m2 \in 0 .. g - 1 /\ q2 \in Int
  <2>1. r + n \in Int
    OBVIOUS
  <2>2. r + n = g * q2 + m2 /\ m2 \in 0 .. g - 1 /\ q2 \in Int
    BY <1>1, <2>1, Dividing
  <2> QED
    BY <1>1, <2>2, Dividing
<1>3. RegHome(r) = r + q /\ RegHome(r + n) = r + n + q2
  BY DEF RegHome, g
<1> HIDE DEF q, m, q2, m2
<1>4. RegHome(r + n) - RegHome(r) = n + (q2 - q)
  BY <1>2, <1>3
<1>5. g * (q2 - q) = g * q2 - g * q
  BY <1>1, <1>2, Distributes
<1>6. g * (q2 - q) = n + m - m2 /\ m - m2 < g /\ m2 - m < g
  BY <1>1, <1>2, <1>5
<1>7. q2 - q >= 0
  <2> SUFFICES ASSUME q - q2 >= 1 PROVE FALSE
    BY <1>2
  <2>1. g * (q - q2) >= g * 1
    BY <1>1, <1>2
  <2>2. g * (q - q2) = -(g * (q2 - q))
    BY <1>1, <1>2
  <2> QED
    BY <2>1, <2>2, <1>6, <1>1, <1>2
<1>8. q2 - q <= n
  <2> SUFFICES ASSUME q2 - q >= n + 1 PROVE FALSE
    BY <1>2
  <2>1. g * (q2 - q) >= g * (n + 1)
    BY <1>1, <1>2
  <2>2. g * (n + 1) = g * n + g /\ g * n >= n
    BY <1>1
  <2> QED
    BY <2>1, <2>2, <1>6, <1>1, <1>2
<1> QED
  BY <1>2, <1>4, <1>7, <1>8

LEMMA HomeOrder ==
  ASSUME NEW r \in Int, NEW s \in Int, r <= s
  PROVE  RegHome(s) - RegHome(r) \in s - r .. 2 * (s - r)
<1> DEFINE n == s - r
<1>1. n \in Nat /\ r + n = s
  OBVIOUS
<1> HIDE DEF n
<1>2. RegHome(r + n) - RegHome(r) \in n .. 2 * n
  BY <1>1, HomeSpreads
<1>3. RegHome(s) - RegHome(r) \in n .. 2 * n
  BY <1>1, <1>2
<1> QED
  BY <1>3 DEF n

\* n registers and the slots between them.
LEMMA HomeWithin ==
  ASSUME NEW r \in Int, NEW n \in Nat
  PROVE  RegHome(r + n) - RegHome(r) <= n + n \div (RseGroup - 1) + 1
<1> DEFINE g == RseGroup - 1
           q == r \div g
           m == r % g
           q2 == (r + n) \div g
           m2 == (r + n) % g
           d == n \div g
           e == n % g
<1>1. g \in Nat /\ g >= 1
  BY GroupIs
<1>2. RegHome(r) = r + q /\ RegHome(r + n) = r + n + q2 /\ d = n \div (RseGroup - 1)
  BY DEF RegHome
<1> HIDE DEF g
<1>3. /\ r = g * q + m /\ m \in 0 .. g - 1 /\ q \in Int
      /\ r + n = g * q2 + m2 /\ m2 \in 0 .. g - 1 /\ q2 \in Int
      /\ n = g * d + e /\ e \in 0 .. g - 1 /\ d \in Int
  <2>1. r + n \in Int /\ n \in Int
    OBVIOUS
  <2>2. r + n = g * q2 + m2 /\ m2 \in 0 .. g - 1 /\ q2 \in Int
    BY <1>1, <2>1, Dividing
  <2>3. n = g * d + e /\ e \in 0 .. g - 1 /\ d \in Int
    BY <1>1, <2>1, Dividing
  <2> QED
    BY <1>1, <2>2, <2>3, Dividing
<1> HIDE DEF q, m, q2, m2, d, e
<1>4. g * (q2 - (q + d)) = g * q2 - g * (q + d) /\ g * (q + d) = g * q + g * d
  BY <1>1, <1>3
<1>5. g * (q2 - (q + d)) = m + e - m2 /\ m + e - m2 < 2 * g
  BY <1>1, <1>3, <1>4
<1>6. q2 - (q + d) <= 1
  <2> SUFFICES ASSUME q2 - (q + d) >= 2 PROVE FALSE
    BY <1>3
  <2>1. g * (q2 - (q + d)) >= g * 2
    BY <1>1, <1>3
  <2> QED
    BY <2>1, <1>1, <1>3, <1>5
<1>7. RegHome(r + n) - RegHome(r) = n + (q2 - q)
  <2>1. RegHome(r) = r + q /\ RegHome(r + n) = r + n + q2
    BY <1>2
  <2> QED
    BY <1>3, <2>1
<1>8. n + (q2 - q) <= n + d + 1
  BY <1>3, <1>6
<1>9. RegHome(r + n) - RegHome(r) <= n + d + 1
  BY <1>7, <1>8
<1> QED
  BY <1>9 DEF d, g

LEMMA DivGrows ==
  ASSUME NEW a \in Nat, NEW b \in Nat, a <= b, NEW g \in Nat, g >= 1
  PROVE  a \div g <= b \div g /\ a \div g \in Int /\ b \div g \in Int
<1> DEFINE d == a \div g
           e == b \div g
           m == a % g
           k == b % g
<1>1. /\ a = g * d + m /\ m \in 0 .. g - 1 /\ d \in Int
      /\ b = g * e + k /\ k \in 0 .. g - 1 /\ e \in Int
  BY Dividing
<1> HIDE DEF d, e, m, k
<1>2. d <= e
  <2> SUFFICES ASSUME d >= e + 1 PROVE FALSE
    BY <1>1
  <2>1. g * d >= g * (e + 1) /\ g * (e + 1) = g * e + g
    BY <1>1
  <2> QED
    BY <1>1, <2>1
<1> QED
  BY <1>1, <1>2 DEF d, e

LEMMA HomesDiffer ==
  ASSUME NEW r \in Int, NEW s \in Int, RegHome(r) = RegHome(s)
  PROVE  r = s
BY HomeIs

LEMMA CountedOne ==
  ASSUME NEW a \in Int, NEW b \in Int, a <= b
  PROVE  /\ RegsBetween(a, b - 1) \in Nat
         /\ RegsBetween(a, b) = RegsBetween(a, b - 1) + (IF IsRnatSlot(b) THEN 0 ELSE 1)
<1> DEFINE S == {x \in a .. b - 1 : ~IsRnatSlot(x)}
           T == {x \in a .. b : ~IsRnatSlot(x)}
<1>1. IsFiniteSet(S)
  <2>1. IsFiniteSet(a .. b - 1)
    BY FS_Interval
  <2> QED
    BY <2>1, FS_Subset
<1>2. T = IF IsRnatSlot(b) THEN S ELSE S \cup {b}
  <2>1. a .. b = (a .. b - 1) \cup {b}
    OBVIOUS
  <2> QED
    BY <2>1
<1>3. b \notin S
  OBVIOUS
<1>4. Cardinality(S) \in Nat /\ Cardinality(S \cup {b}) = Cardinality(S) + 1
  BY <1>1, <1>3, FS_AddElement, FS_CardinalityType
<1>5. RegsBetween(a, b - 1) = Cardinality(S) /\ RegsBetween(a, b) = Cardinality(T)
  BY DEF RegsBetween
<1> HIDE DEF S, T
<1>6. CASE IsRnatSlot(b)
  BY <1>2, <1>4, <1>5, <1>6
<1>7. CASE ~IsRnatSlot(b)
  BY <1>2, <1>4, <1>5, <1>7
<1> QED
  BY <1>6, <1>7

\* Counting the registers of a stretch of memory.
LEMMA Counted ==
  ASSUME NEW a \in Int, NEW b \in Int, a <= b + 1
  PROVE  RegsBetween(a, b) = RegRank(b + 1) - RegRank(a)
<1> DEFINE Bad == {n \in Nat : RegsBetween(a, a + n - 1) # RegRank(a + n) - RegRank(a)}
<1>1. Bad = {}
  <2> SUFFICES ASSUME Bad # {} PROVE FALSE
    OBVIOUS
  <2>1. PICK n \in Bad : \A k \in Bad : n <= k
    BY LeastNatural
  <2>2. n # 0
    <3>1. {x \in a .. a - 1 : ~IsRnatSlot(x)} = {}
      OBVIOUS
    <3>2. RegsBetween(a, a - 1) = 0
      BY <3>1, FS_EmptySet DEF RegsBetween
    <3>3. a + 0 - 1 = a - 1 /\ a + 0 = a /\ RegRank(a) - RegRank(a) = 0
      BY RankIs
    <3> QED
      BY <2>1, <3>2, <3>3
  <2>3. n - 1 \in Nat /\ n - 1 \notin Bad
    BY <2>1, <2>2
  <2>4. RegsBetween(a, a + n - 1 - 1) = RegRank(a + n - 1) - RegRank(a)
    <3>1. a + (n - 1) - 1 = a + n - 1 - 1 /\ a + (n - 1) = a + n - 1
      OBVIOUS
    <3> QED
      BY <2>3, <3>1
  <2> DEFINE b2 == a + n - 1
  <2>5. b2 \in Int /\ a <= b2 /\ b2 + 1 = a + n
    BY <2>1, <2>2
  <2> HIDE DEF b2
  <2>6. RegsBetween(a, b2) = RegsBetween(a, b2 - 1) + (IF IsRnatSlot(b2) THEN 0 ELSE 1)
    BY <2>5, CountedOne
  <2>7. RegRank(b2 + 1) = RegRank(b2) + (IF IsRnatSlot(b2) THEN 0 ELSE 1) /\ RegRank(b2) \in Int /\ RegRank(a) \in Int
    BY <2>5, RankIs
  <2>8. RegsBetween(a, b2 - 1) = RegRank(b2) - RegRank(a)
    BY <2>4 DEF b2
  <2>9. RegsBetween(a, b2) = RegRank(b2 + 1) - RegRank(a)
    BY <2>6, <2>7, <2>8
  <2>10. RegsBetween(a, a + n - 1) = RegRank(a + n) - RegRank(a)
    BY <2>9, <2>5 DEF b2
  <2> QED
    BY <2>1, <2>10
<1>2. b + 1 - a \in Nat /\ a + (b + 1 - a) - 1 = b /\ a + (b + 1 - a) = b + 1
  OBVIOUS
<1> QED
  BY <1>1, <1>2

LEMMA RankGrows ==
  ASSUME NEW a \in Int, NEW b \in Int, ~IsRnatSlot(a), ~IsRnatSlot(b)
  PROVE  /\ a < b <=> RegRank(a) < RegRank(b)
         /\ a <= b => RegRank(b) - RegRank(a) <= b - a /\ b - a <= 2 * (RegRank(b) - RegRank(a))
         /\ RegRank(a) = RegRank(b) => a = b
<1> DEFINE r == RegRank(a)
           s == RegRank(b)
<1>1. r \in Int /\ s \in Int /\ RegHome(r) = a /\ RegHome(s) = b
  BY RankIs
<1> HIDE DEF r, s
<1>2. r <= s => b - a \in s - r .. 2 * (s - r)
  BY <1>1, HomeOrder
<1>3. s <= r => a - b \in r - s .. 2 * (r - s)
  BY <1>1, HomeOrder
<1>4. /\ a < b <=> r < s
      /\ a <= b => s - r <= b - a /\ b - a <= 2 * (s - r)
      /\ r = s => a = b
  BY <1>1, <1>2, <1>3
<1> QED
  BY <1>4 DEF r, s

\* MoveRegs goes from an address n registers on, or back.
LEMMA MoveRegsIs ==
  ASSUME NEW a \in Int, ~IsRnatSlot(a), NEW n \in Int
  PROVE  MoveRegs(a, n) = RegHome(RegRank(a) + n)
<1> DEFINE h == RegHome(RegRank(a) + n)
<1>1. RegRank(a) \in Int /\ RegHome(RegRank(a)) = a /\ RegRank(a + 1) = RegRank(a) + 1
  BY RankIs
<1>2. h \in Int /\ ~IsRnatSlot(h) /\ RegRank(h) = RegRank(a) + n /\ RegRank(h + 1) = RegRank(a) + n + 1
  <2>1. RegRank(a) + n \in Int
    BY <1>1
  <2> QED
    BY <2>1, HomeIs
<1>3. CASE n >= 0
  <2> DEFINE P(b) == (n = 0 /\ b = a) \/ (~IsRnatSlot(b) /\ RegsBetween(a + 1, b) = n)
  <2>1. h \in a .. a + 2 * n + 1
    <3> DEFINE r == RegRank(a)
    <3>1. r \in Int /\ n \in Nat
      BY <1>1, <1>3
    <3> HIDE DEF r
    <3>2. RegHome(r + n) - RegHome(r) \in n .. 2 * n
      BY <3>1, HomeSpreads
    <3>3. h - a \in n .. 2 * n
      BY <1>1, <3>2 DEF r
    <3> QED
      BY <1>2, <1>3, <3>3
  <2>2. P(h)
    <3>1. RegsBetween(a + 1, h) = RegRank(h + 1) - RegRank(a + 1)
      BY <1>2, <2>1, Counted
    <3> QED
      BY <1>1, <1>2, <3>1
  <2>3. \A b \in a .. a + 2 * n + 1 : P(b) => b = h
    <3> SUFFICES ASSUME NEW b \in a .. a + 2 * n + 1, P(b) PROVE b = h
      OBVIOUS
    <3>1. b \in Int /\ a + 1 <= b + 1
      BY <1>3
    <3>2. CASE n = 0 /\ b = a
      BY <3>2, <1>1
    <3>3. CASE ~IsRnatSlot(b) /\ RegsBetween(a + 1, b) = n
      <4>1. RegsBetween(a + 1, b) = RegRank(b + 1) - RegRank(a + 1)
        BY <3>1, Counted
      <4>2. RegRank(b + 1) = RegRank(b) + 1 /\ RegRank(b) \in Int
        BY <3>1, <3>3, RankIs
      <4>3. RegRank(b) = RegRank(h)
        BY <3>3, <4>1, <4>2, <1>1, <1>2
      <4> QED
        BY <3>1, <3>3, <4>3, <1>2, RankGrows
    <3> QED
      BY <3>2, <3>3
  <2>4. MoveRegs(a, n) = CHOOSE b \in a .. a + 2 * n + 1 : P(b)
    BY <1>3 DEF MoveRegs
  <2> HIDE DEF P
  <2> QED
    BY <2>1, <2>2, <2>3, <2>4
<1>4. CASE n < 0
  <2> DEFINE P(b) == ~IsRnatSlot(b) /\ RegsBetween(b, a - 1) = -n
  <2>1. h \in a + 2 * n - 1 .. a
    <3>1. -n \in Nat /\ RegRank(a) + n + (-n) = RegRank(a) /\ RegRank(a) + n \in Int
      BY <1>1, <1>4
    <3>2. a - h \in -n .. 2 * (-n)
      BY <1>1, <3>1, HomeSpreads
    <3> QED
      BY <1>2, <3>2, <1>4
  <2>2. P(h)
    <3>1. RegsBetween(h, a - 1) = RegRank(a - 1 + 1) - RegRank(h)
      BY <1>2, <2>1, Counted
    <3>2. a - 1 + 1 = a
      OBVIOUS
    <3> QED
      BY <1>1, <1>2, <3>1, <3>2
  <2>3. \A b \in a + 2 * n - 1 .. a : P(b) => b = h
    <3> SUFFICES ASSUME NEW b \in a + 2 * n - 1 .. a, P(b) PROVE b = h
      OBVIOUS
    <3>1. b \in Int /\ b <= a - 1 + 1 /\ a - 1 + 1 = a
      BY <1>4
    <3>2. RegsBetween(b, a - 1) = RegRank(a) - RegRank(b)
      BY <3>1, Counted
    <3>3. RegRank(b) = RegRank(h)
      BY <3>1, <3>2, <1>1, <1>2, RankIs
    <3> QED
      BY <3>1, <3>3, <1>2, RankGrows
  <2>4. MoveRegs(a, n) = CHOOSE b \in a + 2 * n - 1 .. a : P(b)
    BY <1>4 DEF MoveRegs
  <2> HIDE DEF P
  <2> QED
    BY <2>1, <2>2, <2>3, <2>4
<1> QED
  BY <1>3, <1>4

----------------------------------------------------------------------------
\* The states of the engine.

RseStates ==
  [gr : [0 .. RseCapacity - 1 -> Nat], bof : Nat, total : Nat, sof : Nat, sol : Nat, sor : Nat, rrb : Nat,
   flushed : Nat, anchorAddr : Nat, anchorRegs : Nat]

\* From a position to the place of its word in the backing store.
Shift(s) == RegRank(s.anchorAddr) - s.anchorRegs

\* As positions stay below the file's size, a position is its own slot.
RseStateOk(s) ==
  /\ s \in RseStates
  /\ s.sol <= s.sof /\ s.sor <= s.sof /\ s.bof = s.total
  /\ s.total + s.sof < RseDepth /\ s.flushed < RseDepth /\ s.anchorRegs < RseDepth
  /\ ~IsRnatSlot(s.anchorAddr)
  /\ Shift(s) >= 0 /\ Shift(s) <= RegRank(RseKernel)

LEMMA ConstantsAre ==
  /\ RseCapacity \in Nat /\ RseStacked \in Nat /\ RseSteps \in Nat /\ RseDepth \in Nat /\ RseKernel \in Nat
  /\ RseTraps \in Nat /\ RseRecords \in Nat
  /\ RseDepth > 0 /\ RseDepth <= RseCapacity /\ ~IsRnatSlot(RseKernel)
  /\ RseSpan \in Nat
  /\ RegRank(RseKernel) \in Nat /\ RegRank(RseKernel) > RseDepth * (RseSteps + 2) + RseSpan
  /\ RegHome(RegRank(RseKernel)) = RseKernel
<1>1. RseCapacity \div RseGroup \in Int /\ RseCapacity \div RseGroup >= 0
  <2>1. RseCapacity = RseGroup * (RseCapacity \div RseGroup) + (RseCapacity % RseGroup)
        /\ (RseCapacity % RseGroup) \in 0 .. RseGroup - 1 /\ RseCapacity \div RseGroup \in Int
    <3>1. RseCapacity \in Int /\ RseGroup \in Nat /\ RseGroup >= 1
      BY GroupIs, RseConstants
    <3> QED
      BY <3>1, Dividing
  <2> DEFINE q == RseCapacity \div RseGroup
             m == RseCapacity % RseGroup
  <2> HIDE DEF q, m
  <2>2. RseCapacity = RseGroup * q + m /\ m \in 0 .. RseGroup - 1 /\ q \in Int /\ RseCapacity \in Nat
    BY <2>1, RseConstants DEF q, m
  <2>3. q >= 0
    <3> SUFFICES ASSUME q <= -1 PROVE FALSE
      BY <2>2
    <3>1. RseGroup * q <= RseGroup * (-1)
      BY <2>2, GroupIs
    <3>2. RseGroup * (-1) = -RseGroup
      BY GroupIs
    <3> QED
      BY <2>2, <3>1, <3>2, GroupIs
  <2> QED
    BY <2>2, <2>3 DEF q
<1> DEFINE q == RseCapacity \div RseGroup
<1>2. q \in Nat
  BY <1>1
<1>3. RseSpan = RseCapacity + q + 1
  BY DEF RseSpan
<1> HIDE DEF q
<1>4. RegRank(RseKernel) = RseKernel - RseKernel \div RseGroup
  BY DEF RegRank
<1>5. RegRank(RseKernel) \in Int /\ RegHome(RegRank(RseKernel)) = RseKernel
  BY RankIs, RseConstants
<1>6. RseDepth * (RseSteps + 2) >= 0 /\ RseDepth * (RseSteps + 2) \in Int
  BY RseConstants
<1>7. RegRank(RseKernel) > RseDepth * (RseSteps + 2) + RseSpan
  BY <1>4, RseConstants
<1>8. RegRank(RseKernel) \in Nat
  <2> HIDE DEF RegRank
  <2>1. RseSpan \in Nat
    BY <1>2, <1>3, RseConstants
  <2> QED
    BY <1>5, <1>6, <1>7, <2>1
<1> QED
  BY <1>2, <1>3, <1>5, <1>7, <1>8, RseConstants

\* A rewind within the live registers is never longer than the span.
LEMMA RewindShort ==
  ASSUME NEW r \in Int, NEW n \in 0 .. RseDepth - 1
  PROVE  RegHome(r + n) - RegHome(r) <= RseSpan
<1> DEFINE g == RseGroup - 1
           d == n \div g
           e == RseDepth \div g
           x == RegHome(r + n) - RegHome(r)
<1>1. g \in Nat /\ g >= 1 /\ RseDepth \in Nat /\ n \in Nat /\ n + 1 <= RseDepth /\ RseSpan \in Nat
  BY GroupIs, ConstantsAre
<1>2. d <= e /\ d \in Int /\ e \in Int
  <2>1. n <= RseDepth
    BY <1>1
  <2> HIDE DEF g
  <2> QED
    BY <1>1, <2>1, DivGrows
<1>3. x <= n + d + 1 /\ x \in Int
  <2>1. r + n \in Int
    BY <1>1
  <2> QED
    <3>1. x <= n + d + 1
      BY <1>1, HomeWithin
    <3>2. RegHome(r + n) \in Int /\ RegHome(r) \in Int
      BY <2>1, HomeIs
    <3> QED
      BY <3>1, <3>2
<1>4. RseDepth + e <= RseSpan
  BY RseConstants
<1> HIDE DEF d, e, g, x
<1>5. x <= RseSpan
  BY <1>1, <1>2, <1>3, <1>4
<1> QED
  BY <1>5 DEF x

LEMMA RseFields ==
  ASSUME NEW s, RseStateOk(s)
  PROVE  /\ s \in RseStates /\ s.total \in Nat /\ s.sof \in Nat /\ s.sol \in Nat /\ s.sor \in Nat /\ s.rrb \in Nat
         /\ s.flushed \in Nat /\ s.anchorAddr \in Nat /\ s.anchorRegs \in Nat /\ s.bof = s.total
         /\ s.gr \in [0 .. RseCapacity - 1 -> Nat] /\ s.sol <= s.sof /\ s.sor <= s.sof
         /\ s.total + s.sof < RseDepth /\ s.flushed < RseDepth /\ s.anchorRegs < RseDepth
         /\ ~IsRnatSlot(s.anchorAddr) /\ RegRank(s.anchorAddr) \in Int
         /\ Shift(s) \in Nat /\ Shift(s) <= RegRank(RseKernel)
<1>1. s \in RseStates /\ s.anchorAddr \in Nat /\ s.anchorRegs \in Nat
  BY DEF RseStateOk, RseStates
<1>2. RegRank(s.anchorAddr) \in Int
  BY <1>1, RankIs
<1>3. Shift(s) \in Int
  BY <1>1, <1>2 DEF Shift
<1> QED
  BY <1>1, <1>2, <1>3 DEF RseStateOk, RseStates

\* Where the word of a position is, and which position an address is of.
LEMMA RseAddrIs ==
  ASSUME NEW s, RseStateOk(s), NEW p \in Int
  PROVE  RseAddr(s, p) = RegHome(p + Shift(s))
<1>1. /\ s.anchorAddr \in Int /\ ~IsRnatSlot(s.anchorAddr) /\ p - s.anchorRegs \in Int
      /\ RegRank(s.anchorAddr) \in Int /\ s.anchorRegs \in Int
  BY RseFields
<1>2. RseAddr(s, p) = RegHome(RegRank(s.anchorAddr) + (p - s.anchorRegs))
  BY <1>1, MoveRegsIs DEF RseAddr
<1>3. RegRank(s.anchorAddr) + (p - s.anchorRegs) = p + Shift(s)
  BY <1>1 DEF Shift
<1> QED
  BY <1>2, <1>3

LEMMA AddrToRegsIs ==
  ASSUME NEW s, RseStateOk(s), NEW p \in Int
  PROVE  AddrToRegs(s, RegHome(p + Shift(s))) = p
<1> DEFINE r == p + Shift(s)
           a == RegHome(r)
           c == s.anchorAddr
<1>1. c \in Int /\ ~IsRnatSlot(c) /\ RegRank(c) \in Int /\ s.anchorRegs \in Int /\ r \in Int
      /\ r - RegRank(c) = p - s.anchorRegs
  BY RseFields DEF Shift
<1> HIDE DEF r, c
<1>2. a \in Int /\ ~IsRnatSlot(a) /\ RegRank(a) = r /\ RegRank(a + 1) = r + 1
  BY <1>1, HomeIs
<1> HIDE DEF a
<1>3. AddrToRegs(s, a) = s.anchorRegs + IF a >= c THEN RegsBetween(c + 1, a) ELSE -RegsBetween(a, c - 1)
  BY DEF AddrToRegs, c
<1>4. CASE a >= c
  <2>1. RegsBetween(c + 1, a) = RegRank(a + 1) - RegRank(c + 1)
    BY <1>1, <1>2, <1>4, Counted
  <2>2. RegRank(c + 1) = RegRank(c) + 1
    BY <1>1, RankIs
  <2> QED
    BY <1>1, <1>2, <1>3, <1>4, <2>1, <2>2 DEF a, r
<1>5. CASE ~(a >= c)
  <2>1. RegsBetween(a, c - 1) = RegRank(c - 1 + 1) - RegRank(a) /\ c - 1 + 1 = c
    BY <1>1, <1>2, <1>5, Counted
  <2> QED
    BY <1>1, <1>2, <1>3, <1>5, <2>1 DEF a, r
<1> QED
  BY <1>4, <1>5

LEMMA SlotIs ==
  ASSUME NEW s, RseStateOk(s), NEW p \in 0 .. RseDepth - 1
  PROVE  StackSlot(s, p) = p /\ p \in 0 .. RseCapacity - 1
<1>1. s.bof + p - s.total = p /\ p \in 0 .. RseCapacity - 1
  BY RseFields, ConstantsAre
<1>2. p % RseCapacity = p
  BY <1>1, ConstantsAre
<1> QED
  BY <1>1, <1>2 DEF StackSlot

\* All words that may be stored have an address.
LEMMA HomesExist ==
  ASSUME NEW s, RseStateOk(s), NEW p \in 0 .. RseDepth - 1
  PROVE  RegHome(p + Shift(s)) \in RseAddrs
<1> DEFINE r == p + Shift(s)
           k == RegRank(RseKernel)
<1>1. r \in Nat /\ r <= k + RseDepth /\ k \in Nat /\ RegHome(k) = RseKernel
  BY RseFields, ConstantsAre
<1> HIDE DEF r, k
<1>2. RegHome(r) \in Int /\ RegHome(r) >= 0
  <2>1. RegHome(r) - RegHome(0) \in r - 0 .. 2 * (r - 0)
    BY <1>1, HomeOrder
  <2>2. RegHome(0) = 0
    <3>1. 0 \div (RseGroup - 1) = 0
      BY DividedBy, GroupIs
    <3> QED
      BY <3>1 DEF RegHome
  <2> QED
    BY <1>1, <2>1, <2>2, HomeIs
<1>3. CASE r <= k
  <2>1. RegHome(k) - RegHome(r) \in k - r .. 2 * (k - r)
    BY <1>1, <1>3, HomeOrder
  <2>2. RegHome(r) <= RseKernel
    BY <1>1, <1>2, <1>3, <2>1, ConstantsAre
  <2> QED
    BY <1>2, <2>2, ConstantsAre DEF RseAddrs, r
<1>4. CASE r > k
  <2>1. RegHome(r) - RegHome(k) \in r - k .. 2 * (r - k)
    BY <1>1, <1>4, HomeOrder
  <2>2. RegHome(r) <= RseKernel + 2 * RseDepth
    BY <1>1, <1>2, <1>4, <2>1, ConstantsAre
  <2> QED
    BY <1>2, <2>2, ConstantsAre DEF RseAddrs, r
<1> QED
  BY <1>1, <1>3, <1>4

----------------------------------------------------------------------------
\* Registers [s.flushed, n) of s went to memory, which is now w.
Stores(s, n, w) ==
  /\ w \in [RseAddrs -> Nat]
  /\ \A p \in s.flushed .. n - 1 : w[RegHome(p + Shift(s))] = s.gr[p]
  /\ \A a \in RseAddrs : (\A p \in s.flushed .. n - 1 : RegHome(p + Shift(s)) # a) => w[a] = backing[a]

LEMMA StoredIs ==
  ASSUME NEW s, RseStateOk(s), NEW n \in 0 .. RseDepth, backing \in [RseAddrs -> Nat]
  PROVE  Stores(s, n, StoredWords(s, n))
<1> DEFINE P == s.flushed .. n - 1
           c(a) == CHOOSE p \in P : RseAddr(s, p) = a
           w == StoredWords(s, n)
<1>1. \A p \in P : p \in Int /\ p \in 0 .. RseDepth - 1
  BY RseFields, ConstantsAre
<1>2. \A p \in P : /\ RseAddr(s, p) = RegHome(p + Shift(s)) /\ RegHome(p + Shift(s)) \in RseAddrs
                   /\ StackSlot(s, p) = p /\ s.gr[p] \in Nat
  BY <1>1, RseAddrIs, HomesExist, SlotIs, RseFields
<1>3. w = [a \in RseAddrs |-> IF \E p \in P : RseAddr(s, p) = a THEN s.gr[StackSlot(s, c(a))] ELSE backing[a]]
  BY DEF StoredWords
<1>4. \A a : (\E p \in P : RseAddr(s, p) = a) => c(a) \in P /\ RseAddr(s, c(a)) = a
  OBVIOUS
<1> HIDE DEF P, c, w
<1>5. \A p \in P : c(RegHome(p + Shift(s))) = p
  <2> SUFFICES ASSUME NEW p \in P PROVE c(RegHome(p + Shift(s))) = p
    OBVIOUS
  <2> DEFINE q == c(RegHome(p + Shift(s)))
  <2>1. q \in P /\ RseAddr(s, q) = RegHome(p + Shift(s))
    BY <1>2, <1>4
  <2> HIDE DEF q
  <2>2. RegHome(q + Shift(s)) = RegHome(p + Shift(s))
    BY <1>2, <2>1
  <2>3. p \in Int /\ q \in Int /\ Shift(s) \in Int
    BY <1>1, <2>1, RseFields
  <2>4. q + Shift(s) = p + Shift(s)
    BY <2>2, <2>3, HomesDiffer
  <2>5. q = p
    BY <2>3, <2>4
  <2> QED
    BY <2>5 DEF q
<1>6. \A p \in P : w[RegHome(p + Shift(s))] = s.gr[p]
  <2> SUFFICES ASSUME NEW p \in P PROVE w[RegHome(p + Shift(s))] = s.gr[p]
    OBVIOUS
  <2>1. w[RegHome(p + Shift(s))] = s.gr[StackSlot(s, c(RegHome(p + Shift(s))))]
    BY <1>2, <1>3
  <2> QED
    BY <1>2, <1>5, <2>1
<1>7. \A a \in RseAddrs : (\A p \in P : RegHome(p + Shift(s)) # a) => w[a] = backing[a]
  BY <1>2, <1>3
<1>8. w \in [RseAddrs -> Nat]
  <2>1. \A a \in RseAddrs : w[a] \in Nat
    <3> SUFFICES ASSUME NEW a \in RseAddrs PROVE w[a] \in Nat
      OBVIOUS
    <3>1. CASE \E p \in P : RegHome(p + Shift(s)) = a
      BY <3>1, <1>6, <1>2
    <3>2. CASE \A p \in P : RegHome(p + Shift(s)) # a
      BY <3>2, <1>7
    <3> QED
      BY <3>1, <3>2
  <2> QED
    BY <1>3, <2>1
<1> QED
  BY <1>6, <1>7, <1>8 DEF Stores, P, w

\* What L names and s has below its store boundary is in memory w.
Homed(s, L, w) ==
  \A p \in L : s.anchorRegs <= p /\ p < s.flushed => w[RegHome(p + Shift(s))] = s.gr[p]

\* A store of the registers up to n, after which the boundary is at f.
Boundary(s, n, f) ==
  /\ n \in 0 .. s.total + s.sof /\ f \in Nat
  /\ f = s.flushed \/ (f = n /\ (n >= s.flushed \/ n = s.total + s.sof))

Spilled(s, out) ==
  \E n, f : Boundary(s, n, f) /\ out[1] = [s EXCEPT !.flushed = f] /\ Stores(s, n, out[2])

LEMMA BoundaryIs ==
  ASSUME NEW s, RseStateOk(s), NEW n, NEW f, Boundary(s, n, f)
  PROVE  n \in 0 .. RseDepth - 1 /\ f \in 0 .. RseDepth - 1 /\ (f = s.flushed \/ f = n)
BY RseFields, ConstantsAre DEF Boundary

LEMMA ThroughIs ==
  ASSUME NEW s, RseStateOk(s), backing \in [RseAddrs -> Nat], NEW end \in 0 .. s.total + s.sof,
         end >= s.flushed \/ end = s.total + s.sof, NEW out \in StoreThrough(s, end)
  PROVE  Spilled(s, out)
<1>0. s.flushed \in Nat /\ s.total + s.sof \in Nat /\ s.total + s.sof < RseDepth /\ RseDepth \in Nat
  BY RseFields, ConstantsAre
<1>1. CASE out = <<[s EXCEPT !.flushed = end], StoredWords(s, end)>>
  <2>1. Stores(s, end, StoredWords(s, end))
    BY <1>0, StoredIs
  <2>2. Boundary(s, end, end)
    BY <1>0 DEF Boundary
  <2> QED
    BY <1>1, <2>1, <2>2 DEF Spilled
<1>2. CASE \E n \in s.flushed .. end - 1 : out = <<s, StoredWords(s, n)>>
  <2>1. PICK n \in s.flushed .. end - 1 : out = <<s, StoredWords(s, n)>>
    BY <1>2
  <2>2. Stores(s, n, StoredWords(s, n))
    BY <1>0, StoredIs
  <2>3. Boundary(s, n, s.flushed)
    BY <1>0 DEF Boundary
  <2>4. s = [s EXCEPT !.flushed = s.flushed]
    BY RseFields DEF RseStates
  <2> QED
    BY <2>1, <2>2, <2>3, <2>4 DEF Spilled
<1> QED
  BY <1>1, <1>2 DEF StoreThrough

LEMMA SpillIs ==
  ASSUME NEW s, RseStateOk(s), backing \in [RseAddrs -> Nat], NEW out \in SpillExcess(s)
  PROVE  Spilled(s, out)
<1>0. /\ s.flushed \in Nat /\ s.total + s.sof \in Nat /\ s.total + s.sof < RseDepth /\ RseDepth \in Nat
      /\ RseStacked \in Nat /\ Bsp(s) = s.total + s.sof
  BY RseFields, ConstantsAre DEF Bsp
<1>1. CASE Bsp(s) - s.flushed <= RseStacked
  <2>1. out = <<s, backing>>
    BY <1>1 DEF SpillExcess
  <2>2. Stores(s, 0, backing)
    <3>1. s.flushed .. 0 - 1 = {}
      BY <1>0
    <3> QED
      BY <3>1 DEF Stores
  <2>3. Boundary(s, 0, s.flushed)
    BY <1>0 DEF Boundary
  <2>4. s = [s EXCEPT !.flushed = s.flushed]
    BY RseFields DEF RseStates
  <2> QED
    BY <2>1, <2>2, <2>3, <2>4 DEF Spilled
<1>2. CASE ~(Bsp(s) - s.flushed <= RseStacked)
  <2>1. out \in StoreThrough(s, Bsp(s) - RseStacked)
    BY <1>2 DEF SpillExcess
  <2>2. Bsp(s) - RseStacked \in 0 .. s.total + s.sof /\ Bsp(s) - RseStacked >= s.flushed
    BY <1>0, <1>2
  <2> QED
    BY <2>1, <2>2, ThroughIs
<1> QED
  BY <1>1, <1>2

LEMMA FlushrsIs ==
  ASSUME NEW s, RseStateOk(s), backing \in [RseAddrs -> Nat], NEW out \in RseFlush(s)
  PROVE  Spilled(s, out)
<1>1. Bsp(s) = s.total + s.sof /\ Bsp(s) \in 0 .. s.total + s.sof
  BY RseFields DEF Bsp
<1> QED
  BY <1>1, ThroughIs DEF RseFlush

\* What was held still is after a store, and so is what the store reached.
LEMMA HomedAt ==
  ASSUME NEW s, RseStateOk(s), NEW L, Homed(s, L, backing), NEW n, NEW f, Boundary(s, n, f), NEW w, Stores(s, n, w),
         NEW p \in L, p \in Nat, p < RseDepth, s.anchorRegs <= p, p < f
  PROVE  w[RegHome(p + Shift(s))] = s.gr[p]
<1>0. p \in 0 .. RseDepth - 1 /\ s.flushed \in Nat /\ Shift(s) \in Nat /\ n \in Nat /\ f \in Nat /\ RseDepth \in Nat
  BY RseFields, ConstantsAre, BoundaryIs
<1>1. CASE p \in s.flushed .. n - 1
  BY <1>1 DEF Stores
<1>2. CASE p \notin s.flushed .. n - 1
  <2>1. p < s.flushed
    BY <1>0, <1>2, BoundaryIs
  <2>2. backing[RegHome(p + Shift(s))] = s.gr[p]
    BY <2>1 DEF Homed
  <2>3. \A q \in s.flushed .. n - 1 : RegHome(q + Shift(s)) # RegHome(p + Shift(s))
    <3> SUFFICES ASSUME NEW q \in s.flushed .. n - 1, RegHome(q + Shift(s)) = RegHome(p + Shift(s)) PROVE FALSE
      OBVIOUS
    <3>1. q + Shift(s) = p + Shift(s)
      BY <1>0, HomesDiffer
    <3> QED
      BY <1>0, <1>2, <3>1
  <2>4. RegHome(p + Shift(s)) \in RseAddrs
    BY <1>0, HomesExist
  <2> QED
    BY <2>2, <2>3, <2>4 DEF Stores
<1> QED
  BY <1>1, <1>2

LEMMA HomedAfter ==
  ASSUME NEW s, RseStateOk(s), NEW L, Homed(s, L, backing), NEW M, M \subseteq L, M \subseteq 0 .. RseDepth - 1,
         NEW n, NEW f, Boundary(s, n, f), NEW w, Stores(s, n, w)
  PROVE  \A p \in M : s.anchorRegs <= p /\ p < f => w[RegHome(p + Shift(s))] = s.gr[p]
<1> SUFFICES ASSUME NEW p \in M, s.anchorRegs <= p, p < f
             PROVE  w[RegHome(p + Shift(s))] = s.gr[p]
  OBVIOUS
<1>1. p \in L /\ p \in Nat /\ p < RseDepth
  BY ConstantsAre
<1> QED
  BY <1>1, HomedAt

----------------------------------------------------------------------------
\* The contexts of the open interruptions.

RseTrapSet == [part : RseStates, live : SUBSET Nat, store : Int, base : Nat]

RseTrapOk(t) ==
  /\ t \in RseTrapSet /\ RseStateOk(t.part) /\ t.base = t.part.total + t.part.sof
  /\ t.live \subseteq 0 .. t.base - 1

\* s has its words where t's context has them, or all it may still store lies above.
Link(s, t) ==
  /\ Shift(s) >= Shift(t.part)
  /\ Shift(s) = Shift(t.part) \/ s.flushed + Shift(s) >= t.base + Shift(t.part)

\* The registers of t's context are among the live ones, with their values.
Carries(s, L, t) == t.live \subseteq L /\ \A p \in t.live : s.gr[p] = t.part.gr[p]

Around(s, L, ts, k) == \A j \in 1 .. k : Link(s, ts[j]) /\ Carries(s, L, ts[j])

TrapsOk(ts, w) ==
  \A k \in 1 .. Len(ts) : /\ RseTrapOk(ts[k]) /\ Homed(ts[k].part, ts[k].live, w)
                          /\ Around(ts[k].part, ts[k].live, ts, k - 1)

LEMMA TrapFields ==
  ASSUME NEW t, RseTrapOk(t)
  PROVE  /\ t.base \in Nat /\ t.base < RseDepth /\ t.store \in Int /\ RseStateOk(t.part)
         /\ t.base = t.part.total + t.part.sof
         /\ \A p \in t.live : p \in Nat /\ p < t.base /\ p \in 0 .. RseDepth - 1
<1>1. RseStateOk(t.part) /\ t.base = t.part.total + t.part.sof /\ t.live \subseteq 0 .. t.base - 1 /\ t.store \in Int
  BY DEF RseTrapOk, RseTrapSet
<1>2. t.base \in Nat /\ t.base < RseDepth /\ RseDepth \in Nat
  BY <1>1, RseFields, ConstantsAre
<1> QED
  BY <1>1, <1>2

\* A store leaves the words of an interrupted context as they were.
LEMMA HomedThrough ==
  ASSUME NEW s, RseStateOk(s), NEW t, RseTrapOk(t), Homed(t.part, t.live, backing), Link(s, t),
         \A p \in t.live : s.gr[p] = t.part.gr[p], NEW n \in Nat, NEW w, Stores(s, n, w)
  PROVE  Homed(t.part, t.live, w)
<1> SUFFICES ASSUME NEW q \in t.live, t.part.anchorRegs <= q, q < t.part.flushed
             PROVE  w[RegHome(q + Shift(t.part))] = t.part.gr[q]
  BY DEF Homed
<1> DEFINE u == t.part
           h == RegHome(q + Shift(u))
<1>0. /\ q \in 0 .. RseDepth - 1 /\ q < t.base /\ t.base \in Nat /\ RseStateOk(u) /\ Shift(u) \in Nat
      /\ Shift(s) \in Nat /\ s.flushed \in Nat /\ q \in Nat
  BY TrapFields, RseFields
<1>1. backing[h] = u.gr[q] /\ h \in RseAddrs
  BY <1>0, HomesExist DEF Homed
<1>2. CASE \A p \in s.flushed .. n - 1 : RegHome(p + Shift(s)) # h
  BY <1>1, <1>2 DEF Stores
<1>3. CASE \E p \in s.flushed .. n - 1 : RegHome(p + Shift(s)) = h
  <2>1. PICK p \in s.flushed .. n - 1 : RegHome(p + Shift(s)) = h
    BY <1>3
  <2>2. p + Shift(s) = q + Shift(u) /\ p \in Int
    BY <1>0, <2>1, HomesDiffer
  <2>3. w[h] = s.gr[p]
    BY <2>1 DEF Stores
  <2>4. Shift(s) = Shift(u)
    BY <1>0, <2>1, <2>2 DEF Link
  <2>5. p = q
    BY <1>0, <2>2, <2>4
  <2> QED
    BY <2>3, <2>5
<1> QED
  BY <1>2, <1>3

LEMMA LinkOn ==
  ASSUME NEW s, RseStateOk(s), NEW r, RseStateOk(r), NEW t, RseTrapOk(t), Link(s, t), Shift(r) = Shift(s),
         r.flushed >= s.flushed \/ r.flushed >= t.base
  PROVE  Link(r, t)
<1>1. /\ Shift(s) \in Nat /\ Shift(t.part) \in Nat /\ s.flushed \in Nat /\ r.flushed \in Nat /\ t.base \in Nat
  BY RseFields, TrapFields
<1> HIDE DEF Shift
<1> QED
  BY <1>1 DEF Link

----------------------------------------------------------------------------
\* Where the program and the handlers keep their stacks.

Among(ts, m, n) == \A k \in 1 .. m : Shift(ts[k].part) <= RseDepth * n

\* No handler has switched: all contexts are on the program's store.
InUser(s, ts, n) ==
  (\A k \in 1 .. Len(ts) : ts[k].store = -1) /\ Shift(s) <= RseDepth * n /\ Among(ts, Len(ts), n)

\* Where the program's stack will go on when the handler of t switches back.
Low(s, t) == IF s.anchorRegs < t.base THEN s.anchorRegs ELSE t.base
Resumes(s, t) == RegRank(t.store) - Low(s, t)

\* The handler of interruption m has.
InKernel(s, ts, n, m) ==
  /\ m \in 1 .. Len(ts)
  /\ ts[m].store \in Nat /\ ~IsRnatSlot(ts[m].store)
  /\ \A k \in 1 .. Len(ts) : k # m => ts[k].store = -1
  /\ s.anchorAddr = RseKernel
  /\ \A k \in m + 1 .. Len(ts) : ts[k].part.anchorAddr = RseKernel /\ ts[k].part.anchorRegs = s.anchorRegs
  /\ Among(ts, m, n) /\ Resumes(s, ts[m]) >= 0 /\ Resumes(s, ts[m]) <= RseDepth * n
  /\ \A k \in 1 .. m : /\ Resumes(s, ts[m]) >= Shift(ts[k].part)
                       /\ \/ Resumes(s, ts[m]) = Shift(ts[k].part)
                          \/ RegRank(ts[m].store) >= ts[k].base + Shift(ts[k].part)

RseModes(s, ts, n) == InUser(s, ts, n) \/ \E m \in 1 .. Len(ts) : InKernel(s, ts, n, m)

LEMMA DriftGrows ==
  ASSUME NEW n \in Nat
  PROVE  /\ RseDepth * n \in Nat /\ RseDepth * (n + 1) = RseDepth * n + RseDepth
         /\ n <= RseSteps => RseDepth * n + 2 * RseDepth + RseSpan < RegRank(RseKernel)
<1>1. RseDepth \in Nat /\ RseDepth > 0 /\ RseSteps \in Nat /\ RseSpan \in Nat /\ RegRank(RseKernel) \in Nat
      /\ RegRank(RseKernel) > RseDepth * (RseSteps + 2) + RseSpan
  BY ConstantsAre
<1> DEFINE k == RegRank(RseKernel)
<1> HIDE DEF k
<1>2. k \in Nat /\ k > RseDepth * (RseSteps + 2) + RseSpan
  BY <1>1 DEF k
<1>3. RseDepth * n \in Nat /\ RseDepth * (n + 1) = RseDepth * n + RseDepth
  BY <1>1
<1>4. ASSUME n <= RseSteps PROVE RseDepth * n + 2 * RseDepth + RseSpan < k
  <2>1. RseDepth * n <= RseDepth * RseSteps
    BY <1>1, <1>4
  <2>2. RseDepth * (RseSteps + 2) = RseDepth * RseSteps + 2 * RseDepth
    BY <1>1
  <2>3. RseDepth * RseSteps \in Nat
    BY <1>1
  <2> QED
    BY <1>1, <1>2, <1>3, <2>1, <2>2, <2>3
<1> QED
  BY <1>3, <1>4 DEF k

LEMMA AmongOn ==
  ASSUME NEW ts, NEW m \in Nat, NEW n \in Nat, Among(ts, m, n), \A k \in 1 .. m : RseTrapOk(ts[k])
  PROVE  Among(ts, m, n + 1)
<1> SUFFICES ASSUME NEW k \in 1 .. m PROVE Shift(ts[k].part) <= RseDepth * (n + 1)
  BY DEF Among
<1>1. Shift(ts[k].part) \in Nat /\ Shift(ts[k].part) <= RseDepth * n
  BY TrapFields, RseFields DEF Among
<1> HIDE DEF Shift
<1> QED
  BY <1>1, DriftGrows, ConstantsAre

LEMMA ResumesIs ==
  ASSUME NEW s, RseStateOk(s), NEW t, RseTrapOk(t)
  PROVE  /\ RegRank(t.store) \in Int /\ Resumes(s, t) \in Int /\ Low(s, t) \in Nat
         /\ Low(s, t) <= s.anchorRegs /\ Low(s, t) <= t.base
         /\ RegRank(t.store) = Low(s, t) + Resumes(s, t)
<1>1. t.base \in Nat /\ s.anchorRegs \in Nat /\ t.store \in Int
  BY TrapFields, RseFields
<1>2. RegRank(t.store) \in Int
  BY <1>1, RankIs
<1> HIDE DEF RegRank
<1> QED
  BY <1>1, <1>2 DEF Resumes, Low

\* A step that changes neither the traps nor where the stack is anchored.
LEMMA ModesOn ==
  ASSUME NEW s, RseStateOk(s), NEW r, RseStateOk(r), NEW ts, Len(ts) \in Nat,
         \A k \in 1 .. Len(ts) : RseTrapOk(ts[k]), NEW n \in Nat,
         RseModes(s, ts, n), r.anchorAddr = s.anchorAddr, r.anchorRegs = s.anchorRegs
  PROVE  RseModes(r, ts, n + 1)
<1>1. Shift(r) = Shift(s) /\ Shift(s) \in Nat
  BY RseFields DEF Shift
<1>2. RseDepth * n \in Nat /\ RseDepth * (n + 1) = RseDepth * n + RseDepth /\ RseDepth \in Nat
  BY DriftGrows, ConstantsAre
<1>3. CASE InUser(s, ts, n)
  <2>1. Among(ts, Len(ts), n + 1)
    BY <1>3, AmongOn DEF InUser
  <2>2. Shift(r) <= RseDepth * (n + 1)
    BY <1>1, <1>2, <1>3 DEF InUser
  <2> QED
    BY <1>3, <2>1, <2>2 DEF InUser, RseModes
<1>4. ASSUME NEW m \in 1 .. Len(ts), InKernel(s, ts, n, m) PROVE InKernel(r, ts, n + 1, m)
  <2>1. Among(ts, m, n + 1)
    BY <1>4, AmongOn DEF InKernel
  <2>2. Resumes(r, ts[m]) = Resumes(s, ts[m])
    BY DEF Resumes, Low
  <2>3. Resumes(s, ts[m]) \in Int
    BY ResumesIs
  <2>4. Resumes(s, ts[m]) <= RseDepth * (n + 1)
    BY <1>2, <1>4, <2>3 DEF InKernel
  <2> QED
    BY <1>4, <2>1, <2>2, <2>4 DEF InKernel
<1> QED
  BY <1>3, <1>4 DEF RseModes

----------------------------------------------------------------------------
\* The frames that calls and traps keep: b is where each begins, m at which mark
\* in calls a trap stands.

RseFrames == [sof : Int, sol : Nat, sor : Nat, rrb : Nat]

FrameChain(b, m, c, ts, top) ==
  /\ b \in [1 .. Len(c) + 1 -> Nat] /\ b[Len(c) + 1] = top
  /\ \A i, j \in 1 .. Len(c) + 1 : i <= j => b[i] <= b[j]
  /\ \A j \in 1 .. Len(c) : c[j].sof # -1 =>
       /\ c[j].sof \in Nat /\ c[j].sol <= c[j].sof /\ c[j].sor <= c[j].sof
       /\ b[j + 1] = b[j] + c[j].sol /\ b[j] + c[j].sof < RseDepth
  /\ m \in [1 .. Len(ts) -> 1 .. Len(c)]
  /\ \A k, l \in 1 .. Len(ts) : k < l => m[k] < m[l]
  /\ \A j \in 1 .. Len(c) : c[j].sof = -1 => \E k \in 1 .. Len(ts) : m[k] = j
  /\ \A k \in 1 .. Len(ts) : /\ c[m[k]].sof = -1
                             /\ b[m[k]] = ts[k].part.total /\ b[m[k] + 1] = ts[k].base

FramesOk(c, ts, top) == \E b, m : FrameChain(b, m, c, ts, top)

\* The stack is above the frame of every interruption.
LEMMA BasesBelow ==
  ASSUME NEW c, Len(c) \in Nat, NEW ts, NEW top, FramesOk(c, ts, top)
  PROVE  \A k \in 1 .. Len(ts) : ts[k].base <= top
<1>1. PICK b, m : FrameChain(b, m, c, ts, top)
  BY DEF FramesOk
<1> SUFFICES ASSUME NEW k \in 1 .. Len(ts) PROVE ts[k].base <= top
  OBVIOUS
<1>2. m[k] \in 1 .. Len(c) /\ b[m[k] + 1] = ts[k].base /\ b[Len(c) + 1] = top
  BY <1>1 DEF FrameChain
<1>3. m[k] + 1 \in 1 .. Len(c) + 1 /\ Len(c) + 1 \in 1 .. Len(c) + 1 /\ m[k] + 1 <= Len(c) + 1
  BY <1>2
<1> QED
  BY <1>1, <1>2, <1>3 DEF FrameChain

\* Only the bases and the interrupted frames of traps matter.
LEMMA FramesSame ==
  ASSUME NEW c, NEW ts, NEW ts2, NEW top, FramesOk(c, ts, top), Len(ts2) = Len(ts),
         \A k \in 1 .. Len(ts) : ts2[k].part = ts[k].part /\ ts2[k].base = ts[k].base
  PROVE  FramesOk(c, ts2, top)
<1>1. PICK b, m : FrameChain(b, m, c, ts, top)
  BY DEF FramesOk
<1>2. \A k \in 1 .. Len(ts2) : c[m[k]].sof = -1 /\ b[m[k]] = ts2[k].part.total /\ b[m[k] + 1] = ts2[k].base
  BY <1>1 DEF FrameChain
<1>3. FrameChain(b, m, c, ts2, top)
  BY <1>1, <1>2 DEF FrameChain
<1> QED
  BY <1>3 DEF FramesOk

LEMMA FramesCall ==
  ASSUME NEW c \in Seq(RseFrames), NEW ts, Len(ts) \in Nat, NEW top \in Nat, FramesOk(c, ts, top), NEW f \in RseFrames,
         f.sof \in Nat, f.sol <= f.sof, f.sor <= f.sof, top + f.sof < RseDepth
  PROVE  FramesOk(Append(c, f), ts, top + f.sol)
<1>1. PICK b, m : FrameChain(b, m, c, ts, top)
  BY DEF FramesOk
<1> DEFINE d == Append(c, f)
           a == [j \in 1 .. Len(d) + 1 |-> IF j = Len(d) + 1 THEN top + f.sol ELSE b[j]]
<1>2. /\ Len(d) = Len(c) + 1 /\ Len(c) \in Nat /\ d[Len(d)] = f /\ \A j \in 1 .. Len(c) : d[j] = c[j]
      /\ f.sol \in Nat /\ f.sof # -1
  BY DEF RseFrames
<1> HIDE DEF d
<1>3. b \in [1 .. Len(d) -> Nat] /\ b[Len(d)] = top /\ \A i, j \in 1 .. Len(d) : i <= j => b[i] <= b[j]
  BY <1>1, <1>2 DEF FrameChain
<1>4. a \in [1 .. Len(d) + 1 -> Nat] /\ a[Len(d) + 1] = top + f.sol /\ \A j \in 1 .. Len(d) : a[j] = b[j]
  BY <1>2, <1>3
<1> HIDE DEF a
<1>5. \A j \in 1 .. Len(d) : b[j] <= top /\ b[j] \in Nat
  <2>1. Len(d) \in 1 .. Len(d)
    BY <1>2
  <2> QED
    BY <1>3, <2>1
<1>6. \A i, j \in 1 .. Len(d) + 1 : i <= j => a[i] <= a[j]
  <2> SUFFICES ASSUME NEW i \in 1 .. Len(d) + 1, NEW j \in 1 .. Len(d) + 1, i <= j PROVE a[i] <= a[j]
    OBVIOUS
  <2>1. CASE j = Len(d) + 1 /\ i # j
    <3>1. i \in 1 .. Len(d) /\ a[i] = b[i] /\ b[i] <= top /\ a[j] = top + f.sol /\ b[i] \in Nat
      BY <1>2, <1>4, <1>5, <2>1
    <3> QED
      BY <1>2, <3>1
  <2>2. CASE j = i
    BY <1>4, <2>2
  <2>3. CASE j \in 1 .. Len(d)
    BY <1>2, <1>3, <1>4, <2>3
  <2> QED
    BY <1>2, <2>1, <2>2, <2>3
<1>7. \A j \in 1 .. Len(d) : d[j].sof # -1 =>
        /\ d[j].sof \in Nat /\ d[j].sol <= d[j].sof /\ d[j].sor <= d[j].sof
        /\ a[j + 1] = a[j] + d[j].sol /\ a[j] + d[j].sof < RseDepth
  <2> SUFFICES ASSUME NEW j \in 1 .. Len(d), d[j].sof # -1
               PROVE  /\ d[j].sof \in Nat /\ d[j].sol <= d[j].sof /\ d[j].sor <= d[j].sof
                      /\ a[j + 1] = a[j] + d[j].sol /\ a[j] + d[j].sof < RseDepth
    OBVIOUS
  <2>1. CASE j = Len(d)
    BY <1>2, <1>3, <1>4, <2>1
  <2>2. CASE j \in 1 .. Len(c)
    <3>0. j \in 1 .. Len(d) /\ j + 1 \in 1 .. Len(d)
      BY <1>2, <2>2
    <3>1. d[j] = c[j] /\ a[j] = b[j] /\ a[j + 1] = b[j + 1]
      BY <1>2, <1>4, <2>2, <3>0
    <3> QED
      BY <1>1, <2>2, <3>1 DEF FrameChain
  <2> QED
    BY <1>2, <2>1, <2>2
<1>8. m \in [1 .. Len(ts) -> 1 .. Len(c)] /\ \A k, l \in 1 .. Len(ts) : k < l => m[k] < m[l]
  BY <1>1 DEF FrameChain
<1>9. \A k \in 1 .. Len(ts) : d[m[k]].sof = -1 /\ a[m[k]] = ts[k].part.total /\ a[m[k] + 1] = ts[k].base
  <2> SUFFICES ASSUME NEW k \in 1 .. Len(ts)
               PROVE  d[m[k]].sof = -1 /\ a[m[k]] = ts[k].part.total /\ a[m[k] + 1] = ts[k].base
    OBVIOUS
  <2>1. m[k] \in 1 .. Len(c) /\ m[k] \in 1 .. Len(d) /\ m[k] + 1 \in 1 .. Len(d)
    BY <1>2, <1>8
  <2> QED
    BY <1>1, <1>2, <1>4, <2>1 DEF FrameChain
<1>10. \A j \in 1 .. Len(d) : d[j].sof = -1 => \E k \in 1 .. Len(ts) : m[k] = j
  <2> SUFFICES ASSUME NEW j \in 1 .. Len(d), d[j].sof = -1 PROVE \E k \in 1 .. Len(ts) : m[k] = j
    OBVIOUS
  <2>1. j \in 1 .. Len(c) /\ c[j].sof = -1
    BY <1>2
  <2> QED
    BY <1>1, <2>1 DEF FrameChain
<1>11. m \in [1 .. Len(ts) -> 1 .. Len(d)]
  BY <1>2, <1>8
<1>12. FrameChain(a, m, d, ts, top + f.sol)
  BY <1>4, <1>6, <1>7, <1>8, <1>9, <1>10, <1>11 DEF FrameChain
<1> QED
  BY <1>12 DEF FramesOk, d

LEMMA FramesTrap ==
  ASSUME NEW c \in Seq(RseFrames), NEW ts \in Seq(RseTrapSet), NEW top \in Nat, FramesOk(c, ts, top), NEW t \in RseTrapSet,
         t.part.total = top, t.base \in Nat, t.base >= top
  PROVE  FramesOk(Append(c, Mark), Append(ts, t), t.base)
<1>1. PICK b, m : FrameChain(b, m, c, ts, top)
  BY DEF FramesOk
<1> DEFINE d == Append(c, Mark)
           e == Append(ts, t)
           a == [j \in 1 .. Len(d) + 1 |-> IF j = Len(d) + 1 THEN t.base ELSE b[j]]
           n == [k \in 1 .. Len(e) |-> IF k = Len(e) THEN Len(d) ELSE m[k]]
<1>2. /\ Len(d) = Len(c) + 1 /\ Len(c) \in Nat /\ d[Len(d)] = Mark /\ \A j \in 1 .. Len(c) : d[j] = c[j]
      /\ Mark.sof = -1
      /\ Len(e) = Len(ts) + 1 /\ Len(ts) \in Nat /\ e[Len(e)] = t /\ \A k \in 1 .. Len(ts) : e[k] = ts[k]
  BY DEF Mark, RseFrames
<1> HIDE DEF d, e
<1>3. b \in [1 .. Len(d) -> Nat] /\ b[Len(d)] = top /\ \A i, j \in 1 .. Len(d) : i <= j => b[i] <= b[j]
  BY <1>1, <1>2 DEF FrameChain
<1>4. a \in [1 .. Len(d) + 1 -> Nat] /\ a[Len(d) + 1] = t.base /\ \A j \in 1 .. Len(d) : a[j] = b[j]
  BY <1>2, <1>3
<1>5. m \in [1 .. Len(ts) -> 1 .. Len(c)] /\ \A k, l \in 1 .. Len(ts) : k < l => m[k] < m[l]
  BY <1>1 DEF FrameChain
<1>6. n \in [1 .. Len(e) -> 1 .. Len(d)] /\ n[Len(e)] = Len(d) /\ \A k \in 1 .. Len(ts) : n[k] = m[k]
  BY <1>2, <1>5
<1> HIDE DEF a, n
<1>7. \A j \in 1 .. Len(d) : b[j] <= top /\ b[j] \in Nat
  <2>1. Len(d) \in 1 .. Len(d)
    BY <1>2
  <2> QED
    BY <1>3, <2>1
<1>8. \A i, j \in 1 .. Len(d) + 1 : i <= j => a[i] <= a[j]
  <2> SUFFICES ASSUME NEW i \in 1 .. Len(d) + 1, NEW j \in 1 .. Len(d) + 1, i <= j PROVE a[i] <= a[j]
    OBVIOUS
  <2>1. CASE j = Len(d) + 1
    BY <1>2, <1>4, <1>7, <2>1
  <2>2. CASE j \in 1 .. Len(d)
    BY <1>2, <1>3, <1>4, <2>2
  <2> QED
    BY <1>2, <2>1, <2>2
<1>9. \A j \in 1 .. Len(d) : d[j].sof # -1 =>
        /\ d[j].sof \in Nat /\ d[j].sol <= d[j].sof /\ d[j].sor <= d[j].sof
        /\ a[j + 1] = a[j] + d[j].sol /\ a[j] + d[j].sof < RseDepth
  <2> SUFFICES ASSUME NEW j \in 1 .. Len(d), d[j].sof # -1
               PROVE  /\ d[j].sof \in Nat /\ d[j].sol <= d[j].sof /\ d[j].sor <= d[j].sof
                      /\ a[j + 1] = a[j] + d[j].sol /\ a[j] + d[j].sof < RseDepth
    OBVIOUS
  <2>1. j \in 1 .. Len(c)
    BY <1>2
  <2>2. d[j] = c[j] /\ a[j] = b[j] /\ a[j + 1] = b[j + 1]
    BY <1>2, <1>4, <2>1
  <2> QED
    BY <1>1, <2>1, <2>2 DEF FrameChain
<1>10. \A k, l \in 1 .. Len(e) : k < l => n[k] < n[l]
  <2> SUFFICES ASSUME NEW k \in 1 .. Len(e), NEW l \in 1 .. Len(e), k < l PROVE n[k] < n[l]
    OBVIOUS
  <2>1. k \in 1 .. Len(ts) /\ n[k] = m[k] /\ m[k] \in 1 .. Len(c)
    <3>1. k \in 1 .. Len(ts)
      BY <1>2
    <3> QED
      BY <1>5, <1>6, <3>1
  <2>2. CASE l = Len(e)
    BY <1>2, <1>6, <2>1, <2>2
  <2>3. CASE l \in 1 .. Len(ts)
    BY <1>5, <1>6, <2>1, <2>3
  <2> QED
    BY <1>2, <2>2, <2>3
<1>11. \A j \in 1 .. Len(d) : d[j].sof = -1 => \E k \in 1 .. Len(e) : n[k] = j
  <2> SUFFICES ASSUME NEW j \in 1 .. Len(d), d[j].sof = -1 PROVE \E k \in 1 .. Len(e) : n[k] = j
    OBVIOUS
  <2>1. CASE j = Len(d)
    BY <1>2, <1>6, <2>1
  <2>2. CASE j \in 1 .. Len(c)
    <3>1. PICK k \in 1 .. Len(ts) : m[k] = j
      BY <1>1, <1>2, <2>2 DEF FrameChain
    <3> QED
      BY <1>2, <1>6, <3>1
  <2> QED
    BY <1>2, <2>1, <2>2
<1>12. \A k \in 1 .. Len(e) : d[n[k]].sof = -1 /\ a[n[k]] = e[k].part.total /\ a[n[k] + 1] = e[k].base
  <2> SUFFICES ASSUME NEW k \in 1 .. Len(e)
               PROVE  d[n[k]].sof = -1 /\ a[n[k]] = e[k].part.total /\ a[n[k] + 1] = e[k].base
    OBVIOUS
  <2>1. CASE k = Len(e)
    BY <1>2, <1>3, <1>4, <1>6, <2>1
  <2>2. CASE k \in 1 .. Len(ts)
    <3>0. n[k] = m[k] /\ m[k] \in 1 .. Len(c) /\ e[k] = ts[k]
      BY <1>2, <1>5, <1>6, <2>2
    <3>1. m[k] \in 1 .. Len(d) /\ m[k] + 1 \in 1 .. Len(d)
      BY <1>2, <3>0
    <3>2. c[m[k]].sof = -1 /\ b[m[k]] = ts[k].part.total /\ b[m[k] + 1] = ts[k].base
      BY <1>1, <2>2 DEF FrameChain
    <3>3. d[m[k]] = c[m[k]] /\ a[m[k]] = b[m[k]] /\ a[m[k] + 1] = b[m[k] + 1]
      BY <1>2, <1>4, <3>0, <3>1
    <3> QED
      BY <3>0, <3>2, <3>3
  <2> QED
    BY <1>2, <2>1, <2>2
<1>13. FrameChain(a, n, d, e, t.base)
  BY <1>4, <1>6, <1>8, <1>9, <1>10, <1>11, <1>12 DEF FrameChain
<1> QED
  BY <1>13 DEF FramesOk, d, e

\* Frame k of calls returns, with all that it called.
LEMMA FramesCut ==
  ASSUME NEW c \in Seq(RseFrames), NEW ts, Len(ts) \in Nat, NEW top, NEW b, NEW m, FrameChain(b, m, c, ts, top),
         NEW k \in 1 .. Len(c), \A j \in k .. Len(c) : c[j].sof # -1
  PROVE  FramesOk(SubSeq(c, 1, k - 1), ts, b[k])
<1> DEFINE d == SubSeq(c, 1, k - 1)
           a == [j \in 1 .. Len(d) + 1 |-> b[j]]
<1>1. Len(c) \in Nat /\ k \in Nat /\ k - 1 \in 0 .. Len(c)
  OBVIOUS
<1>2. Len(d) = k - 1 /\ \A j \in 1 .. k - 1 : d[j] = c[j]
  <2>1. 1 \in 1 .. Len(c) + 1 /\ k - 1 \in 0 .. Len(c)
    BY <1>1
  <2> QED
    BY <1>1, <2>1
<1> HIDE DEF d
<1>3. b \in [1 .. Len(c) + 1 -> Nat] /\ \A i, j \in 1 .. Len(c) + 1 : i <= j => b[i] <= b[j]
  BY DEF FrameChain
<1>4. a \in [1 .. Len(d) + 1 -> Nat] /\ \A j \in 1 .. k : a[j] = b[j]
  BY <1>1, <1>2, <1>3
<1>5. Len(d) + 1 = k
  BY <1>1, <1>2
<1> HIDE DEF a
<1>6. \A i, j \in 1 .. Len(d) + 1 : i <= j => a[i] <= a[j]
  BY <1>1, <1>3, <1>4, <1>5
<1>7. \A j \in 1 .. Len(d) : d[j].sof # -1 =>
        /\ d[j].sof \in Nat /\ d[j].sol <= d[j].sof /\ d[j].sor <= d[j].sof
        /\ a[j + 1] = a[j] + d[j].sol /\ a[j] + d[j].sof < RseDepth
  <2> SUFFICES ASSUME NEW j \in 1 .. Len(d), d[j].sof # -1
               PROVE  /\ d[j].sof \in Nat /\ d[j].sol <= d[j].sof /\ d[j].sor <= d[j].sof
                      /\ a[j + 1] = a[j] + d[j].sol /\ a[j] + d[j].sof < RseDepth
    OBVIOUS
  <2>1. j \in 1 .. Len(c) /\ j \in 1 .. k /\ j + 1 \in 1 .. k /\ j \in 1 .. k - 1
    BY <1>1, <1>2
  <2>2. d[j] = c[j] /\ a[j] = b[j] /\ a[j + 1] = b[j + 1]
    BY <1>2, <1>4, <2>1
  <2> QED
    BY <2>1, <2>2 DEF FrameChain
<1>8. \A l \in 1 .. Len(ts) : m[l] \in 1 .. k - 1
  <2> SUFFICES ASSUME NEW l \in 1 .. Len(ts) PROVE m[l] \in 1 .. k - 1
    OBVIOUS
  <2>1. m[l] \in 1 .. Len(c) /\ c[m[l]].sof = -1
    BY DEF FrameChain
  <2>2. m[l] \notin k .. Len(c)
    BY <2>1
  <2> QED
    BY <1>1, <2>1, <2>2
<1>9. m \in [1 .. Len(ts) -> 1 .. Len(d)]
  <2>1. m \in [1 .. Len(ts) -> 1 .. Len(c)]
    BY DEF FrameChain
  <2> QED
    BY <1>2, <1>8, <2>1
<1>10. \A l \in 1 .. Len(ts) : d[m[l]].sof = -1 /\ a[m[l]] = ts[l].part.total /\ a[m[l] + 1] = ts[l].base
  <2> SUFFICES ASSUME NEW l \in 1 .. Len(ts)
               PROVE  d[m[l]].sof = -1 /\ a[m[l]] = ts[l].part.total /\ a[m[l] + 1] = ts[l].base
    OBVIOUS
  <2>1. c[m[l]].sof = -1 /\ b[m[l]] = ts[l].part.total /\ b[m[l] + 1] = ts[l].base
    BY DEF FrameChain
  <2>2. m[l] \in 1 .. k - 1 /\ m[l] \in 1 .. k /\ m[l] + 1 \in 1 .. k
    BY <1>1, <1>8
  <2> QED
    BY <1>2, <1>4, <2>1, <2>2
<1>11. \A j \in 1 .. Len(d) : d[j].sof = -1 => \E l \in 1 .. Len(ts) : m[l] = j
  <2> SUFFICES ASSUME NEW j \in 1 .. Len(d), d[j].sof = -1 PROVE \E l \in 1 .. Len(ts) : m[l] = j
    OBVIOUS
  <2>1. j \in 1 .. Len(c) /\ c[j].sof = -1
    BY <1>1, <1>2
  <2> QED
    BY <2>1 DEF FrameChain
<1>12. \A i, j \in 1 .. Len(ts) : i < j => m[i] < m[j]
  BY DEF FrameChain
<1>13. a[Len(d) + 1] = b[k]
  BY <1>1, <1>4, <1>5
<1>14. FrameChain(a, m, d, ts, b[k])
  BY <1>4, <1>6, <1>7, <1>9, <1>10, <1>11, <1>12, <1>13 DEF FrameChain
<1> QED
  BY <1>14 DEF FramesOk, d

LEMMA FrontIs ==
  ASSUME NEW S, NEW q \in Seq(S), q # <<>>
  PROVE  /\ SubSeq(q, 1, Len(q) - 1) \in Seq(S) /\ Len(SubSeq(q, 1, Len(q) - 1)) = Len(q) - 1 /\ Len(q) > 0
         /\ Len(q) \in Nat /\ \A j \in 1 .. Len(q) - 1 : SubSeq(q, 1, Len(q) - 1)[j] = q[j]
<1>1. Len(q) \in Nat /\ Len(q) > 0
  OBVIOUS
<1>2. Len(q) - 1 \in 0 .. Len(q) /\ 1 \in 1 .. Len(q) + 1
  BY <1>1
<1>3. Len(SubSeq(q, 1, Len(q) - 1)) = Len(q) - 1
  BY <1>1, <1>2
<1>4. \A j \in 1 .. Len(q) - 1 : SubSeq(q, 1, Len(q) - 1)[j] = q[j]
  BY <1>1, <1>2
<1>5. SubSeq(q, 1, Len(q) - 1) \in Seq(S)
  BY <1>1, <1>2, SubSeqProperties
<1> QED
  BY <1>1, <1>3, <1>4, <1>5

\* The last interruption returns.
LEMMA FramesPop ==
  ASSUME NEW c \in Seq(RseFrames), NEW ts \in Seq(RseTrapSet), NEW top, FramesOk(c, ts, top), ts # <<>>,
         c[Len(c)].sof = -1, Len(c) > 0
  PROVE  /\ ts[Len(ts)].base = top
         /\ FramesOk(SubSeq(c, 1, Len(c) - 1), SubSeq(ts, 1, Len(ts) - 1), ts[Len(ts)].part.total)
<1>1. PICK b, m : FrameChain(b, m, c, ts, top)
  BY DEF FramesOk
<1> DEFINE d == SubSeq(c, 1, Len(c) - 1)
           e == SubSeq(ts, 1, Len(ts) - 1)
           a == [j \in 1 .. Len(d) + 1 |-> b[j]]
           n == [j \in 1 .. Len(e) |-> m[j]]
           lc == Len(c)
           lt == Len(ts)
<1>2. lc \in Nat /\ lt \in Nat /\ lc > 0 /\ lt > 0 /\ Len(c) = lc /\ Len(ts) = lt
  OBVIOUS
<1>3. Len(d) = lc - 1 /\ (\A j \in 1 .. lc - 1 : d[j] = c[j]) /\ Len(e) = lt - 1 /\ \A j \in 1 .. lt - 1 : e[j] = ts[j]
  <2>1. c # <<>>
    OBVIOUS
  <2> QED
    BY <2>1, FrontIs, Zenon
<1> HIDE DEF d, e, lc, lt
<1>4. /\ m \in [1 .. lt -> 1 .. lc] /\ \A k, l \in 1 .. lt : k < l => m[k] < m[l]
      /\ b \in [1 .. lc + 1 -> Nat] /\ b[lc + 1] = top
      /\ \A i, j \in 1 .. lc + 1 : i <= j => b[i] <= b[j]
  BY <1>1, <1>2 DEF FrameChain
<1>5. m[lt] = lc
  <2>1. lc \in 1 .. lc /\ lt \in 1 .. lt /\ c[lc].sof = -1
    BY <1>2
  <2>2. PICK k \in 1 .. lt : m[k] = lc
    BY <1>1, <1>2, <2>1 DEF FrameChain
  <2>3. CASE k < lt
    <3>1. m[k] < m[lt] /\ m[lt] \in 1 .. lc
      BY <1>4, <2>1, <2>3
    <3> QED
      BY <2>2, <3>1, <1>2
  <2> QED
    BY <1>2, <2>2, <2>3
<1>6. b[lc] = ts[lt].part.total /\ ts[lt].base = top
  <2>1. lt \in 1 .. lt
    BY <1>2
  <2> QED
    BY <1>1, <1>2, <1>4, <1>5, <2>1 DEF FrameChain
<1>7. a \in [1 .. Len(d) + 1 -> Nat] /\ \A j \in 1 .. lc : a[j] = b[j]
  BY <1>2, <1>3, <1>4
<1>8. Len(d) + 1 = lc
  BY <1>2, <1>3
<1> HIDE DEF a
<1>9. \A i, j \in 1 .. Len(d) + 1 : i <= j => a[i] <= a[j]
  <2> SUFFICES ASSUME NEW i \in 1 .. lc, NEW j \in 1 .. lc, i <= j PROVE a[i] <= a[j]
    BY <1>8
  <2>1. i \in 1 .. lc + 1 /\ j \in 1 .. lc + 1
    BY <1>2
  <2> QED
    BY <1>4, <1>7, <2>1
<1>10. \A j \in 1 .. Len(d) : d[j].sof # -1 =>
        /\ d[j].sof \in Nat /\ d[j].sol <= d[j].sof /\ d[j].sor <= d[j].sof
        /\ a[j + 1] = a[j] + d[j].sol /\ a[j] + d[j].sof < RseDepth
  <2> SUFFICES ASSUME NEW j \in 1 .. Len(d), d[j].sof # -1
               PROVE  /\ d[j].sof \in Nat /\ d[j].sol <= d[j].sof /\ d[j].sor <= d[j].sof
                      /\ a[j + 1] = a[j] + d[j].sol /\ a[j] + d[j].sof < RseDepth
    OBVIOUS
  <2>1. j \in 1 .. Len(c) /\ j \in 1 .. lc /\ j + 1 \in 1 .. lc /\ j \in 1 .. lc - 1
    BY <1>2, <1>3
  <2>2. d[j] = c[j] /\ a[j] = b[j] /\ a[j + 1] = b[j + 1]
    BY <1>3, <1>7, <2>1
  <2> QED
    BY <1>1, <2>1, <2>2 DEF FrameChain
<1>11. \A l \in 1 .. lt - 1 : n[l] = m[l] /\ m[l] \in 1 .. lc - 1 /\ l \in 1 .. lt
  <2> SUFFICES ASSUME NEW l \in 1 .. lt - 1 PROVE n[l] = m[l] /\ m[l] \in 1 .. lc - 1 /\ l \in 1 .. lt
    OBVIOUS
  <2>1. l \in 1 .. lt /\ lt \in 1 .. lt /\ l < lt /\ n[l] = m[l]
    BY <1>2, <1>3
  <2>2. m[l] < m[lt] /\ m[l] \in 1 .. lc
    BY <1>4, <2>1
  <2> QED
    BY <1>2, <1>5, <2>1, <2>2
<1>12. n \in [1 .. Len(e) -> 1 .. Len(d)]
  BY <1>3, <1>11
<1> HIDE DEF n
<1>13. \A l \in 1 .. Len(e) : d[n[l]].sof = -1 /\ a[n[l]] = e[l].part.total /\ a[n[l] + 1] = e[l].base
  <2> SUFFICES ASSUME NEW l \in 1 .. Len(e)
               PROVE  d[n[l]].sof = -1 /\ a[n[l]] = e[l].part.total /\ a[n[l] + 1] = e[l].base
    OBVIOUS
  <2>1. l \in 1 .. lt - 1 /\ n[l] = m[l] /\ m[l] \in 1 .. lc - 1 /\ l \in 1 .. lt
    BY <1>3, <1>11
  <2>2. c[m[l]].sof = -1 /\ b[m[l]] = ts[l].part.total /\ b[m[l] + 1] = ts[l].base
    BY <1>1, <1>2, <2>1 DEF FrameChain
  <2>3. m[l] \in 1 .. lc /\ m[l] + 1 \in 1 .. lc
    BY <1>2, <2>1
  <2> QED
    BY <1>3, <1>7, <2>1, <2>2, <2>3
<1>14. \A j \in 1 .. Len(d) : d[j].sof = -1 => \E l \in 1 .. Len(e) : n[l] = j
  <2> SUFFICES ASSUME NEW j \in 1 .. Len(d), d[j].sof = -1 PROVE \E l \in 1 .. Len(e) : n[l] = j
    OBVIOUS
  <2>1. j \in 1 .. Len(c) /\ c[j].sof = -1 /\ j # lc
    BY <1>2, <1>3
  <2>2. PICK l \in 1 .. lt : m[l] = j
    BY <1>1, <1>2, <2>1 DEF FrameChain
  <2>3. l \in 1 .. lt - 1
    BY <1>2, <1>5, <2>1, <2>2
  <2> QED
    BY <1>3, <1>11, <2>2, <2>3
<1>15. \A i, j \in 1 .. Len(e) : i < j => n[i] < n[j]
  BY <1>3, <1>4, <1>11
<1>16. a[Len(d) + 1] = ts[lt].part.total
  BY <1>2, <1>6, <1>7, <1>8
<1>17. FrameChain(a, n, d, e, ts[lt].part.total)
  BY <1>7, <1>9, <1>10, <1>12, <1>13, <1>14, <1>15, <1>16 DEF FrameChain
<1> QED
  BY <1>6, <1>17 DEF FramesOk, d, e, lt, lc

\* How far longjmp goes down is the sum of what the frames between kept.
LEMMA UnwoundIs ==
  ASSUME NEW b, NEW m, NEW ts, NEW top \in Nat, FrameChain(b, m, calls, ts, top), calls \in Seq(RseFrames),
         NEW k \in 1 .. Len(calls), \A j \in k .. Len(calls) : calls[j].sof # -1
  PROVE  Unwound(k) = top - b[k + 1]
<1> DEFINE N == k .. Len(calls)
           E(f) == f = [j \in N |-> IF j = k THEN 0 ELSE f[j - 1] + calls[j].sol]
           g == [j \in N |-> b[j + 1] - b[k + 1]]
           u == CHOOSE f : E(f)
<1>0. Len(calls) \in Nat /\ k \in Nat /\ k <= Len(calls)
  OBVIOUS
<1>1. \A j \in N : j \in 1 .. Len(calls) /\ b[j + 1] = b[j] + calls[j].sol /\ b[j] \in Nat /\ b[j + 1] \in Nat
                   /\ calls[j].sol \in Nat
  <2> SUFFICES ASSUME NEW j \in N
               PROVE j \in 1 .. Len(calls) /\ b[j + 1] = b[j] + calls[j].sol /\ b[j] \in Nat /\ b[j + 1] \in Nat
                     /\ calls[j].sol \in Nat
    OBVIOUS
  <2>1. j \in 1 .. Len(calls) /\ j \in 1 .. Len(calls) + 1 /\ j + 1 \in 1 .. Len(calls) + 1 /\ calls[j].sof # -1
    BY <1>0
  <2>2. calls[j] \in RseFrames
    BY <2>1
  <2> QED
    BY <2>1, <2>2 DEF FrameChain, RseFrames
<1>2. E(g)
  <2>1. \A j \in N : g[j] = IF j = k THEN 0 ELSE g[j - 1] + calls[j].sol
    <3> SUFFICES ASSUME NEW j \in N PROVE g[j] = IF j = k THEN 0 ELSE g[j - 1] + calls[j].sol
      OBVIOUS
    <3>1. CASE j = k
      BY <1>1, <3>1
    <3>2. CASE j # k
      <4>1. j - 1 \in N /\ j - 1 + 1 = j /\ k \in N
        BY <1>0, <3>2
      <4>2. g[j - 1] = b[j] - b[k + 1] /\ g[j] = b[j + 1] - b[k + 1]
        BY <4>1
      <4> QED
        BY <1>1, <3>2, <4>1, <4>2
    <3> QED
      BY <3>1, <3>2
  <2> QED
    BY <2>1
<1>3. E(u)
  <2> HIDE DEF E
  <2> QED
    BY <1>2
<1>4. Unwound(k) = u[Len(calls)]
  BY DEF Unwound
<1>5. \A j \in N : u[j] = IF j = k THEN 0 ELSE u[j - 1] + calls[j].sol
  BY <1>3
<1> HIDE DEF u, E
<1> DEFINE Bad == {j \in N : u[j] # b[j + 1] - b[k + 1]}
<1>6. Bad = {}
  <2> SUFFICES ASSUME Bad # {} PROVE FALSE
    OBVIOUS
  <2>1. PICK j \in Bad : \A i \in Bad : j <= i
    <3>1. Bad \in SUBSET Nat
      BY <1>0
    <3> QED
      BY <3>1, LeastNatural
  <2>2. k \in N /\ b[k + 1] - b[k + 1] = 0
    BY <1>0, <1>1
  <2>3. j # k
    BY <1>5, <2>1, <2>2
  <2>4. j - 1 \in N /\ j - 1 \notin Bad /\ j - 1 + 1 = j
    BY <1>0, <2>1, <2>3
  <2>5. u[j - 1] = b[j] - b[k + 1]
    BY <2>4
  <2>6. u[j] = b[j] - b[k + 1] + calls[j].sol /\ j \in N
    BY <1>5, <2>1, <2>3, <2>5
  <2>7. b[j + 1] = b[j] + calls[j].sol /\ b[j] \in Nat /\ calls[j].sol \in Nat /\ b[k + 1] \in Nat
    BY <1>1, <2>1, <2>2
  <2>8. u[j] = b[j + 1] - b[k + 1]
    BY <2>6, <2>7
  <2> QED
    BY <2>1, <2>8
<1>7. Len(calls) \in N
  BY <1>0
<1>8. b[Len(calls) + 1] = top
  BY DEF FrameChain
<1> QED
  BY <1>4, <1>6, <1>7, <1>8

----------------------------------------------------------------------------
\* The records that deliver_fault kept are of open interruptions, oldest first.
RseRecordSet == [id : Nat, part : RseStates]

RecordsOk(rc, ts) ==
  /\ rc \in Seq(RseRecordSet)
  /\ \A i \in 1 .. Len(rc) : rc[i].id \in 1 .. Len(ts) /\ rc[i].part = ts[rc[i].id].part
  /\ \A i, j \in 1 .. Len(rc) : i < j => rc[i].id < rc[j].id

RseInvOf(s, w, L, c, ts, rc, n) ==
  /\ RseStateOk(s) /\ w \in [RseAddrs -> Nat] /\ L \subseteq 0 .. s.total + s.sof - 1
  /\ c \in Seq(RseFrames) /\ ts \in Seq(RseTrapSet) /\ n \in 0 .. RseSteps
  /\ Homed(s, L, w) /\ TrapsOk(ts, w) /\ Around(s, L, ts, Len(ts))
  /\ RseModes(s, ts, n) /\ FramesOk(c, ts, s.total) /\ RecordsOk(rc, ts)

\* What all steps keep: the words of every context are where its addresses say,
\* and no context stores where another has its words.
RseInv == RseInvOf(rse, backing, live, calls, traps, records, steps)

LEMMA RseInvIs ==
  ASSUME RseInv
  PROVE  /\ RseStateOk(rse) /\ backing \in [RseAddrs -> Nat] /\ live \subseteq 0 .. rse.total + rse.sof - 1
         /\ live \subseteq 0 .. RseDepth - 1
         /\ calls \in Seq(RseFrames) /\ traps \in Seq(RseTrapSet) /\ steps \in Nat /\ steps <= RseSteps
         /\ Len(traps) \in Nat /\ Len(calls) \in Nat
         /\ Homed(rse, live, backing) /\ RseModes(rse, traps, steps) /\ FramesOk(calls, traps, rse.total)
         /\ RecordsOk(records, traps)
         /\ \A k \in 1 .. Len(traps) :
              /\ RseTrapOk(traps[k]) /\ Homed(traps[k].part, traps[k].live, backing)
              /\ Around(traps[k].part, traps[k].live, traps, k - 1)
              /\ Link(rse, traps[k]) /\ Carries(rse, live, traps[k])
              /\ traps[k].base <= rse.total
<1>1. /\ RseStateOk(rse) /\ backing \in [RseAddrs -> Nat] /\ live \subseteq 0 .. rse.total + rse.sof - 1
      /\ calls \in Seq(RseFrames) /\ traps \in Seq(RseTrapSet) /\ steps \in 0 .. RseSteps
      /\ Homed(rse, live, backing) /\ TrapsOk(traps, backing) /\ Around(rse, live, traps, Len(traps))
      /\ RseModes(rse, traps, steps) /\ FramesOk(calls, traps, rse.total) /\ RecordsOk(records, traps)
  BY DEF RseInv, RseInvOf
<1>2. Len(traps) \in Nat /\ Len(calls) \in Nat /\ steps \in Nat /\ steps <= RseSteps
  BY <1>1, ConstantsAre
<1>3. \A k \in 1 .. Len(traps) : traps[k].base <= rse.total
  BY <1>1, <1>2, BasesBelow
<1>4. live \subseteq 0 .. RseDepth - 1
  BY <1>1, RseFields, ConstantsAre
<1>5. \A k \in 1 .. Len(traps) :
              /\ RseTrapOk(traps[k]) /\ Homed(traps[k].part, traps[k].live, backing)
              /\ Around(traps[k].part, traps[k].live, traps, k - 1)
              /\ Link(rse, traps[k]) /\ Carries(rse, live, traps[k])
  <2> SUFFICES ASSUME NEW k \in 1 .. Len(traps)
               PROVE  /\ RseTrapOk(traps[k]) /\ Homed(traps[k].part, traps[k].live, backing)
                      /\ Around(traps[k].part, traps[k].live, traps, k - 1)
                      /\ Link(rse, traps[k]) /\ Carries(rse, live, traps[k])
    OBVIOUS
  <2>1. RseTrapOk(traps[k]) /\ Homed(traps[k].part, traps[k].live, backing)
        /\ Around(traps[k].part, traps[k].live, traps, k - 1)
    BY <1>1, Zenon DEF TrapsOk
  <2>2. Link(rse, traps[k]) /\ Carries(rse, live, traps[k])
    BY <1>1, Zenon DEF Around
  <2> QED
    BY <2>1, <2>2
<1> QED
  BY <1>1, <1>2, <1>3, <1>4, <1>5, Zenon

\* A store of registers of rse leaves the interrupted contexts' words alone.
LEMMA TrapsOn ==
  ASSUME RseInv, NEW n \in Nat, NEW w, Stores(rse, n, w)
  PROVE  TrapsOk(traps, w)
<1> SUFFICES ASSUME NEW k \in 1 .. Len(traps)
             PROVE  /\ RseTrapOk(traps[k]) /\ Homed(traps[k].part, traps[k].live, w)
                    /\ Around(traps[k].part, traps[k].live, traps, k - 1)
  BY DEF TrapsOk
<1>1. /\ RseTrapOk(traps[k]) /\ Homed(traps[k].part, traps[k].live, backing) /\ RseStateOk(rse)
      /\ Around(traps[k].part, traps[k].live, traps, k - 1)
      /\ Link(rse, traps[k]) /\ Carries(rse, live, traps[k])
  BY RseInvIs, Zenon
<1>2. \A p \in traps[k].live : rse.gr[p] = traps[k].part.gr[p]
  BY <1>1 DEF Carries
<1>3. Homed(traps[k].part, traps[k].live, w)
  BY <1>1, <1>2, HomedThrough
<1> QED
  BY <1>1, <1>3

\* A step of the running context that neither opens an interruption nor ends one
\* nor moves to another backing store.
LEMMA OrdinaryStep ==
  ASSUME RseInv, steps < RseSteps, NEW r, RseStateOk(r), r.anchorAddr = rse.anchorAddr, r.anchorRegs = rse.anchorRegs,
         NEW n \in Nat, NEW w, Stores(rse, n, w),
         NEW L, L \subseteq 0 .. r.total + r.sof - 1, Homed(r, L, w),
         \A k \in 1 .. Len(traps) : /\ r.flushed >= rse.flushed \/ r.flushed >= traps[k].base
                                    /\ \A p \in traps[k].live : p \in L /\ r.gr[p] = rse.gr[p],
         NEW c \in Seq(RseFrames), FramesOk(c, traps, r.total)
  PROVE  RseInvOf(r, w, L, c, traps, records, steps + 1)
<1>1. /\ RseStateOk(rse) /\ traps \in Seq(RseTrapSet) /\ steps \in Nat /\ Len(traps) \in Nat
      /\ RseModes(rse, traps, steps) /\ RecordsOk(records, traps)
  BY RseInvIs, Zenon
<1>2. \A k \in 1 .. Len(traps) : RseTrapOk(traps[k]) /\ Link(rse, traps[k]) /\ Carries(rse, live, traps[k])
  BY RseInvIs, Zenon
<1>3. Shift(r) = Shift(rse)
  BY DEF Shift
<1>4. Around(r, L, traps, Len(traps))
  <2> SUFFICES ASSUME NEW k \in 1 .. Len(traps) PROVE Link(r, traps[k]) /\ Carries(r, L, traps[k])
    BY DEF Around
  <2>1. Link(r, traps[k])
    BY <1>1, <1>2, <1>3, LinkOn
  <2>2. \A p \in traps[k].live : p \in L /\ r.gr[p] = traps[k].part.gr[p]
    BY <1>2 DEF Carries
  <2> QED
    BY <2>1, <2>2 DEF Carries
<1>5. TrapsOk(traps, w)
  BY TrapsOn
<1>6. RseModes(r, traps, steps + 1)
  BY <1>1, <1>2, ModesOn
<1>7. w \in [RseAddrs -> Nat]
  BY DEF Stores
<1>8. steps + 1 \in 0 .. RseSteps
  BY <1>1, ConstantsAre
<1> QED
  BY <1>1, <1>4, <1>5, <1>6, <1>7, <1>8 DEF RseInvOf

LEMMA NoStore ==
  ASSUME NEW s, RseStateOk(s), backing \in [RseAddrs -> Nat]
  PROVE  Spilled(s, <<s, backing>>)
<1> DEFINE out == <<s, backing>>
<1>1. s.flushed \in Nat /\ s.total \in Nat /\ s.sof \in Nat /\ s \in RseStates
  BY RseFields
<1>2. Boundary(s, 0, s.flushed)
  BY <1>1 DEF Boundary
<1>3. s.flushed .. 0 - 1 = {}
  BY <1>1
<1>4. Stores(s, 0, backing)
  BY <1>3 DEF Stores
<1>5. [s EXCEPT !.flushed = s.flushed] = s
  BY <1>1 DEF RseStates
<1>6. out[1] = s /\ out[2] = backing
  OBVIOUS
<1> HIDE DEF out
<1>7. Spilled(s, out)
  BY <1>2, <1>4, <1>5, <1>6 DEF Spilled
<1> QED
  BY <1>7 DEF out

LEMMA FlushedTo ==
  ASSUME NEW s, RseStateOk(s), NEW f \in 0 .. RseDepth - 1
  PROVE  LET r == [s EXCEPT !.flushed = f]
         IN  /\ RseStateOk(r) /\ r.flushed = f /\ r.total = s.total /\ r.sof = s.sof /\ r.gr = s.gr
             /\ r.anchorAddr = s.anchorAddr /\ r.anchorRegs = s.anchorRegs
             /\ r.sol = s.sol /\ r.sor = s.sor /\ r.rrb = s.rrb
<1> DEFINE r == [s EXCEPT !.flushed = f]
<1>1. s \in RseStates /\ f \in Nat /\ f < RseDepth
  BY RseFields, ConstantsAre
<1>2. /\ r \in RseStates /\ r.flushed = f /\ r.total = s.total /\ r.sof = s.sof /\ r.gr = s.gr /\ r.bof = s.bof
      /\ r.anchorAddr = s.anchorAddr /\ r.anchorRegs = s.anchorRegs /\ r.sol = s.sol /\ r.sor = s.sor /\ r.rrb = s.rrb
  BY <1>1 DEF RseStates
<1> HIDE DEF r
<1>3. RseStateOk(r)
  BY <1>1, <1>2 DEF RseStateOk, Shift
<1> QED
  BY <1>2, <1>3 DEF r

\* The step's last act is a spill, of as many registers as it likes.
LEMMA SpillingStep ==
  ASSUME RseInv, steps < RseSteps, NEW s, RseStateOk(s), s.anchorAddr = rse.anchorAddr, s.anchorRegs = rse.anchorRegs,
         s.flushed = rse.flushed, s.gr = rse.gr, NEW out, Spilled(s, out),
         NEW L, L \subseteq live, L \subseteq 0 .. s.total + s.sof - 1,
         \A k \in 1 .. Len(traps) : traps[k].live \subseteq L,
         NEW c \in Seq(RseFrames), FramesOk(c, traps, s.total)
  PROVE  RseInvOf(out[1], out[2], L, c, traps, records, steps + 1)
<1>1. PICK n, f : Boundary(s, n, f) /\ out[1] = [s EXCEPT !.flushed = f] /\ Stores(s, n, out[2])
  BY DEF Spilled
<1> DEFINE r == [s EXCEPT !.flushed = f]
           w == out[2]
<1>2. n \in 0 .. RseDepth - 1 /\ f \in 0 .. RseDepth - 1 /\ n \in Nat /\ f \in Nat
  BY <1>1, BoundaryIs, ConstantsAre
<1>3. /\ RseStateOk(r) /\ r.flushed = f /\ r.total = s.total /\ r.sof = s.sof /\ r.gr = s.gr
      /\ r.anchorAddr = s.anchorAddr /\ r.anchorRegs = s.anchorRegs
  BY <1>2, FlushedTo
<1> HIDE DEF r
<1>4. Shift(s) = Shift(rse) /\ Shift(r) = Shift(s)
  BY <1>3 DEF Shift
<1>5. Stores(rse, n, w)
  BY <1>1, <1>4 DEF Stores
<1>6. /\ Homed(rse, live, backing) /\ live \subseteq 0 .. RseDepth - 1 /\ Len(calls) \in Nat /\ Len(traps) \in Nat
      /\ RseStateOk(rse)
  BY RseInvIs, Zenon
<1>7. Homed(s, live, backing)
  BY <1>4, <1>6 DEF Homed
<1>8. L \subseteq 0 .. RseDepth - 1
  BY <1>6
<1>9. \A p \in L : s.anchorRegs <= p /\ p < f => w[RegHome(p + Shift(s))] = s.gr[p]
  BY <1>1, <1>7, <1>8, HomedAfter
<1>10. Homed(r, L, w)
  BY <1>3, <1>4, <1>9 DEF Homed
<1>11. \A k \in 1 .. Len(traps) : traps[k].base <= s.total
  <2>1. Len(c) \in Nat
    OBVIOUS
  <2> QED
    BY <2>1, BasesBelow
<1>12. \A k \in 1 .. Len(traps) : /\ r.flushed >= rse.flushed \/ r.flushed >= traps[k].base
                                  /\ \A p \in traps[k].live : p \in L /\ r.gr[p] = rse.gr[p]
  <2> SUFFICES ASSUME NEW k \in 1 .. Len(traps)
               PROVE /\ f >= rse.flushed \/ f >= traps[k].base
                     /\ \A p \in traps[k].live : p \in L /\ r.gr[p] = rse.gr[p]
    BY <1>3
  <2>1. RseTrapOk(traps[k]) /\ traps[k].base <= s.total
    BY <1>11, RseInvIs, Zenon
  <2>2. traps[k].base \in Nat /\ s.total \in Nat /\ s.sof \in Nat /\ rse.flushed \in Nat
    BY <1>6, <2>1, TrapFields, RseFields
  <2>3. f >= rse.flushed \/ f >= traps[k].base
    BY <1>1, <1>2, <2>1, <2>2 DEF Boundary
  <2>4. \A p \in traps[k].live : p \in L /\ r.gr[p] = rse.gr[p]
    BY <1>3
  <2> QED
    BY <2>3, <2>4
<1>13. L \subseteq 0 .. r.total + r.sof - 1 /\ FramesOk(c, traps, r.total)
  BY <1>3
<1>14. r.anchorAddr = rse.anchorAddr /\ r.anchorRegs = rse.anchorRegs
  BY <1>3
<1> HIDE DEF w
<1>15. RseInvOf(r, w, L, c, traps, records, steps + 1)
  BY <1>2, <1>3, <1>5, <1>10, <1>12, <1>13, <1>14, OrdinaryStep
<1> QED
  BY <1>1, <1>15 DEF r, w

LEMMA InvOn ==
  ASSUME RseInvOf(rse', backing', live', calls', traps', records', steps')
  PROVE  RseInv'
BY DEF RseInv

\* Another frame over the same registers.
LEMMA Reframed ==
  ASSUME NEW s, RseStateOk(s), NEW r \in RseStates, r.sol <= r.sof, r.sor <= r.sof, r.bof = r.total,
         r.total + r.sof < RseDepth, r.flushed = s.flushed, r.anchorRegs = s.anchorRegs, r.anchorAddr = s.anchorAddr
  PROVE  RseStateOk(r)
BY RseFields DEF RseStateOk, Shift

LEMMA BaseIs ==
  ASSUME NEW s, RseStateOk(s), NEW n \in Int, s.total + n \in 0 .. RseDepth - 1
  PROVE  LET r == Base(s, n)
         IN  /\ r \in RseStates /\ r.bof = r.total /\ r.total = s.total + n /\ r.sof = s.sof /\ r.sol = s.sol
             /\ r.sor = s.sor /\ r.rrb = s.rrb /\ r.flushed = s.flushed /\ r.gr = s.gr
             /\ r.anchorAddr = s.anchorAddr /\ r.anchorRegs = s.anchorRegs
<1> DEFINE r == Base(s, n)
<1>1. s \in RseStates /\ s.bof = s.total /\ s.total \in Nat
  BY RseFields
<1>2. RseCapacity \in Nat /\ RseDepth <= RseCapacity /\ RseDepth \in Nat /\ RseDepth > 0
  BY ConstantsAre
<1>3. (s.bof + n) % RseCapacity = s.total + n
  <2> DEFINE x == s.total + n
  <2>1. x \in 0 .. RseCapacity - 1 /\ s.bof + n = x
    BY <1>1, <1>2
  <2> HIDE DEF x
  <2>2. x % RseCapacity = x
    BY <1>2, <2>1
  <2> QED
    BY <2>1, <2>2 DEF x
<1>4. s.total + n \in Nat
  BY <1>2
<1>5. r = [s EXCEPT !.bof = s.total + n, !.total = s.total + n]
  BY <1>3 DEF Base
<1> HIDE DEF r
<1> QED
  BY <1>1, <1>4, <1>5 DEF RseStates, r

LEMMA WithFrameIs ==
  ASSUME NEW s \in RseStates, NEW f, f.sof \in Nat, f.sol \in Nat, f.sor \in Nat, f.rrb \in Nat
  PROVE  LET r == WithFrame(s, f)
         IN  /\ r \in RseStates /\ r.sof = f.sof /\ r.sol = f.sol /\ r.sor = f.sor /\ r.rrb = f.rrb
             /\ r.bof = s.bof /\ r.total = s.total /\ r.flushed = s.flushed /\ r.gr = s.gr
             /\ r.anchorAddr = s.anchorAddr /\ r.anchorRegs = s.anchorRegs
BY DEF WithFrame, RseStates

LEMMA FrameIs ==
  ASSUME NEW s, RseStateOk(s)
  PROVE  LET f == Frame(s)
         IN  f \in RseFrames /\ f.sof = s.sof /\ f.sol = s.sol /\ f.sor = s.sor /\ f.rrb = s.rrb /\ f.sof \in Nat
BY RseFields DEF Frame, RseFrames

\* The live registers of an interrupted context lie below the stack's base.
LEMMA LiveBelow ==
  ASSUME RseInv, NEW k \in 1 .. Len(traps), NEW p \in traps[k].live
  PROVE  p \in live /\ p \in Nat /\ p < traps[k].base /\ p < rse.total /\ traps[k].base \in Nat
<1>1. RseStateOk(rse) /\ RseTrapOk(traps[k]) /\ Carries(rse, live, traps[k]) /\ traps[k].base <= rse.total
  BY RseInvIs, Zenon
<1>2. p \in Nat /\ p < traps[k].base /\ traps[k].base \in Nat /\ rse.total \in Nat
  BY <1>1, TrapFields, RseFields
<1>3. p \in live
  BY <1>1 DEF Carries
<1> QED
  BY <1>1, <1>2, <1>3

\* A register is written, below the boundary or above it.
LEMMA WriteKeeps == RseInv /\ steps < RseSteps /\ steps' = steps + 1 /\ RseWrite => RseInv'
<1> SUFFICES ASSUME RseInv, steps < RseSteps, steps' = steps + 1, RseWrite PROVE RseInv'
  OBVIOUS
<1>1. PICK i \in 0 .. rse.sof - 1 :
        /\ rse' = GrWrite(rse, i, steps + 1) /\ live' = live \cup {rse.total + Logical(rse, i)}
        /\ UNCHANGED <<backing, calls, traps, records>>
  BY DEF RseWrite
<1> DEFINE p == rse.total + Logical(rse, i)
           f == IF p < rse.flushed THEN p ELSE rse.flushed
           r == GrWrite(rse, i, steps + 1)
<1>2. /\ RseStateOk(rse) /\ steps \in Nat /\ live \subseteq 0 .. rse.total + rse.sof - 1 /\ backing \in [RseAddrs -> Nat]
      /\ calls \in Seq(RseFrames) /\ FramesOk(calls, traps, rse.total) /\ Homed(rse, live, backing)
  BY RseInvIs, Zenon
<1>3. /\ rse \in RseStates /\ rse.total \in Nat /\ rse.sof \in Nat /\ rse.sor \in Nat /\ rse.rrb \in Nat
      /\ rse.sor <= rse.sof /\ rse.flushed \in Nat /\ rse.flushed < RseDepth /\ rse.total + rse.sof < RseDepth
      /\ rse.bof = rse.total /\ rse.sol <= rse.sof
  BY <1>2, RseFields
<1>4. Logical(rse, i) \in 0 .. rse.sof - 1
  <2>1. CASE i < rse.sor
    <3>1. (i + rse.rrb) % rse.sor \in 0 .. rse.sor - 1
      BY <1>3, <2>1
    <3> QED
      BY <1>3, <2>1, <3>1 DEF Logical
  <2>2. CASE ~(i < rse.sor)
    BY <1>3, <2>2 DEF Logical
  <2> QED
    BY <2>1, <2>2
<1>5. /\ p \in Nat /\ p >= rse.total /\ p \in 0 .. rse.total + rse.sof - 1 /\ p \in 0 .. RseDepth - 1
      /\ f \in Nat /\ f < RseDepth /\ f <= p /\ f <= rse.flushed /\ (f = p \/ f = rse.flushed)
  BY <1>3, <1>4, ConstantsAre
<1>6. StackSlot(rse, p) = p /\ p \in 0 .. RseCapacity - 1
  BY <1>2, <1>5, SlotIs
<1>7. r = [rse EXCEPT !.gr = [rse.gr EXCEPT ![p] = steps + 1], !.flushed = f]
  BY <1>3, <1>6 DEF GrWrite, MGrWrite, RseStates
<1> HIDE DEF p, f
<1> DEFINE g == [rse.gr EXCEPT ![p] = steps + 1]
<1>18. g \in [0 .. RseCapacity - 1 -> Nat] /\ \A q \in 0 .. RseCapacity - 1 : q # p => g[q] = rse.gr[q]
  <2>1. rse.gr \in [0 .. RseCapacity - 1 -> Nat] /\ steps + 1 \in Nat
    BY <1>2, RseFields
  <2> QED
    BY <1>6, <2>1
<1> HIDE DEF g
<1>19. r = [rse EXCEPT !.gr = g, !.flushed = f]
  BY <1>7 DEF g
<1> HIDE DEF r
<1>8. /\ r \in RseStates /\ r.sof = rse.sof /\ r.sol = rse.sol /\ r.sor = rse.sor /\ r.total = rse.total /\ r.bof = rse.bof
      /\ r.anchorAddr = rse.anchorAddr /\ r.anchorRegs = rse.anchorRegs /\ r.flushed = f
      /\ \A q \in 0 .. RseCapacity - 1 : q # p => r.gr[q] = rse.gr[q]
  BY <1>3, <1>5, <1>18, <1>19 DEF RseStates
<1>9. RseStateOk(r)
  <2>1. Shift(r) = Shift(rse)
    BY <1>8 DEF Shift
  <2> QED
    BY <1>2, <1>3, <1>5, <1>8, <2>1 DEF RseStateOk
<1>10. live \cup {p} \subseteq 0 .. r.total + r.sof - 1
  BY <1>2, <1>5, <1>8
<1>11. \A q \in live : q \in 0 .. RseCapacity - 1
  BY <1>2, <1>3, ConstantsAre
<1>12. Homed(r, live \cup {p}, backing)
  <2> SUFFICES ASSUME NEW q \in live \cup {p}, rse.anchorRegs <= q, q < f
               PROVE  backing[RegHome(q + Shift(rse))] = r.gr[q]
    BY <1>8 DEF Homed, Shift
  <2>1. q # p /\ q \in live /\ q < rse.flushed
    BY <1>2, <1>3, <1>5
  <2> QED
    BY <1>2, <1>8, <1>11, <2>1 DEF Homed
<1>13. \A k \in 1 .. Len(traps) : /\ r.flushed >= rse.flushed \/ r.flushed >= traps[k].base
                                  /\ \A q \in traps[k].live : q \in live \cup {p} /\ r.gr[q] = rse.gr[q]
  <2> SUFFICES ASSUME NEW k \in 1 .. Len(traps)
               PROVE /\ f >= rse.flushed \/ f >= traps[k].base
                     /\ \A q \in traps[k].live : q \in live \cup {p} /\ r.gr[q] = rse.gr[q]
    BY <1>8
  <2>1. RseTrapOk(traps[k]) /\ traps[k].base <= rse.total
    BY RseInvIs, Zenon
  <2>2. traps[k].base \in Nat
    BY <2>1, TrapFields
  <2>3. \A q \in traps[k].live : q \in live /\ q < rse.total
    BY LiveBelow
  <2>4. \A q \in traps[k].live : q \in live /\ q # p
    BY <1>5, <1>3, <2>3
  <2> QED
    BY <1>3, <1>5, <1>8, <1>11, <2>1, <2>2, <2>4
<1>14. Stores(rse, 0, backing)
  <2>1. rse.flushed .. 0 - 1 = {}
    BY <1>3
  <2> QED
    BY <1>2, <2>1 DEF Stores
<1>15. r.anchorAddr = rse.anchorAddr /\ r.anchorRegs = rse.anchorRegs /\ FramesOk(calls, traps, r.total)
  BY <1>2, <1>8
<1>16. RseInvOf(r, backing, live \cup {p}, calls, traps, records, steps + 1)
  <2>1. calls \in Seq(RseFrames) /\ 0 \in Nat
    BY <1>2
  <2> QED
    BY <1>9, <1>10, <1>12, <1>13, <1>14, <1>15, <2>1, OrdinaryStep
<1>17. rse' = r /\ live' = live \cup {p}
  BY <1>1 DEF r, p
<1> QED
  BY <1>1, <1>16, <1>17, InvOn

LEMMA AllocKeeps == RseInv /\ steps < RseSteps /\ steps' = steps + 1 /\ RseAlloc => RseInv'
<1> SUFFICES ASSUME RseInv, steps < RseSteps, steps' = steps + 1, RseAlloc PROVE RseInv'
  OBVIOUS
<1> DEFINE Chosen(sof, sol, sor) ==
             LET s == [rse EXCEPT !.sof = sof, !.sol = sol, !.sor = sor]
             IN  /\ Bsp(s) < RseDepth
                 /\ \E out \in SpillExcess(s) : rse' = out[1] /\ backing' = out[2]
                 /\ live' = {p \in live : p < Bsp(s)}
                 /\ UNCHANGED <<calls, traps, records>>
<1>0. \E sof \in 0 .. RseStacked : \E sol \in {sof, sof - 1} \cap Nat : \E sor \in {0, RseStacked} \cap 0 .. sof :
        Chosen(sof, sol, sor)
  BY DEF RseAlloc
<1> HIDE DEF Chosen
<1>15. PICK sof \in 0 .. RseStacked : \E sol \in {sof, sof - 1} \cap Nat : \E sor \in {0, RseStacked} \cap 0 .. sof :
        Chosen(sof, sol, sor)
  BY <1>0
<1>16. PICK sol \in {sof, sof - 1} \cap Nat : \E sor \in {0, RseStacked} \cap 0 .. sof : Chosen(sof, sol, sor)
  BY <1>15
<1>1. PICK sor \in {0, RseStacked} \cap 0 .. sof : Chosen(sof, sol, sor)
  BY <1>16
<1> DEFINE s == [rse EXCEPT !.sof = sof, !.sol = sol, !.sor = sor]
           L == {p \in live : p < Bsp(s)}
<1>2. /\ RseStateOk(rse) /\ live \subseteq 0 .. RseDepth - 1 /\ backing \in [RseAddrs -> Nat]
      /\ calls \in Seq(RseFrames) /\ FramesOk(calls, traps, rse.total)
  BY RseInvIs, Zenon
<1>3. rse \in RseStates /\ rse.total \in Nat /\ rse.bof = rse.total /\ RseStacked \in Nat /\ RseDepth \in Nat
  BY <1>2, RseFields, ConstantsAre
<1>4. sof \in Nat /\ sol \in Nat /\ sor \in Nat /\ sol <= sof /\ sor <= sof
  BY <1>3
<1>5. /\ s \in RseStates /\ s.sof = sof /\ s.sol = sol /\ s.sor = sor /\ s.total = rse.total /\ s.bof = rse.bof
      /\ s.anchorAddr = rse.anchorAddr /\ s.anchorRegs = rse.anchorRegs /\ s.flushed = rse.flushed /\ s.gr = rse.gr
  BY <1>3, <1>4 DEF RseStates
<1>6. PICK out \in SpillExcess(s) : rse' = out[1] /\ backing' = out[2]
  BY <1>1 DEF Chosen
<1>7. live' = L /\ UNCHANGED <<calls, traps, records>> /\ Bsp(s) < RseDepth
  BY <1>1 DEF Chosen
<1> HIDE DEF s
<1>8. Bsp(s) = s.total + s.sof
  BY DEF Bsp
<1>9. RseStateOk(s)
  BY <1>2, <1>3, <1>4, <1>5, <1>7, <1>8, Reframed
<1>10. Spilled(s, out)
  BY <1>2, <1>6, <1>9, SpillIs
<1>11. L \subseteq live /\ L \subseteq 0 .. s.total + s.sof - 1
  <2> SUFFICES ASSUME NEW p \in L PROVE p \in live /\ p \in 0 .. s.total + s.sof - 1
    OBVIOUS
  <2>1. p \in live /\ p < Bsp(s)
    OBVIOUS
  <2>2. p \in Nat /\ s.total \in Nat /\ s.sof \in Nat
    BY <1>2, <1>3, <1>4, <1>5, <2>1
  <2> QED
    BY <1>8, <2>1, <2>2
<1>12. \A k \in 1 .. Len(traps) : traps[k].live \subseteq L
  <2> SUFFICES ASSUME NEW k \in 1 .. Len(traps), NEW p \in traps[k].live PROVE p \in L
    OBVIOUS
  <2>1. p \in live /\ p \in Nat /\ p < rse.total
    BY LiveBelow
  <2> QED
    BY <1>3, <1>4, <1>5, <1>8, <2>1
<1>13. FramesOk(calls, traps, s.total) /\ s.anchorAddr = rse.anchorAddr /\ s.anchorRegs = rse.anchorRegs
       /\ s.flushed = rse.flushed /\ s.gr = rse.gr
  BY <1>2, <1>5
<1> HIDE DEF L
<1>14. RseInvOf(out[1], out[2], L, calls, traps, records, steps + 1)
  BY <1>2, <1>9, <1>10, <1>11, <1>12, <1>13, SpillingStep
<1> QED
  BY <1>6, <1>7, <1>14, InvOn

LEMMA FlushrsKeeps == RseInv /\ steps < RseSteps /\ steps' = steps + 1 /\ RseFlushrs => RseInv'
<1> SUFFICES ASSUME RseInv, steps < RseSteps, steps' = steps + 1, RseFlushrs PROVE RseInv'
  OBVIOUS
<1>1. PICK out \in RseFlush(rse) : rse' = out[1] /\ backing' = out[2]
  BY DEF RseFlushrs
<1>2. /\ RseStateOk(rse) /\ live \subseteq 0 .. rse.total + rse.sof - 1 /\ backing \in [RseAddrs -> Nat]
      /\ calls \in Seq(RseFrames) /\ FramesOk(calls, traps, rse.total)
  BY RseInvIs, Zenon
<1>3. Spilled(rse, out)
  BY <1>2, FlushrsIs
<1>4. \A k \in 1 .. Len(traps) : traps[k].live \subseteq live
  BY LiveBelow
<1>5. RseInvOf(out[1], out[2], live, calls, traps, records, steps + 1)
  BY <1>2, <1>3, <1>4, SpillingStep
<1> QED
  BY <1>1, <1>5, InvOn DEF RseFlushrs

LEMMA RotateKeeps == RseInv /\ steps < RseSteps /\ steps' = steps + 1 /\ RseRotate => RseInv'
<1> SUFFICES ASSUME RseInv, steps < RseSteps, steps' = steps + 1, RseRotate PROVE RseInv'
  OBVIOUS
<1> DEFINE s == RotateRegs(rse)
           out == <<s, backing>>
<1>1. /\ RseStateOk(rse) /\ live \subseteq 0 .. rse.total + rse.sof - 1 /\ backing \in [RseAddrs -> Nat]
      /\ calls \in Seq(RseFrames) /\ FramesOk(calls, traps, rse.total)
  BY RseInvIs, Zenon
<1>2. /\ rse \in RseStates /\ rse.total \in Nat /\ rse.bof = rse.total /\ rse.sof \in Nat /\ rse.sor \in Nat /\ rse.rrb \in Nat
      /\ rse.total + rse.sof < RseDepth /\ rse.sol <= rse.sof /\ rse.sor <= rse.sof
  BY <1>1, RseFields
<1>3. (rse.rrb + rse.sor - 1) % rse.sor \in Nat /\ rse.sor > 0
  <2> DEFINE x == rse.rrb + rse.sor - 1
  <2>1. x \in Nat /\ rse.sor > 0
    BY <1>2 DEF RseRotate
  <2> HIDE DEF x
  <2>2. x % rse.sor \in Nat
    BY <1>2, <2>1
  <2> QED
    BY <2>1, <2>2 DEF x
<1>4. /\ s \in RseStates /\ s.sof = rse.sof /\ s.sol = rse.sol /\ s.sor = rse.sor /\ s.total = rse.total /\ s.bof = rse.bof
      /\ s.anchorAddr = rse.anchorAddr /\ s.anchorRegs = rse.anchorRegs /\ s.flushed = rse.flushed /\ s.gr = rse.gr
  BY <1>2, <1>3 DEF RseStates, RotateRegs
<1> HIDE DEF s
<1>5. RseStateOk(s)
  BY <1>1, <1>2, <1>4, Reframed
<1>6. Spilled(s, out)
  BY <1>1, <1>5, NoStore
<1>7. \A k \in 1 .. Len(traps) : traps[k].live \subseteq live
  BY LiveBelow
<1>8. live \subseteq 0 .. s.total + s.sof - 1 /\ FramesOk(calls, traps, s.total)
  BY <1>1, <1>4
<1>9. out[1] = s /\ out[2] = backing
  OBVIOUS
<1> HIDE DEF out
<1>10. RseInvOf(out[1], out[2], live, calls, traps, records, steps + 1)
  BY <1>1, <1>4, <1>5, <1>6, <1>7, <1>8, SpillingStep
<1>11. rse' = s /\ UNCHANGED <<backing, live, calls, traps, records>>
  BY DEF RseRotate, s
<1> QED
  BY <1>9, <1>10, <1>11, InvOn

\* The caller's frame is kept in calls; the callee's begins at its outputs.
LEMMA CallKeeps == RseInv /\ steps < RseSteps /\ steps' = steps + 1 /\ RseCall => RseInv'
<1> SUFFICES ASSUME RseInv, steps < RseSteps, steps' = steps + 1, RseCall PROVE RseInv'
  OBVIOUS
<1> DEFINE e == [sof |-> rse.sof - rse.sol, sol |-> 0, sor |-> 0, rrb |-> 0]
           q == Base(rse, rse.sol)
           s == WithFrame(q, e)
           f == Frame(rse)
           out == <<s, backing>>
<1>1. /\ RseStateOk(rse) /\ live \subseteq 0 .. rse.total + rse.sof - 1 /\ backing \in [RseAddrs -> Nat]
      /\ calls \in Seq(RseFrames) /\ FramesOk(calls, traps, rse.total) /\ Len(traps) \in Nat
  BY RseInvIs, Zenon
<1>2. /\ rse.total \in Nat /\ rse.sof \in Nat /\ rse.sol \in Nat /\ rse.sor <= rse.sof
      /\ rse.total + rse.sof < RseDepth /\ rse.sol <= rse.sof /\ RseDepth \in Nat
  BY <1>1, RseFields, ConstantsAre
<1>3. /\ q \in RseStates /\ q.bof = q.total /\ q.total = rse.total + rse.sol /\ q.flushed = rse.flushed /\ q.gr = rse.gr
      /\ q.anchorAddr = rse.anchorAddr /\ q.anchorRegs = rse.anchorRegs
  BY <1>1, <1>2, BaseIs
<1> HIDE DEF q
<1>4. e.sof = rse.sof - rse.sol /\ e.sof \in Nat /\ e.sol = 0 /\ e.sor = 0 /\ e.rrb = 0
  BY <1>2
<1> HIDE DEF e
<1>5. /\ s \in RseStates /\ s.sof = rse.sof - rse.sol /\ s.sol = 0 /\ s.sor = 0 /\ s.total = rse.total + rse.sol
      /\ s.bof = s.total /\ s.anchorAddr = rse.anchorAddr /\ s.anchorRegs = rse.anchorRegs
      /\ s.flushed = rse.flushed /\ s.gr = rse.gr
  BY <1>3, <1>4, WithFrameIs
<1> HIDE DEF s
<1>6. RseStateOk(s)
  BY <1>1, <1>2, <1>5, Reframed
<1>7. Spilled(s, out)
  BY <1>1, <1>6, NoStore
<1>8. \A k \in 1 .. Len(traps) : traps[k].live \subseteq live
  BY LiveBelow
<1>9. live \subseteq 0 .. s.total + s.sof - 1
  BY <1>1, <1>2, <1>5
<1>10. f \in RseFrames /\ f.sof = rse.sof /\ f.sol = rse.sol /\ f.sor = rse.sor /\ f.sof \in Nat
  BY <1>1, FrameIs
<1> HIDE DEF f
<1>11. Append(calls, f) \in Seq(RseFrames) /\ FramesOk(Append(calls, f), traps, s.total)
  BY <1>1, <1>2, <1>5, <1>10, FramesCall
<1>12. out[1] = s /\ out[2] = backing
  OBVIOUS
<1> HIDE DEF out
<1>13. RseInvOf(out[1], out[2], live, Append(calls, f), traps, records, steps + 1)
  BY <1>1, <1>5, <1>6, <1>7, <1>8, <1>9, <1>11, SpillingStep
<1>14. rse' = s /\ calls' = Append(calls, f) /\ UNCHANGED <<backing, live, traps, records>>
  BY DEF RseCall, s, f, q, e
<1> QED
  BY <1>12, <1>13, <1>14, InvOn

LEMMA ReturnedIs ==
  ASSUME NEW s, RseStateOk(s), NEW f \in RseFrames, f.sof \in Nat, f.sol <= f.sof, f.sor <= f.sof,
         f.sol <= s.total, s.total - f.sol + f.sof < RseDepth
  PROVE  LET r == Returned(s, f)
         IN  /\ RseStateOk(r) /\ r.sof = f.sof /\ r.sol = f.sol /\ r.total = s.total - f.sol /\ r.gr = s.gr
             /\ r.flushed = s.flushed /\ r.anchorAddr = s.anchorAddr /\ r.anchorRegs = s.anchorRegs
<1> DEFINE q == Base(s, -f.sol)
           r == WithFrame(q, f)
<1>1. f.sof \in Nat /\ f.sol \in Nat /\ f.sor \in Nat /\ f.rrb \in Nat /\ s.total \in Nat /\ RseDepth \in Nat
  BY RseFields, ConstantsAre DEF RseFrames
<1>2. s.total + (-f.sol) = s.total - f.sol /\ -f.sol \in Int /\ s.total - f.sol \in 0 .. RseDepth - 1
  BY <1>1
<1>3. /\ q \in RseStates /\ q.bof = q.total /\ q.total = s.total - f.sol /\ q.flushed = s.flushed /\ q.gr = s.gr
      /\ q.anchorAddr = s.anchorAddr /\ q.anchorRegs = s.anchorRegs
  BY <1>2, BaseIs
<1> HIDE DEF q
<1>4. /\ r \in RseStates /\ r.sof = f.sof /\ r.sol = f.sol /\ r.sor = f.sor /\ r.total = s.total - f.sol
      /\ r.bof = r.total /\ r.anchorAddr = s.anchorAddr /\ r.anchorRegs = s.anchorRegs
      /\ r.flushed = s.flushed /\ r.gr = s.gr
  BY <1>1, <1>3, WithFrameIs
<1> HIDE DEF r
<1>5. RseStateOk(r)
  BY <1>1, <1>4, Reframed
<1>6. Returned(s, f) = r
  BY DEF Returned, r, q
<1> QED
  BY <1>4, <1>5, <1>6

\* What frame k of calls holds, seen from what it called.
LEMMA FrameAt ==
  ASSUME RseInv, NEW b, NEW m, FrameChain(b, m, calls, traps, rse.total), NEW k \in 1 .. Len(calls),
         \A j \in k .. Len(calls) : calls[j].sof # -1
  PROVE  /\ calls[k] \in RseFrames /\ calls[k].sof \in Nat /\ calls[k].sol \in Nat /\ calls[k].sol <= calls[k].sof
         /\ calls[k].sor <= calls[k].sof
         /\ b[k] \in Nat /\ b[k + 1] \in Nat /\ b[k + 1] = b[k] + calls[k].sol /\ b[k] + calls[k].sof < RseDepth
         /\ b[k + 1] <= rse.total
         /\ SubSeq(calls, 1, k - 1) \in Seq(RseFrames) /\ FramesOk(SubSeq(calls, 1, k - 1), traps, b[k])
         /\ \A j \in 1 .. Len(traps) : traps[j].base <= b[k]
<1>1. calls \in Seq(RseFrames) /\ Len(calls) \in Nat /\ Len(traps) \in Nat
  BY RseInvIs, Zenon
<1>2. calls[k] \in RseFrames /\ calls[k].sof # -1 /\ k + 1 \in 1 .. Len(calls) + 1 /\ k \in 1 .. Len(calls) + 1
      /\ Len(calls) + 1 \in 1 .. Len(calls) + 1 /\ k + 1 <= Len(calls) + 1
  <2>1. k \in k .. Len(calls)
    BY <1>1
  <2> QED
    BY <1>1, <2>1
<1>3. calls[k].sol \in Nat
  BY <1>2 DEF RseFrames
<1>4. /\ calls[k].sof \in Nat /\ calls[k].sol <= calls[k].sof /\ calls[k].sor <= calls[k].sof
      /\ b[k] \in Nat /\ b[k + 1] \in Nat /\ b[k + 1] = b[k] + calls[k].sol /\ b[k] + calls[k].sof < RseDepth
      /\ b[k + 1] <= rse.total
  BY <1>2 DEF FrameChain
<1>5. FramesOk(SubSeq(calls, 1, k - 1), traps, b[k])
  BY <1>1, FramesCut
<1>6. SubSeq(calls, 1, k - 1) \in Seq(RseFrames)
  <2>1. 1 \in 1 .. Len(calls) + 1 /\ k - 1 \in 0 .. Len(calls)
    BY <1>1
  <2> QED
    BY <1>1, <2>1, SubSeqProperties
<1>7. Len(SubSeq(calls, 1, k - 1)) \in Nat
  BY <1>6
<1>8. \A j \in 1 .. Len(traps) : traps[j].base <= b[k]
  BY <1>5, <1>7, BasesBelow
<1> QED
  BY <1>2, <1>3, <1>4, <1>5, <1>6, <1>8

LEMMA RetKeeps == RseInv /\ steps < RseSteps /\ steps' = steps + 1 /\ RseRet => RseInv'
<1> SUFFICES ASSUME RseInv, steps < RseSteps, steps' = steps + 1, RseRet PROVE RseInv'
  OBVIOUS
<1> DEFINE k == Len(calls)
           f == calls[k]
           s == Returned(rse, f)
           L == {p \in live : p < s.total + s.sol}
           c == SubSeq(calls, 1, k - 1)
<1>1. /\ RseStateOk(rse) /\ live \subseteq 0 .. RseDepth - 1 /\ backing \in [RseAddrs -> Nat]
      /\ calls \in Seq(RseFrames) /\ FramesOk(calls, traps, rse.total) /\ Len(traps) \in Nat
  BY RseInvIs, Zenon
<1>2. rse.total \in Nat /\ RseDepth \in Nat
  BY <1>1, RseFields, ConstantsAre
<1>3. calls # <<>> /\ f.sof # -1 /\ k \in 1 .. k /\ k \in Nat
  BY <1>1 DEF RseRet, Last
<1>4. PICK b, m : FrameChain(b, m, calls, traps, rse.total)
  BY <1>1 DEF FramesOk
<1>5. \A j \in k .. k : calls[j].sof # -1
  BY <1>3
<1>6. b[k + 1] = rse.total
  BY <1>4 DEF FrameChain
<1>7. /\ f \in RseFrames /\ f.sof \in Nat /\ f.sol \in Nat /\ f.sol <= f.sof /\ f.sor <= f.sof /\ b[k] \in Nat
      /\ b[k + 1] = b[k] + f.sol /\ b[k] + f.sof < RseDepth
      /\ c \in Seq(RseFrames) /\ FramesOk(c, traps, b[k]) /\ \A j \in 1 .. Len(traps) : traps[j].base <= b[k]
  BY <1>3, <1>4, <1>5, FrameAt
<1>8. PICK out \in SpillExcess(s) : rse' = out[1] /\ backing' = out[2]
  BY DEF RseRet, Last
<1>9. live' = L /\ calls' = c /\ UNCHANGED <<traps, records>>
  BY DEF RseRet, Last, Front
<1> HIDE DEF f, k, c
<1>10. f.sol <= rse.total /\ rse.total - f.sol = b[k] /\ rse.total - f.sol + f.sof < RseDepth
  BY <1>2, <1>6, <1>7
<1>11. /\ RseStateOk(s) /\ s.sof = f.sof /\ s.sol = f.sol /\ s.total = b[k] /\ s.gr = rse.gr /\ s.flushed = rse.flushed
       /\ s.anchorAddr = rse.anchorAddr /\ s.anchorRegs = rse.anchorRegs
  BY <1>1, <1>7, <1>10, ReturnedIs
<1> HIDE DEF s
<1>12. Spilled(s, out)
  BY <1>1, <1>8, <1>11, SpillIs
<1>13. L \subseteq live /\ L \subseteq 0 .. s.total + s.sof - 1
  <2> SUFFICES ASSUME NEW p \in live, p < s.total + s.sol PROVE p \in 0 .. s.total + s.sof - 1
    OBVIOUS
  <2>1. p \in Nat /\ s.total \in Nat /\ s.sof \in Nat /\ s.sol \in Nat /\ s.sol <= s.sof
    BY <1>1, <1>7, <1>11
  <2> QED
    BY <2>1
<1>14. \A j \in 1 .. Len(traps) : traps[j].live \subseteq L
  <2> SUFFICES ASSUME NEW j \in 1 .. Len(traps), NEW p \in traps[j].live PROVE p \in L
    OBVIOUS
  <2>1. p \in live /\ p \in Nat /\ p < traps[j].base /\ traps[j].base \in Nat /\ traps[j].base <= b[k]
    BY <1>7, LiveBelow
  <2>2. p < s.total + s.sol
    BY <1>7, <1>11, <2>1
  <2> QED
    BY <2>1, <2>2
<1>15. FramesOk(c, traps, s.total)
  BY <1>7, <1>11
<1> HIDE DEF L
<1>16. RseInvOf(out[1], out[2], L, c, traps, records, steps + 1)
  BY <1>7, <1>11, <1>12, <1>13, <1>14, <1>15, SpillingStep
<1> QED
  BY <1>8, <1>9, <1>16, InvOn

\* loadrs of all registers from target on: what was below the boundary is read back.
LEMMA LoadIs ==
  ASSUME NEW s, RseStateOk(s), backing \in [RseAddrs -> Nat], NEW words, NEW target \in Nat, target <= Bsp(s),
         RegsInWindow(RseAddr(s, Bsp(s)), words) = Bsp(s) - target
  PROVE  LET r == RseLoad(s, words)
         IN  /\ RseStateOk(r) /\ r.flushed = target /\ r.total = s.total /\ r.sof = s.sof /\ r.sol = s.sol
             /\ r.anchorAddr = s.anchorAddr /\ r.anchorRegs = s.anchorRegs
             /\ \A p \in 0 .. RseCapacity - 1 :
                  r.gr[p] = IF target <= p /\ p < s.flushed /\ p < Bsp(s)
                              THEN backing[RegHome(p + Shift(s))] ELSE s.gr[p]
<1> DEFINE top == s.total + s.sof
           end == IF s.flushed < top THEN s.flushed ELSE top
           PlacesOf(t, e, x) == {p \in t .. e - 1 : StackSlot(s, p) = x}
           File(t, e) == [x \in DOMAIN s.gr |->
                           LET P == PlacesOf(t, e, x)
                           IN  IF P = {} THEN s.gr[x] ELSE backing[RseAddr(s, CHOOSE p \in P : TRUE)]]
           P(x) == PlacesOf(target, end, x)
           g == File(target, end)
           h(p) == IF target <= p /\ p < s.flushed /\ p < top THEN backing[RegHome(p + Shift(s))] ELSE s.gr[p]
           r == RseLoad(s, words)
<1>0. /\ s \in RseStates /\ s.total \in Nat /\ s.sof \in Nat /\ s.flushed \in Nat /\ s.flushed < RseDepth
      /\ s.gr \in [0 .. RseCapacity - 1 -> Nat] /\ s.total + s.sof < RseDepth
  BY RseFields
<1>1. /\ s \in RseStates /\ s.total \in Nat /\ s.sof \in Nat /\ s.flushed \in Nat /\ s.flushed < RseDepth
      /\ s.gr \in [0 .. RseCapacity - 1 -> Nat] /\ top \in Nat /\ top < RseDepth /\ RseDepth \in Nat /\ RseDepth <= RseCapacity
      /\ RseCapacity \in Nat
  <2>1. RseDepth \in Nat /\ RseDepth <= RseCapacity /\ RseCapacity \in Nat
    BY ConstantsAre
  <2>2. top \in Nat /\ top < RseDepth
    BY <1>0
  <2> QED
    BY <1>0, <2>1, <2>2, Zenon
<1>2. Bsp(s) = top
  BY DEF Bsp
<1>3. Bsp(s) - RegsInWindow(RseAddr(s, Bsp(s)), words) = target
  <2> DEFINE x == RegsInWindow(RseAddr(s, Bsp(s)), words)
             y == Bsp(s)
  <2>1. x = y - target /\ y \in Nat
    BY <1>1, <1>2
  <2> HIDE DEF x, y
  <2>2. y - x = target
    BY <2>1
  <2> QED
    BY <2>2 DEF x, y
<1>4. r = [s EXCEPT !.flushed = target, !.gr = g]
  <2> DEFINE T == Bsp(s) - RegsInWindow(RseAddr(s, Bsp(s)), words)
             E == IF s.flushed < Bsp(s) THEN s.flushed ELSE Bsp(s)
  <2>1. r = [s EXCEPT !.flushed = T, !.gr = File(T, E)]
    BY <1>1 DEF RseLoad, RseStates
  <2>2. T = target
    BY <1>3
  <2> HIDE DEF T, top
  <2>3. E = end
    BY <1>2
  <2> HIDE DEF E, end, File
  <2> QED
    BY <2>1, <2>2, <2>3
<1>5. end \in Nat /\ end <= top /\ end <= s.flushed /\ (end = top \/ end = s.flushed)
  BY <1>1
<1> HIDE DEF top, end, r
<1>6. \A p \in target .. end - 1 : /\ StackSlot(s, p) = p /\ RseAddr(s, p) = RegHome(p + Shift(s)) /\ p \in 0 .. RseDepth - 1
                                   /\ backing[RegHome(p + Shift(s))] \in Nat
  <2> SUFFICES ASSUME NEW p \in target .. end - 1
               PROVE  /\ StackSlot(s, p) = p /\ RseAddr(s, p) = RegHome(p + Shift(s)) /\ p \in 0 .. RseDepth - 1
                      /\ backing[RegHome(p + Shift(s))] \in Nat
    OBVIOUS
  <2>1. p \in 0 .. RseDepth - 1 /\ p \in Int
    BY <1>1, <1>5
  <2>2. StackSlot(s, p) = p /\ RseAddr(s, p) = RegHome(p + Shift(s)) /\ RegHome(p + Shift(s)) \in RseAddrs
    BY <2>1, SlotIs, RseAddrIs, HomesExist
  <2> QED
    BY <2>1, <2>2
<1>7. \A x \in 0 .. RseCapacity - 1 : g[x] = h(x) /\ g[x] \in Nat
  <2> SUFFICES ASSUME NEW x \in 0 .. RseCapacity - 1 PROVE g[x] = h(x) /\ g[x] \in Nat
    OBVIOUS
  <2>0. g[x] = IF P(x) = {} THEN s.gr[x] ELSE backing[RseAddr(s, CHOOSE p \in P(x) : TRUE)]
    BY <1>1
  <2>1. CASE x \in target .. end - 1
    <3>1. P(x) = {x}
      BY <1>6, <2>1
    <3>2. (CHOOSE p \in P(x) : TRUE) = x
      BY <3>1
    <3>3. g[x] = backing[RegHome(x + Shift(s))] /\ g[x] \in Nat
      BY <1>6, <2>0, <2>1, <3>1, <3>2
    <3>4. target <= x /\ x < s.flushed /\ x < top
      BY <1>1, <1>5, <2>1
    <3> QED
      BY <3>3, <3>4
  <2>2. CASE x \notin target .. end - 1
    <3>1. P(x) = {}
      BY <1>6, <2>2
    <3>2. ~(target <= x /\ x < s.flushed /\ x < top)
      BY <1>1, <1>5, <2>2
    <3>3. s.gr[x] \in Nat
      BY <1>1
    <3> QED
      BY <2>0, <3>1, <3>2, <3>3
  <2> QED
    BY <2>1, <2>2
<1>8. g \in [0 .. RseCapacity - 1 -> Nat]
  <2>1. DOMAIN s.gr = 0 .. RseCapacity - 1
    BY <1>1
  <2> HIDE DEF P
  <2> QED
    BY <1>7, <2>1
<1> HIDE DEF g, h
<1>9. /\ r \in RseStates /\ r.flushed = target /\ r.gr = g /\ r.total = s.total /\ r.bof = s.bof /\ r.sof = s.sof
      /\ r.sol = s.sol /\ r.sor = s.sor /\ r.anchorAddr = s.anchorAddr /\ r.anchorRegs = s.anchorRegs
  BY <1>1, <1>4, <1>8 DEF RseStates
<1>10. target < RseDepth
  BY <1>1, <1>2
<1>11. RseStateOk(r)
  BY <1>9, <1>10 DEF RseStateOk, Shift
<1>12. \A p \in 0 .. RseCapacity - 1 : r.gr[p] = h(p)
  BY <1>7, <1>9
<1> QED
  BY <1>2, <1>9, <1>11, <1>12 DEF r, h

\* mov ar.bspstore back into what is still in the file.
LEMMA RewindIs ==
  ASSUME NEW s, RseStateOk(s), s.flushed = s.total + s.sof, NEW q \in Nat, q < s.total
  PROVE  LET r == MovBspstore(s, RegHome(q + Shift(s)))
         IN  /\ RseStateOk(r) /\ r.total = q /\ r.flushed = q /\ r.sof = s.sof /\ r.sol = s.sol /\ r.gr = s.gr
             /\ r.anchorAddr = s.anchorAddr /\ r.anchorRegs = s.anchorRegs
<1> DEFINE top == s.total + s.sof
           a == RegHome(q + Shift(s))
           cur == RegHome(top + Shift(s))
           r == MovBspstore(s, a)
<1>1. /\ s \in RseStates /\ s.total \in Nat /\ s.sof \in Nat /\ s.bof = s.total /\ top \in Nat /\ top < RseDepth
      /\ Shift(s) \in Nat /\ s.sol <= s.sof /\ s.sor <= s.sof
  BY RseFields
<1>2. RseDepth \in Nat /\ RseDepth <= RseCapacity /\ RseCapacity \in Nat /\ RseSpan \in Nat
  BY ConstantsAre
<1>3. RseAddr(s, s.flushed) = cur /\ AddrToRegs(s, a) = q /\ a \in Int /\ cur \in Int
  <2>1. q \in Int /\ top \in Int /\ q + Shift(s) \in Int /\ top + Shift(s) \in Int
    BY <1>1
  <2> QED
    BY <2>1, RseAddrIs, AddrToRegsIs, HomeIs
<1>4. cur - a \in top - q .. 2 * (top - q)
  <2> DEFINE x == q + Shift(s)
             y == top + Shift(s)
  <2>1. x \in Int /\ y \in Int /\ x <= y /\ y - x = top - q
    BY <1>1
  <2> HIDE DEF x, y
  <2>2. RegHome(y) - RegHome(x) \in y - x .. 2 * (y - x)
    BY <2>1, HomeOrder
  <2> QED
    BY <2>1, <2>2 DEF x, y
<1>5. a < cur /\ cur - a <= RseSpan
  <2> DEFINE x == q + Shift(s)
             n == top - q
  <2>1. x \in Int /\ n \in 0 .. RseDepth - 1 /\ x + n = top + Shift(s) /\ n > 0
    BY <1>1, <1>2
  <2> HIDE DEF x, n
  <2>2. RegHome(x + n) - RegHome(x) <= RseSpan
    BY <2>1, RewindShort
  <2>3. cur - a <= RseSpan
    BY <2>1, <2>2 DEF x
  <2> HIDE DEF a, cur
  <2>4. a < cur
    BY <1>3, <1>4, <2>1 DEF n
  <2> QED
    BY <2>3, <2>4
<1> HIDE DEF a, cur
<1>6. Bsp(s) = top /\ Bsp(s) = s.flushed
  BY DEF Bsp
<1>7. q - 0 = q /\ 0 < s.total - q /\ s.total - q < RseCapacity /\ (s.bof - (s.total - q)) % RseCapacity = q
  <2>1. s.bof - (s.total - q) = q /\ q \in 0 .. RseCapacity - 1
    BY <1>1, <1>2
  <2>2. q % RseCapacity = q
    BY <1>2, <2>1
  <2> QED
    BY <1>1, <1>2, <2>1, <2>2
<1>8. ~(Bsp(s) > s.flushed)
  BY <1>1, <1>6
<1> HIDE DEF top
<1>9. r = [s EXCEPT !.total = q, !.flushed = q, !.bof = q]
  <2> DEFINE dirty == IF Bsp(s) > s.flushed THEN Bsp(s) - s.flushed ELSE 0
             c2 == RseAddr(s, s.flushed)
             newpos == AddrToRegs(s, a)
             back == s.total - (newpos - dirty)
             resident == a < c2 /\ c2 - a <= RseSpan /\ 0 < back /\ back < RseCapacity
  <2>1. dirty = 0 /\ c2 = cur /\ newpos = q
    BY <1>3, <1>8
  <2>2. newpos - dirty = q /\ back = s.total - q
    BY <1>7, <2>1
  <2>3. resident
    BY <1>5, <1>7, <2>1, <2>2
  <2>4. r = IF resident THEN [s EXCEPT !.total = newpos - dirty, !.flushed = newpos, !.bof = (@ - back) % RseCapacity]
              ELSE [s EXCEPT !.flushed = Bsp(s) - dirty, !.anchorAddr = a, !.anchorRegs = Bsp(s) - dirty]
    BY DEF MovBspstore, r
  <2>5. r = [s EXCEPT !.total = newpos - dirty, !.flushed = newpos, !.bof = (@ - back) % RseCapacity]
    BY <2>3, <2>4
  <2> HIDE DEF newpos, dirty, back
  <2> QED
    BY <1>1, <1>7, <2>1, <2>2, <2>5 DEF RseStates
<1> HIDE DEF r
<1>10. /\ r \in RseStates /\ r.total = q /\ r.flushed = q /\ r.bof = q /\ r.sof = s.sof /\ r.sol = s.sol /\ r.sor = s.sor
       /\ r.gr = s.gr /\ r.anchorAddr = s.anchorAddr /\ r.anchorRegs = s.anchorRegs
  BY <1>1, <1>9 DEF RseStates
<1>11. q + s.sof < RseDepth /\ q < RseDepth
  BY <1>1, <1>2 DEF top
<1>12. RseStateOk(r)
  BY <1>1, <1>10, <1>11 DEF RseStateOk, Shift
<1> QED
  BY <1>10, <1>12 DEF r, a

LEMMA NothingLoaded ==
  ASSUME NEW x \in Int
  PROVE  RegsInWindow(x, 0) = 0
<1>1. x - 0 = x /\ x <= x - 1 + 1 /\ x - 1 + 1 = x /\ x - 1 \in Int
  OBVIOUS
<1>2. RegsBetween(x, x - 1) = RegRank(x) - RegRank(x)
  BY <1>1, Counted
<1>3. RegRank(x) \in Int
  BY RankIs
<1> HIDE DEF RegRank
<1> QED
  BY <1>1, <1>2, <1>3 DEF RegsInWindow

\* longjmp: flushrs, bspstore back to frame k's callee, loadrs of nothing, br.ret.
LEMMA LongjmpIs ==
  ASSUME RseInv, NEW b, NEW m, FrameChain(b, m, calls, traps, rse.total), NEW k \in 1 .. Len(calls),
         \A j \in k .. Len(calls) : calls[j].sof # -1, Unwound(k) > 0
  PROVE  LET full == [rse EXCEPT !.flushed = Bsp(rse)]
             s == Returned(RseLoad(MovBspstore(full, RseAddr(rse, rse.total - Unwound(k))), 0), calls[k])
         IN  /\ RseStateOk(s) /\ s.total = b[k] /\ s.sof = calls[k].sof /\ s.sol = calls[k].sol
             /\ s.flushed = b[k + 1] + rse.sof /\ s.anchorAddr = rse.anchorAddr /\ s.anchorRegs = rse.anchorRegs
             /\ \A p \in 0 .. RseCapacity - 1 : s.gr[p] = rse.gr[p]
<1> DEFINE f == calls[k]
           q == b[k + 1]
           full == [rse EXCEPT !.flushed = Bsp(rse)]
           moved == MovBspstore(full, RseAddr(rse, rse.total - Unwound(k)))
           loaded == RseLoad(moved, 0)
           s == Returned(loaded, f)
<1>1. /\ RseStateOk(rse) /\ backing \in [RseAddrs -> Nat] /\ calls \in Seq(RseFrames) /\ rse.total \in Nat /\ rse.sof \in Nat
      /\ rse.total + rse.sof < RseDepth /\ RseDepth \in Nat /\ Shift(rse) \in Nat
  BY RseInvIs, RseFields, ConstantsAre
<1>2. /\ f \in RseFrames /\ f.sof \in Nat /\ f.sol \in Nat /\ f.sol <= f.sof /\ f.sor <= f.sof
      /\ b[k] \in Nat /\ q \in Nat /\ q = b[k] + f.sol /\ b[k] + f.sof < RseDepth /\ q <= rse.total
  BY FrameAt
<1>3. Unwound(k) = rse.total - q
  BY <1>1, UnwoundIs
<1>4. rse.total - Unwound(k) = q /\ q < rse.total
  BY <1>1, <1>2, <1>3
<1>5. RseAddr(rse, rse.total - Unwound(k)) = RegHome(q + Shift(rse))
  BY <1>1, <1>2, <1>4, RseAddrIs
<1>6. Bsp(rse) = rse.total + rse.sof /\ Bsp(rse) \in 0 .. RseDepth - 1
  BY <1>1 DEF Bsp
<1>7. /\ RseStateOk(full) /\ full.flushed = Bsp(rse) /\ full.total = rse.total /\ full.sof = rse.sof /\ full.gr = rse.gr
      /\ full.anchorAddr = rse.anchorAddr /\ full.anchorRegs = rse.anchorRegs
  BY <1>1, <1>6, FlushedTo
<1> HIDE DEF full
<1>8. Shift(full) = Shift(rse) /\ full.flushed = full.total + full.sof
  BY <1>6, <1>7 DEF Shift
<1>9. moved = MovBspstore(full, RegHome(q + Shift(full)))
  BY <1>5, <1>8, Zenon
<1>10. q < full.total
  BY <1>4, <1>7
<1> HIDE DEF moved, f, q
<1>11. /\ RseStateOk(moved) /\ moved.total = q /\ moved.flushed = q /\ moved.sof = rse.sof /\ moved.gr = rse.gr
       /\ moved.anchorAddr = rse.anchorAddr /\ moved.anchorRegs = rse.anchorRegs
  BY <1>2, <1>7, <1>8, <1>9, <1>10, RewindIs
<1>12. Bsp(moved) = q + rse.sof /\ q + rse.sof \in Nat
  BY <1>1, <1>2, <1>11 DEF Bsp
<1>13. RegsInWindow(RseAddr(moved, Bsp(moved)), 0) = 0
  <2>1. Shift(moved) \in Nat /\ Bsp(moved) \in Int
    BY <1>11, <1>12, RseFields
  <2>2. RseAddr(moved, Bsp(moved)) = RegHome(Bsp(moved) + Shift(moved))
    BY <1>11, <2>1, RseAddrIs
  <2>3. Bsp(moved) + Shift(moved) \in Int
    BY <2>1
  <2>4. RseAddr(moved, Bsp(moved)) \in Int
    BY <2>2, <2>3, HomeIs
  <2> QED
    BY <2>4, NothingLoaded
<1>14. /\ RseStateOk(loaded) /\ loaded.flushed = q + rse.sof /\ loaded.total = q /\ loaded.sof = rse.sof
       /\ loaded.anchorAddr = rse.anchorAddr /\ loaded.anchorRegs = rse.anchorRegs
       /\ \A p \in 0 .. RseCapacity - 1 : loaded.gr[p] = rse.gr[p]
  <2> DEFINE t == Bsp(moved)
  <2>1. t = q + rse.sof /\ t \in Nat /\ t <= Bsp(moved) /\ RegsInWindow(RseAddr(moved, Bsp(moved)), 0) = Bsp(moved) - t
    BY <1>12, <1>13
  <2> HIDE DEF t
  <2>3. /\ RseStateOk(loaded) /\ loaded.flushed = t /\ loaded.total = moved.total /\ loaded.sof = moved.sof
        /\ loaded.anchorAddr = moved.anchorAddr /\ loaded.anchorRegs = moved.anchorRegs
        /\ \A p \in 0 .. RseCapacity - 1 :
                  loaded.gr[p] = IF t <= p /\ p < moved.flushed /\ p < Bsp(moved)
                              THEN backing[RegHome(p + Shift(moved))] ELSE moved.gr[p]
    BY <1>1, <1>11, <2>1, LoadIs
  <2>4. \A p \in 0 .. RseCapacity - 1 : ~(t <= p /\ p < moved.flushed)
    <3>1. RseCapacity \in Nat /\ q \in Nat /\ rse.sof \in Nat
      BY <1>1, <1>2, ConstantsAre
    <3>2. moved.flushed = q
      BY <1>11
    <3>3. t >= q /\ t \in Nat
      BY <2>1, <3>1
    <3> QED
      BY <3>1, <3>2, <3>3
  <2> QED
    BY <1>11, <2>1, <2>3, <2>4
<1> HIDE DEF loaded
<1>15. f.sol <= loaded.total /\ loaded.total - f.sol = b[k] /\ loaded.total - f.sol + f.sof < RseDepth
  BY <1>2, <1>14
<1>16. /\ RseStateOk(s) /\ s.sof = f.sof /\ s.sol = f.sol /\ s.total = b[k] /\ s.gr = loaded.gr /\ s.flushed = loaded.flushed
       /\ s.anchorAddr = loaded.anchorAddr /\ s.anchorRegs = loaded.anchorRegs
  BY <1>2, <1>14, <1>15, ReturnedIs
<1> HIDE DEF s
<1>17. /\ RseStateOk(s) /\ s.total = b[k] /\ s.sof = f.sof /\ s.sol = f.sol
       /\ s.flushed = q + rse.sof /\ s.anchorAddr = rse.anchorAddr /\ s.anchorRegs = rse.anchorRegs
       /\ \A p \in 0 .. RseCapacity - 1 : s.gr[p] = rse.gr[p]
  BY <1>14, <1>16
<1> QED
  BY <1>17, Zenon DEF s, loaded, moved, full, f, q

LEMMA LongjmpKeeps == RseInv /\ steps < RseSteps /\ steps' = steps + 1 /\ RseLongjmp => RseInv'
<1> SUFFICES ASSUME RseInv, steps < RseSteps, steps' = steps + 1, RseLongjmp PROVE RseInv'
  OBVIOUS
<1> DEFINE S(k) == Returned(RseLoad(MovBspstore([rse EXCEPT !.flushed = Bsp(rse)], RseAddr(rse, rse.total - Unwound(k))), 0),
                            calls[k])
<1>1. PICK k \in 1 .. Len(calls) :
        /\ \A j \in k .. Len(calls) : calls[j].sof # -1
        /\ Unwound(k) > 0
        /\ rse' = S(k) /\ backing' = StoredWords(rse, Bsp(rse)) /\ live' = {p \in live : p < S(k).total + S(k).sol}
        /\ calls' = SubSeq(calls, 1, k - 1) /\ UNCHANGED <<traps, records>>
  BY DEF RseLongjmp
<1> DEFINE s == S(k)
           L == {p \in live : p < s.total + s.sol}
           w == StoredWords(rse, Bsp(rse))
           c == SubSeq(calls, 1, k - 1)
<1>2. /\ RseStateOk(rse) /\ live \subseteq 0 .. RseDepth - 1 /\ backing \in [RseAddrs -> Nat] /\ Homed(rse, live, backing)
      /\ FramesOk(calls, traps, rse.total) /\ Len(traps) \in Nat
  BY RseInvIs, Zenon
<1>3. PICK b, m : FrameChain(b, m, calls, traps, rse.total)
  BY <1>2 DEF FramesOk
<1>4. /\ RseStateOk(s) /\ s.total = b[k] /\ s.sof = calls[k].sof /\ s.sol = calls[k].sol
      /\ s.flushed = b[k + 1] + rse.sof /\ s.anchorAddr = rse.anchorAddr /\ s.anchorRegs = rse.anchorRegs
      /\ \A p \in 0 .. RseCapacity - 1 : s.gr[p] = rse.gr[p]
  BY <1>1, <1>3, LongjmpIs
<1> HIDE DEF S, s
<1>5. /\ calls[k].sof \in Nat /\ calls[k].sol \in Nat /\ calls[k].sol <= calls[k].sof
      /\ b[k] \in Nat /\ b[k + 1] \in Nat /\ b[k + 1] = b[k] + calls[k].sol /\ b[k + 1] <= rse.total
      /\ c \in Seq(RseFrames) /\ FramesOk(c, traps, b[k]) /\ \A j \in 1 .. Len(traps) : traps[j].base <= b[k]
  BY <1>1, <1>3, FrameAt
<1>6. /\ rse.total \in Nat /\ rse.sof \in Nat /\ rse.flushed \in Nat /\ RseDepth \in Nat /\ RseDepth <= RseCapacity
      /\ rse.total + rse.sof < RseDepth /\ RseCapacity \in Nat
  BY <1>2, RseFields, ConstantsAre
<1>7. Bsp(rse) = rse.total + rse.sof /\ Bsp(rse) \in 0 .. RseDepth /\ Bsp(rse) \in Nat
  BY <1>6 DEF Bsp
<1>8. Stores(rse, Bsp(rse), w)
  BY <1>2, <1>7, StoredIs
<1>9. Boundary(rse, Bsp(rse), Bsp(rse))
  BY <1>6, <1>7 DEF Boundary
<1>10. \A p \in L : p \in live /\ p \in Nat /\ p < b[k + 1] /\ p < Bsp(rse) /\ p \in 0 .. RseCapacity - 1
  <2> SUFFICES ASSUME NEW p \in live, p < s.total + s.sol
               PROVE p \in live /\ p \in Nat /\ p < b[k + 1] /\ p < Bsp(rse) /\ p \in 0 .. RseCapacity - 1
    OBVIOUS
  <2>1. p \in Nat /\ p < b[k + 1] /\ p < RseDepth
    BY <1>2, <1>4, <1>5, <1>6
  <2> QED
    BY <1>5, <1>6, <1>7, <2>1
<1>11. \A p \in L : rse.anchorRegs <= p /\ p < Bsp(rse) => w[RegHome(p + Shift(rse))] = rse.gr[p]
  <2> HIDE DEF L, w
  <2> SUFFICES ASSUME NEW p \in L, rse.anchorRegs <= p, p < Bsp(rse) PROVE w[RegHome(p + Shift(rse))] = rse.gr[p]
    OBVIOUS
  <2>1. p \in live /\ p \in Nat /\ p < RseDepth
    BY <1>6, <1>7, <1>10
  <2> QED
    BY <1>2, <1>8, <1>9, <2>1, HomedAt
<1> HIDE DEF w
<1>12. Homed(s, L, w)
  <2>1. Shift(s) = Shift(rse)
    BY <1>4 DEF Shift
  <2> HIDE DEF L
  <2> SUFFICES ASSUME NEW p \in L, rse.anchorRegs <= p PROVE w[RegHome(p + Shift(rse))] = s.gr[p]
    BY <1>4, <2>1 DEF Homed
  <2> QED
    BY <1>4, <1>10, <1>11
<1>13. L \subseteq 0 .. s.total + s.sof - 1
  <2> HIDE DEF L
  <2> SUFFICES ASSUME NEW p \in L PROVE p \in 0 .. s.total + s.sof - 1
    OBVIOUS
  <2>1. p \in Nat /\ p < b[k] + calls[k].sol
    BY <1>5, <1>10
  <2> QED
    BY <1>4, <1>5, <2>1
<1>14. \A j \in 1 .. Len(traps) : /\ s.flushed >= rse.flushed \/ s.flushed >= traps[j].base
                                  /\ \A p \in traps[j].live : p \in L /\ s.gr[p] = rse.gr[p]
  <2> SUFFICES ASSUME NEW j \in 1 .. Len(traps)
               PROVE  s.flushed >= traps[j].base /\ \A p \in traps[j].live : p \in L /\ s.gr[p] = rse.gr[p]
    OBVIOUS
  <2>1. traps[j].base \in Nat
    BY RseInvIs, TrapFields
  <2>2. s.flushed >= traps[j].base
    <3>1. s.flushed = b[k + 1] + rse.sof /\ b[k + 1] >= b[k] /\ b[k] >= traps[j].base /\ b[k] \in Nat /\ b[k + 1] \in Nat
      BY <1>4, <1>5
    <3> QED
      BY <1>6, <2>1, <3>1
  <2>3. ASSUME NEW p \in traps[j].live PROVE p \in L /\ s.gr[p] = rse.gr[p]
    <3>1. p \in live /\ p \in Nat /\ p < traps[j].base
      BY LiveBelow
    <3>2. p < s.total + s.sol
      BY <1>4, <1>5, <2>1, <3>1
    <3>3. p \in L
      BY <3>1, <3>2
    <3> HIDE DEF L
    <3> QED
      BY <1>4, <1>10, <3>3
  <2> QED
    BY <2>2, <2>3
<1>15. c \in Seq(RseFrames) /\ FramesOk(c, traps, s.total)
  BY <1>4, <1>5
<1> HIDE DEF L, c
<1>16. RseInvOf(s, w, L, c, traps, records, steps + 1)
  BY <1>4, <1>7, <1>8, <1>12, <1>13, <1>14, <1>15, OrdinaryStep
<1>17. rse' = s /\ backing' = w /\ live' = L /\ calls' = c /\ UNCHANGED <<traps, records>>
  BY <1>1 DEF s, w, L, c
<1> QED
  BY <1>16, <1>17, InvOn

\* What a new interruption adds to the contexts.
LEMMA OneMore ==
  ASSUME NEW S, NEW q \in Seq(S), NEW x \in S
  PROVE  LET e == Append(q, x)
         IN  /\ e \in Seq(S) /\ Len(e) = Len(q) + 1 /\ Len(q) \in Nat /\ e[Len(e)] = x
             /\ (\A k \in 1 .. Len(q) : e[k] = q[k] /\ k \in 1 .. Len(e))
             /\ \A k \in 1 .. Len(e) : k = Len(e) \/ k \in 1 .. Len(q)
OBVIOUS

\* deliver_fault, and the handler's cover.
LEMMA InterruptKeeps == RseInv /\ steps < RseSteps /\ steps' = steps + 1 /\ RseInterrupt => RseInv'
<1> SUFFICES ASSUME RseInv, steps < RseSteps, steps' = steps + 1, RseInterrupt PROVE RseInv'
  OBVIOUS
<1> DEFINE t == [part |-> rse, live |-> live, store |-> -1, base |-> Bsp(rse)]
           ts == Append(traps, t)
           e == [sof |-> 0, sol |-> 0, sor |-> 0, rrb |-> 0]
           q == Base(rse, rse.sof)
           s == WithFrame(q, e)
           c == Append(calls, Mark)
           lt == Len(traps)
<1>1. /\ RseStateOk(rse) /\ live \subseteq 0 .. rse.total + rse.sof - 1 /\ backing \in [RseAddrs -> Nat]
      /\ calls \in Seq(RseFrames) /\ FramesOk(calls, traps, rse.total) /\ traps \in Seq(RseTrapSet) /\ lt \in Nat
      /\ Homed(rse, live, backing) /\ RseModes(rse, traps, steps) /\ RecordsOk(records, traps) /\ steps \in Nat
  BY RseInvIs, Zenon
<1>2. /\ rse \in RseStates /\ rse.total \in Nat /\ rse.sof \in Nat /\ rse.total + rse.sof < RseDepth /\ RseDepth \in Nat
      /\ Shift(rse) \in Nat
  BY <1>1, RseFields, ConstantsAre
<1>3. \A k \in 1 .. lt :
        /\ RseTrapOk(traps[k]) /\ Homed(traps[k].part, traps[k].live, backing)
        /\ Around(traps[k].part, traps[k].live, traps, k - 1)
        /\ Link(rse, traps[k]) /\ Carries(rse, live, traps[k])
  BY RseInvIs, Zenon
<1>4. Bsp(rse) = rse.total + rse.sof
  BY DEF Bsp
<1>5. /\ t \in RseTrapSet /\ t.part = rse /\ t.live = live /\ t.store = -1 /\ t.base = rse.total + rse.sof /\ t.base \in Nat
      /\ t.base >= rse.total
  <2>1. live \in SUBSET Nat
    BY <1>1, <1>2
  <2> QED
    BY <1>2, <1>4, <2>1 DEF RseTrapSet
<1>6. traps' = ts /\ rse' = s /\ calls' = c /\ UNCHANGED <<backing, live>> /\ records' = Preserved(lt + 1)
  BY DEF RseInterrupt
<1> HIDE DEF t
<1>7. RseTrapOk(t)
  <2>1. t.live \subseteq 0 .. t.base - 1
    BY <1>1, <1>2, <1>5
  <2> QED
    BY <1>1, <1>5, <2>1 DEF RseTrapOk
<1>8. /\ ts \in Seq(RseTrapSet) /\ Len(ts) = lt + 1 /\ ts[Len(ts)] = t
      /\ (\A k \in 1 .. lt : ts[k] = traps[k] /\ k \in 1 .. Len(ts))
      /\ \A k \in 1 .. Len(ts) : k = Len(ts) \/ k \in 1 .. lt
  BY <1>1, <1>5, OneMore
<1> HIDE DEF ts, lt
<1>9. /\ q \in RseStates /\ q.bof = q.total /\ q.total = rse.total + rse.sof /\ q.flushed = rse.flushed /\ q.gr = rse.gr
      /\ q.anchorAddr = rse.anchorAddr /\ q.anchorRegs = rse.anchorRegs
  BY <1>1, <1>2, BaseIs
<1>10. e.sof = 0 /\ e.sol = 0 /\ e.sor = 0 /\ e.rrb = 0
  OBVIOUS
<1> HIDE DEF q, e
<1>11. /\ s \in RseStates /\ s.sof = 0 /\ s.sol = 0 /\ s.sor = 0 /\ s.total = rse.total + rse.sof
       /\ s.bof = s.total /\ s.anchorAddr = rse.anchorAddr /\ s.anchorRegs = rse.anchorRegs
       /\ s.flushed = rse.flushed /\ s.gr = rse.gr
  BY <1>9, <1>10, WithFrameIs
<1> HIDE DEF s
<1>12. RseStateOk(s)
  BY <1>1, <1>2, <1>11, Reframed
<1>13. Shift(s) = Shift(rse)
  BY <1>11 DEF Shift
<1>14. Homed(s, live, backing)
  BY <1>1, <1>11, <1>13 DEF Homed
<1>15. TrapsOk(ts, backing)
  <2> SUFFICES ASSUME NEW k \in 1 .. Len(ts)
               PROVE  /\ RseTrapOk(ts[k]) /\ Homed(ts[k].part, ts[k].live, backing)
                      /\ Around(ts[k].part, ts[k].live, ts, k - 1)
    BY DEF TrapsOk
  <2>1. CASE k = Len(ts)
    <3>1. k - 1 = lt
      BY <1>1, <1>8, <2>1
    <3>2. Around(rse, live, ts, lt)
      BY <1>3, <1>8 DEF Around
    <3> QED
      BY <1>1, <1>5, <1>7, <1>8, <2>1, <3>1, <3>2
  <2>2. CASE k \in 1 .. lt
    <3>1. \A j \in 1 .. k - 1 : j \in 1 .. lt
      BY <1>1, <2>2
    <3>2. Around(traps[k].part, traps[k].live, ts, k - 1)
      BY <1>3, <1>8, <2>2, <3>1 DEF Around
    <3> QED
      BY <1>3, <1>8, <2>2, <3>2
  <2> QED
    BY <1>8, <2>1, <2>2
<1>16. Around(s, live, ts, Len(ts))
  <2> SUFFICES ASSUME NEW k \in 1 .. Len(ts) PROVE Link(s, ts[k]) /\ Carries(s, live, ts[k])
    BY DEF Around
  <2>1. CASE k = Len(ts)
    <3>1. Link(s, t)
      BY <1>2, <1>5, <1>13 DEF Link
    <3>2. Carries(s, live, t)
      BY <1>5, <1>11 DEF Carries
    <3> QED
      BY <1>8, <2>1, <3>1, <3>2
  <2>2. CASE k \in 1 .. lt
    <3>1. Link(s, traps[k])
      BY <1>3, <1>11, <1>13, <2>2 DEF Link
    <3>2. Carries(s, live, traps[k])
      BY <1>3, <1>11, <2>2 DEF Carries
    <3> QED
      BY <1>8, <2>2, <3>1, <3>2
  <2> QED
    BY <1>8, <2>1, <2>2
<1>17. FramesOk(c, ts, s.total)
  <2>1. t.part.total = rse.total /\ s.total = t.base
    BY <1>5, <1>11
  <2>2. FramesOk(c, ts, t.base)
    BY <1>1, <1>2, <1>5, <2>1, FramesTrap DEF ts
  <2> QED
    BY <2>1, <2>2
<1>18. c \in Seq(RseFrames)
  <2>1. Mark \in RseFrames
    BY DEF Mark, RseFrames
  <2> QED
    BY <1>1, <2>1, OneMore
<1> HIDE DEF c
<1>19. RseModes(s, ts, steps + 1)
  <2>1. RseModes(rse, ts, steps)
    <3>1. ASSUME InUser(rse, traps, steps) PROVE InUser(rse, ts, steps)
      <4>1. \A k \in 1 .. Len(ts) : ts[k].store = -1
        BY <1>5, <1>8, <3>1 DEF InUser, lt
      <4>2. Shift(rse) <= RseDepth * steps
        BY <3>1 DEF InUser
      <4>3. \A k \in 1 .. lt : Shift(traps[k].part) <= RseDepth * steps
        BY <3>1 DEF InUser, Among, lt
      <4>4. \A k \in 1 .. Len(ts) : Shift(ts[k].part) <= RseDepth * steps
        BY <1>5, <1>8, <4>2, <4>3
      <4> QED
        BY <4>1, <4>2, <4>4 DEF InUser, Among
    <3>2. ASSUME NEW m \in 1 .. lt, InKernel(rse, traps, steps, m) PROVE InKernel(rse, ts, steps, m)
      <4>1. m \in 1 .. Len(ts) /\ ts[m] = traps[m] /\ \A k \in 1 .. m : k \in 1 .. lt
        BY <1>1, <1>8
      <4>2. \A k \in 1 .. Len(ts) : k # m => ts[k].store = -1
        BY <1>5, <1>8, <3>2 DEF InKernel, lt
      <4>3. \A k \in m + 1 .. Len(ts) : ts[k].part.anchorAddr = RseKernel /\ ts[k].part.anchorRegs = rse.anchorRegs
        <5> SUFFICES ASSUME NEW k \in m + 1 .. Len(ts)
                     PROVE  ts[k].part.anchorAddr = RseKernel /\ ts[k].part.anchorRegs = rse.anchorRegs
          OBVIOUS
        <5>1. CASE k = Len(ts)
          BY <1>5, <1>8, <3>2, <5>1 DEF InKernel
        <5>2. CASE k \in 1 .. lt
          <6>1. k \in m + 1 .. lt
            BY <1>1, <5>2
          <6> QED
            BY <1>8, <3>2, <5>2, <6>1 DEF InKernel, lt
        <5>3. k \in 1 .. Len(ts)
          BY <1>1, <1>8
        <5> QED
          BY <1>8, <5>1, <5>2, <5>3
      <4>4. \A k \in 1 .. m : ts[k] = traps[k]
        BY <1>8, <4>1
      <4>5. Among(ts, m, steps)
        BY <3>2, <4>4 DEF InKernel, Among
      <4> HIDE DEF lt
      <4> QED
        BY <3>2, <4>1, <4>2, <4>3, <4>4, <4>5 DEF InKernel
    <3> QED
      BY <1>1, <1>8, <3>1, <3>2 DEF RseModes, lt
  <2>2. Len(ts) \in Nat /\ \A k \in 1 .. Len(ts) : RseTrapOk(ts[k])
    <3>1. \A k \in 1 .. lt : RseTrapOk(ts[k])
      BY <1>3, <1>8
    <3>2. Len(ts) \in Nat
      BY <1>1, <1>8 DEF lt
    <3> QED
      BY <1>7, <1>8, <3>1, <3>2
  <2> QED
    BY <1>1, <1>11, <1>12, <2>1, <2>2, ModesOn
<1>20. RecordsOk(Preserved(lt + 1), ts)
  <2>1. records \in Seq(RseRecordSet)
        /\ (\A i \in 1 .. Len(records) : records[i].id \in 1 .. lt /\ records[i].part = traps[records[i].id].part)
        /\ \A i, j \in 1 .. Len(records) : i < j => records[i].id < records[j].id
    BY <1>1 DEF RecordsOk, lt
  <2>2. \A i \in 1 .. Len(records) : records[i].id \in 1 .. Len(ts) /\ records[i].part = ts[records[i].id].part
    BY <1>8, <2>1
  <2>3. CASE ~(Len(records) < RseRecords)
    BY <2>1, <2>2, <2>3 DEF RecordsOk, Preserved
  <2>4. CASE Len(records) < RseRecords
    <3> DEFINE x == [id |-> lt + 1, part |-> rse]
               y == Append(records, x)
    <3>1. x \in RseRecordSet /\ x.id = lt + 1 /\ x.part = rse
      BY <1>1, <1>2 DEF RseRecordSet
    <3> HIDE DEF x
    <3>2. /\ y \in Seq(RseRecordSet) /\ Len(y) = Len(records) + 1 /\ Len(records) \in Nat /\ y[Len(y)] = x
          /\ (\A k \in 1 .. Len(records) : y[k] = records[k] /\ k \in 1 .. Len(y))
          /\ \A k \in 1 .. Len(y) : k = Len(y) \/ k \in 1 .. Len(records)
      BY <2>1, <3>1, OneMore
    <3>3. Preserved(lt + 1) = y
      BY <2>4 DEF Preserved, x
    <3> HIDE DEF y
    <3>4. \A i \in 1 .. Len(y) : y[i].id \in 1 .. Len(ts) /\ y[i].part = ts[y[i].id].part
      <4> SUFFICES ASSUME NEW i \in 1 .. Len(y) PROVE y[i].id \in 1 .. Len(ts) /\ y[i].part = ts[y[i].id].part
        OBVIOUS
      <4>1. CASE i = Len(y)
        BY <1>1, <1>5, <1>8, <3>1, <3>2, <4>1
      <4>2. CASE i \in 1 .. Len(records)
        BY <2>2, <3>2, <4>2
      <4> QED
        BY <3>2, <4>1, <4>2
    <3>5. \A i, j \in 1 .. Len(y) : i < j => y[i].id < y[j].id
      <4> SUFFICES ASSUME NEW i \in 1 .. Len(y), NEW j \in 1 .. Len(y), i < j PROVE y[i].id < y[j].id
        OBVIOUS
      <4>1. i \in 1 .. Len(records)
        BY <3>2
      <4>2. CASE j = Len(y)
        BY <1>1, <2>1, <3>1, <3>2, <4>1, <4>2
      <4>3. CASE j \in 1 .. Len(records)
        BY <2>1, <3>2, <4>1, <4>3
      <4> QED
        BY <3>2, <4>2, <4>3
    <3> QED
      BY <3>2, <3>3, <3>4, <3>5 DEF RecordsOk
  <2> QED
    BY <2>3, <2>4
<1>21. live \subseteq 0 .. s.total + s.sof - 1
  <2>1. s.total + s.sof = rse.total + rse.sof
    BY <1>2, <1>11
  <2>2. s.total \in Nat /\ s.sof \in Nat
    BY <1>2, <1>11
  <2> QED
    BY <1>1, <1>2, <2>1, <2>2
<1>22. steps + 1 \in 0 .. RseSteps
  BY <1>1, ConstantsAre
<1>23. RseInvOf(s, backing, live, c, ts, Preserved(lt + 1), steps + 1)
  BY <1>1, <1>8, <1>12, <1>14, <1>15, <1>16, <1>17, <1>18, <1>19, <1>20, <1>21, <1>22 DEF RseInvOf
<1> QED
  BY <1>6, <1>23, InvOn

\* mov ar.bspstore to another stack: the axis is anchored anew.
LEMMA ReanchorIs ==
  ASSUME NEW s, RseStateOk(s), NEW a \in Nat, ~IsRnatSlot(a),
         ~(a < RegHome(s.flushed + Shift(s)) /\ RegHome(s.flushed + Shift(s)) - a <= RseSpan),
         NEW d, d = IF Bsp(s) > s.flushed THEN s.flushed ELSE Bsp(s),
         RegRank(a) >= d, RegRank(a) - d <= RegRank(RseKernel)
  PROVE  LET r == MovBspstore(s, a)
         IN  /\ RseStateOk(r) /\ r.flushed = d /\ r.anchorRegs = d /\ r.anchorAddr = a
             /\ r.total = s.total /\ r.sof = s.sof /\ r.sol = s.sol /\ r.gr = s.gr
             /\ Shift(r) = RegRank(a) - d
<1> DEFINE r == MovBspstore(s, a)
           cur == RegHome(s.flushed + Shift(s))
<1>1. /\ s \in RseStates /\ s.total \in Nat /\ s.sof \in Nat /\ s.bof = s.total /\ s.flushed \in Nat /\ s.flushed < RseDepth
      /\ Shift(s) \in Nat /\ s.sol <= s.sof /\ s.sor <= s.sof /\ s.total + s.sof < RseDepth
      /\ Bsp(s) = s.total + s.sof
  BY RseFields DEF Bsp
<1>2. d \in Nat /\ d < RseDepth
  BY <1>1
<1>3. RseAddr(s, s.flushed) = cur
  BY <1>1, RseAddrIs
<1> HIDE DEF cur
<1>4. r = [s EXCEPT !.flushed = d, !.anchorAddr = a, !.anchorRegs = d]
  <2> DEFINE dirty == IF Bsp(s) > s.flushed THEN Bsp(s) - s.flushed ELSE 0
             c2 == RseAddr(s, s.flushed)
             newpos == AddrToRegs(s, a)
             back == s.total - (newpos - dirty)
             resident == a < c2 /\ c2 - a <= RseSpan /\ 0 < back /\ back < RseCapacity
  <2>1. Bsp(s) - dirty = d
    BY <1>1
  <2>2. ~resident
    BY <1>3 DEF cur
  <2>3. r = IF resident THEN [s EXCEPT !.total = newpos - dirty, !.flushed = newpos, !.bof = (@ - back) % RseCapacity]
              ELSE [s EXCEPT !.flushed = Bsp(s) - dirty, !.anchorAddr = a, !.anchorRegs = Bsp(s) - dirty]
    BY DEF MovBspstore, r
  <2> HIDE DEF newpos, dirty, back, resident
  <2>4. r = [s EXCEPT !.flushed = Bsp(s) - dirty, !.anchorAddr = a, !.anchorRegs = Bsp(s) - dirty]
    BY <2>2, <2>3
  <2> QED
    BY <2>1, <2>4
<1> HIDE DEF r
<1>5. /\ r \in RseStates /\ r.flushed = d /\ r.anchorRegs = d /\ r.anchorAddr = a /\ r.bof = s.bof
      /\ r.total = s.total /\ r.sof = s.sof /\ r.sol = s.sol /\ r.sor = s.sor /\ r.gr = s.gr
  BY <1>1, <1>2, <1>4 DEF RseStates
<1>6. Shift(r) = RegRank(a) - d
  BY <1>5 DEF Shift
<1>7. RegRank(a) \in Int
  BY RankIs
<1>8. Shift(r) >= 0 /\ Shift(r) <= RegRank(RseKernel)
  <2> HIDE DEF RegRank
  <2> QED
    BY <1>2, <1>6, <1>7
<1>9. RseStateOk(r)
  BY <1>1, <1>2, <1>5, <1>8 DEF RseStateOk
<1> QED
  BY <1>5, <1>6, <1>9 DEF r

\* The handler of the last interruption runs, in the frame it was started with.
LEMMA Innermost ==
  ASSUME RseInv, traps # <<>>, Last(calls) = Mark
  PROVE  /\ Len(traps) \in Nat /\ Len(traps) >= 1 /\ Len(traps) \in 1 .. Len(traps)
         /\ Last(traps) = traps[Len(traps)] /\ Last(traps).base = rse.total
         /\ Front(calls) \in Seq(RseFrames) /\ Front(traps) \in Seq(RseTrapSet) /\ Len(Front(traps)) = Len(traps) - 1
         /\ \A k \in 1 .. Len(traps) - 1 : Front(traps)[k] = traps[k]
         /\ FramesOk(Front(calls), Front(traps), Last(traps).part.total)
<1>1. calls \in Seq(RseFrames) /\ traps \in Seq(RseTrapSet) /\ FramesOk(calls, traps, rse.total)
  BY RseInvIs, Zenon
<1>2. Len(traps) \in Nat /\ Len(traps) >= 1 /\ Len(traps) \in 1 .. Len(traps) /\ Len(calls) \in Nat
  BY <1>1
<1>3. Len(calls) > 0
  <2>1. PICK b, m : FrameChain(b, m, calls, traps, rse.total)
    BY <1>1 DEF FramesOk
  <2>2. m[Len(traps)] \in 1 .. Len(calls)
    BY <1>2, <2>1 DEF FrameChain
  <2> QED
    BY <1>2, <2>2
<1>4. calls[Len(calls)].sof = -1
  BY DEF Last, Mark
<1>5. /\ traps[Len(traps)].base = rse.total
      /\ FramesOk(SubSeq(calls, 1, Len(calls) - 1), SubSeq(traps, 1, Len(traps) - 1), traps[Len(traps)].part.total)
  BY <1>1, <1>3, <1>4, FramesPop
<1>6. calls # <<>>
  BY <1>1, <1>3
<1>7. SubSeq(calls, 1, Len(calls) - 1) \in Seq(RseFrames)
  BY <1>1, <1>6, FrontIs
<1>8. SubSeq(traps, 1, Len(traps) - 1) \in Seq(RseTrapSet) /\ Len(SubSeq(traps, 1, Len(traps) - 1)) = Len(traps) - 1
      /\ \A k \in 1 .. Len(traps) - 1 : SubSeq(traps, 1, Len(traps) - 1)[k] = traps[k]
  BY <1>1, FrontIs
<1> QED
  BY <1>2, <1>5, <1>7, <1>8 DEF Last, Front

\* Where a handler put its interrupted stack aside is all a move of it changes.
LEMMA StoreSet ==
  ASSUME RseInv, NEW m \in 1 .. Len(traps), NEW v \in Int
  PROVE  LET ts == [traps EXCEPT ![m].store = v]
         IN  /\ ts \in Seq(RseTrapSet) /\ Len(ts) = Len(traps) /\ Len(traps) \in Nat
             /\ \A k \in 1 .. Len(traps) :
                  /\ ts[k].part = traps[k].part /\ ts[k].live = traps[k].live /\ ts[k].base = traps[k].base
                  /\ ts[k].store = IF k = m THEN v ELSE traps[k].store
             /\ TrapsOk(ts, backing) /\ RecordsOk(records, ts) /\ FramesOk(calls, ts, rse.total)
<1> DEFINE ts == [traps EXCEPT ![m].store = v]
<1>1. /\ traps \in Seq(RseTrapSet) /\ Len(traps) \in Nat /\ RecordsOk(records, traps) /\ FramesOk(calls, traps, rse.total)
  BY RseInvIs, Zenon
<1>2. \A k \in 1 .. Len(traps) : traps[k] \in RseTrapSet
  BY <1>1
<1> DEFINE u == [traps[m] EXCEPT !.store = v]
<1>3. u \in RseTrapSet /\ u.part = traps[m].part /\ u.live = traps[m].live /\ u.base = traps[m].base /\ u.store = v
  BY <1>2 DEF RseTrapSet
<1>4. ts = [traps EXCEPT ![m] = u]
  BY <1>1
<1> HIDE DEF u, ts
<1>5. ts \in Seq(RseTrapSet) /\ Len(ts) = Len(traps)
  BY <1>1, <1>3, <1>4
<1>6. \A k \in 1 .. Len(traps) : ts[k] = IF k = m THEN u ELSE traps[k]
  BY <1>1, <1>4
<1>7. \A k \in 1 .. Len(traps) :
        /\ ts[k].part = traps[k].part /\ ts[k].live = traps[k].live /\ ts[k].base = traps[k].base
        /\ ts[k].store = IF k = m THEN v ELSE traps[k].store
  BY <1>3, <1>6
<1>8. \A k \in 1 .. Len(traps) : ts[k] \in RseTrapSet
  BY <1>2, <1>3, <1>6
<1>9. TrapsOk(ts, backing)
  <2> SUFFICES ASSUME NEW k \in 1 .. Len(traps)
               PROVE  /\ RseTrapOk(ts[k]) /\ Homed(ts[k].part, ts[k].live, backing)
                      /\ Around(ts[k].part, ts[k].live, ts, k - 1)
    BY <1>5 DEF TrapsOk
  <2>1. /\ RseTrapOk(traps[k]) /\ Homed(traps[k].part, traps[k].live, backing)
        /\ Around(traps[k].part, traps[k].live, traps, k - 1)
    BY RseInvIs, Zenon
  <2>2. RseTrapOk(ts[k])
    BY <1>7, <1>8, <2>1 DEF RseTrapOk
  <2>3. \A j \in 1 .. k - 1 : j \in 1 .. Len(traps)
    BY <1>1
  <2>4. Around(ts[k].part, ts[k].live, ts, k - 1)
    <3> SUFFICES ASSUME NEW j \in 1 .. k - 1 PROVE Link(ts[k].part, ts[j]) /\ Carries(ts[k].part, ts[k].live, ts[j])
      BY DEF Around
    <3>1. Link(traps[k].part, traps[j]) /\ Carries(traps[k].part, traps[k].live, traps[j])
      BY <2>1 DEF Around
    <3> QED
      BY <1>7, <2>3, <3>1 DEF Link, Carries
  <2> QED
    BY <1>7, <2>1, <2>2, <2>4
<1>10. RecordsOk(records, ts)
  BY <1>1, <1>5, <1>7 DEF RecordsOk
<1>11. FramesOk(calls, ts, rse.total)
  BY <1>1, <1>5, <1>7, FramesSame
<1> QED
  BY <1>1, <1>5, <1>7, <1>9, <1>10, <1>11 DEF ts

\* The handler moves to the kernel's backing store.
LEMMA SwitchKeeps == RseInv /\ steps < RseSteps /\ steps' = steps + 1 /\ RseSwitch => RseInv'
<1> SUFFICES ASSUME RseInv, steps < RseSteps, steps' = steps + 1, RseSwitch PROVE RseInv'
  OBVIOUS
<1> DEFINE m == Len(traps)
           h == RegHome(rse.flushed + Shift(rse))
           ts == [traps EXCEPT ![m].store = h]
           d == IF Bsp(rse) > rse.flushed THEN rse.flushed ELSE Bsp(rse)
           s == MovBspstore(rse, RseKernel)
           K == RegRank(RseKernel)
           R == rse.flushed + Shift(rse)
<1>1. traps # <<>> /\ Last(calls) = Mark /\ \A k \in DOMAIN traps : traps[k].store = -1
  BY DEF RseSwitch
<1>2. /\ RseStateOk(rse) /\ live \subseteq 0 .. rse.total + rse.sof - 1 /\ backing \in [RseAddrs -> Nat]
      /\ calls \in Seq(RseFrames) /\ traps \in Seq(RseTrapSet)
      /\ RseModes(rse, traps, steps) /\ steps \in Nat
  BY RseInvIs, Zenon
<1>3. m \in Nat /\ m >= 1 /\ m \in 1 .. m /\ traps[m].base = rse.total
  BY <1>1, Innermost
<1>4. \A k \in 1 .. m :
        /\ RseTrapOk(traps[k]) /\ Link(rse, traps[k]) /\ Carries(rse, live, traps[k]) /\ traps[k].base <= rse.total
  BY RseInvIs, Zenon
<1>5. /\ rse.total \in Nat /\ rse.sof \in Nat /\ rse.flushed \in Nat /\ rse.flushed < RseDepth
      /\ Shift(rse) \in Nat /\ rse.total + rse.sof < RseDepth /\ Bsp(rse) = rse.total + rse.sof
  BY <1>2, RseFields DEF Bsp
<1>6. /\ RseDepth \in Nat /\ RseKernel \in Nat /\ ~IsRnatSlot(RseKernel) /\ K \in Nat /\ RegHome(K) = RseKernel /\ RseSpan \in Nat
  BY ConstantsAre
<1>7. RseDepth * steps \in Nat /\ RseDepth * (steps + 1) = RseDepth * steps + RseDepth
      /\ RseDepth * steps + 2 * RseDepth + RseSpan < K
  <2>1. steps \in Nat /\ steps <= RseSteps
    BY <1>2, ConstantsAre
  <2> QED
    BY <2>1, DriftGrows, Zenon
<1>8. InUser(rse, traps, steps)
  <2> SUFFICES ASSUME NEW j \in 1 .. m, InKernel(rse, traps, steps, j) PROVE FALSE
    BY <1>2 DEF RseModes
  <2>1. traps[j].store \in Nat
    BY DEF InKernel
  <2>2. traps[j].store = -1
    BY <1>1, <1>2
  <2> QED
    BY <2>1, <2>2
<1>9. Shift(rse) <= RseDepth * steps /\ \A k \in 1 .. m : Shift(traps[k].part) <= RseDepth * steps
  BY <1>8 DEF InUser, Among
<1> HIDE DEF K
<1>10. R \in Nat /\ R < K
  <2> DEFINE x == RseDepth * steps
             y == Shift(rse)
             z == rse.flushed
  <2>1. x \in Nat /\ y \in Nat /\ z \in Nat /\ y <= x /\ z < RseDepth /\ x + 2 * RseDepth + RseSpan < K
    BY <1>5, <1>7, <1>9
  <2> HIDE DEF x, y, z
  <2>2. z + y \in Nat /\ z + y < K
    BY <1>6, <2>1
  <2> QED
    BY <2>2 DEF y, z
<1>11. h <= RseKernel /\ h \in Int /\ ~IsRnatSlot(h) /\ RegRank(h) = R
  <2> HIDE DEF R
  <2>0. R \in Int /\ K \in Int /\ R <= K
    BY <1>6, <1>10
  <2>1. RegHome(K) - RegHome(R) \in K - R .. 2 * (K - R)
    BY <2>0, HomeOrder
  <2>2. RegHome(R) \in Int /\ RegHome(K) \in Int /\ ~IsRnatSlot(RegHome(R)) /\ RegRank(RegHome(R)) = R
    BY <1>6, <1>10, HomeIs
  <2>3. RegHome(R) <= RegHome(K)
    BY <1>6, <1>10, <2>1, <2>2
  <2> QED
    BY <1>6, <2>2, <2>3 DEF R
<1>12. h \in Nat
  <2>1. RseGroup - 1 \in Nat /\ RseGroup - 1 >= 1
    BY GroupIs
  <2>2. R \div (RseGroup - 1) \in Nat
    BY <1>10, <2>1
  <2> HIDE DEF R
  <2> QED
    BY <1>10, <2>2 DEF RegHome, R
<1>13. d \in Nat /\ d <= rse.flushed /\ d <= Bsp(rse) /\ d < RseDepth /\ (d = rse.flushed \/ d = Bsp(rse))
  BY <1>5
<1> HIDE DEF h, d
<1>14. ~(RseKernel < h /\ h - RseKernel <= RseSpan)
  BY <1>6, <1>11
<1>15. K >= d /\ K - d <= K
  BY <1>6, <1>7, <1>13
<1>16. /\ RseStateOk(s) /\ s.flushed = d /\ s.anchorRegs = d /\ s.anchorAddr = RseKernel
       /\ s.total = rse.total /\ s.sof = rse.sof /\ s.gr = rse.gr /\ Shift(s) = K - d
  BY <1>2, <1>6, <1>14, <1>15, ReanchorIs DEF K, h, d
<1>17. /\ ts \in Seq(RseTrapSet) /\ Len(ts) = m
       /\ \A k \in 1 .. m :
            /\ ts[k].part = traps[k].part /\ ts[k].live = traps[k].live /\ ts[k].base = traps[k].base
            /\ ts[k].store = IF k = m THEN h ELSE traps[k].store
       /\ TrapsOk(ts, backing) /\ RecordsOk(records, ts) /\ FramesOk(calls, ts, rse.total)
  BY <1>3, <1>11, StoreSet
<1>18. rse' = s /\ traps' = ts /\ UNCHANGED <<backing, live, calls, records>>
  <2>1. RseAddr(rse, rse.flushed) = h
    <3>1. RseStateOk(rse) /\ rse.flushed \in Int
      BY <1>2, <1>5
    <3>2. RseAddr(rse, rse.flushed) = RegHome(rse.flushed + Shift(rse))
      BY <3>1, RseAddrIs
    <3> QED
      BY <3>2, Zenon DEF h
  <2> QED
    BY <2>1 DEF RseSwitch
<1> HIDE DEF s, ts
<1>19. Homed(s, live, backing)
  <2>1. \A p \in live : p \in Nat
    BY <1>2, <1>5
  <2> QED
    BY <1>13, <1>16, <2>1 DEF Homed
<1>20. \A k \in 1 .. m : /\ Shift(traps[k].part) \in Nat /\ traps[k].base \in Nat /\ traps[k].base < RseDepth
                         /\ Shift(rse) >= Shift(traps[k].part)
                         /\ Shift(rse) = Shift(traps[k].part) \/ R >= traps[k].base + Shift(traps[k].part)
  <2> SUFFICES ASSUME NEW k \in 1 .. m
               PROVE  /\ Shift(traps[k].part) \in Nat /\ traps[k].base \in Nat /\ traps[k].base < RseDepth
                      /\ Shift(rse) >= Shift(traps[k].part)
                      /\ Shift(rse) = Shift(traps[k].part) \/ R >= traps[k].base + Shift(traps[k].part)
    OBVIOUS
  <2>1. RseTrapOk(traps[k]) /\ Link(rse, traps[k])
    BY <1>4
  <2>2. RseStateOk(traps[k].part) /\ traps[k].base \in Nat /\ traps[k].base < RseDepth
    BY <2>1, TrapFields
  <2>3. Shift(traps[k].part) \in Nat
    BY <2>2, RseFields
  <2> QED
    BY <2>1, <2>2, <2>3 DEF Link
<1>21. Around(s, live, ts, Len(ts))
  <2> SUFFICES ASSUME NEW k \in 1 .. m PROVE Link(s, ts[k]) /\ Carries(s, live, ts[k])
    BY <1>17 DEF Around
  <2>1. Carries(s, live, ts[k])
    BY <1>4, <1>16, <1>17 DEF Carries
  <2> DEFINE sh == Shift(traps[k].part)
             bk == traps[k].base
  <2>2. sh \in Nat /\ bk \in Nat /\ bk < RseDepth /\ sh <= RseDepth * steps
    BY <1>9, <1>20
  <2> HIDE DEF sh, bk
  <2>3. K - d >= sh /\ d + (K - d) >= bk + sh
    BY <1>6, <1>7, <1>13, <2>2
  <2>4. Link(s, ts[k])
    BY <1>16, <1>17, <2>3 DEF Link, sh, bk
  <2> QED
    BY <2>1, <2>4
<1>22. InKernel(s, ts, steps + 1, m)
  <2> DEFINE low == IF d < rse.total THEN d ELSE rse.total
  <2>1. ts[m].store = h /\ ts[m].base = rse.total /\ \A k \in 1 .. Len(ts) : k # m => ts[k].store = -1
    BY <1>1, <1>2, <1>3, <1>17
  <2>2. Low(s, ts[m]) = low /\ low \in Nat /\ low <= d /\ low <= rse.total /\ (low = d \/ low = rse.total)
    BY <1>5, <1>13, <1>16, <2>1 DEF Low
  <2> HIDE DEF low, R
  <2>3. Resumes(s, ts[m]) = R - low
    BY <1>11, <2>1, <2>2 DEF Resumes
  <2>4. R - low >= Shift(rse) /\ R - low <= RseDepth * (steps + 1)
    <3> DEFINE x == RseDepth * steps
               y == Shift(rse)
               z == rse.flushed
    <3>1. x \in Nat /\ y \in Nat /\ z \in Nat /\ y <= x /\ z < RseDepth /\ low <= z /\ R = z + y
      BY <1>5, <1>7, <1>9, <1>13, <2>2 DEF R
    <3> HIDE DEF x, y, z
    <3>2. R - low >= y /\ R - low <= x + RseDepth
      BY <1>6, <2>2, <3>1
    <3> QED
      BY <1>7, <3>2 DEF x, y
  <2>5. Among(ts, m, steps + 1)
    <3> SUFFICES ASSUME NEW k \in 1 .. m PROVE Shift(ts[k].part) <= RseDepth * (steps + 1)
      BY DEF Among
    <3>1. Shift(traps[k].part) <= RseDepth * steps /\ Shift(traps[k].part) \in Nat /\ ts[k].part = traps[k].part
      BY <1>9, <1>17, <1>20
    <3> QED
      BY <1>6, <1>7, <3>1
  <2>6. \A k \in 1 .. m : /\ R - low >= Shift(ts[k].part)
                          /\ \/ R - low = Shift(ts[k].part)
                             \/ RegRank(ts[m].store) >= ts[k].base + Shift(ts[k].part)
    <3> SUFFICES ASSUME NEW k \in 1 .. m
                 PROVE  /\ R - low >= Shift(traps[k].part)
                        /\ R - low = Shift(traps[k].part) \/ R >= traps[k].base + Shift(traps[k].part)
      BY <1>11, <1>17, <2>1
    <3> DEFINE sh == Shift(traps[k].part)
               bk == traps[k].base
    <3>1. /\ sh \in Nat /\ bk \in Nat /\ bk <= rse.total /\ Shift(rse) >= sh
          /\ Shift(rse) = sh \/ R >= bk + sh
      BY <1>4, <1>20
    <3> HIDE DEF sh, bk
    <3>2. CASE R >= bk + sh
      BY <1>5, <1>10, <2>2, <2>4, <3>1, <3>2 DEF sh, bk
    <3>3. CASE Shift(rse) = sh /\ low = rse.flushed
      BY <1>5, <2>4, <3>1, <3>3 DEF R, sh, bk
    <3>4. CASE Shift(rse) = sh /\ low # rse.flushed
      <4>1. rse.flushed >= rse.total
        BY <1>5, <1>13, <2>2, <3>4
      <4>2. R >= bk + sh
        BY <1>5, <3>1, <3>4, <4>1 DEF R
      <4> QED
        BY <2>4, <1>5, <1>10, <2>2, <3>1, <4>2 DEF sh, bk
    <3> QED
      BY <3>1, <3>2, <3>3, <3>4
  <2>7. R - low >= 0
    BY <1>5, <1>10, <2>2, <2>4
  <2>8. m + 1 .. Len(ts) = {}
    BY <1>3, <1>17
  <2> QED
    BY <1>3, <1>11, <1>12, <1>16, <1>17, <2>1, <2>3, <2>4, <2>5, <2>6, <2>7, <2>8 DEF InKernel
<1>23. steps + 1 \in 0 .. RseSteps
  BY <1>2, ConstantsAre
<1>24. RseModes(s, ts, steps + 1)
  BY <1>3, <1>17, <1>22 DEF RseModes
<1>25. live \subseteq 0 .. s.total + s.sof - 1 /\ FramesOk(calls, ts, s.total)
  BY <1>2, <1>16, <1>17
<1>26. RseInvOf(s, backing, live, calls, ts, records, steps + 1)
  BY <1>2, <1>16, <1>17, <1>19, <1>21, <1>23, <1>24, <1>25 DEF RseInvOf
<1> QED
  BY <1>18, <1>26, InvOn

\* A handler that has its stack aside is the innermost one.
LEMMA SwitchedIs ==
  ASSUME RseInv, traps # <<>>, traps[Len(traps)].store # -1
  PROVE  InKernel(rse, traps, steps, Len(traps))
<1>1. traps \in Seq(RseTrapSet) /\ Len(traps) \in Nat /\ RseModes(rse, traps, steps)
  BY RseInvIs, Zenon
<1>2. Len(traps) \in 1 .. Len(traps)
  BY <1>1
<1>3. ~InUser(rse, traps, steps)
  BY <1>2 DEF InUser
<1>4. PICK j \in 1 .. Len(traps) : InKernel(rse, traps, steps, j)
  BY <1>1, <1>3 DEF RseModes
<1>5. j = Len(traps)
  BY <1>2, <1>4 DEF InKernel
<1> QED
  BY <1>4, <1>5

\* The words from the kernel's first to those of the frame: what loadrs is asked for.
LEMMA CarriedOver ==
  ASSUME NEW s, RseStateOk(s), s.anchorAddr = RseKernel, NEW top \in Nat
  PROVE  LET a == RegHome(top + Shift(s))
         IN  RegsInWindow(a, a - RseKernel) = IF s.anchorRegs < top THEN top - s.anchorRegs ELSE 0
<1> DEFINE K == RegRank(RseKernel)
           g == top + Shift(s)
           a == RegHome(g)
           d == s.anchorRegs
<1>1. K \in Nat /\ RegHome(K) = RseKernel /\ RseKernel \in Nat
  BY ConstantsAre
<1>2. d \in Nat /\ Shift(s) = K - d
  BY RseFields DEF Shift
<1> HIDE DEF K
<1>3. g = K + top - d /\ g \in Int
  BY <1>1, <1>2
<1> HIDE DEF g, d
<1>4. a \in Int /\ RegRank(a) = g /\ a - (a - RseKernel) = RseKernel
  <2>1. a \in Int /\ RegRank(a) = g
    BY <1>3, HomeIs
  <2> HIDE DEF a
  <2> QED
    BY <1>1, <2>1
<1>5. RegsInWindow(a, a - RseKernel) = RegsBetween(RseKernel, a - 1)
  <2> HIDE DEF a
  <2> QED
    BY <1>4 DEF RegsInWindow
<1>6. CASE d < top
  <2>1. K \in Int /\ K <= g
    BY <1>1, <1>2, <1>3, <1>6
  <2>2. a - RseKernel \in g - K .. 2 * (g - K)
    BY <1>1, <1>3, <2>1, HomeOrder
  <2> HIDE DEF a
  <2>3. RseKernel <= a - 1 + 1 /\ a - 1 \in Int /\ RseKernel \in Int /\ a - 1 + 1 = a
    BY <1>1, <1>3, <1>4, <2>1, <2>2
  <2>4. RegsBetween(RseKernel, a - 1) = RegRank(a) - RegRank(RseKernel)
    BY <2>3, Counted
  <2>5. RegsBetween(RseKernel, a - 1) = g - K
    BY <1>4, <2>4 DEF K
  <2>6. g - K = top - d
    BY <1>1, <1>2, <1>3
  <2> QED
    BY <1>5, <1>6, <2>5, <2>6 DEF a, g, d
<1>7. CASE ~(d < top)
  <2>1. K \in Int /\ g <= K
    BY <1>1, <1>2, <1>3, <1>7
  <2>2. RseKernel - a \in K - g .. 2 * (K - g)
    BY <1>1, <1>3, <2>1, HomeOrder
  <2> HIDE DEF a
  <2>3. a <= RseKernel
    BY <1>1, <1>3, <1>4, <2>1, <2>2
  <2>4. {x \in RseKernel .. a - 1 : ~IsRnatSlot(x)} = {}
    BY <1>1, <1>4, <2>3
  <2>5. RegsBetween(RseKernel, a - 1) = 0
    BY <2>4, FS_EmptySet DEF RegsBetween
  <2> QED
    BY <1>5, <1>7, <2>5 DEF a, g, d
<1> QED
  BY <1>6, <1>7

LEMMA EmptyFrame ==
  ASSUME NEW s, RseStateOk(s)
  PROVE  LET z == [s EXCEPT !.sof = 0, !.sol = 0, !.sor = 0, !.rrb = 0]
         IN  /\ RseStateOk(z) /\ z.total = s.total /\ z.sof = 0 /\ z.flushed = s.flushed
             /\ z.anchorAddr = s.anchorAddr /\ z.anchorRegs = s.anchorRegs /\ z.gr = s.gr
<1> DEFINE z == [s EXCEPT !.sof = 0, !.sol = 0, !.sor = 0, !.rrb = 0]
<1>1. /\ s \in RseStates /\ s.total \in Nat /\ s.bof = s.total /\ s.total + s.sof < RseDepth /\ s.sof \in Nat
      /\ RseDepth \in Nat
  BY RseFields, ConstantsAre
<1>2. /\ z \in RseStates /\ z.total = s.total /\ z.bof = z.total /\ z.sof = 0 /\ z.sol = 0 /\ z.sor = 0 /\ z.flushed = s.flushed
      /\ z.anchorAddr = s.anchorAddr /\ z.anchorRegs = s.anchorRegs /\ z.gr = s.gr
  BY <1>1 DEF RseStates
<1> HIDE DEF z
<1>3. z.sol <= z.sof /\ z.sor <= z.sof /\ z.total + z.sof < RseDepth
  BY <1>1, <1>2
<1>4. RseStateOk(z)
  BY <1>2, <1>3, Reframed
<1> QED
  BY <1>2, <1>4 DEF z

\* ... and back, with what it carried over read from the kernel's store.
LEMMA BackIs ==
  ASSUME RseInv, steps < RseSteps, traps # <<>>, Last(calls) = Mark, NEW m, m = Len(traps), traps[m].store # -1,
         NEW z, RseStateOk(z), z.total = rse.total, z.sof = 0, z.flushed = rse.flushed,
         z.anchorAddr = rse.anchorAddr, z.anchorRegs = rse.anchorRegs, z.gr = rse.gr
  PROVE  LET s == MovBspstore(RseLoad(z, RseAddr(z, Bsp(z)) - RseKernel), traps[m].store)
         IN  /\ RseStateOk(s) /\ s.total = rse.total /\ s.sof = 0 /\ s.flushed = Low(rse, traps[m])
             /\ s.anchorRegs = s.flushed /\ Shift(s) = Resumes(rse, traps[m])
             /\ \A p \in live : p < rse.total => s.gr[p] = rse.gr[p]
<1> DEFINE t == traps[m]
           low == Low(rse, t)
           a == t.store
           up == Resumes(rse, t)
           K == RegRank(RseKernel)
           w == RseAddr(z, Bsp(z)) - RseKernel
           r == RseLoad(z, w)
           s == MovBspstore(r, a)
<1>1. /\ RseStateOk(rse) /\ backing \in [RseAddrs -> Nat] /\ Homed(rse, live, backing) /\ steps \in Nat
      /\ live \subseteq 0 .. RseDepth - 1
  BY RseInvIs, Zenon
<1>2. /\ rse \in RseStates /\ rse.total \in Nat /\ rse.bof = rse.total /\ rse.flushed \in Nat /\ rse.anchorRegs \in Nat
      /\ rse.total + rse.sof < RseDepth /\ rse.sof \in Nat /\ rse.anchorRegs < RseDepth
  BY <1>1, RseFields
<1>3. /\ RseDepth \in Nat /\ RseDepth <= RseCapacity /\ RseCapacity \in Nat /\ K \in Nat /\ RseSpan \in Nat /\ RseSteps \in Nat
  BY ConstantsAre
<1>4. m \in 1 .. Len(traps) /\ t.base = rse.total
  BY Innermost
<1>5. RseTrapOk(t)
  BY <1>4, RseInvIs
<1>6. InKernel(rse, traps, steps, m)
  BY SwitchedIs
<1>7. a \in Nat /\ ~IsRnatSlot(a) /\ rse.anchorAddr = RseKernel /\ up >= 0 /\ up <= RseDepth * steps
  BY <1>6 DEF InKernel
<1>8. /\ RegRank(a) \in Int /\ up \in Int /\ low \in Nat /\ low <= rse.anchorRegs /\ low <= rse.total
      /\ RegRank(a) = low + up
  BY <1>1, <1>4, <1>5, ResumesIs
<1>9. low = IF rse.anchorRegs < rse.total THEN rse.anchorRegs ELSE rse.total
  BY <1>4 DEF Low
<1>10. RseDepth * steps \in Nat /\ RseDepth * steps + 2 * RseDepth + RseSpan < K
  <2>1. steps <= RseSteps
    BY <1>1, <1>3
  <2> QED
    BY <1>1, <2>1, DriftGrows, Zenon
<1>11. z.total = rse.total /\ z.sof = 0 /\ z.flushed = rse.flushed /\ z.anchorAddr = rse.anchorAddr
       /\ z.anchorRegs = rse.anchorRegs /\ z.gr = rse.gr
  OBVIOUS
<1>12. RseStateOk(z)
  OBVIOUS
<1>13. Bsp(z) = rse.total /\ Shift(z) = Shift(rse)
  BY <1>2, <1>11 DEF Bsp, Shift
<1>14. RseAddr(z, Bsp(z)) = RegHome(Bsp(z) + Shift(z))
  <2>1. Bsp(z) \in Int
    BY <1>2, <1>13
  <2> QED
    BY <1>12, <2>1, RseAddrIs
<1>15. RegsInWindow(RseAddr(z, Bsp(z)), w) = Bsp(z) - low
  <2> DEFINE x == RegHome(Bsp(z) + Shift(z))
  <2>1. Bsp(z) \in Nat /\ z.anchorAddr = RseKernel
    BY <1>2, <1>7, <1>11, <1>13
  <2>2. RegsInWindow(x, x - RseKernel) = IF z.anchorRegs < Bsp(z) THEN Bsp(z) - z.anchorRegs ELSE 0
    BY <1>12, <2>1, CarriedOver
  <2>3. RegsInWindow(RseAddr(z, Bsp(z)), w) = RegsInWindow(x, x - RseKernel)
    BY <1>14, Zenon
  <2> HIDE DEF x, low
  <2>4. RegsInWindow(x, x - RseKernel) = Bsp(z) - low
    BY <1>2, <1>9, <1>11, <1>13, <2>2
  <2> QED
    BY <2>3, <2>4, Zenon
<1> HIDE DEF s, w, low, up, t
<1>16. low \in Nat /\ low <= Bsp(z)
  BY <1>8, <1>13
<1>17. /\ RseStateOk(r) /\ r.flushed = low /\ r.total = z.total /\ r.sof = z.sof /\ r.sol = z.sol
       /\ r.anchorAddr = z.anchorAddr /\ r.anchorRegs = z.anchorRegs
       /\ \A p \in 0 .. RseCapacity - 1 :
                  r.gr[p] = IF low <= p /\ p < z.flushed /\ p < Bsp(z)
                              THEN backing[RegHome(p + Shift(z))] ELSE z.gr[p]
  <2>1. backing \in [RseAddrs -> Nat]
    BY <1>1
  <2> QED
    BY <1>12, <1>15, <1>16, <2>1, LoadIs
<1> HIDE DEF r, a, K
<1>18. \A p \in live : p < rse.total => r.gr[p] = rse.gr[p]
  <2> SUFFICES ASSUME NEW p \in live, p < rse.total PROVE r.gr[p] = rse.gr[p]
    OBVIOUS
  <2>1. p \in Nat /\ p \in 0 .. RseCapacity - 1
    BY <1>1, <1>3
  <2>2. CASE low <= p /\ p < rse.flushed
    <3>1. rse.anchorRegs <= p
      BY <1>2, <1>8, <1>9, <2>1, <2>2
    <3>2. backing[RegHome(p + Shift(rse))] = rse.gr[p]
      BY <1>1, <2>2, <3>1 DEF Homed
    <3> QED
      BY <1>11, <1>13, <1>17, <2>1, <2>2, <3>2
  <2>3. CASE ~(low <= p /\ p < rse.flushed)
    BY <1>11, <1>17, <2>1, <2>3
  <2> QED
    BY <2>2, <2>3
<1>19. Shift(r) = K - rse.anchorRegs
  BY <1>7, <1>11, <1>17 DEF Shift, K
<1>20. RegHome(r.flushed + Shift(r)) - a > RseSpan
  <2> DEFINE x == low + up
             y == low + (K - rse.anchorRegs)
  <2>1. x \in Int /\ y \in Int /\ x <= y /\ y - x > RseSpan /\ y - x \in Int
    <3>1. PICK v \in Nat : v = rse.anchorRegs
      BY <1>2
    <3>2. PICK g \in Nat : g = RseDepth * steps
      BY <1>10
    <3>3. v < RseDepth /\ up <= g /\ up >= 0 /\ up \in Int /\ g + 2 * RseDepth + RseSpan < K
      BY <1>2, <1>7, <1>8, <1>10, <3>1, <3>2
    <3>4. /\ low + up \in Int /\ low + (K - v) \in Int /\ low + up <= low + (K - v)
          /\ low + (K - v) - (low + up) > RseSpan /\ low + (K - v) - (low + up) \in Int
      BY <1>3, <1>8, <3>3
    <3>5. x = low + up /\ y = low + (K - v)
      BY <3>1
    <3> HIDE DEF x, y
    <3>6. x \in Int /\ y \in Int
      BY <3>4, <3>5, Zenon
    <3> QED
      BY <1>3, <1>8, <3>3, <3>5, <3>6
  <2>2. RegHome(x) = a
    BY <1>7, <1>8, RankIs
  <2>3. RegHome(r.flushed + Shift(r)) = RegHome(y)
    BY <1>17, <1>19
  <2> HIDE DEF x, y
  <2>4. RegHome(y) - RegHome(x) \in y - x .. 2 * (y - x)
    BY <2>1, HomeOrder
  <2>5. RegHome(y) - a > RseSpan
    BY <1>3, <2>1, <2>2, <2>4
  <2> QED
    BY <2>3, <2>5
<1>21. ~(a < RegHome(r.flushed + Shift(r)) /\ RegHome(r.flushed + Shift(r)) - a <= RseSpan)
  <2> DEFINE x == RegHome(r.flushed + Shift(r))
  <2>1. x \in Int
    <3>1. Shift(r) \in Int /\ r.flushed \in Int
      BY <1>17, RseFields
    <3>2. r.flushed + Shift(r) \in Int
      BY <3>1
    <3> QED
      BY <3>2, HomeIs
  <2>2. x - a > RseSpan
    BY <1>20
  <2> HIDE DEF x
  <2>3. a \in Nat /\ RseSpan \in Nat
    BY <1>3, <1>7
  <2>4. ~(x - a <= RseSpan)
    BY <2>1, <2>2, <2>3
  <2> QED
    BY <2>4 DEF x
<1>22. low = IF Bsp(r) > r.flushed THEN r.flushed ELSE Bsp(r)
  <2>1. Bsp(r) = rse.total /\ r.flushed = low
    BY <1>2, <1>11, <1>17 DEF Bsp
  <2> QED
    BY <1>2, <1>8, <2>1
<1>23. RegRank(a) >= low /\ RegRank(a) - low <= RegRank(RseKernel) /\ RegRank(a) - low = up
  <2>1. RegRank(a) >= low /\ RegRank(a) - low = up
    BY <1>7, <1>8
  <2>2. up <= K
    BY <1>3, <1>7, <1>8, <1>10
  <2> QED
    BY <2>1, <2>2 DEF K
<1>24. s = MovBspstore(r, a)
  BY DEF s
<1>25. /\ RseStateOk(s) /\ s.flushed = low /\ s.anchorRegs = low
       /\ s.total = r.total /\ s.sof = r.sof /\ s.gr = r.gr /\ Shift(s) = RegRank(a) - low
  BY <1>7, <1>17, <1>21, <1>22, <1>23, <1>24, ReanchorIs
<1>26. /\ RseStateOk(s) /\ s.total = rse.total /\ s.sof = 0 /\ s.flushed = low /\ s.anchorRegs = s.flushed /\ Shift(s) = up
       /\ \A p \in live : p < rse.total => s.gr[p] = rse.gr[p]
  BY <1>11, <1>17, <1>18, <1>23, <1>25
<1> QED
  BY <1>26, Zenon DEF s, r, a, w, low, up, t

LEMMA SwitchBackKeeps == RseInv /\ steps < RseSteps /\ steps' = steps + 1 /\ RseSwitchBack => RseInv'
<1> SUFFICES ASSUME RseInv, steps < RseSteps, steps' = steps + 1, RseSwitchBack PROVE RseInv'
  OBVIOUS
<1> DEFINE m == Len(traps)
           ts == [traps EXCEPT ![m].store = -1]
           z == [rse EXCEPT !.sof = 0, !.sol = 0, !.sor = 0, !.rrb = 0]
           s == MovBspstore(RseLoad(z, RseAddr(z, Bsp(z)) - RseKernel), traps[m].store)
           L == {p \in live : p < rse.total}
           low == Low(rse, traps[m])
           up == Resumes(rse, traps[m])
<1>1. traps # <<>> /\ Last(calls) = Mark /\ traps[m].store # -1
  BY DEF RseSwitchBack, Last
<1>2. /\ RseStateOk(rse) /\ live \subseteq 0 .. RseDepth - 1 /\ backing \in [RseAddrs -> Nat]
      /\ calls \in Seq(RseFrames) /\ traps \in Seq(RseTrapSet) /\ steps \in Nat /\ rse \in RseStates
  BY RseInvIs, RseFields
<1>3. m \in Nat /\ m \in 1 .. m
  BY <1>1, Innermost
<1>4. \A k \in 1 .. m :
        /\ RseTrapOk(traps[k]) /\ Link(rse, traps[k]) /\ Carries(rse, live, traps[k]) /\ traps[k].base <= rse.total
  BY RseInvIs, Zenon
<1>5. /\ RseStateOk(s) /\ s.total = rse.total /\ s.sof = 0 /\ s.flushed = low /\ s.anchorRegs = s.flushed /\ Shift(s) = up
      /\ \A p \in live : p < rse.total => s.gr[p] = rse.gr[p]
  <2>1. /\ RseStateOk(z) /\ z.total = rse.total /\ z.sof = 0 /\ z.flushed = rse.flushed
        /\ z.anchorAddr = rse.anchorAddr /\ z.anchorRegs = rse.anchorRegs /\ z.gr = rse.gr
    BY <1>2, EmptyFrame
  <2> HIDE DEF z
  <2> QED
    BY <1>1, <2>1, BackIs
<1>6. rse' = s /\ traps' = ts /\ UNCHANGED <<backing, calls, records>> /\ live' = L
  <2>1. z.total = rse.total
    BY <1>2 DEF RseStates
  <2> QED
    BY <2>1 DEF RseSwitchBack, Last
<1> HIDE DEF s, ts
<1>7. InKernel(rse, traps, steps, m)
  BY <1>1, SwitchedIs
<1>8. /\ ts \in Seq(RseTrapSet) /\ Len(ts) = m
      /\ \A k \in 1 .. m :
           /\ ts[k].part = traps[k].part /\ ts[k].live = traps[k].live /\ ts[k].base = traps[k].base
           /\ ts[k].store = IF k = m THEN -1 ELSE traps[k].store
      /\ TrapsOk(ts, backing) /\ RecordsOk(records, ts) /\ FramesOk(calls, ts, rse.total)
  <2>1. -1 \in Int
    OBVIOUS
  <2> QED
    BY <1>3, <2>1, StoreSet DEF ts
<1>9. Homed(s, L, backing)
  <2> SUFFICES ASSUME NEW p \in L, s.anchorRegs <= p, p < s.anchorRegs PROVE FALSE
    BY <1>5 DEF Homed
  <2>1. p \in Nat /\ s.anchorRegs \in Nat
    BY <1>2, <1>5, RseFields
  <2> QED
    BY <2>1
<1>10. /\ low \in Nat /\ RegRank(traps[m].store) = low + up
  BY <1>2, <1>3, <1>4, ResumesIs
<1>11. Around(s, L, ts, Len(ts))
  <2> SUFFICES ASSUME NEW k \in 1 .. m PROVE Link(s, ts[k]) /\ Carries(s, L, ts[k])
    BY <1>8 DEF Around
  <2>1. /\ up >= Shift(traps[k].part)
        /\ up = Shift(traps[k].part) \/ RegRank(traps[m].store) >= traps[k].base + Shift(traps[k].part)
    BY <1>7 DEF InKernel
  <2>2. Link(s, ts[k])
    BY <1>5, <1>8, <1>10, <2>1 DEF Link
  <2>3. ASSUME NEW p \in traps[k].live PROVE p \in L /\ s.gr[p] = traps[k].part.gr[p]
    <3>1. p \in live /\ p < rse.total
      BY LiveBelow
    <3>2. s.gr[p] = rse.gr[p]
      BY <1>5, <3>1
    <3> QED
      BY <1>4, <3>1, <3>2 DEF Carries
  <2>4. Carries(s, L, ts[k])
    BY <1>8, <2>3 DEF Carries
  <2> QED
    BY <2>2, <2>4
<1>12. InUser(s, ts, steps + 1)
  <2>1. \A k \in 1 .. Len(ts) : ts[k].store = -1
    BY <1>7, <1>8 DEF InKernel
  <2>2. RseDepth * steps \in Nat /\ RseDepth * (steps + 1) = RseDepth * steps + RseDepth /\ RseDepth \in Nat
    BY <1>2, DriftGrows, ConstantsAre
  <2>3. up \in Int /\ up <= RseDepth * steps
    BY <1>2, <1>3, <1>4, <1>7, ResumesIs DEF InKernel
  <2>4. Shift(s) <= RseDepth * (steps + 1)
    BY <1>5, <2>2, <2>3
  <2>5. Among(traps, m, steps + 1)
    BY <1>2, <1>3, <1>4, <1>7, AmongOn DEF InKernel
  <2>6. Among(ts, Len(ts), steps + 1)
    BY <1>8, <2>5 DEF Among
  <2> QED
    BY <2>1, <2>4, <2>6 DEF InUser
<1>13. L \subseteq 0 .. s.total + s.sof - 1
  <2> SUFFICES ASSUME NEW p \in L PROVE p \in 0 .. s.total + s.sof - 1
    OBVIOUS
  <2>1. p \in Nat /\ p < rse.total /\ rse.total \in Nat
    BY <1>2, RseFields
  <2> QED
    BY <1>5, <2>1
<1>14. steps + 1 \in 0 .. RseSteps
  BY <1>2, ConstantsAre
<1>15. RseModes(s, ts, steps + 1) /\ FramesOk(calls, ts, s.total)
  BY <1>5, <1>8, <1>12 DEF RseModes
<1> HIDE DEF L
<1>16. RseInvOf(s, backing, L, calls, ts, records, steps + 1)
  BY <1>2, <1>5, <1>8, <1>9, <1>11, <1>13, <1>14, <1>15 DEF RseInvOf
<1> QED
  BY <1>6, <1>16, InvOn

----------------------------------------------------------------------------
\* rfi.  What the interrupted code t continues with, before its frame's spill.
Resumed(s, t, ts) ==
  /\ RseStateOk(s) /\ s.total = t.part.total /\ s.sof = t.part.sof /\ Frame(s) = Frame(t.part)
  /\ \A p \in t.live : s.gr[p] = t.part.gr[p]
  /\ Homed(s, t.live, backing)
  /\ \A k \in 1 .. Len(ts) : Link(s, ts[k]) /\ Carries(s, t.live, ts[k])
  /\ RseModes(s, ts, steps)

\* The open interruptions without the last one.
LEMMA FrontTraps ==
  ASSUME RseInv, traps # <<>>, Last(calls) = Mark, NEW t, t = Last(traps), NEW ts, ts = Front(traps)
  PROVE  /\ Len(ts) \in Nat /\ Len(traps) \in Nat /\ Len(ts) = Len(traps) - 1 /\ ts \in Seq(RseTrapSet)
         /\ t = traps[Len(traps)] /\ RseTrapOk(t) /\ Len(traps) \in 1 .. Len(traps)
         /\ \A k \in 1 .. Len(ts) : /\ k \in 1 .. Len(traps) /\ k # Len(traps) /\ ts[k] = traps[k]
                                    /\ RseTrapOk(ts[k])
<1>1. /\ Len(traps) \in Nat /\ Len(traps) >= 1 /\ t = traps[Len(traps)] /\ Len(ts) = Len(traps) - 1
      /\ ts \in Seq(RseTrapSet) /\ Len(traps) \in 1 .. Len(traps)
      /\ \A k \in 1 .. Len(traps) - 1 : ts[k] = traps[k]
  BY Innermost
<1>2. \A k \in 1 .. Len(traps) : RseTrapOk(traps[k])
  BY RseInvIs, Zenon
<1> QED
  BY <1>1, <1>2

\* The record of this interruption puts the whole partition back.
LEMMA MatchedIs ==
  ASSUME RseInv, traps # <<>>, Last(calls) = Mark, NEW t, t = Last(traps), NEW ts, ts = Front(traps),
         records # <<>>, Last(records).id = Len(traps)
  PROVE  Resumed(WithFrame(Last(records).part, Frame(t.part)), t, ts)
<1> DEFINE m == Len(traps)
           s == WithFrame(Last(records).part, Frame(t.part))
<1>1. /\ Len(ts) \in Nat /\ m \in Nat /\ Len(ts) = m - 1 /\ t = traps[m] /\ RseTrapOk(t) /\ m \in 1 .. m
      /\ \A k \in 1 .. Len(ts) : k \in 1 .. m /\ k # m /\ ts[k] = traps[k] /\ RseTrapOk(ts[k])
  BY FrontTraps, Zenon
<1>2. /\ RecordsOk(records, traps) /\ RseModes(rse, traps, steps) /\ steps \in Nat
      /\ Homed(t.part, t.live, backing) /\ Around(t.part, t.live, traps, m - 1)
  BY <1>1, RseInvIs, Zenon
<1>3. Last(records).part = t.part
  <2>1. records \in Seq(RseRecordSet) /\ Len(records) \in 1 .. Len(records)
    BY <1>2 DEF RecordsOk
  <2>2. Last(records) = records[Len(records)]
    BY DEF Last
  <2> QED
    BY <1>1, <1>2, <2>1, <2>2 DEF RecordsOk
<1>4. RseStateOk(t.part) /\ t.part \in RseStates
  BY <1>1, TrapFields, RseFields
<1>5. s = t.part
  <2>1. s = WithFrame(t.part, Frame(t.part))
    BY <1>3
  <2>2. WithFrame(t.part, Frame(t.part)) = t.part
    BY <1>4 DEF WithFrame, Frame, RseStates
  <2> QED
    BY <2>1, <2>2
<1> HIDE DEF s
<1>6. \A k \in 1 .. Len(ts) : Link(s, ts[k]) /\ Carries(s, t.live, ts[k])
  BY <1>1, <1>2, <1>5 DEF Around
<1>7. ASSUME InUser(rse, traps, steps) PROVE RseModes(s, ts, steps)
  <2>1. /\ \A k \in 1 .. m : traps[k].store = -1 /\ Shift(traps[k].part) <= RseDepth * steps
    BY <1>7 DEF InUser, Among
  <2>2. InUser(s, ts, steps)
    BY <1>1, <1>5, <2>1 DEF InUser, Among
  <2> QED
    BY <2>2, Zenon DEF RseModes
<1>8. ASSUME NEW j \in 1 .. m, InKernel(rse, traps, steps, j) PROVE RseModes(s, ts, steps)
  <2>1. \A k \in 1 .. j : Shift(traps[k].part) <= RseDepth * steps
    BY <1>8 DEF InKernel, Among
  <2>2. \A k \in 1 .. m : k # j => traps[k].store = -1
    BY <1>8 DEF InKernel
  <2>3. CASE j = m
    <3>1. InUser(s, ts, steps)
      BY <1>1, <1>5, <2>1, <2>2, <2>3 DEF InUser, Among
    <3> QED
      BY <3>1 DEF RseModes
  <2>4. CASE j # m
    <3>1. /\ j \in 1 .. Len(ts) /\ \A k \in 1 .. j : k \in 1 .. Len(ts) /\ k \in 1 .. m
          /\ m \in j + 1 .. m /\ ts[j] = traps[j]
      BY <1>1, <2>4
    <3>2. s.anchorAddr = RseKernel /\ s.anchorRegs = rse.anchorRegs
      BY <1>1, <1>5, <1>8, <3>1 DEF InKernel
    <3>3. Resumes(s, ts[j]) = Resumes(rse, traps[j])
      BY <3>1, <3>2 DEF Resumes, Low
    <3>4. \A k \in j + 1 .. Len(ts) : k \in j + 1 .. m /\ k \in 1 .. Len(ts)
      BY <1>1
    <3>5. ts[j].store \in Nat /\ ~IsRnatSlot(ts[j].store) /\ \A k \in 1 .. Len(ts) : k # j => ts[k].store = -1
      BY <1>1, <1>8, <2>2, <3>1 DEF InKernel
    <3>6. \A k \in j + 1 .. Len(ts) : ts[k].part.anchorAddr = RseKernel /\ ts[k].part.anchorRegs = s.anchorRegs
      BY <1>1, <1>8, <3>2, <3>4 DEF InKernel
    <3>7. Among(ts, j, steps)
      BY <1>1, <2>1, <3>1 DEF Among
    <3>8. /\ Resumes(s, ts[j]) >= 0 /\ Resumes(s, ts[j]) <= RseDepth * steps
      BY <1>8, <3>3 DEF InKernel
    <3>9. \A k \in 1 .. j : /\ Resumes(s, ts[j]) >= Shift(ts[k].part)
                            /\ \/ Resumes(s, ts[j]) = Shift(ts[k].part)
                               \/ RegRank(ts[j].store) >= ts[k].base + Shift(ts[k].part)
      <4> SUFFICES ASSUME NEW k \in 1 .. j
                   PROVE  /\ Resumes(s, ts[j]) >= Shift(ts[k].part)
                          /\ \/ Resumes(s, ts[j]) = Shift(ts[k].part)
                             \/ RegRank(ts[j].store) >= ts[k].base + Shift(ts[k].part)
        OBVIOUS
      <4>1. ts[k] = traps[k]
        BY <1>1, <3>1
      <4>2. /\ Resumes(rse, traps[j]) >= Shift(traps[k].part)
            /\ \/ Resumes(rse, traps[j]) = Shift(traps[k].part)
               \/ RegRank(traps[j].store) >= traps[k].base + Shift(traps[k].part)
        BY <1>8 DEF InKernel
      <4> QED
        BY <3>1, <3>3, <4>1, <4>2, Zenon
    <3>10. InKernel(s, ts, steps, j)
      BY <3>1, <3>2, <3>5, <3>6, <3>7, <3>8, <3>9, Zenon DEF InKernel
    <3> QED
      BY <3>1, <3>10 DEF RseModes
  <2> QED
    BY <2>3, <2>4
<1>9. RseModes(s, ts, steps)
  BY <1>2, <1>7, <1>8, Zenon DEF RseModes
<1>10. Resumed(s, t, ts)
  BY <1>2, <1>4, <1>5, <1>6, <1>9 DEF Resumed
<1> QED
  BY <1>10 DEF s

\* Without a record the frame comes back from cr.ifs, over the same registers.
LEMMA UnmatchedIs ==
  ASSUME RseInv, traps # <<>>, Last(calls) = Mark, NEW t, t = Last(traps), NEW ts, ts = Front(traps), t.store = -1
  PROVE  Resumed(WithFrame(Base(rse, -t.part.sof), Frame(t.part)), t, ts)
<1> DEFINE m == Len(traps)
           q == Base(rse, -t.part.sof)
           f == Frame(t.part)
           s == WithFrame(q, f)
<1>1. /\ Len(ts) \in Nat /\ m \in Nat /\ Len(ts) = m - 1 /\ t = traps[m] /\ RseTrapOk(t) /\ m \in 1 .. m
      /\ \A k \in 1 .. Len(ts) : k \in 1 .. m /\ k # m /\ ts[k] = traps[k] /\ RseTrapOk(ts[k])
  BY FrontTraps, Zenon
<1>2. /\ RseStateOk(rse) /\ RseModes(rse, traps, steps) /\ steps \in Nat /\ Homed(rse, live, backing)
      /\ Carries(rse, live, t) /\ \A k \in 1 .. m : Link(rse, traps[k])
  BY <1>1, RseInvIs, Zenon
<1>3. Around(t.part, t.live, traps, m - 1) /\ t.base = rse.total
  <2>1. Around(traps[m].part, traps[m].live, traps, m - 1)
    BY <1>1, RseInvIs, Zenon
  <2>2. t.base = rse.total
    BY Innermost
  <2> QED
    BY <1>1, <2>1, <2>2
<1>4. RseStateOk(t.part) /\ t.part \in RseStates /\ t.base = t.part.total + t.part.sof
  BY <1>1, TrapFields, RseFields
<1>5. /\ t.part.total \in Nat /\ t.part.sof \in Nat /\ t.part.total + t.part.sof < RseDepth /\ rse.total \in Nat
      /\ RseDepth \in Nat /\ t.part.sol <= t.part.sof /\ t.part.sor <= t.part.sof
  BY <1>2, <1>4, RseFields, ConstantsAre
<1>6. -t.part.sof \in Int /\ rse.total + (-t.part.sof) = t.part.total /\ t.part.total \in 0 .. RseDepth - 1
  BY <1>3, <1>4, <1>5
<1>7. /\ q \in RseStates /\ q.bof = q.total /\ q.total = t.part.total /\ q.flushed = rse.flushed /\ q.gr = rse.gr
      /\ q.anchorAddr = rse.anchorAddr /\ q.anchorRegs = rse.anchorRegs
  BY <1>2, <1>6, BaseIs
<1> HIDE DEF q
<1>8. f \in RseFrames /\ f.sof = t.part.sof /\ f.sol = t.part.sol /\ f.sor = t.part.sor /\ f.rrb = t.part.rrb
      /\ f.sof \in Nat /\ f.sol \in Nat /\ f.sor \in Nat /\ f.rrb \in Nat
  <2>1. f \in RseFrames /\ f.sof = t.part.sof /\ f.sol = t.part.sol /\ f.sor = t.part.sor /\ f.rrb = t.part.rrb /\ f.sof \in Nat
    BY <1>4, FrameIs
  <2> QED
    BY <2>1 DEF RseFrames
<1> HIDE DEF f
<1>9. /\ s \in RseStates /\ s.sof = f.sof /\ s.sol = f.sol /\ s.sor = f.sor /\ s.rrb = f.rrb
      /\ s.bof = q.bof /\ s.total = q.total /\ s.flushed = q.flushed /\ s.gr = q.gr
      /\ s.anchorAddr = q.anchorAddr /\ s.anchorRegs = q.anchorRegs
  BY <1>7, <1>8, WithFrameIs
<1> HIDE DEF s
<1>10. RseStateOk(s)
  BY <1>2, <1>5, <1>7, <1>8, <1>9, Reframed
<1>11. Frame(s) = Frame(t.part)
  BY <1>8, <1>9 DEF Frame
<1>12. s.gr = rse.gr /\ s.flushed = rse.flushed /\ s.anchorAddr = rse.anchorAddr /\ s.anchorRegs = rse.anchorRegs
       /\ s.total = t.part.total /\ s.sof = t.part.sof
  BY <1>7, <1>8, <1>9
<1>13. Shift(s) = Shift(rse)
  BY <1>12 DEF Shift
<1>14. \A p \in t.live : p \in live /\ s.gr[p] = t.part.gr[p]
  BY <1>2, <1>12 DEF Carries
<1>15. Homed(s, t.live, backing)
  BY <1>2, <1>12, <1>13, <1>14 DEF Homed
<1>16. ASSUME NEW k \in 1 .. Len(ts) PROVE Link(s, ts[k]) /\ Carries(s, t.live, ts[k])
  <2>1. k \in 1 .. m - 1 /\ k \in 1 .. m /\ ts[k] = traps[k] /\ RseTrapOk(ts[k])
    BY <1>1
  <2>2. Carries(t.part, t.live, ts[k]) /\ Link(rse, ts[k])
    BY <1>2, <1>3, <2>1 DEF Around
  <2>3. Carries(s, t.live, ts[k])
    BY <1>14, <2>2 DEF Carries
  <2>4. s.flushed >= rse.flushed
    BY <1>2, <1>12, RseFields
  <2>5. Link(s, ts[k])
    BY <1>2, <1>10, <1>13, <2>1, <2>2, <2>4, LinkOn
  <2> QED
    BY <2>3, <2>5
<1>17. ASSUME InUser(rse, traps, steps) PROVE RseModes(s, ts, steps)
  <2>1. \A k \in 1 .. m : traps[k].store = -1 /\ Shift(traps[k].part) <= RseDepth * steps
    BY <1>17 DEF InUser, Among
  <2>2. InUser(s, ts, steps)
    BY <1>1, <1>13, <1>17, <2>1 DEF InUser, Among
  <2> QED
    BY <2>2, Zenon DEF RseModes
<1>18. ASSUME NEW j \in 1 .. m, InKernel(rse, traps, steps, j) PROVE RseModes(s, ts, steps)
  <2>1. j # m
    <3>1. traps[j].store \in Nat
      BY <1>18 DEF InKernel
    <3>2. traps[m].store = -1
      BY <1>1
    <3> QED
      BY <3>1, <3>2
  <2>2. /\ j \in 1 .. Len(ts) /\ \A k \in 1 .. j : k \in 1 .. Len(ts) /\ k \in 1 .. m
        /\ ts[j] = traps[j]
    <3>1. j \in Nat /\ j >= 1 /\ j <= m /\ j <= Len(ts)
      BY <1>1, <2>1
    <3>2. j \in 1 .. Len(ts) /\ \A k \in 1 .. j : k \in 1 .. Len(ts) /\ k \in 1 .. m
      BY <1>1, <3>1
    <3> QED
      BY <1>1, <3>2
  <2>3. Resumes(s, ts[j]) = Resumes(rse, traps[j])
    BY <1>12, <2>2 DEF Resumes, Low
  <2>4. \A k \in j + 1 .. Len(ts) : k \in j + 1 .. m /\ k \in 1 .. Len(ts)
    BY <1>1
  <2>5. ts[j].store \in Nat /\ ~IsRnatSlot(ts[j].store) /\ \A k \in 1 .. Len(ts) : k # j => ts[k].store = -1
    BY <1>1, <1>18, <2>2 DEF InKernel
  <2>6. \A k \in j + 1 .. Len(ts) : ts[k].part.anchorAddr = RseKernel /\ ts[k].part.anchorRegs = s.anchorRegs
    BY <1>1, <1>12, <1>18, <2>4 DEF InKernel
  <2>7. Among(ts, j, steps)
    BY <1>1, <1>18, <2>2 DEF Among, InKernel
  <2>8. /\ Resumes(s, ts[j]) >= 0 /\ Resumes(s, ts[j]) <= RseDepth * steps
    BY <1>18, <2>3 DEF InKernel
  <2>9. \A k \in 1 .. j : /\ Resumes(s, ts[j]) >= Shift(ts[k].part)
                          /\ \/ Resumes(s, ts[j]) = Shift(ts[k].part)
                             \/ RegRank(ts[j].store) >= ts[k].base + Shift(ts[k].part)
    <3> SUFFICES ASSUME NEW k \in 1 .. j
                 PROVE  /\ Resumes(s, ts[j]) >= Shift(ts[k].part)
                        /\ \/ Resumes(s, ts[j]) = Shift(ts[k].part)
                           \/ RegRank(ts[j].store) >= ts[k].base + Shift(ts[k].part)
      OBVIOUS
    <3>1. ts[k] = traps[k]
      BY <1>1, <2>2
    <3>2. /\ Resumes(rse, traps[j]) >= Shift(traps[k].part)
          /\ \/ Resumes(rse, traps[j]) = Shift(traps[k].part)
             \/ RegRank(traps[j].store) >= traps[k].base + Shift(traps[k].part)
      BY <1>18 DEF InKernel
    <3> QED
      BY <2>2, <2>3, <3>1, <3>2, Zenon
  <2>10. s.anchorAddr = RseKernel
    BY <1>12, <1>18 DEF InKernel
  <2>11. InKernel(s, ts, steps, j)
    BY <2>2, <2>5, <2>6, <2>7, <2>8, <2>9, <2>10, Zenon DEF InKernel
  <2> QED
    BY <2>2, <2>11 DEF RseModes
<1>19. RseModes(s, ts, steps)
  BY <1>2, <1>17, <1>18, Zenon DEF RseModes
<1>20. Resumed(s, t, ts)
  BY <1>10, <1>11, <1>12, <1>14, <1>15, <1>16, <1>19 DEF Resumed
<1> QED
  BY <1>20 DEF s, q, f

\* The newest record goes; what is left is of the interruptions still open.
LEMMA RecordsDropped ==
  ASSUME RseInv, traps # <<>>, Last(calls) = Mark, NEW ts, ts = Front(traps),
         NEW rc, rc = IF records = <<>> THEN records ELSE Front(records)
  PROVE  RecordsOk(rc, ts)
<1> DEFINE n == Len(records)
<1>1. /\ Len(ts) \in Nat /\ Len(traps) \in Nat /\ Len(ts) = Len(traps) - 1
      /\ \A k \in 1 .. Len(ts) : k \in 1 .. Len(traps) /\ ts[k] = traps[k]
  BY FrontTraps, Zenon
<1>2. RecordsOk(records, traps)
  BY RseInvIs, Zenon
<1>3. /\ records \in Seq(RseRecordSet) /\ n \in Nat
      /\ \A i \in 1 .. n : records[i].id \in 1 .. Len(traps) /\ records[i].part = traps[records[i].id].part
      /\ \A i, j \in 1 .. n : i < j => records[i].id < records[j].id
  BY <1>2 DEF RecordsOk
<1>4. CASE records = <<>>
  <2>1. rc = <<>> /\ Len(rc) = 0 /\ rc \in Seq(RseRecordSet)
    BY <1>4
  <2> QED
    BY <2>1 DEF RecordsOk
<1>5. CASE records # <<>>
  <2>1. rc = SubSeq(records, 1, n - 1)
    BY <1>5 DEF Front
  <2>2. /\ rc \in Seq(RseRecordSet) /\ Len(rc) = n - 1 /\ n > 0 /\ \A i \in 1 .. n - 1 : rc[i] = records[i]
    BY <1>3, <1>5, <2>1, FrontIs
  <2>3. ASSUME NEW i \in 1 .. Len(rc)
        PROVE  i \in 1 .. n /\ rc[i] = records[i] /\ records[i].id \in 1 .. Len(ts)
    <3>1. i \in 1 .. n /\ i \in 1 .. n - 1 /\ n \in 1 .. n /\ i < n
      BY <1>3, <2>2
    <3>2. records[i].id < records[n].id /\ records[i].id \in 1 .. Len(traps) /\ records[n].id \in 1 .. Len(traps)
      BY <1>3, <3>1
    <3>3. records[i].id \in 1 .. Len(ts)
      <4> DEFINE x == records[i].id
                 y == records[n].id
      <4>1. x \in 1 .. Len(traps) /\ y \in 1 .. Len(traps) /\ x < y
        BY <3>2
      <4> HIDE DEF x, y
      <4>2. x \in 1 .. Len(ts)
        BY <1>1, <4>1
      <4> QED
        BY <4>2 DEF x
    <3> QED
      BY <2>2, <3>1, <3>3
  <2>4. \A i \in 1 .. Len(rc) : rc[i].id \in 1 .. Len(ts) /\ rc[i].part = ts[rc[i].id].part
    <3> SUFFICES ASSUME NEW i \in 1 .. Len(rc) PROVE rc[i].id \in 1 .. Len(ts) /\ rc[i].part = ts[rc[i].id].part
      OBVIOUS
    <3>1. i \in 1 .. n /\ rc[i] = records[i] /\ records[i].id \in 1 .. Len(ts)
      BY <2>3
    <3>2. records[i].part = traps[records[i].id].part
      BY <1>3, <3>1
    <3> QED
      BY <1>1, <3>1, <3>2
  <2>5. \A i, j \in 1 .. Len(rc) : i < j => rc[i].id < rc[j].id
    <3> SUFFICES ASSUME NEW i \in 1 .. Len(rc), NEW j \in 1 .. Len(rc), i < j PROVE rc[i].id < rc[j].id
      OBVIOUS
    <3>1. i \in 1 .. n /\ rc[i] = records[i] /\ j \in 1 .. n /\ rc[j] = records[j]
      BY <2>3
    <3> QED
      BY <1>3, <3>1
  <2> QED
    BY <2>2, <2>4, <2>5 DEF RecordsOk
<1> QED
  BY <1>4, <1>5

\* rfi leaves the interrupted code's frame, and its registers, as they were.
RfiRestores(r, t) ==
  /\ RseStateOk(r) /\ r.total = t.part.total /\ Frame(r) = Frame(t.part)
  /\ \A p \in t.live : r.gr[p] = t.part.gr[p]

LEMMA RfiSpill ==
  ASSUME RseInv, steps < RseSteps, traps # <<>>, Last(calls) = Mark, NEW t, t = Last(traps), NEW ts, ts = Front(traps),
         NEW s, Resumed(s, t, ts), NEW out, out \in SpillExcess(s),
         NEW rc, rc = IF records = <<>> THEN records ELSE Front(records)
  PROVE  /\ RseInvOf(out[1], out[2], t.live, Front(calls), ts, rc, steps + 1)
         /\ RfiRestores(out[1], t)
<1>1. /\ Len(ts) \in Nat /\ ts \in Seq(RseTrapSet) /\ RseTrapOk(t) /\ t = traps[Len(traps)] /\ Len(traps) \in 1 .. Len(traps)
      /\ \A k \in 1 .. Len(ts) : k \in 1 .. Len(traps) /\ k # Len(traps) /\ ts[k] = traps[k] /\ RseTrapOk(ts[k])
  BY FrontTraps, Zenon
<1>2. backing \in [RseAddrs -> Nat] /\ steps \in Nat
  BY RseInvIs, Zenon
<1>3. /\ RseStateOk(s) /\ s.total = t.part.total /\ s.sof = t.part.sof /\ Frame(s) = Frame(t.part)
      /\ \A p \in t.live : s.gr[p] = t.part.gr[p]
      /\ Homed(s, t.live, backing)
      /\ \A k \in 1 .. Len(ts) : Link(s, ts[k]) /\ Carries(s, t.live, ts[k])
      /\ RseModes(s, ts, steps)
  BY DEF Resumed
<1>4. PICK n, f : Boundary(s, n, f) /\ out[1] = [s EXCEPT !.flushed = f] /\ Stores(s, n, out[2])
  BY <1>2, <1>3, SpillIs DEF Spilled
<1> DEFINE r == [s EXCEPT !.flushed = f]
           w == out[2]
<1>5. n \in 0 .. RseDepth - 1 /\ f \in 0 .. RseDepth - 1 /\ n \in Nat /\ f \in Nat
  BY <1>3, <1>4, BoundaryIs, ConstantsAre
<1>6. /\ RseStateOk(r) /\ r.flushed = f /\ r.total = s.total /\ r.sof = s.sof /\ r.gr = s.gr
      /\ r.anchorAddr = s.anchorAddr /\ r.anchorRegs = s.anchorRegs
      /\ r.sol = s.sol /\ r.sor = s.sor /\ r.rrb = s.rrb
  BY <1>3, <1>5, FlushedTo
<1> HIDE DEF r
<1>7. Shift(r) = Shift(s) /\ Frame(r) = Frame(s)
  BY <1>6 DEF Shift, Frame
<1>8. RfiRestores(r, t)
  BY <1>3, <1>6, <1>7 DEF RfiRestores
<1>9. /\ t.live \subseteq 0 .. RseDepth - 1 /\ t.base = t.part.total + t.part.sof /\ t.live \subseteq 0 .. t.base - 1
  BY <1>1, TrapFields DEF RseTrapOk
<1>10. \A p \in t.live : s.anchorRegs <= p /\ p < f => w[RegHome(p + Shift(s))] = s.gr[p]
  <2>1. t.live \subseteq t.live
    OBVIOUS
  <2> QED
    BY <1>3, <1>4, <1>9, <2>1, HomedAfter
<1>11. Homed(r, t.live, w)
  BY <1>6, <1>7, <1>10 DEF Homed
<1>12. /\ Front(calls) \in Seq(RseFrames) /\ FramesOk(Front(calls), ts, t.part.total)
  BY Innermost
<1>13. \A k \in 1 .. Len(ts) : ts[k].base <= s.total
  <2>1. Len(Front(calls)) \in Nat
    BY <1>12
  <2> QED
    BY <1>3, <1>12, <2>1, BasesBelow
<1>14. TrapsOk(ts, w)
  <2> SUFFICES ASSUME NEW k \in 1 .. Len(ts)
               PROVE  /\ RseTrapOk(ts[k]) /\ Homed(ts[k].part, ts[k].live, w)
                      /\ Around(ts[k].part, ts[k].live, ts, k - 1)
    BY DEF TrapsOk
  <2>1. k \in 1 .. Len(traps) /\ ts[k] = traps[k] /\ RseTrapOk(ts[k])
    BY <1>1
  <2>2. Homed(traps[k].part, traps[k].live, backing) /\ Around(traps[k].part, traps[k].live, traps, k - 1)
    BY <2>1, RseInvIs, Zenon
  <2>3. Link(s, ts[k]) /\ \A p \in ts[k].live : s.gr[p] = ts[k].part.gr[p]
    BY <1>3 DEF Carries
  <2>4. Homed(ts[k].part, ts[k].live, backing)
    BY <2>1, <2>2
  <2>5. Homed(ts[k].part, ts[k].live, w)
    BY <1>3, <1>4, <1>5, <2>1, <2>3, <2>4, HomedThrough
  <2>6. \A j \in 1 .. k - 1 : j \in 1 .. Len(ts)
    BY <1>1
  <2>7. Around(ts[k].part, ts[k].live, ts, k - 1)
    BY <1>1, <2>1, <2>2, <2>6 DEF Around
  <2> QED
    BY <2>1, <2>5, <2>7
<1>15. Around(r, t.live, ts, Len(ts))
  <2> SUFFICES ASSUME NEW k \in 1 .. Len(ts) PROVE Link(r, ts[k]) /\ Carries(r, t.live, ts[k])
    BY DEF Around
  <2>1. Link(s, ts[k]) /\ Carries(s, t.live, ts[k]) /\ RseTrapOk(ts[k]) /\ ts[k].base <= s.total
    BY <1>1, <1>3, <1>13
  <2>2. ts[k].base \in Nat /\ s.total \in Nat /\ s.sof \in Nat /\ s.flushed \in Nat
    BY <1>3, <2>1, TrapFields, RseFields
  <2>3. r.flushed >= s.flushed \/ r.flushed >= ts[k].base
    BY <1>4, <1>5, <1>6, <2>1, <2>2 DEF Boundary
  <2>4. Link(r, ts[k])
    BY <1>3, <1>6, <1>7, <2>1, <2>3, LinkOn
  <2>5. Carries(r, t.live, ts[k])
    BY <1>6, <2>1 DEF Carries
  <2> QED
    BY <2>4, <2>5
<1>16. RseModes(r, ts, steps + 1)
  BY <1>1, <1>2, <1>3, <1>6, ModesOn
<1>17. RecordsOk(rc, ts)
  BY RecordsDropped
<1>18. w \in [RseAddrs -> Nat] /\ steps + 1 \in 0 .. RseSteps
  <2>1. w \in [RseAddrs -> Nat]
    BY <1>4 DEF Stores
  <2> QED
    BY <1>2, <2>1, ConstantsAre
<1>19. t.live \subseteq 0 .. r.total + r.sof - 1 /\ FramesOk(Front(calls), ts, r.total)
  <2>1. r.total = t.part.total /\ r.sof = t.part.sof
    BY <1>3, <1>6
  <2>2. r.total + r.sof - 1 = t.base - 1
    <3>1. t.part.total \in Nat /\ t.part.sof \in Nat
      BY <1>1, TrapFields, RseFields
    <3> QED
      BY <1>9, <2>1, <3>1
  <2>3. t.live \subseteq 0 .. r.total + r.sof - 1
    BY <1>9, <2>2, Zenon
  <2> QED
    BY <1>12, <2>1, <2>3
<1> HIDE DEF w
<1>20. RseInvOf(r, w, t.live, Front(calls), ts, rc, steps + 1)
  BY <1>1, <1>6, <1>11, <1>12, <1>14, <1>15, <1>16, <1>17, <1>18, <1>19 DEF RseInvOf
<1> QED
  BY <1>4, <1>8, <1>20 DEF r, w

LEMMA RfiIs ==
  ASSUME RseInv, steps < RseSteps, steps' = steps + 1, RseRfi
  PROVE  RseInv' /\ RfiRestores(rse', Last(traps)) /\ traps' = Front(traps) /\ traps # <<>>
<1> DEFINE t == Last(traps)
           ts == Front(traps)
           rc == IF records = <<>> THEN records ELSE Front(records)
           u(x) == IF RecordMatches(x) THEN WithFrame(Last(records).part, Frame(t.part))
                                       ELSE WithFrame(Base(rse, -t.part.sof), Frame(t.part))
<1>1. traps # <<>> /\ Last(calls) = Mark /\ traps' = ts /\ calls' = Front(calls) /\ records' = rc /\ live' = t.live
  BY DEF RseRfi
<1>2. PICK moved \in BOOLEAN :
        /\ RecordMatches(moved) \/ (t.store = -1 /\ rse.total = t.base)
        /\ \E out \in SpillExcess(u(moved)) : rse' = out[1] /\ backing' = out[2]
  BY DEF RseRfi
<1>3. PICK out \in SpillExcess(u(moved)) : rse' = out[1] /\ backing' = out[2]
  BY <1>2
<1> DEFINE s == u(moved)
<1>4. Resumed(s, t, ts)
  <2>1. CASE RecordMatches(moved)
    <3>1. records # <<>> /\ Last(records).id = Len(traps)
      BY <2>1 DEF RecordMatches
    <3>2. Resumed(WithFrame(Last(records).part, Frame(t.part)), t, ts)
      BY <1>1, <3>1, MatchedIs
    <3> QED
      BY <2>1, <3>2
  <2>2. CASE ~RecordMatches(moved)
    <3>1. t.store = -1
      BY <1>2, <2>2
    <3>2. Resumed(WithFrame(Base(rse, -t.part.sof), Frame(t.part)), t, ts)
      BY <1>1, <3>1, UnmatchedIs
    <3> QED
      BY <2>2, <3>2
  <2> QED
    BY <2>1, <2>2
<1> HIDE DEF s, ts, rc, t
<1>5. out \in SpillExcess(s)
  BY <1>3 DEF s
<1>6. /\ RseInvOf(out[1], out[2], t.live, Front(calls), ts, rc, steps + 1)
      /\ RfiRestores(out[1], t)
  <2>1. t = Last(traps) /\ ts = Front(traps) /\ rc = IF records = <<>> THEN records ELSE Front(records)
    BY DEF t, ts, rc
  <2> QED
    BY <1>1, <1>4, <1>5, <2>1, RfiSpill
<1>7. RseInv'
  BY <1>1, <1>3, <1>6, InvOn
<1> QED
  BY <1>1, <1>3, <1>6, <1>7 DEF t, ts

LEMMA EmptyMachine == RseInit => RseInv
<1> SUFFICES ASSUME RseInit PROVE RseInv
  OBVIOUS
<1>1. /\ RseCapacity \in Nat /\ RseDepth \in Nat /\ RseDepth > 0 /\ RseSteps \in Nat /\ RegRank(RseKernel) \in Nat
      /\ RseGroup \in Nat /\ RseGroup >= 2
  BY ConstantsAre, GroupIs
<1>2. 0 % RseGroup = 0 /\ 0 \div RseGroup = 0
  <2>1. 0 = RseGroup * 0 + 0 /\ 0 \in 0 .. RseGroup - 1
    BY <1>1
  <2> QED
    BY <1>1, <2>1, DividedBy
<1>3. ~IsRnatSlot(0) /\ RegRank(0) = 0
  BY <1>1, <1>2 DEF IsRnatSlot, RegRank
<1>4. /\ rse \in RseStates /\ rse.total = 0 /\ rse.sof = 0 /\ rse.sol = 0 /\ rse.sor = 0 /\ rse.bof = 0 /\ rse.flushed = 0
      /\ rse.anchorAddr = 0 /\ rse.anchorRegs = 0
  BY DEF RseInit, RseStates
<1>5. /\ backing \in [RseAddrs -> Nat] /\ live = {} /\ calls = <<>> /\ traps = <<>> /\ records = <<>> /\ steps = 0
  BY DEF RseInit
<1>6. Shift(rse) = 0
  BY <1>3, <1>4 DEF Shift
<1>7. RseStateOk(rse)
  BY <1>1, <1>3, <1>4, <1>6 DEF RseStateOk
<1>8. RseDepth * 0 = 0 /\ RseDepth * steps = 0
  BY <1>1, <1>5
<1>9. Len(traps) = 0 /\ Len(calls) = 0 /\ Len(records) = 0 /\ 1 .. 0 = {} /\ 1 .. 0 + 1 = {1}
  BY <1>5
<1>10. /\ calls \in Seq(RseFrames) /\ traps \in Seq(RseTrapSet) /\ records \in Seq(RseRecordSet)
  BY <1>5
<1>11. InUser(rse, traps, steps)
  BY <1>6, <1>8, <1>9 DEF InUser, Among
<1>12. FramesOk(calls, traps, rse.total)
  <2> DEFINE b == [i \in {1} |-> 0]
             m == [i \in {} |-> 0]
  <2>1. b \in [1 .. Len(calls) + 1 -> Nat] /\ b[Len(calls) + 1] = rse.total
    BY <1>4, <1>9
  <2>2. \A i, j \in 1 .. Len(calls) + 1 : i <= j => b[i] <= b[j]
    BY <1>9
  <2>3. m \in [1 .. Len(traps) -> 1 .. Len(calls)]
    BY <1>9
  <2> HIDE DEF b, m
  <2>4. FrameChain(b, m, calls, traps, rse.total)
    BY <1>9, <2>1, <2>2, <2>3 DEF FrameChain
  <2> QED
    BY <2>4 DEF FramesOk
<1>13. RecordsOk(records, traps)
  BY <1>9, <1>10 DEF RecordsOk
<1>14. TrapsOk(traps, backing) /\ Around(rse, live, traps, Len(traps))
  BY <1>9 DEF TrapsOk, Around
<1>15. Homed(rse, live, backing) /\ live \subseteq 0 .. rse.total + rse.sof - 1
  BY <1>5 DEF Homed
<1>16. steps \in 0 .. RseSteps
  BY <1>1, <1>5
<1> QED
  BY <1>5, <1>7, <1>10, <1>11, <1>12, <1>13, <1>14, <1>15, <1>16 DEF RseInv, RseInvOf, RseModes

LEMMA RseKept == RseInv /\ [RseNext]_rseVars => RseInv'
<1> SUFFICES ASSUME RseInv, [RseNext]_rseVars PROVE RseInv'
  OBVIOUS
<1>1. CASE UNCHANGED rseVars
  BY <1>1 DEF rseVars, RseInv
<1>2. CASE RseNext
  <2>1. steps < RseSteps /\ steps' = steps + 1
    BY <1>2 DEF RseNext
  <2>2. CASE RseWrite
    BY <2>1, <2>2, WriteKeeps
  <2>3. CASE RseAlloc
    BY <2>1, <2>3, AllocKeeps
  <2>4. CASE RseCall
    BY <2>1, <2>4, CallKeeps
  <2>5. CASE RseRet
    BY <2>1, <2>5, RetKeeps
  <2>6. CASE RseRotate
    BY <2>1, <2>6, RotateKeeps
  <2>7. CASE RseFlushrs
    BY <2>1, <2>7, FlushrsKeeps
  <2>8. CASE RseLongjmp
    BY <2>1, <2>8, LongjmpKeeps
  <2>9. CASE RseInterrupt
    BY <2>1, <2>9, InterruptKeeps
  <2>10. CASE RseSwitch
    BY <2>1, <2>10, SwitchKeeps
  <2>11. CASE RseSwitchBack
    BY <2>1, <2>11, SwitchBackKeeps
  <2>12. CASE RseRfi
    BY <2>1, <2>12, RfiIs
  <2> QED
    BY <1>2, <2>2, <2>3, <2>4, <2>5, <2>6, <2>7, <2>8, <2>9, <2>10, <2>11, <2>12 DEF RseNext
<1> QED
  BY <1>1, <1>2

\* The words every register stack of the core has in memory - the running
\* program's, the handlers' and those of the interrupted contexts that
\* deliver_fault keeps - stay where their addresses say through spills that
\* stop half-way, longjmp, interruptions and moves of the backing store.
THEOREM StacksKept == RseSpec => []RseInv
<1>1. RseInit => RseInv
  BY EmptyMachine
<1>2. RseInv /\ [RseNext]_rseVars => RseInv'
  BY RseKept
<1> QED
  BY <1>1, <1>2, PTL DEF RseSpec

LEMMA SpilledIs == RseInv => SpilledCurrent
<1> SUFFICES ASSUME RseInv, NEW p \in live, rse.anchorRegs <= p, p < rse.flushed
             PROVE backing[RseAddr(rse, p)] = rse.gr[StackSlot(rse, p)]
  BY DEF SpilledCurrent
<1>1. RseStateOk(rse) /\ live \subseteq 0 .. RseDepth - 1 /\ Homed(rse, live, backing)
  BY RseInvIs, Zenon
<1>2. p \in 0 .. RseDepth - 1 /\ p \in Int
  BY <1>1, ConstantsAre
<1>3. RseAddr(rse, p) = RegHome(p + Shift(rse)) /\ StackSlot(rse, p) = p
  BY <1>1, <1>2, RseAddrIs, SlotIs
<1>4. backing[RegHome(p + Shift(rse))] = rse.gr[p]
  BY <1>1 DEF Homed
<1> QED
  BY <1>3, <1>4

\* Every live register below the store boundary is in the backing store as it
\* was written (rse_store_through, rse_load and mov ar.bspstore), whatever the
\* calls, spills, longjmps, interruptions and stack switches before.
THEOREM SpillsCurrent == RseSpec => []SpilledCurrent
<1>1. RseInv => SpilledCurrent
  BY SpilledIs
<1> QED
  BY <1>1, StacksKept, PTL

LEMMA TrapsEnd ==
  ASSUME RseInv, [RseNext]_rseVars, Len(traps') < Len(traps)
  PROVE  steps < RseSteps /\ steps' = steps + 1 /\ RseRfi
<1>1. traps \in Seq(RseTrapSet) /\ Len(traps) \in Nat /\ RseStateOk(rse) /\ live \subseteq 0 .. RseDepth - 1
  BY RseInvIs, Zenon
<1>2. traps' # traps
  BY <1>1
<1>3. RseNext
  BY <1>2 DEF rseVars
<1>4. ~RseWrite /\ ~RseAlloc /\ ~RseCall /\ ~RseRet /\ ~RseRotate /\ ~RseFlushrs /\ ~RseLongjmp
  BY <1>2 DEF RseWrite, RseAlloc, RseCall, RseRet, RseRotate, RseFlushrs, RseLongjmp
<1>5. ASSUME RseInterrupt PROVE FALSE
  <2>1. PICK x : traps' = Append(traps, x)
    BY <1>5 DEF RseInterrupt
  <2>2. Len(traps') = Len(traps) + 1
    BY <1>1, <2>1
  <2> QED
    BY <1>1, <2>2
<1>6. ASSUME NEW k, NEW v, traps' = [traps EXCEPT ![k].store = v] PROVE FALSE
  <2>1. DOMAIN traps' = DOMAIN traps
    BY <1>6
  <2>2. Len(traps') = Len(traps)
    BY <1>1, <1>6, <2>1
  <2> QED
    BY <1>1, <2>2
<1>7. ~RseSwitch /\ ~RseSwitchBack
  BY <1>6 DEF RseSwitch, RseSwitchBack
<1> QED
  BY <1>3, <1>4, <1>5, <1>7 DEF RseNext

LEMMA RfiStep ==
  ASSUME RseInv, [RseNext]_rseVars, Len(traps') < Len(traps)
  PROVE  LET t == Last(traps)
         IN  /\ rse'.total = t.part.total /\ Frame(rse') = Frame(t.part)
             /\ \A p \in t.live : rse'.gr[StackSlot(rse', p)] = t.part.gr[StackSlot(t.part, p)]
<1> DEFINE t == Last(traps)
<1>1. steps < RseSteps /\ steps' = steps + 1 /\ RseRfi
  BY TrapsEnd
<1>2. RfiRestores(rse', t) /\ traps # <<>> /\ Last(calls) = Mark
  BY <1>1, RfiIs DEF RseRfi
<1>3. RseTrapOk(t)
  BY <1>2, FrontTraps, Zenon
<1> HIDE DEF t
<1>4. RseStateOk(t.part) /\ \A p \in t.live : p \in 0 .. RseDepth - 1
  BY <1>3, TrapFields
<1>5. RseStateOk(rse') /\ rse'.total = t.part.total /\ Frame(rse') = Frame(t.part) /\ \A p \in t.live : rse'.gr[p] = t.part.gr[p]
  BY <1>2 DEF RfiRestores
<1>6. ASSUME NEW p \in t.live PROVE rse'.gr[StackSlot(rse', p)] = t.part.gr[StackSlot(t.part, p)]
  <2>1. StackSlot(rse', p) = p /\ StackSlot(t.part, p) = p
    BY <1>4, <1>5, SlotIs
  <2> QED
    BY <1>5, <2>1
<1> QED
  BY <1>5, <1>6 DEF t

\* The rfi that ends an interruption gives the interrupted code back its frame
\* and every register it owned, whatever its handler did: calls, spills, nested
\* interruptions, a stack of its own, a record lost because the array was full.
THEOREM RfiIsTransparent == RseSpec => RfiTransparent
<1> DEFINE Back == LET t == Last(traps)
                   IN  /\ rse'.total = t.part.total /\ Frame(rse') = Frame(t.part)
                       /\ \A p \in t.live : rse'.gr[StackSlot(rse', p)] = t.part.gr[StackSlot(t.part, p)]
<1>1. RseInv /\ [RseNext]_rseVars => [Len(traps') < Len(traps) => Back]_rseVars
  BY RfiStep
<1>2. RseSpec => [][Len(traps') < Len(traps) => Back]_rseVars
  BY <1>1, StacksKept, PTL DEF RseSpec
<1> QED
  BY <1>2 DEF RfiTransparent

\* The rfi that ends an interruption goes back to the slot it interrupted, with
\* the frame and the registers of the code interrupted there.
THEOREM RfiReturnsWhole == RseSpec /\ StepSpec => RfiReturns
  BY RfiIsTransparent, RfiGoesBack DEF RfiReturns

=============================================================================
