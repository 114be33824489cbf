----------------------------- MODULE ChipProofs -----------------------------
(***************************************************************************)
(* Proofs about the chips of the older machines.  The IBM 5150's interrupt *)
(* system: the controller, the diskette, fixed disk, serial and keyboard   *)
(* adapters and their lines, for every set of wired lines, every disk      *)
(* geometry and every set of keys.  The CDP1802 under its video chip, for  *)
(* every frame; the 6502's interrupt lines; and nested interrupts of the   *)
(* Z80 and the 8086, for every program.                                    *)
(***************************************************************************)
EXTENDS Ibm5150, Cdp1802, Mos6502, Z80, I8086, SequenceTheorems, FiniteSetTheorems,
        WellFoundedInduction, TLAPS

----------------------------------------------------------------------------
(***************************************************************************)
(* The interrupt controller.                                               *)
(***************************************************************************)

Irqs == 0..7
PicRecs == [imr : SUBSET Irqs, irr : SUBSET Irqs, isr : SUBSET Irqs, lines : SUBSET Irqs,
            auto_eoi : BOOLEAN, level_mode : BOOLEAN, poll : BOOLEAN, icws : Seq(2..4)]

Descending(s) == \A i, j \in 1..Len(s) : i < j => s[j] < s[i]
Served(s) == {s[i] : i \in 1..Len(s)}

PicInv ==
    /\ pic \in PicRecs /\ nest \in Seq(Irqs)
    /\ Descending(nest) /\ pic.isr = Served(nest)
    /\ pic.lines \subseteq pic.irr \cup seen

LEMMA PicFields ==
  ASSUME NEW p \in PicRecs
  PROVE  /\ p.imr \in SUBSET Irqs /\ p.irr \in SUBSET Irqs /\ p.isr \in SUBSET Irqs
         /\ p.lines \in SUBSET Irqs /\ p.auto_eoi \in BOOLEAN /\ p.level_mode \in BOOLEAN
         /\ p.poll \in BOOLEAN /\ p.icws \in Seq(2..4)
BY DEF PicRecs

\* A line above all in service is put last.
LEMMA EnteredLast ==
  ASSUME NEW s \in Seq(Irqs), Descending(s), NEW l \in Irqs, \A m \in Served(s) : l < m
  PROVE  /\ Append(s, l) \in Seq(Irqs) /\ Descending(Append(s, l))
         /\ Served(Append(s, l)) = Served(s) \cup {l}
<1> DEFINE n == Len(s)
           a == Append(s, l)
<1>1. n \in Nat /\ \A i \in 1..n : s[i] \in Irqs
  BY LenProperties, ElementOfSeq
<1>2. a \in Seq(Irqs) /\ Len(a) = n + 1 /\ a[n + 1] = l /\ \A i \in 1..n : a[i] = s[i]
  BY <1>1, AppendProperties
<1>3. \A i \in 1..n : l < s[i]
  BY DEF Served
<1>4. \A i \in 1..n : s[i] \in Served(s)
  BY DEF Served
<1> HIDE DEF a
<1>5. Descending(a)
  <2> SUFFICES ASSUME NEW i \in 1..Len(a), NEW j \in 1..Len(a), i < j
               PROVE  a[j] < a[i]
    BY DEF Descending
  <2>1. i \in 1..n /\ (j \in 1..n \/ j = n + 1)
    BY <1>1, <1>2
  <2>2. j \in 1..n => s[j] < s[i]
    BY <2>1 DEF Descending
  <2> QED
    BY <1>2, <1>3, <2>1, <2>2
<1> HIDE DEF n
<1>6. Served(a) = Served(s) \cup {l}
  <2>1. \A i : i \in 1..(n + 1) <=> i \in 1..n \/ i = n + 1
    BY <1>1
  <2>2. \A x : x \in Served(s) <=> \E i \in 1..n : x = s[i]
    BY DEF Served, n
  <2>3. \A x : x \in Served(a) <=> \E i \in 1..(n + 1) : x = a[i]
    BY <1>2 DEF Served
  <2>4. \A x : x \in Served(a) <=> x \in Served(s) \/ x = l
    BY <1>1, <1>2, <2>1, <2>2, <2>3
  <2> QED
    BY <2>4, Zenon
<1> QED
  BY <1>2, <1>5, <1>6 DEF a

\* The end of a line's handler takes just that line out.
LEMMA LineLeaves ==
  ASSUME NEW s \in Seq(Irqs), Descending(s), NEW l
  PROVE  /\ Without(s, l) \in Seq(Irqs) /\ Descending(Without(s, l))
         /\ Served(Without(s, l)) = Served(s) \ {l}
<1> DEFINE n == Len(s)
           w == Without(s, l)
<1>1. n \in Nat /\ DOMAIN s = 1..n /\ \A i \in 1..n : s[i] \in Irqs
  BY LenProperties, ElementOfSeq
<1>2. \A x : x \in Served(s) <=> \E i \in 1..n : x = s[i]
  BY DEF Served
<1>0. \A i \in 1..n, j \in 1..n : i < j => s[j] < s[i]
  BY DEF Descending
<1> HIDE DEF n
<1>3. CASE \A i \in 1..n : s[i] # l
  <2>1. w = s
    BY <1>1, <1>3 DEF Without
  <2>2. Served(s) \ {l} = Served(s)
    BY <1>2, <1>3
  <2> QED
    BY <2>1, <2>2
<1>4. CASE \E i \in 1..n : s[i] = l
  <2> DEFINE at == CHOOSE i \in 1..n : s[i] = l
  <2>1. at \in 1..n /\ s[at] = l
    BY <1>4
  <2>2. w = [i \in 1..(n - 1) |-> IF i < at THEN s[i] ELSE s[i + 1]]
    <3>1. ~(\A i \in DOMAIN s : s[i] # l)
      BY <1>1, <1>4
    <3>2. w = LET k == CHOOSE i \in DOMAIN s : s[i] = l
              IN  [i \in 1..(Len(s) - 1) |-> IF i < k THEN s[i] ELSE s[i + 1]]
      BY <3>1, Zenon DEF Without
    <3> QED
      BY <1>1, <3>2 DEF n
  <2> HIDE DEF at, w
  <2>3. \A i \in 1..(n - 1) : /\ i < at => w[i] = s[i]
                              /\ ~(i < at) => w[i] = s[i + 1]
                              /\ i \in 1..n /\ i + 1 \in 1..n
    <3>1. \A i \in 1..(n - 1) : i \in 1..n /\ i + 1 \in 1..n
      BY <1>1
    <3>2. \A i \in 1..(n - 1) : w[i] = IF i < at THEN s[i] ELSE s[i + 1]
      BY <2>2
    <3> QED
      BY <3>1, <3>2
  <2>4. n - 1 \in Nat /\ w \in [1..(n - 1) -> Irqs]
    BY <1>1, <2>1, <2>2, <2>3
  <2>5. w \in Seq(Irqs) /\ Len(w) = n - 1
    BY <2>4, SeqDef, LenProperties
  <2>6. Descending(w)
    <3> SUFFICES ASSUME NEW i \in 1..(n - 1), NEW j \in 1..(n - 1), i < j
                 PROVE  w[j] < w[i]
      BY <2>5 DEF Descending
    <3>1. /\ i \in 1..n /\ i + 1 \in 1..n /\ j \in 1..n /\ j + 1 \in 1..n
      BY <2>3
    <3>2. i \in Int /\ j \in Int /\ at \in Int /\ i + 1 < j + 1 /\ (i < at => i < j + 1)
      BY <1>1, <2>1
    <3>3. CASE i < at /\ j < at
      BY <1>0, <2>3, <3>1, <3>3
    <3>4. CASE i < at /\ ~(j < at)
      BY <1>0, <2>3, <3>1, <3>2, <3>4
    <3>5. CASE ~(i < at)
      <4>1. ~(j < at)
        BY <3>2, <3>5
      <4> QED
        BY <1>0, <2>3, <3>1, <3>2, <3>5, <4>1
    <3> QED
      BY <3>3, <3>4, <3>5
  <2>7. \A x : x \in Served(w) <=> \E i \in 1..(n - 1) : x = w[i]
    BY <2>5 DEF Served
  <2>8. \A i \in 1..n : i # at => s[i] # l
    BY <1>0, <1>1, <2>1 DEF Irqs
  <2>9. \A x \in Served(w) : x \in Served(s) /\ x # l
    <3> SUFFICES ASSUME NEW i \in 1..(n - 1) PROVE w[i] \in Served(s) /\ w[i] # l
      BY <2>7
    <3>2. ~(i < at) => i + 1 # at
      BY <1>1, <2>1
    <3>3. i < at => i # at
      BY <1>1, <2>1
    <3>4. i \in 1..n /\ i + 1 \in 1..n /\ (i < at => w[i] = s[i]) /\ (~(i < at) => w[i] = s[i + 1])
      BY <2>3
    <3> QED
      BY <1>2, <2>8, <3>2, <3>3, <3>4
  <2>10. \A x \in Served(s) : x # l => x \in Served(w)
    <3> SUFFICES ASSUME NEW i \in 1..n, s[i] # l PROVE \E k \in 1..(n - 1) : s[i] = w[k]
      BY <1>2, <2>7
    <3>1. i \in Int /\ at \in Int /\ i # at
      BY <1>1, <2>1
    <3>2. CASE i < at
      <4>1. i \in 1..(n - 1)
        BY <1>1, <2>1, <3>2
      <4> QED
        BY <2>3, <3>2, <4>1
    <3>3. CASE ~(i < at)
      <4>1. i - 1 \in 1..(n - 1) /\ ~(i - 1 < at) /\ (i - 1) + 1 = i
        BY <1>1, <2>1, <3>1, <3>3
      <4>2. w[i - 1] = s[(i - 1) + 1]
        BY <2>3, <4>1
      <4> QED
        BY <4>1, <4>2
    <3> QED
      BY <3>2, <3>3
  <2>11. Served(w) = Served(s) \ {l}
    BY <2>9, <2>10
  <2> QED
    BY <2>5, <2>6, <2>11 DEF w
<1> QED
  BY <1>3, <1>4

LEMMA LinesOfPic == Lines \subseteq Irqs /\ {0, 1, 4, 5, 6} \subseteq Irqs
BY PicAssumption DEF Irqs

\* Writing one register of the controller.
LEMMA PicWritten ==
  ASSUME PicInv, pic' \in PicRecs, nest' = nest, seen' = seen,
         pic'.isr = pic.isr, pic'.lines = pic.lines, pic'.irr = pic.irr
  PROVE  PicInv'
BY DEF PicInv

LEMMA PicStarts ==
  ASSUME NEW p, p = PicAfterReset
  PROVE  p \in PicRecs /\ p.isr = {} /\ p.lines = {} /\ p.irr = {}
<1>1. <<>> \in Seq(2..4)
  BY EmptySeq
<1>2. PicReset \in PicRecs
  BY <1>1, LinesOfPic DEF PicReset, PicRecs
<1>3. [PicReset EXCEPT !.imr = {}] \in PicRecs
  BY <1>2 DEF PicRecs
<1> QED
  BY <1>2, <1>3 DEF PicAfterReset, PicReset

LEMMA NoneServed ==
  /\ <<>> \in Seq(Irqs) /\ Descending(<<>>) /\ Served(<<>>) = {}
<1>1. <<>> \in Seq(Irqs) /\ Len(<<>>) = 0
  BY EmptySeq
<1>2. Descending(<<>>)
  BY <1>1 DEF Descending
<1>3. Served(<<>>) = {}
  BY <1>1 DEF Served
<1> QED
  BY <1>1, <1>2, <1>3

LEMMA AcknowledgeKeeps ==
  ASSUME PicInv, NEW l \in Deliverable, NEW poll \in BOOLEAN, Acknowledge(l, poll)
  PROVE  PicInv' /\ pic'.lines = pic.lines
<1> DEFINE irr == (pic.irr \ {l}) \cup (IF pic.level_mode THEN {l} \cap pic.lines ELSE {})
           isr == IF pic.auto_eoi THEN pic.isr ELSE pic.isr \cup {l}
<1>1. /\ pic \in PicRecs /\ pic.irr \in SUBSET Irqs /\ pic.isr \in SUBSET Irqs
      /\ pic.lines \in SUBSET Irqs
  BY PicFields DEF PicInv
<1>2. l \in pic.irr /\ OutranksAll(l)
  BY DEF Deliverable, Highest
<1>3. /\ pic' = [pic EXCEPT !.irr = irr, !.isr = isr, !.poll = poll]
      /\ nest' = IF pic.auto_eoi THEN nest ELSE Append(nest, l)
      /\ seen' = seen \cup {l}
  BY DEF Acknowledge
<1>4. irr \in SUBSET Irqs /\ isr \in SUBSET Irqs
  BY <1>1, <1>2
<1>5. pic.lines \subseteq irr \cup (seen \cup {l})
  BY DEF PicInv
<1> HIDE DEF irr
<1>6. CASE pic.auto_eoi
  <2>1. pic' = [pic EXCEPT !.irr = irr, !.isr = pic.isr, !.poll = poll]
    BY <1>3, <1>6
  <2>2. /\ pic' \in PicRecs /\ pic'.irr = irr /\ pic'.isr = pic.isr /\ pic'.lines = pic.lines
    BY <1>1, <1>4, <2>1 DEF PicRecs
  <2> QED
    BY <1>3, <1>5, <1>6, <2>2 DEF PicInv
<1>7. CASE ~pic.auto_eoi
  <2>1. pic' = [pic EXCEPT !.irr = irr, !.isr = pic.isr \cup {l}, !.poll = poll]
    BY <1>3, <1>7
  <2>2. /\ pic' \in PicRecs /\ pic'.irr = irr /\ pic'.isr = pic.isr \cup {l}
        /\ pic'.lines = pic.lines
    BY <1>1, <1>2, <1>4, <2>1 DEF PicRecs
  <2>3. nest \in Seq(Irqs) /\ Descending(nest) /\ l \in Irqs /\ \A m \in Served(nest) : l < m
    BY <1>1, <1>2 DEF PicInv, OutranksAll
  <2>4. /\ Append(nest, l) \in Seq(Irqs) /\ Descending(Append(nest, l))
        /\ Served(Append(nest, l)) = Served(nest) \cup {l}
    BY <2>3, EnteredLast
  <2> QED
    BY <1>3, <1>5, <1>7, <2>2, <2>4 DEF PicInv
<1> QED
  BY <1>6, <1>7

LEMMA EndKeeps ==
  ASSUME PicInv, NEW l, EndOf(l)
  PROVE  PicInv' /\ pic'.lines = pic.lines
<1>1. pic \in PicRecs /\ pic.isr \in SUBSET Irqs
  BY PicFields DEF PicInv
<1>2. pic' = [pic EXCEPT !.isr = pic.isr \ {l}] /\ nest' = Without(nest, l) /\ seen' = seen
  BY DEF EndOf
<1>3. /\ pic' \in PicRecs /\ pic'.irr = pic.irr /\ pic'.isr = pic.isr \ {l}
      /\ pic'.lines = pic.lines
  BY <1>1, <1>2 DEF PicRecs
<1>4. /\ nest' \in Seq(Irqs) /\ Descending(nest') /\ Served(nest') = Served(nest) \ {l}
  BY <1>2, LineLeaves DEF PicInv
<1> QED
  BY <1>2, <1>3, <1>4 DEF PicInv

LEMMA IcwsTyped ==
  ASSUME NEW single \in BOOLEAN, NEW icw4 \in BOOLEAN
  PROVE  <<2>> \o (IF single THEN <<>> ELSE <<3>>) \o (IF icw4 THEN <<4>> ELSE <<>>) \in Seq(2..4)
<1>1. <<2>> \in Seq(2..4) /\ <<3>> \in Seq(2..4) /\ <<4>> \in Seq(2..4) /\ <<>> \in Seq(2..4)
  OBVIOUS
<1> DEFINE a == IF single THEN <<>> ELSE <<3>>
           b == IF icw4 THEN <<4>> ELSE <<>>
<1>2. a \in Seq(2..4) /\ b \in Seq(2..4)
  BY <1>1
<1> HIDE DEF a, b
<1>3. <<2>> \o a \in Seq(2..4)
  BY <1>1, <1>2, ConcatProperties
<1>4. (<<2>> \o a) \o b \in Seq(2..4)
  BY <1>2, <1>3, ConcatProperties
<1> QED
  BY <1>4 DEF a, b

LEMMA Icw1Keeps ==
  ASSUME PicInv, NEW level \in BOOLEAN, NEW single \in BOOLEAN, NEW icw4 \in BOOLEAN,
         Icw1(level, single, icw4)
  PROVE  PicInv' /\ pic'.lines = pic.lines
<1> DEFINE words == <<2>> \o (IF single THEN <<>> ELSE <<3>>) \o (IF icw4 THEN <<4>> ELSE <<>>)
           irr == IF level THEN pic.lines ELSE {}
<1>1. pic \in PicRecs /\ pic.lines \in SUBSET Irqs
  BY PicFields DEF PicInv
<1>2. words \in Seq(2..4) /\ irr \in SUBSET Irqs
  BY <1>1, IcwsTyped
<1>3. /\ pic' = [pic EXCEPT !.level_mode = level, !.imr = {}, !.isr = {}, !.irr = irr,
                           !.auto_eoi = FALSE, !.poll = FALSE, !.icws = words]
      /\ nest' = <<>> /\ seen' = IF level THEN seen ELSE seen \cup pic.lines
  BY DEF Icw1
<1>4. pic.lines \subseteq irr \cup seen'
  BY <1>3 DEF PicInv
<1> HIDE DEF words, irr
<1>5. pic' \in PicRecs /\ pic'.isr = {} /\ pic'.irr = irr /\ pic'.lines = pic.lines
  BY <1>1, <1>2, <1>3 DEF PicRecs
<1> QED
  BY <1>3, <1>4, <1>5, NoneServed DEF PicInv

LEMMA ProgramKeeps ==
  ASSUME PicInv, ProgramPic
  PROVE  PicInv' /\ pic'.lines = pic.lines
<1>1. pic \in PicRecs /\ pic.icws \in Seq(2..4) /\ pic.auto_eoi \in BOOLEAN
  BY PicFields DEF PicInv
<1>2. CASE PollRead
  <2>1. CASE \E l \in Deliverable : Acknowledge(l, FALSE)
    BY <2>1, AcknowledgeKeeps
  <2>2. CASE pic' = [pic EXCEPT !.poll = FALSE] /\ UNCHANGED <<nest, seen>>
    <3>1. /\ pic' \in PicRecs /\ pic'.irr = pic.irr /\ pic'.isr = pic.isr
          /\ pic'.lines = pic.lines
      BY <1>1, <2>2 DEF PicRecs
    <3> QED
      BY <2>2, <3>1, PicWritten
  <2> QED
    BY <1>2, <2>1, <2>2 DEF PollRead
<1>3. CASE \E level, single, icw4 \in BOOLEAN : Icw1(level, single, icw4)
  BY <1>3, Icw1Keeps
<1>4. CASE \E auto \in BOOLEAN : IcwNext(auto)
  <2>1. PICK auto \in BOOLEAN : IcwNext(auto)
    BY <1>4
  <2> DEFINE eoi == IF Head(pic.icws) = 4 THEN auto ELSE pic.auto_eoi
  <2>2. eoi \in BOOLEAN
    BY <1>1
  <2> HIDE DEF eoi
  <2>3. /\ pic' = [pic EXCEPT !.icws = Tail(pic.icws), !.auto_eoi = eoi] /\ pic.icws # <<>>
        /\ UNCHANGED <<nest, seen>>
    BY <2>1 DEF IcwNext, eoi
  <2>4. Tail(pic.icws) \in Seq(2..4)
    BY <1>1, <2>3, HeadTailProperties
  <2>5. /\ pic' \in PicRecs /\ pic'.irr = pic.irr /\ pic'.isr = pic.isr /\ pic'.lines = pic.lines
    BY <1>1, <2>2, <2>3, <2>4 DEF PicRecs
  <2> QED
    BY <2>3, <2>5, PicWritten
<1>5. CASE \E mask \in SUBSET {0, 1, 6} : Ocw1(mask)
  <2>1. PICK mask \in SUBSET {0, 1, 6} : Ocw1(mask)
    BY <1>5
  <2>2. pic' = [pic EXCEPT !.imr = mask] /\ UNCHANGED <<nest, seen>> /\ mask \in SUBSET Irqs
    BY <2>1, LinesOfPic DEF Ocw1
  <2>3. /\ pic' \in PicRecs /\ pic'.irr = pic.irr /\ pic'.isr = pic.isr /\ pic'.lines = pic.lines
    BY <1>1, <2>2 DEF PicRecs
  <2> QED
    BY <2>2, <2>3, PicWritten
<1>6. CASE \E l \in {0, 1, 6} : SpecificEoi(l)
  BY <1>6, EndKeeps DEF SpecificEoi
<1>7. CASE \E poll \in BOOLEAN : Ocw3(poll)
  <2>1. PICK poll \in BOOLEAN : Ocw3(poll)
    BY <1>7
  <2>2. pic' = [pic EXCEPT !.poll = poll] /\ UNCHANGED <<nest, seen>>
    BY <2>1 DEF Ocw3
  <2>3. /\ pic' \in PicRecs /\ pic'.irr = pic.irr /\ pic'.isr = pic.isr /\ pic'.lines = pic.lines
    BY <1>1, <2>2 DEF PicRecs
  <2> QED
    BY <2>2, <2>3, PicWritten
<1> QED
  BY <1>2, <1>3, <1>4, <1>5, <1>6, <1>7 DEF ProgramPic

LEMMA InterruptsKeep ==
  ASSUME PicInv, Interrupts
  PROVE  PicInv' /\ pic'.lines = pic.lines
<1>1. pic.poll \in BOOLEAN
  BY PicFields DEF PicInv
<1>2. CASE TakeInterrupt
  BY <1>1, <1>2, AcknowledgeKeeps DEF TakeInterrupt
<1>3. CASE Eoi
  BY <1>3, EndKeeps DEF Eoi
<1> QED
  BY <1>2, <1>3 DEF Interrupts

\* A line moves: it is requested or was acknowledged since it rose.
LEMMA LineKeeps ==
  ASSUME PicInv, NEW on \in SUBSET Irqs, NEW off \in SUBSET Irqs, on \cap off = {},
         SetIrq(on, off)
  PROVE  PicInv' /\ pic'.lines = (pic.lines \ off) \cup on
<1> DEFINE irr == (IF pic.level_mode THEN pic.irr \ off ELSE pic.irr) \cup Latched(on)
           lines == (pic.lines \ off) \cup on
<1>1. /\ pic \in PicRecs /\ pic.irr \in SUBSET Irqs /\ pic.lines \in SUBSET Irqs
  BY PicFields DEF PicInv
<1>2. irr \in SUBSET Irqs /\ lines \in SUBSET Irqs
  BY <1>1 DEF Latched
<1>3. /\ pic' = [pic EXCEPT !.lines = lines, !.irr = irr]
      /\ seen' = (seen \ off) \ (on \ pic.lines) /\ nest' = nest
  BY DEF SetIrq
<1>4. lines \subseteq irr \cup seen'
  BY <1>3 DEF PicInv, Latched
<1> HIDE DEF irr, lines
<1>5. pic' \in PicRecs /\ pic'.isr = pic.isr /\ pic'.irr = irr /\ pic'.lines = lines
  BY <1>1, <1>2, <1>3 DEF PicRecs
<1> QED
  BY <1>3, <1>4, <1>5 DEF PicInv, lines

LEMMA DriveKeeps ==
  ASSUME PicInv, NEW line \in Irqs, NEW level, DriveLine(line, level)
  PROVE  /\ PicInv'
         /\ \A l : l \in pic'.lines <=> (l = line /\ level) \/ (l # line /\ l \in pic.lines)
<1>1. CASE level
  <2>1. SetIrq({line}, {})
    BY <1>1 DEF DriveLine
  <2>2. PicInv' /\ pic'.lines = (pic.lines \ {}) \cup {line}
    BY <2>1, LineKeeps
  <2> QED
    BY <1>1, <2>2
<1>2. CASE ~level
  <2>1. SetIrq({}, {line})
    BY <1>2 DEF DriveLine
  <2>2. PicInv' /\ pic'.lines = (pic.lines \ {line}) \cup {}
    BY <2>1, LineKeeps
  <2> QED
    BY <1>2, <2>2
<1> QED
  BY <1>1, <1>2

----------------------------------------------------------------------------
(***************************************************************************)
(* The diskette controller.                                                *)
(***************************************************************************)

FdcRecs == [enabled : BOOLEAN, gate : BOOLEAN, op : Ops \cup {NoOp}, cmd_len : Nat,
            res_len : {0, 1, 2, 7}, res_pos : Nat, busy : BOOLEAN, irq_after : BOOLEAN,
            irq : BOOLEAN, ints : Seq({"ready", "seek"}), out : BOOLEAN]

\* A delay that ends with an interrupt has a transfer's result or a status
\* behind it; an interrupt that is raised has one still, for a polite guest.
FdcSound(f, p, o) ==
  /\ f.out <=> f.irq /\ f.gate
  /\ f.irq_after => /\ f.busy /\ f.res_len \in {0, 7} /\ f.res_pos = 0
                    /\ f.res_len = 0 => f.ints # <<>>
  /\ f.busy => f.cmd_len = 0
  /\ p /\ o => f.cmd_len = 0
  /\ p /\ f.irq => /\ ~f.irq_after
                   /\ (o /\ f.ints # <<>>) \/ (f.res_len = 7 /\ f.res_pos = 0)

FdcInv == /\ fdc \in FdcRecs /\ polite \in BOOLEAN /\ owed \in BOOLEAN
          /\ FdcSound(fdc, polite, owed)

LEMMA FdcFields ==
  ASSUME NEW f \in FdcRecs
  PROVE  /\ f.enabled \in BOOLEAN /\ f.gate \in BOOLEAN /\ f.op \in Ops \cup {NoOp}
         /\ f.cmd_len \in Nat /\ f.res_len \in {0, 1, 2, 7} /\ f.res_pos \in Nat
         /\ f.busy \in BOOLEAN /\ f.irq_after \in BOOLEAN /\ f.irq \in BOOLEAN
         /\ f.ints \in Seq({"ready", "seek"}) /\ f.out \in BOOLEAN
BY DEF FdcRecs

SetTo(f, level, r) ==
  /\ r \in FdcRecs /\ (r.irq <=> level) /\ (r.out <=> level /\ f.gate)
  /\ r.enabled = f.enabled /\ (r.gate <=> f.gate) /\ r.op = f.op /\ r.cmd_len = f.cmd_len
  /\ r.res_len = f.res_len /\ r.res_pos = f.res_pos /\ (r.busy <=> f.busy)
  /\ (r.irq_after <=> f.irq_after) /\ r.ints = f.ints

LEMMA SetIrqIs ==
  ASSUME NEW f \in FdcRecs, NEW level \in BOOLEAN
  PROVE  SetTo(f, level, SetFdcIrq(f, level))
<1> DEFINE out == level /\ f.gate
           r == SetFdcIrq(f, level)
<1>1. out \in BOOLEAN
  OBVIOUS
<1> HIDE DEF out
<1>2. r = [f EXCEPT !.irq = level, !.out = out]
  BY DEF SetFdcIrq, out
<1> HIDE DEF r
<1>3. /\ r \in FdcRecs /\ r.irq = level /\ r.out = out
      /\ r.enabled = f.enabled /\ r.gate = f.gate /\ r.op = f.op /\ r.cmd_len = f.cmd_len
      /\ r.res_len = f.res_len /\ r.res_pos = f.res_pos /\ r.busy = f.busy
      /\ r.irq_after = f.irq_after /\ r.ints = f.ints
  BY <1>1, <1>2 DEF FdcRecs
<1>4. SetTo(f, level, r)
  BY <1>3 DEF SetTo, out
<1> QED
  BY <1>4 DEF r

Cleared(r) == /\ r \in FdcRecs /\ ~r.irq /\ ~r.out /\ r.cmd_len = 0 /\ r.res_len = 0
              /\ r.res_pos = 0 /\ ~r.busy /\ ~r.irq_after

LEMMA ResetIs ==
  ASSUME NEW f \in FdcRecs
  PROVE  Cleared(ResetFdc(f))
<1> DEFINE c == [f EXCEPT !.op = NoOp, !.cmd_len = 0, !.res_len = 0, !.res_pos = 0,
                          !.busy = FALSE, !.irq_after = FALSE, !.ints = <<>>]
<1>1. <<>> \in Seq({"ready", "seek"})
  BY EmptySeq
<1>2. /\ c \in FdcRecs /\ c.cmd_len = 0 /\ c.res_len = 0 /\ c.res_pos = 0 /\ ~c.busy
      /\ ~c.irq_after
  BY <1>1 DEF FdcRecs
<1>3. ResetFdc(f) = SetFdcIrq(c, FALSE)
  BY DEF ResetFdc
<1> HIDE DEF c
<1>4. SetTo(c, FALSE, SetFdcIrq(c, FALSE))
  BY <1>2, SetIrqIs
<1> QED
  BY <1>2, <1>3, <1>4 DEF SetTo, Cleared

\* The result of a command takes the place of the one before.
WithResult(f, n, wait, r) ==
  /\ r \in FdcRecs /\ r.res_len = n /\ r.res_pos = 0 /\ (r.busy <=> wait)
  /\ (r.irq_after <=> wait) /\ (r.irq <=> f.irq) /\ (r.out <=> f.out) /\ (r.gate <=> f.gate)
  /\ r.ints = f.ints

LEMMA ResultIs ==
  ASSUME NEW f \in FdcRecs, NEW n \in {0, 1, 2, 7}
  PROVE  WithResult(f, n, FALSE, ResultNow(f, n)) /\ WithResult(f, n, TRUE, ResultLater(f, n))
<1>1. ASSUME NEW w \in BOOLEAN
      PROVE  WithResult(f, n, w, [f EXCEPT !.res_len = n, !.res_pos = 0, !.busy = w,
                                           !.irq_after = w])
  <2> DEFINE r == [f EXCEPT !.res_len = n, !.res_pos = 0, !.busy = w, !.irq_after = w]
  <2>1. r \in FdcRecs
    BY DEF FdcRecs
  <2>2. /\ r.res_len = n /\ r.res_pos = 0 /\ r.busy = w /\ r.irq_after = w /\ r.irq = f.irq
        /\ r.out = f.out /\ r.gate = f.gate /\ r.ints = f.ints
    BY DEF FdcRecs
  <2> HIDE DEF r
  <2>3. WithResult(f, n, w, r)
    BY <2>1, <2>2 DEF WithResult
  <2> QED
    BY <2>3 DEF r
<1>2. ResultNow(f, n) = [f EXCEPT !.res_len = n, !.res_pos = 0, !.busy = FALSE,
                                  !.irq_after = FALSE]
  BY DEF ResultNow
<1>3. ResultLater(f, n) = [f EXCEPT !.res_len = n, !.res_pos = 0, !.busy = TRUE,
                                    !.irq_after = TRUE]
  BY DEF ResultLater
<1>4. WithResult(f, n, FALSE, ResultNow(f, n))
  BY <1>1, <1>2
<1>5. WithResult(f, n, TRUE, ResultLater(f, n))
  BY <1>1, <1>3
<1> QED
  BY <1>4, <1>5

\* What a command leaves: its interrupt is raised later, and a sense takes it.
Executed(f, op, r) ==
  /\ r \in FdcRecs /\ (r.out <=> r.irq /\ r.gate)
  /\ r.irq_after => /\ r.busy /\ r.res_len \in {0, 7} /\ r.res_pos = 0
                    /\ r.res_len = 0 => r.ints # <<>>
  /\ op = "sense_interrupt" /\ f.ints # <<>> => ~r.irq
  /\ r.irq => f.irq

LEMMA ExecuteIs ==
  ASSUME NEW f \in FdcRecs, NEW op \in Ops, f.out <=> f.irq /\ f.gate, ~f.irq_after
  PROVE  Executed(f, op, Execute(f, op))
<1>1. op \in {"transfer", "format", "read_id", "seek", "recalibrate", "sense_interrupt",
             "sense_drive", "specify", "scan", "invalid"}
  BY DEF Ops, CommandLength
<1>2. CASE op = "specify"
  <2>1. Execute(f, op) = f
    BY <1>2 DEF Execute
  <2> QED
    BY <1>2, <2>1 DEF Executed
<1>3. CASE op \in {"sense_drive", "scan", "invalid"} \/ (op = "sense_interrupt" /\ f.ints = <<>>)
  <2>1. Execute(f, op) = ResultNow(f, 1)
    BY <1>3 DEF Execute
  <2>2. WithResult(f, 1, FALSE, ResultNow(f, 1))
    BY ResultIs
  <2> QED
    BY <1>3, <2>1, <2>2 DEF Executed, WithResult
<1>4. CASE op \in {"seek", "recalibrate"}
  <2> DEFINE s == [f EXCEPT !.ints = <<"seek">>]
  <2>1. <<"seek">> \in Seq({"ready", "seek"}) /\ <<"seek">> # <<>>
    OBVIOUS
  <2>2. /\ s \in FdcRecs /\ s.irq = f.irq /\ s.out = f.out /\ s.gate = f.gate
        /\ s.ints = <<"seek">>
    BY <2>1 DEF FdcRecs
  <2>3. Execute(f, op) = ResultLater(s, 0)
    BY <1>4 DEF Execute, Seek
  <2> HIDE DEF s
  <2>4. WithResult(s, 0, TRUE, ResultLater(s, 0))
    BY <2>2, ResultIs
  <2> QED
    BY <1>4, <2>1, <2>2, <2>3, <2>4 DEF Executed, WithResult
<1>5. CASE op = "sense_interrupt" /\ f.ints # <<>>
  <2> DEFINE s == [f EXCEPT !.ints = Tail(f.ints)]
             t == SetFdcIrq(s, FALSE)
  <2>1. Tail(f.ints) \in Seq({"ready", "seek"})
    BY <1>5, FdcFields, HeadTailProperties
  <2>2. s \in FdcRecs /\ s.gate = f.gate
    BY <2>1 DEF FdcRecs
  <2>3. Execute(f, op) = ResultNow(t, 2)
    BY <1>5 DEF Execute, SenseInterrupt
  <2> HIDE DEF s
  <2>4. SetTo(s, FALSE, t)
    BY <2>2, SetIrqIs
  <2> HIDE DEF t
  <2>5. WithResult(t, 2, FALSE, ResultNow(t, 2))
    BY <2>4, ResultIs DEF SetTo
  <2> QED
    BY <2>3, <2>4, <2>5 DEF Executed, WithResult, SetTo
<1>6. CASE op \in {"transfer", "format", "read_id"}
  <2>1. Execute(f, op) = ResultLater(f, 7)
    BY <1>6 DEF Execute
  <2>2. WithResult(f, 7, TRUE, ResultLater(f, 7))
    BY ResultIs
  <2> QED
    BY <1>6, <2>1, <2>2 DEF Executed, WithResult
<1> QED
  BY <1>1, <1>2, <1>3, <1>4, <1>5, <1>6

LEMMA CommandKeeps ==
  ASSUME FdcInv, NEW op \in Ops, FdcCommand(op)
  PROVE  FdcInv'
<1>1. /\ fdc \in FdcRecs /\ polite \in BOOLEAN /\ owed \in BOOLEAN
      /\ FdcSound(fdc, polite, owed)
      /\ fdc.cmd_len \in Nat /\ fdc.res_len \in {0, 1, 2, 7} /\ fdc.res_pos \in Nat
  BY FdcFields DEF FdcInv
<1>2. /\ ~fdc.busy /\ fdc.res_pos >= fdc.res_len
      /\ fdc.cmd_len = 0 => (polite /\ owed => op = "sense_interrupt")
      /\ owed' = (owed /\ op # "sense_interrupt") /\ polite' = polite
  BY DEF FdcCommand
<1>3. ~fdc.irq_after /\ (fdc.out <=> fdc.irq /\ fdc.gate)
  BY <1>1, <1>2 DEF FdcSound
<1>4. polite /\ owed => op = "sense_interrupt" /\ fdc.cmd_len = 0
  BY <1>1, <1>2 DEF FdcSound
<1>5. polite /\ fdc.irq => owed /\ fdc.ints # <<>>
  BY <1>1, <1>2 DEF FdcSound
<1>6. ~(polite /\ owed')
  BY <1>2, <1>4
<1>7. CASE fdc.cmd_len + 1 >= CommandLength[op]
  <2> DEFINE e == Execute(fdc, op)
  <2>1. Executed(fdc, op, e)
    BY <1>1, <1>3, ExecuteIs
  <2> HIDE DEF e
  <2>2. fdc' = [e EXCEPT !.op = NoOp, !.cmd_len = 0]
    BY <1>7 DEF FdcCommand, e
  <2>3. e \in FdcRecs
    BY <2>1 DEF Executed
  <2>4. /\ fdc' \in FdcRecs /\ fdc'.cmd_len = 0 /\ fdc'.irq = e.irq /\ fdc'.out = e.out
        /\ fdc'.gate = e.gate /\ fdc'.irq_after = e.irq_after /\ fdc'.busy = e.busy
        /\ fdc'.res_len = e.res_len /\ fdc'.res_pos = e.res_pos /\ fdc'.ints = e.ints
    BY <2>2, <2>3 DEF FdcRecs
  <2>5. ~(polite /\ e.irq)
    BY <1>4, <1>5, <2>1 DEF Executed
  <2>6. FdcSound(fdc', polite', owed')
    BY <1>2, <1>6, <2>1, <2>4, <2>5 DEF FdcSound, Executed
  <2> QED
    BY <1>1, <1>2, <2>4, <2>6 DEF FdcInv
<1>8. CASE ~(fdc.cmd_len + 1 >= CommandLength[op])
  <2> DEFINE len == fdc.cmd_len + 1
  <2>0. len \in Nat /\ op \in Ops \cup {NoOp}
    BY <1>1
  <2>1. fdc' = [fdc EXCEPT !.op = op, !.cmd_len = len]
    BY <1>8 DEF FdcCommand
  <2> HIDE DEF len
  <2>2. /\ fdc' \in FdcRecs /\ fdc'.irq = fdc.irq /\ fdc'.out = fdc.out
        /\ fdc'.gate = fdc.gate /\ ~fdc'.irq_after /\ ~fdc'.busy
    BY <1>1, <1>2, <1>3, <2>0, <2>1 DEF FdcRecs
  <2>3. op = "sense_interrupt" => fdc.cmd_len + 1 >= CommandLength[op]
    BY <1>1 DEF CommandLength
  <2>4. ~(polite /\ fdc.irq)
    BY <1>4, <1>5, <1>8, <2>3
  <2>5. FdcSound(fdc', polite', owed')
    BY <1>2, <1>3, <1>6, <2>2, <2>4 DEF FdcSound
  <2> QED
    BY <1>1, <1>2, <2>2, <2>5 DEF FdcInv
<1> QED
  BY <1>7, <1>8

LEMMA ResultKeeps ==
  ASSUME FdcInv, FdcResult
  PROVE  FdcInv'
<1> DEFINE f == IF ReadClears(fdc) THEN SetFdcIrq(fdc, FALSE) ELSE fdc
           last == f.res_pos + 1 >= f.res_len
           pos == IF last THEN 0 ELSE f.res_pos + 1
           len == IF last THEN 0 ELSE f.res_len
<1>1. /\ fdc \in FdcRecs /\ polite \in BOOLEAN /\ owed \in BOOLEAN
      /\ FdcSound(fdc, polite, owed)
  BY DEF FdcInv
<1>2. /\ ~fdc.busy /\ fdc' = [f EXCEPT !.res_pos = pos, !.res_len = len]
      /\ polite' = polite /\ owed' = owed
  BY DEF FdcResult
<1>3. ~fdc.irq_after
  BY <1>1, <1>2 DEF FdcSound
<1>4. /\ f \in FdcRecs /\ ~f.busy /\ ~f.irq_after /\ f.ints = fdc.ints /\ f.cmd_len = fdc.cmd_len
      /\ f.out <=> f.irq /\ f.gate
      /\ polite /\ f.irq => owed /\ f.ints # <<>>
  <2>1. CASE ReadClears(fdc)
    <3>1. f = SetFdcIrq(fdc, FALSE)
      BY <2>1
    <3> HIDE DEF f
    <3>2. SetTo(fdc, FALSE, f)
      BY <1>1, <3>1, SetIrqIs
    <3> QED
      BY <1>2, <1>3, <3>2 DEF SetTo
  <2>2. CASE ~ReadClears(fdc)
    <3>1. f = fdc
      BY <2>2
    <3>2. polite /\ fdc.irq => owed /\ fdc.ints # <<>>
      BY <1>1, <2>2 DEF FdcSound, ReadClears
    <3> QED
      BY <1>1, <1>2, <1>3, <3>1, <3>2 DEF FdcSound
  <2> QED
    BY <2>1, <2>2
<1> HIDE DEF f
<1>5. pos \in Nat /\ len \in {0, 1, 2, 7}
  BY <1>4, FdcFields
<1> HIDE DEF pos, len
<1>6. /\ fdc' \in FdcRecs /\ fdc'.irq = f.irq /\ fdc'.out = f.out /\ fdc'.gate = f.gate
      /\ ~fdc'.busy /\ ~fdc'.irq_after /\ fdc'.ints = f.ints /\ fdc'.cmd_len = f.cmd_len
  BY <1>2, <1>4, <1>5 DEF FdcRecs
<1>7. FdcSound(fdc', polite', owed')
  BY <1>1, <1>2, <1>4, <1>6 DEF FdcSound
<1> QED
  BY <1>1, <1>2, <1>6, <1>7 DEF FdcInv

LEMMA DorKeeps ==
  ASSUME FdcInv, NEW enabled \in BOOLEAN, NEW gate \in BOOLEAN, FdcDor(enabled, gate)
  PROVE  FdcInv'
<1> DEFINE f == [fdc EXCEPT !.enabled = enabled, !.gate = gate]
<1>1. /\ fdc \in FdcRecs /\ polite \in BOOLEAN /\ owed \in BOOLEAN
      /\ FdcSound(fdc, polite, owed) /\ fdc.irq \in BOOLEAN /\ fdc.enabled \in BOOLEAN
  BY FdcFields DEF FdcInv
<1>2. /\ f \in FdcRecs /\ f.irq = fdc.irq /\ f.gate = gate /\ f.irq_after = fdc.irq_after
      /\ f.busy = fdc.busy /\ f.cmd_len = fdc.cmd_len /\ f.ints = fdc.ints
      /\ f.res_len = fdc.res_len /\ f.res_pos = fdc.res_pos
  BY <1>1 DEF FdcRecs
<1>3. /\ polite' = polite /\ owed' = (owed /\ enabled /\ fdc.enabled) /\ owed' \in BOOLEAN
      /\ fdc' = IF ~enabled THEN ResetFdc(f)
                ELSE IF fdc.enabled THEN DorChanged(f)
                ELSE [ResetFdc(f) EXCEPT !.ints = <<"ready", "ready", "ready", "ready">>,
                                         !.busy = TRUE, !.irq_after = TRUE]
  BY DEF FdcDor
<1> HIDE DEF f
<1> DEFINE z == ResetFdc(f)
<1>4. /\ z \in FdcRecs /\ ~z.irq /\ ~z.out /\ z.cmd_len = 0 /\ z.res_len = 0
      /\ z.res_pos = 0 /\ ~z.busy /\ ~z.irq_after
  BY <1>2, ResetIs DEF Cleared
<1> HIDE DEF z
<1>5. CASE ~enabled
  <2>1. fdc' = z /\ ~owed'
    BY <1>3, <1>5 DEF z
  <2>2. FdcSound(fdc', polite', owed')
    BY <1>4, <2>1 DEF FdcSound
  <2> QED
    BY <1>1, <1>3, <1>4, <2>1, <2>2 DEF FdcInv
<1>6. CASE enabled /\ fdc.enabled
  <2>1. fdc' = SetFdcIrq(f, f.irq) /\ owed' = owed
    BY <1>1, <1>3, <1>6 DEF DorChanged
  <2>2. f.irq \in BOOLEAN
    BY <1>1, <1>2
  <2>3. SetTo(f, f.irq, fdc')
    BY <1>2, <2>1, <2>2, SetIrqIs
  <2>4. FdcSound(fdc', polite', owed')
    BY <1>1, <1>2, <1>3, <2>1, <2>3 DEF FdcSound, SetTo
  <2> QED
    BY <1>1, <1>3, <2>3, <2>4 DEF FdcInv, SetTo
<1>7. CASE enabled /\ ~fdc.enabled
  <2>1. /\ fdc' = [z EXCEPT !.ints = <<"ready", "ready", "ready", "ready">>,
                           !.busy = TRUE, !.irq_after = TRUE]
        /\ ~owed'
    BY <1>3, <1>7 DEF z
  <2>2. /\ <<"ready", "ready", "ready", "ready">> \in Seq({"ready", "seek"})
        /\ <<"ready", "ready", "ready", "ready">> # <<>>
    OBVIOUS
  <2>3. /\ fdc' \in FdcRecs /\ ~fdc'.irq /\ ~fdc'.out /\ fdc'.cmd_len = 0 /\ fdc'.res_len = 0
        /\ fdc'.res_pos = 0 /\ fdc'.busy /\ fdc'.ints # <<>>
    BY <1>4, <2>1, <2>2 DEF FdcRecs
  <2>4. FdcSound(fdc', polite', owed')
    BY <2>1, <2>3 DEF FdcSound
  <2> QED
    BY <1>1, <1>3, <2>3, <2>4 DEF FdcInv
<1> QED
  BY <1>1, <1>5, <1>6, <1>7

LEMMA TickKeeps ==
  ASSUME FdcInv, FdcTick
  PROVE  FdcInv' /\ (fdc.irq_after /\ polite => ~fdc.irq)
<1> DEFINE f == [fdc EXCEPT !.busy = FALSE, !.irq_after = FALSE]
<1>1. /\ fdc \in FdcRecs /\ polite \in BOOLEAN /\ owed \in BOOLEAN
      /\ FdcSound(fdc, polite, owed) /\ fdc.irq_after \in BOOLEAN
      /\ fdc.res_len \in {0, 1, 2, 7}
  BY FdcFields DEF FdcInv
<1>2. /\ f \in FdcRecs /\ f.gate = fdc.gate /\ ~f.irq_after /\ f.irq = fdc.irq
      /\ f.out = fdc.out
      /\ ~f.busy /\ f.cmd_len = fdc.cmd_len /\ f.ints = fdc.ints
      /\ f.res_len = fdc.res_len /\ f.res_pos = fdc.res_pos
  BY <1>1 DEF FdcRecs
<1>3. /\ polite' = polite /\ owed' = (owed \/ (fdc.irq_after /\ fdc.res_len = 0))
      /\ fdc.busy /\ owed' \in BOOLEAN
      /\ fdc' = IF fdc.irq_after THEN SetFdcIrq(f, TRUE) ELSE [fdc EXCEPT !.busy = FALSE]
  BY <1>1 DEF FdcTick
<1> HIDE DEF f
<1>4. CASE fdc.irq_after
  <2>1. fdc' = SetFdcIrq(f, TRUE)
    BY <1>3, <1>4
  <2>2. SetTo(f, TRUE, fdc')
    BY <1>2, <2>1, SetIrqIs
  <2>3. FdcSound(fdc', polite', owed')
    BY <1>1, <1>2, <1>3, <1>4, <2>2 DEF FdcSound, SetTo
  <2>4. FdcInv'
    BY <1>1, <1>3, <2>2, <2>3 DEF FdcInv, SetTo
  <2> QED
    BY <1>1, <1>4, <2>4 DEF FdcSound
<1>5. CASE ~fdc.irq_after
  <2>1. fdc' = [fdc EXCEPT !.busy = FALSE] /\ owed' = owed
    BY <1>1, <1>3, <1>5
  <2>2. /\ fdc' \in FdcRecs /\ fdc'.irq = fdc.irq /\ fdc'.out = fdc.out
        /\ fdc'.gate = fdc.gate /\ fdc'.cmd_len = fdc.cmd_len
        /\ fdc'.res_len = fdc.res_len /\ fdc'.res_pos = fdc.res_pos /\ ~fdc'.busy
        /\ ~fdc'.irq_after /\ fdc'.ints = fdc.ints
    BY <1>1, <1>5, <2>1 DEF FdcRecs
  <2>3. FdcSound(fdc', polite', owed')
    BY <1>1, <1>3, <2>1, <2>2 DEF FdcSound
  <2> QED
    BY <1>1, <1>3, <1>5, <2>2, <2>3 DEF FdcInv
<1> QED
  BY <1>1, <1>4, <1>5

LEMMA FdcPowerKeeps ==
  ASSUME FdcInv, FdcPowerOn
  PROVE  FdcInv' /\ ~fdc'.out
<1> DEFINE f == [fdc EXCEPT !.enabled = FALSE, !.gate = FALSE]
<1>1. fdc \in FdcRecs /\ polite \in BOOLEAN
  BY DEF FdcInv
<1>2. f \in FdcRecs
  BY <1>1 DEF FdcRecs
<1>3. fdc' = ResetFdc(f) /\ owed' = FALSE /\ polite' = polite
  BY DEF FdcPowerOn
<1> HIDE DEF f
<1>4. /\ fdc' \in FdcRecs /\ ~fdc'.irq /\ ~fdc'.out /\ fdc'.cmd_len = 0 /\ fdc'.res_len = 0
      /\ fdc'.res_pos = 0 /\ ~fdc'.busy /\ ~fdc'.irq_after
  BY <1>2, <1>3, ResetIs DEF Cleared
<1>5. FdcSound(fdc', polite', owed')
  BY <1>3, <1>4 DEF FdcSound
<1> QED
  BY <1>1, <1>3, <1>4, <1>5 DEF FdcInv

LEMMA FdcStarts ==
  ASSUME FdcInit
  PROVE  FdcInv /\ ~fdc.out
<1>1. <<>> \in Seq({"ready", "seek"})
  BY EmptySeq
<1>2. fdc \in FdcRecs /\ polite \in BOOLEAN /\ owed \in BOOLEAN
  BY <1>1 DEF FdcInit, FdcRecs
<1>3. ~fdc.out /\ ~fdc.irq /\ ~fdc.irq_after /\ ~fdc.busy /\ ~owed
  BY DEF FdcInit
<1>4. FdcSound(fdc, polite, owed)
  BY <1>3 DEF FdcSound
<1> QED
  BY <1>2, <1>3, <1>4 DEF FdcInv

LEMMA FdcKeeps ==
  ASSUME FdcInv, FdcNext
  PROVE  FdcInv'
BY CommandKeeps, ResultKeeps, DorKeeps, TickKeeps DEF FdcNext

----------------------------------------------------------------------------
(***************************************************************************)
(* The fixed disk adapter.                                                 *)
(***************************************************************************)

Places == [cyl : Nat, head : Nat, sector : Nat]
HdcPhases == {"idle", "cmd", "busy", "pio_out", "pio_in", "dma", "status"}
HdcStages == {"none", "begin", "finish", "seeked", "sector", "dma_done", "track"}
HdcRecs == [phase : HdcPhases, stage : HdcStages, wait : BOOLEAN, op : HdcOps, at : Places,
            count : Nat, heads : Nat, cyls : Nat, cmd_n : Nat, pio_pos : Nat,
            failed : BOOLEAN, enabled : BOOLEAN, intr : BOOLEAN, out : BOOLEAN]
Orders == [at : Places, count : Nat]

\* The number of a sector on the drive as h was initialised.
Number(h, a) == (a.cyl * UsedHeads(h) + a.head) * SPT + a.sector

\* A transfer is at the sector after those it has moved, and has the others
\* left to do.
OnItsWay(h, a, m) ==
  /\ Number(h, h.at) = Number(h, a.at) + m
  /\ a.count = m + h.count /\ h.count # 0 /\ AddressOk(h)

HdcSound(h, a, m) ==
  /\ (h.out <=> h.intr /\ h.enabled) /\ (h.intr <=> h.phase = "status")
  /\ h.wait => h.phase = "busy" /\ h.stage # "none"
  /\ h.phase = "pio_out" => h.op = "initialize"
  /\ h.phase = "pio_in" => h.op \in {"sense", "ecc_length"}
  /\ h.phase = "status" => h.stage = "none"
  /\ h.phase = "dma" \/ h.stage = "dma_done" =>
       h.op \in {"read", "write", "read_buffer", "write_buffer"}
  /\ h.stage = "seeked" => h.op \in Transfers \cup Formats
  /\ h.stage = "sector" => h.op \in Transfers
  /\ h.stage = "track" => h.op \in Formats
  /\ h.stage = "finish" => h.op \notin Transfers
  /\ h.op \in Transfers =>
       /\ h.stage = "begin" => a.at = h.at /\ a.count = h.count /\ m = 0 /\ h.count # 0
       /\ h.stage \in {"seeked", "sector", "dma_done"} \/ h.phase = "dma" => OnItsWay(h, a, m)
       /\ h.phase = "status" /\ ~h.failed => m = a.count

HdcInv == hdc \in HdcRecs /\ asked \in Orders /\ moved \in Nat /\ HdcSound(hdc, asked, moved)

LEMMA HdcFields ==
  ASSUME NEW h \in HdcRecs
  PROVE  /\ h.phase \in HdcPhases /\ h.stage \in HdcStages /\ h.wait \in BOOLEAN
         /\ h.op \in HdcOps /\ h.at \in Places /\ h.count \in Nat /\ h.heads \in Nat
         /\ h.cyls \in Nat /\ h.cmd_n \in Nat /\ h.pio_pos \in Nat /\ h.failed \in BOOLEAN
         /\ h.enabled \in BOOLEAN /\ h.intr \in BOOLEAN /\ h.out \in BOOLEAN
         /\ h.at.cyl \in Nat /\ h.at.head \in Nat /\ h.at.sector \in Nat
BY DEF HdcRecs, Places

LEMMA Geometry == Cyls \in Nat \ {0} /\ Heads \in Nat \ {0} /\ SPT \in Nat \ {0} /\ MaxSectors \in Nat \ {0}
BY HdcAssumption

\* What a step of a command keeps.
SameCommand(h, r) ==
  /\ r \in HdcRecs /\ r.op = h.op /\ r.at = h.at /\ r.count = h.count /\ r.heads = h.heads
  /\ r.cyls = h.cyls /\ (r.enabled <=> h.enabled)

WentOn(h, phase, stage, wait, r) ==
  /\ SameCommand(h, r) /\ r.phase = phase /\ r.stage = stage /\ (r.wait <=> wait)
  /\ (r.intr <=> h.intr) /\ (r.out <=> h.out)

Finished(h, err, r) ==
  /\ SameCommand(h, r) /\ r.phase = "status" /\ r.stage = "none" /\ ~r.wait
  /\ (r.failed <=> err) /\ r.intr /\ (r.out <=> r.enabled)

LEMMA AfterIs ==
  ASSUME NEW h \in HdcRecs, NEW stage \in HdcStages
  PROVE  WentOn(h, "busy", stage, TRUE, After(h, stage))
<1> DEFINE r == After(h, stage)
<1>1. r = [h EXCEPT !.phase = "busy", !.stage = stage, !.wait = TRUE]
  BY DEF After
<1>2. "busy" \in HdcPhases
  BY DEF HdcPhases
<1> HIDE DEF r
<1>3. /\ r \in HdcRecs /\ r.phase = "busy" /\ r.stage = stage /\ r.wait /\ r.intr = h.intr
      /\ r.out = h.out /\ r.op = h.op /\ r.at = h.at /\ r.count = h.count
      /\ r.heads = h.heads /\ r.cyls = h.cyls /\ r.enabled = h.enabled
  BY <1>1, <1>2 DEF HdcRecs
<1>4. WentOn(h, "busy", stage, TRUE, r)
  BY <1>3 DEF WentOn, SameCommand
<1> QED
  BY <1>4 DEF r

LEMMA DmaStartIs ==
  ASSUME NEW h \in HdcRecs
  PROVE  WentOn(h, "dma", "none", FALSE, DmaStart(h))
<1> DEFINE r == DmaStart(h)
<1>1. r = [h EXCEPT !.phase = "dma", !.stage = "none", !.wait = FALSE]
  BY DEF DmaStart
<1>2. "dma" \in HdcPhases /\ "none" \in HdcStages
  BY DEF HdcPhases, HdcStages
<1> HIDE DEF r
<1>3. /\ r \in HdcRecs /\ r.phase = "dma" /\ r.stage = "none" /\ ~r.wait /\ r.intr = h.intr
      /\ r.out = h.out /\ r.op = h.op /\ r.at = h.at /\ r.count = h.count
      /\ r.heads = h.heads /\ r.cyls = h.cyls /\ r.enabled = h.enabled
  BY <1>1, <1>2 DEF HdcRecs
<1>4. WentOn(h, "dma", "none", FALSE, r)
  BY <1>3 DEF WentOn, SameCommand
<1> QED
  BY <1>4 DEF r

\* The line follows the request.
Updated(h, r) ==
  /\ SameCommand(h, r) /\ r.phase = h.phase /\ r.stage = h.stage /\ (r.wait <=> h.wait)
  /\ (r.failed <=> h.failed) /\ (r.intr <=> h.intr) /\ (r.out <=> h.intr /\ h.enabled)

LEMMA UpdateIs ==
  ASSUME NEW h \in HdcRecs
  PROVE  Updated(h, UpdateHdcIrq(h))
<1> DEFINE r == UpdateHdcIrq(h)
           out == h.intr /\ h.enabled
<1>1. r = [h EXCEPT !.out = out] /\ out \in BOOLEAN
  BY DEF UpdateHdcIrq
<1> HIDE DEF r, out
<1>2. /\ r \in HdcRecs /\ r.phase = h.phase /\ r.stage = h.stage /\ r.wait = h.wait
      /\ r.failed = h.failed
      /\ r.intr = h.intr /\ r.out = out /\ r.op = h.op /\ r.at = h.at /\ r.count = h.count
      /\ r.heads = h.heads /\ r.cyls = h.cyls /\ r.enabled = h.enabled
  BY <1>1 DEF HdcRecs
<1>3. Updated(h, r)
  BY <1>2 DEF Updated, SameCommand, out
<1> QED
  BY <1>3 DEF r

LEMMA FinishIs ==
  ASSUME NEW h \in HdcRecs, NEW err \in BOOLEAN
  PROVE  Finished(h, err, HdcFinish(h, err))
<1> DEFINE s == [h EXCEPT !.phase = "status", !.stage = "none", !.wait = FALSE,
                          !.failed = err, !.intr = TRUE]
<1>1. "status" \in HdcPhases /\ "none" \in HdcStages
  BY DEF HdcPhases, HdcStages
<1>2. /\ s \in HdcRecs /\ s.phase = "status" /\ s.stage = "none" /\ ~s.wait /\ s.failed = err
      /\ s.intr /\ s.op = h.op /\ s.at = h.at /\ s.count = h.count
      /\ s.heads = h.heads /\ s.cyls = h.cyls /\ s.enabled = h.enabled
  BY <1>1 DEF HdcRecs
<1>3. HdcFinish(h, err) = UpdateHdcIrq(s)
  BY DEF HdcFinish
<1> HIDE DEF s
<1>4. Updated(s, HdcFinish(h, err))
  BY <1>2, <1>3, UpdateIs
<1> QED
  BY <1>2, <1>4 DEF Updated, Finished, SameCommand

\* The following sector has the following number.
LEMMA NextNumber ==
  ASSUME NEW c \in Nat, NEW h \in Nat, NEW s \in Nat, NEW u \in Nat, NEW t \in Nat
  PROVE  /\ (c * u + h) * t + (s + 1) = ((c * u + h) * t + s) + 1
         /\ s + 1 = t => (c * u + (h + 1)) * t + 0 = ((c * u + h) * t + s) + 1
         /\ s + 1 = t /\ h + 1 = u => ((c + 1) * u + 0) * t + 0 = ((c * u + h) * t + s) + 1
         /\ (c * u + h) * t + s \in Nat
<1> DEFINE x == c * u
           y == x + h
<1>1. x \in Nat /\ (c + 1) * u = x + u
  OBVIOUS
<1> HIDE DEF x
<1>2. y \in Nat
  BY <1>1
<1> HIDE DEF y
<1>3. y * t \in Nat /\ (y + 1) * t = y * t + t
  BY <1>2
<1>4. y = x + h /\ x + (h + 1) = y + 1
  BY <1>1 DEF y
<1> QED
  BY <1>1, <1>2, <1>3, <1>4 DEF x

LEMMA FollowingIs ==
  ASSUME NEW h \in HdcRecs, AddressOk(h)
  PROVE  /\ Following(h) \in Places /\ Number(h, Following(h)) = Number(h, h.at) + 1
         /\ Number(h, h.at) \in Nat
<1> DEFINE u == UsedHeads(h)
<1>1. /\ h.at \in Places /\ h.at.cyl \in Nat /\ h.at.head \in Nat /\ h.at.sector \in Nat
      /\ h.heads \in Nat
  BY HdcFields
<1>2. u \in Nat /\ h.at.head < u /\ h.at.sector < SPT /\ SPT \in Nat
  BY <1>1, Geometry DEF UsedHeads, AddressOk
<1> HIDE DEF u
<1> DEFINE c == h.at.cyl
           d == h.at.head
           s == h.at.sector
<1>3. /\ (c * u + d) * SPT + (s + 1) = ((c * u + d) * SPT + s) + 1
      /\ s + 1 = SPT => (c * u + (d + 1)) * SPT + 0 = ((c * u + d) * SPT + s) + 1
      /\ s + 1 = SPT /\ d + 1 = u =>
            ((c + 1) * u + 0) * SPT + 0 = ((c * u + d) * SPT + s) + 1
      /\ (c * u + d) * SPT + s \in Nat
  BY <1>1, <1>2, NextNumber
<1>4. Number(h, h.at) = (c * u + d) * SPT + s
  BY DEF Number, u
<1>5. CASE s + 1 < SPT
  <2>1. Following(h) = [h.at EXCEPT !.sector = s + 1]
    BY <1>5 DEF Following
  <2>2. /\ Following(h) \in Places /\ Following(h).cyl = c /\ Following(h).head = d
        /\ Following(h).sector = s + 1
    BY <1>1, <2>1 DEF Places
  <2>3. Number(h, Following(h)) = (c * u + d) * SPT + (s + 1)
    BY <2>2 DEF Number, u
  <2> QED
    BY <1>3, <1>4, <2>2, <2>3
<1>6. CASE ~(s + 1 < SPT) /\ d + 1 < u
  <2>0. s + 1 = SPT
    BY <1>1, <1>2, <1>6
  <2> DEFINE e == d + 1
             f == Following(h)
             place == h.at
  <2>1. f = [place EXCEPT !.sector = 0, !.head = e] /\ e \in Nat /\ place \in Places
    BY <1>1, <1>6 DEF Following, u
  <2> HIDE DEF e, f, place
  <2>a. f \in Places /\ f.cyl = place.cyl /\ f.head = e /\ f.sector = 0
    BY <2>1 DEF Places
  <2>2. /\ Following(h) \in Places /\ Following(h).cyl = c /\ Following(h).head = d + 1
        /\ Following(h).sector = 0
    BY <2>a DEF e, f, place
  <2>3. Number(h, Following(h)) = (c * u + (d + 1)) * SPT + 0
    BY <2>2 DEF Number, u
  <2> QED
    BY <1>3, <1>4, <2>0, <2>2, <2>3
<1>7. CASE ~(s + 1 < SPT) /\ ~(d + 1 < u)
  <2>0. s + 1 = SPT /\ d + 1 = u
    BY <1>1, <1>2, <1>7
  <2>1. Following(h) = [cyl |-> c + 1, head |-> 0, sector |-> 0]
    BY <1>7 DEF Following, u
  <2>2. /\ Following(h) \in Places /\ Following(h).cyl = c + 1 /\ Following(h).head = 0
        /\ Following(h).sector = 0
    BY <1>1, <2>1 DEF Places
  <2>3. Number(h, Following(h)) = ((c + 1) * u + 0) * SPT + 0
    BY <2>2 DEF Number, u
  <2> QED
    BY <1>3, <1>4, <2>0, <2>2, <2>3
<1> QED
  BY <1>3, <1>4, <1>5, <1>6, <1>7

\* The number of a sector and its validity depend on the geometry only.
LEMMA SameNumber ==
  ASSUME NEW h, NEW r, r.heads = h.heads, r.cyls = h.cyls
  PROVE  /\ \A a : Number(r, a) = Number(h, a)
         /\ r.at = h.at => (AddressOk(r) <=> AddressOk(h))
BY DEF Number, AddressOk, UsedHeads, UsedCyls

\* A command that is not at work: nothing to keep but its end.
LEMMA FinishedSound ==
  ASSUME NEW h \in HdcRecs, NEW err \in BOOLEAN, NEW r, Finished(h, err, r), NEW a, NEW m,
         h.op \in Transfers /\ ~err => m = a.count
  PROVE  r \in HdcRecs /\ HdcSound(r, a, m)
BY DEF Finished, SameCommand, HdcSound

LEMMA NextSectorKeeps ==
  ASSUME NEW h \in HdcRecs, NEW a \in Orders, NEW m \in Nat,
         ~h.intr, ~h.out, h.op \in Transfers, OnItsWay(h, a, m)
  PROVE  NextSector(h) \in HdcRecs /\ HdcSound(NextSector(h), a, m + 1)
<1>1. h.count \in Nat /\ a.count \in Nat
  BY HdcFields DEF Orders
<1>2. CASE LastSector(h)
  <2> DEFINE z == [h EXCEPT !.count = 0]
  <2>1. z \in HdcRecs /\ z.op = h.op
    BY DEF HdcRecs
  <2>2. NextSector(h) = HdcFinish(z, FALSE)
    BY <1>2 DEF NextSector
  <2> HIDE DEF z
  <2>3. Finished(z, FALSE, NextSector(h))
    BY <2>1, <2>2, FinishIs
  <2>4. h.op \in Transfers => m + 1 = a.count
    BY <1>2 DEF OnItsWay, LastSector
  <2> QED
    BY <2>1, <2>3, <2>4, FinishedSound
<1>3. CASE ~LastSector(h) /\ h.op \in Transfers
  <2> DEFINE n == [h EXCEPT !.count = h.count - 1, !.at = Following(h)]
             next == Following(h)
             left == h.count - 1
  <2>1. OnItsWay(h, a, m) /\ AddressOk(h)
    BY <1>3 DEF OnItsWay
  <2>2. /\ next \in Places /\ Number(h, next) = Number(h, h.at) + 1
        /\ Number(h, h.at) \in Nat
    BY <2>1, FollowingIs
  <2>3. left \in Nat \ {0} /\ a.count = (m + 1) + left
    BY <1>1, <1>3, <2>1 DEF OnItsWay, LastSector
  <2>4. NextSector(h) = IF AddressOk(n) THEN After(n, "seeked") ELSE HdcFinish(n, TRUE)
    BY <1>3 DEF NextSector
  <2> HIDE DEF next, left
  <2>5. n = [h EXCEPT !.count = left, !.at = next]
    BY DEF next, left
  <2> HIDE DEF n
  <2>6. /\ n \in HdcRecs /\ n.op = h.op /\ n.at = next /\ n.count = left /\ n.heads = h.heads
        /\ n.cyls = h.cyls /\ n.intr = h.intr /\ n.out = h.out
    BY <2>2, <2>3, <2>5 DEF HdcRecs
  <2>7. CASE ~AddressOk(n)
    <3>1. Finished(n, TRUE, NextSector(h))
      BY <2>4, <2>6, <2>7, FinishIs
    <3> QED
      BY <2>6, <3>1, FinishedSound
  <2>8. CASE AddressOk(n)
    <3> DEFINE r == NextSector(h)
    <3>1. WentOn(n, "busy", "seeked", TRUE, r)
      <4>1. "seeked" \in HdcStages
        BY DEF HdcStages
      <4> QED
        BY <2>4, <2>6, <2>8, <4>1, AfterIs
    <3> HIDE DEF r
    <3>2. /\ r \in HdcRecs /\ r.op = h.op /\ r.at = next /\ r.count = left
          /\ r.heads = h.heads /\ r.cyls = h.cyls /\ r.heads = n.heads /\ r.cyls = n.cyls
          /\ r.at = n.at /\ ~r.intr /\ ~r.out /\ r.phase = "busy" /\ r.stage = "seeked"
      BY <2>6, <3>1 DEF WentOn, SameCommand
    <3>3. AddressOk(r) /\ \A x : Number(r, x) = Number(h, x)
      BY <2>8, <3>2, SameNumber
    <3>4. OnItsWay(r, a, m + 1)
      <4>1. Number(r, r.at) = Number(r, a.at) + (m + 1)
        <5>1. Number(h, h.at) = Number(h, a.at) + m
          BY <2>1 DEF OnItsWay
        <5>2. Number(h, next) = Number(h, a.at) + (m + 1)
          <6>1. Number(h, a.at) \in Int
            <7>1. a.at \in Places
              BY DEF Orders
            <7>2. a.at.cyl \in Nat /\ a.at.head \in Nat /\ a.at.sector \in Nat /\ UsedHeads(h) \in Nat
              BY <7>1, HdcFields, Geometry DEF Places, UsedHeads
            <7> QED
              BY <7>2, Geometry, NextNumber DEF Number
          <6> QED
            BY <2>2, <5>1, <6>1
        <5> QED
          BY <3>2, <3>3, <5>2
      <4> QED
        BY <2>3, <3>2, <3>3, <4>1 DEF OnItsWay
    <3>5. HdcSound(r, a, m + 1)
      BY <3>2, <3>4 DEF HdcSound, Transfers
    <3> QED
      BY <3>2, <3>5 DEF r
  <2> QED
    BY <2>7, <2>8
<1> QED
  BY <1>2, <1>3

\* A stage that goes on without moving a sector.
LEMMA OnSound ==
  ASSUME NEW h \in HdcRecs, NEW phase \in {"busy", "dma"}, NEW stage \in HdcStages,
         NEW wait \in BOOLEAN, NEW r, WentOn(h, phase, stage, wait, r), ~h.intr, ~h.out,
         wait => phase = "busy" /\ stage # "none",
         NEW a, NEW m,
         phase = "dma" \/ stage = "dma_done" =>
           h.op \in {"read", "write", "read_buffer", "write_buffer"},
         stage = "seeked" => h.op \in Transfers \cup Formats,
         stage = "sector" => h.op \in Transfers,
         stage = "track" => h.op \in Formats,
         stage = "finish" => h.op \notin Transfers,
         stage # "begin",
         h.op \in Transfers => OnItsWay(h, a, m)
  PROVE  r \in HdcRecs /\ HdcSound(r, a, m)
<1>1. /\ r \in HdcRecs /\ r.op = h.op /\ r.at = h.at /\ r.count = h.count /\ r.heads = h.heads
      /\ r.cyls = h.cyls /\ r.phase = phase /\ r.stage = stage /\ (r.wait <=> wait)
      /\ ~r.intr /\ ~r.out
  BY DEF WentOn, SameCommand
<1>2. (\A x : Number(r, x) = Number(h, x)) /\ (AddressOk(r) <=> AddressOk(h))
  BY <1>1, SameNumber
<1>3. h.op \in Transfers => OnItsWay(r, a, m)
  BY <1>1, <1>2 DEF OnItsWay
<1> QED
  BY <1>1, <1>3 DEF HdcSound

\* Where a command that a tick advances stands.
Ticking(h, a, m) ==
  /\ ~h.intr /\ ~h.out /\ h.stage # "none"
  /\ h.stage = "dma_done" => h.op \in {"read", "write", "read_buffer", "write_buffer"}
  /\ h.stage = "seeked" => h.op \in Transfers \cup Formats
  /\ h.stage = "sector" => h.op \in Transfers
  /\ h.stage = "track" => h.op \in Formats
  /\ h.stage = "finish" => h.op \notin Transfers
  /\ h.op \in Transfers =>
       /\ h.stage = "begin" => a.at = h.at /\ a.count = h.count /\ m = 0 /\ h.count # 0
       /\ h.stage \in {"seeked", "sector", "dma_done"} => OnItsWay(h, a, m)

LEMMA Stages == {"none", "begin", "finish", "seeked", "sector", "dma_done", "track"} \subseteq HdcStages
BY DEF HdcStages

LEMMA NextTrackKeeps ==
  ASSUME NEW h \in HdcRecs, NEW a \in Orders, NEW m \in Nat, ~h.intr, ~h.out, h.op \in Formats
  PROVE  NextTrack(h) \in HdcRecs /\ HdcSound(NextTrack(h), a, m)
<1>1. h.op \notin Transfers
  BY DEF Formats, Transfers
<1>2. h.at \in Places /\ h.at.head \in Nat /\ h.at.cyl \in Nat
  BY HdcFields
<1>3. ASSUME NEW place \in Places
      PROVE  LET z == [h EXCEPT !.at = place]
             IN  /\ z \in HdcRecs /\ z.op = h.op /\ ~z.intr /\ ~z.out
  BY DEF HdcRecs
<1>4. ASSUME NEW place \in Places
      PROVE  LET z == After([h EXCEPT !.at = place], "seeked") IN z \in HdcRecs /\ HdcSound(z, a, m)
  <2> DEFINE z == [h EXCEPT !.at = place]
  <2>1. z \in HdcRecs /\ z.op = h.op /\ ~z.intr /\ ~z.out
    BY <1>3
  <2> HIDE DEF z
  <2>2. WentOn(z, "busy", "seeked", TRUE, After(z, "seeked"))
    BY <2>1, AfterIs, Stages
  <2>3. After(z, "seeked") \in HdcRecs /\ HdcSound(After(z, "seeked"), a, m)
    BY <1>1, <2>1, <2>2, OnSound, Stages
  <2> QED
    BY <2>3 DEF z
<1>5. ASSUME NEW place \in Places
      PROVE  LET z == HdcFinish([h EXCEPT !.at = place], FALSE) IN z \in HdcRecs /\ HdcSound(z, a, m)
  <2> DEFINE z == [h EXCEPT !.at = place]
  <2>1. z \in HdcRecs /\ z.op = h.op
    BY <1>3
  <2> HIDE DEF z
  <2>2. Finished(z, FALSE, HdcFinish(z, FALSE))
    BY <2>1, FinishIs
  <2>3. HdcFinish(z, FALSE) \in HdcRecs /\ HdcSound(HdcFinish(z, FALSE), a, m)
    BY <1>1, <2>1, <2>2, FinishedSound
  <2> QED
    BY <2>3 DEF z
<1>6. CASE h.at.head + 1 < UsedHeads(h)
  <2> DEFINE place == [h.at EXCEPT !.head = @ + 1]
  <2>1. place \in Places
    BY <1>2 DEF Places
  <2>2. NextTrack(h) = After([h EXCEPT !.at = place], "seeked")
    BY <1>6 DEF NextTrack
  <2> QED
    BY <1>4, <2>1, <2>2
<1>7. CASE ~(h.at.head + 1 < UsedHeads(h)) /\ h.at.cyl + 1 < UsedCyls(h)
  <2> DEFINE place == [h.at EXCEPT !.head = 0, !.cyl = @ + 1]
  <2>1. place \in Places
    <3> DEFINE from == h.at
               cyl == from.cyl + 1
    <3>1. from \in Places /\ cyl \in Nat
      BY <1>2
    <3> HIDE DEF from, cyl
    <3>2. [from EXCEPT !.head = 0, !.cyl = cyl] \in Places
      BY <3>1 DEF Places
    <3> QED
      BY <3>2 DEF from, cyl
  <2>2. NextTrack(h) = After([h EXCEPT !.at = place], "seeked")
    BY <1>7 DEF NextTrack
  <2> QED
    BY <1>4, <2>1, <2>2
<1>8. CASE ~(h.at.head + 1 < UsedHeads(h)) /\ ~(h.at.cyl + 1 < UsedCyls(h))
  <2> DEFINE place == [h.at EXCEPT !.head = 0]
  <2>1. place \in Places
    BY <1>2 DEF Places
  <2>2. NextTrack(h) = HdcFinish([h EXCEPT !.at = place], FALSE)
    BY <1>8 DEF NextTrack
  <2> QED
    BY <1>5, <2>1, <2>2
<1> QED
  BY <1>6, <1>7, <1>8

\* The sectors moved after a tick.
MovedBy(h, ok, m) == IF Moves(h, ok) THEN m + 1 ELSE m

LEMMA RunStageKeeps ==
  ASSUME NEW h \in HdcRecs, NEW a \in Orders, NEW m \in Nat, NEW ok \in BOOLEAN,
         Ticking(h, a, m), h.stage # "begin"
  PROVE  RunStage(h, ok) \in HdcRecs /\ HdcSound(RunStage(h, ok), a, MovedBy(h, ok, m))
<1>1. /\ h.stage \in {"finish", "seeked", "sector", "dma_done", "track"} /\ ~h.intr /\ ~h.out
      /\ h.op \in HdcOps
  BY HdcFields DEF Ticking, HdcStages
<1>2. h.op \in Transfers /\ h.stage \in {"seeked", "sector", "dma_done"} => OnItsWay(h, a, m)
  BY DEF Ticking
<1>3. \A op : op \in Transfers <=> op = "read" \/ op = "write" \/ op = "verify"
  BY DEF Transfers
<1>4. \A op \in Formats : op \notin Transfers /\ op \notin {"read", "write", "verify"}
  BY DEF Transfers, Formats
<1>5. ASSUME ~Moves(h, ok), NEW err \in BOOLEAN, h.op \notin Transfers \/ err,
             RunStage(h, ok) = HdcFinish(h, err)
      PROVE  RunStage(h, ok) \in HdcRecs /\ HdcSound(RunStage(h, ok), a, MovedBy(h, ok, m))
  <2>1. MovedBy(h, ok, m) = m
    BY <1>5 DEF MovedBy
  <2>2. Finished(h, err, HdcFinish(h, err))
    BY <1>5, FinishIs
  <2> QED
    BY <1>5, <2>1, <2>2, FinishedSound
<1>6. ASSUME ~Moves(h, ok), RunStage(h, ok) = DmaStart(h), h.op \in {"read", "write"},
             OnItsWay(h, a, m)
      PROVE  RunStage(h, ok) \in HdcRecs /\ HdcSound(RunStage(h, ok), a, MovedBy(h, ok, m))
  <2>1. MovedBy(h, ok, m) = m
    BY <1>6 DEF MovedBy
  <2>2. WentOn(h, "dma", "none", FALSE, DmaStart(h))
    BY DmaStartIs
  <2>3. DmaStart(h) \in HdcRecs /\ HdcSound(DmaStart(h), a, m)
    BY <1>1, <1>6, <2>2, OnSound, Stages
  <2> QED
    BY <1>6, <2>1, <2>3
<1>7. ASSUME NEW stage \in {"sector", "track"}, ~Moves(h, ok), RunStage(h, ok) = After(h, stage),
             stage = "sector" => h.op \in Transfers /\ OnItsWay(h, a, m),
             stage = "track" => h.op \in Formats
      PROVE  RunStage(h, ok) \in HdcRecs /\ HdcSound(RunStage(h, ok), a, MovedBy(h, ok, m))
  <2>1. MovedBy(h, ok, m) = m
    BY <1>7 DEF MovedBy
  <2>2. WentOn(h, "busy", stage, TRUE, After(h, stage))
    BY <1>7, AfterIs, Stages
  <2>3. After(h, stage) \in HdcRecs /\ HdcSound(After(h, stage), a, m)
    BY <1>1, <1>4, <1>7, <2>2, OnSound, Stages
  <2> QED
    BY <1>7, <2>1, <2>3
<1>8. ASSUME Moves(h, ok), RunStage(h, ok) = NextSector(h), h.op \in Transfers, OnItsWay(h, a, m)
      PROVE  RunStage(h, ok) \in HdcRecs /\ HdcSound(RunStage(h, ok), a, MovedBy(h, ok, m))
  <2>1. MovedBy(h, ok, m) = m + 1
    BY <1>8 DEF MovedBy
  <2>2. NextSector(h) \in HdcRecs /\ HdcSound(NextSector(h), a, m + 1)
    BY <1>1, <1>8, NextSectorKeeps
  <2> QED
    BY <1>8, <2>1, <2>2
<1>9. CASE h.stage = "finish"
  <2>1. RunStage(h, ok) = HdcFinish(h, FALSE) /\ ~Moves(h, ok) /\ h.op \notin Transfers
    BY <1>9 DEF RunStage, Moves, Ticking
  <2> QED
    BY <1>5, <2>1
<1>10. CASE h.stage = "seeked"
  <2>1. ~Moves(h, ok) /\ h.op \in Transfers \cup Formats
    BY <1>10 DEF Moves, Ticking
  <2>2. RunStage(h, ok) = IF h.op \in Formats THEN After(h, "track")
                          ELSE IF h.op = "write" THEN DmaStart(h) ELSE After(h, "sector")
    BY <1>10 DEF RunStage
  <2>3. CASE h.op \in Formats
    BY <1>7, <2>1, <2>2, <2>3
  <2>4. CASE h.op \notin Formats /\ h.op = "write"
    BY <1>2, <1>3, <1>6, <1>10, <2>1, <2>2, <2>4
  <2>5. CASE h.op \notin Formats /\ h.op # "write"
    BY <1>2, <1>7, <1>10, <2>1, <2>2, <2>5
  <2> QED
    BY <2>3, <2>4, <2>5
<1>11. CASE h.stage = "sector"
  <2>1. h.op \in Transfers /\ OnItsWay(h, a, m)
    BY <1>2, <1>11 DEF Ticking
  <2>2. RunStage(h, ok) = IF h.op = "verify" THEN NextSector(h)
                          ELSE IF ~ok THEN HdcFinish(h, TRUE)
                          ELSE IF h.op = "write" THEN NextSector(h) ELSE DmaStart(h)
    BY <1>11 DEF RunStage
  <2>3. Moves(h, ok) <=> h.op = "verify" \/ (h.op = "write" /\ ok)
    BY <1>11 DEF Moves
  <2>4. CASE h.op = "verify"
    BY <1>8, <2>1, <2>2, <2>3, <2>4
  <2>5. CASE h.op # "verify" /\ ~ok
    BY <1>5, <2>2, <2>3, <2>5
  <2>6. CASE h.op = "write" /\ ok
    BY <1>8, <2>1, <2>2, <2>3, <2>6
  <2>7. CASE h.op = "read" /\ ok
    BY <1>6, <2>1, <2>2, <2>3, <2>7
  <2> QED
    BY <1>3, <2>1, <2>4, <2>5, <2>6, <2>7
<1>12. CASE h.stage = "dma_done"
  <2>1. h.op \in {"read", "write", "read_buffer", "write_buffer"}
    BY <1>12 DEF Ticking
  <2>2. RunStage(h, ok) = IF h.op \in {"read_buffer", "write_buffer"} THEN HdcFinish(h, FALSE)
                          ELSE IF h.op = "write" THEN After(h, "sector") ELSE NextSector(h)
    BY <1>12 DEF RunStage
  <2>3. Moves(h, ok) <=> h.op = "read"
    BY <1>12 DEF Moves
  <2>4. CASE h.op \in {"read_buffer", "write_buffer"}
    BY <1>3, <1>5, <2>2, <2>3, <2>4
  <2>5. CASE h.op = "write"
    BY <1>2, <1>3, <1>7, <1>12, <2>2, <2>3, <2>5
  <2>6. CASE h.op = "read"
    BY <1>2, <1>3, <1>8, <1>12, <2>2, <2>3, <2>6
  <2> QED
    BY <2>1, <2>4, <2>5, <2>6
<1>13. CASE h.stage = "track"
  <2>1. ~Moves(h, ok) /\ h.op \in Formats /\ h.op \notin Transfers
    BY <1>4, <1>13 DEF Moves, Ticking
  <2>2. RunStage(h, ok) = IF ~ok THEN HdcFinish(h, TRUE)
                          ELSE IF h.op = "format_track" THEN HdcFinish(h, FALSE) ELSE NextTrack(h)
    BY <1>13 DEF RunStage
  <2>3. CASE ~ok \/ h.op = "format_track"
    BY <1>5, <2>1, <2>2, <2>3
  <2>4. CASE ok /\ h.op # "format_track"
    <3>1. NextTrack(h) \in HdcRecs /\ HdcSound(NextTrack(h), a, m)
      BY <1>1, <2>1, NextTrackKeeps
    <3> QED
      BY <2>1, <2>2, <2>4, <3>1 DEF MovedBy
  <2> QED
    BY <2>3, <2>4
<1> QED
  BY <1>1, <1>9, <1>10, <1>11, <1>12, <1>13

LEMMA BeginKeeps ==
  ASSUME NEW h \in HdcRecs, NEW a \in Orders, NEW m \in Nat, NEW present \in BOOLEAN,
         NEW readonly \in BOOLEAN, Ticking(h, a, m), h.stage = "begin", ~h.wait
  PROVE  Begin(h, present, readonly) \in HdcRecs /\ HdcSound(Begin(h, present, readonly), a, m)
<1> DEFINE b == Begin(h, present, readonly)
<1>1. ~h.intr /\ ~h.out /\ h.op \in HdcOps
  BY HdcFields DEF Ticking
<1>2. h.op \in Transfers => a.at = h.at /\ a.count = h.count /\ m = 0 /\ h.count # 0
  BY DEF Ticking
<1>3. \A op : op \in Transfers <=> op = "read" \/ op = "write" \/ op = "verify"
  BY DEF Transfers
<1>4. \A op : op \in Formats <=> op = "format_drive" \/ op = "format_track"
  BY DEF Formats
<1>5. ASSUME NEW z \in HdcRecs, NEW err \in BOOLEAN, z.op \notin Transfers \/ err, b = HdcFinish(z, err)
      PROVE  b \in HdcRecs /\ HdcSound(b, a, m)
  <2>1. Finished(z, err, HdcFinish(z, err))
    BY <1>5, FinishIs
  <2> QED
    BY <1>5, <2>1, FinishedSound
<1>6. ASSUME NEW z \in HdcRecs, NEW stage \in {"finish", "seeked"}, b = After(z, stage),
             ~z.intr, ~z.out,
             stage = "finish" => z.op \notin Transfers,
             stage = "seeked" => z.op \in Transfers \cup Formats,
             z.op \in Transfers => OnItsWay(z, a, m)
      PROVE  b \in HdcRecs /\ HdcSound(b, a, m)
  <2>1. WentOn(z, "busy", stage, TRUE, After(z, stage))
    BY <1>6, AfterIs, Stages
  <2>2. After(z, stage) \in HdcRecs /\ HdcSound(After(z, stage), a, m)
    BY <1>6, <2>1, OnSound, Stages
  <2> QED
    BY <1>6, <2>2
<1>7. CASE h.op \in {"sense", "ecc_length", "initialize"}
  <2>1. PICK phase \in {"pio_in", "pio_out"} :
          /\ b = [h EXCEPT !.phase = phase, !.pio_pos = 0]
          /\ phase = "pio_in" => h.op \in {"sense", "ecc_length"}
          /\ phase = "pio_out" => h.op = "initialize"
    BY <1>7 DEF Begin
  <2> HIDE DEF b
  <2>2. phase \in HdcPhases
    BY DEF HdcPhases
  <2>3. /\ b \in HdcRecs /\ b.phase = phase /\ b.stage = h.stage /\ b.wait = h.wait
        /\ b.op = h.op /\ b.intr = h.intr /\ b.out = h.out
    BY <2>1, <2>2 DEF HdcRecs
  <2>4. b.op \notin Transfers /\ b.op \notin Formats
    BY <1>3, <1>4, <1>7, <2>3
  <2>5. ~b.wait /\ ~b.intr /\ ~b.out /\ b.stage = "begin"
    BY <1>1, <2>3
  <2>6. HdcSound(b, a, m)
    BY <2>1, <2>3, <2>4, <2>5 DEF HdcSound
  <2> QED
    BY <2>3, <2>6 DEF b
<1>8. CASE h.op \in {"read_buffer", "write_buffer"}
  <2>1. b = DmaStart(h) /\ h.op \notin Transfers
    BY <1>3, <1>8 DEF Begin
  <2>2. WentOn(h, "dma", "none", FALSE, DmaStart(h))
    BY DmaStartIs
  <2>3. DmaStart(h) \in HdcRecs /\ HdcSound(DmaStart(h), a, m)
    BY <1>1, <1>8, <2>1, <2>2, OnSound, Stages
  <2> QED
    BY <2>1, <2>3
<1>9. CASE h.op = "diagnostic"
  <2>1. b = After(h, "finish") /\ h.op \notin Transfers
    BY <1>3, <1>9 DEF Begin
  <2> QED
    BY <1>1, <1>6, <2>1
<1>10. CASE h.op \notin {"sense", "ecc_length", "initialize", "read_buffer", "write_buffer", "diagnostic"}
  <2>1. CASE h.op = "invalid" \/ ~present
    <3>1. b = HdcFinish(h, TRUE)
      BY <1>10, <2>1 DEF Begin
    <3> QED
      BY <1>5, <3>1
  <2>2. CASE h.op = "ready" /\ present
    <3>1. b = HdcFinish(h, FALSE) /\ h.op \notin Transfers
      BY <1>3, <2>2 DEF Begin
    <3> QED
      BY <1>5, <3>1
  <2>3. CASE h.op = "recalibrate" /\ present
    <3> DEFINE z == [h EXCEPT !.at = NoSector]
    <3>1. NoSector \in Places
      BY DEF NoSector, Places
    <3>2. z \in HdcRecs /\ z.op = h.op /\ ~z.intr /\ ~z.out
      BY <1>1, <3>1 DEF HdcRecs
    <3>3. b = After(z, "finish") /\ h.op \notin Transfers
      BY <1>3, <2>3 DEF Begin
    <3> HIDE DEF z, b
    <3> QED
      BY <1>6, <3>2, <3>3 DEF b
  <2>4. CASE present /\ h.op \notin {"invalid", "ready", "recalibrate"}
    <3> DEFINE k == IF h.op \in Formats THEN [h EXCEPT !.at.sector = 0] ELSE h
    <3>1. h.op \in Transfers \cup Formats \cup {"seek"}
      BY <1>1, <1>10, <2>4 DEF HdcOps
    <3>2. b = IF ~AddressOk(k) THEN HdcFinish(k, TRUE)
              ELSE IF k.op \in Formats \cup {"write"} /\ readonly THEN HdcFinish(k, TRUE)
              ELSE After(k, IF k.op = "seek" THEN "finish" ELSE "seeked")
      BY <1>10, <2>4 DEF Begin
    <3>3. k \in HdcRecs /\ k.op = h.op /\ ~k.intr /\ ~k.out /\ (h.op \in Transfers => k = h)
      <4>1. CASE h.op \in Formats
        <5> DEFINE place == [h.at EXCEPT !.sector = 0]
        <5>1. place \in Places
          BY HdcFields DEF Places
        <5>2. k = [h EXCEPT !.at = place]
          BY <4>1
        <5> HIDE DEF place, k
        <5> QED
          BY <1>1, <1>3, <1>4, <4>1, <5>1, <5>2 DEF HdcRecs
      <4>2. CASE h.op \notin Formats
        BY <1>1, <4>2
      <4> QED
        BY <4>1, <4>2
    <3> HIDE DEF k, b
    <3>4. CASE ~AddressOk(k) \/ (k.op \in Formats \cup {"write"} /\ readonly)
      BY <1>5, <3>2, <3>3, <3>4 DEF b
    <3>5. CASE AddressOk(k) /\ ~(k.op \in Formats \cup {"write"} /\ readonly)
      <4>1. k.op \in Transfers => OnItsWay(k, a, m)
        <5> SUFFICES ASSUME k.op \in Transfers PROVE OnItsWay(k, a, m)
          OBVIOUS
        <5>1. k = h /\ h.count \in Nat /\ Number(h, h.at) \in Nat
          BY <3>3, <3>5, HdcFields, FollowingIs
        <5> QED
          BY <1>2, <3>3, <3>5, <5>1 DEF OnItsWay
      <4>2. CASE k.op = "seek"
        <5>1. b = After(k, "finish") /\ k.op \notin Transfers
          BY <1>3, <3>2, <3>5, <4>2
        <5> QED
          BY <1>6, <3>3, <5>1 DEF b
      <4>3. CASE k.op # "seek"
        <5>1. b = After(k, "seeked") /\ k.op \in Transfers \cup Formats
          BY <3>1, <3>2, <3>3, <3>5, <4>3
        <5> QED
          BY <1>6, <3>3, <4>1, <5>1 DEF b
      <4> QED
        BY <4>2, <4>3
    <3> QED
      BY <3>4, <3>5 DEF b
  <2> QED
    BY <2>1, <2>2, <2>3, <2>4
<1> QED
  BY <1>7, <1>8, <1>9, <1>10

LEMMA HdcTickKeeps ==
  ASSUME HdcInv, NEW ok \in BOOLEAN, NEW present \in BOOLEAN, NEW readonly \in BOOLEAN,
         HdcTick(ok, present, readonly)
  PROVE  HdcInv'
<1> DEFINE h == [hdc EXCEPT !.wait = FALSE]
<1>1. hdc \in HdcRecs /\ asked \in Orders /\ moved \in Nat /\ HdcSound(hdc, asked, moved)
  BY DEF HdcInv
<1>2. /\ hdc.wait /\ asked' = asked
      /\ hdc' = IF h.stage = "begin" THEN Begin(h, present, readonly) ELSE RunStage(h, ok)
      /\ moved' = IF Moves(hdc, ok) THEN moved + 1 ELSE moved
  BY DEF HdcTick
<1>3. /\ h \in HdcRecs /\ ~h.wait /\ h.phase = hdc.phase /\ h.stage = hdc.stage
      /\ h.op = hdc.op /\ h.at = hdc.at /\ h.count = hdc.count /\ h.heads = hdc.heads
      /\ h.cyls = hdc.cyls /\ h.intr = hdc.intr /\ h.out = hdc.out
  BY <1>1 DEF HdcRecs
<1> HIDE DEF h
<1>4. (\A x : Number(h, x) = Number(hdc, x)) /\ (AddressOk(h) <=> AddressOk(hdc))
  BY <1>3, SameNumber
<1>5. Ticking(h, asked, moved)
  <2>1. OnItsWay(hdc, asked, moved) => OnItsWay(h, asked, moved)
    BY <1>3, <1>4 DEF OnItsWay
  <2>2. hdc.phase = "busy" /\ hdc.stage # "none" /\ ~hdc.intr /\ ~hdc.out
    BY <1>1, <1>2 DEF HdcSound
  <2> QED
    BY <1>1, <1>3, <2>1, <2>2 DEF HdcSound, Ticking
<1>6. Moves(hdc, ok) <=> Moves(h, ok)
  BY <1>3 DEF Moves
<1>7. moved' = MovedBy(h, ok, moved) /\ moved' \in Nat
  BY <1>1, <1>2, <1>6 DEF MovedBy
<1>8. CASE h.stage = "begin"
  <2>1. hdc' = Begin(h, present, readonly) /\ moved' = moved
    BY <1>2, <1>7, <1>8 DEF MovedBy, Moves
  <2>2. Begin(h, present, readonly) \in HdcRecs
        /\ HdcSound(Begin(h, present, readonly), asked, moved)
    BY <1>1, <1>3, <1>5, <1>8, BeginKeeps
  <2> QED
    BY <1>1, <1>2, <2>1, <2>2 DEF HdcInv
<1>9. CASE h.stage # "begin"
  <2>1. hdc' = RunStage(h, ok)
    BY <1>2, <1>9
  <2>2. RunStage(h, ok) \in HdcRecs /\ HdcSound(RunStage(h, ok), asked, MovedBy(h, ok, moved))
    BY <1>1, <1>3, <1>5, <1>9, RunStageKeeps
  <2> QED
    BY <1>1, <1>2, <1>7, <2>1, <2>2 DEF HdcInv
<1> QED
  BY <1>8, <1>9

\* A command is over; the phase is what the reset, the select or the read of
\* the status leaves.
LEMMA OverIs ==
  ASSUME NEW h \in HdcRecs
  PROVE  /\ Over(h) \in HdcRecs /\ Over(h).op = "invalid" /\ Over(h).stage = "none"
         /\ ~Over(h).wait
<1>1. NoSector \in Places /\ "none" \in HdcStages /\ "invalid" \in HdcOps
  BY DEF NoSector, Places, HdcStages, HdcOps
<1> DEFINE o == Over(h)
<1>2. o = [h EXCEPT !.stage = "none", !.wait = FALSE, !.op = "invalid", !.at = NoSector,
                    !.count = 0, !.cmd_n = 0, !.pio_pos = 0, !.failed = FALSE]
  BY DEF Over
<1> HIDE DEF o
<1>3. o \in HdcRecs /\ o.op = "invalid" /\ o.stage = "none" /\ ~o.wait
  BY <1>1, <1>2 DEF HdcRecs
<1> QED
  BY <1>3 DEF o

LEMMA ForgetIs ==
  ASSUME Forget
  PROVE  asked' \in Orders /\ moved' \in Nat
BY DEF Forget, NothingAsked, NoSector, Orders, Places

\* A command that is over leaves nothing to keep.
LEMMA OverKeeps ==
  ASSUME NEW z \in HdcRecs, z.op = "invalid", z.stage = "none", ~z.wait, ~z.intr,
         z.phase \in {"idle", "cmd"}, hdc' = UpdateHdcIrq(z), Forget
  PROVE  HdcInv' /\ ~hdc'.out
<1>1. Updated(z, hdc')
  BY UpdateIs
<1>2. /\ hdc' \in HdcRecs /\ hdc'.op = "invalid" /\ hdc'.stage = "none" /\ ~hdc'.wait
      /\ ~hdc'.intr /\ ~hdc'.out /\ hdc'.phase \in {"idle", "cmd"}
  BY <1>1 DEF Updated, SameCommand
<1>3. "invalid" \notin Transfers
  BY DEF Transfers
<1>4. HdcSound(hdc', asked', moved')
  BY <1>2, <1>3 DEF HdcSound
<1> QED
  BY <1>2, <1>4, ForgetIs DEF HdcInv

LEMMA AbandonKeeps ==
  ASSUME HdcInv, HdcReadStatus \/ HdcReset \/ HdcSelect
  PROVE  HdcInv'
<1> DEFINE o == Over(hdc)
<1>1. o \in HdcRecs /\ o.op = "invalid" /\ o.stage = "none" /\ ~o.wait
  BY OverIs DEF HdcInv
<1>2. PICK phase \in {"idle", "cmd"} :
        hdc' = UpdateHdcIrq([o EXCEPT !.phase = phase, !.intr = FALSE]) /\ Forget
  BY DEF HdcReadStatus, HdcReset, HdcSelect
<1> HIDE DEF o
<1> DEFINE z == [o EXCEPT !.phase = phase, !.intr = FALSE]
<1>3. phase \in HdcPhases
  BY DEF HdcPhases
<1>4. /\ z \in HdcRecs /\ z.op = "invalid" /\ z.stage = "none" /\ ~z.wait /\ ~z.intr
      /\ z.phase \in {"idle", "cmd"}
  BY <1>1, <1>3 DEF HdcRecs
<1> HIDE DEF z
<1>5. hdc' = UpdateHdcIrq(z) /\ Forget
  BY <1>2 DEF z
<1> QED
  BY <1>4, <1>5, OverKeeps

LEMMA HdcPowerKeeps ==
  ASSUME HdcInv, HdcPowerOn
  PROVE  HdcInv' /\ ~hdc'.out
<1> DEFINE o == Over(hdc)
<1>1. o \in HdcRecs /\ o.op = "invalid" /\ o.stage = "none" /\ ~o.wait
  BY OverIs DEF HdcInv
<1> HIDE DEF o
<1> DEFINE z == [o EXCEPT !.phase = "idle", !.enabled = FALSE, !.intr = FALSE,
                          !.cyls = Cyls, !.heads = Heads]
<1>2. hdc' = UpdateHdcIrq(z) /\ Forget
  BY DEF HdcPowerOn, o
<1>3. "idle" \in HdcPhases /\ Cyls \in Nat /\ Heads \in Nat
  BY Geometry DEF HdcPhases
<1>4. /\ z \in HdcRecs /\ z.op = "invalid" /\ z.stage = "none" /\ ~z.wait /\ ~z.intr
      /\ z.phase = "idle"
  BY <1>1, <1>3 DEF HdcRecs
<1> HIDE DEF z
<1> QED
  BY <1>2, <1>4, OverKeeps

LEMMA MaskKeeps ==
  ASSUME HdcInv, NEW enabled \in BOOLEAN, HdcMask(enabled)
  PROVE  HdcInv'
<1> DEFINE z == [hdc EXCEPT !.enabled = enabled]
<1>1. hdc \in HdcRecs /\ asked \in Orders /\ moved \in Nat /\ HdcSound(hdc, asked, moved)
  BY DEF HdcInv
<1>2. hdc' = UpdateHdcIrq(z) /\ asked' = asked /\ moved' = moved
  BY DEF HdcMask
<1>3. /\ z \in HdcRecs /\ z.wait = hdc.wait /\ z.phase = hdc.phase /\ z.stage = hdc.stage
      /\ z.op = hdc.op /\ z.at = hdc.at /\ z.count = hdc.count /\ z.heads = hdc.heads
      /\ z.cyls = hdc.cyls /\ z.intr = hdc.intr /\ z.failed = hdc.failed
  BY <1>1 DEF HdcRecs
<1> HIDE DEF z
<1>4. Updated(z, hdc')
  BY <1>2, <1>3, UpdateIs
<1>5. /\ hdc' \in HdcRecs /\ hdc'.op = hdc.op /\ hdc'.at = hdc.at /\ hdc'.count = hdc.count
      /\ hdc'.heads = hdc.heads /\ hdc'.cyls = hdc.cyls /\ hdc'.phase = hdc.phase
      /\ hdc'.stage = hdc.stage /\ (hdc'.wait <=> hdc.wait) /\ (hdc'.failed <=> hdc.failed)
      /\ (hdc'.intr <=> hdc.intr) /\ (hdc'.out <=> hdc'.intr /\ hdc'.enabled)
  BY <1>3, <1>4 DEF Updated, SameCommand
<1>6. (\A x : Number(hdc', x) = Number(hdc, x)) /\ (AddressOk(hdc') <=> AddressOk(hdc))
  BY <1>5, SameNumber
<1>7. OnItsWay(hdc, asked, moved) => OnItsWay(hdc', asked, moved)
  BY <1>5, <1>6 DEF OnItsWay
<1>8. HdcSound(hdc', asked', moved')
  BY <1>1, <1>2, <1>5, <1>7 DEF HdcSound
<1> QED
  BY <1>1, <1>2, <1>5, <1>8 DEF HdcInv

LEMMA CommandByteKeeps ==
  ASSUME HdcInv, HdcCommandByte
  PROVE  HdcInv'
<1> DEFINE n == hdc.cmd_n + 1
<1>1. hdc \in HdcRecs /\ asked \in Orders /\ moved \in Nat /\ HdcSound(hdc, asked, moved)
  BY DEF HdcInv
<1>2. /\ hdc.phase = "cmd" /\ hdc' = [hdc EXCEPT !.cmd_n = n] /\ asked' = asked
      /\ moved' = moved /\ n \in Nat
  BY <1>1, HdcFields DEF HdcCommandByte
<1> HIDE DEF n
<1>3. /\ hdc' \in HdcRecs /\ hdc'.wait = hdc.wait /\ hdc'.phase = hdc.phase
      /\ hdc'.stage = hdc.stage /\ hdc'.op = hdc.op /\ hdc'.at = hdc.at
      /\ hdc'.count = hdc.count /\ hdc'.heads = hdc.heads /\ hdc'.cyls = hdc.cyls
      /\ hdc'.intr = hdc.intr /\ hdc'.out = hdc.out /\ hdc'.enabled = hdc.enabled
      /\ hdc'.failed = hdc.failed
  BY <1>1, <1>2 DEF HdcRecs
<1>4. (\A x : Number(hdc', x) = Number(hdc, x)) /\ (AddressOk(hdc') <=> AddressOk(hdc))
  BY <1>3, SameNumber
<1>5. OnItsWay(hdc, asked, moved) => OnItsWay(hdc', asked, moved)
  BY <1>3, <1>4 DEF OnItsWay
<1>6. HdcSound(hdc', asked', moved')
  BY <1>1, <1>2, <1>3, <1>5 DEF HdcSound
<1> QED
  BY <1>1, <1>2, <1>3, <1>6 DEF HdcInv

LEMMA CommandsTyped ==
  ASSUME NEW c \in HdcCommands
  PROVE  c.op \in HdcOps /\ c.at \in Places /\ c.count \in Nat
<1>1. c.op \in HdcOps /\ c.at \in Sectors /\ c.count \in 0..(MaxSectors - 1)
  BY DEF HdcCommands
<1>2. c.at \in Places
  BY <1>1, Geometry DEF Sectors, Places
<1> QED
  BY <1>1, <1>2, Geometry

LEMMA LastByteKeeps ==
  ASSUME HdcInv, NEW c \in HdcCommands, HdcLastByte(c)
  PROVE  HdcInv'
<1> DEFINE count == IF c.count = 0 THEN MaxSectors ELSE c.count
           z == [hdc EXCEPT !.cmd_n = 0, !.op = c.op, !.at = c.at, !.count = count]
<1>1. hdc \in HdcRecs /\ HdcSound(hdc, asked, moved)
  BY DEF HdcInv
<1>2. c.op \in HdcOps /\ c.at \in Places /\ count \in Nat /\ count # 0
  BY CommandsTyped, Geometry
<1>3. /\ hdc.phase = "cmd" /\ hdc' = After(z, "begin")
      /\ asked' = [at |-> c.at, count |-> count] /\ moved' = 0
  BY DEF HdcLastByte
<1> HIDE DEF count
<1>4. /\ z \in HdcRecs /\ z.op = c.op /\ z.at = c.at /\ z.count = count
      /\ z.intr = hdc.intr /\ z.out = hdc.out /\ z.enabled = hdc.enabled
  BY <1>1, <1>2 DEF HdcRecs
<1> HIDE DEF z
<1>5. ~hdc.intr /\ ~hdc.out
  BY <1>1, <1>3 DEF HdcSound
<1>6. WentOn(z, "busy", "begin", TRUE, hdc')
  BY <1>3, <1>4, AfterIs, Stages
<1>7. /\ hdc' \in HdcRecs /\ hdc'.phase = "busy" /\ hdc'.stage = "begin" /\ hdc'.at = c.at
      /\ hdc'.count = count /\ ~hdc'.intr /\ ~hdc'.out
  BY <1>4, <1>5, <1>6 DEF WentOn, SameCommand
<1>8. asked' \in Orders /\ asked'.at = c.at /\ asked'.count = count
  BY <1>2, <1>3 DEF Orders
<1>9. HdcSound(hdc', asked', moved')
  BY <1>2, <1>3, <1>7, <1>8 DEF HdcSound
<1> QED
  BY <1>3, <1>7, <1>8, <1>9 DEF HdcInv

\* A data byte: the next one is waited for, or the command is over.
LEMMA DataKeeps ==
  ASSUME HdcInv, NEW z \in HdcRecs, hdc.phase \in {"pio_in", "pio_out"},
         asked' = asked, moved' = moved, z.op = hdc.op,
         hdc' \in {HdcFinish(z, FALSE), [hdc EXCEPT !.pio_pos = hdc.pio_pos + 1]}
  PROVE  HdcInv'
<1> DEFINE n == hdc.pio_pos + 1
<1>1. hdc \in HdcRecs /\ asked \in Orders /\ moved \in Nat /\ HdcSound(hdc, asked, moved)
  BY DEF HdcInv
<1>2. hdc.op \notin Transfers
  BY <1>1 DEF HdcSound, Transfers
<1>3. CASE hdc' = HdcFinish(z, FALSE)
  <2>1. Finished(z, FALSE, hdc')
    BY <1>3, FinishIs
  <2>2. hdc' \in HdcRecs /\ HdcSound(hdc', asked, moved)
    BY <1>2, <2>1, FinishedSound
  <2> QED
    BY <1>1, <2>2 DEF HdcInv
<1>4. CASE hdc' = [hdc EXCEPT !.pio_pos = n]
  <2>1. n \in Nat
    BY <1>1, HdcFields
  <2> HIDE DEF n
  <2>2. /\ hdc' \in HdcRecs /\ hdc'.wait = hdc.wait /\ hdc'.phase = hdc.phase
        /\ hdc'.stage = hdc.stage /\ hdc'.op = hdc.op
        /\ hdc'.intr = hdc.intr /\ hdc'.out = hdc.out /\ hdc'.enabled = hdc.enabled
    BY <1>1, <1>4, <2>1 DEF HdcRecs
  <2>3. HdcSound(hdc', asked', moved')
    BY <1>1, <1>2, <2>2 DEF HdcSound
  <2> QED
    BY <1>1, <2>2, <2>3 DEF HdcInv
<1> QED
  BY <1>3, <1>4

LEMMA DataOutKeeps ==
  ASSUME HdcInv, NEW cyls \in InitCyls \cup {Cyls}, NEW heads \in InitHeads \cup {Heads},
         HdcDataOut(cyls, heads)
  PROVE  HdcInv'
<1> DEFINE z == [hdc EXCEPT !.cyls = cyls, !.heads = heads, !.pio_pos = 0]
<1>1. hdc \in HdcRecs /\ cyls \in Nat /\ heads \in Nat
  BY HdcAssumption, Geometry DEF HdcInv
<1>2. z \in HdcRecs /\ z.op = hdc.op
  BY <1>1 DEF HdcRecs
<1>3. /\ hdc.phase = "pio_out" /\ asked' = asked /\ moved' = moved
      /\ hdc' \in {HdcFinish(z, FALSE), [hdc EXCEPT !.pio_pos = hdc.pio_pos + 1]}
  BY DEF HdcDataOut
<1> HIDE DEF z
<1> QED
  BY <1>2, <1>3, DataKeeps

LEMMA DataInKeeps ==
  ASSUME HdcInv, HdcDataIn
  PROVE  HdcInv'
<1> DEFINE z == [hdc EXCEPT !.pio_pos = 0]
<1>1. hdc \in HdcRecs
  BY DEF HdcInv
<1>2. z \in HdcRecs /\ z.op = hdc.op
  BY <1>1 DEF HdcRecs
<1>3. /\ hdc.phase = "pio_in" /\ asked' = asked /\ moved' = moved
      /\ hdc' \in {HdcFinish(z, FALSE), [hdc EXCEPT !.pio_pos = hdc.pio_pos + 1]}
  BY DEF HdcDataIn
<1> HIDE DEF z
<1> QED
  BY <1>2, <1>3, DataKeeps

LEMMA DmaKeeps ==
  ASSUME HdcInv, HdcDma
  PROVE  HdcInv'
<1>1. hdc \in HdcRecs /\ asked \in Orders /\ moved \in Nat /\ HdcSound(hdc, asked, moved)
  BY DEF HdcInv
<1>2. hdc.phase = "dma" /\ hdc' = After(hdc, "dma_done") /\ asked' = asked /\ moved' = moved
  BY DEF HdcDma
<1>3. WentOn(hdc, "busy", "dma_done", TRUE, hdc')
  BY <1>1, <1>2, AfterIs, Stages
<1>4. /\ ~hdc.intr /\ ~hdc.out
      /\ hdc.op \in {"read", "write", "read_buffer", "write_buffer"}
      /\ hdc.op \in Transfers => OnItsWay(hdc, asked, moved)
  BY <1>1, <1>2 DEF HdcSound
<1>5. hdc' \in HdcRecs /\ HdcSound(hdc', asked, moved)
  BY <1>1, <1>3, <1>4, OnSound, Stages
<1> QED
  BY <1>1, <1>2, <1>5 DEF HdcInv

LEMMA HdcStarts ==
  ASSUME HdcInit
  PROVE  HdcInv /\ ~hdc.out
<1>1. NoSector \in Places
  BY DEF NoSector, Places
<1>2. hdc \in HdcRecs
  BY <1>1, Geometry DEF HdcInit, HdcRecs, HdcPhases, HdcStages, HdcOps
<1>3. /\ hdc.phase = "idle" /\ hdc.stage = "none" /\ ~hdc.wait /\ hdc.op = "invalid"
      /\ ~hdc.intr /\ ~hdc.out /\ asked = NothingAsked /\ moved = 0
  BY DEF HdcInit
<1>4. asked \in Orders
  BY <1>1, <1>3 DEF NothingAsked, Orders
<1>5. HdcSound(hdc, asked, moved)
  BY <1>3 DEF HdcSound, Transfers
<1> QED
  BY <1>2, <1>3, <1>4, <1>5 DEF HdcInv

LEMMA HdcKeeps ==
  ASSUME HdcInv, HdcNext
  PROVE  HdcInv'
BY CommandByteKeeps, LastByteKeeps, DataOutKeeps, DataInKeeps, AbandonKeeps, MaskKeeps,
   DmaKeeps, HdcTickKeeps DEF HdcNext

LEMMA HdcMovesAll == HdcInv => HdcTransfersAll
<1> SUFFICES ASSUME HdcInv PROVE HdcTransfersAll
  OBVIOUS
<1>1. \A a : SectorNumber(a) = Number(hdc, a)
  BY DEF SectorNumber, Number
<1>2. HdcSound(hdc, asked, moved)
  BY DEF HdcInv
<1> QED
  BY <1>1, <1>2 DEF HdcTransfersAll, HdcSound, OnItsWay

----------------------------------------------------------------------------
(***************************************************************************)
(* The serial port and the keyboard: their line is what their registers    *)
(* ask for.                                                                *)
(***************************************************************************)

Modem == {"rts", "out1", "out2", "loop"}
ComRecs == [ier : SUBSET {"err", "rx", "thre", "msr"}, oe : BOOLEAN, dr : BOOLEAN,
            thre : BOOLEAN, delta : BOOLEAN, mcr : SUBSET Modem, dlab : BOOLEAN,
            thre_int : BOOLEAN, tx_busy : BOOLEAN, rx_busy : BOOLEAN, out : BOOLEAN]

ComSound(u) == u \in ComRecs /\ (u.out <=> ComLine(u))
ComInv == ComSound(com)

LEMMA ComFields ==
  ASSUME NEW u \in ComRecs
  PROVE  /\ u.ier \in SUBSET {"err", "rx", "thre", "msr"} /\ u.oe \in BOOLEAN /\ u.dr \in BOOLEAN
         /\ u.thre \in BOOLEAN /\ u.delta \in BOOLEAN /\ u.mcr \in SUBSET Modem
         /\ u.dlab \in BOOLEAN /\ u.thre_int \in BOOLEAN /\ u.tx_busy \in BOOLEAN
         /\ u.rx_busy \in BOOLEAN /\ u.out \in BOOLEAN
BY DEF ComRecs

LEMMA LineTyped ==
  ASSUME NEW u \in ComRecs
  PROVE  ComPending(u) \in BOOLEAN /\ ComLine(u) \in BOOLEAN
BY DEF ComPending, ComLine

\* The end of every register access: the line follows.
LEMMA LineFollows ==
  ASSUME NEW u \in ComRecs
  PROVE  ComSound(UpdateComIrq(u))
<1> DEFINE level == ComLine(u)
           v == [u EXCEPT !.out = level]
<1>1. level \in BOOLEAN
  BY LineTyped
<1>2. UpdateComIrq(u) = v
  BY DEF UpdateComIrq
<1> HIDE DEF level
<1>3. /\ v \in ComRecs /\ (v.out <=> level) /\ v.ier = u.ier /\ v.oe = u.oe /\ v.dr = u.dr
      /\ v.thre_int = u.thre_int /\ v.delta = u.delta /\ v.mcr = u.mcr
  BY <1>1 DEF ComRecs
<1> HIDE DEF v
<1>4. ComLine(v) <=> ComLine(u)
  BY <1>3 DEF ComLine, ComPending
<1> QED
  BY <1>2, <1>3, <1>4 DEF ComSound, level

LEMMA LoadTyped ==
  ASSUME NEW u \in ComRecs
  PROVE  TxLoad(u) \in ComRecs
BY DEF TxLoad, ComRecs

LEMMA DeliverTyped ==
  ASSUME NEW u \in ComRecs
  PROVE  RxDeliver(u) \in ComRecs
BY DEF RxDeliver, ComRecs

LEMMA ComTickKeeps ==
  ASSUME ComInv, NEW sent \in BOOLEAN, NEW received \in BOOLEAN, NEW mouse \in BOOLEAN,
         ComTick(sent, received, mouse)
  PROVE  ComInv'
<1> DEFINE tx == com.tx_busy /\ sent
           rx == com.rx_busy /\ received
           loop == "loop" \in com.mcr
           u1 == IF tx THEN TxLoad([com EXCEPT !.tx_busy = FALSE]) ELSE com
           u2 == IF tx /\ loop THEN RxDeliver(u1) ELSE u1
           u3 == IF rx THEN RxDeliver([u2 EXCEPT !.rx_busy = FALSE]) ELSE u2
           u4 == IF mouse /\ ~loop THEN [u3 EXCEPT !.rx_busy = TRUE] ELSE u3
<1>1. com' = IF tx \/ rx THEN UpdateComIrq(u4) ELSE u4
  BY DEF ComTick
<1>2. com \in ComRecs /\ (com.out <=> ComLine(com))
  BY DEF ComInv, ComSound
<1>3. u1 \in ComRecs
  <2>1. [com EXCEPT !.tx_busy = FALSE] \in ComRecs
    BY <1>2 DEF ComRecs
  <2> QED
    BY <1>2, <2>1, LoadTyped
<1>4. ~tx => u1 = com
  OBVIOUS
<1> HIDE DEF u1
<1>5. u2 \in ComRecs /\ (~tx => u2 = com)
  BY <1>3, <1>4, DeliverTyped
<1> HIDE DEF u2
<1>6. u3 \in ComRecs /\ (~tx /\ ~rx => u3 = com)
  <2>1. [u2 EXCEPT !.rx_busy = FALSE] \in ComRecs
    BY <1>5 DEF ComRecs
  <2> QED
    BY <1>5, <2>1, DeliverTyped
<1> HIDE DEF u3
<1>7. u4 \in ComRecs
  BY <1>6 DEF ComRecs
<1>8. CASE tx \/ rx
  BY <1>1, <1>7, <1>8, LineFollows DEF ComInv
<1>9. CASE ~(tx \/ rx)
  <2>1. com' = u4 /\ u3 = com
    BY <1>1, <1>6, <1>9
  <2>2. /\ u4.ier = com.ier /\ u4.oe = com.oe /\ u4.dr = com.dr /\ u4.thre_int = com.thre_int
        /\ u4.delta = com.delta /\ u4.mcr = com.mcr /\ u4.out = com.out
    BY <1>2, <2>1 DEF ComRecs
  <2> HIDE DEF u4
  <2>3. ComLine(u4) <=> ComLine(com)
    BY <2>2 DEF ComLine, ComPending
  <2> QED
    BY <1>2, <1>7, <2>1, <2>2, <2>3 DEF ComInv, ComSound
<1> QED
  BY <1>8, <1>9

LEMMA ComKeeps ==
  ASSUME ComInv, ComNext
  PROVE  ComInv'
<1>1. com \in ComRecs /\ (com.out <=> ComLine(com))
  BY DEF ComInv, ComSound
<1>2. CASE ComReadRbr
  <2>1. [com EXCEPT !.dr = FALSE] \in ComRecs
    BY <1>1 DEF ComRecs
  <2> QED
    BY <1>2, <2>1, LineFollows DEF ComReadRbr, ComInv
<1>3. CASE ComReadIir
  <2> DEFINE thre == /\ "thre" \in com.ier /\ com.thre_int
                     /\ ~("err" \in com.ier /\ com.oe)
                     /\ ~("rx" \in com.ier /\ com.dr)
             int == com.thre_int /\ ~thre
             u == [com EXCEPT !.thre_int = int]
  <2>1. com' = UpdateComIrq(u)
    BY <1>3 DEF ComReadIir
  <2>2. int \in BOOLEAN
    OBVIOUS
  <2> HIDE DEF int
  <2>3. u \in ComRecs
    BY <1>1, <2>2 DEF ComRecs
  <2> QED
    BY <2>1, <2>3, LineFollows DEF ComInv
<1>4. CASE ComReadLsr
  <2>1. [com EXCEPT !.oe = FALSE] \in ComRecs
    BY <1>1 DEF ComRecs
  <2> QED
    BY <1>4, <2>1, LineFollows DEF ComReadLsr, ComInv
<1>5. CASE ComReadMsr
  <2>1. [com EXCEPT !.delta = FALSE] \in ComRecs
    BY <1>1 DEF ComRecs
  <2> QED
    BY <1>5, <2>1, LineFollows DEF ComReadMsr, ComInv
<1>6. CASE ComWriteThr
  <2>1. [com EXCEPT !.thre = FALSE, !.thre_int = FALSE] \in ComRecs
    BY <1>1 DEF ComRecs
  <2> QED
    BY <1>6, <2>1, LoadTyped, LineFollows DEF ComWriteThr, ComInv
<1>7. CASE \E ier \in SUBSET {"err", "rx", "thre", "msr"} : ComWriteIer(ier)
  <2> PICK ier \in SUBSET {"err", "rx", "thre", "msr"} : ComWriteIer(ier)
    BY <1>7
  <2> DEFINE int == com.thre_int \/ ("thre" \in ier \ com.ier /\ com.thre)
             u == [com EXCEPT !.ier = ier, !.thre_int = int]
  <2>1. com' = UpdateComIrq(u)
    BY DEF ComWriteIer
  <2>2. int \in BOOLEAN
    OBVIOUS
  <2> HIDE DEF int
  <2>3. u \in ComRecs
    BY <1>1, <2>2 DEF ComRecs
  <2> QED
    BY <2>1, <2>3, LineFollows DEF ComInv
<1>8. CASE \E dlab \in BOOLEAN : ComWriteLcr(dlab)
  <2> PICK dlab \in BOOLEAN : ComWriteLcr(dlab)
    BY <1>8
  <2> DEFINE u == [com EXCEPT !.dlab = dlab]
  <2>1. com' = u
    BY DEF ComWriteLcr
  <2>2. /\ u \in ComRecs /\ u.ier = com.ier /\ u.oe = com.oe /\ u.dr = com.dr
        /\ u.thre_int = com.thre_int /\ u.delta = com.delta /\ u.mcr = com.mcr /\ u.out = com.out
    BY <1>1 DEF ComRecs
  <2> HIDE DEF u
  <2>3. ComLine(u) <=> ComLine(com)
    BY <2>2 DEF ComLine, ComPending
  <2> QED
    BY <1>1, <2>1, <2>2, <2>3 DEF ComInv, ComSound
<1>9. CASE \E mcr \in SUBSET Modem : ComWriteMcr(mcr)
  <2> PICK mcr \in SUBSET Modem : ComWriteMcr(mcr)
    BY <1>9
  <2> DEFINE delta == com.delta \/ ModemDelta(ModemIn(com.mcr), ModemIn(mcr))
             u == [com EXCEPT !.mcr = mcr, !.delta = delta]
  <2>1. com' = UpdateComIrq(u)
    BY DEF ComWriteMcr
  <2>2. delta \in BOOLEAN
    BY DEF ModemDelta
  <2> HIDE DEF delta
  <2>3. u \in ComRecs
    BY <1>1, <2>2 DEF ComRecs
  <2> QED
    BY <2>1, <2>3, LineFollows DEF ComInv
<1>10. CASE \E sent, received, mouse \in BOOLEAN : ComTick(sent, received, mouse)
  BY <1>10, ComTickKeeps
<1> QED
  BY <1>2, <1>3, <1>4, <1>5, <1>6, <1>7, <1>8, <1>9, <1>10 DEF ComNext, Modem

LEMMA ComStarts == ComSound(ComReset) /\ ~ComReset.out
BY DEF ComSound, ComReset, ComRecs, ComLine, ComPending

\* The keyboard port: its fields, and the line against the code in the port.
KbSound(k) ==
    /\ k = [clear |-> k.clear, clock |-> k.clock, full |-> k.full, data |-> k.data,
            queue |-> k.queue, resetting |-> k.resetting, key_down |-> k.key_down,
            out |-> k.out]
    /\ k.clear \in BOOLEAN /\ k.full \in BOOLEAN /\ k.out \in BOOLEAN
    /\ k.out <=> KbLine(k)
KbInv == KbSound(kb)

\* The end of every step of the port: the line follows.
LEMMA PortFollows ==
  ASSUME NEW a \in BOOLEAN, NEW b, NEW c \in BOOLEAN, NEW d, NEW e, NEW f, NEW g, NEW o
  PROVE  LET k == [clear |-> a, clock |-> b, full |-> c, data |-> d, queue |-> e,
                   resetting |-> f, key_down |-> g, out |-> o]
         IN  KbSound(KbUpdateIrq(k))
<1> DEFINE k == [clear |-> a, clock |-> b, full |-> c, data |-> d, queue |-> e,
                 resetting |-> f, key_down |-> g, out |-> o]
           level == c /\ ~a
           v == [clear |-> a, clock |-> b, full |-> c, data |-> d, queue |-> e,
                 resetting |-> f, key_down |-> g, out |-> level]
<1>1. KbLine(k) = level
  BY DEF KbLine
<1>2. KbUpdateIrq(k) = v
  BY <1>1 DEF KbUpdateIrq
<1>3. KbSound(v)
  BY DEF KbSound, KbLine
<1> QED
  BY <1>2, <1>3

LEMMA KbServiceKeeps ==
  ASSUME KbInv, KbService
  PROVE  KbInv'
<1>1. /\ kb = [clear |-> kb.clear, clock |-> kb.clock, full |-> kb.full, data |-> kb.data,
               queue |-> kb.queue, resetting |-> kb.resetting, key_down |-> kb.key_down,
               out |-> kb.out]
      /\ kb.clear \in BOOLEAN
  BY DEF KbInv, KbSound
<1>2. CASE kb' = KbUpdateIrq([kb EXCEPT !.resetting = FALSE, !.data = SelfTest, !.full = TRUE])
  <2>1. PICK k : k = [kb EXCEPT !.resetting = FALSE, !.data = SelfTest, !.full = TRUE]
    OBVIOUS
  <2>2. k = [clear |-> kb.clear, clock |-> kb.clock, full |-> TRUE, data |-> SelfTest,
             queue |-> kb.queue, resetting |-> FALSE, key_down |-> kb.key_down,
             out |-> kb.out]
    BY <1>1, <2>1
  <2>3. kb' = KbUpdateIrq(k)
    BY <1>2, <2>1
  <2> QED
    BY <1>1, <2>2, <2>3, PortFollows DEF KbInv
<1>3. CASE kb' = KbUpdateIrq([kb EXCEPT !.data = Head(kb.queue), !.queue = Tail(kb.queue),
                                        !.full = TRUE])
  <2> DEFINE q == Tail(kb.queue)
             d == Head(kb.queue)
  <2>1. PICK k : k = [kb EXCEPT !.data = d, !.queue = q, !.full = TRUE]
    OBVIOUS
  <2>3. kb' = KbUpdateIrq(k)
    BY <1>3, <2>1
  <2> HIDE DEF d, q
  <2>2. k = [clear |-> kb.clear, clock |-> kb.clock, full |-> TRUE, data |-> d, queue |-> q,
             resetting |-> kb.resetting, key_down |-> kb.key_down, out |-> kb.out]
    BY <1>1, <2>1
  <2> QED
    BY <1>1, <2>2, <2>3, PortFollows DEF KbInv
<1> QED
  BY <1>2, <1>3 DEF KbService

LEMMA KbPortBKeeps ==
  ASSUME KbInv, NEW clear \in BOOLEAN, NEW clock \in BOOLEAN, NEW long \in BOOLEAN,
         KbPortB(clear, clock, long)
  PROVE  KbInv'
<1> DEFINE reset == clock /\ ~kb.clock /\ long
           queue == IF reset THEN <<>> ELSE kb.queue
           resetting == kb.resetting \/ reset
           full == kb.full /\ ~clear
           data == IF clear THEN NoCode ELSE kb.data
           k == [kb EXCEPT !.clear = clear, !.clock = clock, !.queue = queue,
                           !.resetting = resetting, !.full = full, !.data = data]
<1>1. /\ kb = [clear |-> kb.clear, clock |-> kb.clock, full |-> kb.full, data |-> kb.data,
               queue |-> kb.queue, resetting |-> kb.resetting, key_down |-> kb.key_down,
               out |-> kb.out]
      /\ kb.clear \in BOOLEAN /\ kb.full \in BOOLEAN /\ kb.out \in BOOLEAN
  BY DEF KbInv, KbSound
<1>2. kb' = KbUpdateIrq(k)
  BY DEF KbPortB, Taken
<1>3. full \in BOOLEAN
  OBVIOUS
<1> HIDE DEF full, queue, resetting, data
<1>4. PICK h : h = k
  OBVIOUS
<1>5. h = [clear |-> clear, clock |-> clock, full |-> full, data |-> data, queue |-> queue,
           resetting |-> resetting, key_down |-> kb.key_down, out |-> kb.out]
  BY <1>1, <1>4
<1> HIDE DEF k
<1> QED
  BY <1>2, <1>3, <1>4, <1>5, PortFollows DEF KbInv

LEMMA ScanKeeps ==
  ASSUME KbInv, NEW now, ScanKeyboard(now)
  PROVE  KbInv' /\ kb'.out = kb.out
<1> DEFINE q == Kept(Queued(FrameCodes(now)))
<1>1. /\ kb = [clear |-> kb.clear, clock |-> kb.clock, full |-> kb.full, data |-> kb.data,
               queue |-> kb.queue, resetting |-> kb.resetting, key_down |-> kb.key_down,
               out |-> kb.out]
      /\ kb.clear \in BOOLEAN /\ kb.full \in BOOLEAN /\ kb.out \in BOOLEAN
      /\ kb.out <=> KbLine(kb)
  BY DEF KbInv, KbSound
<1>2. kb' = [kb EXCEPT !.key_down = now, !.queue = q]
  BY DEF ScanKeyboard
<1> HIDE DEF q
<1>3. kb' = [clear |-> kb.clear, clock |-> kb.clock, full |-> kb.full, data |-> kb.data,
             queue |-> q, resetting |-> kb.resetting, key_down |-> now, out |-> kb.out]
  BY <1>1, <1>2
<1>4. kb'.clear = kb.clear /\ kb'.full = kb.full /\ kb'.out = kb.out
  BY <1>3
<1>5. KbSound(kb')
  BY <1>1, <1>3, <1>4 DEF KbSound, KbLine
<1> QED
  BY <1>4, <1>5 DEF KbInv

LEMMA KbPowerKeeps ==
  ASSUME KbInv, KbPowerOn
  PROVE  KbInv' /\ ~kb'.out
<1>1. kb = [clear |-> kb.clear, clock |-> kb.clock, full |-> kb.full, data |-> kb.data,
            queue |-> kb.queue, resetting |-> kb.resetting, key_down |-> kb.key_down,
            out |-> kb.out]
  BY DEF KbInv, KbSound
<1>2. kb' = [clear |-> FALSE, clock |-> FALSE, full |-> FALSE, data |-> NoCode,
             queue |-> <<>>, resetting |-> FALSE, key_down |-> kb.key_down, out |-> FALSE]
  BY <1>1 DEF KbPowerOn
<1>3. KbSound(kb') /\ ~kb'.out
  BY <1>2 DEF KbSound, KbLine
<1> QED
  BY <1>3 DEF KbInv

----------------------------------------------------------------------------
(***************************************************************************)
(* The machine: the devices, the controller, and the lines between them.   *)
(***************************************************************************)

\* A line of the controller is high when its device last made it so.
Driven(l) == \/ l = 1 /\ kb.out
             \/ l = 4 /\ com.out
             \/ l = 5 /\ hdc.out
             \/ l = 6 /\ fdc.out
Wired == fitted # "pic" => \A l : l \in pic.lines <=> Driven(l)

PcInv == PicInv /\ FdcInv /\ HdcInv /\ ComInv /\ KbInv /\ Wired

\* At power-on every line is low.
LEMMA PcStarts == Init => PcInv
<1> SUFFICES ASSUME Init PROVE PcInv
  OBVIOUS
<1>1. FdcInv /\ ~fdc.out
  BY FdcStarts DEF Init
<1>2. HdcInv /\ ~hdc.out
  BY HdcStarts DEF Init
<1>3. ComInv /\ ~com.out
  BY ComStarts DEF Init, ComInit, ComInv
<1>4. KbInv /\ ~kb.out
  BY DEF Init, KbInv, KbSound, KbLine
<1>5. pic \in PicRecs /\ pic.isr = {} /\ pic.lines = {} /\ nest = <<>>
  BY PicStarts DEF Init
<1>6. PicInv
  BY <1>5, NoneServed DEF PicInv
<1>7. Wired
  BY <1>1, <1>2, <1>3, <1>4, <1>5 DEF Wired, Driven
<1> QED
  BY <1>1, <1>2, <1>3, <1>4, <1>6, <1>7 DEF PcInv

\* One device moves, and its line with it.
LEMMA DeviceMoves ==
  ASSUME PcInv, NEW line \in {1, 4, 5, 6}, NEW level, DriveLine(line, level), fitted' = fitted,
         FdcInv', HdcInv', ComInv', KbInv',
         \A l : l = line => (Driven(l)' <=> level),
         \A l : l # line => (Driven(l)' <=> Driven(l))
  PROVE  PcInv'
<1>1. line \in Irqs
  BY DEF Irqs
<1>2. PicInv'
  BY <1>1, DriveKeeps DEF PcInv
<1>3. \A l : l \in pic'.lines <=> (l = line /\ level) \/ (l # line /\ l \in pic.lines)
  BY <1>1, DriveKeeps DEF PcInv
<1>4. Wired'
  BY <1>3 DEF PcInv, Wired
<1> QED
  BY <1>2, <1>4 DEF PcInv

LEMMA KeyboardKeeps ==
  ASSUME PcInv, Keyboard
  PROVE  PcInv'
<1>1. FdcInv' /\ HdcInv' /\ ComInv'
  BY DEF PcInv, Keyboard, FdcInv, HdcInv, ComInv, fdcVars, hdcVars, comVars
<1>2. fdc' = fdc /\ hdc' = hdc /\ com' = com /\ fitted' = fitted
  BY DEF Keyboard, fdcVars, hdcVars, comVars
<1>3. CASE /\ KbService \/ \E clear, clock, long \in BOOLEAN : KbPortB(clear, clock, long)
           /\ DriveLine(1, kb'.out)
  <2>1. KbInv'
    BY <1>3, KbServiceKeeps, KbPortBKeeps DEF PcInv
  <2>2. /\ \A l : l = 1 => (Driven(l)' <=> kb'.out)
        /\ \A l : l # 1 => (Driven(l)' <=> Driven(l))
    BY <1>2 DEF Driven
  <2> QED
    BY <1>1, <1>2, <1>3, <2>1, <2>2, DeviceMoves
<1>4. CASE (\E now \in SUBSET Keys : ScanKeyboard(now)) /\ UNCHANGED picVars
  <2>1. KbInv' /\ kb'.out = kb.out
    BY <1>4, ScanKeeps DEF PcInv
  <2>2. PicInv' /\ pic' = pic
    BY <1>4 DEF PcInv, PicInv, picVars
  <2>3. Wired'
    BY <1>2, <2>1, <2>2 DEF PcInv, Wired, Driven
  <2> QED
    BY <1>1, <2>1, <2>2, <2>3 DEF PcInv
<1> QED
  BY <1>3, <1>4 DEF Keyboard

LEMMA DisketteKeeps ==
  ASSUME PcInv, Diskette
  PROVE  PcInv'
<1>1. HdcInv' /\ ComInv' /\ KbInv'
  BY DEF PcInv, Diskette, HdcInv, ComInv, KbInv, kbVars, hdcVars, comVars
<1>2. kb' = kb /\ hdc' = hdc /\ com' = com /\ fitted' = fitted
  BY DEF Diskette, kbVars, hdcVars, comVars
<1>3. FdcInv'
  BY FdcKeeps DEF PcInv, Diskette
<1>4. /\ \A l : l = 6 => (Driven(l)' <=> fdc'.out)
      /\ \A l : l # 6 => (Driven(l)' <=> Driven(l))
  BY <1>2 DEF Driven
<1> QED
  BY <1>1, <1>2, <1>3, <1>4, DeviceMoves DEF Diskette

LEMMA SerialKeeps ==
  ASSUME PcInv, Serial
  PROVE  PcInv'
<1>1. HdcInv' /\ FdcInv' /\ KbInv'
  BY DEF PcInv, Serial, HdcInv, FdcInv, KbInv, kbVars, hdcVars, fdcVars
<1>2. kb' = kb /\ hdc' = hdc /\ fdc' = fdc /\ fitted' = fitted
  BY DEF Serial, kbVars, hdcVars, fdcVars
<1>3. ComInv'
  BY ComKeeps DEF PcInv, Serial
<1>4. /\ \A l : l = 4 => (Driven(l)' <=> com'.out)
      /\ \A l : l # 4 => (Driven(l)' <=> Driven(l))
  BY <1>2 DEF Driven
<1> QED
  BY <1>1, <1>2, <1>3, <1>4, DeviceMoves DEF Serial

LEMMA FixedDiskKeeps ==
  ASSUME PcInv, FixedDisk
  PROVE  PcInv'
<1>1. ComInv' /\ FdcInv' /\ KbInv'
  BY DEF PcInv, FixedDisk, ComInv, FdcInv, KbInv, kbVars, comVars, fdcVars
<1>2. kb' = kb /\ com' = com /\ fdc' = fdc /\ fitted' = fitted
  BY DEF FixedDisk, kbVars, comVars, fdcVars
<1>3. HdcInv'
  BY HdcKeeps DEF PcInv, FixedDisk
<1>4. /\ \A l : l = 5 => (Driven(l)' <=> hdc'.out)
      /\ \A l : l # 5 => (Driven(l)' <=> Driven(l))
  BY <1>2 DEF Driven
<1> QED
  BY <1>1, <1>2, <1>3, <1>4, DeviceMoves DEF FixedDisk

\* Only the controller moves, or a line that no device of the models drives.
LEMMA OthersStay ==
  ASSUME PcInv, UNCHANGED <<fitted, kbVars, fdcVars, comVars, hdcVars>>,
         PicInv', fitted = "pic" \/ pic'.lines = pic.lines
  PROVE  PcInv'
<1>1. ComInv' /\ FdcInv' /\ KbInv' /\ HdcInv'
  BY DEF PcInv, ComInv, FdcInv, KbInv, HdcInv, kbVars, comVars, fdcVars, hdcVars
<1>2. kb' = kb /\ com' = com /\ fdc' = fdc /\ hdc' = hdc /\ fitted' = fitted
  BY DEF kbVars, comVars, fdcVars, hdcVars
<1>3. Wired'
  BY <1>2 DEF PcInv, Wired, Driven
<1> QED
  BY <1>1, <1>3 DEF PcInv

\* The controller is reset first and the devices lower their lines.
LEMMA ResetKeeps ==
  ASSUME PcInv, Reset
  PROVE  PcInv'
<1>1. FdcInv' /\ ~fdc'.out
  BY FdcPowerKeeps DEF PcInv, Reset
<1>2. HdcInv' /\ ~hdc'.out
  BY HdcPowerKeeps DEF PcInv, Reset
<1>3. ComInv' /\ ~com'.out
  BY ComStarts DEF Reset, ComPowerOn, ComInv
<1>4. KbInv' /\ ~kb'.out
  BY KbPowerKeeps DEF PcInv, Reset
<1>5. pic' \in PicRecs /\ pic'.isr = {} /\ pic'.lines = {} /\ nest' = <<>>
  BY PicStarts DEF Reset
<1>6. PicInv'
  BY <1>5, NoneServed DEF PicInv
<1>7. Wired'
  BY <1>1, <1>2, <1>3, <1>4, <1>5 DEF Wired, Driven
<1> QED
  BY <1>1, <1>2, <1>3, <1>4, <1>6, <1>7 DEF PcInv

LEMMA PcKeeps == PcInv /\ [Next]_vars => PcInv'
<1> SUFFICES ASSUME PcInv, [Next]_vars PROVE PcInv'
  OBVIOUS
<1>1. CASE Wire
  <2>1. PICK line \in {0, 1, 6}, level \in BOOLEAN : DriveLine(line, level)
    BY <1>1 DEF Wire
  <2>2. PicInv'
    BY <2>1, DriveKeeps DEF PcInv, Irqs
  <2> QED
    BY <1>1, <2>2, OthersStay DEF Wire
<1>2. CASE Interrupts
  <2>1. PicInv' /\ pic'.lines = pic.lines
    BY <1>2, InterruptsKeep DEF PcInv
  <2> QED
    BY <1>2, <2>1, OthersStay DEF Interrupts
<1>3. CASE ProgramPic
  <2>1. PicInv' /\ pic'.lines = pic.lines
    BY <1>3, ProgramKeeps DEF PcInv
  <2> QED
    BY <1>3, <2>1, OthersStay DEF ProgramPic
<1>4. CASE UNCHANGED vars
  <2>1. UNCHANGED <<fitted, kbVars, fdcVars, comVars, hdcVars>> /\ UNCHANGED picVars
    BY <1>4 DEF vars
  <2>2. PicInv' /\ pic' = pic
    BY <2>1 DEF PcInv, PicInv, picVars
  <2> QED
    BY <2>1, <2>2, OthersStay
<1> QED
  BY <1>1, <1>2, <1>3, <1>4, KeyboardKeeps, DisketteKeeps, SerialKeeps, FixedDiskKeeps,
     ResetKeeps DEF Next

\* The controller's registers, the ports and the disks stay as PcInv says.
THEOREM PcSound == Spec => []PcInv
<1> QED
  BY PcStarts, PcKeeps, PTL DEF Spec

(***************************************************************************)
(* Handlers nest by priority and no request is lost, whichever lines are   *)
(* wired and however the guest programs the controller                     *)
(* (hardware/device/i8259.c).                                              *)
(***************************************************************************)
THEOREM HandlersNest == Spec => []InterruptsInOrder
<1>1. PcInv => InterruptsInOrder
  <2> SUFFICES ASSUME PicInv PROVE InterruptsInOrder
    BY DEF PcInv
  <2>1. nest \in Seq(Irqs) /\ DOMAIN nest = 1..Len(nest)
    BY LenProperties DEF PicInv
  <2>2. NestedByPriority
    BY <2>1, Zenon DEF PicInv, Descending, Served, NestedByPriority
  <2>3. NoLostInterrupt
    BY DEF PicInv, NoLostInterrupt
  <2> QED
    BY <2>2, <2>3 DEF InterruptsInOrder
<1> QED
  BY <1>1, PcSound, PTL

(***************************************************************************)
(* Every line is at the level its device asks for: the adapters' registers *)
(* and the controller never part (fdc_set_irq, com1_set_irq, hdc_set_irq   *)
(* and kb_update_irq of machine_ibm5150.c).                                *)
(***************************************************************************)
THEOREM LinesFollow == Spec => []LinesDriven
<1>1. PcInv => LinesDriven
  <2> SUFFICES ASSUME PcInv PROVE LinesDriven
    OBVIOUS
  <2>1. fdc.out <=> fdc.irq /\ fdc.gate
    BY DEF PcInv, FdcInv, FdcSound
  <2>2. com.out <=> ComLine(com)
    BY DEF PcInv, ComInv, ComSound
  <2>3. hdc.out <=> hdc.phase = "status" /\ hdc.enabled
    BY DEF PcInv, HdcInv, HdcSound
  <2>4. kb.out <=> KbLine(kb)
    BY DEF PcInv, KbInv, KbSound
  <2>5. fitted # "pic" =>
          pic.lines = {l \in {1, 4, 5, 6} : \/ l = 1 /\ kb.out
                                            \/ l = 4 /\ com.out
                                            \/ l = 5 /\ hdc.out
                                            \/ l = 6 /\ fdc.out}
    <3> SUFFICES ASSUME fitted # "pic"
                 PROVE  pic.lines = {l \in {1, 4, 5, 6} : Driven(l)}
      BY DEF Driven
    <3>1. \A l : l \in pic.lines <=> Driven(l)
      BY DEF PcInv, Wired
    <3>2. \A l : Driven(l) => l \in {1, 4, 5, 6}
      BY DEF Driven
    <3> QED
      BY <3>1, <3>2, Zenon
  <2> QED
    BY <2>1, <2>2, <2>3, <2>4, <2>5 DEF LinesDriven
<1> QED
  BY <1>1, PcSound, PTL

(***************************************************************************)
(* A transfer of the fixed disk that ends well has moved the sectors asked *)
(* for, and one under way stands at the sector that follows those it has   *)
(* moved, for every geometry (next_sector of hardware/device/ibm_hdc.c).   *)
(***************************************************************************)
THEOREM SectorsMoved == Spec => []HdcTransfersAll
<1>1. PcInv => HdcTransfersAll
  BY HdcMovesAll DEF PcInv
<1> QED
  BY <1>1, PcSound, PTL

(***************************************************************************)
(* Under a guest that reads its results, every completion of the diskette  *)
(* controller finds its line low, so that the edge-triggered controller    *)
(* sees it (upd765_tick of hardware/device/upd765.c).                      *)
(***************************************************************************)
THEOREM EdgesFresh == Spec => FdcFreshEdge
<1>1. PcInv => [FdcTick /\ fdc.irq_after /\ polite => ~fdc.irq]_fdcVars
  BY TickKeeps DEF PcInv
<1> QED
  BY <1>1, PcSound, PTL DEF FdcFreshEdge

----------------------------------------------------------------------------
(***************************************************************************)
(* What the keyboard tells the guest.                                      *)
(***************************************************************************)

Messages == Codes \cup {NoCode, SelfTest}
Quiet(c) == c \in {NoCode, SelfTest}

LEMMA CodesTell ==
  /\ Codes \in SUBSET Messages /\ NoCode \in Messages /\ SelfTest \in Messages
  /\ \A c \in Codes : /\ c.key \in Keys /\ c.down \in BOOLEAN /\ ~Quiet(c)
                      /\ \A k : Tells(c, k) <=> c.key = k
<1>1. \A c \in Codes : c.key \in Keys /\ c.down \in BOOLEAN
  BY DEF Codes
<1>2. NoCode.key = 0 /\ SelfTest.key = 170
  BY DEF NoCode, SelfTest
<1>3. 0 \notin Keys /\ 170 \notin Keys
  BY KeySizes
<1>4. \A c \in Codes : ~Quiet(c)
  BY <1>1, <1>2, <1>3 DEF Quiet
<1> QED
  BY <1>1, <1>4 DEF Messages, Tells, Quiet

\* The last code that tells of a key counts.
Told(s, key) == \E i \in DOMAIN s : Tells(s[i], key)
LastDown(s, key) == \E i \in DOMAIN s : /\ Tells(s[i], key) /\ s[i].down
                                       /\ \A j \in DOMAIN s : i < j => ~Tells(s[j], key)

LEMMA GotAllIs ==
  ASSUME NEW g, NEW s
  PROVE  /\ GotAll(g, s) \in SUBSET Keys
         /\ \A key \in Keys : key \in GotAll(g, s) <=> (key \in g /\ ~Told(s, key)) \/ LastDown(s, key)
BY DEF GotAll, Told, LastDown

\* One code.
LEMMA GotOne ==
  ASSUME NEW g \in SUBSET Keys, NEW c \in Messages
  PROVE  /\ Got(g, c) \in SUBSET Keys /\ GotAll(g, <<c>>) = Got(g, c)
         /\ Quiet(c) => Got(g, c) = g
<1> DEFINE s == <<c>>
<1>1. DOMAIN s = {1} /\ s[1] = c
  OBVIOUS
<1> HIDE DEF s
<1>2. \A k \in Keys : k \in GotAll(g, s) <=> (k \in g /\ ~Tells(c, k)) \/ (Tells(c, k) /\ c.down)
  <2> TAKE k \in Keys
  <2>1. Told(s, k) <=> Tells(c, k)
    BY <1>1 DEF Told
  <2>2. LastDown(s, k) <=> Tells(c, k) /\ c.down
    BY <1>1 DEF LastDown
  <2> QED
    BY <2>1, <2>2, GotAllIs
<1>5. GotAll(g, s) \in SUBSET Keys
  BY GotAllIs
<1>3. CASE Quiet(c)
  <2>1. \A k : ~Tells(c, k)
    BY <1>3 DEF Quiet, Tells
  <2>2. Got(g, c) = g
    BY <1>3 DEF Quiet, Got
  <2>3. GotAll(g, s) = g
    BY <1>2, <1>5, <2>1
  <2> QED
    BY <2>2, <2>3 DEF s
<1>4. CASE ~Quiet(c)
  <2>1. c \in Codes
    BY <1>4 DEF Messages, Quiet
  <2>2. c.key \in Keys /\ \A k : Tells(c, k) <=> c.key = k
    BY <2>1, CodesTell
  <2>3. Got(g, c) = IF c.down THEN g \cup {c.key} ELSE g \ {c.key}
    BY <1>4 DEF Quiet, Got
  <2>4. GotAll(g, s) = Got(g, c)
    BY <1>2, <1>5, <2>2, <2>3
  <2> QED
    BY <1>4, <2>2, <2>3, <2>4 DEF s
<1> QED
  BY <1>3, <1>4

\* One after the other.
LEMMA GotThen ==
  ASSUME NEW g \in SUBSET Keys, NEW s \in Seq(Messages), NEW t \in Seq(Messages)
  PROVE  GotAll(g, s) \in SUBSET Keys /\ GotAll(g, s \o t) = GotAll(GotAll(g, s), t)
<1> DEFINE m == Len(s)
           n == Len(t)
           u == s \o t
<1>1. m \in Nat /\ n \in Nat /\ DOMAIN s = 1 .. m /\ DOMAIN t = 1 .. n /\ DOMAIN u = 1 .. m + n
  BY LenProperties, ConcatProperties
<1>2. \A i \in 1 .. m : u[i] = s[i]
  BY ConcatProperties
<1>3. \A i \in 1 .. n : u[m + i] = t[i] /\ m + i \in 1 .. m + n
  BY <1>1, ConcatProperties
<1>4. \A i \in 1 .. m + n : i \in 1 .. m \/ \E j \in 1 .. n : i = m + j
  <2> TAKE i \in 1 .. m + n
  <2>1. i \notin 1 .. m => i - m \in 1 .. n /\ i = m + (i - m)
    BY <1>1
  <2> QED
    BY <2>1
<1> HIDE DEF m, n, u
<1>5. GotAll(g, s) \in SUBSET Keys
  BY GotAllIs
<1>6. ASSUME NEW k \in Keys
      PROVE  k \in GotAll(g, u) <=> k \in GotAll(GotAll(g, s), t)
  <2>2. Told(u, k) <=> Told(s, k) \/ Told(t, k)
    <3>1. Told(u, k) => Told(s, k) \/ Told(t, k)
      <4> SUFFICES ASSUME NEW i \in 1 .. m + n, Tells(u[i], k)
                   PROVE  Told(s, k) \/ Told(t, k)
        BY <1>1 DEF Told
      <4>1. CASE i \in 1 .. m
        BY <1>1, <1>2, <4>1 DEF Told
      <4>2. ASSUME NEW j \in 1 .. n, i = m + j
            PROVE  Told(t, k)
        BY <1>1, <1>3, <4>2 DEF Told
      <4> QED
        BY <1>4, <4>1, <4>2
    <3>2. Told(s, k) => Told(u, k)
      <4> SUFFICES ASSUME NEW i \in 1 .. m, Tells(s[i], k)
                   PROVE  Told(u, k)
        BY <1>1 DEF Told
      <4>1. i \in 1 .. m + n
        BY <1>1
      <4> QED
        BY <1>1, <1>2, <4>1 DEF Told
    <3>3. Told(t, k) => Told(u, k)
      BY <1>1, <1>3 DEF Told
    <3> QED
      BY <3>1, <3>2, <3>3
  <2>3. LastDown(u, k) <=> LastDown(t, k) \/ (LastDown(s, k) /\ ~Told(t, k))
    <3>1. ASSUME LastDown(u, k) PROVE LastDown(t, k) \/ (LastDown(s, k) /\ ~Told(t, k))
      <4>1. PICK i \in 1 .. m + n : /\ Tells(u[i], k) /\ u[i].down
                                    /\ \A j \in 1 .. m + n : i < j => ~Tells(u[j], k)
        BY <1>1, <3>1 DEF LastDown
      <4>2. CASE i \in 1 .. m
        <5>1. \A j \in 1 .. n : ~Tells(t[j], k)
          <6> TAKE j \in 1 .. n
          <6>1. i < m + j
            BY <1>1, <4>2
          <6> QED
            BY <1>3, <4>1, <6>1
        <5>2. \A j \in 1 .. m : i < j => ~Tells(s[j], k)
          <6> TAKE j \in 1 .. m
          <6>1. j \in 1 .. m + n
            BY <1>1
          <6> QED
            BY <1>2, <4>1, <6>1
        <5> QED
          BY <1>1, <1>2, <4>1, <4>2, <5>1, <5>2 DEF Told, LastDown
      <4>3. ASSUME NEW h \in 1 .. n, i = m + h
            PROVE  LastDown(t, k)
        <5>1. \A j \in 1 .. n : h < j => ~Tells(t[j], k)
          <6> TAKE j \in 1 .. n
          <6>1. h < j => i < m + j
            BY <1>1, <4>3
          <6> QED
            BY <1>3, <4>1, <6>1
        <5> QED
          BY <1>1, <1>3, <4>1, <4>3, <5>1 DEF LastDown
      <4> QED
        BY <1>4, <4>2, <4>3
    <3>2. ASSUME LastDown(t, k) PROVE LastDown(u, k)
      <4>1. PICK h \in 1 .. n : /\ Tells(t[h], k) /\ t[h].down
                                /\ \A j \in 1 .. n : h < j => ~Tells(t[j], k)
        BY <1>1, <3>2 DEF LastDown
      <4>2. \A j \in 1 .. m + n : m + h < j => ~Tells(u[j], k)
        <5> SUFFICES ASSUME NEW j \in 1 .. m + n, m + h < j PROVE ~Tells(u[j], k)
          OBVIOUS
        <5>1. j \notin 1 .. m
          BY <1>1
        <5>2. PICK i \in 1 .. n : j = m + i
          BY <1>4, <5>1
        <5>3. h < i
          BY <1>1, <5>2
        <5> QED
          BY <1>3, <4>1, <5>2, <5>3
      <4>3. m + h \in 1 .. m + n /\ u[m + h] = t[h]
        BY <1>3
      <4> QED
        BY <1>1, <4>1, <4>2, <4>3 DEF LastDown
    <3>3. ASSUME LastDown(s, k), ~Told(t, k) PROVE LastDown(u, k)
      <4>1. PICK h \in 1 .. m : /\ Tells(s[h], k) /\ s[h].down
                                /\ \A j \in 1 .. m : h < j => ~Tells(s[j], k)
        BY <1>1, <3>3 DEF LastDown
      <4>2. \A j \in 1 .. m + n : h < j => ~Tells(u[j], k)
        <5> SUFFICES ASSUME NEW j \in 1 .. m + n, h < j PROVE ~Tells(u[j], k)
          OBVIOUS
        <5>1. CASE j \in 1 .. m
          BY <1>2, <4>1, <5>1
        <5>2. ASSUME NEW i \in 1 .. n, j = m + i
              PROVE  ~Tells(u[j], k)
          BY <1>1, <1>3, <3>3, <5>2 DEF Told
        <5> QED
          BY <1>4, <5>1, <5>2
      <4>3. h \in 1 .. m + n /\ u[h] = s[h]
        BY <1>1, <1>2
      <4> QED
        BY <1>1, <4>1, <4>2, <4>3 DEF LastDown
    <3> QED
      BY <3>1, <3>2, <3>3
  <2> QED
    BY <2>2, <2>3, GotAllIs
<1>7. GotAll(g, u) \in SUBSET Keys /\ GotAll(GotAll(g, s), t) \in SUBSET Keys
  BY GotAllIs
<1> QED
  BY <1>5, <1>6, <1>7 DEF u

\* A set of natural numbers has a least one.
LEMMA LeastBy ==
    ASSUME NEW S \in SUBSET Nat, S # {}, NEW R, IsWellFoundedOn(R, Nat),
           \A x, y \in S : (<<y, x>> \in R) <=> y < x
    PROVE  \E m \in S : \A k \in S : m <= k
<1>1. \E x \in S : \A y \in S : ~ (<<y, x>> \in R)
  BY WFMin
<1>2. PICK m \in S : \A y \in S : ~ (<<y, m>> \in R)
  BY <1>1
<1>3. \A y \in S : ~ (y < m)
  BY <1>2, Zenon
<1>4. \A y \in S : m <= y
  BY <1>3
<1> QED
  BY <1>4

LEMMA LeastNatural ==
    ASSUME NEW S \in SUBSET Nat, S # {}
    PROVE  \E m \in S : \A k \in S : m <= k
<1>1. \A x, y \in S : (<<y, x>> \in OpToRel(<, Nat)) <=> y < x
  BY DEF OpToRel
<1> QED
  BY <1>1, NatLessThanWellFounded, LeastBy, Zenon

\* A pass over the codes tells of each key of a set, of no other, and the same.
LEMMA PassTells ==
  ASSUME NEW S \in SUBSET Keys, NEW down \in BOOLEAN, NEW mods \in SUBSET Modifiers
  PROVE  LET s == InOrder(S, down, mods)
         IN  /\ s \in Seq(Codes)
             /\ \A i \in DOMAIN s : s[i].key \in S /\ s[i].down = down /\ s[i].mods = mods
             /\ \A k \in S : \E i \in DOMAIN s : s[i].key = k
<1> DEFINE B(n) == {l \in S : l < n}
           c(n) == Cardinality(B(n))
           N == Cardinality(S)
           s == InOrder(S, down, mods)
           At(i) == CHOOSE k \in S : c(k) = i - 1
<1>1. S \in SUBSET Nat /\ IsFiniteSet(S) /\ N \in Nat
  <2>1. S \in SUBSET Nat /\ 127 \in Nat /\ \A l \in S : l <= 127
    BY KeySizes
  <2>2. IsFiniteSet(S)
    BY <2>1, FS_BoundedSetOfNaturals
  <2> QED
    BY <2>1, <2>2, FS_CardinalityType
<1>0. \A l \in S : l \in Int /\ ~(l < 0) /\ l < 128
  BY KeySizes
<1>2. \A n \in Nat : IsFiniteSet(B(n)) /\ c(n) \in Nat /\ c(n) <= N
  <2> TAKE n \in Nat
  <2>1. B(n) \in SUBSET S
    OBVIOUS
  <2> HIDE DEF B
  <2> QED
    BY <1>1, <2>1, FS_Subset, FS_CardinalityType
<1>3. \A n \in Nat : c(n + 1) = IF n \in S THEN c(n) + 1 ELSE c(n)
  <2> TAKE n \in Nat
  <2>1. CASE n \in S
    <3>0. \A l \in S : l < n + 1 <=> l < n \/ l = n
      BY <1>0
    <3>3. \A l : l \in B(n + 1) <=> l \in B(n) \/ l = n
      BY <2>1, <3>0
    <3>4. n \notin B(n)
      OBVIOUS
    <3>1. B(n + 1) = B(n) \cup {n} /\ n \notin B(n)
      BY <3>3, <3>4
    <3> HIDE DEF B
    <3>2. Cardinality(B(n) \cup {n}) = Cardinality(B(n)) + 1
      BY <1>2, <3>1, FS_AddElement
    <3> QED
      BY <2>1, <3>1, <3>2
  <2>2. CASE n \notin S
    <3>0. \A l \in S : l < n + 1 <=> l < n
      BY <1>0, <2>2
    <3>1. B(n + 1) = B(n)
      BY <3>0
    <3> QED
      BY <2>2, <3>1
  <2> QED
    BY <2>1, <2>2
<1>4. c(0) = 0 /\ c(128) = N
  <2>1. B(0) = {} /\ B(128) = S
    BY <1>0
  <2> HIDE DEF B
  <2> QED
    BY <2>1, FS_EmptySet
<1>5. \A k, l \in S : k < l => c(k) < c(l)
  <2> SUFFICES ASSUME NEW k \in S, NEW l \in S, k < l PROVE c(k) < c(l)
    OBVIOUS
  <2>1. k \in Nat /\ l \in Nat /\ k + 1 \in Nat
    BY <1>1
  <2>6. \A j \in S : j < k + 1 => j < l
    BY <1>0, <2>1
  <2>2. B(k + 1) \in SUBSET B(l)
    BY <2>6
  <2> HIDE DEF B
  <2>3. c(k + 1) <= c(l)
    BY <1>2, <2>1, <2>2, FS_Subset
  <2>4. c(k + 1) = c(k) + 1
    BY <1>3, <2>1
  <2>5. c(k) \in Nat /\ c(l) \in Nat
    BY <1>2, <2>1
  <2> HIDE DEF c
  <2> QED
    BY <2>3, <2>4, <2>5
<1>6. \A k \in S : c(k) + 1 \in 1 .. N
  <2> TAKE k \in S
  <2>1. k \in Nat /\ k + 1 \in Nat
    BY <1>1
  <2> HIDE DEF B, c
  <2>2. c(k + 1) = c(k) + 1 /\ c(k + 1) <= N /\ c(k) \in Nat
    BY <1>2, <1>3, <2>1
  <2> QED
    BY <1>1, <2>2
<1>7. \A i \in 1 .. N : \E k \in S : c(k) = i - 1
  <2> TAKE i \in 1 .. N
  <2> DEFINE X == {n \in Nat : c(n) >= i}
  <2>1. 128 \in X
    BY <1>4
  <2>2. PICK n \in X : \A j \in X : n <= j
    BY <2>1, LeastNatural
  <2> HIDE DEF B, c
  <2>3. n \in Nat /\ c(n) >= i /\ n # 0
    BY <1>4, <2>2
  <2>4. n - 1 \in Nat /\ n - 1 \notin X
    BY <2>2, <2>3
  <2>5. c(n - 1) < i
    BY <1>2, <2>4
  <2>6. c((n - 1) + 1) = IF n - 1 \in S THEN c(n - 1) + 1 ELSE c(n - 1)
    BY <1>3, <2>4
  <2>7. (n - 1) + 1 = n
    BY <2>3
  <2>8. c(n - 1) \in Nat /\ c(n) \in Nat
    BY <1>2, <2>3, <2>4
  <2>9. n - 1 \in S /\ c(n - 1) = i - 1
    BY <2>3, <2>5, <2>6, <2>7, <2>8
  <2> QED
    BY <2>9
<1>8. s = [i \in 1 .. N |-> [key |-> At(i), down |-> down, mods |-> mods]]
  BY DEF InOrder
<1> HIDE DEF B, c, N, s
<1>9. \A i \in 1 .. N : At(i) \in S /\ c(At(i)) = i - 1
  BY <1>7
<1> HIDE DEF At
<1>10. DOMAIN s = 1 .. N /\ \A i \in 1 .. N : s[i] \in Codes /\ s[i].key = At(i) /\ s[i].down = down
                                                    /\ s[i].mods = mods
  BY <1>8, <1>9 DEF Codes
<1>11. s \in Seq(Codes)
  <2>1. s \in [1 .. N -> Codes]
    BY <1>8, <1>10
  <2> QED
    BY <1>1, <2>1, SeqDef
<1>12. \A k \in S : \E i \in DOMAIN s : s[i].key = k
  <2> TAKE k \in S
  <2>1. PICK i \in 1 .. N : i = c(k) + 1
    BY <1>6
  <2>2. c(At(i)) = c(k) /\ At(i) \in S
    <3>1. c(k) \in Nat
      BY <1>1, <1>2
    <3> QED
      BY <1>9, <2>1, <3>1
  <2>3. At(i) = k
    <3>1. k \in Nat /\ At(i) \in Nat
      BY <1>1, <2>2
    <3>2. c(k) \in Nat
      BY <1>2, <3>1
    <3>3. ~(c(k) < c(k))
      BY <3>2
    <3>4. ~(k < At(i)) /\ ~(At(i) < k)
      BY <1>5, <2>2, <3>3
    <3> QED
      BY <3>1, <3>4
  <2> QED
    BY <1>10, <2>1, <2>3
<1> QED
  BY <1>9, <1>10, <1>11, <1>12 DEF s

LEMMA PassGot ==
  ASSUME NEW S \in SUBSET Keys, NEW down \in BOOLEAN, NEW mods \in SUBSET Modifiers,
         NEW g \in SUBSET Keys
  PROVE  GotAll(g, InOrder(S, down, mods)) = IF down THEN g \cup S ELSE g \ S
<1> DEFINE s == InOrder(S, down, mods)
<1>1. /\ s \in Seq(Codes)
      /\ \A i \in DOMAIN s : s[i].key \in S /\ s[i].down = down
      /\ \A k \in S : \E i \in DOMAIN s : s[i].key = k
  BY PassTells
<1>2. \A i \in DOMAIN s : s[i] \in Codes
  BY <1>1, ElementOfSeq, LenProperties
<1>3. \A i \in DOMAIN s : \A k : Tells(s[i], k) <=> s[i].key = k
  BY <1>2, CodesTell
<1>4. DOMAIN s = 1 .. Len(s) /\ Len(s) \in Nat
  BY <1>1, LenProperties
<1> HIDE DEF s
<1>5. ASSUME NEW k \in Keys
      PROVE  /\ Told(s, k) <=> k \in S
             /\ LastDown(s, k) <=> k \in S /\ down
  <2>1. Told(s, k) <=> k \in S
    BY <1>1, <1>3 DEF Told
  <2>2. LastDown(s, k) => k \in S /\ down
    BY <1>1, <1>3 DEF LastDown
  <2>3. ASSUME k \in S, down PROVE LastDown(s, k)
    <3> DEFINE X == {n \in Nat : n <= Len(s) /\ \A j \in DOMAIN s : n < j => ~Tells(s[j], k)}
    <3>1. Len(s) \in X
      BY <1>4
    <3>2. PICK n \in X : \A j \in X : n <= j
      BY <3>1, LeastNatural
    <3>3. PICK i \in DOMAIN s : Tells(s[i], k)
      BY <1>1, <1>3, <2>3
    <3>4. n \in Nat /\ n <= Len(s) /\ i <= n /\ i \in 1 .. Len(s)
      BY <1>4, <3>2, <3>3
    <3>5. n \in 1 .. Len(s) /\ n - 1 \in Nat
      BY <1>4, <3>4
    <3>6. n - 1 \notin X
      BY <3>2, <3>5
    <3>7. PICK j \in DOMAIN s : n - 1 < j /\ Tells(s[j], k)
      BY <1>4, <3>5, <3>6
    <3>8. j = n
      BY <1>4, <3>2, <3>5, <3>7
    <3> QED
      BY <1>1, <2>3, <3>2, <3>7, <3>8 DEF LastDown
  <2> QED
    BY <2>1, <2>2, <2>3
<1>6. \A k \in Keys : k \in GotAll(g, s) <=> (k \in g /\ k \notin S) \/ (k \in S /\ down)
  BY <1>5, GotAllIs
<1>7. GotAll(g, s) \in SUBSET Keys
  BY GotAllIs
<1> QED
  BY <1>6, <1>7 DEF s

\* The codes of a pass leave the keys of other passes as they are.
OfPass(s, S) == s \in Seq(Codes) /\ \A i \in DOMAIN s : s[i].key \in S

LEMMA OthersKept ==
  ASSUME NEW S, NEW s, OfPass(s, S), NEW g \in SUBSET Keys
  PROVE  \A k \in Keys : k \notin S => (k \in GotAll(g, s) <=> k \in g)
<1> SUFFICES ASSUME NEW k \in Keys, k \notin S
             PROVE  k \in GotAll(g, s) <=> k \in g
  OBVIOUS
<1>1. \A i \in DOMAIN s : s[i] \in Codes
  BY ElementOfSeq, LenProperties DEF OfPass
<1>2. \A i \in DOMAIN s : ~Tells(s[i], k)
  BY <1>1, CodesTell DEF OfPass
<1> QED
  BY <1>2, GotAllIs DEF Told, LastDown

\* Each press finds the modifiers of its frame.
Ordered(g, s) ==
  \A i \in 1 .. Len(s) : ~Quiet(s[i]) /\ s[i].down /\ s[i].key \notin Modifiers =>
                           GotAll(g, SubSeq(s, 1, i)) \cap Modifiers = s[i].mods

LEMMA PrefixOf ==
  ASSUME NEW s \in Seq(Messages), NEW t \in Seq(Messages)
  PROVE  /\ Len(s \o t) = Len(s) + Len(t)
         /\ \A i \in 1 .. Len(s) : (s \o t)[i] = s[i] /\ SubSeq(s \o t, 1, i) = SubSeq(s, 1, i)
         /\ \A i \in 1 .. Len(t) : /\ (s \o t)[Len(s) + i] = t[i]
                                   /\ SubSeq(s \o t, 1, Len(s) + i) = s \o SubSeq(t, 1, i)
                                   /\ SubSeq(t, 1, i) \in Seq(Messages)
<1> DEFINE u == s \o t
<1>1. Len(s) \in Nat /\ Len(t) \in Nat /\ Len(u) = Len(s) + Len(t) /\ u \in Seq(Messages)
  BY LenProperties, ConcatProperties
<1>2. \A i \in 1 .. Len(s) : u[i] = s[i]
  BY ConcatProperties
<1>3. \A i \in 1 .. Len(t) : u[Len(s) + i] = t[i]
  BY ConcatProperties
<1>4. ASSUME NEW i \in 1 .. Len(s)
      PROVE  SubSeq(u, 1, i) = SubSeq(s, 1, i)
  <2>1. i \in 1 .. Len(u) /\ i \in Nat
    BY <1>1
  <2> HIDE DEF u
  <2>2. /\ SubSeq(u, 1, i) \in Seq(Messages) /\ Len(SubSeq(u, 1, i)) = i
        /\ \A j \in 1 .. i : SubSeq(u, 1, i)[j] = u[j]
    BY <1>1, <2>1, SubSeqProperties
  <2>3. /\ SubSeq(s, 1, i) \in Seq(Messages) /\ Len(SubSeq(s, 1, i)) = i
        /\ \A j \in 1 .. i : SubSeq(s, 1, i)[j] = s[j]
    BY <1>1, <2>1, SubSeqProperties
  <2>4. \A j \in 1 .. i : u[j] = s[j]
    BY <1>1, <1>2
  <2> QED
    BY <2>2, <2>3, <2>4, SeqEqual
<1>5. ASSUME NEW i \in 1 .. Len(t)
      PROVE  SubSeq(u, 1, Len(s) + i) = s \o SubSeq(t, 1, i) /\ SubSeq(t, 1, i) \in Seq(Messages)
  <2> DEFINE n == Len(s) + i
             v == SubSeq(t, 1, i)
             w == s \o v
  <2>1. n \in 1 .. Len(u) /\ n \in Nat /\ i \in Nat
    BY <1>1
  <2>2. /\ v \in Seq(Messages) /\ Len(v) = i
        /\ \A j \in 1 .. i : v[j] = t[j]
    BY <1>1, <2>1, SubSeqProperties
  <2> HIDE DEF u, v
  <2>3. /\ SubSeq(u, 1, n) \in Seq(Messages) /\ Len(SubSeq(u, 1, n)) = n
        /\ \A j \in 1 .. n : SubSeq(u, 1, n)[j] = u[j]
    BY <1>1, <2>1, SubSeqProperties
  <2>4. /\ w \in Seq(Messages) /\ Len(w) = n
        /\ \A j \in 1 .. Len(s) : w[j] = s[j]
        /\ \A j \in 1 .. i : w[Len(s) + j] = v[j]
    <3>1. w \in Seq(Messages) /\ Len(w) = Len(s) + Len(v)
      BY <2>2, ConcatProperties
    <3>2. /\ \A j \in 1 .. Len(s) : w[j] = s[j]
          /\ \A j \in 1 .. Len(v) : w[Len(s) + j] = v[j]
      BY <2>2, ConcatProperties
    <3> QED
      BY <2>2, <3>1, <3>2
  <2> HIDE DEF w
  <2>5. \A j \in 1 .. n : w[j] = u[j]
    <3> TAKE j \in 1 .. n
    <3>1. CASE j \in 1 .. Len(s)
      BY <1>2, <2>4, <3>1
    <3>2. CASE j \notin 1 .. Len(s)
      <4>1. PICK h \in 1 .. i : j = Len(s) + h
        <5>1. j - Len(s) \in 1 .. i /\ j = Len(s) + (j - Len(s))
          BY <1>1, <2>1, <3>2
        <5> QED
          BY <5>1
      <4>2. h \in 1 .. Len(t)
        BY <1>1
      <4> QED
        BY <1>3, <2>2, <2>4, <4>1, <4>2
    <3> QED
      BY <3>1, <3>2
  <2> QED
    BY <2>2, <2>3, <2>4, <2>5, SeqEqual DEF u, v, w
<1> QED
  BY <1>1, <1>2, <1>3, <1>4, <1>5

LEMMA OrderedThen ==
  ASSUME NEW g \in SUBSET Keys, NEW s \in Seq(Messages), NEW t \in Seq(Messages)
  PROVE  Ordered(g, s \o t) <=> Ordered(g, s) /\ Ordered(GotAll(g, s), t)
<1> DEFINE u == s \o t
           Right(x, r, i) == ~Quiet(r[i]) /\ r[i].down /\ r[i].key \notin Modifiers =>
                               GotAll(x, SubSeq(r, 1, i)) \cap Modifiers = r[i].mods
<1>1. \A x, r : Ordered(x, r) <=> \A i \in 1 .. Len(r) : Right(x, r, i)
  BY DEF Ordered
<1>2. \A i \in 1 .. Len(s) : Right(g, u, i) <=> Right(g, s, i)
  <2> TAKE i \in 1 .. Len(s)
  <2>1. u[i] = s[i] /\ SubSeq(u, 1, i) = SubSeq(s, 1, i)
    BY PrefixOf
  <2> HIDE DEF u
  <2> QED
    BY <2>1
<1>3. \A i \in 1 .. Len(t) : Right(g, u, Len(s) + i) <=> Right(GotAll(g, s), t, i)
  <2> TAKE i \in 1 .. Len(t)
  <2>1. u[Len(s) + i] = t[i] /\ SubSeq(u, 1, Len(s) + i) = s \o SubSeq(t, 1, i)
    BY PrefixOf
  <2>2. GotAll(g, s \o SubSeq(t, 1, i)) = GotAll(GotAll(g, s), SubSeq(t, 1, i))
    BY PrefixOf, GotThen
  <2> QED
    BY <2>1, <2>2
<1> HIDE DEF Right
<1>4. Len(s) \in Nat /\ Len(t) \in Nat /\ Len(u) = Len(s) + Len(t)
  BY LenProperties, PrefixOf
<1> HIDE DEF u
<1>5. (\A i \in 1 .. Len(u) : Right(g, u, i)) <=>
        (\A i \in 1 .. Len(s) : Right(g, s, i)) /\ (\A i \in 1 .. Len(t) : Right(GotAll(g, s), t, i))
  <2>1. ASSUME \A i \in 1 .. Len(u) : Right(g, u, i)
        PROVE  /\ \A i \in 1 .. Len(s) : Right(g, s, i)
               /\ \A i \in 1 .. Len(t) : Right(GotAll(g, s), t, i)
    <3>1. \A i \in 1 .. Len(s) : i \in 1 .. Len(u)
      BY <1>4
    <3>2. \A i \in 1 .. Len(t) : Len(s) + i \in 1 .. Len(u)
      BY <1>4
    <3> QED
      BY <1>2, <1>3, <2>1, <3>1, <3>2
  <2>2. ASSUME /\ \A i \in 1 .. Len(s) : Right(g, s, i)
               /\ \A i \in 1 .. Len(t) : Right(GotAll(g, s), t, i),
               NEW i \in 1 .. Len(u)
        PROVE  Right(g, u, i)
    <3>1. CASE i \in 1 .. Len(s)
      BY <1>2, <2>2, <3>1
    <3>2. CASE i \notin 1 .. Len(s)
      <4>1. PICK h \in 1 .. Len(t) : i = Len(s) + h
        <5>1. i - Len(s) \in 1 .. Len(t) /\ i = Len(s) + (i - Len(s))
          BY <1>4, <3>2
        <5> QED
          BY <5>1
      <4> QED
        BY <1>3, <2>2, <4>1
    <3> QED
      BY <3>1, <3>2
  <2> QED
    BY <2>1, <2>2
<1> QED
  BY <1>1, <1>5 DEF u

(***************************************************************************)
(* What is on its way tells the guest of the keys that are down, and each  *)
(* press on the way finds its modifiers.                                   *)
(***************************************************************************)
Arrives(g, s, down) == GotAll(g, s) = down /\ Ordered(g, s)

LEMMA OneMessage ==
  ASSUME NEW c \in Messages
  PROVE  <<c>> \in Seq(Messages) /\ Len(<<c>>) = 1 /\ <<c>>[1] = c
OBVIOUS

LEMMA QuietArrives ==
  ASSUME NEW g \in SUBSET Keys, NEW q \in Seq(Messages), NEW c \in Messages, Quiet(c), NEW down
  PROVE  Arrives(g, <<c>> \o q, down) <=> Arrives(g, q, down)
<1> DEFINE s == <<c>>
<1>1. s \in Seq(Messages) /\ Len(s) = 1 /\ s[1] = c
  BY OneMessage
<1>2. GotAll(g, s) = g
  BY GotOne
<1> HIDE DEF s
<1>3. Ordered(g, s)
  BY <1>1 DEF Ordered
<1>4. GotAll(g, s \o q) = GotAll(g, q)
  BY <1>1, <1>2, GotThen
<1>5. Ordered(g, s \o q) <=> Ordered(g, q)
  BY <1>1, <1>2, <1>3, OrderedThen
<1> QED
  BY <1>4, <1>5 DEF Arrives, s

\* The guest reads the code in the port.
LEMMA ReadArrives ==
  ASSUME NEW g \in SUBSET Keys, NEW q \in Seq(Messages), NEW c \in Messages, NEW down,
         Arrives(g, <<c>> \o q, down)
  PROVE  Arrives(Got(g, c), <<NoCode>> \o q, down)
<1> DEFINE s == <<c>>
<1>1. s \in Seq(Messages)
  BY OneMessage
<1>2. GotAll(g, s) = Got(g, c) /\ Got(g, c) \in SUBSET Keys
  BY GotOne
<1> HIDE DEF s
<1>3. GotAll(g, s \o q) = GotAll(Got(g, c), q)
  BY <1>1, <1>2, GotThen
<1>4. Ordered(g, s \o q) => Ordered(Got(g, c), q)
  BY <1>1, <1>2, OrderedThen
<1>5. Arrives(Got(g, c), q, down)
  BY <1>3, <1>4 DEF Arrives, s
<1>6. NoCode \in Messages /\ Quiet(NoCode)
  BY DEF Messages, Quiet
<1> QED
  BY <1>2, <1>5, <1>6, QuietArrives

LEMMA ArrivesThen ==
  ASSUME NEW g \in SUBSET Keys, NEW s \in Seq(Messages), NEW t \in Seq(Messages), NEW x, NEW y,
         Arrives(g, s, x), GotAll(x, t) = y, Ordered(x, t)
  PROVE  Arrives(g, s \o t, y) /\ s \o t \in Seq(Messages)
<1>1. GotAll(g, s \o t) = GotAll(GotAll(g, s), t)
  BY GotThen
<1>2. Ordered(g, s \o t) <=> Ordered(g, s) /\ Ordered(GotAll(g, s), t)
  BY OrderedThen
<1>3. s \o t \in Seq(Messages)
  BY ConcatProperties
<1> QED
  BY <1>1, <1>2, <1>3 DEF Arrives

\* What a pass over the keys K does.
IsPass(s, K, way, held) ==
  /\ s \in Seq(Codes)
  /\ \A i \in DOMAIN s : s[i].key \in K /\ s[i].down = way /\ s[i].mods = held
  /\ \A g \in SUBSET Keys : GotAll(g, s) = IF way THEN g \cup K ELSE g \ K

LEMMA PassIs ==
  \A K \in SUBSET Keys, way \in BOOLEAN, held \in SUBSET Modifiers :
    IsPass(InOrder(K, way, held), K, way, held)
<1> TAKE K \in SUBSET Keys, way \in BOOLEAN, held \in SUBSET Modifiers
<1>1. \A x \in SUBSET Keys : GotAll(x, InOrder(K, way, held)) = IF way THEN x \cup K ELSE x \ K
  BY PassGot
<1> QED
  BY <1>1, PassTells DEF IsPass

LEMMA FrameTyped ==
  ASSUME NEW now \in SUBSET Keys, kb.key_down \in SUBSET Keys
  PROVE  FrameCodes(now) \in Seq(Codes)
<1>0. PICK no \in BOOLEAN, yes \in BOOLEAN : no = FALSE /\ yes = TRUE
  OBVIOUS
<1> DEFINE up == kb.key_down \ now
           dn == now \ kb.key_down
           mods == now \cap Modifiers
           a == InOrder(up \ Modifiers, no, mods)
           b == InOrder(up \cap Modifiers, no, mods)
           c == InOrder(dn \cap Modifiers, yes, mods)
           d == InOrder(dn \ Modifiers, yes, mods)
<1>1. FrameCodes(now) = a \o b \o c \o d
  <2>1. \A S, m : InOrder(S, FALSE, m) = InOrder(S, no, m) /\ InOrder(S, TRUE, m) = InOrder(S, yes, m)
    BY <1>0 DEF InOrder
  <2> QED
    BY <2>1, Zenon DEF FrameCodes
<1>2. a \in Seq(Codes) /\ b \in Seq(Codes) /\ c \in Seq(Codes) /\ d \in Seq(Codes)
  <2>1. /\ up \ Modifiers \in SUBSET Keys /\ up \cap Modifiers \in SUBSET Keys
        /\ dn \cap Modifiers \in SUBSET Keys /\ dn \ Modifiers \in SUBSET Keys
        /\ mods \in SUBSET Modifiers
    OBVIOUS
  <2>2. \A K \in SUBSET Keys : InOrder(K, no, mods) \in Seq(Codes) /\ InOrder(K, yes, mods) \in Seq(Codes)
    BY <2>1, PassIs, Zenon DEF IsPass
  <2> QED
    BY <2>1, <2>2
<1> HIDE DEF a, b, c, d
<1>3. a \o b \o c \o d \in Seq(Codes)
  BY <1>2, ConcatProperties
<1> QED
  BY <1>1, <1>3, Zenon

\* The codes of a frame bring the guest's keys to those of the frame.
LEMMA FrameArrives ==
  ASSUME NEW g \in SUBSET Keys, NEW s \in Seq(Messages), NEW now \in SUBSET Keys,
         kb.key_down \in SUBSET Keys, Arrives(g, s, kb.key_down)
  PROVE  Arrives(g, s \o FrameCodes(now), now)
<1>0. PICK no \in BOOLEAN, yes \in BOOLEAN : no = FALSE /\ yes = TRUE
  OBVIOUS
<1> DEFINE up == kb.key_down \ now
           dn == now \ kb.key_down
           mods == now \cap Modifiers
           A == up \ Modifiers
           B == up \cap Modifiers
           C == dn \cap Modifiers
           D == dn \ Modifiers
           a == InOrder(A, no, mods)
           b == InOrder(B, no, mods)
           c == InOrder(C, yes, mods)
           d == InOrder(D, yes, mods)
           g1 == kb.key_down \ A
           g2 == g1 \ B
           g3 == g2 \cup C
<1>1. /\ A \in SUBSET Keys /\ B \in SUBSET Keys /\ C \in SUBSET Keys /\ D \in SUBSET Keys
      /\ C \in SUBSET Modifiers /\ (\A k \in D : k \notin Modifiers) /\ mods \in SUBSET Modifiers
      /\ g1 \in SUBSET Keys /\ g2 \in SUBSET Keys /\ g3 \in SUBSET Keys
  OBVIOUS
<1>2. g3 \cup D = now /\ g3 \cap Modifiers = mods
  OBVIOUS
<1>5. FrameCodes(now) = a \o b \o c \o d
  <2>1. \A S, m : InOrder(S, FALSE, m) = InOrder(S, no, m) /\ InOrder(S, TRUE, m) = InOrder(S, yes, m)
    BY <1>0 DEF InOrder
  <2> QED
    BY <2>1, Zenon DEF FrameCodes
<1> HIDE DEF up, dn, mods, A, B, C, D
<1>9. IsPass(a, A, no, mods) /\ IsPass(b, B, no, mods) /\ IsPass(c, C, yes, mods) /\ IsPass(d, D, yes, mods)
  BY <1>1, PassIs, Zenon
<1> HIDE DEF a, b, c, d
<1>3. /\ a \in Seq(Codes) /\ \A i \in DOMAIN a : a[i].down = FALSE
      /\ b \in Seq(Codes) /\ \A i \in DOMAIN b : b[i].down = FALSE
      /\ c \in Seq(Codes) /\ \A i \in DOMAIN c : c[i].key \in Modifiers
      /\ d \in Seq(Codes) /\ \A i \in DOMAIN d : d[i].key \notin Modifiers /\ d[i].mods = mods
  BY <1>0, <1>1, <1>9 DEF IsPass
<1>4. /\ GotAll(kb.key_down, a) = g1 /\ GotAll(g1, b) = g2
      /\ GotAll(g2, c) = g3 /\ GotAll(g3, d) = now
  <2>1. GotAll(kb.key_down, a) = g1
    BY <1>0, <1>9 DEF IsPass
  <2>2. GotAll(g1, b) = g2
    BY <1>0, <1>1, <1>9 DEF IsPass
  <2>3. GotAll(g2, c) = g3
    BY <1>0, <1>1, <1>9 DEF IsPass
  <2>4. GotAll(g3, d) = g3 \cup D
    BY <1>0, <1>1, <1>9 DEF IsPass
  <2> QED
    BY <1>2, <2>1, <2>2, <2>3, <2>4
<1> HIDE DEF g1, g2, g3
<1>6. /\ a \in Seq(Messages) /\ b \in Seq(Messages) /\ c \in Seq(Messages) /\ d \in Seq(Messages)
      /\ FrameCodes(now) \in Seq(Messages)
  <2>1. Codes \in SUBSET Messages
    BY CodesTell
  <2>2. \A r \in Seq(Codes) : r \in Seq(Messages)
    BY <2>1
  <2> QED
    BY <1>3, <2>2, FrameTyped
<1>7. Ordered(kb.key_down, a) /\ Ordered(g1, b) /\ Ordered(g2, c)
  BY <1>3, LenProperties DEF Ordered
<1>8. Ordered(g3, d)
  <2> SUFFICES ASSUME NEW i \in 1 .. Len(d) PROVE GotAll(g3, SubSeq(d, 1, i)) \cap Modifiers = d[i].mods
    BY DEF Ordered
  <2> DEFINE r == SubSeq(d, 1, i)
  <2>1. r \in Seq(Codes) /\ Len(r) = i /\ \A j \in 1 .. i : r[j] = d[j]
    <3>1. i \in 1 .. Len(d) /\ Len(d) \in Nat
      BY <1>3, LenProperties
    <3>2. 1 \in 1 .. Len(d) + 1 /\ i \in 0 .. Len(d) /\ i - 1 + 1 = i
      BY <3>1
    <3> QED
      BY <1>3, <3>1, <3>2, SubSeqProperties
  <2>2. DOMAIN r = 1 .. i /\ 1 .. i \subseteq DOMAIN d
    BY <1>3, <2>1, LenProperties
  <2> HIDE DEF r
  <2>3. OfPass(r, Keys \ Modifiers)
    <3>1. \A j \in DOMAIN r : r[j] \in Codes
      BY <2>1, <2>2, ElementOfSeq
    <3>2. \A j \in DOMAIN r : r[j].key \in Keys /\ r[j].key \notin Modifiers
      BY <1>3, <2>1, <2>2, <3>1, CodesTell
    <3> QED
      BY <2>1, <3>2 DEF OfPass
  <2>4. \A k \in Keys : k \notin Keys \ Modifiers => (k \in GotAll(g3, r) <=> k \in g3)
    BY <1>1, <2>3, OthersKept
  <2>5. GotAll(g3, r) \cap Modifiers = g3 \cap Modifiers
    BY <1>1, <2>4, GotAllIs
  <2>6. d[i].mods = mods
    BY <1>3, LenProperties
  <2> QED
    BY <1>2, <2>5, <2>6 DEF r
<1>10. Arrives(kb.key_down, a, g1)
  BY <1>4, <1>7 DEF Arrives
<1>11. Arrives(kb.key_down, a \o b, g2) /\ a \o b \in Seq(Messages)
  BY <1>4, <1>6, <1>7, <1>10, ArrivesThen
<1>12. Arrives(kb.key_down, a \o b \o c, g3) /\ a \o b \o c \in Seq(Messages)
  BY <1>4, <1>6, <1>7, <1>11, ArrivesThen
<1>13. Arrives(kb.key_down, FrameCodes(now), now)
  <2>1. Arrives(kb.key_down, a \o b \o c \o d, now)
    BY <1>4, <1>6, <1>8, <1>12, ArrivesThen
  <2> QED
    BY <1>5, <2>1, Zenon
<1>14. Arrives(g, s \o FrameCodes(now), now)
  BY <1>6, <1>13, ArrivesThen DEF Arrives
<1> QED
  BY <1>14

\* The port's line moves alone.
LEMMA LineAlone ==
  ASSUME NEW a, NEW b, NEW c, NEW d, NEW e, NEW f, NEW g, NEW o
  PROVE  LET k == [clear |-> a, clock |-> b, full |-> c, data |-> d, queue |-> e,
                   resetting |-> f, key_down |-> g, out |-> o]
         IN  /\ KbUpdateIrq(k).full = c /\ KbUpdateIrq(k).data = d /\ KbUpdateIrq(k).queue = e
             /\ KbUpdateIrq(k).key_down = g
<1> DEFINE k == [clear |-> a, clock |-> b, full |-> c, data |-> d, queue |-> e,
                 resetting |-> f, key_down |-> g, out |-> o]
<1>1. PICK v : v = KbLine(k)
  OBVIOUS
<1>2. KbUpdateIrq(k) = [clear |-> a, clock |-> b, full |-> c, data |-> d, queue |-> e,
                        resetting |-> f, key_down |-> g, out |-> v]
  BY <1>1 DEF KbUpdateIrq
<1> QED
  BY <1>2

KeysInv ==
    /\ kb.queue \in Seq(Codes) /\ kb.data \in Messages /\ kb.key_down \in SUBSET Keys
    /\ ~kb.full => Quiet(kb.data)
    /\ guest \in SUBSET Keys
    /\ ~lost => Arrives(guest, OnTheWay, kb.key_down)

LEMMA CodesAreMessages ==
  ASSUME NEW q \in Seq(Codes)
  PROVE  q \in Seq(Messages)
BY CodesTell

LEMMA NothingArrives == Arrives({}, <<NoCode>> \o <<>>, {})
<1>1. NoCode \in Messages /\ Quiet(NoCode) /\ <<>> \in Seq(Messages)
  BY CodesTell DEF Quiet
<1>2. GotAll({}, <<>>) = {}
  <2>1. \A k : ~Told(<<>>, k) /\ ~LastDown(<<>>, k)
    BY DEF Told, LastDown
  <2>2. GotAll({}, <<>>) \in SUBSET Keys /\ \A k \in Keys : k \notin GotAll({}, <<>>)
    BY <2>1, GotAllIs
  <2> QED
    BY <2>2
<1>3. Ordered({}, <<>>)
  BY DEF Ordered
<1>4. Arrives({}, <<>>, {})
  BY <1>2, <1>3 DEF Arrives
<1> QED
  BY <1>1, <1>4, QuietArrives

LEMMA ServiceArrives ==
  ASSUME KbInv, KeysInv, KbService
  PROVE  KeysInv'
<1>1. /\ kb = [clear |-> kb.clear, clock |-> kb.clock, full |-> kb.full, data |-> kb.data,
               queue |-> kb.queue, resetting |-> kb.resetting, key_down |-> kb.key_down,
               out |-> kb.out]
      /\ ~kb.full
  BY DEF KbInv, KbSound, KbService
<1>2. guest' = guest /\ lost' = lost
  BY DEF KbService
<1>3. kb.data \in Messages /\ Quiet(kb.data) /\ kb.queue \in Seq(Messages) /\ kb.queue \in Seq(Codes)
  BY <1>1, CodesAreMessages DEF KeysInv
<1>4. ~lost => Arrives(guest, kb.queue, kb.key_down)
  BY <1>3, QuietArrives DEF KeysInv, OnTheWay
<1>5. CASE kb' = KbUpdateIrq([kb EXCEPT !.resetting = FALSE, !.data = SelfTest, !.full = TRUE])
  <2>1. PICK k : k = [kb EXCEPT !.resetting = FALSE, !.data = SelfTest, !.full = TRUE]
    OBVIOUS
  <2>2. k = [clear |-> kb.clear, clock |-> kb.clock, full |-> TRUE, data |-> SelfTest,
             queue |-> kb.queue, resetting |-> FALSE, key_down |-> kb.key_down, out |-> kb.out]
    BY <1>1, <2>1
  <2>3. kb' = KbUpdateIrq(k)
    BY <1>5, <2>1
  <2>4. kb'.full = TRUE /\ kb'.data = SelfTest /\ kb'.queue = kb.queue /\ kb'.key_down = kb.key_down
    BY <2>2, <2>3, LineAlone
  <2>5. SelfTest \in Messages /\ Quiet(SelfTest)
    BY CodesTell DEF Quiet
  <2>6. ~lost => Arrives(guest, <<SelfTest>> \o kb.queue, kb.key_down)
    BY <1>3, <1>4, <2>5, QuietArrives DEF KeysInv
  <2> QED
    BY <1>2, <2>4, <2>5, <2>6 DEF KeysInv, OnTheWay
<1>6. CASE /\ kb.queue # <<>>
           /\ kb' = KbUpdateIrq([kb EXCEPT !.data = Head(kb.queue), !.queue = Tail(kb.queue),
                                           !.full = TRUE])
  <2> DEFINE q == Tail(kb.queue)
             d == Head(kb.queue)
  <2>1. PICK k : k = [kb EXCEPT !.data = d, !.queue = q, !.full = TRUE]
    OBVIOUS
  <2>3. kb' = KbUpdateIrq(k)
    BY <1>6, <2>1
  <2>4. d \in Codes /\ q \in Seq(Codes) /\ kb.queue = <<d>> \o q
    BY <1>3, <1>6, HeadTailProperties
  <2> HIDE DEF d, q
  <2>2. k = [clear |-> kb.clear, clock |-> kb.clock, full |-> TRUE, data |-> d, queue |-> q,
             resetting |-> kb.resetting, key_down |-> kb.key_down, out |-> kb.out]
    BY <1>1, <2>1
  <2>5. kb'.full = TRUE /\ kb'.data = d /\ kb'.queue = q /\ kb'.key_down = kb.key_down
    BY <2>2, <2>3, LineAlone
  <2>6. d \in Messages
    BY <2>4, CodesTell
  <2> QED
    BY <1>2, <1>4, <2>4, <2>5, <2>6 DEF KeysInv, OnTheWay
<1> QED
  BY <1>5, <1>6 DEF KbService

LEMMA PortBArrives ==
  ASSUME KbInv, KeysInv, NEW clear \in BOOLEAN, NEW clock \in BOOLEAN, NEW long \in BOOLEAN,
         KbPortB(clear, clock, long)
  PROVE  KeysInv'
<1> DEFINE reset == clock /\ ~kb.clock /\ long
           queue == IF reset THEN <<>> ELSE kb.queue
           resetting == kb.resetting \/ reset
           full == kb.full /\ ~clear
           data == IF clear THEN NoCode ELSE kb.data
           k == [kb EXCEPT !.clear = clear, !.clock = clock, !.queue = queue,
                           !.resetting = resetting, !.full = full, !.data = data]
<1>1. kb = [clear |-> kb.clear, clock |-> kb.clock, full |-> kb.full, data |-> kb.data,
            queue |-> kb.queue, resetting |-> kb.resetting, key_down |-> kb.key_down,
            out |-> kb.out]
  BY DEF KbInv, KbSound
<1>2. kb' = KbUpdateIrq(k)
  BY DEF KbPortB, Taken
<1>3. lost' = (lost \/ reset) /\ guest' = IF clear THEN Got(guest, kb.data) ELSE guest
  BY DEF KbPortB
<1> HIDE DEF full, queue, resetting, data
<1>4. PICK h : h = k
  OBVIOUS
<1>5. h = [clear |-> clear, clock |-> clock, full |-> full, data |-> data, queue |-> queue,
           resetting |-> resetting, key_down |-> kb.key_down, out |-> kb.out]
  BY <1>1, <1>4
<1> HIDE DEF k
<1>6. kb'.full = full /\ kb'.data = data /\ kb'.queue = queue /\ kb'.key_down = kb.key_down
  BY <1>2, <1>4, <1>5, LineAlone
<1>7. kb.data \in Messages /\ kb.queue \in Seq(Codes) /\ kb.queue \in Seq(Messages) /\ guest \in SUBSET Keys
  BY CodesAreMessages DEF KeysInv
<1>8. queue \in Seq(Codes) /\ data \in Messages /\ guest' \in SUBSET Keys
  <2>1. <<>> \in Seq(Codes)
    OBVIOUS
  <2>2. Got(guest, kb.data) \in SUBSET Keys
    BY <1>7, GotOne
  <2> QED
    BY <1>3, <1>7, <2>1, <2>2, CodesTell DEF queue, data
<1>9. ~full => Quiet(data)
  BY DEF full, data, Quiet, KeysInv
<1>10. ASSUME ~lost' PROVE Arrives(guest', <<data>> \o queue, kb.key_down)
  <2>1. ~lost /\ ~reset /\ queue = kb.queue
    BY <1>3, <1>10 DEF queue
  <2>2. Arrives(guest, <<kb.data>> \o kb.queue, kb.key_down)
    BY <2>1 DEF KeysInv, OnTheWay
  <2>3. Arrives(Got(guest, kb.data), <<NoCode>> \o kb.queue, kb.key_down)
    BY <1>7, <2>2, ReadArrives
  <2> QED
    BY <1>3, <2>1, <2>2, <2>3 DEF data
<1> QED
  BY <1>6, <1>8, <1>9, <1>10 DEF KeysInv, OnTheWay

LEMMA ScanArrives ==
  ASSUME KbInv, KeysInv, NEW now \in SUBSET Keys, ScanKeyboard(now)
  PROVE  KeysInv'
<1> DEFINE r == Queued(FrameCodes(now))
           q == Kept(r)
<1>1. kb = [clear |-> kb.clear, clock |-> kb.clock, full |-> kb.full, data |-> kb.data,
            queue |-> kb.queue, resetting |-> kb.resetting, key_down |-> kb.key_down,
            out |-> kb.out]
  BY DEF KbInv, KbSound
<1>2. /\ kb' = [kb EXCEPT !.key_down = now, !.queue = q]
      /\ lost' = (lost \/ Len(r) > KBQ) /\ guest' = guest
  BY DEF ScanKeyboard
<1> HIDE DEF q
<1>3. kb' = [clear |-> kb.clear, clock |-> kb.clock, full |-> kb.full, data |-> kb.data,
             queue |-> q, resetting |-> kb.resetting, key_down |-> now, out |-> kb.out]
  BY <1>1, <1>2
<1>4. kb'.full = kb.full /\ kb'.data = kb.data /\ kb'.queue = q /\ kb'.key_down = now
  BY <1>3
<1>5. /\ kb.data \in Messages /\ kb.queue \in Seq(Codes) /\ kb.queue \in Seq(Messages)
      /\ guest \in SUBSET Keys /\ kb.key_down \in SUBSET Keys /\ <<kb.data>> \in Seq(Messages)
  BY CodesAreMessages, OneMessage DEF KeysInv
<1>6. FrameCodes(now) \in Seq(Codes) /\ FrameCodes(now) \in Seq(Messages)
  BY <1>5, FrameTyped, CodesAreMessages
<1>7. r = kb.queue \o FrameCodes(now) /\ r \in Seq(Codes) /\ q \in Seq(Codes)
  <2>1. r = kb.queue \o FrameCodes(now)
    BY DEF Queued
  <2>2. r \in Seq(Codes)
    BY <1>5, <1>6, <2>1, ConcatProperties
  <2> HIDE DEF r
  <2>3. \A i \in 1 .. KBQ : Len(r) > KBQ => r[i] \in Codes
    <3>1. Len(r) \in Nat /\ KBQ \in Nat
      BY <2>2, LenProperties, KeySizes
    <3> QED
      BY <2>2, <3>1, ElementOfSeq
  <2>4. KBQ \in Int /\ 1 \in Int
    BY KeySizes
  <2>5. Len(r) > KBQ => SubSeq(r, 1, KBQ) \in Seq(Codes)
    BY <2>3, <2>4, SubSeqProperties
  <2> QED
    BY <2>1, <2>2, <2>5 DEF q, Kept
<1>8. ASSUME ~lost' PROVE Arrives(guest, <<kb.data>> \o q, now)
  <2>1. ~lost /\ q = r
    BY <1>2, <1>8 DEF q, Kept
  <2>2. Arrives(guest, OnTheWay, kb.key_down) /\ OnTheWay \in Seq(Messages)
    BY <1>5, <2>1, ConcatProperties DEF KeysInv, OnTheWay
  <2>3. Arrives(guest, OnTheWay \o FrameCodes(now), now)
    BY <1>5, <2>2, FrameArrives
  <2>4. (<<kb.data>> \o kb.queue) \o FrameCodes(now) = <<kb.data>> \o (kb.queue \o FrameCodes(now))
    <3> DEFINE m == <<kb.data>>
               n == kb.queue
               f == FrameCodes(now)
    <3>1. m \in Seq(Messages) /\ n \in Seq(Messages) /\ f \in Seq(Messages)
      BY <1>5, <1>6
    <3> HIDE DEF m, n, f
    <3>2. (m \o n) \o f = m \o (n \o f)
      BY <3>1, ConcatAssociative
    <3> QED
      BY <3>2 DEF m, n, f
  <2>5. OnTheWay \o FrameCodes(now) = <<kb.data>> \o r
    BY <1>7, <2>4 DEF OnTheWay
  <2> QED
    BY <2>1, <2>3, <2>5
<1> QED
  BY <1>2, <1>4, <1>5, <1>7, <1>8 DEF KeysInv, OnTheWay

LEMMA PowerArrives ==
  ASSUME KbInv, KeysInv, KbPowerOn
  PROVE  KeysInv'
<1>1. kb = [clear |-> kb.clear, clock |-> kb.clock, full |-> kb.full, data |-> kb.data,
            queue |-> kb.queue, resetting |-> kb.resetting, key_down |-> kb.key_down,
            out |-> kb.out]
  BY DEF KbInv, KbSound
<1>2. kb' = [clear |-> FALSE, clock |-> FALSE, full |-> FALSE, data |-> NoCode,
             queue |-> <<>>, resetting |-> FALSE, key_down |-> kb.key_down, out |-> FALSE]
  BY <1>1 DEF KbPowerOn
<1>3. kb'.data = NoCode /\ kb'.queue = <<>> /\ kb'.key_down = kb.key_down
  BY <1>2
<1>4. guest' = {} /\ (~lost' => kb.key_down = {})
  BY DEF KbPowerOn
<1>5. Arrives({}, <<NoCode>> \o <<>>, {})
  BY NothingArrives
<1>6. NoCode \in Messages /\ Quiet(NoCode) /\ <<>> \in Seq(Codes)
  BY CodesTell DEF Quiet
<1> QED
  BY <1>3, <1>4, <1>5, <1>6 DEF KeysInv, OnTheWay

LEMMA KeysStart == Init => KeysInv
<1> SUFFICES ASSUME Init PROVE KeysInv
  OBVIOUS
<1>1. kb.data = NoCode /\ kb.queue = <<>> /\ kb.key_down = {} /\ guest = {}
  BY DEF Init
<1>2. NoCode \in Messages /\ Quiet(NoCode) /\ <<>> \in Seq(Codes)
  BY CodesTell DEF Quiet
<1> QED
  BY <1>1, <1>2, NothingArrives DEF KeysInv, OnTheWay

LEMMA KeysShown == KeysInv => KeysArrive
<1> SUFFICES ASSUME KeysInv, ~lost PROVE KeysArrive
  BY DEF KeysArrive, KeysAgree, ModifiersFirst
<1>1. GotAll(guest, OnTheWay) = kb.key_down /\ Ordered(guest, OnTheWay)
  BY DEF KeysInv, Arrives
<1>2. DOMAIN OnTheWay = 1 .. Len(OnTheWay)
  <2>1. OnTheWay \in Seq(Messages)
    BY CodesAreMessages, OneMessage, ConcatProperties DEF KeysInv, OnTheWay
  <2> QED
    BY <2>1, LenProperties
<1> HIDE DEF OnTheWay
<1>3. ModifiersFirst
  BY <1>1, <1>2 DEF ModifiersFirst, Ordered, Quiet
<1> QED
  BY <1>1, <1>3 DEF KeysArrive, KeysAgree

LEMMA KeysKept == PcInv /\ KeysInv /\ [Next]_vars => KeysInv'
<1> SUFFICES ASSUME PcInv, KeysInv, [Next]_vars PROVE KeysInv'
  OBVIOUS
<1>1. CASE UNCHANGED kbVars
  BY <1>1 DEF kbVars, KeysInv, OnTheWay
<1>2. CASE Keyboard
  <2>1. CASE KbService
    BY <2>1, ServiceArrives DEF PcInv
  <2>2. CASE \E clear, clock, long \in BOOLEAN : KbPortB(clear, clock, long)
    BY <2>2, PortBArrives DEF PcInv
  <2>3. CASE \E now \in SUBSET Keys : ScanKeyboard(now)
    BY <2>3, ScanArrives DEF PcInv
  <2> QED
    BY <1>2, <2>1, <2>2, <2>3 DEF Keyboard
<1>3. CASE Reset
  BY <1>3, PowerArrives DEF PcInv, Reset
<1>4. Keyboard \/ Reset \/ UNCHANGED kbVars
  BY DEF Next, Diskette, Serial, FixedDisk, Wire, Interrupts, ProgramPic, vars
<1> QED
  BY <1>1, <1>2, <1>3, <1>4

(***************************************************************************)
(* The keyboard tells the guest of every key that goes down or up, and of  *)
(* a modifier before the keys it is held for, for every keyboard and every *)
(* size of the queue (scan_keyboard, kb_service and kb_port_b_changed of   *)
(* hardware/machine/x86/machine_ibm5150.c).                                *)
(***************************************************************************)
THEOREM KeysReachGuest == Spec => []KeysArrive
<1>1. Spec => []KeysInv
  BY KeysStart, KeysKept, PcSound, PTL DEF Spec
<1> QED
  BY <1>1, KeysShown, PTL

\* A sequence that is not empty: its last element, and what Front leaves.
LEMMA FrontLast ==
  ASSUME NEW S, NEW q \in Seq(S), q # <<>>
  PROVE  /\ Len(q) \in Nat \ {0} /\ Last(q) = q[Len(q)] /\ Last(q) \in S
         /\ Front(q) \in Seq(S) /\ Len(Front(q)) = Len(q) - 1
         /\ \A i \in 1 .. Len(q) - 1 : Front(q)[i] = q[i]
<1>1. Len(q) \in Nat \ {0}
  BY EmptySeq
<1>2. \A i \in 1 .. Len(q) : q[i] \in S
  BY ElementOfSeq
<1>3. \A i \in 1 .. Len(q) - 1 : q[i] \in S
  BY <1>1, <1>2
<1>4. Len(q) - 1 \in Int /\ 1 \in Int
  BY <1>1
<1> DEFINE f == SubSeq(q, 1, Len(q) - 1)
           n == Len(q)
<1>5. /\ f \in Seq(S)
      /\ Len(f) = IF 1 <= n - 1 THEN n - 1 - 1 + 1 ELSE 0
      /\ \A i \in 1 .. n - 1 - 1 + 1 : f[i] = q[1 + i - 1]
  BY <1>3, <1>4, SubSeqProperties
<1>6. Last(q) = q[n] /\ Last(q) \in S
  BY <1>1, <1>2 DEF Last
<1>7. n \in Nat \ {0}
  BY <1>1
<1> HIDE DEF f, n
<1>8. Len(f) = n - 1 /\ \A i \in 1 .. n - 1 : f[i] = q[i]
  BY <1>5, <1>7
<1> QED
  BY <1>5, <1>6, <1>7, <1>8 DEF Front, f, n

LEMMA AppendLast ==
  ASSUME NEW S, NEW q \in Seq(S), NEW v \in S
  PROVE  /\ Append(q, v) \in Seq(S) /\ Len(Append(q, v)) = Len(q) + 1
         /\ Len(q) \in Nat /\ Append(q, v)[Len(q) + 1] = v
         /\ \A i \in 1 .. Len(q) : Append(q, v)[i] = q[i]
<1>1. Len(q) \in Nat
  BY LenProperties
<1> QED
  BY <1>1, AppendProperties

----------------------------------------------------------------------------
(***************************************************************************)
(* The CDP1802 under its video chip.                                       *)
(***************************************************************************)

CdpRecs == [state : {"execute", "fetch", "dma", "interrupt"}, left : {0, 1, 2}, idle : BOOLEAN,
            init : BOOLEAN, ie : BOOLEAN, long : BOOLEAN, dma : BOOLEAN, irq : BOOLEAN,
            count : 0..LineBytes]
VdcRecs == [line : Nat, mc : 0..(MCyclesPerLine - 1), on : BOOLEAN, fired : BOOLEAN]

\* The cycle of the line, with the first cycle of the next one as its last.
Place(v) == IF v.mc = 0 THEN MCyclesPerLine ELSE v.mc

\* A core c stands with its requests so that each is answered in time: at cycle
\* mc an instruction has left cycles to go before it looks at them.
CoreInStep(c, v, late) ==
  /\ c.init => v.mc = 0 /\ c.state = "execute" /\ ~c.dma /\ ~c.irq
  /\ c.state = "execute" /\ ~c.init => c.left >= 1
  /\ c.dma => /\ c.state = "execute" /\ v.mc >= 5 /\ v.mc + c.left <= 7
              /\ v.line # VdcIntLine
  /\ c.irq => /\ c.state = "execute" /\ v.mc >= 3 /\ v.mc + c.left <= 5
              /\ v.line = VdcIntLine /\ late = v.mc - 2
  /\ c.state = "interrupt" => /\ v.mc \in 3..5 /\ v.line = VdcIntLine /\ late = v.mc - 2
                              /\ ~c.irq
  /\ c.state = "dma" <=> c.count > 0
  /\ c.count > 0 => Place(v) >= 5 /\ Place(v) + c.count <= 15

\* The bytes still due to a core.
DueTo(c) == c.count + (IF c.dma THEN LineBytes ELSE 0)

CdpInv ==
  /\ cdp \in CdpRecs /\ vdc \in VdcRecs
  /\ CoreInStep(cdp, vdc, cdpLate)
  /\ cdpDue = DueTo(cdp) /\ cdpLate \in 0..MCyclesPerLine /\ cdpLost = FALSE

LEMMA CdpFields ==
  ASSUME NEW c \in CdpRecs
  PROVE  /\ c.state \in {"execute", "fetch", "dma", "interrupt"} /\ c.left \in {0, 1, 2}
         /\ c.idle \in BOOLEAN /\ c.init \in BOOLEAN /\ c.ie \in BOOLEAN /\ c.long \in BOOLEAN
         /\ c.dma \in BOOLEAN /\ c.irq \in BOOLEAN /\ c.count \in 0..8
BY DEF CdpRecs, LineBytes

LEMMA VdcFields ==
  ASSUME NEW v \in VdcRecs
  PROVE  v.line \in Nat /\ v.mc \in 0..13 /\ v.on \in BOOLEAN /\ v.fired \in BOOLEAN
BY DEF VdcRecs, MCyclesPerLine

\* One cycle of the video chip: where it is afterwards.
LEMMA SyncIs ==
  ASSUME vdc \in VdcRecs, VdcSync
  PROVE  /\ vdc' \in VdcRecs
         /\ vdc'.mc = IF vdc.mc = 13 THEN 0 ELSE vdc.mc + 1
         /\ vdc.mc # 13 => vdc'.line = vdc.line
<1> DEFINE fired == vdc.fired \/ RaisesInt
           mc == (vdc.mc + 1) % MCyclesPerLine
           line == IF vdc.mc + 1 = MCyclesPerLine THEN (vdc.line + 1) % VdcLines ELSE vdc.line
<1>1. vdc' = [vdc EXCEPT !.fired = fired, !.mc = mc, !.line = line]
  BY DEF VdcSync
<1>2. vdc.line \in Nat /\ vdc.mc \in 0..13 /\ vdc.fired \in BOOLEAN
  BY VdcFields
<1>3. fired \in BOOLEAN
  BY DEF RaisesInt
<1>4. mc = IF vdc.mc = 13 THEN 0 ELSE vdc.mc + 1
  <2>1. CASE vdc.mc = 13
    BY <2>1 DEF MCyclesPerLine
  <2>2. CASE vdc.mc # 13
    <3>1. vdc.mc + 1 \in 0..13
      BY <1>2, <2>2
    <3> QED
      BY <2>2, <3>1 DEF MCyclesPerLine
  <2> QED
    BY <2>1, <2>2
<1>5. line \in Nat /\ (vdc.mc # 13 => line = vdc.line)
  <2>1. VdcLines \in Nat /\ VdcLines > 0
    BY CdpLines
  <2>2. (vdc.line + 1) % VdcLines \in Nat
    BY <1>2, <2>1
  <2> QED
    BY <1>2, <2>2 DEF MCyclesPerLine
<1>7. mc \in 0..13
  BY <1>2, <1>4
<1> HIDE DEF fired, mc, line
<1>8. mc \in 0..(MCyclesPerLine - 1) /\ line \in Nat
  BY <1>5, <1>7 DEF MCyclesPerLine
<1>6. vdc' \in VdcRecs /\ vdc'.mc = mc /\ vdc'.line = line
  BY <1>1, <1>3, <1>8 DEF VdcRecs
<1> QED
  BY <1>4, <1>5, <1>6

\* The cycle's requests, before the core runs.
LEMMA RequestedIs ==
  ASSUME CdpInv
  PROVE  /\ Requested \in CdpRecs
         /\ Requested.irq <=> cdp.irq \/ RaisesInt
         /\ Requested.dma <=> cdp.dma \/ AsksDma
         /\ AsksDma => Accepts /\ cdpDue = 0
         /\ AsksDma => vdc.mc = 4 /\ vdc.line # VdcIntLine
         /\ RaisesInt => vdc.mc = 2 /\ vdc.line = VdcIntLine
         /\ Requested.state = cdp.state /\ Requested.left = cdp.left
         /\ Requested.idle = cdp.idle /\ Requested.init = cdp.init /\ Requested.ie = cdp.ie
         /\ Requested.long = cdp.long /\ Requested.count = cdp.count
<1> DEFINE irq == cdp.irq \/ RaisesInt
           dma == cdp.dma \/ Accepts
<1>1. cdp \in CdpRecs /\ vdc \in VdcRecs
  BY DEF CdpInv
<1>2. /\ cdp.irq \in BOOLEAN /\ cdp.dma \in BOOLEAN /\ cdp.count \in 0..8
      /\ vdc.line \in Nat /\ vdc.mc \in 0..13 /\ vdc.on \in BOOLEAN /\ vdc.fired \in BOOLEAN
  BY <1>1, CdpFields, VdcFields
<1>3. irq \in BOOLEAN /\ dma \in BOOLEAN
  BY <1>2 DEF RaisesInt, Accepts, AsksDma
<1>4. AsksDma => vdc.mc = 4 /\ vdc.line # VdcIntLine
  BY <1>2, CdpLines DEF AsksDma
<1>5. AsksDma => ~cdp.dma /\ cdp.count = 0
  BY <1>2, <1>4 DEF CdpInv, CoreInStep, Place, MCyclesPerLine
<1>6. AsksDma => Accepts /\ cdpDue = 0
  BY <1>2, <1>5 DEF CdpInv, DueTo, Accepts, LineBytes, QueueCap
<1>7. RaisesInt => vdc.mc = 2 /\ vdc.line = VdcIntLine
  BY DEF RaisesInt
<1>8. dma <=> cdp.dma \/ AsksDma
  BY <1>6 DEF Accepts
<1>9. Requested = [cdp EXCEPT !.irq = irq, !.dma = dma]
  BY DEF Requested
<1> HIDE DEF irq, dma
<1>10. /\ Requested \in CdpRecs /\ (Requested.irq <=> irq) /\ (Requested.dma <=> dma)
       /\ Requested.state = cdp.state /\ Requested.left = cdp.left
       /\ Requested.idle = cdp.idle /\ Requested.init = cdp.init /\ Requested.ie = cdp.ie
       /\ Requested.long = cdp.long /\ Requested.count = cdp.count
  BY <1>1, <1>3, <1>9 DEF CdpRecs
<1> QED
  BY <1>4, <1>6, <1>7, <1>8, <1>10 DEF irq

\* What FlushRequests makes of a core: it starts the DMA, the interrupt or the
\* next instruction.
Flushed(c, f) ==
  /\ f \in CdpRecs /\ ~f.dma /\ f.init = c.init
  /\ c.dma => f.state = "dma" /\ f.count = c.count + 8 /\ (f.irq <=> c.irq)
  /\ ~c.dma => /\ f.count = c.count /\ ~f.irq
               /\ f.state = "fetch" \/ (f.state = "interrupt" /\ c.irq)

LEMMA FlushIs ==
  ASSUME NEW c \in CdpRecs, c.count = 0
  PROVE  Flushed(c, FlushRequests(c))
<1>1. CASE c.dma
  <2> DEFINE n == c.count + LineBytes
             f == [c EXCEPT !.dma = FALSE, !.count = n, !.state = "dma"]
  <2>1. FlushRequests(c) = f
    BY <1>1 DEF FlushRequests
  <2>2. n = 8 /\ n \in 0..8
    BY DEF LineBytes
  <2> HIDE DEF n
  <2>3. /\ f \in CdpRecs /\ f.state = "dma" /\ f.count = n /\ ~f.dma /\ f.irq = c.irq
        /\ f.init = c.init
    BY <2>2 DEF CdpRecs, LineBytes
  <2> HIDE DEF f
  <2>4. f.irq \in BOOLEAN /\ c.irq \in BOOLEAN
    BY <2>3, CdpFields
  <2> QED
    BY <1>1, <2>1, <2>2, <2>3, <2>4 DEF Flushed
<1>2. CASE ~c.dma /\ c.irq
  <2> DEFINE s == IF c.ie THEN "interrupt" ELSE "fetch"
             f == [c EXCEPT !.irq = FALSE, !.state = s]
  <2>1. FlushRequests(c) = f
    BY <1>2 DEF FlushRequests
  <2>2. s \in {"interrupt", "fetch"}
    OBVIOUS
  <2> HIDE DEF s
  <2>3. /\ f \in CdpRecs /\ f.state = s /\ f.count = c.count /\ ~f.irq /\ f.dma = c.dma
        /\ f.init = c.init
    BY <2>2 DEF CdpRecs
  <2> HIDE DEF f
  <2> QED
    BY <1>2, <2>1, <2>2, <2>3 DEF Flushed
<1>3. CASE ~c.dma /\ ~c.irq
  <2> DEFINE f == [c EXCEPT !.state = "fetch"]
  <2>1. FlushRequests(c) = f
    BY <1>3 DEF FlushRequests
  <2>2. /\ f \in CdpRecs /\ f.state = "fetch" /\ f.count = c.count /\ f.irq = c.irq
        /\ f.dma = c.dma /\ f.init = c.init
    BY DEF CdpRecs
  <2> HIDE DEF f
  <2> QED
    BY <1>3, <2>1, <2>2 DEF Flushed
<1> QED
  BY <1>1, <1>2, <1>3

\* A cycle after which the core stands in step again.
LEMMA CycleKeeps ==
  ASSUME CdpInv, NEW c \in CdpRecs, NEW bytes \in {0, 1}, CpuCycle(c, bytes),
         CoreInStep(c, vdc', cdpLate'),
         DueTo(c) = DueTo(Requested) - bytes
  PROVE  CdpInv'
<1>1. vdc' \in VdcRecs /\ cdp' = c
  BY SyncIs DEF CdpInv, CpuCycle
<1>2. cdpLost' = FALSE
  <2>1. AsksDma => Accepts /\ ~(cdpDue > 0)
    <3>1. AsksDma => Accepts /\ cdpDue = 0
      BY RequestedIs
    <3> QED
      BY <3>1
  <2>3. cdpLost = FALSE
    BY DEF CdpInv
  <2> QED
    BY <2>1, <2>3, Zenon DEF CpuCycle, VdcSync
<1>3. cdpLate' \in 0..MCyclesPerLine
  BY DEF CdpInv, CpuCycle, MCyclesPerLine
<1>4. /\ cdp.count \in 0..8 /\ cdp.dma \in BOOLEAN /\ Requested.count = cdp.count
      /\ (Requested.dma <=> cdp.dma \/ AsksDma) /\ (AsksDma => Accepts /\ cdpDue = 0)
      /\ cdpDue = DueTo(cdp)
  BY CdpFields, RequestedIs DEF CdpInv
<1>5. cdpDue' = DueTo(Requested) - bytes
  <2>1. cdpDue' = (IF AsksDma /\ Accepts THEN cdpDue + LineBytes ELSE cdpDue) - bytes
    BY DEF CpuCycle
  <2>2. (IF AsksDma /\ Accepts THEN cdpDue + LineBytes ELSE cdpDue) = DueTo(Requested)
    <3>1. CASE AsksDma
      BY <1>4, <3>1 DEF DueTo, LineBytes
    <3>2. CASE ~AsksDma
      BY <1>4, <3>2 DEF DueTo, LineBytes
    <3> QED
      BY <3>1, <3>2
  <2> QED
    BY <2>1, <2>2
<1>6. cdpDue' = DueTo(cdp')
  BY <1>1, <1>5
<1> QED
  BY <1>1, <1>2, <1>3, <1>6 DEF CdpInv

\* How long ago the interrupt was asked for, while it waits.
LEMMA LateIs ==
  ASSUME CdpInv, NEW c, NEW bytes, CpuCycle(c, bytes)
  PROVE  /\ RaisesInt => cdpLate' = 1
         /\ ~RaisesInt /\ cdp.state # "interrupt" /\ cdpLate \in 1..3 => cdpLate' = cdpLate + 1
BY DEF CdpInv, CpuCycle, MCyclesPerLine

\* The facts every case starts from.
LEMMA CycleFacts ==
  ASSUME CdpInv
  PROVE  /\ cdp \in CdpRecs /\ vdc \in VdcRecs /\ CoreInStep(cdp, vdc, cdpLate)
         /\ cdp.state \in {"execute", "fetch", "dma", "interrupt"} /\ cdp.left \in {0, 1, 2}
         /\ cdp.count \in 0..8 /\ vdc.line \in Nat /\ vdc.mc \in 0..13
         /\ cdp.init \in BOOLEAN /\ cdp.dma \in BOOLEAN /\ cdp.irq \in BOOLEAN
         /\ cdp.idle \in BOOLEAN
BY CdpFields, VdcFields DEF CdpInv

\* An instruction that looks at the requests in this cycle.
LEMMA FlushKeeps ==
  ASSUME CdpInv, NEW c \in CdpRecs, NEW f, f = FlushRequests(c), CpuCycle(f, 0),
         cdp.state = "execute", ~cdp.init, c.init = FALSE, c.count = 0,
         c.dma <=> Requested.dma, c.irq <=> Requested.irq, cdp.count = 0
  PROVE  CdpInv'
<1>1. Flushed(c, f)
  BY FlushIs
<1>2. f \in CdpRecs /\ ~f.dma /\ f.init = FALSE /\ f.count \in 0..8
  BY <1>1, CdpFields DEF Flushed
<1>3. /\ vdc'.mc = IF vdc.mc = 13 THEN 0 ELSE vdc.mc + 1
      /\ vdc.mc # 13 => vdc'.line = vdc.line
  BY SyncIs DEF CpuCycle, CdpInv
<1>4. /\ Requested.irq <=> cdp.irq \/ RaisesInt
      /\ Requested.dma <=> cdp.dma \/ AsksDma
      /\ AsksDma => vdc.mc = 4 /\ vdc.line # VdcIntLine
      /\ RaisesInt => vdc.mc = 2 /\ vdc.line = VdcIntLine
      /\ Requested.count = cdp.count
  BY RequestedIs
<1>5. /\ RaisesInt => cdpLate' = 1
      /\ ~RaisesInt /\ cdpLate \in 1..3 => cdpLate' = cdpLate + 1
  BY LateIs
<1>6. /\ vdc.line \in Nat /\ vdc.mc \in 0..13 /\ cdp.left \in {1, 2}
      /\ cdp.dma => vdc.mc >= 5 /\ vdc.mc + cdp.left <= 7 /\ vdc.line # VdcIntLine
      /\ cdp.irq => /\ vdc.mc >= 3 /\ vdc.mc + cdp.left <= 5 /\ vdc.line = VdcIntLine
                    /\ cdpLate = vdc.mc - 2
  BY CycleFacts DEF CoreInStep
<1>7. CASE c.dma
  <2>1. f.state = "dma" /\ f.count = 8 /\ vdc.mc \in 4..6 /\ vdc.line # VdcIntLine
    BY <1>1, <1>4, <1>6, <1>7 DEF Flushed
  <2>2. ~f.irq
    BY <1>1, <1>4, <1>6, <1>7, <2>1 DEF Flushed
  <2>3. CoreInStep(f, vdc', cdpLate')
    BY <1>2, <1>3, <2>1, <2>2 DEF CoreInStep, Place, MCyclesPerLine
  <2>4. DueTo(f) = DueTo(Requested) - 0
    BY <1>2, <1>4, <1>7, <2>1 DEF DueTo, LineBytes
  <2> QED
    BY <1>2, <2>3, <2>4, CycleKeeps
<1>8. CASE ~c.dma
  <2>1. f.count = 0 /\ ~f.irq /\ f.state \in {"fetch", "interrupt"}
        /\ (f.state = "interrupt" => c.irq)
    BY <1>1, <1>8 DEF Flushed
  <2>2. f.state = "interrupt" => vdc'.mc \in 3..5 /\ vdc'.line = VdcIntLine /\ cdpLate' = vdc'.mc - 2
    BY <1>3, <1>4, <1>5, <1>6, <2>1
  <2>3. CoreInStep(f, vdc', cdpLate')
    BY <1>2, <2>1, <2>2 DEF CoreInStep
  <2>4. DueTo(f) = DueTo(Requested) - 0
    BY <1>2, <1>4, <1>8, <2>1 DEF DueTo
  <2> QED
    BY <1>2, <2>3, <2>4, CycleKeeps
<1> QED
  BY <1>7, <1>8

LEMMA ExecuteKeeps ==
  ASSUME CdpInv, ExecuteCycle
  PROVE  CdpInv'
<1>1. /\ Requested \in CdpRecs /\ Requested.left = cdp.left /\ Requested.count = cdp.count
      /\ Requested.init = cdp.init /\ Requested.state = cdp.state
      /\ Requested.irq <=> cdp.irq \/ RaisesInt
      /\ Requested.dma <=> cdp.dma \/ AsksDma
      /\ AsksDma => vdc.mc = 4 /\ vdc.line # VdcIntLine
      /\ RaisesInt => vdc.mc = 2 /\ vdc.line = VdcIntLine
  BY RequestedIs
<1>2. cdp.state = "execute" /\ ~cdp.init /\ cdp.count = 0 /\ cdp.left \in {1, 2}
  BY CycleFacts DEF ExecuteCycle, CoreInStep
<1>3. PICK ie \in BOOLEAN :
         LET c == [Requested EXCEPT !.left = @ - 1, !.ie = ie]
         IN  CpuCycle(IF c.left = 0 THEN FlushRequests(c) ELSE c, 0)
  BY DEF ExecuteCycle
<1> DEFINE left == cdp.left - 1
           c == [Requested EXCEPT !.left = left, !.ie = ie]
<1>4. CpuCycle(IF c.left = 0 THEN FlushRequests(c) ELSE c, 0)
  BY <1>1, <1>3
<1>5. left \in {0, 1}
  BY <1>2
<1> HIDE DEF left
<1>6. /\ c \in CdpRecs /\ c.left = left /\ c.count = 0 /\ c.init = cdp.init /\ c.state = "execute"
      /\ c.dma = Requested.dma /\ c.irq = Requested.irq
  BY <1>1, <1>2, <1>5 DEF CdpRecs
<1> HIDE DEF c
<1>7. c.init = FALSE
  BY <1>2, <1>6, CycleFacts
<1>8. CASE left = 0
  BY <1>2, <1>4, <1>6, <1>7, <1>8, FlushKeeps
<1>9. CASE left = 1
  <2>1. CpuCycle(c, 0) /\ cdp.left = 2
    BY <1>2, <1>4, <1>6, <1>9 DEF left
  <2>2. /\ vdc'.mc = IF vdc.mc = 13 THEN 0 ELSE vdc.mc + 1
        /\ vdc.mc # 13 => vdc'.line = vdc.line
    BY <2>1, SyncIs DEF CpuCycle, CdpInv
  <2>3. /\ RaisesInt => cdpLate' = 1
        /\ ~RaisesInt /\ cdpLate \in 1..3 => cdpLate' = cdpLate + 1
    BY <1>2, <2>1, LateIs
  <2>4. /\ vdc.line \in Nat /\ vdc.mc \in 0..13
        /\ cdp.dma => vdc.mc >= 5 /\ vdc.mc + 2 <= 7 /\ vdc.line # VdcIntLine
        /\ cdp.irq => /\ vdc.mc >= 3 /\ vdc.mc + 2 <= 5 /\ vdc.line = VdcIntLine
                      /\ cdpLate = vdc.mc - 2
    BY <2>1, CycleFacts DEF CoreInStep
  <2>5. c.dma => vdc'.mc >= 5 /\ vdc'.mc + 1 <= 7 /\ vdc'.line # VdcIntLine
    BY <1>1, <1>6, <2>2, <2>4
  <2>6. c.irq => /\ vdc'.mc >= 3 /\ vdc'.mc + 1 <= 5 /\ vdc'.line = VdcIntLine
                 /\ cdpLate' = vdc'.mc - 2
    BY <1>1, <1>6, <2>2, <2>3, <2>4
  <2>7. CoreInStep(c, vdc', cdpLate')
    BY <1>6, <1>7, <1>9, <2>5, <2>6 DEF CoreInStep
  <2>8. DueTo(c) = DueTo(Requested) - 0
    BY <1>1, <1>2, <1>6 DEF DueTo, LineBytes
  <2> QED
    BY <1>6, <2>1, <2>7, <2>8, CycleKeeps
<1> QED
  BY <1>5, <1>8, <1>9

LEMMA IdleKeeps ==
  ASSUME CdpInv, IdleCycle
  PROVE  CdpInv'
<1>1. /\ Requested \in CdpRecs /\ Requested.left = cdp.left /\ Requested.count = cdp.count
      /\ Requested.init = cdp.init /\ Requested.state = cdp.state
      /\ Requested.dma \in BOOLEAN /\ Requested.irq \in BOOLEAN
  BY RequestedIs, CdpFields
<1>2. cdp.state = "execute" /\ ~cdp.init /\ cdp.count = 0 /\ cdp.left >= 1
  BY CycleFacts DEF IdleCycle, CoreInStep
<1> DEFINE c == [Requested EXCEPT !.idle = FALSE]
<1>3. CpuCycle(IF Requested.dma \/ Requested.irq THEN FlushRequests(c) ELSE Requested, 0)
  BY DEF IdleCycle
<1>4. /\ c \in CdpRecs /\ c.count = 0 /\ c.init = cdp.init
      /\ c.dma = Requested.dma /\ c.irq = Requested.irq
  BY <1>1, <1>2 DEF CdpRecs
<1> HIDE DEF c
<1>5. CASE Requested.dma \/ Requested.irq
  <2>1. CpuCycle(FlushRequests(c), 0)
    BY <1>3, <1>5
  <2>2. c.init = FALSE
    BY <1>2, <1>4, CycleFacts
  <2> QED
    BY <1>2, <1>4, <2>1, <2>2, FlushKeeps
<1>6. CASE ~Requested.dma /\ ~Requested.irq
  <2>1. CpuCycle(Requested, 0)
    BY <1>3, <1>6
  <2>2. CoreInStep(Requested, vdc', cdpLate')
    BY <1>1, <1>2, <1>6 DEF CoreInStep
  <2>3. DueTo(Requested) = DueTo(Requested) - 0
    BY <1>1, <1>2, <1>6 DEF DueTo
  <2> QED
    BY <1>1, <2>1, <2>2, <2>3, CycleKeeps
<1> QED
  BY <1>1, <1>5, <1>6

LEMMA OthersKeep ==
  ASSUME CdpInv, InitCycle \/ FetchCycle \/ DmaCycle \/ InterruptCycle
  PROVE  CdpInv'
<1>1. /\ Requested \in CdpRecs /\ Requested.left = cdp.left /\ Requested.count = cdp.count
      /\ Requested.init = cdp.init /\ Requested.state = cdp.state
      /\ Requested.irq <=> cdp.irq \/ RaisesInt
      /\ Requested.dma <=> cdp.dma \/ AsksDma
      /\ AsksDma => vdc.mc = 4 /\ vdc.line # VdcIntLine
      /\ RaisesInt => vdc.mc = 2 /\ vdc.line = VdcIntLine
  BY RequestedIs
<1>2. /\ vdc.line \in Nat /\ vdc.mc \in 0..13 /\ cdp.count \in 0..8
      /\ cdp.init \in BOOLEAN /\ cdp.dma \in BOOLEAN /\ cdp.irq \in BOOLEAN
      /\ CoreInStep(cdp, vdc, cdpLate)
  BY CycleFacts
<1>3. CASE InitCycle
  <2> DEFINE c == [Requested EXCEPT !.state = "fetch", !.init = FALSE]
  <2>1. CpuCycle(c, 0) /\ cdp.init /\ cdp.state = "execute"
    BY <1>3 DEF InitCycle
  <2>2. vdc.mc = 0 /\ ~cdp.dma /\ ~cdp.irq /\ cdp.count = 0
    BY <1>2, <2>1 DEF CoreInStep
  <2>3. ~Requested.irq /\ ~Requested.dma
    BY <1>1, <2>2
  <2>4. /\ c \in CdpRecs /\ c.state = "fetch" /\ c.init = FALSE /\ c.dma = Requested.dma
        /\ c.irq = Requested.irq /\ c.count = 0
    BY <1>1, <2>2 DEF CdpRecs
  <2> HIDE DEF c
  <2>5. CoreInStep(c, vdc', cdpLate')
    BY <2>3, <2>4 DEF CoreInStep
  <2>6. DueTo(c) = DueTo(Requested) - 0
    BY <1>1, <2>2, <2>3, <2>4 DEF DueTo
  <2> QED
    BY <2>1, <2>4, <2>5, <2>6, CycleKeeps
<1>4. CASE FetchCycle
  <2>1. PICK long \in BOOLEAN, idle \in BOOLEAN :
           CpuCycle([Requested EXCEPT !.state = "execute", !.left = IF long THEN 2 ELSE 1,
                                      !.long = long, !.idle = idle], 0)
    BY <1>4 DEF FetchCycle
  <2> DEFINE left == IF long THEN 2 ELSE 1
             c == [Requested EXCEPT !.state = "execute", !.left = left, !.long = long,
                                    !.idle = idle]
  <2>2. CpuCycle(c, 0) /\ cdp.state = "fetch"
    BY <1>4, <2>1 DEF FetchCycle
  <2>3. left \in {1, 2}
    OBVIOUS
  <2> HIDE DEF left
  <2>4. /\ c \in CdpRecs /\ c.state = "execute" /\ c.left = left /\ c.init = cdp.init
        /\ c.dma = Requested.dma /\ c.irq = Requested.irq /\ c.count = cdp.count
    BY <1>1, <2>3 DEF CdpRecs
  <2> HIDE DEF c
  <2>5. ~cdp.init /\ ~cdp.dma /\ ~cdp.irq /\ cdp.count = 0
    BY <1>2, <2>2 DEF CoreInStep
  <2>6. /\ vdc'.mc = IF vdc.mc = 13 THEN 0 ELSE vdc.mc + 1
        /\ vdc.mc # 13 => vdc'.line = vdc.line
    BY <2>2, SyncIs DEF CpuCycle, CdpInv
  <2>7. RaisesInt => cdpLate' = 1
    BY <2>2, LateIs
  <2>8. c.dma => vdc'.mc >= 5 /\ vdc'.mc + c.left <= 7 /\ vdc'.line # VdcIntLine
    BY <1>1, <1>2, <2>3, <2>4, <2>5, <2>6
  <2>9. c.irq => /\ vdc'.mc >= 3 /\ vdc'.mc + c.left <= 5 /\ vdc'.line = VdcIntLine
                 /\ cdpLate' = vdc'.mc - 2
    BY <1>1, <1>2, <2>3, <2>4, <2>5, <2>6, <2>7
  <2>10. CoreInStep(c, vdc', cdpLate')
    BY <2>3, <2>4, <2>5, <2>8, <2>9 DEF CoreInStep
  <2>11. DueTo(c) = DueTo(Requested) - 0
    BY <1>1, <1>2, <2>4, <2>5 DEF DueTo, LineBytes
  <2> QED
    BY <2>2, <2>4, <2>10, <2>11, CycleKeeps
<1>5. CASE DmaCycle
  <2> DEFINE n == cdp.count - 1
             c == [Requested EXCEPT !.count = n]
             f == FlushRequests(c)
  <2>1. CpuCycle(IF c.count = 0 THEN f ELSE c, 1) /\ cdp.state = "dma"
    <3>1. cdp.state = "dma" /\ c = [Requested EXCEPT !.count = @ - 1]
      BY <1>1, <1>5 DEF DmaCycle
    <3> QED
      BY <1>5, <3>1 DEF DmaCycle
  <2>2. /\ cdp.count \in 1..8 /\ ~cdp.init /\ ~cdp.dma /\ ~cdp.irq
        /\ Place(vdc) >= 5 /\ Place(vdc) + cdp.count <= 15
    BY <1>2, <2>1 DEF CoreInStep
  <2>3. Place(vdc) = IF vdc.mc = 0 THEN 14 ELSE vdc.mc
    BY DEF Place, MCyclesPerLine
  <2>4. ~Requested.dma /\ ~Requested.irq
    BY <1>1, <1>2, <2>2, <2>3
  <2>5. n \in 0..7 /\ n \in 0..LineBytes
    BY <2>2 DEF LineBytes
  <2>12. cdp.count = n + 1
    BY <2>2
  <2> HIDE DEF n
  <2>6. /\ c \in CdpRecs /\ c.count = n /\ c.state = "dma" /\ c.init = cdp.init
        /\ c.dma = Requested.dma /\ c.irq = Requested.irq
    BY <1>1, <2>1, <2>5 DEF CdpRecs
  <2> HIDE DEF c
  <2>7. CASE n = 0
    <3>1. CpuCycle(f, 1) /\ Flushed(c, f)
      BY <2>1, <2>6, <2>7, FlushIs
    <3>2. f \in CdpRecs /\ ~f.dma /\ ~f.irq /\ f.init = cdp.init /\ f.count = 0 /\ f.state = "fetch"
      BY <2>4, <2>6, <2>7, <3>1 DEF Flushed
    <3> HIDE DEF f
    <3>3. CoreInStep(f, vdc', cdpLate')
      BY <2>2, <3>2 DEF CoreInStep
    <3>4. DueTo(f) = DueTo(Requested) - 1
      BY <1>1, <2>4, <2>7, <2>12, <3>2 DEF DueTo
    <3> QED
      BY <3>1, <3>2, <3>3, <3>4, CycleKeeps
  <2>8. CASE n > 0
    <3>1. CpuCycle(c, 1)
      BY <2>1, <2>6, <2>8
    <3>2. vdc'.mc = IF vdc.mc = 13 THEN 0 ELSE vdc.mc + 1
      BY <3>1, SyncIs DEF CpuCycle, CdpInv
    <3>3. Place(vdc') = IF vdc'.mc = 0 THEN 14 ELSE vdc'.mc
      BY DEF Place, MCyclesPerLine
    <3>7. Place(vdc) <= 13 /\ Place(vdc) + n <= 14 /\ Place(vdc) \in Nat
      <4>1. vdc.mc \in 0..13
        BY VdcFields DEF CdpInv
      <4>2. Place(vdc) \in Nat
        BY <2>3, <4>1
      <4> QED
        BY <2>2, <2>5, <2>8, <2>12, <4>2
    <3>8. vdc.mc = Place(vdc)
      BY <2>3, <3>7
    <3>9. Place(vdc') = vdc.mc + 1
      BY <2>3, <3>2, <3>3, <3>7, <3>8
    <3>4. Place(vdc') >= 5 /\ Place(vdc') + n <= 15
      BY <2>2, <2>5, <3>7, <3>8, <3>9
    <3>5. CoreInStep(c, vdc', cdpLate')
      BY <2>2, <2>4, <2>5, <2>6, <2>8, <3>4 DEF CoreInStep
    <3>6. DueTo(c) = DueTo(Requested) - 1
      BY <1>1, <2>4, <2>5, <2>6, <2>12 DEF DueTo
    <3> QED
      BY <2>6, <3>1, <3>5, <3>6, CycleKeeps
  <2> QED
    BY <2>5, <2>7, <2>8
<1>6. CASE InterruptCycle
  <2> DEFINE c == [Requested EXCEPT !.ie = FALSE, !.state = "fetch"]
  <2>1. CpuCycle(c, 0) /\ cdp.state = "interrupt"
    BY <1>6 DEF InterruptCycle
  <2>2. vdc.mc \in 3..5 /\ vdc.line = VdcIntLine /\ ~cdp.irq /\ ~cdp.dma /\ cdp.count = 0 /\ ~cdp.init
    BY <1>2, <2>1 DEF CoreInStep
  <2>3. ~Requested.irq /\ ~Requested.dma
    BY <1>1, <2>2
  <2>4. /\ c \in CdpRecs /\ c.state = "fetch" /\ c.init = cdp.init /\ c.dma = Requested.dma
        /\ c.irq = Requested.irq /\ c.count = 0
    BY <1>1, <2>2 DEF CdpRecs
  <2> HIDE DEF c
  <2>5. CoreInStep(c, vdc', cdpLate')
    BY <2>2, <2>3, <2>4 DEF CoreInStep
  <2>6. DueTo(c) = DueTo(Requested) - 0
    BY <1>1, <2>2, <2>3, <2>4 DEF DueTo
  <2> QED
    BY <2>1, <2>4, <2>5, <2>6, CycleKeeps
<1> QED
  BY <1>3, <1>4, <1>5, <1>6

CdpSpec == CdpInit /\ [][CdpNext]_cdpVars

\* Every line of the display gets its DMA in time and the interrupt routine is
\* entered within four cycles (cdp1861_sync of cdp1861.c against the requests of
\* cdp1802.c), whichever lines of however long a frame they are on and whatever
\* the program.
THEOREM DisplayKept == CdpSpec => []DisplayInStep
<1>1. CdpInit => CdpInv
  <2> SUFFICES ASSUME CdpInit PROVE CdpInv
    OBVIOUS
  <2>1. /\ cdp \in CdpRecs /\ vdc \in VdcRecs /\ cdp.state = "execute" /\ cdp.init = TRUE
        /\ vdc.mc = 0 /\ cdp.dma = FALSE /\ cdp.irq = FALSE /\ cdp.count = 0
    BY DEF CdpInit, CdpRecs, VdcRecs, LineBytes, MCyclesPerLine
  <2> QED
    BY <2>1 DEF CdpInit, CdpInv, CoreInStep, DueTo, MCyclesPerLine
<1>2. CdpInv /\ [CdpNext]_cdpVars => CdpInv'
  <2> SUFFICES ASSUME CdpInv, [CdpNext]_cdpVars PROVE CdpInv'
    OBVIOUS
  <2>1. ASSUME NEW on \in BOOLEAN, SetDisplay(on) PROVE CdpInv'
    <3>1. vdc \in VdcRecs /\ UNCHANGED <<cdp, cdpDue, cdpLost, cdpLate>>
          /\ vdc' = [vdc EXCEPT !.on = on, !.fired = vdc.fired /\ on] /\ (vdc.fired /\ on) \in BOOLEAN
      BY <2>1, VdcFields DEF SetDisplay, CdpInv
    <3>2. vdc' \in VdcRecs /\ vdc'.mc = vdc.mc /\ vdc'.line = vdc.line
      BY <3>1 DEF VdcRecs
    <3> QED
      BY <3>1, <3>2 DEF CdpInv, CoreInStep, DueTo, Place
  <2>2. CASE CdpReset
    <3>1. cdp \in CdpRecs
      BY DEF CdpInv
    <3>4. cdp' = [state |-> "execute", left |-> 0, idle |-> FALSE, init |-> TRUE, ie |-> TRUE,
                  long |-> FALSE, dma |-> FALSE, irq |-> FALSE, count |-> 0]
      BY <2>2, <3>1 DEF CdpReset, CdpRecs
    <3>2. /\ cdp' \in CdpRecs /\ cdp'.state = "execute" /\ cdp'.init = TRUE /\ cdp'.dma = FALSE
          /\ cdp'.irq = FALSE /\ cdp'.count = 0
      BY <3>4 DEF CdpRecs, LineBytes
    <3>3. vdc' \in VdcRecs /\ vdc'.mc = 0
      BY <2>2 DEF CdpReset, VdcRecs, MCyclesPerLine
    <3> QED
      BY <2>2, <3>2, <3>3 DEF CdpReset, CdpInv, CoreInStep, DueTo, MCyclesPerLine
  <2>3. CASE UNCHANGED cdpVars
    BY <2>3 DEF cdpVars, CdpInv, CoreInStep, DueTo, Place
  <2> QED
    BY <2>1, <2>2, <2>3, ExecuteKeeps, IdleKeeps, OthersKeep DEF CdpNext
<1>3. CdpInv => DisplayInStep
  <2> SUFFICES ASSUME CdpInv PROVE DisplayInStep
    OBVIOUS
  <2>1. /\ CoreInStep(cdp, vdc, cdpLate) /\ cdp.count \in 0..8 /\ vdc.mc \in 0..13
        /\ cdp.dma \in BOOLEAN /\ cdp.left \in {0, 1, 2}
    BY CycleFacts
  <2>2. cdpDue > 0 => vdc.mc \in (5..13) \cup {0}
    BY <2>1 DEF CdpInv, CoreInStep, DueTo, LineBytes, Place, MCyclesPerLine
  <2>3. cdp.state = "interrupt" => cdpLate \in 1..3
    BY <2>1 DEF CoreInStep
  <2> QED
    BY <2>2, <2>3 DEF CdpInv, DueTo, DisplayInStep, MCyclesPerLine
<1> QED
  BY <1>1, <1>2, <1>3, PTL DEF CdpSpec

----------------------------------------------------------------------------
(***************************************************************************)
(* Mos6502: interrupts are taken on time.                                  *)
(***************************************************************************)

MosSpec == MosInit /\ [][MosNext]_mosVars

MosKinds == {"plain", "flag", "rti", "near", "nmi", "irq", "brk", "reset"}
MosTags == {"cycle", "keep", "restore", "clear", "set", "pushFlags", "vector", "reset"}
LineSample == [nmi : BOOLEAN, irq : BOOLEAN]

\* The tags a cycle may have that is followed by r others of its sequence.
TagsAt(kind, r) ==
  CASE kind = "plain" -> {"cycle", "keep"}
    [] kind = "flag" -> IF r = 0 THEN {"clear", "set"} ELSE {"cycle"}
    [] kind = "rti" -> IF r = 2 THEN {"clear", "set"} ELSE {"cycle"}
    [] kind = "near" -> IF r = 0 THEN {"restore"} ELSE IF r = 1 THEN {"cycle"} ELSE {"keep"}
    [] kind = "reset" -> {"reset"}
    [] kind \in {"nmi", "irq", "brk"} ->
         IF r = 0 THEN {"vector"} ELSE IF r = 2 THEN {"pushFlags"} ELSE {"cycle"}

\* todo is what a sequence of that kind may have left.
ShapedAs(kind, todo) ==
  /\ todo \in Seq(MosTags)
  /\ \A k \in 1 .. Len(todo) : todo[k] \in TagsAt(kind, Len(todo) - k)

MosTyped ==
  /\ mosMode \in MosModes /\ mosKind \in MosKinds
  /\ mosI \in BOOLEAN /\ mosNmi \in BOOLEAN /\ mosIrq \in BOOLEAN /\ mosStartI \in BOOLEAN
  /\ mosPoll \in LineSample \X LineSample /\ mosKept \in LineSample
  /\ mosLines \in Seq(LineSample) /\ Len(mosLines) <= 3 /\ mosOwed \in Nat

MosShape ==
  /\ ShapedAs(mosKind, mosTodo)
  /\ Len(mosTodo) + Len(mosLines) >= 2
  /\ mosKind = "near" => Len(mosTodo) + Len(mosLines) = 3
  /\ MosService => Len(mosLines) = 3 \/ Len(mosTodo) + Len(mosLines) >= 6

\* Where the flag I of the samples comes from.
MosFlag ==
  /\ mosKind \in {"plain", "near"} => mosI = mosStartI
  /\ mosKind = "flag" /\ Len(mosTodo) >= 1 => mosI = mosStartI
  /\ mosKind = "rti" /\ Len(mosTodo) >= 3 => mosI = mosStartI
  /\ mosKind = "reset" => mosI /\ mosStartI

\* What was sampled in the last cycle, in the one before, and kept by a branch.
MosNmiSampled ==
  /\ MosService /\ mosTodo = <<>> => mosPoll = NoPoll
  /\ ~(MosService /\ mosTodo = <<>>) =>
       /\ Len(mosLines) >= 1 => mosPoll[1].nmi = mosLines[Len(mosLines)].nmi
       /\ Len(mosLines) >= 2 /\ ~(mosKind = "near" /\ mosTodo = <<>>)
            => mosPoll[2].nmi = mosLines[Len(mosLines) - 1].nmi
  /\ mosKind = "near" /\ mosTodo = <<>> => mosPoll[2].nmi = mosLines[1].nmi
  /\ mosKind = "near" /\ Len(mosTodo) \in {1, 2} => mosKept.nmi = mosLines[1].nmi

SampledWithout(sample, line, i) == sample.irq <=> (line.irq /\ ~i)

MosIrqSampled ==
  /\ mosKind \in {"plain", "flag", "near", "reset"} =>
       /\ Len(mosLines) >= 1 => SampledWithout(mosPoll[1], mosLines[Len(mosLines)], mosStartI)
       /\ Len(mosLines) >= 2 /\ ~(mosKind = "near" /\ mosTodo = <<>>)
            => SampledWithout(mosPoll[2], mosLines[Len(mosLines) - 1], mosStartI)
  /\ mosKind = "near" /\ mosTodo = <<>> => SampledWithout(mosPoll[2], mosLines[1], mosStartI)
  /\ mosKind = "near" /\ Len(mosTodo) \in {1, 2} => SampledWithout(mosKept, mosLines[1], mosStartI)
  /\ mosKind = "rti" /\ Len(mosTodo) <= 1 => SampledWithout(mosPoll[1], mosLines[Len(mosLines)], mosI)
  /\ mosKind = "rti" /\ Len(mosTodo) = 0 => SampledWithout(mosPoll[2], mosLines[Len(mosLines) - 1], mosI)

\* An NMI that was seen waits, and how long it has waited.
MosWaits ==
  /\ ~MosService => \A k \in 1 .. Len(mosLines) : mosLines[k].nmi => mosNmi
  /\ mosNmi <=> mosOwed > 0
  /\ mosOwed <= (IF mosMode = "polling" THEN 2 ELSE 1)
  /\ mosOwed = 2 =>
       /\ \A k \in 1 .. Len(mosLines) : mosLines[k].nmi
       /\ MosService => mosKind # "nmi" /\ Len(mosTodo) >= 3

MosInv ==
  /\ MosTyped /\ MosShape /\ MosWaits
  /\ mosMode = "polling" => MosFlag /\ MosNmiSampled /\ MosIrqSampled

\* What a cycle does to the sequence and to the history of the lines.
MosAdvanced(nmi, irq) ==
  /\ Len(mosTodo) \in Nat /\ Len(mosTodo) >= 1
  /\ Len(mosTodo') = Len(mosTodo) - 1 /\ (mosTodo' = <<>> <=> Len(mosTodo') = 0)
  /\ ShapedAs(mosKind, mosTodo')
  /\ Head(mosTodo) \in TagsAt(mosKind, Len(mosTodo'))
  /\ mosLines' \in Seq(LineSample) /\ Len(mosLines) \in Nat
  /\ Len(mosLines') = IF Len(mosLines) < 3 THEN Len(mosLines) + 1 ELSE 3
  /\ mosLines'[Len(mosLines')] = [nmi |-> nmi, irq |-> irq]
  /\ Len(mosLines) >= 1 => mosLines'[Len(mosLines') - 1] = mosLines[Len(mosLines)]
  /\ Len(mosLines) >= 1 => mosLines'[1] = mosLines[1]
  /\ \A k \in 1 .. Len(mosLines') :
       \/ mosLines'[k] = [nmi |-> nmi, irq |-> irq]
       \/ \E j \in 1 .. Len(mosLines) : mosLines'[k] = mosLines[j]
  /\ mosMode' = mosMode /\ mosKind' = mosKind /\ mosStartI' = mosStartI
  /\ mosIrq' = irq /\ (mosNmi => nmi)

LEMMA UpToThree ==
  ASSUME NEW n \in Nat, n <= 3
  PROVE  n < 3 <=> n # 3
OBVIOUS

MosLinesFollow(L, now, M) ==
  /\ M \in Seq(LineSample) /\ Len(L) \in Nat
  /\ Len(M) = IF Len(L) < 3 THEN Len(L) + 1 ELSE 3
  /\ M[Len(M)] = now
  /\ Len(L) >= 1 => M[Len(M) - 1] = L[Len(L)]
  /\ Len(L) >= 1 => M[1] = L[1]
  /\ \A k \in 1 .. Len(M) : M[k] = now \/ \E j \in 1 .. Len(L) : M[k] = L[j]

NextLines(L, now) == IF Len(L) < 3 THEN Append(L, now) ELSE <<L[1], L[3], now>>

LEMMA MosHistory ==
  ASSUME NEW L \in Seq(LineSample), Len(L) <= 3, NEW now \in LineSample, NEW M, M = NextLines(L, now)
  PROVE  MosLinesFollow(L, now, M)
<1>1. Len(L) \in Nat /\ (\A k \in 1 .. Len(L) : L[k] \in LineSample)
  OBVIOUS
<1>2. CASE Len(L) < 3
  <2>1. M = Append(L, now)
    BY <1>2 DEF NextLines
  <2> QED
    BY <1>1, <1>2, <2>1 DEF MosLinesFollow
<1>3. CASE Len(L) = 3
  <2>1. L[1] \in LineSample /\ L[3] \in LineSample
    BY <1>1, <1>3
  <2>2. M = <<L[1], L[3], now>>
    BY <1>1, <1>3 DEF NextLines
  <2>3. M \in Seq(LineSample) /\ Len(M) = 3 /\ M[1] = L[1] /\ M[2] = L[3] /\ M[3] = now
    BY <2>1, <2>2
  <2>4. ASSUME NEW k \in 1 .. Len(M) PROVE M[k] = now \/ \E j \in 1 .. Len(L) : M[k] = L[j]
    <3>1. k = 1 \/ k = 2 \/ k = 3
      BY <2>3
    <3>2. 1 \in 1 .. Len(L) /\ 3 \in 1 .. Len(L)
      BY <1>3
    <3> QED
      BY <2>3, <3>1, <3>2
  <2> QED
    BY <1>1, <1>3, <2>3, <2>4 DEF MosLinesFollow
<1>4. Len(L) < 3 \/ Len(L) = 3
  <2>1. Len(L) \in Nat /\ Len(L) <= 3
    OBVIOUS
  <2> QED
    BY <2>1, UpToThree, Zenon
<1> QED
  BY <1>2, <1>3, <1>4

LEMMA MosCycleAdvances ==
  ASSUME MosTyped, MosShape, NEW nmi \in BOOLEAN, NEW irq \in BOOLEAN, NEW tags,
         MosCycle(tags, nmi, irq)
  PROVE  MosAdvanced(nmi, irq)
<1> DEFINE now == [nmi |-> nmi, irq |-> irq]
<1>1. now \in LineSample
  BY DEF LineSample
<1>2. mosLines \in Seq(LineSample) /\ Len(mosLines) <= 3
  BY DEF MosTyped
<1>3. mosLines' = NextLines(mosLines, now)
  BY DEF MosCycle, NextLines
<1> HIDE DEF now
<1>4. MosLinesFollow(mosLines, now, mosLines')
  BY <1>1, <1>2, <1>3, MosHistory
<1>5. /\ mosTodo \in Seq(MosTags) /\ mosTodo # <<>> /\ mosTodo' = Tail(mosTodo)
      /\ \A k \in 1 .. Len(mosTodo) : mosTodo[k] \in TagsAt(mosKind, Len(mosTodo) - k)
  BY DEF MosCycle, MosShape, ShapedAs
<1>6. /\ Len(mosTodo) \in Nat /\ Len(mosTodo) >= 1 /\ Head(mosTodo) = mosTodo[1]
      /\ mosTodo' \in Seq(MosTags) /\ Len(mosTodo') = Len(mosTodo) - 1
      /\ mosTodo' = <<>> <=> Len(mosTodo') = 0
      /\ \A k \in 1 .. Len(mosTodo') : mosTodo'[k] = mosTodo[k + 1]
  <2>1. mosTodo \in Seq(MosTags) /\ mosTodo # <<>> /\ mosTodo' = Tail(mosTodo)
    BY <1>5
  <2>2. mosTodo' \in Seq(MosTags) /\ Len(mosTodo') = Len(mosTodo) - 1
    BY <2>1
  <2>3. Len(mosTodo) \in Nat /\ Len(mosTodo) >= 1 /\ Head(mosTodo) = mosTodo[1]
    BY <2>1
  <2>4. mosTodo' = <<>> <=> Len(mosTodo') = 0
    BY <2>2
  <2>5. \A k \in 1 .. Len(mosTodo') : mosTodo'[k] = mosTodo[k + 1]
    BY <2>1, <2>2
  <2> QED
    BY <2>2, <2>3, <2>4, <2>5
<1>7. ShapedAs(mosKind, mosTodo')
  <2> SUFFICES ASSUME NEW k \in 1 .. Len(mosTodo') PROVE mosTodo'[k] \in TagsAt(mosKind, Len(mosTodo') - k)
    BY <1>6 DEF ShapedAs
  <2>1. k + 1 \in 1 .. Len(mosTodo) /\ Len(mosTodo) - (k + 1) = Len(mosTodo') - k
    BY <1>6
  <2> QED
    BY <1>5, <1>6, <2>1
<1>8. Head(mosTodo) \in TagsAt(mosKind, Len(mosTodo'))
  BY <1>5, <1>6
<1>9. /\ mosMode' = mosMode /\ mosKind' = mosKind /\ mosStartI' = mosStartI
      /\ mosIrq' = irq /\ (mosNmi => nmi)
  BY DEF MosCycle
<1> QED
  BY <1>4, <1>6, <1>7, <1>8, <1>9 DEF MosAdvanced, MosLinesFollow, now

\* The kinds a tag tells, and how far from the end.
LEMMA TagPlaces ==
  ASSUME NEW kind \in MosKinds, NEW r \in Nat, NEW tag \in TagsAt(kind, r)
  PROVE  /\ tag \in {"cycle", "reset"} => ~(kind = "near" /\ r # 1) /\ ~(kind = "flag" /\ r = 0)
                                          /\ ~(kind = "rti" /\ r = 2)
                                          /\ (kind \in {"nmi", "irq", "brk"} => r \notin {0, 2})
         /\ tag = "keep" => kind = "plain" \/ (kind = "near" /\ r >= 2)
         /\ tag = "restore" => kind = "near" /\ r = 0
         /\ tag \in {"clear", "set"} => (kind = "flag" /\ r = 0) \/ (kind = "rti" /\ r = 2)
         /\ tag = "pushFlags" => kind \in {"nmi", "irq", "brk"} /\ r = 2
         /\ tag = "vector" => kind \in {"nmi", "irq", "brk"} /\ r = 0
BY DEF TagsAt, MosKinds

\* The part that is the same for every cycle.
LEMMA MosCycleKeeps ==
  ASSUME MosTyped, MosShape, NEW nmi \in BOOLEAN, NEW irq \in BOOLEAN, MosAdvanced(nmi, irq),
         mosI' \in BOOLEAN, mosNmi' \in BOOLEAN, mosPoll' \in LineSample \X LineSample,
         mosKept' \in LineSample, mosOwed' \in Nat
  PROVE  MosTyped' /\ MosShape'
<1>1. MosTyped'
  BY DEF MosTyped, MosAdvanced
<1>2. MosShape'
  <2>1. ShapedAs(mosKind, mosTodo)'
    BY DEF MosAdvanced
  <2>6. Len(mosLines) < 3 \/ Len(mosLines) = 3
    <3>1. Len(mosLines) \in Nat /\ Len(mosLines) <= 3
      BY DEF MosTyped
    <3> QED
      BY <3>1, UpToThree, Zenon
  <2>2. /\ Len(mosTodo) + Len(mosLines) >= 2
        /\ mosKind = "near" => Len(mosTodo) + Len(mosLines) = 3
        /\ MosService => Len(mosLines) = 3 \/ Len(mosTodo) + Len(mosLines) >= 6
        /\ Len(mosLines) <= 3
    BY DEF MosShape, MosTyped
  <2>3. (Len(mosTodo) + Len(mosLines) >= 2)'
    BY <2>2 DEF MosAdvanced
  <2>4. (mosKind = "near" => Len(mosTodo) + Len(mosLines) = 3)'
    BY <2>2 DEF MosAdvanced
  <2>5. (MosService => Len(mosLines) = 3 \/ Len(mosTodo) + Len(mosLines) >= 6)'
    <3>1. CASE Len(mosLines) = 3
      BY <3>1 DEF MosAdvanced
    <3>2. CASE Len(mosLines) < 3
      <4>1. Len(mosTodo') + Len(mosLines') = Len(mosTodo) + Len(mosLines)
        BY <3>2 DEF MosAdvanced
      <4>2. mosKind' = mosKind
        BY DEF MosAdvanced
      <4>3. MosService' => MosService
        BY <4>2 DEF MosService
      <4>4. MosService => Len(mosTodo) + Len(mosLines) >= 6
        <5>1. ~(Len(mosLines) = 3)
          <6>1. Len(mosLines) \in Nat /\ Len(mosLines) <= 3
            BY DEF MosTyped
          <6> QED
            BY <3>2, <6>1, UpToThree, Zenon
        <5> QED
          BY <2>2, <5>1, Zenon
      <4> QED
        BY <4>1, <4>3, <4>4
    <3> QED
      BY <2>6, <3>1, <3>2, Zenon
  <2> QED
    BY <2>1, <2>3, <2>4, <2>5 DEF MosShape
<1> QED
  BY <1>1, <1>2

LEMMA MosSampledTyped ==
  ASSUME MosTyped, NEW nmi \in BOOLEAN, NEW irq \in BOOLEAN
  PROVE  /\ Sampled(nmi, irq) \in LineSample \X LineSample
         /\ Sampled(nmi, irq)[1] \in LineSample
         /\ mosMode = "polling" =>
              /\ Sampled(nmi, irq)[1].nmi = nmi /\ Sampled(nmi, irq)[1].irq = (irq /\ ~mosI)
              /\ Sampled(nmi, irq)[2] = mosPoll[1]
<1>1. [nmi |-> nmi, irq |-> irq /\ ~mosI] \in LineSample
  BY DEF LineSample, MosTyped
<1>2. mosPoll \in LineSample \X LineSample /\ mosPoll[1] \in LineSample
  BY DEF MosTyped
<1> QED
  BY <1>1, <1>2 DEF Sampled

LEMMA LatchWaits ==
  ASSUME MosTyped, MosWaits, NEW nmi \in BOOLEAN, NEW irq \in BOOLEAN, MosAdvanced(nmi, irq),
         Latch(nmi), MosService => Len(mosTodo) # 3
  PROVE  MosWaits' /\ mosNmi' \in BOOLEAN /\ mosOwed' \in Nat
<1>1. mosOwed \in Nat /\ mosNmi \in BOOLEAN /\ mosNmi' = nmi /\ (mosNmi => nmi)
  BY DEF MosTyped, MosAdvanced, Latch
<1>2. mosOwed' = IF nmi /\ mosOwed = 0 THEN 1 ELSE mosOwed
  BY DEF Latch
<1>3. mosNmi <=> mosOwed > 0
  BY DEF MosWaits
<1>4. mosOwed' \in Nat /\ (mosNmi' <=> mosOwed' > 0)
  BY <1>1, <1>2, <1>3
<1>5. MosService' <=> MosService
  BY DEF MosService, MosAdvanced
<1>6. ASSUME NEW k \in 1 .. Len(mosLines')
      PROVE  \/ mosLines'[k] = [nmi |-> nmi, irq |-> irq]
             \/ \E j \in 1 .. Len(mosLines) : mosLines'[k] = mosLines[j]
  BY DEF MosAdvanced
<1>7. ASSUME ~MosService', NEW k \in 1 .. Len(mosLines'), mosLines'[k].nmi PROVE mosNmi'
  <2>1. CASE mosLines'[k] = [nmi |-> nmi, irq |-> irq]
    BY <1>1, <1>7, <2>1
  <2>2. CASE \E j \in 1 .. Len(mosLines) : mosLines'[k] = mosLines[j]
    <3>1. PICK j \in 1 .. Len(mosLines) : mosLines'[k] = mosLines[j]
      BY <2>2
    <3>2. mosLines[j].nmi => mosNmi
      BY <1>5, <1>7 DEF MosWaits
    <3> QED
      BY <1>1, <1>7, <3>1, <3>2
  <2> QED
    BY <1>6, <2>1, <2>2
<1>8. (mosOwed <= (IF mosMode = "polling" THEN 2 ELSE 1))'
  <2>1. mosOwed <= (IF mosMode = "polling" THEN 2 ELSE 1) /\ mosMode' = mosMode
    BY DEF MosWaits, MosAdvanced
  <2> QED
    BY <1>1, <1>2, <2>1
<1>9. ASSUME mosOwed' = 2
      PROVE  (\A k \in 1 .. Len(mosLines') : mosLines'[k].nmi)
            /\ (MosService' => mosKind' # "nmi" /\ Len(mosTodo') >= 3)
  <2>1. mosOwed = 2 /\ nmi
    BY <1>1, <1>2, <1>3, <1>9
  <2>2. /\ \A k \in 1 .. Len(mosLines) : mosLines[k].nmi
        /\ MosService => mosKind # "nmi" /\ Len(mosTodo) >= 3
    BY <2>1 DEF MosWaits
  <2>3. ASSUME NEW k \in 1 .. Len(mosLines') PROVE mosLines'[k].nmi
    BY <1>6, <2>1, <2>2
  <2>4. Len(mosTodo) \in Nat /\ Len(mosTodo') = Len(mosTodo) - 1 /\ mosKind' = mosKind
    BY DEF MosAdvanced
  <2>5. ASSUME MosService PROVE mosKind' # "nmi" /\ Len(mosTodo') >= 3
    <3>1. Len(mosTodo) # 3 /\ Len(mosTodo) >= 3 /\ mosKind # "nmi"
      BY <2>2, <2>5
    <3> HIDE DEF MosService
    <3> QED
      BY <2>4, <3>1
  <2> QED
    BY <1>5, <2>3, <2>5
<1> QED
  BY <1>1, <1>4, <1>7, <1>8, <1>9 DEF MosWaits

\* Numbers of the cycles left and of the lines kept, for the samples.
MosCounts ==
  /\ Len(mosTodo) \in Nat /\ Len(mosLines) \in Nat /\ Len(mosTodo') \in Nat /\ Len(mosLines') \in Nat
  /\ Len(mosTodo) = Len(mosTodo') + 1
  /\ Len(mosLines') >= 1 /\ (Len(mosLines') >= 2 <=> Len(mosLines) >= 1)
  /\ mosTodo # <<>> /\ (mosTodo' = <<>> <=> Len(mosTodo') = 0)
  /\ Len(mosTodo') = 0 => Len(mosLines) >= 1
  /\ (Len(mosTodo) = 3 <=> Len(mosTodo') = 2) /\ (Len(mosTodo') = 2 => ~(Len(mosTodo') <= 1))
  /\ mosKind = "near" => /\ Len(mosTodo') <= 2 /\ (Len(mosTodo') = 2 => Len(mosLines) = 0)
                         /\ (Len(mosTodo') \in {0, 1} => Len(mosLines) >= 1)
                         /\ (Len(mosTodo') >= 2 => Len(mosTodo') = 2)

LEMMA MosCounting ==
  ASSUME MosTyped, MosShape, NEW nmi \in BOOLEAN, NEW irq \in BOOLEAN, MosAdvanced(nmi, irq)
  PROVE  MosCounts
<1>1. /\ Len(mosTodo) \in Nat /\ Len(mosTodo) >= 1 /\ Len(mosTodo') = Len(mosTodo) - 1
      /\ (mosTodo' = <<>> <=> Len(mosTodo') = 0)
      /\ Len(mosLines) \in Nat /\ Len(mosLines') = IF Len(mosLines) < 3 THEN Len(mosLines) + 1 ELSE 3
  BY DEF MosAdvanced
<1>2. Len(mosTodo) + Len(mosLines) >= 2 /\ (mosKind = "near" => Len(mosTodo) + Len(mosLines) = 3)
  BY DEF MosShape
<1>3. mosTodo # <<>>
  BY <1>1
<1> DEFINE n == Len(mosTodo)
           l == Len(mosLines)
           n2 == Len(mosTodo')
           l2 == Len(mosLines')
<1>4. /\ n \in Nat /\ n >= 1 /\ n2 = n - 1 /\ l \in Nat /\ l2 = (IF l < 3 THEN l + 1 ELSE 3)
      /\ n + l >= 2
      /\ mosKind = "near" => n + l = 3
  BY <1>1, <1>2
<1>5. (mosTodo' = <<>> <=> n2 = 0) /\ mosTodo # <<>>
  BY <1>1, <1>3
<1> HIDE DEF n, l, n2, l2
<1>6. n2 \in Nat /\ l2 \in Nat /\ n = n2 + 1 /\ l2 >= 1 /\ (l2 >= 2 <=> l >= 1) /\ (n2 = 0 => l >= 1)
      /\ (n = 3 <=> n2 = 2) /\ (n2 = 2 => ~(n2 <= 1))
  BY <1>4
<1>7. mosKind = "near" => n2 <= 2 /\ (n2 = 2 => l = 0) /\ (n2 \in {0, 1} => l >= 1)
      /\ (n2 >= 2 => n2 = 2)
  BY <1>4
<1> QED
  BY <1>4, <1>5, <1>6, <1>7 DEF MosCounts, n, l, n2, l2

\* The sampled lines after a cycle that samples them and does nothing else to
\* the samples, unless it keeps the one it takes.
LEMMA PolledNmi ==
  ASSUME MosTyped, MosNmiSampled, mosMode = "polling", MosCounts,
         NEW nmi \in BOOLEAN, NEW irq \in BOOLEAN, MosAdvanced(nmi, irq), mosPoll' = Sampled(nmi, irq),
         mosKind = "near" \/ MosService => Len(mosTodo') # 0,
         mosKind = "near" /\ Len(mosTodo') = 2 => mosKept' = Sampled(nmi, irq)[1],
         mosKind = "near" /\ Len(mosTodo') = 1 => mosKept' = mosKept
  PROVE  MosNmiSampled'
<1>1. mosPoll'[1].nmi = nmi /\ mosPoll'[2].nmi = mosPoll[1].nmi /\ Sampled(nmi, irq)[1].nmi = nmi
  BY MosSampledTyped
<1>2. mosKind' = mosKind /\ (MosService' <=> MosService)
  BY DEF MosAdvanced, MosService
<1>3. mosLines'[Len(mosLines')].nmi = nmi
  BY DEF MosAdvanced
<1>4. (MosService /\ mosTodo = <<>> => mosPoll = NoPoll)'
  BY <1>2 DEF MosCounts
<1>5. ASSUME Len(mosLines) >= 1 PROVE mosPoll'[2].nmi = mosLines'[Len(mosLines') - 1].nmi
  <2>1. mosPoll[1].nmi = mosLines[Len(mosLines)].nmi
    BY <1>5 DEF MosNmiSampled, MosCounts
  <2>2. mosLines'[Len(mosLines') - 1] = mosLines[Len(mosLines)]
    BY <1>5 DEF MosAdvanced
  <2> QED
    BY <1>1, <2>1, <2>2
<1>6. ASSUME mosKind' = "near" PROVE mosTodo' # <<>>
  BY <1>2, <1>6 DEF MosCounts
<1>7. ASSUME mosKind' = "near", Len(mosTodo') \in {1, 2} PROVE mosKept'.nmi = mosLines'[1].nmi
  <2>1. CASE Len(mosTodo') = 2
    <3>1. Len(mosLines) = 0
      BY <1>2, <1>7, <2>1 DEF MosCounts
    <3>2. Len(mosLines') = 1
      BY <3>1 DEF MosAdvanced
    <3>3. mosKept'.nmi = nmi
      BY <1>1, <1>2, <1>7, <2>1
    <3> QED
      BY <1>3, <3>2, <3>3
  <2>2. CASE Len(mosTodo') = 1
    <3>1. Len(mosLines) >= 1 /\ Len(mosTodo) \in {1, 2}
      BY <1>2, <1>7, <2>2 DEF MosCounts
    <3>2. mosLines'[1] = mosLines[1]
      BY <3>1 DEF MosAdvanced
    <3>3. mosKept'= mosKept
      BY <1>2, <1>7, <2>2
    <3> QED
      BY <1>2, <1>7, <3>1, <3>2, <3>3 DEF MosNmiSampled
  <2> QED
    BY <1>7, <2>1, <2>2
<1> QED
  BY <1>1, <1>3, <1>4, <1>5, <1>6, <1>7 DEF MosNmiSampled, MosCounts

LEMMA PolledIrq ==
  ASSUME MosTyped, MosFlag, MosIrqSampled, mosMode = "polling", MosCounts,
         NEW nmi \in BOOLEAN, NEW irq \in BOOLEAN, MosAdvanced(nmi, irq), mosPoll' = Sampled(nmi, irq),
         mosKind = "near" => Len(mosTodo') # 0,
         mosKind = "near" /\ Len(mosTodo') = 2 => mosKept' = Sampled(nmi, irq)[1],
         mosKind = "near" /\ Len(mosTodo') = 1 => mosKept' = mosKept,
         mosKind = "rti" /\ Len(mosTodo') <= 1 => (mosI' <=> mosI)
  PROVE  MosIrqSampled'
<1>1. /\ mosPoll'[1].irq <=> (irq /\ ~mosI)
      /\ mosPoll'[2].irq <=> mosPoll[1].irq
      /\ Sampled(nmi, irq)[1].irq <=> (irq /\ ~mosI)
  BY MosSampledTyped
<1>2. mosKind' = mosKind /\ (mosStartI' <=> mosStartI)
  BY DEF MosAdvanced
<1>3. mosLines'[Len(mosLines')].irq <=> irq
  BY DEF MosAdvanced
<1>4. ASSUME mosKind \in {"plain", "flag", "near", "reset"} PROVE mosI <=> mosStartI
  BY <1>4 DEF MosFlag, MosCounts
<1>5. Len(mosLines) >= 1 => (mosLines'[Len(mosLines') - 1].irq <=> mosLines[Len(mosLines)].irq)
  BY DEF MosAdvanced
<1>6. ASSUME mosKind' \in {"plain", "flag", "near", "reset"}
      PROVE  /\ SampledWithout(mosPoll'[1], mosLines'[Len(mosLines')], mosStartI')
             /\ Len(mosLines) >= 1 => SampledWithout(mosPoll'[2], mosLines'[Len(mosLines') - 1], mosStartI')
  <2>1. Len(mosLines) >= 1 => (mosPoll[1].irq <=> (mosLines[Len(mosLines)].irq /\ ~mosStartI))
    BY <1>2, <1>6 DEF MosIrqSampled, SampledWithout
  <2>2. mosI <=> mosStartI
    BY <1>2, <1>4, <1>6
  <2> QED
    BY <1>1, <1>2, <1>3, <1>5, <2>1, <2>2 DEF SampledWithout
<1>7. mosKind' = "near" => mosTodo' # <<>>
  BY <1>2 DEF MosCounts
<1>8. ASSUME mosKind' = "near", Len(mosTodo') \in {1, 2}
      PROVE  SampledWithout(mosKept', mosLines'[1], mosStartI')
  <2>1. CASE Len(mosTodo') = 2
    <3>1. Len(mosLines) = 0
      BY <1>2, <1>8, <2>1 DEF MosCounts
    <3>2. Len(mosLines') = 1
      BY <3>1 DEF MosAdvanced
    <3>3. mosKept'.irq <=> (irq /\ ~mosI)
      BY <1>1, <1>2, <1>8, <2>1
    <3> QED
      BY <1>2, <1>3, <1>4, <1>8, <3>2, <3>3 DEF SampledWithout
  <2>2. CASE Len(mosTodo') = 1
    <3>1. Len(mosLines) >= 1 /\ Len(mosTodo) \in {1, 2}
      BY <1>2, <1>8, <2>2 DEF MosCounts
    <3>2. mosLines'[1] = mosLines[1]
      BY <3>1 DEF MosAdvanced
    <3>3. mosKept'= mosKept
      BY <1>2, <1>8, <2>2
    <3>4. SampledWithout(mosKept, mosLines[1], mosStartI)
      BY <1>2, <1>8, <3>1 DEF MosIrqSampled
    <3> QED
      BY <1>2, <3>2, <3>3, <3>4 DEF SampledWithout
  <2> QED
    BY <1>8, <2>1, <2>2
<1>9. ASSUME mosKind' = "rti", Len(mosTodo') <= 1
      PROVE  /\ SampledWithout(mosPoll'[1], mosLines'[Len(mosLines')], mosI')
             /\ Len(mosTodo') = 0 => SampledWithout(mosPoll'[2], mosLines'[Len(mosLines') - 1], mosI')
  <2>1. mosI' <=> mosI
    BY <1>2, <1>9
  <2>2. ASSUME Len(mosTodo') = 0 PROVE SampledWithout(mosPoll'[2], mosLines'[Len(mosLines') - 1], mosI')
    <3>1. Len(mosTodo) <= 1 /\ Len(mosLines) >= 1
      BY <2>2 DEF MosCounts
    <3>2. SampledWithout(mosPoll[1], mosLines[Len(mosLines)], mosI)
      BY <1>2, <1>9, <3>1 DEF MosIrqSampled
    <3> QED
      BY <1>1, <1>5, <2>1, <3>1, <3>2 DEF SampledWithout
  <2> QED
    BY <1>1, <1>3, <2>1, <2>2 DEF SampledWithout
<1>10. (mosKind = "rti"
      /\ Len(mosTodo) = 0 => SampledWithout(mosPoll[2], mosLines[Len(mosLines) - 1], mosI))'
  <2>1. Len(mosTodo') = 0 => Len(mosTodo') <= 1
    OBVIOUS
  <2> QED
    BY <1>9, <2>1
<1> QED
  BY <1>6, <1>7, <1>8, <1>9, <1>10 DEF MosIrqSampled, MosCounts

MosPolls == mosMode = "polling" => MosFlag /\ MosNmiSampled /\ MosIrqSampled

LEMMA MosFlagKept ==
  ASSUME MosTyped, MosFlag, MosCounts, NEW nmi \in BOOLEAN, NEW irq \in BOOLEAN, MosAdvanced(nmi, irq),
         mosI' = mosI
  PROVE  MosFlag'
BY DEF MosFlag, MosCounts, MosAdvanced

LEMMA PlainCycleKeeps ==
  ASSUME MosInv, NEW nmi \in BOOLEAN, NEW irq \in BOOLEAN, PlainCycle(nmi, irq)
  PROVE  MosInv'
<1>1. MosTyped /\ MosShape /\ MosWaits /\ MosPolls
  BY DEF MosInv, MosPolls
<1>2. /\ MosCycle({"cycle", "reset"}, nmi, irq) /\ Latch(nmi)
      /\ mosPoll' = Sampled(nmi, irq) /\ mosI' = mosI /\ mosKept' = mosKept
  BY DEF PlainCycle
<1>3. MosAdvanced(nmi, irq)
  BY <1>1, <1>2, MosCycleAdvances
<1>4. MosCounts
  BY <1>1, <1>3, MosCounting
<1>5. /\ mosKind = "near" => Len(mosTodo') = 1
      /\ MosService => Len(mosTodo') # 0 /\ Len(mosTodo') # 2
  <2>1. Head(mosTodo) \in {"cycle", "reset"}
    BY <1>2 DEF MosCycle
  <2> QED
    BY <1>1, <1>3, <1>4, <2>1, TagPlaces DEF MosAdvanced, MosCounts, MosTyped, MosService
<1>6. MosService => Len(mosTodo) # 3
  BY <1>4, <1>5, Zenon DEF MosCounts
<1>7. MosWaits' /\ mosNmi' \in BOOLEAN /\ mosOwed' \in Nat
  BY <1>1, <1>2, <1>3, <1>6, LatchWaits
<1>8. MosTyped' /\ MosShape'
  BY <1>1, <1>2, <1>3, <1>7, MosCycleKeeps, MosSampledTyped DEF MosTyped
<1>9. ASSUME mosMode = "polling" PROVE MosFlag' /\ MosNmiSampled' /\ MosIrqSampled'
  <2>1. MosFlag /\ MosNmiSampled /\ MosIrqSampled
    BY <1>1, <1>9 DEF MosPolls
  <2>2. MosFlag'
    BY <1>1, <1>2, <1>3, <1>4, <2>1, MosFlagKept
  <2>3. MosNmiSampled'
    BY <1>1, <1>2, <1>3, <1>4, <1>5, <1>9, <2>1, PolledNmi
  <2>4. MosIrqSampled'
    BY <1>1, <1>2, <1>3, <1>4, <1>5, <1>9, <2>1, PolledIrq
  <2> QED
    BY <2>2, <2>3, <2>4
<1> QED
  BY <1>3, <1>7, <1>8, <1>9 DEF MosInv, MosAdvanced

LEMMA KeepCycleKeeps ==
  ASSUME MosInv, NEW nmi \in BOOLEAN, NEW irq \in BOOLEAN, KeepCycle(nmi, irq)
  PROVE  MosInv'
<1>1. MosTyped /\ MosShape /\ MosWaits /\ MosPolls
  BY DEF MosInv, MosPolls
<1>2. /\ MosCycle({"keep"}, nmi, irq) /\ Latch(nmi)
      /\ mosPoll' = Sampled(nmi, irq) /\ mosI' = mosI /\ mosKept' = Sampled(nmi, irq)[1]
  BY DEF KeepCycle
<1>3. MosAdvanced(nmi, irq)
  BY <1>1, <1>2, MosCycleAdvances
<1>4. MosCounts
  BY <1>1, <1>3, MosCounting
<1>5. ~MosService /\ mosKind # "rti" /\ (mosKind = "near" => Len(mosTodo') = 2)
  <2>1. Head(mosTodo) = "keep"
    BY <1>2 DEF MosCycle
  <2>2. mosKind = "plain" \/ (mosKind = "near" /\ Len(mosTodo') >= 2)
    BY <1>1, <1>3, <1>4, <2>1, TagPlaces DEF MosAdvanced, MosCounts, MosTyped
  <2>3. mosKind = "near" => Len(mosTodo') = 2
    BY <1>4, <2>2, Zenon DEF MosCounts
  <2> QED
    BY <2>2, <2>3 DEF MosService
<1>7. MosWaits' /\ mosNmi' \in BOOLEAN /\ mosOwed' \in Nat
  BY <1>1, <1>2, <1>3, <1>5, LatchWaits
<1>8. MosTyped' /\ MosShape'
  BY <1>1, <1>2, <1>3, <1>7, MosCycleKeeps, MosSampledTyped DEF MosTyped
<1>9. ASSUME mosMode = "polling" PROVE MosFlag' /\ MosNmiSampled' /\ MosIrqSampled'
  <2>1. MosFlag /\ MosNmiSampled /\ MosIrqSampled
    BY <1>1, <1>9 DEF MosPolls
  <2>2. MosFlag'
    BY <1>1, <1>2, <1>3, <1>4, <2>1, MosFlagKept
  <2>3. MosNmiSampled'
    BY <1>1, <1>2, <1>3, <1>4, <1>5, <1>9, <2>1, PolledNmi
  <2>4. MosIrqSampled'
    <3>1. mosKind = "near" => Len(mosTodo') # 0 /\ Len(mosTodo') # 1
      BY <1>5
    <3> QED
      BY <1>1, <1>2, <1>3, <1>4, <1>5, <1>9, <2>1, <3>1, PolledIrq
  <2> QED
    BY <2>2, <2>3, <2>4
<1> QED
  BY <1>3, <1>7, <1>8, <1>9 DEF MosInv, MosAdvanced

LEMMA RestoreCycleKeeps ==
  ASSUME MosInv, NEW nmi \in BOOLEAN, NEW irq \in BOOLEAN, RestoreCycle(nmi, irq)
  PROVE  MosInv'
<1>1. MosTyped /\ MosShape /\ MosWaits /\ MosPolls
  BY DEF MosInv, MosPolls
<1>2. /\ MosCycle({"restore"}, nmi, irq) /\ Latch(nmi)
      /\ mosPoll' = (IF mosMode = "polling" THEN <<Sampled(nmi, irq)[1], mosKept>> ELSE mosPoll)
      /\ mosI' = mosI /\ mosKept' = MosQuiet
  BY DEF RestoreCycle
<1>3. MosAdvanced(nmi, irq)
  BY <1>1, <1>2, MosCycleAdvances
<1>4. MosCounts
  BY <1>1, <1>3, MosCounting
<1>5. mosKind = "near" /\ Len(mosTodo') = 0 /\ ~MosService
  <2>1. Head(mosTodo) = "restore"
    BY <1>2 DEF MosCycle
  <2> QED
    BY <1>1, <1>3, <1>4, <2>1, TagPlaces DEF MosAdvanced, MosCounts, MosTyped, MosService
<1>7. MosWaits' /\ mosNmi' \in BOOLEAN /\ mosOwed' \in Nat
  BY <1>1, <1>2, <1>3, <1>5, LatchWaits
<1>8. MosTyped' /\ MosShape'
  <2>1. Sampled(nmi, irq)[1] \in LineSample /\ MosQuiet \in LineSample
    BY <1>1, MosSampledTyped DEF MosQuiet, LineSample
  <2> QED
    BY <1>1, <1>2, <1>3, <1>7, <2>1, MosCycleKeeps DEF MosTyped
<1>9. ASSUME mosMode = "polling" PROVE MosFlag' /\ MosNmiSampled' /\ MosIrqSampled'
  <2>1. MosFlag /\ MosNmiSampled /\ MosIrqSampled
    BY <1>1, <1>9 DEF MosPolls
  <2>2. MosFlag'
    BY <1>1, <1>2, <1>3, <1>4, <2>1, MosFlagKept
  <2>3. mosPoll'[1] = Sampled(nmi, irq)[1] /\ mosPoll'[2] = mosKept
    BY <1>2, <1>9
  <2>4. /\ Sampled(nmi, irq)[1].nmi = nmi /\ (Sampled(nmi, irq)[1].irq <=> (irq /\ ~mosI))
    BY <1>1, <1>9, MosSampledTyped
  <2>5. Len(mosTodo) = 1 /\ Len(mosLines) >= 1 /\ mosLines'[1] = mosLines[1] /\ mosTodo' = <<>>
    BY <1>3, <1>4, <1>5 DEF MosCounts, MosAdvanced
  <2>6. mosKept.nmi = mosLines[1].nmi /\ SampledWithout(mosKept, mosLines[1], mosStartI)
        /\ (mosI <=> mosStartI)
    BY <1>5, <2>1, <2>5 DEF MosNmiSampled, MosIrqSampled, MosFlag
  <2>7. /\ mosLines'[Len(mosLines')].nmi = nmi /\ (mosLines'[Len(mosLines')].irq <=> irq)
        /\ mosKind' = mosKind /\ (mosStartI' <=> mosStartI) /\ (MosService' <=> MosService)
    BY <1>3 DEF MosAdvanced, MosService
  <2>8. MosNmiSampled'
    BY <1>5, <2>3, <2>4, <2>5, <2>6, <2>7 DEF MosNmiSampled
  <2>9. MosIrqSampled'
    BY <1>5, <2>3, <2>4, <2>5, <2>6, <2>7 DEF MosIrqSampled, SampledWithout
  <2> QED
    BY <2>2, <2>8, <2>9
<1> QED
  BY <1>3, <1>7, <1>8, <1>9 DEF MosInv, MosAdvanced

LEMMA FlagCycleKeeps ==
  ASSUME MosInv, NEW nmi \in BOOLEAN, NEW irq \in BOOLEAN, FlagCycle(nmi, irq)
  PROVE  MosInv'
<1>1. MosTyped /\ MosShape /\ MosWaits /\ MosPolls
  BY DEF MosInv, MosPolls
<1>2. /\ MosCycle({"clear", "set"}, nmi, irq) /\ Latch(nmi)
      /\ mosPoll' = Sampled(nmi, irq) /\ mosI' \in BOOLEAN /\ mosKept' = mosKept
  BY DEF FlagCycle
<1>3. MosAdvanced(nmi, irq)
  BY <1>1, <1>2, MosCycleAdvances
<1>4. MosCounts
  BY <1>1, <1>3, MosCounting
<1>5. (mosKind = "flag" /\ Len(mosTodo') = 0) \/ (mosKind = "rti" /\ Len(mosTodo') = 2)
  <2>1. Head(mosTodo) \in {"clear", "set"}
    BY <1>2 DEF MosCycle
  <2> QED
    BY <1>1, <1>3, <1>4, <2>1, TagPlaces DEF MosAdvanced, MosCounts, MosTyped
<1>6. ~MosService /\ mosKind # "near" /\ (mosKind = "rti" => ~(Len(mosTodo') <= 1))
  BY <1>4, <1>5 DEF MosService, MosCounts
<1>7. MosWaits' /\ mosNmi' \in BOOLEAN /\ mosOwed' \in Nat
  BY <1>1, <1>2, <1>3, <1>6, LatchWaits
<1>8. MosTyped' /\ MosShape'
  BY <1>1, <1>2, <1>3, <1>7, MosCycleKeeps, MosSampledTyped DEF MosTyped
<1>9. ASSUME mosMode = "polling" PROVE MosFlag' /\ MosNmiSampled' /\ MosIrqSampled'
  <2>1. MosFlag /\ MosNmiSampled /\ MosIrqSampled
    BY <1>1, <1>9 DEF MosPolls
  <2>2. MosFlag'
    BY <1>3, <1>5 DEF MosFlag, MosAdvanced
  <2>3. MosNmiSampled'
    BY <1>1, <1>2, <1>3, <1>4, <1>6, <1>9, <2>1, PolledNmi
  <2>4. MosIrqSampled'
    BY <1>1, <1>2, <1>3, <1>4, <1>6, <1>9, <2>1, PolledIrq
  <2> QED
    BY <2>2, <2>3, <2>4
<1> QED
  BY <1>3, <1>7, <1>8, <1>9 DEF MosInv, MosAdvanced

LEMMA PushFlagsKeeps ==
  ASSUME MosInv, NEW nmi \in BOOLEAN, NEW irq \in BOOLEAN, PushFlags(nmi, irq)
  PROVE  MosInv'
<1>1. MosTyped /\ MosShape /\ MosWaits /\ MosPolls
  BY DEF MosInv, MosPolls
<1>2. /\ MosCycle({"pushFlags"}, nmi, irq)
      /\ mosPoll' = Sampled(nmi, irq) /\ mosI' = TRUE /\ mosKept' = mosKept
  BY DEF PushFlags
<1>3. MosAdvanced(nmi, irq)
  BY <1>1, <1>2, MosCycleAdvances
<1>4. MosCounts
  BY <1>1, <1>3, MosCounting
<1>5. MosService /\ Len(mosTodo') = 2 /\ Len(mosTodo) = 3 /\ (MosService' <=> MosService)
  <2>1. Head(mosTodo) = "pushFlags"
    BY <1>2 DEF MosCycle
  <2>2. mosKind \in {"nmi", "irq", "brk"} /\ Len(mosTodo') = 2
    BY <1>1, <1>3, <1>4, <2>1, TagPlaces DEF MosAdvanced, MosCounts, MosTyped
  <2> QED
    BY <1>3, <1>4, <2>2, Zenon DEF MosCounts, MosAdvanced, MosService
<1>6. mosKind \notin {"plain", "flag", "rti", "near", "reset"} /\ mosKind' = mosKind
      /\ mosMode' = mosMode
  BY <1>3, <1>5 DEF MosService, MosAdvanced
<1>7. /\ mosNmi \in BOOLEAN /\ mosOwed \in Nat /\ (mosNmi <=> mosOwed > 0) /\ (mosNmi => nmi)
      /\ mosOwed <= (IF mosMode = "polling" THEN 2 ELSE 1)
  BY <1>1, <1>3 DEF MosTyped, MosWaits, MosAdvanced
<1>8. ASSUME mosOwed = 2 PROVE mosMode = "polling" /\ mosKind # "nmi" /\ mosPoll'[2].nmi
  <2>1. mosMode = "polling"
    BY <1>7, <1>8
  <2>2. mosKind # "nmi" /\ \A k \in 1 .. Len(mosLines) : mosLines[k].nmi
    BY <1>1, <1>5, <1>8 DEF MosWaits
  <2>3. Len(mosLines) \in Nat /\ Len(mosLines) >= 1
    <3>1. Len(mosLines) = 3 \/ Len(mosTodo) + Len(mosLines) >= 6
      BY <1>1, <1>5 DEF MosShape
    <3>2. Len(mosLines) \in Nat /\ Len(mosTodo) = 3
      BY <1>3, <1>5 DEF MosAdvanced
    <3> QED
      BY <3>1, <3>2
  <2>4. mosPoll[1].nmi = mosLines[Len(mosLines)].nmi
    BY <1>1, <1>4, <2>1, <2>3 DEF MosPolls, MosNmiSampled, MosCounts
  <2>5. mosPoll'[2] = mosPoll[1]
    BY <1>1, <1>2, <2>1, MosSampledTyped
  <2>6. Len(mosLines) \in 1 .. Len(mosLines)
    BY <2>3
  <2> QED
    BY <2>1, <2>2, <2>4, <2>5, <2>6
<1>9. /\ mosNmi' \in BOOLEAN /\ mosOwed' \in Nat /\ (mosNmi' <=> mosOwed' > 0) /\ mosOwed' <= 1
  <2>1. CASE mosMode = "polling" /\ mosKind # "nmi" /\ mosPoll'[2].nmi
    <3>1. mosNmi' = FALSE /\ mosOwed' = 0
      BY <2>1, Zenon DEF PushFlags
    <3>2. mosNmi' \in BOOLEAN /\ ~mosNmi' /\ mosOwed' = 0
      BY <3>1, Zenon
    <3> QED
      BY <3>2
  <2>2. CASE ~(mosMode = "polling" /\ mosKind # "nmi" /\ mosPoll'[2].nmi)
    <3>1. Latch(nmi)
      BY <2>2 DEF PushFlags
    <3>2. mosOwed # 2
      BY <1>8, <2>2
    <3> QED
      BY <1>7, <3>1, <3>2 DEF Latch
  <2> QED
    BY <2>1, <2>2
<1>10. MosWaits'
  <2>1. mosOwed' # 2 /\ mosOwed' <= (IF mosMode' = "polling" THEN 2 ELSE 1)
    BY <1>9
  <2> QED
    BY <1>5, <1>9, <2>1 DEF MosWaits
<1>11. MosTyped' /\ MosShape'
  BY <1>1, <1>2, <1>3, <1>9, MosCycleKeeps, MosSampledTyped DEF MosTyped
<1>12. ASSUME mosMode = "polling" PROVE MosFlag' /\ MosNmiSampled' /\ MosIrqSampled'
  <2>1. MosNmiSampled /\ MosFlag /\ MosIrqSampled
    BY <1>1, <1>12 DEF MosPolls
  <2>2. MosNmiSampled'
    BY <1>1, <1>2, <1>3, <1>4, <1>5, <1>6, <1>12, <2>1, PolledNmi
  <2>3. MosIrqSampled' /\ MosFlag'
    BY <1>6 DEF MosIrqSampled, MosFlag
  <2> QED
    BY <2>2, <2>3
<1> QED
  BY <1>6, <1>10, <1>11, <1>12 DEF MosInv

LEMMA LastOfServiceKeeps ==
  ASSUME MosInv, NEW nmi \in BOOLEAN, NEW irq \in BOOLEAN, LastOfService(nmi, irq)
  PROVE  MosInv'
<1>1. MosTyped /\ MosShape /\ MosWaits /\ MosPolls
  BY DEF MosInv, MosPolls
<1>2. /\ MosCycle({"vector"}, nmi, irq) /\ Latch(nmi)
      /\ mosPoll' = (IF mosMode = "polling" THEN NoPoll ELSE mosPoll)
      /\ mosI' = mosI /\ mosKept' = mosKept
  BY DEF LastOfService
<1>3. MosAdvanced(nmi, irq)
  BY <1>1, <1>2, MosCycleAdvances
<1>4. MosCounts
  BY <1>1, <1>3, MosCounting
<1>5. MosService /\ Len(mosTodo') = 0
  <2>1. Head(mosTodo) = "vector"
    BY <1>2 DEF MosCycle
  <2> QED
    BY <1>1, <1>3, <1>4, <2>1, TagPlaces DEF MosAdvanced, MosCounts, MosTyped, MosService
<1>6. mosKind \notin {"plain", "flag", "rti", "near", "reset"} /\ mosKind' = mosKind
      /\ mosMode' = mosMode
  BY <1>3, <1>5 DEF MosService, MosAdvanced
<1>7. MosWaits' /\ mosNmi' \in BOOLEAN /\ mosOwed' \in Nat
  <2>1. Len(mosTodo) # 3
    BY <1>4, <1>5 DEF MosCounts
  <2> QED
    BY <1>1, <1>2, <1>3, <2>1, LatchWaits
<1>8. MosTyped' /\ MosShape'
  <2>1. NoPoll \in LineSample \X LineSample
    BY DEF NoPoll, MosQuiet, LineSample
  <2> QED
    BY <1>1, <1>2, <1>3, <1>7, <2>1, MosCycleKeeps DEF MosTyped
<1>9. ASSUME mosMode = "polling" PROVE MosFlag' /\ MosNmiSampled' /\ MosIrqSampled'
  <2>1. mosPoll' = NoPoll /\ mosTodo' = <<>> /\ MosService'
    BY <1>2, <1>4, <1>5, <1>6, <1>9 DEF MosCounts, MosService
  <2> QED
    BY <1>6, <2>1 DEF MosFlag, MosNmiSampled, MosIrqSampled
<1> QED
  BY <1>6, <1>7, <1>8, <1>9 DEF MosInv

----------------------------------------------------------------------------
\* The sequences that begin.

\* todo may begin as a sequence of that kind.
MosBegins(kind, todo) ==
  /\ kind \in MosKinds /\ ShapedAs(kind, todo) /\ Len(todo) \in Nat /\ Len(todo) >= 2
  /\ kind = "near" => Len(todo) = 3
  /\ kind \in {"nmi", "irq", "brk"} => Len(todo) >= 6

LEMMA CyclesOf ==
  ASSUME NEW n \in Nat
  PROVE  Cycles(n) \in Seq(MosTags) /\ Len(Cycles(n)) = n /\ \A k \in 1 .. n : Cycles(n)[k] = "cycle"
BY DEF Cycles, MosTags

LEMMA ServiceBegins ==
  ASSUME NEW kind \in {"nmi", "irq"}
  PROVE  MosBegins(kind, ServiceCycles) /\ ServiceCycles \in Seq(MosTags) /\ Len(ServiceCycles) = 7
         /\ ServiceCycles[7] = "vector" /\ ServiceCycles[5] = "pushFlags"
         /\ \A k \in {1, 2, 3, 4, 6} : ServiceCycles[k] = "cycle"
<1> DEFINE last == <<"pushFlags", "cycle", "vector">>
<1>1. /\ Cycles(4) \in Seq(MosTags) /\ Len(Cycles(4)) = 4
      /\ \A k \in 1 .. 4 : Cycles(4)[k] = "cycle"
  BY CyclesOf
<1>2. last \in Seq(MosTags) /\ Len(last) = 3 /\ last[1] = "pushFlags" /\ last[2] = "cycle"
      /\ last[3] = "vector"
  BY DEF MosTags
<1>3. ServiceCycles = Cycles(4) \o last
  BY DEF ServiceCycles
<1> HIDE DEF last
<1>4. /\ ServiceCycles \in Seq(MosTags) /\ Len(ServiceCycles) = 7
      /\ \A i \in 1 .. 7 : ServiceCycles[i] = IF i <= 4 THEN Cycles(4)[i] ELSE last[i - 4]
  <2>1. /\ ServiceCycles \in Seq(MosTags) /\ Len(ServiceCycles) = Len(Cycles(4)) + Len(last)
        /\ \A i \in 1 .. Len(Cycles(4)) + Len(last) :
             ServiceCycles[i] = IF i <= Len(Cycles(4)) THEN Cycles(4)[i] ELSE last[i - Len(Cycles(4))]
    BY <1>1, <1>2, <1>3, ConcatProperties, Zenon
  <2> QED
    BY <1>1, <1>2, <2>1
<1>5. /\ ServiceCycles[7] = "vector" /\ ServiceCycles[5] = "pushFlags"
      /\ \A k \in {1, 2, 3, 4, 6} : ServiceCycles[k] = "cycle"
  BY <1>1, <1>2, <1>4
<1>6. ASSUME NEW k \in 1 .. 7 PROVE ServiceCycles[k] \in TagsAt(kind, 7 - k)
  <2>1. k \in {1, 2, 3, 4, 6} \/ k = 5 \/ k = 7
    OBVIOUS
  <2> QED
    BY <1>5, <2>1 DEF TagsAt
<1> QED
  BY <1>4, <1>5, <1>6 DEF MosBegins, ShapedAs, MosKinds

LEMMA ParallelConcat ==
  ASSUME NEW a \in Seq(MosTags), NEW b \in Seq(MosTags)
  PROVE  /\ a \o b \in Seq(MosTags) /\ Len(a \o b) = Len(a) + Len(b)
         /\ \A i \in 1 .. Len(a) + Len(b) : (a \o b)[i] = IF i <= Len(a) THEN a[i] ELSE b[i - Len(a)]
BY ConcatProperties, Zenon

\* n cycles and then one that does something to the flags.
LEMMA ThenOne ==
  ASSUME NEW n \in Nat, NEW t \in MosTags
  PROVE  /\ Cycles(n) \o <<t>> \in Seq(MosTags) /\ Len(Cycles(n) \o <<t>>) = n + 1
         /\ \A k \in 1 .. (n + 1) : (Cycles(n) \o <<t>>)[k] = IF k <= n THEN "cycle" ELSE t
<1>1. Cycles(n) \in Seq(MosTags) /\ Len(Cycles(n)) = n /\ \A k \in 1 .. n : Cycles(n)[k] = "cycle"
  BY CyclesOf
<1>2. <<t>> \in Seq(MosTags) /\ Len(<<t>>) = 1 /\ <<t>>[1] = t
  OBVIOUS
<1> DEFINE a == Cycles(n)
           b == <<t>>
<1> HIDE DEF a, b
<1>3. /\ a \o b \in Seq(MosTags) /\ Len(a \o b) = Len(a) + Len(b)
      /\ \A i \in 1 .. Len(a) + Len(b) : (a \o b)[i] = IF i <= Len(a) THEN a[i] ELSE b[i - Len(a)]
  BY <1>1, <1>2, ParallelConcat, Zenon DEF a, b
<1>4. Len(a) = n /\ (\A k \in 1 .. n : a[k] = "cycle") /\ Len(b) = 1 /\ b[1] = t
  BY <1>1, <1>2 DEF a, b
<1>5. /\ a \o b \in Seq(MosTags) /\ Len(a \o b) = n + 1
      /\ \A k \in 1 .. (n + 1) : (a \o b)[k] = IF k <= n THEN "cycle" ELSE t
  BY <1>3, <1>4
<1> QED
  BY <1>5 DEF a, b

\* Every instruction begins as its kind does.
LEMMA InstructionsBegin ==
  ASSUME NEW insn \in MosInstructions
  PROVE  MosBegins(insn.kind, insn.todo) /\ insn.kind \notin {"nmi", "irq", "reset"}
         /\ insn.todo # <<>>
<1>1. CASE insn \in {[kind |-> "plain", todo |-> Cycles(n + 1)] : n \in PlainLengths}
  <2>1. PICK n \in PlainLengths : insn = [kind |-> "plain", todo |-> Cycles(n + 1)]
    BY <1>1
  <2>2. n \in Nat /\ n >= 1
    <3>1. \A m \in DOMAIN AddressCycles : AddressCycles[m] \in Nat
          /\ (m # "imm" => AddressCycles[m] >= 1)
      BY DEF AddressCycles
    <3> HIDE DEF AddressCycles
    <3>2. CASE n \in {ReadCycles(m, x) : m \in DOMAIN AddressCycles, x \in BOOLEAN}
      BY <3>1, <3>2 DEF ReadCycles
    <3>3. CASE n \in {StoreCycles(m) : m \in DOMAIN AddressCycles \ {"imm"}}
      BY <3>1, <3>3 DEF StoreCycles
    <3>4. CASE n \in {ModifyCycles(m) : m \in DOMAIN AddressCycles \ {"imm"}}
      BY <3>1, <3>4 DEF ModifyCycles
    <3>5. CASE n \in OtherCycles
      BY <3>5 DEF OtherCycles
    <3> QED
      BY <3>2, <3>3, <3>4, <3>5 DEF PlainLengths
  <2>3. /\ Cycles(n + 1) \in Seq(MosTags) /\ Len(Cycles(n + 1)) = n + 1
        /\ \A k \in 1 .. (n + 1) : Cycles(n + 1)[k] = "cycle"
    BY <2>2, CyclesOf
  <2>4. insn.kind = "plain" /\ insn.todo = Cycles(n + 1)
    BY <2>1
  <2> QED
    BY <2>2, <2>3, <2>4 DEF MosBegins, ShapedAs, TagsAt, MosKinds
<1>2. CASE insn \in {[kind |-> "flag", todo |-> <<"cycle", t>>] : t \in {"clear", "set"}}
  <2>1. PICK t \in {"clear", "set"} : insn = [kind |-> "flag", todo |-> <<"cycle", t>>]
    BY <1>2
  <2>2. insn.kind = "flag" /\ insn.todo = <<"cycle", t>>
    BY <2>1
  <2> DEFINE s == <<"cycle", t>>
  <2>3. s \in Seq(MosTags) /\ Len(s) = 2 /\ s[1] = "cycle" /\ s[2] \in {"clear", "set"}
    BY DEF MosTags
  <2> HIDE DEF s
  <2>4. \A k \in 1 .. 2 : s[k] \in TagsAt("flag", 2 - k)
    BY <2>3 DEF TagsAt
  <2> QED
    BY <2>2, <2>3, <2>4 DEF MosBegins, ShapedAs, MosKinds, s
<1>3. CASE insn \in {[kind |-> "flag", todo |-> Cycles(3) \o <<t>>] : t \in {"clear", "set"}}
  <2>1. PICK t \in {"clear", "set"} : insn = [kind |-> "flag", todo |-> Cycles(3) \o <<t>>]
    BY <1>3
  <2>2. insn.kind = "flag" /\ insn.todo = Cycles(3) \o <<t>>
    BY <2>1
  <2> DEFINE s == Cycles(3) \o <<t>>
  <2>3. s \in Seq(MosTags) /\ Len(s) = 4 /\ \A k \in 1 .. 4 : s[k] = IF k <= 3 THEN "cycle" ELSE t
    <3>1. t \in MosTags
      BY DEF MosTags
    <3>2. /\ Cycles(3) \o <<t>> \in Seq(MosTags) /\ Len(Cycles(3) \o <<t>>) = 3 + 1
          /\ \A k \in 1 .. (3 + 1) : (Cycles(3) \o <<t>>)[k] = IF k <= 3 THEN "cycle" ELSE t
      <4>1. 3 \in Nat
        OBVIOUS
      <4> QED
        BY <3>1, <4>1, ThenOne, Zenon
    <3> QED
      BY <3>2
  <2> HIDE DEF s
  <2>4. \A k \in 1 .. 4 : s[k] \in TagsAt("flag", 4 - k)
    BY <2>3 DEF TagsAt
  <2> QED
    BY <2>2, <2>3, <2>4 DEF MosBegins, ShapedAs, MosKinds, s
<1>4. CASE insn \in {[kind |-> "rti", todo |-> Cycles(3) \o <<t>> \o Cycles(2)] : t \in {"clear", "set"}}
  <2>1. PICK t \in {"clear", "set"} : insn = [kind |-> "rti", todo |-> Cycles(3) \o <<t>> \o Cycles(2)]
    BY <1>4
  <2> DEFINE a == Cycles(3) \o <<t>>
             b == Cycles(2)
             s == a \o b
  <2>2. insn.kind = "rti" /\ insn.todo = s
    BY <2>1
  <2>3. a \in Seq(MosTags) /\ Len(a) = 4 /\ \A k \in 1 .. 4 : a[k] = IF k <= 3 THEN "cycle" ELSE t
    <3>1. t \in MosTags
      BY DEF MosTags
    <3>2. /\ Cycles(3) \o <<t>> \in Seq(MosTags) /\ Len(Cycles(3) \o <<t>>) = 3 + 1
          /\ \A k \in 1 .. (3 + 1) : (Cycles(3) \o <<t>>)[k] = IF k <= 3 THEN "cycle" ELSE t
      <4>1. 3 \in Nat
        OBVIOUS
      <4> QED
        BY <3>1, <4>1, ThenOne, Zenon
    <3> QED
      BY <3>2
  <2>4. b \in Seq(MosTags) /\ Len(b) = 2 /\ \A k \in 1 .. 2 : b[k] = "cycle"
    BY CyclesOf
  <2> HIDE DEF a, b
  <2>5. /\ s \in Seq(MosTags) /\ Len(s) = Len(a) + Len(b)
        /\ \A i \in 1 .. Len(a) + Len(b) : s[i] = IF i <= Len(a) THEN a[i] ELSE b[i - Len(a)]
    BY <2>3, <2>4, ParallelConcat, Zenon
  <2> HIDE DEF s
  <2>6. Len(s) = 6 /\ \A k \in 1 .. 6 : s[k] = IF k = 4 THEN t ELSE "cycle"
    BY <2>3, <2>4, <2>5
  <2>7. \A k \in 1 .. 6 : s[k] \in TagsAt("rti", 6 - k)
    BY <2>6 DEF TagsAt
  <2>8. ShapedAs("rti", s)
    BY <2>5, <2>6, <2>7 DEF ShapedAs
  <2> QED
    BY <2>2, <2>6, <2>8 DEF MosBegins, MosKinds
<1>5. CASE insn \in {[kind |-> "plain", todo |-> <<"keep">> \o Cycles(n)] : n \in {1, 3}}
  <2>1. PICK n \in {1, 3} : insn = [kind |-> "plain", todo |-> <<"keep">> \o Cycles(n)]
    BY <1>5
  <2> DEFINE a == <<"keep">>
             b == Cycles(n)
             s == a \o b
  <2>2. insn.kind = "plain" /\ insn.todo = s
    BY <2>1
  <2>3. a \in Seq(MosTags) /\ Len(a) = 1 /\ a[1] = "keep"
    BY DEF MosTags
  <2>4. b \in Seq(MosTags) /\ Len(b) = n /\ \A k \in 1 .. n : b[k] = "cycle"
    BY CyclesOf
  <2> HIDE DEF a, b
  <2>5. /\ s \in Seq(MosTags) /\ Len(s) = Len(a) + Len(b)
        /\ \A i \in 1 .. Len(a) + Len(b) : s[i] = IF i <= Len(a) THEN a[i] ELSE b[i - Len(a)]
    BY <2>3, <2>4, ParallelConcat, Zenon
  <2> HIDE DEF s
  <2>6. Len(s) = n + 1 /\ \A k \in 1 .. (n + 1) : s[k] \in {"cycle", "keep"}
    BY <2>3, <2>4, <2>5
  <2> QED
    BY <2>2, <2>5, <2>6 DEF MosBegins, ShapedAs, MosKinds, TagsAt
<1>6. CASE insn \in {[kind |-> "near", todo |-> <<"keep", "cycle", "restore">>]}
  <2>1. insn.kind = "near" /\ insn.todo = <<"keep", "cycle", "restore">>
    BY <1>6
  <2> DEFINE s == <<"keep", "cycle", "restore">>
  <2>2. s \in Seq(MosTags) /\ Len(s) = 3 /\ s[1] = "keep" /\ s[2] = "cycle" /\ s[3] = "restore"
    BY DEF MosTags
  <2> HIDE DEF s
  <2>3. \A k \in 1 .. 3 : s[k] \in TagsAt("near", 3 - k)
    BY <2>2 DEF TagsAt
  <2> QED
    BY <2>1, <2>2, <2>3 DEF MosBegins, ShapedAs, MosKinds, s
<1>7. CASE insn \in {[kind |-> "brk", todo |-> Cycles(2) \o ServiceCycles]}
  <2> DEFINE a == Cycles(2)
             b == ServiceCycles
             s == a \o b
  <2>1. insn.kind = "brk" /\ insn.todo = s
    BY <1>7
  <2>2. a \in Seq(MosTags) /\ Len(a) = 2 /\ \A k \in 1 .. 2 : a[k] = "cycle"
    BY CyclesOf
  <2>3. /\ b \in Seq(MosTags) /\ Len(b) = 7 /\ b[7] = "vector" /\ b[5] = "pushFlags"
        /\ \A k \in {1, 2, 3, 4, 6} : b[k] = "cycle"
    BY ServiceBegins
  <2> HIDE DEF a, b
  <2>4. /\ s \in Seq(MosTags) /\ Len(s) = Len(a) + Len(b)
        /\ \A i \in 1 .. Len(a) + Len(b) : s[i] = IF i <= Len(a) THEN a[i] ELSE b[i - Len(a)]
    BY <2>2, <2>3, ParallelConcat, Zenon
  <2> HIDE DEF s
  <2>5. Len(s) = 9
        /\ \A k \in 1 .. 9 : s[k] = IF k = 9 THEN "vector" ELSE IF k = 7 THEN "pushFlags" ELSE "cycle"
    BY <2>2, <2>3, <2>4
  <2>6. \A k \in 1 .. 9 : s[k] \in TagsAt("brk", 9 - k)
    BY <2>5 DEF TagsAt
  <2>7. ShapedAs("brk", s)
    BY <2>4, <2>5, <2>6 DEF ShapedAs
  <2> QED
    BY <2>1, <2>5, <2>7 DEF MosBegins, MosKinds
<1> QED
  BY <1>1, <1>2, <1>3, <1>4, <1>5, <1>6, <1>7 DEF MosInstructions

LEMMA ThreeIsPast ==
  ASSUME NEW n, n = 3
  PROVE  n \notin {1, 2}
OBVIOUS

LEMMA MosBeginning ==
  ASSUME MosTyped, NEW kind, NEW todo, MosBegins(kind, todo),
         mosTodo' = todo, mosKind' = kind, mosLines' = <<>>, mosMode' = mosMode,
         mosPoll' = mosPoll, mosKept' = mosKept, mosIrq' \in BOOLEAN, mosNmi' \in BOOLEAN,
         mosI' \in BOOLEAN, mosStartI' \in BOOLEAN, mosOwed' \in Nat,
         mosI' <=> mosStartI', kind = "reset" => mosI',
         mosNmi' <=> mosOwed' > 0, mosOwed' <= (IF mosMode = "polling" THEN 2 ELSE 1),
         mosOwed' = 2 => kind # "nmi"
  PROVE  MosInv'
<1>1. /\ todo \in Seq(MosTags) /\ ShapedAs(kind, todo) /\ kind \in MosKinds /\ Len(todo) \in Nat
      /\ Len(todo) >= 2
      /\ kind = "near" => Len(todo) = 3
      /\ kind \in {"nmi", "irq", "brk"} => Len(todo) >= 6
  BY DEF MosBegins, ShapedAs
<1>2. mosLines' \in Seq(LineSample) /\ Len(mosLines') = 0
  OBVIOUS
<1>3. MosTyped'
  BY <1>1, <1>2 DEF MosTyped
<1>4. MosShape'
  BY <1>1, <1>2 DEF MosShape, MosService
<1>5. MosWaits'
  <2>1. \A k \in 1 .. Len(mosLines') : FALSE
    BY <1>2
  <2>2. MosService' => Len(mosTodo') >= 6
    BY <1>1 DEF MosService
  <2>3. MosService' => Len(mosTodo') >= 3
    BY <1>1, <2>2
  <2> QED
    BY <2>1, <2>3 DEF MosWaits
<1>6. todo # <<>> /\ ~(Len(todo) = 0) /\ ~(Len(todo) <= 1)
  BY <1>1
<1>7. MosFlag'
  BY <1>1 DEF MosFlag
<1>8. MosNmiSampled'
  <2>1. kind = "near" => Len(todo) \notin {1, 2}
    BY <1>1, ThreeIsPast, Zenon
  <2> QED
    BY <1>1, <1>2, <1>6, <2>1 DEF MosNmiSampled
<1>9. MosIrqSampled'
  <2>1. kind = "near" => Len(todo) \notin {1, 2}
    BY <1>1, ThreeIsPast, Zenon
  <2> QED
    BY <1>1, <1>2, <1>6, <2>1 DEF MosIrqSampled
<1> QED
  BY <1>3, <1>4, <1>5, <1>7, <1>8, <1>9 DEF MosInv

\* At a boundary of a polling core, an NMI that has waited for one is taken,
\* and so is one that the deciding cycle saw.
LEMMA AtBoundary ==
  ASSUME MosInv, mosTodo = <<>>, mosMode = "polling"
  PROVE  /\ TakesNmi <=> ~MosService /\ MosDeciding.nmi
         /\ TakesIrq <=> /\ ~MosService /\ ~MosDeciding.nmi /\ MosDeciding.irq
                         /\ ~(IF mosKind = "rti" THEN mosI ELSE mosStartI)
         /\ mosOwed = 2 => TakesNmi
<1>1. MosTyped /\ MosShape /\ MosWaits /\ MosFlag /\ MosNmiSampled /\ MosIrqSampled
  BY DEF MosInv
<1>2. /\ TakesNmi <=> mosNmi /\ mosPoll[2].nmi
      /\ TakesIrq <=> ~TakesNmi /\ mosPoll[2].irq
  BY DEF TakesNmi, TakesIrq
<1>3. Len(mosTodo) = 0 /\ Len(mosLines) \in Nat /\ Len(mosLines) >= 2 /\ Len(mosLines) <= 3
      /\ (mosKind = "near" => Len(mosLines) = 3)
  <2>1. Len(mosTodo) = 0 /\ Len(mosLines) \in Nat /\ Len(mosTodo) + Len(mosLines) >= 2
        /\ Len(mosLines) <= 3
        /\ (mosKind = "near" => Len(mosTodo) + Len(mosLines) = 3)
    BY <1>1 DEF MosTyped, MosShape
  <2> DEFINE l == Len(mosLines)
             n == Len(mosTodo)
  <2>2. n = 0 /\ l \in Nat /\ n + l >= 2 /\ l <= 3 /\ (mosKind = "near" => n + l = 3)
    BY <2>1
  <2> HIDE DEF l, n
  <2>3. n = 0 /\ l \in Nat /\ l >= 2 /\ l <= 3 /\ (mosKind = "near" => l = 3)
    BY <2>2
  <2> QED
    BY <2>3 DEF l, n
<1>4. CASE MosService
  <2>1. mosPoll = NoPoll
    BY <1>1, <1>4 DEF MosNmiSampled
  <2>2. ~mosPoll[2].nmi /\ ~mosPoll[2].irq
    BY <2>1 DEF NoPoll, MosQuiet
  <2>3. mosOwed # 2
    BY <1>1, <1>3, <1>4 DEF MosWaits
  <2> QED
    BY <1>2, <1>4, <2>2, <2>3
<1>5. CASE ~MosService
  <2> DEFINE d == IF mosKind = "near" THEN 1 ELSE Len(mosLines) - 1
  <2>1. d \in 1 .. Len(mosLines) /\ MosDeciding = mosLines[d]
    BY <1>3 DEF MosDeciding
  <2>2. mosPoll[2].nmi = mosLines[d].nmi
    BY <1>1, <1>3, <1>5 DEF MosNmiSampled
  <2>3. mosPoll[2].irq <=> (mosLines[d].irq /\ ~(IF mosKind = "rti" THEN mosI ELSE mosStartI))
    <3>1. mosKind \in {"plain", "flag", "rti", "near", "reset"}
      BY <1>1, <1>5 DEF MosTyped, MosKinds, MosService
    <3>2. CASE mosKind = "near"
      BY <1>1, <3>2 DEF MosIrqSampled, SampledWithout
    <3>3. CASE mosKind = "rti"
      BY <1>1, <1>3, <3>3 DEF MosIrqSampled, SampledWithout
    <3>4. CASE mosKind \in {"plain", "flag", "reset"}
      BY <1>1, <1>3, <3>4 DEF MosIrqSampled, SampledWithout
    <3> QED
      BY <3>1, <3>2, <3>3, <3>4
  <2> HIDE DEF d
  <2>4. mosLines[d].nmi => mosNmi
    BY <1>1, <1>5, <2>1 DEF MosWaits
  <2>5. mosOwed = 2 => mosLines[d].nmi
    BY <1>1, <2>1 DEF MosWaits
  <2>6. TakesNmi <=> mosLines[d].nmi
    BY <1>2, <2>2, <2>4
  <2> QED
    BY <1>2, <1>5, <2>1, <2>3, <2>5, <2>6
<1> QED
  BY <1>4, <1>5

LEMMA MosStepKeeps ==
  ASSUME MosInv, [MosNext]_mosVars
  PROVE  MosInv'
<1>1. MosTyped /\ MosWaits
  BY DEF MosInv
<1>2. /\ mosNmi \in BOOLEAN /\ mosIrq \in BOOLEAN /\ mosI \in BOOLEAN /\ mosOwed \in Nat
      /\ (mosNmi <=> mosOwed > 0) /\ mosOwed <= (IF mosMode = "polling" THEN 2 ELSE 1)
  BY <1>1 DEF MosTyped, MosWaits
<1>3. ASSUME NEW nmi \in BOOLEAN, NEW irq \in BOOLEAN,
             \/ PlainCycle(nmi, irq) \/ KeepCycle(nmi, irq) \/ RestoreCycle(nmi, irq)
             \/ FlagCycle(nmi, irq) \/ PushFlags(nmi, irq) \/ LastOfService(nmi, irq)
      PROVE  MosInv'
  BY <1>3, PlainCycleKeeps, KeepCycleKeeps, RestoreCycleKeeps, FlagCycleKeeps, PushFlagsKeeps,
     LastOfServiceKeeps
<1>4. ASSUME ServeNmi PROVE MosInv'
  <2>1. /\ mosTodo' = ServiceCycles /\ mosKind' = "nmi" /\ mosStartI' = mosI /\ mosLines' = <<>>
        /\ mosMode' = mosMode /\ mosI' = mosI /\ mosPoll' = mosPoll /\ mosKept' = mosKept
        /\ mosIrq' = mosIrq
    BY <1>4 DEF ServeNmi, MosBegin
  <2>2. mosNmi' \in BOOLEAN /\ ~mosNmi' /\ mosOwed' = 0
    BY <1>4 DEF ServeNmi
  <2>3. MosBegins("nmi", ServiceCycles)
    BY ServiceBegins
  <2>4. mosOwed' <= (IF mosMode = "polling" THEN 2 ELSE 1) /\ mosOwed' # 2
    BY <2>2
  <2> QED
    BY <1>1, <1>2, <2>1, <2>2, <2>3, <2>4, MosBeginning
\* What waits one boundary more.
<1>5. ASSUME mosTodo = <<>>, ~TakesNmi, mosMode # "noPins" PROVE mosOwed # 2
      /\ (mosMode # "polling" => mosOwed = 0)
  <2>1. mosMode = "polling" => mosOwed # 2
    BY <1>5, AtBoundary
  <2>2. mosMode # "polling" => ~mosNmi
    BY <1>5 DEF TakesNmi
  <2> QED
    BY <1>2, <2>1, <2>2
<1>6. ASSUME mosTodo = <<>>, ~TakesNmi, mosMode # "noPins", mosOwed' = IF mosOwed = 0 THEN 0 ELSE mosOwed + 1,
             mosNmi' = mosNmi
      PROVE  mosOwed' \in Nat /\ (mosNmi' <=> mosOwed' > 0)
            /\ mosOwed' <= (IF mosMode = "polling" THEN 2 ELSE 1)
  BY <1>2, <1>5, <1>6
<1>7. ASSUME ServeIrq PROVE MosInv'
  <2>1. /\ mosTodo = <<>> /\ mosTodo' = ServiceCycles /\ mosKind' = "irq" /\ mosStartI' = mosI
        /\ mosLines' = <<>>
        /\ mosMode' = mosMode /\ mosI' = mosI /\ mosPoll' = mosPoll /\ mosKept' = mosKept
        /\ mosIrq' = mosIrq /\ mosNmi' = mosNmi
    BY <1>7 DEF ServeIrq, MosBegin
  <2>2. ~TakesNmi /\ mosMode # "noPins" /\ mosOwed' = IF mosOwed = 0 THEN 0 ELSE mosOwed + 1
    BY <1>7 DEF ServeIrq, TakesIrq
  <2>3. mosOwed' \in Nat /\ (mosNmi' <=> mosOwed' > 0)
        /\ mosOwed' <= (IF mosMode = "polling" THEN 2 ELSE 1)
    BY <1>6, <2>1, <2>2
  <2>4. MosBegins("irq", ServiceCycles)
    BY ServiceBegins
  <2> QED
    BY <1>1, <1>2, <2>1, <2>3, <2>4, MosBeginning
<1>8. ASSUME NEW insn \in MosInstructions, MosExecute(insn) PROVE MosInv'
  <2>1. /\ mosTodo = <<>> /\ mosTodo' = insn.todo /\ mosKind' = insn.kind /\ mosStartI' = mosI
        /\ mosLines' = <<>>
        /\ mosMode' = mosMode /\ mosI' = mosI /\ mosPoll' = mosPoll /\ mosKept' = mosKept /\ ~TakesNmi
    BY <1>8 DEF MosExecute, MosBegin
  <2>2. MosBegins(insn.kind, insn.todo) /\ insn.kind \notin {"nmi", "irq", "reset"}
    BY InstructionsBegin
  <2>3. /\ mosOwed' \in Nat /\ (mosNmi' <=> mosOwed' > 0)
        /\ mosOwed' <= (IF mosMode = "polling" THEN 2 ELSE 1)
        /\ mosNmi' \in BOOLEAN /\ mosIrq' \in BOOLEAN
    <3>1. CASE mosMode = "noPins"
      <4>1. mosNmi' = FALSE /\ mosIrq' = FALSE /\ mosOwed' = 0
        BY <1>8, <3>1 DEF MosExecute
      <4>2. mosNmi' \in BOOLEAN /\ ~mosNmi' /\ mosIrq' \in BOOLEAN
        BY <4>1, Zenon
      <4>3. mosOwed' \in Nat /\ ~(mosOwed' > 0) /\ mosOwed' <= (IF mosMode = "polling" THEN 2 ELSE 1)
        BY <4>1
      <4> QED
        BY <4>2, <4>3
    <3>2. CASE mosMode # "noPins"
      <4>1. mosOwed' = (IF mosOwed = 0 THEN 0 ELSE mosOwed + 1) /\ mosNmi' = mosNmi /\ mosIrq' = mosIrq
        BY <1>8, <3>2 DEF MosExecute
      <4> QED
        BY <1>2, <1>6, <2>1, <3>2, <4>1
    <3> QED
      BY <3>1, <3>2
  <2> QED
    BY <1>1, <1>2, <2>1, <2>2, <2>3, MosBeginning
<1>9. ASSUME MosReset PROVE MosInv'
  <2>1. /\ mosTodo' = <<"reset", "reset">> /\ mosKind' = "reset" /\ mosLines' = <<>>
        /\ mosI' \in BOOLEAN /\ mosI' /\ mosStartI' \in BOOLEAN /\ mosStartI'
        /\ mosMode' = mosMode /\ mosPoll' = mosPoll /\ mosKept' = mosKept
        /\ mosIrq' = mosIrq /\ mosNmi' = mosNmi /\ mosOwed' = mosOwed
    BY <1>9 DEF MosReset
  <2>2. MosBegins("reset", <<"reset", "reset">>)
    BY DEF MosBegins, ShapedAs, TagsAt, MosKinds, MosTags
  <2> QED
    BY <1>1, <1>2, <2>1, <2>2, MosBeginning
<1>10. ASSUME UNCHANGED mosVars PROVE MosInv'
  BY <1>10 DEF mosVars, MosInv, MosTyped, MosShape, MosWaits, MosFlag, MosNmiSampled, MosIrqSampled,
               MosService
<1> QED
  BY <1>3, <1>4, <1>7, <1>8, <1>9, <1>10 DEF MosNext

\* At every instruction boundary of a core that samples its lines in every
\* cycle, what is taken is what the lines were in the deciding cycle, and an
\* NMI is served once, at most one boundary late, by every kind of core: for
\* every sequence of instructions and every behaviour of the lines.
THEOREM InterruptsTaken == MosSpec => []InterruptsOnTime
<1>1. MosInit => MosInv
  <2> SUFFICES ASSUME MosInit PROVE MosInv
    OBVIOUS
  <2>1. /\ mosTodo = <<"reset", "reset">> /\ mosKind = "reset" /\ mosLines = <<>> /\ mosMode \in MosModes
        /\ mosPoll = NoPoll /\ mosKept = MosQuiet /\ mosOwed = 0
        /\ mosI \in BOOLEAN /\ mosI /\ mosStartI \in BOOLEAN /\ mosStartI
        /\ mosNmi \in BOOLEAN /\ ~mosNmi /\ mosIrq \in BOOLEAN
    BY DEF MosInit
  <2>2. MosBegins("reset", <<"reset", "reset">>)
    BY DEF MosBegins, ShapedAs, TagsAt, MosKinds, MosTags
  <2>3. MosTyped
    <3>1. NoPoll \in LineSample \X LineSample /\ MosQuiet \in LineSample
      BY DEF NoPoll, MosQuiet, LineSample
    <3> QED
      BY <2>1, <2>2, <3>1 DEF MosTyped, MosBegins
  <2>4. Len(mosTodo) = 2 /\ Len(mosLines) = 0
    BY <2>1
  <2>5. MosShape /\ MosWaits
    BY <2>1, <2>2, <2>4 DEF MosShape, MosWaits, MosService, MosBegins
  <2>6. MosFlag /\ MosNmiSampled /\ MosIrqSampled
    BY <2>1, <2>4 DEF MosFlag, MosNmiSampled, MosIrqSampled, MosService
  <2> QED
    BY <2>3, <2>5, <2>6 DEF MosInv
<1>2. MosInv /\ [MosNext]_mosVars => MosInv'
  BY MosStepKeeps
<1>3. MosInv => InterruptsOnTime
  BY AtBoundary DEF InterruptsOnTime, MosInv, MosWaits
<1> QED
  BY <1>1, <1>2, <1>3, PTL DEF MosSpec

----------------------------------------------------------------------------
(***************************************************************************)
(* Nested interrupts of the Z80.                                           *)
(***************************************************************************)

Z80RegSets == [pc : Nat, bc : Nat, pv : BOOLEAN]
Z80Cores == [regs : Z80RegSets, iff1 : BOOLEAN, iff2 : BOOLEAN, ei : BOOLEAN, p : BOOLEAN,
             halted : BOOLEAN]
Z80Saved == [kind : {"nmi", "int"}, regs : Z80RegSets]

Z80Typed ==
  /\ z80 \in Z80Cores /\ z80Frames \in Seq(Z80Saved)
  /\ z80Ran \in Nat /\ z80Wants \in BOOLEAN /\ z80Told \in BOOLEAN
  /\ z80Moved \in [due : Nat, made : Nat]

\* The main program's registers in a stack of frames over a core.
MainOf(regs, frames) == IF frames = <<>> THEN regs ELSE frames[1].regs

\* IFF2 is what a return will put into IFF1.  Under NMIs alone it is what the
\* main program asked for; an INT says that the program under it had asked for
\* interrupts; and outside the handler of an NMI the two agree.
Enabled(c, frames, wants) ==
  /\ c.iff1 => c.iff2
  /\ (frames = <<>> \/ frames[Len(frames)].kind = "int") => (c.iff2 => c.iff1)
  /\ (\A k \in 1 .. Len(frames) : frames[k].kind = "nmi") => (c.iff2 <=> wants)
  /\ (\E k \in 1 .. Len(frames) : frames[k].kind = "int") => wants

\* Where the main program is, and what LD A,I told it.
MainKept(regs, ran, moves, told) ==
  /\ regs.pc = ran /\ regs.bc + moves.made = moves.due
  /\ regs.pv => told

Z80Inv ==
  /\ Z80Typed
  /\ Enabled(z80, z80Frames, z80Wants)
  /\ MainKept(MainOf(z80.regs, z80Frames), z80Ran, z80Moved, z80Told)
  /\ (z80Frames = <<>> /\ z80.p) => (z80.regs.pv <=> z80Told)

\* A handler begins: the frame it pushes holds the registers it interrupted,
\* and those of the main program are still the lowest.
LEMMA PushKeepsMain ==
  ASSUME NEW q \in Seq(Z80Saved), NEW f \in Z80Saved, NEW regs, NEW other
  PROVE  /\ Append(q, f) \in Seq(Z80Saved) /\ Append(q, f) # <<>>
         /\ Len(Append(q, f)) = Len(q) + 1 /\ Append(q, f)[Len(q) + 1] = f /\ Len(q) \in Nat
         /\ \A k \in 1 .. Len(q) : Append(q, f)[k] = q[k]
         /\ q # <<>> => MainOf(regs, Append(q, f)) = MainOf(other, q)
         /\ q = <<>> => MainOf(regs, Append(q, f)) = f.regs
<1> DEFINE a == Append(q, f)
<1>1. /\ a \in Seq(Z80Saved) /\ Len(a) = Len(q) + 1 /\ Len(q) \in Nat /\ a[Len(q) + 1] = f
      /\ \A i \in 1 .. Len(q) : a[i] = q[i]
  BY AppendLast
<1>2. a # <<>>
  <2> HIDE DEF a
  <2> QED
    BY <1>1, EmptySeq
<1>3. q # <<>> => Len(q) > 0 /\ a[1] = q[1]
  <2>1. q # <<>> => Len(q) > 0
    BY EmptySeq
  <2> HIDE DEF a
  <2> QED
    BY <1>1, <2>1
<1>4. q = <<>> => a[1] = f
  <2>1. q = <<>> => Len(q) = 0
    OBVIOUS
  <2> HIDE DEF a
  <2> QED
    BY <1>1, <2>1
<1> HIDE DEF a
<1>5. /\ q # <<>> => MainOf(regs, a) = MainOf(other, q)
      /\ q = <<>> => MainOf(regs, a) = f.regs
  BY <1>2, <1>3, <1>4 DEF MainOf
<1> QED
  BY <1>1, <1>2, <1>5 DEF a

\* A handler ends: the registers of its frame come back.
LEMMA PopKeepsMain ==
  ASSUME NEW q \in Seq(Z80Saved), q # <<>>, NEW regs
  PROVE  /\ Front(q) \in Seq(Z80Saved) /\ Len(Front(q)) = Len(q) - 1 /\ Len(q) \in Nat \ {0}
         /\ Last(q) \in Z80Saved /\ Last(q) = q[Len(q)]
         /\ \A k \in 1 .. Len(q) - 1 : Front(q)[k] = q[k]
         /\ MainOf(Last(q).regs, Front(q)) = MainOf(regs, q)
<1>1. /\ Len(q) \in Nat \ {0} /\ Last(q) = q[Len(q)] /\ Last(q) \in Z80Saved
      /\ Front(q) \in Seq(Z80Saved) /\ Len(Front(q)) = Len(q) - 1
      /\ \A i \in 1 .. Len(q) - 1 : Front(q)[i] = q[i]
  BY FrontLast
<1>2. Front(q) = <<>> => Len(q) = 1
  <2>1. Front(q) = <<>> => Len(Front(q)) = 0
    OBVIOUS
  <2> QED
    BY <1>1, <2>1
<1>3. Front(q) # <<>> => Len(q) > 1 /\ Front(q)[1] = q[1]
  <2>1. Front(q) # <<>> => Len(Front(q)) # 0
    BY <1>1, EmptySeq
  <2> QED
    BY <1>1, <2>1
<1>4. MainOf(Last(q).regs, Front(q)) = MainOf(regs, q)
  BY <1>1, <1>2, <1>3 DEF MainOf
<1> QED
  BY <1>1, <1>4

\* The fields of a core.
LEMMA Z80Fields ==
  ASSUME NEW c \in Z80Cores
  PROVE  /\ c.regs \in Z80RegSets /\ c.regs.pc \in Nat /\ c.regs.bc \in Nat /\ c.regs.pv \in BOOLEAN
         /\ c.iff1 \in BOOLEAN /\ c.iff2 \in BOOLEAN /\ c.ei \in BOOLEAN /\ c.p \in BOOLEAN
         /\ c.halted \in BOOLEAN
BY DEF Z80Cores, Z80RegSets

\* What an instruction leaves, whatever it does to the flags.
LEMMA ExecutesOne ==
  ASSUME Z80Typed, NEW c \in Z80Cores, Z80Executes(c)
  PROVE  /\ z80' \in Z80Cores /\ z80Ran' \in Nat
         /\ z80'.iff1 = c.iff1 /\ z80'.iff2 = c.iff2 /\ z80'.p = c.p
         /\ z80'.regs.bc = c.regs.bc /\ z80'.regs.pv = c.regs.pv
         /\ z80'.regs.pc = (IF InMain THEN c.regs.pc + 1 ELSE 0)
         /\ z80Ran' = (IF InMain THEN z80Ran + 1 ELSE z80Ran) /\ z80Frames' = z80Frames
<1>1. /\ z80' = [c EXCEPT !.regs.pc = IF InMain THEN @ + 1 ELSE 0]
      /\ z80Ran' = (IF InMain THEN z80Ran + 1 ELSE z80Ran) /\ z80Frames' = z80Frames
  BY DEF Z80Executes
<1> DEFINE n == IF InMain THEN c.regs.pc + 1 ELSE 0
           r == [c.regs EXCEPT !.pc = n]
<1>2. z80' = [c EXCEPT !.regs = r]
  BY <1>1
<1>3. n \in Nat
  BY Z80Fields
<1>4. r \in Z80RegSets /\ r.pc = n /\ r.bc = c.regs.bc /\ r.pv = c.regs.pv
  <2> HIDE DEF n
  <2> QED
    BY <1>3, Z80Fields DEF Z80RegSets
<1> HIDE DEF r
<1>5. /\ z80' \in Z80Cores /\ z80'.regs = r
      /\ z80'.iff1 = c.iff1 /\ z80'.iff2 = c.iff2 /\ z80'.p = c.p
  BY <1>2, <1>4 DEF Z80Cores
<1>6. z80Ran' \in Nat
  BY <1>1 DEF Z80Typed
<1> QED
  BY <1>1, <1>4, <1>5, <1>6

LEMMA CoreIs ==
  ASSUME Z80Typed
  PROVE  /\ Z80Core \in Z80Cores /\ Z80Core.regs = z80.regs /\ Z80Core.iff1 = z80.iff1
         /\ Z80Core.iff2 = z80.iff2 /\ ~Z80Core.p
BY DEF Z80Typed, Z80Cores, Z80Core

\* The main program is where it should be once it has run one instruction, or
\* a handler one of its own.
LEMMA MainRuns ==
  ASSUME Z80Inv, NEW c \in Z80Cores, Z80Executes(c),
         InMain => c.regs.pc = z80.regs.pc,
         z80Moved' \in [due : Nat, made : Nat], z80Told' \in BOOLEAN,
         ~InMain => z80Moved' = z80Moved /\ z80Told' = z80Told,
         InMain => /\ c.regs.bc + z80Moved'.made = z80Moved'.due
                   /\ c.regs.pv => z80Told'
  PROVE  MainKept(MainOf(z80'.regs, z80Frames'), z80Ran', z80Moved', z80Told')
<1>1. /\ z80' \in Z80Cores /\ z80Frames' = z80Frames
      /\ z80'.regs.bc = c.regs.bc /\ z80'.regs.pv = c.regs.pv
      /\ z80'.regs.pc = (IF InMain THEN c.regs.pc + 1 ELSE 0)
      /\ z80Ran' = (IF InMain THEN z80Ran + 1 ELSE z80Ran)
  BY ExecutesOne DEF Z80Inv
<1>2. MainKept(MainOf(z80.regs, z80Frames), z80Ran, z80Moved, z80Told)
  BY DEF Z80Inv
<1>3. CASE InMain
  <2>1. MainOf(z80.regs, z80Frames) = z80.regs /\ MainOf(z80'.regs, z80Frames') = z80'.regs
    BY <1>1, <1>3 DEF InMain, MainOf
  <2>2. z80'.regs.pc = z80Ran'
    BY <1>1, <1>2, <1>3, <2>1 DEF MainKept
  <2>3. /\ z80'.regs.bc + z80Moved'.made = z80Moved'.due
        /\ z80'.regs.pv => z80Told'
    BY <1>1, <1>3
  <2> QED
    BY <2>1, <2>2, <2>3 DEF MainKept
<1>4. CASE ~InMain
  <2>1. MainOf(z80'.regs, z80Frames') = MainOf(z80.regs, z80Frames)
    BY <1>1, <1>4 DEF InMain, MainOf
  <2> QED
    BY <1>1, <1>2, <1>4, <2>1
<1> QED
  BY <1>3, <1>4

\* An instruction that leaves IFF1 and IFF2 alone.
LEMMA EnabledRuns ==
  ASSUME Z80Inv, z80Frames' = z80Frames, z80'.iff1 = z80.iff1, z80'.iff2 = z80.iff2, z80Wants' = z80Wants
  PROVE  Enabled(z80', z80Frames', z80Wants')
BY DEF Z80Inv, Enabled

LEMMA PlainKeeps ==
  ASSUME Z80Inv, Z80Plain \/ Halt \/ (\E n \in 1 .. Z80Block : LoadCount(n))
  PROVE  Z80Inv'
<1>1. Z80Typed /\ z80 \in Z80Cores
  BY DEF Z80Inv, Z80Typed
<1>2. /\ Z80Core \in Z80Cores /\ Z80Core.regs = z80.regs /\ Z80Core.iff1 = z80.iff1
      /\ Z80Core.iff2 = z80.iff2 /\ ~Z80Core.p
  BY <1>1, CoreIs
<1>3. MainKept(MainOf(z80.regs, z80Frames), z80Ran, z80Moved, z80Told)
  BY DEF Z80Inv
<1>4. InMain => MainOf(z80.regs, z80Frames) = z80.regs
  BY DEF InMain, MainOf
<1>5. ASSUME NEW c \in Z80Cores, Z80Executes(c), ~c.p, c.iff1 = z80.iff1, c.iff2 = z80.iff2,
             c.regs.pc = z80.regs.pc, c.regs.pv = z80.regs.pv, z80Wants' = z80Wants, z80Told' = z80Told,
             z80Moved' \in [due : Nat, made : Nat], ~InMain => z80Moved' = z80Moved,
             InMain => c.regs.bc + z80Moved'.made = z80Moved'.due
      PROVE  Z80Inv'
  <2>1. /\ z80' \in Z80Cores /\ z80Ran' \in Nat /\ z80'.iff1 = c.iff1 /\ z80'.iff2 = c.iff2 /\ z80'.p = c.p
        /\ z80Frames' = z80Frames
    BY <1>1, <1>5, ExecutesOne
  <2>2. z80Wants' \in BOOLEAN /\ z80Told' \in BOOLEAN /\ z80Frames' \in Seq(Z80Saved)
    BY <1>1, <1>5, <2>1 DEF Z80Typed
  <2>3. InMain => (c.regs.pv => z80Told')
    BY <1>3, <1>4, <1>5 DEF MainKept
  <2>4. MainKept(MainOf(z80'.regs, z80Frames'), z80Ran', z80Moved', z80Told')
    BY <1>5, <2>2, <2>3, MainRuns
  <2>5. Enabled(z80', z80Frames', z80Wants')
    BY <1>5, <2>1, EnabledRuns
  <2>6. ~z80'.p
    BY <1>5, <2>1
  <2> QED
    BY <1>5, <2>1, <2>2, <2>4, <2>5, <2>6 DEF Z80Inv, Z80Typed
<1>6. z80Moved \in [due : Nat, made : Nat] /\ (InMain => z80.regs.bc + z80Moved.made = z80Moved.due)
  BY <1>1, <1>3, <1>4 DEF MainKept, Z80Typed
<1>7. CASE Z80Plain
  <2>1. Z80Executes(Z80Core) /\ UNCHANGED <<z80Wants, z80Told, z80Moved>>
    BY <1>7 DEF Z80Plain
  <2> QED
    BY <1>2, <1>5, <1>6, <2>1
<1>8. CASE Halt
  <2> DEFINE c == [Z80Core EXCEPT !.halted = TRUE]
  <2>1. Z80Executes(c) /\ UNCHANGED <<z80Wants, z80Told, z80Moved>>
    BY <1>8 DEF Halt
  <2>2. c \in Z80Cores /\ c.regs = Z80Core.regs /\ c.iff1 = Z80Core.iff1 /\ c.iff2 = Z80Core.iff2 /\ c.p = Z80Core.p
    BY <1>2 DEF Z80Cores
  <2> HIDE DEF c
  <2> QED
    BY <1>2, <1>5, <1>6, <2>1, <2>2
<1>9. ASSUME NEW n \in 1 .. Z80Block, LoadCount(n) PROVE Z80Inv'
  <2> DEFINE r == [Z80Core.regs EXCEPT !.bc = n]
             c == [Z80Core EXCEPT !.regs = r]
  <2>1. /\ InMain /\ Z80Executes(c) /\ z80Moved' = [due |-> n, made |-> 0]
        /\ z80Wants' = z80Wants /\ z80Told' = z80Told
    BY <1>9 DEF LoadCount
  <2>2. r \in Z80RegSets /\ r.pc = z80.regs.pc /\ r.pv = z80.regs.pv /\ r.bc = n /\ n \in Nat
    BY <1>1, <1>2, Z80Fields DEF Z80RegSets
  <2> HIDE DEF r
  <2>3. c \in Z80Cores /\ c.regs = r /\ c.iff1 = Z80Core.iff1 /\ c.iff2 = Z80Core.iff2 /\ c.p = Z80Core.p
    BY <1>2, <2>2 DEF Z80Cores
  <2> HIDE DEF c
  <2>4. z80Moved' \in [due : Nat, made : Nat] /\ c.regs.bc + z80Moved'.made = z80Moved'.due
    BY <2>1, <2>2, <2>3
  <2> QED
    BY <1>2, <1>5, <2>1, <2>2, <2>3, <2>4
<1> QED
  BY <1>7, <1>8, <1>9

LEMMA EiDiKeeps ==
  ASSUME Z80Inv, NEW on \in BOOLEAN, NEW c \in Z80Cores, c.iff1 = on, c.iff2 = on, ~c.p, c.regs = z80.regs,
         Z80Handler # "nmi", Z80Executes(c),
         z80Wants' = (IF InMain THEN on ELSE z80Wants), z80Told' = z80Told, z80Moved' = z80Moved
  PROVE  Z80Inv'
<1>1. Z80Typed /\ z80 \in Z80Cores /\ z80Frames \in Seq(Z80Saved)
  BY DEF Z80Inv, Z80Typed
<1>2. /\ z80' \in Z80Cores /\ z80Ran' \in Nat /\ z80'.iff1 = on /\ z80'.iff2 = on /\ ~z80'.p
      /\ z80Frames' = z80Frames
  BY <1>1, ExecutesOne
<1>3. z80Wants' \in BOOLEAN /\ z80Told' \in BOOLEAN /\ z80Moved' \in [due : Nat, made : Nat]
  BY <1>1 DEF Z80Typed
<1>4. MainKept(MainOf(z80.regs, z80Frames), z80Ran, z80Moved, z80Told)
  BY DEF Z80Inv
<1>5. InMain => MainOf(z80.regs, z80Frames) = z80.regs
  BY DEF InMain, MainOf
<1>6. InMain => c.regs.bc + z80Moved'.made = z80Moved'.due /\ (c.regs.pv => z80Told')
  BY <1>4, <1>5 DEF MainKept
<1>7. MainKept(MainOf(z80'.regs, z80Frames'), z80Ran', z80Moved', z80Told')
  BY <1>3, <1>6, MainRuns
<1>8. Enabled(z80', z80Frames', z80Wants')
  <2>1. Enabled(z80, z80Frames, z80Wants)
    BY DEF Z80Inv
  <2>2. CASE InMain
    <3>1. z80Frames = <<>> /\ Len(z80Frames) = 0 /\ z80Wants' = on
      BY <2>2 DEF InMain
    <3>2. ~ \E k \in 1 .. Len(z80Frames) : TRUE
      BY <3>1
    <3> QED
      BY <1>2, <3>1, <3>2 DEF Enabled
  <2>3. CASE ~InMain
    <3>1. Len(z80Frames) \in 1 .. Len(z80Frames) /\ Last(z80Frames) = z80Frames[Len(z80Frames)]
          /\ Last(z80Frames) \in Z80Saved
      BY <1>1, <2>3, FrontLast DEF InMain
    <3>2. z80Frames[Len(z80Frames)].kind = "int"
      BY <2>3, <3>1 DEF Z80Handler, Z80Saved
    <3>3. z80Frames[Len(z80Frames)].kind # "nmi"
      BY <3>2
    <3> QED
      BY <1>2, <2>1, <2>3, <3>1, <3>2, <3>3 DEF Enabled
  <2> QED
    BY <2>2, <2>3
<1> QED
  BY <1>1, <1>2, <1>3, <1>7, <1>8 DEF Z80Inv, Z80Typed

\* EI and DI.
LEMMA EiAndDiKeep ==
  ASSUME Z80Inv, EI \/ DI
  PROVE  Z80Inv'
<1>1. z80Wants \in BOOLEAN /\ Z80Core \in Z80Cores /\ Z80Core.regs = z80.regs /\ ~Z80Core.p
  BY CoreIs DEF Z80Inv, Z80Typed
<1>2. CASE EI
  <2> DEFINE c == [Z80Core EXCEPT !.iff1 = TRUE, !.iff2 = TRUE, !.ei = TRUE]
  <2>1. /\ Z80Handler # "nmi" /\ Z80Executes(c) /\ z80Wants' = (InMain \/ z80Wants)
        /\ z80Told' = z80Told /\ z80Moved' = z80Moved
    BY <1>2 DEF EI
  <2>2. c \in Z80Cores /\ c.iff1 = TRUE /\ c.iff2 = TRUE /\ c.p = Z80Core.p /\ c.regs = Z80Core.regs
    BY <1>1 DEF Z80Cores
  <2> HIDE DEF c
  <2>3. z80Wants' = (IF InMain THEN TRUE ELSE z80Wants)
    BY <1>1, <2>1
  <2> QED
    BY <1>1, <2>1, <2>2, <2>3, EiDiKeeps
<1>3. CASE DI
  <2> DEFINE c == [Z80Core EXCEPT !.iff1 = FALSE, !.iff2 = FALSE]
  <2>1. /\ Z80Handler # "nmi" /\ Z80Executes(c) /\ z80Wants' = (~InMain /\ z80Wants)
        /\ z80Told' = z80Told /\ z80Moved' = z80Moved
    BY <1>3 DEF DI
  <2>2. c \in Z80Cores /\ c.iff1 = FALSE /\ c.iff2 = FALSE /\ c.p = Z80Core.p /\ c.regs = Z80Core.regs
    BY <1>1 DEF Z80Cores
  <2> HIDE DEF c
  <2>3. z80Wants' = (IF InMain THEN FALSE ELSE z80Wants)
    BY <1>1, <2>1
  <2> QED
    BY <1>1, <2>1, <2>2, <2>3, EiDiKeeps
<1> QED
  BY <1>2, <1>3

\* LD A,I in the main program reads what it asked for.
LEMMA LdAIKeeps ==
  ASSUME Z80Inv, LdAI
  PROVE  Z80Inv'
<1>1. Z80Typed /\ z80 \in Z80Cores /\ z80Frames \in Seq(Z80Saved)
  BY DEF Z80Inv, Z80Typed
<1>2. /\ Z80Core \in Z80Cores /\ Z80Core.regs = z80.regs /\ Z80Core.iff1 = z80.iff1
      /\ Z80Core.iff2 = z80.iff2
  BY <1>1, CoreIs
<1> DEFINE r == [Z80Core.regs EXCEPT !.pv = z80.iff2]
           c == [Z80Core EXCEPT !.regs = r, !.p = TRUE]
<1>3. /\ Z80Executes(c) /\ z80Told' = (IF InMain THEN z80Wants ELSE z80Told)
      /\ z80Wants' = z80Wants /\ z80Moved' = z80Moved
  BY DEF LdAI
<1>4. r \in Z80RegSets /\ r.pc = z80.regs.pc /\ r.bc = z80.regs.bc /\ r.pv = z80.iff2
  BY <1>1, <1>2, Z80Fields DEF Z80RegSets
<1> HIDE DEF r
<1>5. c \in Z80Cores /\ c.regs = r /\ c.iff1 = z80.iff1 /\ c.iff2 = z80.iff2
  BY <1>2, <1>4 DEF Z80Cores
<1> HIDE DEF c
<1>6. /\ z80' \in Z80Cores /\ z80Ran' \in Nat /\ z80'.iff1 = c.iff1 /\ z80'.iff2 = c.iff2
      /\ z80Frames' = z80Frames /\ z80'.regs.pv = c.regs.pv
  BY <1>1, <1>3, <1>5, ExecutesOne
<1>7. z80Wants' \in BOOLEAN /\ z80Told' \in BOOLEAN /\ z80Moved' \in [due : Nat, made : Nat]
  BY <1>1, <1>3 DEF Z80Typed
<1>8. InMain => (z80.iff2 <=> z80Told')
  <2>1. InMain => Len(z80Frames) = 0 /\ ~ \E k \in 1 .. Len(z80Frames) : TRUE
    <3>1. InMain => Len(z80Frames) = 0
      BY DEF InMain
    <3> QED
      BY <3>1
  <2> QED
    BY <1>3, <2>1 DEF Z80Inv, Enabled
<1>9. InMain => z80.regs.bc + z80Moved.made = z80Moved.due
  BY DEF Z80Inv, MainKept, MainOf, InMain
<1>10. MainKept(MainOf(z80'.regs, z80Frames'), z80Ran', z80Moved', z80Told')
  BY <1>3, <1>4, <1>5, <1>7, <1>8, <1>9, MainRuns
<1>11. Enabled(z80', z80Frames', z80Wants')
  BY <1>3, <1>5, <1>6, EnabledRuns
<1>12. z80Frames' = <<>> => (z80'.regs.pv <=> z80Told')
  BY <1>4, <1>5, <1>6, <1>8 DEF InMain
<1> QED
  BY <1>1, <1>6, <1>7, <1>10, <1>11, <1>12 DEF Z80Inv, Z80Typed

\* One byte of a block instruction.
LEMMA BlockKeeps ==
  ASSUME Z80Inv, NEW match \in BOOLEAN, BlockStep(match)
  PROVE  Z80Inv'
<1>1. Z80Typed /\ z80 \in Z80Cores /\ z80Frames \in Seq(Z80Saved)
  BY DEF Z80Inv, Z80Typed
<1>2. /\ Z80Core \in Z80Cores /\ Z80Core.regs = z80.regs /\ Z80Core.iff1 = z80.iff1
      /\ Z80Core.iff2 = z80.iff2 /\ ~Z80Core.p
  BY <1>1, CoreIs
<1> DEFINE bc == z80.regs.bc - 1
           again == bc > 0 /\ ~match
           pc == IF again THEN z80.regs.pc ELSE z80.regs.pc + 1
           r == [z80.regs EXCEPT !.bc = bc, !.pc = pc]
<1>3. /\ InMain /\ z80.regs.bc > 0 /\ z80Moved' = [z80Moved EXCEPT !.made = @ + 1]
      /\ z80' = [Z80Core EXCEPT !.regs = r]
      /\ z80Ran' = (IF again THEN z80Ran ELSE z80Ran + 1)
      /\ z80Frames' = z80Frames /\ z80Wants' = z80Wants /\ z80Told' = z80Told
  BY DEF BlockStep
<1>4. z80.regs \in Z80RegSets /\ z80.regs.pc \in Nat /\ z80.regs.bc \in Nat
  BY <1>1, Z80Fields
<1>5. bc \in Nat /\ pc \in Nat /\ bc + 1 = z80.regs.bc
  BY <1>3, <1>4
<1>6. z80.regs.pc = z80Ran /\ z80.regs.bc + z80Moved.made = z80Moved.due /\ (z80.regs.pv => z80Told)
  BY <1>3 DEF Z80Inv, MainKept, MainOf, InMain
<1>7. pc = z80Ran'
  BY <1>3, <1>6
<1> HIDE DEF bc, pc, again
<1>8. r \in Z80RegSets /\ r.pc = pc /\ r.bc = bc /\ r.pv = z80.regs.pv
  BY <1>4, <1>5 DEF Z80RegSets
<1> HIDE DEF r
<1>9. z80' \in Z80Cores /\ z80'.regs = r /\ z80'.iff1 = z80.iff1 /\ z80'.iff2 = z80.iff2 /\ z80'.p = Z80Core.p
  BY <1>2, <1>3, <1>8 DEF Z80Cores
<1>10. /\ z80Moved \in [due : Nat, made : Nat] /\ z80Moved.made \in Nat
       /\ z80Moved' \in [due : Nat, made : Nat] /\ z80Moved'.made = z80Moved.made + 1
       /\ z80Moved'.due = z80Moved.due
  BY <1>1, <1>3 DEF Z80Typed
<1>11. bc + z80Moved'.made = z80Moved'.due
  BY <1>4, <1>5, <1>6, <1>10
<1>12. MainKept(z80'.regs, z80Ran', z80Moved', z80Told')
  BY <1>3, <1>6, <1>7, <1>8, <1>9, <1>11 DEF MainKept
<1>13. MainOf(z80'.regs, z80Frames') = z80'.regs
  BY <1>3 DEF InMain, MainOf
<1>14. Enabled(z80', z80Frames', z80Wants')
  BY <1>3, <1>9, EnabledRuns
<1>15. ~z80'.p
  BY <1>2, <1>9
<1>16. z80Ran' \in Nat
  BY <1>5, <1>7
<1> QED
  BY <1>1, <1>3, <1>9, <1>10, <1>12, <1>13, <1>14, <1>15, <1>16 DEF Z80Inv, Z80Typed

\* The flag of LD A,I, cleared if an INT is taken at once.
LEMMA ParityIs ==
  ASSUME Z80Typed
  PROVE  /\ ParityLost \in Z80RegSets /\ ParityLost.pc = z80.regs.pc /\ ParityLost.bc = z80.regs.bc
         /\ ParityLost.pv => z80.regs.pv
<1>1. z80.regs \in Z80RegSets /\ z80.regs.pv \in BOOLEAN
  BY Z80Fields DEF Z80Typed
<1>2. CASE z80.p
  <2> DEFINE r == [z80.regs EXCEPT !.pv = FALSE]
  <2>1. r \in Z80RegSets /\ r.pc = z80.regs.pc /\ r.bc = z80.regs.bc /\ r.pv = FALSE
    BY <1>1 DEF Z80RegSets
  <2>2. ParityLost = r
    BY <1>2 DEF ParityLost
  <2> HIDE DEF r
  <2> QED
    BY <2>1, <2>2
<1>3. CASE ~z80.p
  <2>1. ParityLost = z80.regs
    BY <1>3 DEF ParityLost
  <2> QED
    BY <1>1, <2>1
<1> QED
  BY <1>2, <1>3

LEMMA TakesKeep ==
  ASSUME Z80Inv, TakeNmi \/ TakeInt
  PROVE  Z80Inv'
<1>1. Z80Typed /\ z80 \in Z80Cores /\ z80Frames \in Seq(Z80Saved) /\ z80.regs \in Z80RegSets
      /\ z80.iff1 \in BOOLEAN /\ z80.iff2 \in BOOLEAN
  BY Z80Fields DEF Z80Inv, Z80Typed
<1>2. /\ z80Ran' = z80Ran /\ z80Wants' = z80Wants /\ z80Told' = z80Told /\ z80Moved' = z80Moved
  BY DEF TakeNmi, TakeInt
<1>3. MainKept(MainOf(z80.regs, z80Frames), z80Ran, z80Moved, z80Told) /\ Enabled(z80, z80Frames, z80Wants)
  BY DEF Z80Inv
<1>4. Z80Regs \in Z80RegSets
  BY DEF Z80Regs, Z80RegSets
\* Whichever it is, its frame holds the registers, less perhaps the parity.
<1>5. ASSUME NEW f \in Z80Saved, z80Frames' = Append(z80Frames, f),
             f.regs.pc = z80.regs.pc, f.regs.bc = z80.regs.bc, f.regs.pv => z80.regs.pv
      PROVE  /\ MainKept(MainOf(z80'.regs, z80Frames'), z80Ran', z80Moved', z80Told')
             /\ z80Frames' # <<>> /\ z80Frames' \in Seq(Z80Saved)
             /\ Len(z80Frames') = Len(z80Frames) + 1 /\ z80Frames'[Len(z80Frames) + 1] = f
             /\ Len(z80Frames) \in Nat /\ \A k \in 1 .. Len(z80Frames) : z80Frames'[k] = z80Frames[k]
  <2>1. /\ z80Frames' # <<>> /\ z80Frames' \in Seq(Z80Saved)
        /\ Len(z80Frames') = Len(z80Frames) + 1 /\ z80Frames'[Len(z80Frames) + 1] = f
        /\ Len(z80Frames) \in Nat /\ \A k \in 1 .. Len(z80Frames) : z80Frames'[k] = z80Frames[k]
        /\ z80Frames # <<>> => MainOf(z80'.regs, z80Frames') = MainOf(z80.regs, z80Frames)
        /\ z80Frames = <<>> => MainOf(z80'.regs, z80Frames') = f.regs
    BY <1>1, <1>5, PushKeepsMain
  <2>2. z80Frames = <<>> => MainOf(z80.regs, z80Frames) = z80.regs
    BY DEF MainOf
  <2>3. MainKept(MainOf(z80'.regs, z80Frames'), z80Ran', z80Moved', z80Told')
    BY <1>2, <1>3, <1>5, <2>1, <2>2 DEF MainKept
  <2> QED
    BY <2>1, <2>3
<1>6. ASSUME z80' \in Z80Cores, Enabled(z80', z80Frames', z80Wants'), z80Frames' # <<>>,
             z80Frames' \in Seq(Z80Saved),
             MainKept(MainOf(z80'.regs, z80Frames'), z80Ran', z80Moved', z80Told')
      PROVE  Z80Inv'
  BY <1>1, <1>2, <1>6 DEF Z80Inv, Z80Typed
<1>7. CASE TakeNmi
  <2> DEFINE f == [kind |-> "nmi", regs |-> z80.regs]
  <2>1. /\ z80Frames' = Append(z80Frames, f)
        /\ z80' = [z80 EXCEPT !.regs = Z80Regs, !.iff1 = FALSE, !.ei = FALSE, !.p = FALSE, !.halted = FALSE]
    BY <1>7 DEF TakeNmi, Z80Pushed
  <2>2. z80' \in Z80Cores /\ z80'.iff1 = FALSE /\ z80'.iff2 = z80.iff2
    BY <1>1, <1>4, <2>1 DEF Z80Cores
  <2>3. f \in Z80Saved /\ f.kind = "nmi" /\ f.regs = z80.regs
    BY <1>1 DEF Z80Saved
  <2> HIDE DEF f
  <2>4. /\ MainKept(MainOf(z80'.regs, z80Frames'), z80Ran', z80Moved', z80Told')
        /\ z80Frames' # <<>> /\ z80Frames' \in Seq(Z80Saved)
        /\ Len(z80Frames') = Len(z80Frames) + 1 /\ z80Frames'[Len(z80Frames) + 1] = f
        /\ Len(z80Frames) \in Nat /\ \A k \in 1 .. Len(z80Frames) : z80Frames'[k] = z80Frames[k]
    BY <1>5, <2>1, <2>3
  <2>5. \A k \in 1 .. Len(z80Frames') : k \in 1 .. Len(z80Frames) \/ k = Len(z80Frames')
    BY <2>4
  <2>6. 1 .. Len(z80Frames) \subseteq 1 .. Len(z80Frames')
    BY <2>4
  <2>7. z80Frames'[Len(z80Frames')].kind = "nmi" /\ "nmi" # "int"
    BY <2>3, <2>4
  <2>8. (\A k \in 1 .. Len(z80Frames') : z80Frames'[k].kind = "nmi") =>
          (\A k \in 1 .. Len(z80Frames) : z80Frames[k].kind = "nmi")
    BY <2>4, <2>6
  <2>9. (\E k \in 1 .. Len(z80Frames') : z80Frames'[k].kind = "int") =>
          (\E k \in 1 .. Len(z80Frames) : z80Frames[k].kind = "int")
    BY <2>4, <2>5, <2>7
  <2>10. Enabled(z80', z80Frames', z80Wants')
    BY <1>2, <1>3, <2>2, <2>4, <2>7, <2>8, <2>9 DEF Enabled
  <2> QED
    BY <1>6, <2>2, <2>4, <2>10
<1>8. CASE TakeInt
  <2> DEFINE f == [kind |-> "int", regs |-> ParityLost]
  <2>1. /\ z80Frames' = Append(z80Frames, f) /\ z80.iff1
        /\ z80' = [z80 EXCEPT !.regs = Z80Regs, !.iff1 = FALSE, !.iff2 = FALSE, !.p = FALSE, !.halted = FALSE]
    BY <1>8 DEF TakeInt, TakesInt
  <2>2. z80' \in Z80Cores /\ z80'.iff1 = FALSE /\ z80'.iff2 = FALSE
    BY <1>1, <1>4, <2>1 DEF Z80Cores
  <2>3. f \in Z80Saved /\ f.kind = "int" /\ f.regs = ParityLost
    BY <1>1, ParityIs DEF Z80Saved
  <2> HIDE DEF f
  <2>4. f.regs.pc = z80.regs.pc /\ f.regs.bc = z80.regs.bc /\ (f.regs.pv => z80.regs.pv)
    BY <1>1, <2>3, ParityIs
  <2>5. /\ MainKept(MainOf(z80'.regs, z80Frames'), z80Ran', z80Moved', z80Told')
        /\ z80Frames' # <<>> /\ z80Frames' \in Seq(Z80Saved)
        /\ Len(z80Frames') = Len(z80Frames) + 1 /\ z80Frames'[Len(z80Frames) + 1] = f
        /\ Len(z80Frames) \in Nat /\ \A k \in 1 .. Len(z80Frames) : z80Frames'[k] = z80Frames[k]
    BY <1>5, <2>1, <2>3, <2>4
  <2>6. Len(z80Frames') \in 1 .. Len(z80Frames') /\ z80Frames'[Len(z80Frames')].kind = "int"
        /\ z80Frames'[Len(z80Frames')].kind # "nmi"
    <3>1. z80Frames'[Len(z80Frames')].kind = "int"
      BY <2>3, <2>5
    <3> QED
      BY <2>5, <3>1
  \* The program below had asked for interrupts: either it is under no INT, and
  \* IFF2 says so, or it is under one.
  <2>7. z80Wants
    <3>1. z80.iff2
      BY <1>3, <2>1 DEF Enabled
    <3>2. \A k \in 1 .. Len(z80Frames) : z80Frames[k].kind \in {"nmi", "int"}
      <4>1. \A k \in 1 .. Len(z80Frames) : z80Frames[k] \in Z80Saved
        BY <1>1, ElementOfSeq
      <4>2. \A g \in Z80Saved : g.kind \in {"nmi", "int"}
        BY DEF Z80Saved
      <4> QED
        BY <4>1, <4>2
    <3>3. (\A k \in 1 .. Len(z80Frames) : z80Frames[k].kind = "nmi")
            \/ (\E k \in 1 .. Len(z80Frames) : z80Frames[k].kind = "int")
      BY <3>2
    <3> QED
      BY <1>3, <3>1, <3>3 DEF Enabled
  <2>8. Enabled(z80', z80Frames', z80Wants')
    BY <1>2, <2>2, <2>5, <2>6, <2>7 DEF Enabled
  <2> QED
    BY <1>6, <2>2, <2>5, <2>8
<1> QED
  BY <1>7, <1>8

LEMMA ReturnKeeps ==
  ASSUME Z80Inv, Z80Return
  PROVE  Z80Inv'
<1>1. Z80Typed /\ z80 \in Z80Cores /\ z80Frames \in Seq(Z80Saved) /\ z80.iff2 \in BOOLEAN
  BY Z80Fields DEF Z80Inv, Z80Typed
<1>2. /\ z80Frames # <<>> /\ (Z80Handler = "int" => z80.iff1) /\ z80Frames' = Front(z80Frames)
      /\ z80' = [Z80Core EXCEPT !.regs = Last(z80Frames).regs, !.iff1 = z80.iff2]
      /\ z80Ran' = z80Ran /\ z80Wants' = z80Wants /\ z80Told' = z80Told /\ z80Moved' = z80Moved
  BY DEF Z80Return, InMain
<1> DEFINE n == Len(z80Frames)
<1>3. /\ z80Frames' \in Seq(Z80Saved) /\ Len(z80Frames') = n - 1 /\ n \in Nat \ {0}
      /\ Last(z80Frames) \in Z80Saved /\ Last(z80Frames) = z80Frames[n]
      /\ \A k \in 1 .. n - 1 : z80Frames'[k] = z80Frames[k]
      /\ MainOf(Last(z80Frames).regs, z80Frames') = MainOf(z80.regs, z80Frames)
  BY <1>1, <1>2, PopKeepsMain
<1>4. Last(z80Frames).regs \in Z80RegSets /\ Last(z80Frames).kind \in {"nmi", "int"}
  BY <1>3 DEF Z80Saved
<1>5. Z80Core \in Z80Cores /\ Z80Core.iff2 = z80.iff2 /\ ~Z80Core.p
  BY <1>1, CoreIs
<1>6. /\ z80' \in Z80Cores /\ z80'.regs = Last(z80Frames).regs /\ z80'.iff1 = z80.iff2
      /\ z80'.iff2 = Z80Core.iff2 /\ z80'.p = Z80Core.p
  BY <1>1, <1>2, <1>4, <1>5 DEF Z80Cores
<1>7. MainKept(MainOf(z80'.regs, z80Frames'), z80Ran', z80Moved', z80Told')
  BY <1>2, <1>3, <1>6 DEF Z80Inv
<1>8. Enabled(z80', z80Frames', z80Wants')
  <2>1. Enabled(z80, z80Frames, z80Wants)
    BY DEF Z80Inv
  <2>2. n \in 1 .. n /\ 1 .. n - 1 \subseteq 1 .. n /\ \A k \in 1 .. n : k \in 1 .. n - 1 \/ k = n
    BY <1>3
  <2>3. z80'.iff1 = z80.iff2 /\ z80'.iff2 = z80.iff2
    BY <1>5, <1>6
  \* The frame that goes is an NMI's: what was under NMIs alone is so now and was so before.
  <2>4. CASE z80Frames[n].kind = "nmi"
    <3>1. (\A k \in 1 .. n - 1 : z80Frames'[k].kind = "nmi") => (\A k \in 1 .. n : z80Frames[k].kind = "nmi")
      BY <1>3, <2>2, <2>4
    <3>2. (\E k \in 1 .. n - 1 : z80Frames'[k].kind = "int") => (\E k \in 1 .. n : z80Frames[k].kind = "int")
      BY <1>3, <2>2
    <3> QED
      BY <1>2, <1>3, <2>1, <2>3, <3>1, <3>2 DEF Enabled
  \* It is an INT's: it leaves with interrupts enabled, as the program below wants.
  <2>5. CASE z80Frames[n].kind # "nmi"
    <3>1. z80Frames[n].kind = "int"
      BY <1>3, <1>4, <2>5
    <3>2. z80Wants
      BY <2>1, <2>2, <3>1 DEF Enabled
    <3>3. z80.iff1 /\ z80.iff2
      BY <1>2, <1>3, <2>1, <3>1 DEF Z80Handler, InMain, Enabled
    <3> QED
      BY <1>2, <1>3, <2>3, <3>2, <3>3 DEF Enabled
  <2> QED
    BY <2>4, <2>5
<1>9. ~z80'.p
  BY <1>5, <1>6
<1> QED
  BY <1>1, <1>2, <1>3, <1>6, <1>7, <1>8, <1>9 DEF Z80Inv, Z80Typed

\* A halted core, and the lines.
LEMMA RestingKeeps ==
  ASSUME Z80Inv, HaltedStep \/ Z80Lines \/ UNCHANGED z80Vars
  PROVE  Z80Inv'
<1>1. Z80Typed
  BY DEF Z80Inv
<1>2. /\ z80Frames' = z80Frames /\ z80Ran' = z80Ran /\ z80Wants' = z80Wants /\ z80Told' = z80Told
      /\ z80Moved' = z80Moved
  BY DEF HaltedStep, Z80Lines, z80Vars
<1>3. CASE HaltedStep
  <2>1. z80' = Z80Core
    BY <1>3 DEF HaltedStep
  <2>2. z80' \in Z80Cores /\ z80'.regs = z80.regs /\ z80'.iff1 = z80.iff1 /\ z80'.iff2 = z80.iff2 /\ ~z80'.p
    BY <1>1, <2>1, CoreIs
  <2>3. Enabled(z80', z80Frames', z80Wants')
    BY <1>2, <2>2, EnabledRuns
  <2> QED
    BY <1>1, <1>2, <2>2, <2>3 DEF Z80Inv, Z80Typed
<1>4. CASE ~HaltedStep
  <2>1. z80' = z80
    BY <1>4 DEF Z80Lines, z80Vars
  <2> QED
    BY <1>2, <2>1 DEF Z80Inv, Z80Typed
<1> QED
  BY <1>3, <1>4

\* Reset, and power on.
LEMMA StartsEnabled ==
  ASSUME NEW c, NEW q, c = [regs |-> Z80Regs, iff1 |-> FALSE, iff2 |-> FALSE, ei |-> FALSE, p |-> FALSE,
                            halted |-> FALSE], q = <<>>
  PROVE  /\ c \in Z80Cores /\ q \in Seq(Z80Saved) /\ Enabled(c, q, FALSE) /\ ~c.p
         /\ MainKept(MainOf(c.regs, q), 0, NoMoves, FALSE) /\ NoMoves \in [due : Nat, made : Nat]
<1>1. Z80Regs \in Z80RegSets /\ Z80Regs.pc = 0 /\ Z80Regs.bc = 0 /\ Z80Regs.pv = FALSE
  BY DEF Z80Regs, Z80RegSets
<1>2. /\ c \in Z80Cores /\ c.regs = Z80Regs /\ c.iff1 = FALSE /\ c.iff2 = FALSE /\ c.p = FALSE
  BY <1>1 DEF Z80Cores
<1>3. Len(q) = 0 /\ ~ \E k \in 1 .. Len(q) : TRUE
  <2>1. Len(q) = 0
    OBVIOUS
  <2> QED
    BY <2>1
<1>4. Enabled(c, q, FALSE)
  BY <1>2, <1>3 DEF Enabled
<1>5. NoMoves \in [due : Nat, made : Nat] /\ NoMoves.due = 0 /\ NoMoves.made = 0
  BY DEF NoMoves
<1>6. MainKept(MainOf(c.regs, q), 0, NoMoves, FALSE)
  BY <1>1, <1>2, <1>5 DEF MainKept, MainOf
<1>7. q \in Seq(Z80Saved) /\ ~c.p
  BY <1>2
<1> QED
  BY <1>2, <1>4, <1>5, <1>6, <1>7

LEMMA UnseenStep ==
  ASSUME Z80Inv, [Z80Next]_z80Vars
  PROVE  Z80Inv'
<1>1. ASSUME Z80Reset PROVE Z80Inv'
  <2>1. /\ z80' = [regs |-> Z80Regs, iff1 |-> FALSE, iff2 |-> FALSE, ei |-> FALSE, p |-> FALSE,
                   halted |-> FALSE]
        /\ z80Frames' = <<>> /\ z80Ran' = 0 /\ z80Wants' = FALSE /\ z80Told' = FALSE /\ z80Moved' = NoMoves
    BY <1>1 DEF Z80Reset
  <2>2. z80Ran' \in Nat /\ z80Wants' \in BOOLEAN /\ z80Told' \in BOOLEAN
    BY <2>1
  <2> QED
    BY <2>1, <2>2, StartsEnabled DEF Z80Inv, Z80Typed
<1> QED
  BY <1>1, PlainKeeps, EiAndDiKeep, LdAIKeeps, BlockKeeps, TakesKeep, ReturnKeeps, RestingKeeps DEF Z80Next

LEMMA UnseenStarts ==
  ASSUME Z80Init
  PROVE  Z80Inv
<1>1. /\ z80 = [regs |-> Z80Regs, iff1 |-> FALSE, iff2 |-> FALSE, ei |-> FALSE, p |-> FALSE, halted |-> FALSE]
      /\ z80Frames = <<>> /\ z80Ran = 0 /\ z80Wants = FALSE /\ z80Told = FALSE /\ z80Moved = NoMoves
  BY DEF Z80Init
<1>2. z80Ran \in Nat /\ z80Wants \in BOOLEAN /\ z80Told \in BOOLEAN
  BY <1>1
<1> QED
  BY <1>1, <1>2, StartsEnabled DEF Z80Inv, Z80Typed

LEMMA InvUnseen ==
  ASSUME Z80Inv
  PROVE  InterruptsUnseen
<1>1. MainRegs = MainOf(z80.regs, z80Frames)
  BY DEF MainRegs, MainOf, InMain
<1>2. z80.iff1 \in BOOLEAN /\ z80.iff2 \in BOOLEAN /\ z80Wants \in BOOLEAN /\ z80.regs.pv \in BOOLEAN
      /\ z80Told \in BOOLEAN
  BY Z80Fields DEF Z80Inv, Z80Typed
<1>3. InMain => (z80.iff1 <=> z80Wants) /\ (z80.iff2 <=> z80Wants)
  <2>1. InMain => Len(z80Frames) = 0
    BY DEF InMain
  <2>2. InMain => ~ \E k \in 1 .. Len(z80Frames) : TRUE
    BY <2>1
  <2> QED
    BY <2>2 DEF Z80Inv, Enabled, InMain
<1>4. InMain => z80.iff1 = z80Wants /\ z80.iff2 = z80Wants
  BY <1>2, <1>3
<1>5. InMain /\ z80.p => z80.regs.pv = z80Told
  BY <1>2 DEF Z80Inv, InMain
<1>6. MainKept(MainRegs, z80Ran, z80Moved, z80Told)
  BY <1>1 DEF Z80Inv
<1> QED
  BY <1>4, <1>5, <1>6 DEF InterruptsUnseen, MainKept

----------------------------------------------------------------------------
(***************************************************************************)
(* Interrupts and traps of the 8086.                                       *)
(***************************************************************************)

X86Cores == [ip : Nat, if : BOOLEAN, tf : BOOLEAN, halted : BOOLEAN, inhibit : BOOLEAN, cx : Nat,
             half : BOOLEAN]
X86Saved == [kind : {"irq", "trap", "int"}, ip : Nat, if : BOOLEAN, tf : BOOLEAN, cx : Nat, half : BOOLEAN]

X86Typed ==
  /\ x86 \in X86Cores /\ x86Frames \in Seq(X86Saved) /\ x86Ran \in Nat
  /\ x86Wants \in [if : BOOLEAN, tf : BOOLEAN]
  /\ x86Traced \in [due : Nat, taken : Nat] /\ x86Moved \in [due : Nat, made : Nat]

Whole(frames) == \A k \in 1 .. Len(frames) : ~frames[k].half

\* The main program in a stack of frames over a core; that it is where its own
\* instructions put it.
Below(c, frames) == IF frames = <<>> THEN c ELSE frames[1]
Unharmed(m, ran, wants, moves) ==
  /\ m.ip = ran /\ m.cx + moves.made = moves.due
  /\ (m.if <=> wants.if) /\ (m.tf <=> wants.tf)

\* Between SS and SP the shadow holds, in the main program, which runs.
HalfHeld(c, frames) == c.half => c.inhibit /\ ~c.halted /\ frames = <<>>

X86Inv ==
  /\ X86Typed
  /\ Whole(x86Frames) /\ HalfHeld(x86, x86Frames)
  /\ Unharmed(Below(x86, x86Frames), x86Ran, x86Wants, x86Moved)
  /\ x86Traced.due = x86Traced.taken

Same(m, c) == m.ip = c.ip /\ m.cx = c.cx /\ m.if = c.if /\ m.tf = c.tf

LEMMA X86Fields ==
  ASSUME NEW c \in X86Cores
  PROVE  /\ c.ip \in Nat /\ c.if \in BOOLEAN /\ c.tf \in BOOLEAN /\ c.halted \in BOOLEAN
         /\ c.inhibit \in BOOLEAN /\ c.cx \in Nat /\ c.half \in BOOLEAN
BY DEF X86Cores

\* What deliver_interrupt pushes, and the core in the handler.
LEMMA Delivers ==
  ASSUME NEW kind \in {"irq", "trap", "int"}, NEW c \in X86Cores
  PROVE  /\ X86Frame(kind, c) \in X86Saved /\ X86Delivered(c) \in X86Cores
         /\ Same(X86Frame(kind, c), c) /\ X86Frame(kind, c).half = c.half
         /\ X86Delivered(c).half = c.half /\ X86Delivered(c).inhibit = c.inhibit
<1>1. X86Frame(kind, c) \in X86Saved /\ Same(X86Frame(kind, c), c) /\ X86Frame(kind, c).half = c.half
  BY X86Fields DEF X86Frame, X86Saved, Same
<1> QED
  BY <1>1 DEF X86Delivered, X86Cores

\* A frame on top of a stack.
LEMMA Heaped ==
  ASSUME NEW q \in Seq(X86Saved), Whole(q), NEW f \in X86Saved, ~f.half, NEW c, NEW d, Same(f, c)
  PROVE  /\ Append(q, f) \in Seq(X86Saved) /\ Append(q, f) # <<>> /\ Whole(Append(q, f))
         /\ \/ Below(d, Append(q, f)) = Below(c, q)
            \/ q = <<>> /\ Same(Below(d, Append(q, f)), c)
<1> DEFINE a == Append(q, f)
<1>1. /\ a \in Seq(X86Saved) /\ Len(a) = Len(q) + 1 /\ Len(q) \in Nat /\ a[Len(q) + 1] = f
      /\ \A i \in 1 .. Len(q) : a[i] = q[i]
  BY AppendLast
<1> HIDE DEF a
<1>2. a # <<>>
  BY <1>1, EmptySeq
<1>3. \A k \in 1 .. Len(a) : k \in 1 .. Len(q) \/ k = Len(q) + 1
  BY <1>1
<1>4. Whole(a)
  BY <1>1, <1>3 DEF Whole
<1>5. CASE q = <<>>
  <2>1. Len(q) = 0
    BY <1>5
  <2>2. a[1] = f
    BY <1>1, <2>1
  <2> QED
    BY <1>1, <1>2, <1>4, <1>5, <2>2 DEF Below, a
<1>6. CASE q # <<>>
  <2>1. Len(q) > 0
    BY <1>6, EmptySeq
  <2>2. a[1] = q[1]
    BY <1>1, <2>1
  <2> QED
    BY <1>1, <1>2, <1>4, <1>6, <2>2 DEF Below, a
<1> QED
  BY <1>5, <1>6

\* A frame off a stack, its fields in the core.
LEMMA Unheaped ==
  ASSUME NEW q \in Seq(X86Saved), Whole(q), q # <<>>, NEW c, NEW d, Same(c, Last(q))
  PROVE  /\ Front(q) \in Seq(X86Saved) /\ Whole(Front(q)) /\ Last(q) \in X86Saved /\ ~Last(q).half
         /\ Same(Below(c, Front(q)), Below(d, q))
<1>1. /\ Len(q) \in Nat \ {0} /\ Last(q) = q[Len(q)] /\ Last(q) \in X86Saved
      /\ Front(q) \in Seq(X86Saved) /\ Len(Front(q)) = Len(q) - 1
      /\ \A i \in 1 .. Len(q) - 1 : Front(q)[i] = q[i]
  BY FrontLast
<1>2. Whole(Front(q)) /\ ~Last(q).half
  <2>1. Len(q) \in 1 .. Len(q) /\ 1 .. Len(q) - 1 \subseteq 1 .. Len(q)
    BY <1>1
  <2> QED
    BY <1>1, <2>1 DEF Whole
<1>3. CASE Front(q) = <<>>
  <2>1. Len(q) = 1
    <3>1. Len(Front(q)) = 0
      BY <1>3
    <3> QED
      BY <1>1, <3>1
  <2>2. Below(c, Front(q)) = c /\ Below(d, q) = Last(q)
    BY <1>1, <1>3, <2>1 DEF Below
  <2> QED
    BY <1>1, <1>2, <2>2
<1>4. CASE Front(q) # <<>>
  <2>1. Len(q) > 1
    <3>1. Len(Front(q)) # 0
      BY <1>1, <1>4, EmptySeq
    <3> QED
      BY <1>1, <3>1
  <2>2. Below(c, Front(q)) = q[1] /\ Below(d, q) = q[1]
    BY <1>1, <1>4, <2>1 DEF Below
  <2> QED
    BY <1>1, <1>2, <2>2 DEF Same
<1> QED
  BY <1>3, <1>4

\* An instruction's end.  Whatever it left of the core and the stack, a trap on
\* top of it included, the main program is where the instruction put it, and
\* one that begins with TF set traps just when it should.
LEMMA CompletesWhole ==
  ASSUME X86Inv, NEW c \in X86Cores, NEW q \in Seq(X86Saved), Whole(q), HalfHeld(c, q),
         Completes(c, q), x86Wants' \in [if : BOOLEAN, tf : BOOLEAN],
         x86Moved' \in [due : Nat, made : Nat],
         Unharmed(Below(c, q), x86Ran', x86Wants', x86Moved')
  PROVE  X86Inv'
<1>1. x86 \in X86Cores /\ x86.tf \in BOOLEAN /\ c.inhibit \in BOOLEAN /\ c.half \in BOOLEAN /\ x86Ran \in Nat
  BY X86Fields DEF X86Inv, X86Typed
<1>2. /\ x86Ran' = IF X86InMain THEN x86Ran + 1 ELSE x86Ran
      /\ x86Traced' = IF X86InMain
                      THEN [due |-> x86Traced.due + (IF x86Wants.tf /\ ~c.inhibit THEN 1 ELSE 0),
                            taken |-> x86Traced.taken + (IF Traps(c) THEN 1 ELSE 0)]
                      ELSE x86Traced
      /\ IF Traps(c)
         THEN x86Frames' = Append(q, X86Frame("trap", c)) /\ x86' = X86Delivered(c)
         ELSE x86Frames' = q /\ x86' = c
  BY DEF Completes
<1>3. x86Ran' \in Nat
  BY <1>1, <1>2
<1>4. x86Traced' \in [due : Nat, taken : Nat] /\ x86Traced'.due = x86Traced'.taken
  <2>1. x86Traced \in [due : Nat, taken : Nat] /\ x86Traced.due = x86Traced.taken
    BY DEF X86Inv, X86Typed
  <2>2. CASE X86InMain
    <3>1. x86.tf <=> x86Wants.tf
      BY <2>2 DEF X86Inv, Unharmed, Below, X86InMain
    <3>2. (x86Wants.tf /\ ~c.inhibit) <=> Traps(c)
      BY <3>1 DEF Traps
    <3> DEFINE n == IF Traps(c) THEN 1 ELSE 0
    <3>3. x86Traced' = [due |-> x86Traced.due + n, taken |-> x86Traced.taken + n]
      BY <1>2, <2>2, <3>2
    <3>4. n \in Nat
      OBVIOUS
    <3> HIDE DEF n
    <3> QED
      BY <2>1, <3>3, <3>4
  <2> QED
    BY <1>2, <2>1, <2>2
<1>5. CASE Traps(c)
  <2>1. x86Frames' = Append(q, X86Frame("trap", c)) /\ x86' = X86Delivered(c) /\ ~c.inhibit /\ ~c.half
    BY <1>2, <1>5 DEF Traps, HalfHeld
  <2>2. /\ X86Frame("trap", c) \in X86Saved /\ x86' \in X86Cores /\ Same(X86Frame("trap", c), c)
        /\ ~X86Frame("trap", c).half /\ ~x86'.half
    BY <2>1, Delivers
  <2>3. /\ x86Frames' \in Seq(X86Saved) /\ Whole(x86Frames')
        /\ \/ Below(x86', x86Frames') = Below(c, q)
           \/ q = <<>> /\ Same(Below(x86', x86Frames'), c)
    BY <2>1, <2>2, Heaped
  <2>4. Same(Below(x86', x86Frames'), Below(c, q))
    BY <2>3 DEF Same, Below
  <2>5. Unharmed(Below(x86', x86Frames'), x86Ran', x86Wants', x86Moved')
    BY <2>4 DEF Same, Unharmed
  <2> QED
    BY <1>3, <1>4, <2>2, <2>3, <2>5 DEF X86Inv, X86Typed, HalfHeld
<1>6. CASE ~Traps(c)
  <2>1. x86Frames' = q /\ x86' = c
    BY <1>2, <1>6
  <2> QED
    BY <1>3, <1>4, <2>1 DEF X86Inv, X86Typed
<1> QED
  BY <1>5, <1>6

\* The core an instruction starts from.
LEMMA Next86Is ==
  ASSUME X86Typed
  PROVE  /\ Next86 \in X86Cores /\ ~Next86.inhibit /\ Next86.halted = x86.halted /\ Next86.half = x86.half
         /\ Next86.ip = (IF X86InMain THEN x86.ip + 1 ELSE 0) /\ Next86.cx = x86.cx
         /\ Next86.if = x86.if /\ Next86.tf = x86.tf
<1> DEFINE n == IF X86InMain THEN x86.ip + 1 ELSE 0
<1>1. x86 \in X86Cores /\ n \in Nat
  BY X86Fields DEF X86Typed
<1>2. Next86 = [x86 EXCEPT !.inhibit = FALSE, !.ip = n]
  BY DEF Next86
<1> HIDE DEF n
<1>3. /\ Next86 \in X86Cores /\ Next86.inhibit = FALSE /\ Next86.halted = x86.halted /\ Next86.half = x86.half
      /\ Next86.ip = n /\ Next86.cx = x86.cx /\ Next86.if = x86.if /\ Next86.tf = x86.tf
  BY <1>1, <1>2 DEF X86Cores
<1> QED
  BY <1>3 DEF n

\* An instruction that pushes and pops nothing, in the main program or above it.
LEMMA RunsWhole ==
  ASSUME X86Inv, NEW c \in X86Cores, Completes(c, x86Frames), HalfHeld(c, x86Frames),
         c.ip = Next86.ip,
         x86Wants' \in [if : BOOLEAN, tf : BOOLEAN], x86Moved' \in [due : Nat, made : Nat],
         ~X86InMain => x86Wants' = x86Wants /\ x86Moved' = x86Moved,
         X86InMain => /\ c.cx + x86Moved'.made = x86Moved'.due
                      /\ (c.if <=> x86Wants'.if) /\ (c.tf <=> x86Wants'.tf)
  PROVE  X86Inv'
<1>1. x86Frames \in Seq(X86Saved) /\ Whole(x86Frames) /\ X86Typed
      /\ Unharmed(Below(x86, x86Frames), x86Ran, x86Wants, x86Moved)
  BY DEF X86Inv, X86Typed
<1>2. x86Ran' = IF X86InMain THEN x86Ran + 1 ELSE x86Ran
  BY DEF Completes
<1>3. Next86.ip = (IF X86InMain THEN x86.ip + 1 ELSE 0)
  BY <1>1, Next86Is
<1>4. Unharmed(Below(c, x86Frames), x86Ran', x86Wants', x86Moved')
  <2>1. CASE X86InMain
    <3>1. Below(c, x86Frames) = c /\ Below(x86, x86Frames) = x86
      BY <2>1 DEF X86InMain, Below
    <3>2. x86.ip = x86Ran
      BY <1>1, <3>1 DEF Unharmed
    <3>3. c.ip = x86Ran'
      BY <1>2, <1>3, <2>1, <3>2
    <3> QED
      BY <2>1, <3>1, <3>3 DEF Unharmed
  <2>2. CASE ~X86InMain
    <3>1. Below(c, x86Frames) = Below(x86, x86Frames)
      BY <2>2 DEF X86InMain, Below
    <3> QED
      BY <1>1, <1>2, <2>2, <3>1
  <2> QED
    BY <2>1, <2>2
<1> QED
  BY <1>1, <1>4, CompletesWhole

\* What the main program is owed before the instruction.
LEMMA MainHas ==
  ASSUME X86Inv
  PROVE  /\ X86Typed /\ x86 \in X86Cores /\ x86Wants \in [if : BOOLEAN, tf : BOOLEAN]
         /\ x86Moved \in [due : Nat, made : Nat]
         /\ X86InMain => /\ x86.cx + x86Moved.made = x86Moved.due
                         /\ (x86.if <=> x86Wants.if) /\ (x86.tf <=> x86Wants.tf)
<1>1. X86Typed /\ x86 \in X86Cores /\ x86Wants \in [if : BOOLEAN, tf : BOOLEAN]
      /\ x86Moved \in [due : Nat, made : Nat]
  BY DEF X86Inv, X86Typed
<1>2. X86InMain => Below(x86, x86Frames) = x86
  BY DEF X86InMain, Below
<1> QED
  BY <1>1, <1>2 DEF X86Inv, Unharmed

LEMMA StraightKeeps ==
  ASSUME X86Inv, (~x86.half /\ (Ordinary \/ MovSs \/ X86Hlt)) \/ MovSp
  PROVE  X86Inv'
<1>1. /\ X86Typed /\ x86 \in X86Cores /\ x86Wants \in [if : BOOLEAN, tf : BOOLEAN]
      /\ x86Moved \in [due : Nat, made : Nat]
      /\ X86InMain => /\ x86.cx + x86Moved.made = x86Moved.due
                      /\ (x86.if <=> x86Wants.if) /\ (x86.tf <=> x86Wants.tf)
  BY MainHas
<1>2. /\ Next86 \in X86Cores /\ ~Next86.inhibit /\ Next86.halted = x86.halted /\ Next86.half = x86.half
      /\ Next86.cx = x86.cx /\ Next86.if = x86.if /\ Next86.tf = x86.tf
  BY <1>1, Next86Is
<1>3. ASSUME NEW c \in X86Cores, Completes(c, x86Frames), HalfHeld(c, x86Frames), c.ip = Next86.ip,
             c.cx = Next86.cx, c.if = Next86.if, c.tf = Next86.tf, x86Wants' = x86Wants, x86Moved' = x86Moved
      PROVE  X86Inv'
  <2>1. X86InMain => /\ c.cx + x86Moved'.made = x86Moved'.due
                     /\ (c.if <=> x86Wants'.if) /\ (c.tf <=> x86Wants'.tf)
    BY <1>1, <1>2, <1>3
  <2> QED
    BY <1>1, <1>3, <2>1, RunsWhole
<1>4. CASE ~x86.half /\ Ordinary
  <2>1. HalfHeld(Next86, x86Frames)
    BY <1>2, <1>4 DEF HalfHeld
  <2> QED
    BY <1>2, <1>3, <1>4, <2>1 DEF Ordinary
<1>5. CASE MovSs
  <2> DEFINE c == [Next86 EXCEPT !.inhibit = TRUE, !.half = TRUE]
  <2>1. /\ X86InMain /\ Completes(c, x86Frames) /\ ~x86.halted /\ x86Wants' = x86Wants /\ x86Moved' = x86Moved
    BY <1>5 DEF MovSs, Completes, Fetches
  <2>2. /\ c \in X86Cores /\ c.inhibit = TRUE /\ c.halted = Next86.halted /\ c.ip = Next86.ip
        /\ c.cx = Next86.cx /\ c.if = Next86.if /\ c.tf = Next86.tf
    BY <1>2 DEF X86Cores
  <2> HIDE DEF c
  <2>3. HalfHeld(c, x86Frames)
    BY <1>2, <2>1, <2>2 DEF HalfHeld, X86InMain
  <2> QED
    BY <1>3, <2>1, <2>2, <2>3
<1>6. CASE ~x86.half /\ X86Hlt
  <2> DEFINE c == [Next86 EXCEPT !.halted = TRUE]
  <2>1. Completes(c, x86Frames) /\ x86Wants' = x86Wants /\ x86Moved' = x86Moved
    BY <1>6 DEF X86Hlt
  <2>2. /\ c \in X86Cores /\ c.half = Next86.half /\ c.ip = Next86.ip
        /\ c.cx = Next86.cx /\ c.if = Next86.if /\ c.tf = Next86.tf
    BY <1>2 DEF X86Cores
  <2> HIDE DEF c
  <2>3. HalfHeld(c, x86Frames)
    BY <1>2, <1>6, <2>2 DEF HalfHeld
  <2> QED
    BY <1>3, <2>1, <2>2, <2>3
<1>7. CASE MovSp
  <2> DEFINE c == [Next86 EXCEPT !.half = FALSE]
  <2>1. Completes(c, x86Frames) /\ x86Wants' = x86Wants /\ x86Moved' = x86Moved
    BY <1>7 DEF MovSp
  <2>2. /\ c \in X86Cores /\ c.half = FALSE /\ c.ip = Next86.ip
        /\ c.cx = Next86.cx /\ c.if = Next86.if /\ c.tf = Next86.tf
    BY <1>2 DEF X86Cores
  <2> HIDE DEF c
  <2>3. HalfHeld(c, x86Frames)
    BY <2>2 DEF HalfHeld
  <2> QED
    BY <1>3, <2>1, <2>2, <2>3
<1> QED
  BY <1>4, <1>5, <1>6, <1>7

LEMMA FlagsKeep ==
  ASSUME X86Inv, ~x86.half, \/ \E on \in BOOLEAN : SetIf(on)
                            \/ \E if, tf \in BOOLEAN : Popf(if, tf)
  PROVE  X86Inv'
<1>1. /\ X86Typed /\ x86 \in X86Cores /\ x86Wants \in [if : BOOLEAN, tf : BOOLEAN]
      /\ x86Moved \in [due : Nat, made : Nat]
      /\ X86InMain => /\ x86.cx + x86Moved.made = x86Moved.due
                      /\ (x86.if <=> x86Wants.if) /\ (x86.tf <=> x86Wants.tf)
  BY MainHas
<1>2. /\ Next86 \in X86Cores /\ Next86.half = x86.half
      /\ Next86.cx = x86.cx /\ Next86.if = x86.if /\ Next86.tf = x86.tf
  BY <1>1, Next86Is
<1>3. ASSUME NEW on \in BOOLEAN, SetIf(on) PROVE X86Inv'
  <2> DEFINE c == [Next86 EXCEPT !.if = on, !.inhibit = on]
  <2>1. /\ Completes(c, x86Frames) /\ x86Moved' = x86Moved
        /\ x86Wants' = IF X86InMain THEN [x86Wants EXCEPT !.if = on] ELSE x86Wants
    BY <1>3 DEF SetIf
  <2>2. /\ c \in X86Cores /\ c.half = Next86.half /\ c.ip = Next86.ip
        /\ c.cx = Next86.cx /\ c.if = on /\ c.tf = Next86.tf
    BY <1>2 DEF X86Cores
  <2> HIDE DEF c
  <2>3. HalfHeld(c, x86Frames)
    BY <1>2, <2>2 DEF HalfHeld
  <2>4. x86Wants' \in [if : BOOLEAN, tf : BOOLEAN] /\ (X86InMain => x86Wants'.if = on /\ x86Wants'.tf = x86Wants.tf)
    BY <1>1, <2>1
  <2>5. X86InMain => /\ c.cx + x86Moved'.made = x86Moved'.due
                     /\ (c.if <=> x86Wants'.if) /\ (c.tf <=> x86Wants'.tf)
    BY <1>1, <1>2, <2>1, <2>2, <2>4
  <2>6. ~X86InMain => x86Wants' = x86Wants
    BY <2>1
  <2> QED
    BY <1>1, <2>1, <2>2, <2>3, <2>4, <2>5, <2>6, RunsWhole
<1>4. ASSUME NEW if \in BOOLEAN, NEW tf \in BOOLEAN, Popf(if, tf) PROVE X86Inv'
  <2> DEFINE c == [Next86 EXCEPT !.if = if, !.tf = tf]
  <2>1. /\ X86InMain /\ Completes(c, x86Frames) /\ x86Moved' = x86Moved
        /\ x86Wants' = [if |-> if, tf |-> tf]
    BY <1>4 DEF Popf
  <2>2. /\ c \in X86Cores /\ c.half = Next86.half /\ c.ip = Next86.ip
        /\ c.cx = Next86.cx /\ c.if = if /\ c.tf = tf
    BY <1>2 DEF X86Cores
  <2> HIDE DEF c
  <2>3. HalfHeld(c, x86Frames)
    BY <1>2, <2>2 DEF HalfHeld
  <2>4. x86Wants' \in [if : BOOLEAN, tf : BOOLEAN] /\ x86Wants'.if = if /\ x86Wants'.tf = tf
    BY <2>1
  <2>5. /\ c.cx + x86Moved'.made = x86Moved'.due
        /\ (c.if <=> x86Wants'.if) /\ (c.tf <=> x86Wants'.tf)
    BY <1>1, <1>2, <2>1, <2>2, <2>4
  <2> QED
    BY <1>1, <2>1, <2>2, <2>3, <2>4, <2>5, RunsWhole
<1> QED
  BY <1>3, <1>4

LEMMA StringsKeep ==
  ASSUME X86Inv, ~x86.half, \E n \in 1 .. X86Count : LoadCx(n) \/ Repeated(n)
  PROVE  X86Inv'
<1>1. /\ X86Typed /\ x86 \in X86Cores /\ x86Wants \in [if : BOOLEAN, tf : BOOLEAN]
      /\ x86Moved \in [due : Nat, made : Nat] /\ x86.cx \in Nat
      /\ X86InMain => /\ x86.cx + x86Moved.made = x86Moved.due
                      /\ (x86.if <=> x86Wants.if) /\ (x86.tf <=> x86Wants.tf)
  BY MainHas, X86Fields
<1>2. /\ Next86 \in X86Cores /\ Next86.half = x86.half
      /\ Next86.cx = x86.cx /\ Next86.if = x86.if /\ Next86.tf = x86.tf
  BY <1>1, Next86Is
<1>3. ASSUME NEW m \in Nat, Completes([Next86 EXCEPT !.cx = m], x86Frames), X86InMain,
             x86Wants' = x86Wants, x86Moved' \in [due : Nat, made : Nat], m + x86Moved'.made = x86Moved'.due
      PROVE  X86Inv'
  <2> DEFINE c == [Next86 EXCEPT !.cx = m]
  <2>1. /\ c \in X86Cores /\ c.half = Next86.half /\ c.ip = Next86.ip
        /\ c.cx = m /\ c.if = Next86.if /\ c.tf = Next86.tf
    BY <1>2 DEF X86Cores
  <2>2. Completes(c, x86Frames)
    BY <1>3
  <2> HIDE DEF c
  <2>3. HalfHeld(c, x86Frames)
    BY <1>2, <2>1 DEF HalfHeld
  <2>4. /\ c.cx + x86Moved'.made = x86Moved'.due
        /\ (c.if <=> x86Wants'.if) /\ (c.tf <=> x86Wants'.tf)
    BY <1>1, <1>2, <1>3, <2>1
  <2> QED
    BY <1>1, <1>3, <2>1, <2>2, <2>3, <2>4, RunsWhole
<1>4. ASSUME NEW n \in 1 .. X86Count, LoadCx(n) PROVE X86Inv'
  <2>1. /\ X86InMain /\ Completes([Next86 EXCEPT !.cx = n], x86Frames) /\ x86Wants' = x86Wants
        /\ x86Moved' = [due |-> n, made |-> 0] /\ n \in Nat
    BY <1>4 DEF LoadCx
  <2>2. x86Moved' \in [due : Nat, made : Nat] /\ n + x86Moved'.made = x86Moved'.due
    BY <2>1
  <2> QED
    BY <1>3, <2>1, <2>2
<1>5. ASSUME NEW n \in 1 .. X86Count, Repeated(n) PROVE X86Inv'
  <2> DEFINE m == Next86.cx - n
  <2>1. /\ X86InMain /\ n \in 1 .. x86.cx /\ Completes([Next86 EXCEPT !.cx = m], x86Frames)
        /\ x86Wants' = x86Wants /\ x86Moved' = [x86Moved EXCEPT !.made = @ + n]
    BY <1>5 DEF Repeated
  <2>2. m \in Nat /\ m + n = x86.cx /\ n \in Nat
    BY <1>1, <1>2, <2>1
  <2> HIDE DEF m
  <2>3. /\ x86Moved' \in [due : Nat, made : Nat] /\ x86Moved'.made = x86Moved.made + n
        /\ x86Moved'.due = x86Moved.due /\ x86Moved.made \in Nat /\ x86Moved.due \in Nat
    BY <1>1, <2>1, <2>2
  <2>4. m + x86Moved'.made = x86Moved'.due
    BY <1>1, <2>1, <2>2, <2>3
  <2> QED
    BY <1>3, <2>1, <2>2, <2>3, <2>4
<1> QED
  BY <1>4, <1>5

\* INT n: its frame on the stack of the main program, a trap's perhaps above it.
LEMMA SoftwareKeeps ==
  ASSUME X86Inv, ~x86.half, Software
  PROVE  X86Inv'
<1>1. /\ X86Typed /\ x86 \in X86Cores /\ x86Wants \in [if : BOOLEAN, tf : BOOLEAN]
      /\ x86Moved \in [due : Nat, made : Nat]
      /\ X86InMain => /\ x86.cx + x86Moved.made = x86Moved.due
                      /\ (x86.if <=> x86Wants.if) /\ (x86.tf <=> x86Wants.tf)
  BY MainHas
<1>2. /\ Next86 \in X86Cores /\ Next86.half = x86.half
      /\ Next86.ip = (IF X86InMain THEN x86.ip + 1 ELSE 0)
      /\ Next86.cx = x86.cx /\ Next86.if = x86.if /\ Next86.tf = x86.tf
  BY <1>1, Next86Is
<1> DEFINE f == X86Frame("int", Next86)
           c == X86Delivered(Next86)
           q == Append(x86Frames, f)
<1>3. /\ X86InMain /\ Completes(c, q) /\ x86Wants' = x86Wants /\ x86Moved' = x86Moved
  BY DEF Software
<1>4. x86Ran' = x86Ran + 1 /\ x86.ip = x86Ran
  BY <1>3 DEF Completes, X86Inv, Unharmed, Below, X86InMain
<1>5. f \in X86Saved /\ c \in X86Cores /\ Same(f, Next86) /\ f.half = Next86.half /\ c.half = Next86.half
  BY <1>2, Delivers
<1> HIDE DEF f, c
<1>6. /\ q \in Seq(X86Saved) /\ Whole(q)
      /\ \/ Below(c, q) = Below(Next86, x86Frames)
         \/ x86Frames = <<>> /\ Same(Below(c, q), Next86)
  BY <1>2, <1>5, Heaped DEF X86Inv, X86Typed
<1>7. Same(Below(c, q), Next86)
  BY <1>3, <1>6 DEF Same, Below, X86InMain
<1> HIDE DEF q
<1>8. Unharmed(Below(c, q), x86Ran', x86Wants', x86Moved')
  BY <1>1, <1>2, <1>3, <1>4, <1>7 DEF Unharmed, Same
<1>9. HalfHeld(c, q)
  BY <1>2, <1>5 DEF HalfHeld
<1> QED
  BY <1>1, <1>3, <1>5, <1>6, <1>8, <1>9, CompletesWhole

\* IRET: the frame's fields come back.
LEMMA IretKeeps ==
  ASSUME X86Inv, ~x86.half, Iret
  PROVE  X86Inv'
<1>1. /\ X86Typed /\ x86 \in X86Cores /\ x86Wants \in [if : BOOLEAN, tf : BOOLEAN]
      /\ x86Moved \in [due : Nat, made : Nat] /\ x86Frames \in Seq(X86Saved) /\ Whole(x86Frames)
  BY MainHas DEF X86Inv, X86Typed
<1> DEFINE f == Last(x86Frames)
           c == [x86 EXCEPT !.inhibit = FALSE, !.ip = f.ip, !.if = f.if, !.tf = f.tf,
                            !.cx = f.cx, !.half = f.half]
           q == Front(x86Frames)
<1>2. ~X86InMain /\ Completes(c, q) /\ x86Wants' = x86Wants /\ x86Moved' = x86Moved
  BY DEF Iret
<1>3. x86Ran' = x86Ran
  BY <1>2 DEF Completes
<1>4. f \in X86Saved /\ ~f.half
  BY <1>1, <1>2, Unheaped DEF X86InMain, Same
<1>5. c \in X86Cores /\ Same(c, f) /\ c.half = f.half
  <2> HIDE DEF f
  <2> QED
    BY <1>1, <1>4 DEF X86Cores, X86Saved, Same
<1> HIDE DEF c
<1>6. q \in Seq(X86Saved) /\ Whole(q) /\ Same(Below(c, q), Below(x86, x86Frames))
  BY <1>1, <1>2, <1>5, Unheaped DEF X86InMain
<1> HIDE DEF q, f
<1>7. Unharmed(Below(c, q), x86Ran', x86Wants', x86Moved')
  BY <1>2, <1>3, <1>6 DEF Unharmed, Same, X86Inv
<1>8. HalfHeld(c, q)
  BY <1>4, <1>5 DEF HalfHeld
<1> QED
  BY <1>1, <1>2, <1>5, <1>6, <1>7, <1>8, CompletesWhole

\* An interrupt is acknowledged, but not in the shadow of an instruction: what
\* is pushed is whole.
LEMMA X86AcknowledgeKeeps ==
  ASSUME X86Inv, X86Acknowledge
  PROVE  X86Inv'
<1>1. /\ X86Typed /\ x86 \in X86Cores /\ x86Frames \in Seq(X86Saved) /\ Whole(x86Frames)
      /\ x86.half \in BOOLEAN
  BY X86Fields DEF X86Inv, X86Typed
<1> DEFINE f == X86Frame("irq", x86)
           c == X86Delivered(x86)
<1>2. /\ ~x86.inhibit /\ x86Frames' = Append(x86Frames, f)
      /\ x86' = [c EXCEPT !.halted = FALSE, !.inhibit = FALSE]
      /\ UNCHANGED <<x86Ran, x86Wants, x86Traced, x86Moved>>
  BY DEF X86Acknowledge, Answers
<1>3. ~x86.half
  BY <1>2 DEF X86Inv, HalfHeld
<1>4. f \in X86Saved /\ c \in X86Cores /\ Same(f, x86) /\ f.half = x86.half /\ c.half = x86.half
  BY <1>1, Delivers
<1> HIDE DEF f, c
<1>5. x86' \in X86Cores /\ x86'.half = c.half
  BY <1>2, <1>4 DEF X86Cores
<1>6. /\ x86Frames' \in Seq(X86Saved) /\ Whole(x86Frames')
      /\ \/ Below(x86', x86Frames') = Below(x86, x86Frames)
         \/ x86Frames = <<>> /\ Same(Below(x86', x86Frames'), x86)
  BY <1>1, <1>2, <1>3, <1>4, Heaped
<1>7. Same(Below(x86', x86Frames'), Below(x86, x86Frames))
  <2>1. CASE Below(x86', x86Frames') = Below(x86, x86Frames)
    BY <2>1 DEF Same
  <2>2. CASE x86Frames = <<>> /\ Same(Below(x86', x86Frames'), x86)
    <3>1. Below(x86, x86Frames) = x86
      BY <2>2 DEF Below
    <3> QED
      BY <2>2, <3>1
  <2> QED
    BY <1>6, <2>1, <2>2
<1>8. Unharmed(Below(x86', x86Frames'), x86Ran', x86Wants', x86Moved')
  BY <1>2, <1>7 DEF Unharmed, Same, X86Inv
<1>9. HalfHeld(x86', x86Frames')
  BY <1>3, <1>4, <1>5 DEF HalfHeld
<1> QED
  BY <1>2, <1>5, <1>6, <1>8, <1>9 DEF X86Inv, X86Typed

LEMMA WaitingKeeps ==
  ASSUME X86Inv, X86Halted \/ Devices \/ UNCHANGED x86Vars
  PROVE  X86Inv'
<1>1. UNCHANGED <<x86Frames, x86Ran, x86Wants, x86Traced, x86Moved>>
  BY DEF X86Halted, Devices, x86Vars
<1>2. CASE X86Halted
  <2>1. x86.halted /\ x86' = [x86 EXCEPT !.inhibit = FALSE] /\ x86 \in X86Cores
    BY <1>2 DEF X86Halted, X86Inv, X86Typed
  <2>2. x86' \in X86Cores /\ Same(x86', x86) /\ x86'.half = x86.half
    BY <2>1 DEF X86Cores, Same
  <2>3. ~x86.half
    BY <2>1 DEF X86Inv, HalfHeld
  <2>4. Same(Below(x86', x86Frames'), Below(x86, x86Frames))
    BY <1>1, <2>2 DEF Same, Below
  <2>5. Unharmed(Below(x86', x86Frames'), x86Ran', x86Wants', x86Moved')
    BY <1>1, <2>4 DEF Unharmed, Same, X86Inv
  <2> QED
    BY <1>1, <2>2, <2>3, <2>5 DEF X86Inv, X86Typed, HalfHeld
<1>3. CASE ~X86Halted
  <2>1. x86' = x86
    BY <1>3 DEF Devices, x86Vars
  <2> QED
    BY <1>1, <2>1 DEF X86Inv, X86Typed
<1> QED
  BY <1>2, <1>3

LEMMA StartsWhole ==
  ASSUME NEW c, NEW q, NEW w, NEW m,
         c = [ip |-> 0, if |-> FALSE, tf |-> FALSE, halted |-> FALSE, inhibit |-> FALSE, cx |-> 0,
              half |-> FALSE],
         q = <<>>, w = [if |-> FALSE, tf |-> FALSE], m = [due |-> 0, made |-> 0]
  PROVE  /\ c \in X86Cores /\ q \in Seq(X86Saved) /\ Whole(q) /\ HalfHeld(c, q)
         /\ w \in [if : BOOLEAN, tf : BOOLEAN] /\ m \in [due : Nat, made : Nat]
         /\ Unharmed(Below(c, q), 0, w, m)
<1>1. c \in X86Cores /\ c.half = FALSE /\ c.ip = 0 /\ c.cx = 0 /\ c.if = FALSE /\ c.tf = FALSE
  BY DEF X86Cores
<1>2. q \in Seq(X86Saved) /\ Len(q) = 0
  OBVIOUS
<1>3. Whole(q)
  BY <1>2 DEF Whole
<1>4. /\ w \in [if : BOOLEAN, tf : BOOLEAN] /\ m \in [due : Nat, made : Nat]
      /\ w.if = FALSE /\ w.tf = FALSE /\ m.due = 0 /\ m.made = 0
  OBVIOUS
<1>5. Unharmed(Below(c, q), 0, w, m)
  BY <1>1, <1>4 DEF Unharmed, Below
<1>6. HalfHeld(c, q)
  BY <1>1 DEF HalfHeld
<1> QED
  BY <1>1, <1>2, <1>3, <1>4, <1>5, <1>6

LEMMA TransparentStep ==
  ASSUME X86Inv, [X86Next]_x86Vars
  PROVE  X86Inv'
<1>1. ASSUME X86Reset PROVE X86Inv'
  <2>1. /\ x86' = [ip |-> 0, if |-> FALSE, tf |-> FALSE, halted |-> FALSE, inhibit |-> FALSE,
                   cx |-> 0, half |-> FALSE]
        /\ x86Frames' = <<>> /\ x86Wants' = [if |-> FALSE, tf |-> FALSE]
        /\ x86Moved' = [due |-> 0, made |-> 0]
    BY <1>1 DEF X86Reset
  <2>2. x86Ran' = 0 /\ x86Traced' = [due |-> 0, taken |-> 0]
    BY <1>1 DEF X86Reset
  <2>3. x86Traced' \in [due : Nat, taken : Nat] /\ x86Traced'.due = x86Traced'.taken /\ x86Ran' \in Nat
    BY <2>2
  <2> QED
    BY <2>1, <2>2, <2>3, StartsWhole DEF X86Inv, X86Typed
<1>2. x86.half => X86InMain
  BY DEF X86Inv, HalfHeld, X86InMain
<1>3. \/ X86Acknowledge \/ X86Halted \/ X86Reset \/ Devices \/ UNCHANGED x86Vars \/ MovSp
      \/ /\ ~x86.half
         /\ \/ Ordinary \/ MovSs \/ X86Hlt \/ Software \/ Iret
            \/ \E on \in BOOLEAN : SetIf(on)
            \/ \E if, tf \in BOOLEAN : Popf(if, tf)
            \/ \E n \in 1 .. X86Count : LoadCx(n) \/ Repeated(n)
  BY <1>2 DEF X86Next
<1> QED
  BY <1>1, <1>3, X86AcknowledgeKeeps, WaitingKeeps, StraightKeeps, SoftwareKeeps, IretKeeps, FlagsKeep,
     StringsKeep

LEMMA TransparentStarts ==
  ASSUME X86Init
  PROVE  X86Inv
<1>1. /\ x86 = [ip |-> 0, if |-> FALSE, tf |-> FALSE, halted |-> FALSE, inhibit |-> FALSE, cx |-> 0,
                half |-> FALSE]
      /\ x86Frames = <<>> /\ x86Wants = [if |-> FALSE, tf |-> FALSE] /\ x86Moved = [due |-> 0, made |-> 0]
  BY DEF X86Init
<1>2. x86Ran = 0 /\ x86Traced = [due |-> 0, taken |-> 0]
  BY DEF X86Init
<1>3. x86Traced \in [due : Nat, taken : Nat] /\ x86Traced.due = x86Traced.taken /\ x86Ran \in Nat
  BY <1>2
<1> QED
  BY <1>1, <1>2, <1>3, StartsWhole DEF X86Inv, X86Typed

LEMMA InvTransparent ==
  ASSUME X86Inv
  PROVE  X86Transparent
<1>1. /\ x86 \in X86Cores /\ x86Frames \in Seq(X86Saved) /\ x86Wants \in [if : BOOLEAN, tf : BOOLEAN]
      /\ Len(x86Frames) \in Nat /\ DOMAIN x86Frames = 1 .. Len(x86Frames)
  BY LenProperties DEF X86Inv, X86Typed
<1>2. X86StackWhole
  BY <1>1 DEF X86StackWhole, X86Inv, Whole
<1>3. (IF X86InMain THEN x86 ELSE x86Frames[1]) = Below(x86, x86Frames)
  BY DEF Below, X86InMain
<1>4. Below(x86, x86Frames).if \in BOOLEAN /\ Below(x86, x86Frames).tf \in BOOLEAN
  <2>1. CASE x86Frames = <<>>
    BY <1>1, <2>1, X86Fields DEF Below
  <2>2. CASE x86Frames # <<>>
    <3>1. x86Frames[1] \in X86Saved
      BY <1>1, <2>2, EmptySeq, ElementOfSeq
    <3> QED
      BY <2>2, <3>1 DEF Below, X86Saved
  <2> QED
    BY <2>1, <2>2
<1>5. Unharmed(Below(x86, x86Frames), x86Ran, x86Wants, x86Moved) /\ x86Traced.due = x86Traced.taken
  BY DEF X86Inv
<1>6. /\ Below(x86, x86Frames).if = x86Wants.if /\ Below(x86, x86Frames).tf = x86Wants.tf
  BY <1>1, <1>4, <1>5 DEF Unharmed
<1> QED
  BY <1>2, <1>3, <1>5, <1>6 DEF X86Transparent, Unharmed

Z80Spec == Z80Init /\ [][Z80Next]_z80Vars
X86Spec == X86Init /\ [][X86Next]_x86Vars

\* A program of the Z80 goes on where it was, with the interrupt enable and the
\* block instruction it had, whatever NMIs and INTs nest over it, and one of the
\* 8086 with its flags and its string instruction, its stack whole at every
\* push and each of its traps taken once: for every program and depth.
THEOREM Unaware == Z80Spec /\ X86Spec => []ProgramsUnaware
<1>1. Z80Inv /\ [Z80Next]_z80Vars => Z80Inv'
  BY UnseenStep
<1>2. X86Inv /\ [X86Next]_x86Vars => X86Inv'
  BY TransparentStep
<1>3. Z80Init => Z80Inv
  BY UnseenStarts
<1>4. X86Init => X86Inv
  BY TransparentStarts
<1>5. Z80Inv /\ X86Inv => ProgramsUnaware
  BY InvUnseen, InvTransparent DEF ProgramsUnaware
<1> QED
  BY <1>1, <1>2, <1>3, <1>4, <1>5, PTL DEF Z80Spec, X86Spec

=============================================================================
