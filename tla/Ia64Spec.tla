------------------------------ MODULE Ia64Spec ------------------------------
(***************************************************************************)
(* Speculation in the Merced core: NaT bits through loads, arithmetic,     *)
(* moves, spill and fill, and the advanced load table (ALAT).              *)
(*                                                                         *)
(* A register has its NaT bit, the bytes an advanced load put there        *)
(* (`from' is that load's access, NoAccess once something else wrote the   *)
(* register or a rotation renamed it) and `bad', a history: "deferred" for *)
(* a value that comes from a deferred load through instructions that pass  *)
(* the NaT on, "lost" once it went through one of those that read a NaT    *)
(* and neither pass it on nor fault, "none" otherwise.  Those are the      *)
(* moves to predicates and to branch, application and control registers    *)
(* (`br' is one of them), semaphores, check loads of M21, floating-point   *)
(* loads and stores, and loadrs.  Register 32 is stacked: its physical     *)
(* register depends on the frame, while the ALAT keeps the number the      *)
(* instruction named.  Memory is a few bytes and one slot for spills, and  *)
(* `stained' is whether a lost value was ever stored; `fr' is one          *)
(* floating-point register, without its arithmetic.  A program does not    *)
(* write ar.unat between a spill and its fill.                             *)
(***************************************************************************)
EXTENDS Integers, FiniteSets

CONSTANTS SpecStatics,   \* static register numbers
          SpecAccesses,  \* the accesses <<address, size>> the program makes
          NAlat          \* entries of the ALAT, 32

\* r0 is never written, and an access is of at least a byte.
ASSUME SpecSizes ==
  /\ SpecStatics \subseteq 1..31
  /\ SpecAccesses \subseteq Nat \X (Nat \ {0})
  /\ NAlat \in Nat \ {0}

VARIABLES gr, depth, alat, validMask, mem, stained, slot, pr, br, fr

specVars == <<gr, depth, alat, validMask, mem, stained, slot, pr, br, fr>>
alatVars == <<alat, validMask>>
memVars == <<mem, stained>>
fileVars == <<slot, pr, br, fr>>

Stacked == 32
Numbers == SpecStatics \cup {Stacked}
Phys(n) == IF n < 32 THEN n ELSE n + depth
SpecBytes == UNION {a[1] .. a[1] + a[2] - 1 : a \in SpecAccesses}
NoAccess == <<0, 0>>

Taints == {"none", "lost", "deferred"}
Lose(t) == IF t = "none" THEN "none" ELSE "lost"
Join(T) == IF "deferred" \in T THEN "deferred" ELSE IF "lost" \in T THEN "lost" ELSE "none"

Plain(nat, bad) == [nat |-> nat, bad |-> bad, from |-> NoAccess, val |-> {}]
\* The bytes of an access that are 1.
Contents(a) == {b \in a[1] .. a[1] + a[2] - 1 : mem[b] = 1}

SpecInit ==
  /\ gr = [n \in SpecStatics \cup {32, 33} |-> Plain(FALSE, "none")]
  /\ depth = 0
  /\ alat = [i \in 1 .. NAlat |-> [valid |-> FALSE, reg |-> 0, at |-> NoAccess]]
  /\ validMask = {}
  /\ mem = [b \in SpecBytes |-> 0]
  /\ stained = FALSE
  /\ slot = [bad |-> "none", unat |-> FALSE]
  /\ pr = [on |-> FALSE, bad |-> "none"]
  /\ br = "none"
  /\ fr = [nat |-> FALSE, bad |-> "none"]

----------------------------------------------------------------------------
\* The table.  Every search goes by the mask.

Invalid(E) == [i \in 1 .. NAlat |-> IF i \in E THEN [alat[i] EXCEPT !.valid = FALSE] ELSE alat[i]]

OfReg(n) == {i \in validMask : alat[i].reg = n}

Drop(E) == alat' = Invalid(E) /\ validMask' = validMask \ E

AlatInvalidateReg(n) == Drop(OfReg(n))

AlatInvalidateStacked == Drop({i \in validMask : alat[i].reg >= 32})

Overlapping(a) ==
  {i \in validMask : /\ alat[i].at[1] < a[1] + a[2]
                     /\ a[1] < alat[i].at[1] + alat[i].at[2]}

AlatInvalidateStore(a) == Drop(Overlapping(a))

\* The register's old entry goes; with no free entry there is no new one.
AlatSet(n, a) ==
  LET E    == OfReg(n)
      free == {i \in 1 .. NAlat : ~Invalid(E)[i].valid}
      slotOf == CHOOSE i \in free : \A j \in free : i <= j
  IN  IF free = {}
        THEN Drop(E)
        ELSE /\ alat' = [Invalid(E) EXCEPT ![slotOf] = [valid |-> TRUE, reg |-> n, at |-> a]]
             /\ validMask' = (validMask \ E) \cup {slotOf}

AlatHit(n, a) == \E i \in OfReg(n) : alat[i].at = a

\* A check drops the entry it clears, and one of another access.
AlatCheck(n, a, clear) ==
  IF clear \/ ~AlatHit(n, a) THEN AlatInvalidateReg(n) ELSE UNCHANGED alatVars

AlatCheckReg(n, clear) ==
  IF clear THEN AlatInvalidateReg(n) ELSE UNCHANGED alatVars

----------------------------------------------------------------------------
\* Arithmetic: the NaT bit of the result is the OR of the sources'.

NatOf(n) == gr[Phys(n)].nat
BadOf(n) == gr[Phys(n)].bad
BadOfAny(S) == Join({BadOf(n) : n \in S})

ResultNat(S) == \E n \in S : NatOf(n)

GrWritten(n, nat, bad) == [gr EXCEPT ![Phys(n)] = Plain(nat, bad)]

Alu(dest, S) ==
  /\ gr' = GrWritten(dest, ResultNat(S), BadOfAny(S))
  /\ UNCHANGED <<depth, alatVars, memVars, fileVars>>

\* Adds, shifts, extracts, deposits, multimedia and moves of an immediate.
SpecAlu == \E dest \in Numbers, S \in {{}} \cup {{n} : n \in Numbers} \cup {Numbers} : Alu(dest, S)

\* A compare or tbit of a NaT clears its predicates, or leaves them when it is
\* of the or family.
SpecCompare ==
  /\ \E n \in Numbers, family \in {"norm", "unc", "and", "or"}, res \in BOOLEAN :
       pr' = IF (family = "or" /\ (NatOf(n) \/ ~res)) \/ (family = "and" /\ ~NatOf(n) /\ res)
             THEN pr ELSE [on |-> res /\ ~NatOf(n), bad |-> IF NatOf(n) THEN "none" ELSE BadOf(n)]
  /\ UNCHANGED <<gr, depth, alatVars, memVars, slot, br, fr>>

\* tnat decides by the bit itself.
SpecTnat ==
  /\ \E n \in Numbers, sense \in BOOLEAN : pr' = [on |-> NatOf(n) = sense, bad |-> "none"]
  /\ UNCHANGED <<gr, depth, alatVars, memVars, slot, br, fr>>

----------------------------------------------------------------------------
\* Moves to and from other register files.  Predicates, branch and application
\* registers have no NaT bit and the moves look at none; FP registers have one.

SpecMovToPr ==
  /\ \E n \in Numbers, v \in BOOLEAN : pr' = [on |-> v, bad |-> Lose(BadOf(n))]
  /\ UNCHANGED <<gr, depth, alatVars, memVars, slot, br, fr>>

SpecMovFromPr ==
  /\ \E dest \in Numbers : gr' = GrWritten(dest, FALSE, Lose(pr.bad))
  /\ UNCHANGED <<depth, alatVars, memVars, fileVars>>

SpecMovToBr ==
  /\ \E n \in Numbers : br' = Lose(BadOf(n))
  /\ UNCHANGED <<gr, depth, alatVars, memVars, slot, pr, fr>>

SpecMovFromBr ==
  /\ \E dest \in Numbers : gr' = GrWritten(dest, FALSE, br)
  /\ UNCHANGED <<depth, alatVars, memVars, fileVars>>

SpecSetf ==
  /\ \E n \in Numbers : fr' = [nat |-> NatOf(n), bad |-> BadOf(n)]
  /\ UNCHANGED <<gr, depth, alatVars, memVars, slot, pr, br>>

SpecGetf ==
  /\ \E dest \in Numbers : gr' = GrWritten(dest, fr.nat, fr.bad)
  /\ UNCHANGED <<depth, alatVars, memVars, fileVars>>

----------------------------------------------------------------------------
\* Memory.

\* The increments of a base: none, an immediate's or a register's.
Increments == {[by |-> {}, on |-> FALSE], [by |-> {}, on |-> TRUE]}
                \cup {[by |-> {n}, on |-> TRUE] : n \in Numbers}

\* Post-increment of g, in which the instruction has written its result: the
\* base gets the NaT of base and increment, the increment read before.
PostInc(g, base, inc) ==
  IF ~inc.on THEN g
  ELSE [g EXCEPT ![Phys(base)] = Plain(@.nat \/ ResultNat(inc.by), Join({@.bad, BadOfAny(inc.by)}))]

\* What memory holds, read at the address in base.
FetchedBad(base) == Join({Lose(BadOf(base)), IF stained THEN "lost" ELSE "none"})

Loaded(dest, base, a, advanced) ==
  [gr EXCEPT ![Phys(dest)] =
     [nat |-> FALSE, bad |-> FetchedBad(base), from |-> IF advanced THEN a ELSE NoAccess,
      val |-> IF advanced THEN Contents(a) ELSE {}]]

\* ld.s and ld.sa defer: the base is a NaT, or it is any and does not translate.
SpecDefer ==
  /\ \E dest, base \in Numbers, inc \in Increments :
       gr' = PostInc(GrWritten(dest, TRUE, "deferred"), base, inc)
  /\ UNCHANGED <<depth, alatVars, memVars, fileVars>>

\* ld and ld.s, ld.a and ld.sa, and the check loads, of a base that translates;
\* one that is a NaT faults or defers.  A check that hits keeps the register,
\* c.acq sets an entry when it misses.
SpecLoad ==
  \E dest, base \in Numbers, a \in SpecAccesses, inc \in Increments,
     type \in {"plain", "advanced", "c.clr", "c.nc", "c.acq"} :
    LET check == type \in {"c.clr", "c.nc", "c.acq"}
        hit   == check /\ AlatHit(dest, a)
        sets  == type \in {"advanced", "c.acq"} /\ ~hit
        g     == IF hit THEN gr ELSE Loaded(dest, base, a, sets)
    IN  /\ ~NatOf(base)
        /\ IF sets THEN AlatSet(dest, a)
           ELSE IF check THEN AlatCheck(dest, a, type = "c.clr")
           ELSE UNCHANGED alatVars
        /\ gr' = PostInc(g, base, inc)
        /\ UNCHANGED <<depth, memVars, fileVars>>

\* The check loads of M21 look at no NaT and set no entry.
SpecCheckLoad ==
  \E dest, base \in Numbers, a \in SpecAccesses, clear \in BOOLEAN :
    /\ AlatCheck(dest, a, clear)
    /\ gr' = IF AlatHit(dest, a) THEN gr ELSE Loaded(dest, base, a, FALSE)
    /\ UNCHANGED <<depth, memVars, fileVars>>

\* st8.spill keeps the NaT in the UNAT bit of its address; ld8.fill takes it back.
FillNat == slot.unat

SpecSpill ==
  \E n, base \in Numbers, inc \in Increments :
    /\ ~NatOf(base)
    /\ slot' = [bad |-> BadOf(n), unat |-> NatOf(n)]
    /\ gr' = PostInc(gr, base, inc)
    /\ UNCHANGED <<depth, alatVars, memVars, pr, br, fr>>

SpecFill ==
  \E n, base \in Numbers, inc \in Increments :
    /\ ~NatOf(base)
    /\ gr' = PostInc(GrWritten(n, FillNat, slot.bad), base, inc)
    /\ UNCHANGED <<depth, alatVars, memVars, fileVars>>

\* v is written to the bytes of a, and comes with the history t.
PhysWritten(a, v, t) ==
  /\ mem' = [b \in SpecBytes |-> IF b \in a[1] .. a[1] + a[2] - 1 THEN v ELSE mem[b]]
  /\ stained' = (stained \/ t # "none")
  /\ AlatInvalidateStore(a)

\* st: a NaT base or datum faults instead.
SpecStore ==
  \E n, base \in Numbers, a \in SpecAccesses, v \in {0, 1}, inc \in Increments :
    /\ ~NatOf(base) /\ ~NatOf(n)
    /\ PhysWritten(a, v, BadOfAny({n, base}))
    /\ gr' = PostInc(gr, base, inc)
    /\ UNCHANGED <<depth, fileVars>>

\* Floating-point loads and stores look at no NaT, of the base or the datum.
SpecFpLoad ==
  \E base \in Numbers, inc \in Increments :
    /\ fr' = [nat |-> FALSE, bad |-> FetchedBad(base)]
    /\ gr' = PostInc(gr, base, inc)
    /\ UNCHANGED <<depth, alatVars, memVars, slot, pr, br>>

SpecFpStore ==
  \E base \in Numbers, a \in SpecAccesses, v \in {0, 1}, inc \in Increments :
    /\ PhysWritten(a, v, Join({BadOf(base), fr.bad}))
    /\ gr' = PostInc(gr, base, inc)
    /\ UNCHANGED <<depth, fileVars>>

\* cmpxchg, xchg and fetchadd: no NaT is looked at, and the result has none.
SpecSemaphore ==
  \E dest, n, base \in Numbers, a \in SpecAccesses, v \in {0, 1}, stores \in BOOLEAN :
    /\ IF stores THEN PhysWritten(a, v, BadOfAny({n, base})) ELSE UNCHANGED <<memVars, alatVars>>
    /\ gr' = GrWritten(dest, FALSE, FetchedBad(base))
    /\ UNCHANGED <<depth, fileVars>>

\* lfetch: only the post-increment.
SpecLfetch ==
  \E base \in Numbers, inc \in Increments :
    /\ gr' = PostInc(gr, base, inc)
    /\ UNCHANGED <<depth, alatVars, memVars, fileVars>>

----------------------------------------------------------------------------
\* chk.a goes on when it hits and to the recovery code when it does not, as
\* chk.s does; here only what they leave in the table matters.
SpecChkA ==
  \E n \in Numbers, clear \in BOOLEAN :
    /\ AlatCheckReg(n, clear)
    /\ UNCHANGED <<gr, depth, memVars, fileVars>>

\* invala.e drops one register's entries; invala zeroes the table itself and
\* leaves the mask.
SpecInvalaE == \E n \in Numbers : AlatInvalidateReg(n) /\ UNCHANGED <<gr, depth, memVars, fileVars>>

SpecInvala ==
  /\ alat' = [i \in 1 .. NAlat |-> [valid |-> FALSE, reg |-> 0, at |-> NoAccess]]
  /\ UNCHANGED <<gr, depth, validMask, memVars, fileVars>>

\* br.call and br.ret move the frame and drop the stacked entries, as cover and
\* rfi do.  The callee's r32 is an output of the caller, whatever it holds.
MDropsStacked == UNCHANGED alatVars

DropsStacked == AlatInvalidateStacked

SpecCall ==
  /\ depth = 0 /\ depth' = 1
  /\ \E t \in Taints : gr' = [gr EXCEPT ![33] = Plain(t = "deferred", t)]
  /\ DropsStacked
  /\ UNCHANGED <<memVars, fileVars>>

SpecReturn == depth = 1 /\ depth' = 0 /\ DropsStacked /\ UNCHANGED <<gr, memVars, fileVars>>

SpecRfi == DropsStacked /\ UNCHANGED <<gr, depth, memVars, fileVars>>

\* br.ctop and br.wtop rename the registers of the rotating part of a frame and
\* leave the table: r32 is now another register.
SpecRotate ==
  /\ \E t \in Taints : gr' = GrWritten(Stacked, t = "deferred", t)
  /\ UNCHANGED <<depth, alatVars, memVars, fileVars>>

\* loadrs brings stacked registers back from the backing store without the NaT
\* bits that were collected.
SpecLoadRs ==
  /\ \E r \in {32, 33} : gr' = [gr EXCEPT ![r] = Plain(FALSE, Lose(@.bad))]
  /\ UNCHANGED <<depth, alatVars, memVars, fileVars>>

SpecNext ==
  \/ SpecAlu \/ SpecCompare \/ SpecTnat
  \/ SpecMovToPr \/ SpecMovFromPr \/ SpecMovToBr \/ SpecMovFromBr \/ SpecSetf \/ SpecGetf
  \/ SpecDefer \/ SpecLoad \/ SpecCheckLoad \/ SpecSpill \/ SpecFill \/ SpecStore
  \/ SpecFpLoad \/ SpecFpStore \/ SpecSemaphore \/ SpecLfetch
  \/ SpecChkA \/ SpecInvalaE \/ SpecInvala
  \/ SpecCall \/ SpecReturn \/ SpecRfi \/ SpecRotate \/ SpecLoadRs

SpecSpec == SpecInit /\ [][SpecNext]_specVars

----------------------------------------------------------------------------
\* A value that comes from a deferred load cannot be mistaken for a good one
\* until an instruction loses it: the register, FP register or spill slot has
\* the NaT bit, and no predicate it decided is set.
NatTracks ==
  /\ \A n \in DOMAIN gr : gr[n].bad = "deferred" => gr[n].nat
  /\ fr.bad = "deferred" => fr.nat
  /\ slot.bad = "deferred" => slot.unat
  /\ pr.bad = "deferred" => ~pr.on

CurrentOnHit(n) ==
  LET r == gr[Phys(n)]
  IN  r.from # NoAccess /\ OfReg(n) # {} => r.val = Contents(r.from)

\* chk.a and ld.c that hit leave the program with what memory now holds: every
\* store that overlaps an advanced load, by any size, has removed its entry, and
\* no entry of a callee's r32 answers for its caller's, or the other way round.
\* (A rotation does not drop entries: nothing is said of a renamed register.)
HitIsCurrent == \A n \in Numbers : CurrentOnHit(n)

\* Speculation cannot be told from the plain loads it replaces.
SpeculationIsSound == NatTracks /\ HitIsCurrent
=============================================================================
