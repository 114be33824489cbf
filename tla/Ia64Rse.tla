------------------------------ MODULE Ia64Rse ------------------------------
(***************************************************************************)
(* The register stack engine of the Merced core (cpu/ia64/merced.c).       *)
(* Stacked registers live in a circular file; a register's position on the *)
(* unbounded axis `total' (bof_total) is what the backing-store address is *)
(* computed from, skipping the NaT collection word of every group.  There  *)
(* is no background spill or fill: registers go to memory by flushrs and   *)
(* by the mandatory spill, and come back by loadrs.  An interruption keeps *)
(* a copy of the whole partition, which the matching rfi puts back.        *)
(*                                                                         *)
(* `backing' maps an address to its word, `live' holds the positions the   *)
(* program has written and still owns, `calls' the ar.pfs values it keeps, *)
(* `traps' what held when each open interruption was taken.  A register's  *)
(* word is the step that wrote it; NaT bits are not tracked.  Of alloc its *)
(* frame is kept; the copy of ar.pfs it gives and the size of the rotating *)
(* part (sor) are left out.                                                *)
(***************************************************************************)
EXTENDS Integers, Sequences, FiniteSets, SequencesExt

CONSTANTS RseCapacity,   \* MERCED_RSE_CAPACITY, 4096
          RseStacked,    \* MERCED_N_STACKED, 96
          RseGroup,      \* words of a backing-store group, 64
          RseRecords,    \* interruption_rse records, 4
          RseSteps,      \* instructions and interruptions, a bound
          RseTraps,      \* interruptions open at once, a bound
          RseDepth,      \* live positions, a bound below the capacity
          RseKernel      \* backing store of the handler, far above the program's

VARIABLES rse, backing, live, calls, traps, records, steps

rseVars == <<rse, backing, live, calls, traps, records, steps>>

RseAddrs == 0 .. RseKernel + 2 * RseDepth

----------------------------------------------------------------------------
\* Addresses are counted in words of 8 bytes.

IsRnatSlot(a) == a % RseGroup = RseGroup - 1

\* How far below the store boundary mov ar.bspstore still finds the same stack.
RseSpan == RseCapacity + RseCapacity \div RseGroup + 1

\* No frame outgrows the file, the words of RseDepth registers and the slots
\* between them fit into the span (4096 registers, of groups of 64, just do), and
\* the program, whose stack may drift up by RseDepth in a step, never comes
\* within the span of the handler's backing store.
ASSUME RseConstants ==
  /\ {RseCapacity, RseStacked, RseGroup, RseRecords, RseSteps, RseTraps, RseDepth, RseKernel} \subseteq Nat
  /\ RseGroup >= 2 /\ 0 < RseDepth /\ RseDepth <= RseCapacity
  /\ RseDepth + RseDepth \div (RseGroup - 1) <= RseSpan
  /\ ~IsRnatSlot(RseKernel)
  /\ RseKernel - RseKernel \div RseGroup > RseDepth * (RseSteps + 2) + RseSpan

RegsBetween(a, b) == Cardinality({x \in a .. b : ~IsRnatSlot(x)})

MoveRegs(a, n) ==
  IF n >= 0
    THEN CHOOSE b \in a .. a + 2 * n + 1 :
           (n = 0 /\ b = a) \/ (~IsRnatSlot(b) /\ RegsBetween(a + 1, b) = n)
    ELSE CHOOSE b \in a + 2 * n - 1 .. a :
           ~IsRnatSlot(b) /\ RegsBetween(b, a - 1) = -n

RseAddr(s, p) == MoveRegs(s.anchorAddr, p - s.anchorRegs)

RegsInWindow(bsp, words) == RegsBetween(bsp - words, bsp - 1)

AddrToRegs(s, a) ==
  s.anchorRegs + IF a >= s.anchorAddr THEN RegsBetween(s.anchorAddr + 1, a)
                                     ELSE -RegsBetween(a, s.anchorAddr - 1)

StackSlot(s, p) == (s.bof + p - s.total) % RseCapacity

Bsp(s) == s.total + s.sof

----------------------------------------------------------------------------
\* The rotating part of the frame comes first.
Logical(s, i) == IF i < s.sor THEN (i + s.rrb) % s.sor ELSE i

MGrWrite(s, i, v) ==
  [s EXCEPT !.gr[StackSlot(s, s.total + Logical(s, i))] = v]

\* Writing a position that was already stored makes it dirty again.
GrWrite(s, i, v) ==
  LET p == s.total + Logical(s, i)
  IN  [MGrWrite(s, i, v) EXCEPT !.flushed = IF p < @ THEN p ELSE @]

----------------------------------------------------------------------------
\* rse_store_through stores [flushed, end); a translation fault after some of
\* the stores leaves flushed where it was.  The result is a set of pairs.

StoredWords(s, n) ==
  [a \in RseAddrs |->
     IF \E p \in s.flushed .. n - 1 : RseAddr(s, p) = a
       THEN s.gr[StackSlot(s, CHOOSE p \in s.flushed .. n - 1 : RseAddr(s, p) = a)]
       ELSE backing[a]]

StoreThrough(s, end) ==
  {<<s, StoredWords(s, n)>> : n \in s.flushed .. end - 1}
    \cup {<<[s EXCEPT !.flushed = end], StoredWords(s, end)>>}

SpillExcess(s) ==
  IF Bsp(s) - s.flushed <= RseStacked THEN {<<s, backing>>}
                                      ELSE StoreThrough(s, Bsp(s) - RseStacked)

RseFlush(s) == StoreThrough(s, Bsp(s))

\* loadrs: only what lies below the store boundary is read from memory.
RseLoad(s, words) ==
  LET target == Bsp(s) - RegsInWindow(RseAddr(s, Bsp(s)), words)
      end    == IF s.flushed < Bsp(s) THEN s.flushed ELSE Bsp(s)
  IN  [s EXCEPT !.flushed = target,
                !.gr = [x \in DOMAIN @ |->
                          LET P == {p \in target .. end - 1 : StackSlot(s, p) = x}
                          IN  IF P = {} THEN @[x]
                              ELSE backing[RseAddr(s, CHOOSE p \in P : TRUE)]]]

\* mov ar.bspstore: a rewind inside the resident part of the same stack moves
\* the frame there; any other address re-anchors the axis.
MovBspstore(s, a) ==
  LET dirty    == IF Bsp(s) > s.flushed THEN Bsp(s) - s.flushed ELSE 0
      cur      == RseAddr(s, s.flushed)
      newpos   == AddrToRegs(s, a)
      back     == s.total - (newpos - dirty)
      resident == a < cur /\ cur - a <= RseSpan /\ 0 < back /\ back < RseCapacity
  IN  IF resident
        THEN [s EXCEPT !.total = newpos - dirty, !.flushed = newpos,
                       !.bof = (@ - back) % RseCapacity]
        ELSE [s EXCEPT !.flushed = Bsp(s) - dirty, !.anchorAddr = a,
                       !.anchorRegs = Bsp(s) - dirty]

----------------------------------------------------------------------------
\* Instructions.

RseInit ==
  /\ rse = [gr |-> [x \in 0 .. RseCapacity - 1 |-> 0], bof |-> 0, total |-> 0, sof |-> 0,
            sol |-> 0, sor |-> 0, rrb |-> 0, flushed |-> 0, anchorAddr |-> 0, anchorRegs |-> 0]
  /\ backing = [a \in RseAddrs |-> 0]
  /\ live = {} /\ calls = <<>> /\ traps = <<>> /\ records = <<>> /\ steps = 0

RseWrite ==
  \E i \in 0 .. rse.sof - 1 :
    /\ rse' = GrWrite(rse, i, steps + 1)
    /\ live' = live \cup {rse.total + Logical(rse, i)}
    /\ UNCHANGED <<backing, calls, traps, records>>

\* A larger sof is refused; the spill comes after the frame has changed.
RseAlloc ==
  \E sof \in 0 .. RseStacked : \E sol \in {sof, sof - 1} \cap Nat :
  \E sor \in {0, RseStacked} \cap 0 .. sof :
    LET s == [rse EXCEPT !.sof = sof, !.sol = sol, !.sor = sor]
    IN  /\ Bsp(s) < RseDepth
        /\ rse.rrb = 0
        /\ \E out \in SpillExcess(s) : rse' = out[1] /\ backing' = out[2]
        /\ live' = {p \in live : p < Bsp(s)}
        /\ UNCHANGED <<calls, traps, records>>

Frame(s) == [sof |-> s.sof, sol |-> s.sol, sor |-> s.sor, rrb |-> s.rrb]

WithFrame(s, f) ==
  [s EXCEPT !.sof = f.sof, !.sol = f.sol, !.sor = f.sor, !.rrb = f.rrb]

Base(s, n) == [s EXCEPT !.bof = (@ + n) % RseCapacity, !.total = @ + n]

RseCall ==
  /\ calls' = Append(calls, Frame(rse))
  /\ rse' = WithFrame(Base(rse, rse.sol),
                      [sof |-> rse.sof - rse.sol, sol |-> 0, sor |-> 0, rrb |-> 0])
  /\ UNCHANGED <<backing, live, traps, records>>

Returned(s, f) == WithFrame(Base(s, -f.sol), f)

\* The callee's registers, and the caller's outputs, are no longer live.
RseRet ==
  /\ calls # <<>> /\ Last(calls).sof # -1
  /\ LET s == Returned(rse, Last(calls))
     IN  /\ \E out \in SpillExcess(s) : rse' = out[1] /\ backing' = out[2]
         /\ live' = {p \in live : p < s.total + s.sol}
  /\ calls' = Front(calls)
  /\ UNCHANGED <<traps, records>>

RotateRegs(s) == [s EXCEPT !.rrb = IF s.sor = 0 THEN 0 ELSE (@ + s.sor - 1) % s.sor]

RseRotate ==
  /\ rse.sor > 0
  /\ rse' = RotateRegs(rse)
  /\ UNCHANGED <<backing, live, calls, traps, records>>

RseFlushrs ==
  /\ \E out \in RseFlush(rse) : rse' = out[1] /\ backing' = out[2]
  /\ UNCHANGED <<live, calls, traps, records>>

\* From the base of frame k's callee to the current base.
Unwound(k) ==
  LET n[j \in k .. Len(calls)] == IF j = k THEN 0 ELSE n[j - 1] + calls[j].sol
  IN  n[Len(calls)]

\* setjmp was called by frame k, which calls is still in: flushrs, then
\* bspstore back to where that callee's frame began, loadrs and br.ret.  It
\* unwinds frames: from the same depth the move would re-anchor instead.
RseLongjmp ==
  \E k \in 1 .. Len(calls) :
    /\ \A j \in k .. Len(calls) : calls[j].sof # -1
    /\ LET above == Unwound(k)
           saved == RseAddr(rse, rse.total - above)
           full  == [rse EXCEPT !.flushed = Bsp(rse)]
           s     == Returned(RseLoad(MovBspstore(full, saved), 0), calls[k])
       IN  /\ above > 0
           /\ rse' = s
           /\ backing' = StoredWords(rse, Bsp(rse))
           /\ live' = {p \in live : p < s.total + s.sol}
    /\ calls' = SubSeq(calls, 1, k - 1)
    /\ UNCHANGED <<traps, records>>

----------------------------------------------------------------------------
\* Interruptions.  A mark in calls keeps a handler from returning past itself.

Mark == [sof |-> -1, sol |-> 0, sor |-> 0, rrb |-> 0]

Preserved(id) ==
  IF Len(records) < RseRecords THEN Append(records, [id |-> id, part |-> rse]) ELSE records

\* deliver_fault, and the handler's cover: the interrupted frame is set aside
\* whole and the handler starts with an empty one.
RseInterrupt ==
  /\ Len(traps) < RseTraps
  /\ records' = Preserved(Len(traps) + 1)
  /\ traps' = Append(traps, [part |-> rse, live |-> live, store |-> -1,
                             base |-> Bsp(rse)])
  /\ rse' = WithFrame(Base(rse, rse.sof), [sof |-> 0, sol |-> 0, sor |-> 0, rrb |-> 0])
  /\ calls' = Append(calls, Mark)
  /\ UNCHANGED <<backing, live>>

\* The handler moves to a backing store of its own, dirty registers and all.
RseSwitch ==
  /\ traps # <<>> /\ Last(calls) = Mark
  /\ \A k \in DOMAIN traps : traps[k].store = -1
  /\ traps' = [traps EXCEPT ![Len(traps)].store = RseAddr(rse, rse.flushed)]
  /\ rse' = MovBspstore(rse, RseKernel)
  /\ UNCHANGED <<backing, live, calls, records>>

\* ... and back: an empty frame, loadrs of all that was carried over, and the
\* saved ar.bspstore.
RseSwitchBack ==
  /\ traps # <<>> /\ Last(calls) = Mark /\ Last(traps).store # -1
  /\ LET s == [rse EXCEPT !.sof = 0, !.sol = 0, !.sor = 0, !.rrb = 0]
         w == RseAddr(s, Bsp(s)) - RseKernel
     IN  /\ rse' = MovBspstore(RseLoad(s, w), Last(traps).store)
         /\ live' = {p \in live : p < s.total}
  /\ traps' = [traps EXCEPT ![Len(traps)].store = -1]
  /\ UNCHANGED <<backing, calls, records>>

MRecordMatches(moved) == records # <<>>

RecordMatches(moved) == records # <<>> /\ ~moved /\ Last(records).id = Len(traps)

\* rfi.  The newest record is dropped in any case and used only when it is of
\* this interruption (cr.iip and cr.ipsr are unchanged); otherwise the frame
\* comes back from cr.ifs alone, and the handler must have left it in place.
RseRfi ==
  /\ traps # <<>> /\ Last(calls) = Mark
  /\ \E moved \in BOOLEAN :
       LET t == Last(traps)
           match == RecordMatches(moved)
           s == IF match THEN WithFrame(Last(records).part, Frame(t.part))
                         ELSE WithFrame(Base(rse, -t.part.sof), Frame(t.part))
       IN  /\ match \/ (t.store = -1 /\ rse.total = t.base)
           /\ \E out \in SpillExcess(s) : rse' = out[1] /\ backing' = out[2]
           /\ live' = t.live
  /\ records' = IF records = <<>> THEN records ELSE Front(records)
  /\ traps' = Front(traps)
  /\ calls' = Front(calls)

RseNext ==
  /\ steps < RseSteps /\ steps' = steps + 1
  /\ \/ RseWrite \/ RseAlloc \/ RseCall \/ RseRet \/ RseRotate \/ RseFlushrs \/ RseLongjmp
     \/ RseInterrupt \/ RseSwitch \/ RseSwitchBack \/ RseRfi

RseSpec == RseInit /\ [][RseNext]_rseVars

----------------------------------------------------------------------------
\* A live register below the store boundary has its word in the backing store:
\* a later loadrs, or another context's reload, brings back what was written.
SpilledCurrent ==
  \A p \in live : (rse.anchorRegs <= p /\ p < rse.flushed) =>
                    backing[RseAddr(rse, p)] = rse.gr[StackSlot(rse, p)]

\* An interruption is transparent: after its rfi the interrupted code has its
\* frame, and every register it owned, as they were, whatever the handler did.
RfiTransparent ==
  [][Len(traps') < Len(traps) =>
       LET t == Last(traps)
       IN  /\ rse'.total = t.part.total /\ Frame(rse') = Frame(t.part)
           /\ \A p \in t.live : rse'.gr[StackSlot(rse', p)] = t.part.gr[StackSlot(t.part, p)]
     ]_rseVars
=============================================================================
