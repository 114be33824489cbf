------------------------------ MODULE Ia64Mmu ------------------------------
(***************************************************************************)
(* Translation in the Merced core: the TR and TC arrays of the instruction *)
(* and data sides, the VHPT walker that fills the TCs, purges that wait    *)
(* for serialization, and the caches the emulator keeps in front of them:  *)
(* translated pages (xlate), decoded bundles (tb) and the bundle being     *)
(* executed.  An entry of a cache whose generation is stale is modelled as *)
(* absent.                                                                 *)
(*                                                                         *)
(* `unserialized' is history: the translation may have changed since the   *)
(* last srlz.i, fault or rfi, and fetch may still use the old one.         *)
(*                                                                         *)
(* The operating system's region-7 IVT is installed, so the firmware's     *)
(* identity windows and the search of the instruction side for data are    *)
(* out; so is the alias of memory in region 7.  The program inserts no     *)
(* translation over one that a register of the side holds, which the code  *)
(* does not check: at most one entry of an array matches then, and the     *)
(* hint that a search tries first finds the same entry as the search.      *)
(***************************************************************************)
EXTENDS Integers, Sequences, FiniteSets

CONSTANTS MmuPages, MmuFrames, \* a page is also the frame it has untranslated
          MmuRids,
          NTr, NTc             \* entries of a TR and of a TC array

ASSUME MmuSizes ==
  /\ NTr \in Nat /\ NTc \in Nat \ {0}
  /\ MmuPages \subseteq MmuFrames /\ 0 \notin MmuFrames
  /\ MmuRids # {}

VARIABLES tr, tc, tcNext, purges, rr, cpl, dt, keyOk, vhpt, xlate, tb, bundle, code,
          unserialized

mmuVars == <<tr, tc, tcNext, purges, rr, cpl, dt, keyOk, vhpt, xlate, tb, bundle, code,
             unserialized>>

Sides == {"i", "d"}
None == [valid |-> FALSE, purge |-> FALSE]

\* A page-table entry: a frame, and whether nobody, only the kernel, or the
\* user level too may use it.
Ptes == [frame : MmuFrames, use : {"none", "kernel", "user"}]

MmuInit ==
  /\ tr = [s \in Sides |-> [n \in 1 .. NTr |-> None]]
  /\ tc = [s \in Sides |-> [n \in 1 .. NTc |-> None]]
  /\ tcNext = [s \in Sides |-> 0]
  /\ purges = 0 /\ cpl = 0 /\ dt = FALSE /\ keyOk = TRUE /\ unserialized = FALSE
  /\ rr = CHOOSE r \in MmuRids : TRUE
  /\ vhpt = [p \in MmuPages |-> [rid |-> rr, frame |-> p, use |-> "none"]]
  /\ xlate = [p \in MmuPages |-> None]
  /\ tb = [p \in MmuPages |-> None]
  /\ bundle = [valid |-> FALSE, current |-> FALSE, page |-> 0, frame |-> 0, word |-> 0]
  /\ code = [f \in MmuFrames |-> 0]

----------------------------------------------------------------------------
\* Searching.  The region number is not compared, only the RID and the page.

Matches(e, rid, page) == e.valid /\ e.rid = rid /\ e.page = page

TlbSearch(t, n, rid, page) ==
  LET Hits == {k \in 1 .. n : Matches(t[k], rid, page)}
  IN  IF Hits = {} THEN None ELSE t[CHOOSE k \in Hits : \A j \in Hits : k <= j]

Found(s, page) ==
  LET e == TlbSearch(tr[s], NTr, rr, page)
  IN  IF e.valid THEN e ELSE TlbSearch(tc[s], NTc, rr, page)

\* tlb_effective_perm and key_fault_vector.
Allowed(e) ==
  /\ e.use # "none" /\ keyOk
  /\ cpl = 0 \/ e.use = "user"

\* What a reference without any cache gives: a frame, or 0 for a fault.
FullTranslate(s, page) ==
  IF s = "d" /\ ~dt THEN page
  ELSE LET e == Found(s, page) IN IF e.valid /\ Allowed(e) THEN e.frame ELSE 0

----------------------------------------------------------------------------
\* Filling.  An insertion drops every TC entry of its side that overlaps, and
\* every cached page translation.

XlateFlush == xlate' = [p \in MmuPages |-> None]

TlbEntry(page, pte) ==
  [valid |-> TRUE, purge |-> FALSE, rid |-> rr, page |-> page, frame |-> pte.frame,
   use |-> pte.use]

Dropped(t, page) ==
  [n \in 1 .. NTc |-> IF Matches(t[n], rr, page) THEN [t[n] EXCEPT !.valid = FALSE] ELSE t[n]]

NextTc(s) == (tcNext[s] % NTc) + 1

InsertTc(s, page, pte) ==
  /\ tc' = [tc EXCEPT ![s] = [Dropped(@, page) EXCEPT ![NextTc(s)] = TlbEntry(page, pte)]]
  /\ tcNext' = [tcNext EXCEPT ![s] = (@ + 1) % NTc]

\* itc: software gives the translation of the faulting page.
MmuItc ==
  \E s \in Sides, page \in MmuPages, pte \in Ptes :
    /\ \A n \in 1 .. NTr : ~Matches(tr[s][n], rr, page)
    /\ InsertTc(s, page, pte) /\ XlateFlush
    /\ unserialized' = TRUE
    /\ UNCHANGED <<tr, purges, rr, cpl, dt, keyOk, vhpt, tb, bundle, code>>

\* itr: the translation a register held goes on as a TC entry.
MmuItr ==
  \E s \in Sides, n \in 1 .. NTr, page \in MmuPages, pte \in Ptes :
    /\ pte.use # "none"
    /\ \A k \in (1 .. NTr) \ {n} : ~Matches(tr[s][k], rr, page)
    /\ tr' = [tr EXCEPT ![s][n] = TlbEntry(page, pte)]
    /\ LET kept == IF tr[s][n].valid THEN [tc[s] EXCEPT ![NextTc(s)] = tr[s][n]] ELSE tc[s]
       IN  tc' = [tc EXCEPT ![s] = Dropped(kept, page)]
    /\ tcNext' = [tcNext EXCEPT ![s] = IF tr[s][n].valid THEN (@ + 1) % NTc ELSE @]
    /\ XlateFlush
    /\ unserialized' = TRUE
    /\ UNCHANGED <<purges, rr, cpl, dt, keyOk, vhpt, tb, bundle, code>>

\* The program rewrites a page-table entry in memory.
MmuWritePte ==
  \E page \in MmuPages, pte \in Ptes :
    /\ vhpt' = [vhpt EXCEPT ![page] = [rid |-> rr, frame |-> pte.frame, use |-> pte.use]]
    /\ UNCHANGED <<tr, tc, tcNext, purges, rr, cpl, dt, keyOk, xlate, tb, bundle, code,
                   unserialized>>

----------------------------------------------------------------------------
\* A reference, va_translate_ex: the page cache, then TR and TC, then the
\* walker, which inserts what it reads even when the page is not present.

\* `Key' is what an entry was made under; a hit needs all of it unchanged.
XlateHit(s, page) ==
  /\ xlate[page].valid
  /\ xlate[page].side = s
  /\ xlate[page].cpl = cpl /\ xlate[page].dt = dt /\ xlate[page].rr = rr

XlateStore(s, page, frame) ==
  xlate' = [xlate EXCEPT ![page] = [valid |-> TRUE, purge |-> FALSE, side |-> s, cpl |-> cpl,
              dt |-> dt, rr |-> rr, frame |-> frame]]

MmuReference ==
  \E page \in MmuPages :
    /\ dt /\ ~XlateHit("d", page)
    /\ IF Found("d", page).valid
         THEN LET f == FullTranslate("d", page)
              IN  /\ f # 0 /\ XlateStore("d", page, f)
                  /\ UNCHANGED <<tc, tcNext, unserialized>>
         ELSE /\ vhpt[page].rid = rr
              /\ InsertTc("d", page, vhpt[page])
              /\ XlateFlush
              /\ unserialized' = TRUE
    /\ UNCHANGED <<tr, purges, rr, cpl, dt, keyOk, vhpt, tb, bundle, code>>

----------------------------------------------------------------------------
\* Purges are marked at once and done when the side is serialized.

Marked(t, n, page) ==
  [k \in 1 .. n |-> IF Matches(t[k], rr, page) THEN [t[k] EXCEPT !.purge = TRUE] ELSE t[k]]

NewMarks(t, n, page) ==
  Cardinality({k \in 1 .. n : Matches(t[k], rr, page) /\ ~t[k].purge})

MmuPtc ==
  \E page \in MmuPages :
    /\ tc' = [s \in Sides |-> Marked(tc[s], NTc, page)]
    /\ purges' = purges + NewMarks(tc["i"], NTc, page) + NewMarks(tc["d"], NTc, page)
    /\ unserialized' = TRUE
    /\ UNCHANGED <<tr, tcNext, rr, cpl, dt, keyOk, vhpt, xlate, tb, bundle, code>>

MmuPtr ==
  \E s \in Sides, page \in MmuPages :
    /\ tr' = [tr EXCEPT ![s] = Marked(@, NTr, page)]
    /\ tc' = [tc EXCEPT ![s] = Marked(@, NTc, page)]
    /\ purges' = purges + NewMarks(tr[s], NTr, page) + NewMarks(tc[s], NTc, page)
    /\ unserialized' = TRUE
    /\ UNCHANGED <<tcNext, rr, cpl, dt, keyOk, vhpt, xlate, tb, bundle, code>>

\* ptc.e clears both TCs, marks included; the count stays.
MmuPtcE ==
  /\ tc' = [s \in Sides |-> [n \in 1 .. NTc |-> None]]
  /\ XlateFlush
  /\ unserialized' = TRUE
  /\ UNCHANGED <<tr, tcNext, purges, rr, cpl, dt, keyOk, vhpt, tb, bundle, code>>

Purged(t, n) ==
  [k \in 1 .. n |-> IF t[k].purge THEN [t[k] EXCEPT !.purge = FALSE, !.valid = FALSE] ELSE t[k]]

Pending(t, n) == Cardinality({k \in 1 .. n : t[k].purge})

MTlbCompletePending(S) ==
  /\ tr' = [s \in Sides |-> IF s \in S THEN Purged(tr[s], NTr) ELSE tr[s]]
  /\ tc' = [s \in Sides |-> IF s \in S THEN Purged(tc[s], NTc) ELSE tc[s]]
  /\ LET Done(s) == Pending(tr[s], NTr) + Pending(tc[s], NTc)
         done    == (IF "i" \in S THEN Done("i") ELSE 0) + IF "d" \in S THEN Done("d") ELSE 0
     IN  /\ purges' = purges - done
         /\ UNCHANGED xlate

TlbCompletePending(S) ==
  IF purges = 0 THEN UNCHANGED <<tr, tc, purges, xlate>>
  ELSE /\ tr' = [s \in Sides |-> IF s \in S THEN Purged(tr[s], NTr) ELSE tr[s]]
       /\ tc' = [s \in Sides |-> IF s \in S THEN Purged(tc[s], NTc) ELSE tc[s]]
       /\ LET Done(s) == Pending(tr[s], NTr) + Pending(tc[s], NTc)
              done    == (IF "i" \in S THEN Done("i") ELSE 0)
                           + IF "d" \in S THEN Done("d") ELSE 0
          IN  /\ purges' = purges - done
              /\ IF done > 0 THEN XlateFlush ELSE UNCHANGED xlate

MmuSrlzD ==
  /\ TlbCompletePending({"d"})
  /\ UNCHANGED <<tcNext, rr, cpl, dt, keyOk, vhpt, tb, bundle, code, unserialized>>

\* srlz.i, every fault and rfi: both sides, and fetch must translate again.
\* A fault and rfi also change the privilege level and psr.dt.
MmuSrlzI ==
  /\ TlbCompletePending({"i", "d"})
  /\ tb' = [p \in MmuPages |-> None]
  /\ bundle' = [bundle EXCEPT !.current = FALSE]
  /\ unserialized' = FALSE
  /\ \E c \in {0, 3}, d \in BOOLEAN : cpl' = c /\ dt' = d
  /\ UNCHANGED <<tcNext, rr, keyOk, vhpt, code>>

\* mov to rr and to pkr.
MmuMovRr ==
  /\ \E r \in MmuRids \ {rr} : rr' = r
  /\ XlateFlush /\ unserialized' = TRUE
  /\ UNCHANGED <<tr, tc, tcNext, purges, cpl, dt, keyOk, vhpt, tb, bundle, code>>

MmuMovPkr ==
  /\ keyOk' = ~keyOk
  /\ XlateFlush /\ unserialized' = TRUE
  /\ UNCHANGED <<tr, tc, tcNext, purges, rr, cpl, dt, vhpt, tb, bundle, code>>

\* ssm, rsm and mov to psr.l change psr.dt and flush nothing.
MmuSetDt ==
  /\ dt' = ~dt
  /\ UNCHANGED <<tr, tc, tcNext, purges, rr, cpl, keyOk, vhpt, xlate, tb, bundle, code,
                 unserialized>>

----------------------------------------------------------------------------
\* Fetch and stores to code.

MmuFetch ==
  \E page \in MmuPages :
    /\ ~(bundle.valid /\ bundle.current /\ bundle.page = page)
    /\ LET cached == tb[page].valid
           f == IF cached THEN tb[page].frame
                ELSE IF XlateHit("i", page) THEN xlate[page].frame
                ELSE FullTranslate("i", page)
           same == ~cached /\ bundle.valid /\ bundle.page = page /\ bundle.frame = f
           w == IF cached THEN tb[page].word ELSE IF same THEN bundle.word ELSE code[f]
       IN  /\ f # 0
           /\ bundle' = [valid |-> TRUE, current |-> TRUE, page |-> page, frame |-> f, word |-> w]
           /\ tb' = [tb EXCEPT ![page] = [valid |-> TRUE, purge |-> FALSE, frame |-> f, word |-> w]]
           /\ IF cached \/ XlateHit("i", page) THEN UNCHANGED xlate
                                                     ELSE XlateStore("i", page, f)
    /\ UNCHANGED <<tr, tc, tcNext, purges, rr, cpl, dt, keyOk, vhpt, code, unserialized>>

MPhysWrite(f) == bundle' = [bundle EXCEPT !.valid = @ /\ bundle.frame # f] /\ UNCHANGED tb

\* phys_write: the executing bundle and every decoded bundle of the page go.
PhysWrite(f) ==
  /\ bundle' = [bundle EXCEPT !.valid = @ /\ bundle.frame # f]
  /\ tb' = [p \in MmuPages |-> IF tb[p].valid /\ tb[p].frame = f THEN None ELSE tb[p]]

MmuStore ==
  \E f \in MmuFrames :
    /\ code' = [code EXCEPT ![f] = 1 - @]
    /\ PhysWrite(f)
    /\ UNCHANGED <<tr, tc, tcNext, purges, rr, cpl, dt, keyOk, vhpt, xlate, unserialized>>

MmuNext ==
  \/ MmuItc \/ MmuItr \/ MmuWritePte \/ MmuReference \/ MmuPtc \/ MmuPtr \/ MmuPtcE
  \/ MmuSrlzD \/ MmuSrlzI \/ MmuMovRr \/ MmuMovPkr \/ MmuSetDt \/ MmuFetch
  \/ MmuStore

MmuSpec == MmuInit /\ [][MmuNext]_mmuVars

----------------------------------------------------------------------------
\* A cached page translation that would hit is the one TR and TC give now,
\* under the current region, privilege level and protection keys.
XlateAgrees ==
  \A s \in Sides, page \in MmuPages :
    XlateHit(s, page) => xlate[page].frame = FullTranslate(s, page)

\* A bundle that would execute from a cache is what memory holds; and once
\* serialized, it comes from the frame its page translates to.
BundleCurrent ==
  /\ bundle.valid => bundle.word = code[bundle.frame]
  /\ \A p \in MmuPages : tb[p].valid => tb[p].word = code[tb[p].frame]
  /\ ~unserialized => \A p \in MmuPages :
       tb[p].valid => tb[p].frame = FullTranslate("i", p)

\* No cache in front of the translation registers outlives what it was filled
\* from, nor is a marked entry forgotten: while one is marked the count that
\* serialization looks at first is positive.
TranslationsCurrent ==
  /\ XlateAgrees /\ BundleCurrent
  /\ (\E s \in Sides : Pending(tr[s], NTr) + Pending(tc[s], NTc) > 0) => purges > 0
=============================================================================
