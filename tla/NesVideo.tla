------------------------------ MODULE NesVideo ------------------------------
(***************************************************************************)
(* The scrolling half of the NES video chip: its registers, the address v  *)
(* that walks over the name tables while a frame is drawn, the pipeline of *)
(* fetched tiles, the vertical blank and its interrupt.                    *)
(*                                                                         *)
(* A line's 341 dots are taken in steps: 0 the flags of dot 1; 1 ..        *)
(* Columns the fetches of eight dots; then dot 257, where x is copied from *)
(* t; dots 280-304, where the pre-render line copies y; two fetches ahead  *)
(* for the next line.  The lines of the blank have only a first and a last *)
(* step.                                                                   *)
(* The program reads and writes registers between any two steps: the       *)
(* machine runs the chip up to the cycle of each access.  Pixels, the fine *)
(* x scroll, the dot an odd frame skips and the late blank of the Dendy    *)
(* (which does not start on line 241) are left out.                        *)
(***************************************************************************)
EXTENDS Integers

CONSTANTS Columns,    \* tiles in a row of a name table, 32
          Rows,       \* rows of tiles in a name table, 30
          RowMax,     \* the last row its address can name, 31
          Fine,       \* lines in a tile, 8
          ShownRows,  \* lines shown, 240
          BlankLines  \* lines from vblank_line to the pre-render line

\* The rows shown are whole tiles; an address can name more of them.
ASSUME VideoSizes ==
  /\ {Columns, Rows, RowMax, Fine, ShownRows, BlankLines} \subseteq Nat \ {0}
  /\ ShownRows = Rows * Fine /\ Rows <= RowMax

VARIABLES line, step, nmiEn, incRow, on, vblank, pending, t, v, toggle, pipe,
          steady, base, taken

videoVars == <<line, step, nmiEn, incRow, on, vblank, pending, t, v, toggle, pipe,
               steady, base, taken>>
regVars   == <<nmiEn, incRow, on, t, toggle>>
blankVars == <<vblank, pending, taken>>
scanVars  == <<v, pipe, steady, base>>

Prerender == ShownRows + 1 + BlankLines
Active    == line < ShownRows \/ line = Prerender
CopyX     == Columns + 1
CopyY     == Columns + 2
LastStep  == IF Active THEN Columns + 4 ELSE 1

\* The fields of a 15-bit address, from the lowest to the highest.
Addresses == [cx : 0 .. Columns - 1, cy : 0 .. RowMax, ntx : 0 .. 1, nty : 0 .. 1, fine : 0 .. Fine - 1]
Number(a) == a.cx + Columns * (a.cy + (RowMax + 1) * (a.ntx + 2 * (a.nty + 2 * a.fine)))
Address(n) ==
  [cx |-> n % Columns, cy |-> (n \div Columns) % (RowMax + 1),
   ntx |-> (n \div (Columns * (RowMax + 1))) % 2, nty |-> (n \div (2 * Columns * (RowMax + 1))) % 2,
   fine |-> (n \div (4 * Columns * (RowMax + 1))) % Fine]

IncrCoarseX(a) ==
  IF a.cx = Columns - 1 THEN [a EXCEPT !.cx = 0, !.ntx = 1 - @] ELSE [a EXCEPT !.cx = @ + 1]

\* The row after the last shown one is in the other table; rows of attributes
\* are left at their end without a change of table.
IncrY(a) ==
  IF a.fine < Fine - 1 THEN [a EXCEPT !.fine = @ + 1]
  ELSE [a EXCEPT !.fine = 0,
                 !.cy = IF @ \in {Rows - 1, RowMax} THEN 0 ELSE @ + 1,
                 !.nty = IF a.cy = Rows - 1 THEN 1 - @ ELSE @]

VideoInit ==
  /\ line = Prerender /\ step = 0
  /\ nmiEn \in BOOLEAN /\ incRow = FALSE /\ on \in BOOLEAN /\ toggle = FALSE
  /\ vblank \in BOOLEAN /\ pending = FALSE
  /\ t \in {[cx |-> Columns - 1, cy |-> Rows - 1, ntx |-> 0, nty |-> 1, fine |-> 0],
            [cx |-> 0, cy |-> RowMax, ntx |-> 1, nty |-> 0, fine |-> Fine - 1]}
  /\ v = t /\ pipe = <<t, t, t>>
  /\ steady = 0 /\ base = t
  /\ taken = IF vblank /\ nmiEn THEN 1 ELSE 0

----------------------------------------------------------------------------
\* The chip.

DotsPass ==
  /\ step' = IF step = LastStep THEN 0 ELSE step + 1
  /\ line' = IF step < LastStep THEN line ELSE IF line = Prerender THEN 0 ELSE line + 1

\* A pending interrupt goes to the processor after the tick.
HandOver(p) == pending' = FALSE /\ taken' = IF p THEN taken + 1 ELSE taken

\* Dot 1: vblank_line sets the flag, the pre-render line clears it.
Flags ==
  /\ step = 0
  /\ CASE line = ShownRows + 1 -> vblank' = TRUE /\ HandOver(pending \/ nmiEn)
       [] line = Prerender -> vblank' = FALSE /\ pending' = FALSE /\ taken' = 0
       [] OTHER -> HandOver(pending) /\ UNCHANGED vblank
  /\ UNCHANGED scanVars

\* A fetch moves the pipeline by a tile and v to the next one.
Fetch ==
  /\ pipe' = <<pipe[2], pipe[3], v>>
  /\ v' = IF step = Columns THEN IncrY(IncrCoarseX(v)) ELSE IncrCoarseX(v)
  /\ UNCHANGED <<steady, base>>

MCopiesX == t

CopiesX == [v EXCEPT !.cx = t.cx, !.ntx = t.ntx]

CopiesY == [v EXCEPT !.cy = t.cy, !.nty = t.nty, !.fine = t.fine]

\* steady becomes 1 when x is copied on the pre-render line and 2 when y is.
Scan ==
  /\ step # 0 /\ HandOver(pending) /\ UNCHANGED vblank
  /\ \/ Active /\ on /\ step \notin {CopyX, CopyY} /\ Fetch
     \/ /\ Active /\ on /\ step = CopyX
        /\ v' = CopiesX
        /\ base' = [base EXCEPT !.cx = t.cx, !.ntx = t.ntx]
        /\ steady' = IF line = Prerender THEN 1 ELSE steady
        /\ UNCHANGED pipe
     \/ /\ Active /\ on /\ step = CopyY
        /\ IF line = Prerender
             THEN /\ v' = CopiesY
                  /\ base' = [t EXCEPT !.cx = base.cx, !.ntx = base.ntx]
                  /\ steady' = IF steady = 1 THEN 2 ELSE 0
             ELSE UNCHANGED <<v, base, steady>>
        /\ UNCHANGED pipe
     \/ Active /\ ~on /\ steady' = 0 /\ UNCHANGED <<v, pipe, base>>
     \/ ~Active /\ UNCHANGED scanVars

Tick == (Flags \/ Scan) /\ DotsPass /\ UNCHANGED regVars

----------------------------------------------------------------------------
\* The program.

Untimed == UNCHANGED <<line, step>>
Writes  == Untimed /\ UNCHANGED <<vblank, pipe, base>>

\* $2002 clears the flag, a pending interrupt and the write toggle.
ReadStatus ==
  /\ Untimed
  /\ vblank' = FALSE /\ pending' = FALSE /\ toggle' = FALSE /\ taken' = 0
  /\ UNCHANGED <<nmiEn, incRow, on, t, scanVars>>

MEnables(en) == en

\* Enabling the interrupt in the blank raises it at once; only an edge does.
Enables(en) == en /\ ~nmiEn

WriteCtrl ==
  /\ Writes
  /\ \E en, inc \in BOOLEAN, x, y \in 0 .. 1 :
       /\ nmiEn' = en /\ incRow' = inc
       /\ t' = [t EXCEPT !.ntx = x, !.nty = y]
       /\ pending' = (pending \/ (vblank /\ Enables(en)))
       /\ taken' = IF en /\ ~nmiEn THEN 0 ELSE taken
  /\ UNCHANGED <<on, toggle, v, steady>>

WriteMask ==
  /\ Writes
  /\ on' = ~on
  /\ steady' = IF Active THEN 0 ELSE steady
  /\ UNCHANGED <<nmiEn, incRow, t, toggle, v, pending, taken>>

\* $2005: x first, then y.
WriteScroll ==
  /\ Writes
  /\ toggle' = ~toggle
  /\ IF ~toggle THEN \E x \in 0 .. Columns - 1 : t' = [t EXCEPT !.cx = x]
     ELSE \E y \in 0 .. RowMax, f \in 0 .. Fine - 1 : t' = [t EXCEPT !.cy = y, !.fine = f]
  /\ UNCHANGED <<nmiEn, incRow, on, v, steady, pending, taken>>

\* $2006: the high half of t, then the low half and v; the row has bits in
\* both.
WriteAddr ==
  /\ Writes
  /\ toggle' = ~toggle
  /\ \E y \in 0 .. RowMax :
       IF ~toggle THEN \E nx, ny \in 0 .. 1, f \in 0 .. Fine \div 2 - 1 :
                    /\ t' = [t EXCEPT !.cy = y, !.ntx = nx, !.nty = ny, !.fine = f]
                    /\ UNCHANGED <<v, steady>>
       ELSE \E x \in 0 .. Columns - 1 :
              /\ t' = [t EXCEPT !.cy = y, !.cx = x]
              /\ v' = t' /\ steady' = 0
  /\ UNCHANGED <<nmiEn, incRow, on, pending, taken>>

\* $2007, read or written: while the chip draws, v moves as the chip moves it.
IncrementVramAddr ==
  /\ Writes
  /\ v' = IF on /\ Active THEN IncrY(IncrCoarseX(v))
          ELSE Address((Number(v) + IF incRow THEN Columns ELSE 1) % (4 * Columns * (RowMax + 1) * Fine))
  /\ steady' = 0
  /\ UNCHANGED <<nmiEn, incRow, on, t, toggle, pending, taken>>

\* The reset keeps the flag and goes to the pre-render line.
ResetVideo ==
  /\ line' = Prerender /\ step' = 0
  /\ nmiEn' = FALSE /\ incRow' = FALSE /\ on' = FALSE /\ toggle' = FALSE
  /\ t' = Address(0) /\ v' = Address(0) /\ pipe' = <<t', t', t'>>
  /\ pending' = FALSE /\ taken' = 0 /\ steady' = 0
  /\ UNCHANGED <<vblank, base>>

Program ==
  \/ ReadStatus \/ WriteCtrl \/ WriteMask \/ WriteScroll \/ WriteAddr
  \/ IncrementVramAddr \/ ResetVideo

VideoNext == Tick \/ Program

VideoSpec == VideoInit /\ [][VideoNext]_videoVars

----------------------------------------------------------------------------
VideoTypeOK ==
  /\ line \in 0 .. Prerender /\ step \in 0 .. Columns + 4
  /\ {t, v, base, pipe[1], pipe[2], pipe[3]} \subseteq Addresses
  /\ {nmiEn, incRow, on, vblank, pending, toggle} \subseteq BOOLEAN
  /\ steady \in 0 .. 2 /\ taken \in 0 .. 1

\* The tile k of line n is the one k columns right of the x that t had when the
\* line before ended, and n lines below the y that t had on the pre-render line,
\* over both pairs of name tables: whatever else is written to t meanwhile.
SteadyPicture ==
  LET X(a) == a.ntx * Columns + a.cx
      Y(a) == (a.nty * Rows + a.cy) * Fine + a.fine
  IN  steady = 2 /\ line < ShownRows /\ step \in 2 .. CopyX /\ base.cy < Rows =>
        /\ X(pipe[1]) = (X(base) + step - 2) % (2 * Columns)
        /\ Y(pipe[1]) = (Y(base) + line) % (2 * ShownRows)

\* The processor gets one interrupt for each time flag and enable are both set,
\* at the next tick at the latest.
OneNmiPerEdge == taken <= 1 /\ (vblank /\ nmiEn => pending \/ taken = 1) /\ (taken = 1 => ~pending)

\* What the program may count on while it writes to the registers at any time:
\* the scroll it set in the blank shows, and no blank goes by without its
\* interrupt.
PictureKeepsTime == SteadyPicture /\ OneNmiPerEdge
=============================================================================
