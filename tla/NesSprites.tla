----------------------------- MODULE NesSprites -----------------------------
(***************************************************************************)
(* The sprite half of the NES video chip: the bytes of OAM, the search for *)
(* the sprites of the next line through a pointer that the program can     *)
(* move, the few found ones in oam2 and what is loaded of them for drawing.*)
(*                                                                         *)
(* A line is taken in steps: 0 the clearing of oam2 (dots 1-64), then the  *)
(* pairs of dots of the search, then dots 257-320.  Lines that draw        *)
(* nothing have one step.  The program's accesses fall between the steps,  *)
(* not between the two dots of a pair.  Colours, patterns and hits are     *)
(* left out; the bytes of a sprite are its line, a number of its own and   *)
(* two more.                                                               *)
(***************************************************************************)
EXTENDS Integers, Sequences, FiniteSets

CONSTANTS Sprites,     \* sprites in OAM, 64
          PerLine,     \* sprites on a line, 8
          SearchSteps, \* pairs of dots of a search, 96
          ShownLines,  \* 240
          Heights      \* lines of a small and a large sprite, <<8, 16>>

\* The search reaches the last sprite after copying four bytes of each found.
ASSUME SpriteSizes ==
  /\ Sprites \in Nat /\ Sprites > 0 /\ PerLine \in Nat /\ PerLine > 0 /\ ShownLines \in Nat
  /\ SearchSteps \in Nat /\ SearchSteps >= Sprites + 3 * PerLine

VARIABLES row, dots, shows, tall, oam, oamaddr, oam2, eval, ovf, drawn, calm

spriteVars == <<row, dots, shows, tall, oam, oamaddr, oam2, eval, ovf, drawn, calm>>

LastRow  == ShownLines + 1
Visible  == row < ShownLines
Draws    == shows /\ (Visible \/ row = LastRow)
LoadStep == SearchSteps + 1
EndStep  == IF Visible \/ row = LastRow THEN LoadStep ELSE 0

OamSize == 4 * Sprites
Off     == 255 - Sprites   \* a line no sprite shows on, and numbers above it
ClearedOam2 == [b \in 0 .. 4 * PerLine - 1 |-> 255]
NoEval  == [slot |-> 0, byte |-> 0, copy |-> 0, done |-> FALSE, zero |-> FALSE]

InRange(y, r, big) == r - y \in 0 .. Heights[IF big THEN 2 ELSE 1] - 1

\* The oam of a program: the sprites' lines, one value for their other bytes.
Oams(Ys, others) ==
  {[a \in 0 .. OamSize - 1 |->
      CASE a % 4 = 0 -> f[a \div 4] [] a % 4 = 1 -> Off + 1 + a \div 4 [] OTHER -> o] :
     f \in [0 .. Sprites - 1 -> Ys], o \in others}

SpriteInit ==
  /\ row = LastRow /\ dots = 0
  /\ shows \in BOOLEAN /\ tall \in BOOLEAN
  /\ oam \in Oams({0, 1, Off}, {0, Off})
  /\ oamaddr \in {0, 1, OamSize - 4}
  /\ oam2 = ClearedOam2 /\ eval = NoEval /\ ovf = FALSE
  /\ drawn = <<>> /\ calm = 0

----------------------------------------------------------------------------
\* One step of the search: the byte under the pointer goes to oam2 while there
\* is room; past that the pointer also moves within the sprite, as in the chip.

Aligned(a) == 4 * (a \div 4)

MNext4(e, a, in) == IF e.byte = 0 /\ ~in THEN a + 4 ELSE a + 2

\* Where the pointer goes while sprites are collected.
Next4(e, a, in) ==
  CASE e.byte = 0 /\ ~in -> Aligned(a + 4)
    [] e.byte = 3 /\ ~in -> Aligned(a + 1)
    [] OTHER -> a + 1

Collect(e, a, value, in, first) ==
  /\ oam2' = [oam2 EXCEPT ![4 * e.slot + e.byte] = value]
  /\ eval' = [e EXCEPT !.zero = @ \/ (first /\ e.byte = 0 /\ in),
                       !.byte = IF @ = 0 THEN (IF in THEN 1 ELSE 0) ELSE (@ + 1) % 4,
                       !.slot = IF e.byte = 3 THEN @ + 1 ELSE @,
                       !.done = Next4(e, a, in) >= OamSize]
  /\ oamaddr' = Next4(e, a, in) % OamSize
  /\ UNCHANGED ovf

Overflow(e, a, in) ==
  LET next == IF in \/ e.copy > 0 THEN a + 1 ELSE a + 5
  IN  /\ eval' = [e EXCEPT !.copy = IF @ > 0 THEN @ - 1 ELSE IF in THEN 3 ELSE 0,
                           !.done = e.copy = 1 \/ next >= OamSize]
      /\ ovf' = (ovf \/ (e.copy = 0 /\ in))
      /\ oamaddr' = next % OamSize
      /\ UNCHANGED oam2

Started(d) == IF d = 1 THEN NoEval ELSE eval

Search ==
  LET e     == Started(dots)
      value == oam[oamaddr]
      in    == InRange(value, row, tall)
  IN  CASE e.done -> /\ oamaddr' = (oamaddr + 4) % OamSize
                     /\ eval' = e /\ UNCHANGED <<oam2, ovf>>
        [] ~e.done /\ e.slot < PerLine -> Collect(e, oamaddr, value, in, dots = 1)
        [] OTHER -> Overflow(e, oamaddr, in)

\* The sprites found are loaded, and the pointer goes back to the first.
Slot2(i) == <<oam2[4 * i], oam2[4 * i + 1], oam2[4 * i + 2], oam2[4 * i + 3]>>

Load ==
  /\ drawn' = IF Visible THEN [i \in 1 .. eval.slot |->
                                 [bytes |-> Slot2(i - 1), zero |-> i = 1 /\ eval.zero]]
              ELSE <<>>
  /\ oamaddr' = 0
  /\ calm' = IF calm = 0 THEN 1 ELSE 2
  /\ UNCHANGED <<oam2, eval, ovf>>

\* A tick of the chip: calm counts the loads since the program last interfered.
SpriteTick ==
  /\ dots' = IF dots = EndStep THEN 0 ELSE dots + 1
  /\ row' = IF dots < EndStep THEN row ELSE IF row = LastRow THEN 0 ELSE row + 1
  /\ UNCHANGED <<shows, tall, oam>>
  /\ \/ /\ dots = 0
        /\ oam2' = IF shows /\ Visible THEN ClearedOam2 ELSE oam2
        /\ ovf' = (ovf /\ row # LastRow)
        /\ UNCHANGED <<oamaddr, eval, drawn, calm>>
     \/ /\ dots \in 1 .. SearchSteps
        /\ IF shows /\ Visible THEN Search ELSE UNCHANGED <<oamaddr, oam2, eval, ovf>>
        /\ UNCHANGED <<drawn, calm>>
     \/ /\ dots = LoadStep
        /\ IF shows THEN Load ELSE UNCHANGED <<oamaddr, oam2, eval, ovf, drawn, calm>>

----------------------------------------------------------------------------
\* The program.

Interferes == calm' = 0 /\ UNCHANGED <<row, dots, oam2, eval, ovf, drawn>>

\* $2000 and $2001.
SetHeight == tall' = ~tall /\ Interferes /\ UNCHANGED <<shows, oam, oamaddr>>
SetShows  == shows' = ~shows /\ Interferes /\ UNCHANGED <<tall, oam, oamaddr>>

\* $2003.
SetOamAddr ==
  \E a \in {0, 1, OamSize - 1} : oamaddr' = a /\ Interferes /\ UNCHANGED <<shows, tall, oam>>

\* $2004, of which a sprite DMA is OamSize: while the chip draws only the
\* pointer moves.
WriteOam ==
  /\ \E y \in {0, Off} :
       IF Draws THEN oamaddr' = (oamaddr + 4) % OamSize /\ UNCHANGED oam
       ELSE oamaddr' = (oamaddr + 1) % OamSize /\ oam' = [oam EXCEPT ![oamaddr] = y]
  /\ Interferes /\ UNCHANGED <<shows, tall>>

\* The reset leaves OAM alone.
ResetSprites ==
  /\ row' = LastRow /\ dots' = 0 /\ shows' = FALSE /\ tall' = FALSE
  /\ oamaddr' = 0 /\ oam2' = ClearedOam2 /\ ovf' = FALSE /\ drawn' = <<>> /\ calm' = 0
  /\ eval' = [eval EXCEPT !.zero = FALSE]
  /\ UNCHANGED oam

SpriteProgram == SetHeight \/ SetShows \/ SetOamAddr \/ WriteOam \/ ResetSprites

SpriteNext == SpriteTick \/ SpriteProgram

SpriteSpec == SpriteInit /\ [][SpriteNext]_spriteVars

----------------------------------------------------------------------------
SpriteTypeOK ==
  /\ row \in 0 .. LastRow /\ dots \in 0 .. LoadStep
  /\ oamaddr \in 0 .. OamSize - 1
  /\ eval.slot \in 0 .. PerLine /\ eval.byte \in 0 .. 3 /\ eval.copy \in 0 .. 3
  /\ Len(drawn) <= PerLine

\* The sprites before n that reach a line.
Reaching(n, r) == {i \in 0 .. n - 1 : InRange(oam[4 * i], r, tall)}
Before(n, r)   == Cardinality(Reaching(n, r))
Sprite(i)      == <<oam[4 * i], oam[4 * i + 1], oam[4 * i + 2], oam[4 * i + 3]>>

\* The sprites drawn on the next line are the first of those that reach it, in
\* the order of OAM, and sprite zero is known as such: if the program left the
\* chip alone since the line before.
SpritesPicked ==
  calm = 2 /\ dots = 0 /\ row \in 1 .. ShownLines =>
    LET reach == Before(Sprites, row - 1)
    IN  /\ DOMAIN drawn = 1 .. (IF reach < PerLine THEN reach ELSE PerLine)
        /\ \A i \in Reaching(Sprites, row - 1) :
             Before(i, row - 1) < PerLine =>
               drawn[Before(i, row - 1) + 1] = [bytes |-> Sprite(i), zero |-> i = 0]
=============================================================================
