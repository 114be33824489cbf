------------------------------ MODULE NesBoards ------------------------------
(***************************************************************************)
(* Bank switching of the NES cartridge boards: what each mapper makes of a *)
(* write, which 8K bank of PRG ROM and 1K bank of CHR each slot then shows *)
(* and how the nametables are arranged, and a reset at any moment.         *)
(*                                                                         *)
(* A board is a record: `m' the mapper (0 before a cartridge is powered    *)
(* on), `cart' the mirroring of its header, `ram' that its CHR is RAM,     *)
(* `prg' and `chr' the banks in the slots, `reg' and `cmd' the mapper's    *)
(* registers, `shift' the bits of the MMC1 received so far, `mir' and `nt' *)
(* the nametables.  Banks are numbered from 0; CHR banks from NChr up are  *)
(* the RAM of TQROM, and Ram is the PRG RAM of the MMC5.                   *)
(* Assumed of the ROM: at least 128K of PRG for mapper 9, whose bank       *)
(* number the code does not reduce, and whole units of 32K for the boards  *)
(* in WholeOnly: the code reduces the first bank of 32K and lets the       *)
(* others follow it, so with one bank of 16K they would run past the ROM.  *)
(***************************************************************************)
EXTENDS Integers, Sequences

CONSTANTS NPrg,       \* 8K banks of PRG ROM
          NChr,       \* 1K banks of CHR
          BoardVals   \* bytes written

\* CHR comes in units of 8K, PRG in units of 16K.
ASSUME BoardSizes ==
  /\ NPrg \in Nat /\ NPrg > 0 /\ NPrg % 2 = 0
  /\ NChr \in Nat /\ NChr >= 8 /\ NChr % 8 = 0
  /\ BoardVals \subseteq 0..255

VARIABLES board,      \* the board
          fresh       \* nothing was written since the last reset

boardVars == <<board, fresh>>

Ram == -1
\* The bits of v from the weight lo, which take n values.
Bits(v, lo, n) == (v \div lo) % n
Odd(v) == v % 2 = 1
Even(v) == 2 * (v \div 2)

----------------------------------------------------------------------------
\* Selecting banks.

Prg8(b, s, k) == [b EXCEPT !.prg[s] = k % NPrg]
PrgAll(b, q) == [b EXCEPT !.prg = [s \in 0..3 |-> (q[s + 1] % NPrg)]]
Prg16(b, h, k) == Prg8(Prg8(b, 2*h, 2*k), 2*h + 1, 2*k + 1)
Prg32(b, k) == PrgAll(b, [i \in 1..4 |-> 4*k + i - 1])
\* 32K of which only the first bank is reduced to the size of the ROM.
Whole32(b, k) == [b EXCEPT !.prg = [s \in 0..3 |-> ((4*k) % NPrg) + s]]
Chr1(b, s, k) == [b EXCEPT !.chr[s] = k % NChr]
ChrAll(b, q) == [b EXCEPT !.chr = [s \in 0..7 |-> (q[s + 1] % NChr)]]
Chr2(b, h, k) == Chr1(Chr1(b, 2*h, 2*k), 2*h + 1, 2*k + 1)
Chr4(b, h, k) == [b EXCEPT !.chr = [s \in 0..7 |-> IF s \div 4 = h THEN (4*k + (s % 4)) % NChr ELSE @[s]]]
Chr8(b, k) == ChrAll(b, [i \in 1..8 |-> 8*k + i - 1])

MirrorVhab(b, v) == [b EXCEPT !.mir = <<"vertical", "horizontal", "A", "B">>[(v % 4) + 1]]
MirrorHv(b, h) ==
  IF b.cart = "4screen" THEN b ELSE [b EXCEPT !.mir = IF h THEN "horizontal" ELSE "vertical"]
Single(b, second) == [b EXCEPT !.mir = IF second THEN "B" ELSE "A"]
SetNt(b, q) == [b EXCEPT !.nt = q]
SetReg(b, r, v) == [b EXCEPT !.reg[r] = v]

----------------------------------------------------------------------------
\* Boards whose banks are worked out again from their registers.

Mmc1Banks(b) ==
  LET mode == Bits(b.reg[0], 4, 4)
      bank == b.reg[3] % 16
      pair == IF mode = 2 THEN <<0, bank>> ELSE <<bank, NPrg \div 2 - 1>>
      c == IF Bits(b.reg[0], 16, 2) = 0 THEN <<Even(b.reg[1]), Even(b.reg[1]) + 1>>
           ELSE <<b.reg[1], b.reg[2]>>
      prged == IF mode \in {0, 1} THEN Whole32(b, bank \div 2)
               ELSE Prg16(Prg16(b, 0, pair[1]), 1, pair[2])
  IN  [Chr4(Chr4(prged, 0, c[1]), 1, c[2]) EXCEPT
         !.mir = <<"A", "B", "vertical", "horizontal">>[(b.reg[0] % 4) + 1]]

Mmc3Banks(b) ==
  LET r == b.reg
      f0 == NPrg - 2
      prged == PrgAll(b, IF Bits(b.cmd, 64, 2) = 0 THEN <<r[6], r[7], f0, NPrg - 1>>
                         ELSE <<f0, r[7], r[6], NPrg - 1>>)
      q == <<Even(r[0]), Even(r[0]) + 1, Even(r[1]), Even(r[1]) + 1,
             r[2], r[3], r[4], r[5]>>
      bank(k) == IF b.m = 119 /\ Bits(k, 64, 2) = 1 THEN NChr + (k % 8) ELSE (k % NChr)
      from(w) == IF b.cmd >= 128 THEN (w + 4) % 8 ELSE w
  IN  IF b.ram THEN prged
      ELSE [prged EXCEPT !.chr = [w \in 0..7 |-> bank(q[from(w) + 1])]]

M178Banks(b) ==
  LET outer == 8 * b.reg[2]
      inner == outer + (b.reg[1] % 8)
      even == outer + Even(b.reg[1] % 8)
      pair == CASE Bits(b.reg[0], 2, 4) = 0 -> <<even, even + 1>>
                [] Bits(b.reg[0], 2, 4) = 2 -> <<inner, inner>>
                [] OTHER -> <<inner, outer + 7>>
  IN  [Prg16(Prg16(b, 0, pair[1]), 1, pair[2]) EXCEPT
         !.mir = IF Odd(b.reg[0]) THEN "horizontal" ELSE "vertical"]

\* Registers 0-4 are $5113-$5117 and 5 is the PRG mode.
Mmc5Prg(b) ==
  LET r == b.reg
      mode == r[5]
      down(k, n) == n * ((k % 128) \div n)
      slot(s) ==
        CASE mode = 1 -> IF s < 2 THEN down(r[2], 2) + s ELSE down(r[4], 2) + s - 2
          [] mode = 2 -> IF s < 2 THEN down(r[2], 2) + s ELSE (r[s + 1] % 128)
          [] mode = 3 -> (r[s + 1] % 128)
      isRam(s) ==
        CASE mode \in {1, 2} /\ s < 2 -> r[2] < 128
          [] mode = 2 /\ s = 2 -> r[3] < 128
          [] mode = 3 /\ s < 3 -> r[s + 1] < 128
          [] OTHER -> FALSE
  IN  IF mode = 0 THEN Whole32(b, (r[4] % 128) \div 4)
      ELSE [b EXCEPT !.prg = [s \in 0..3 |-> IF isRam(s) THEN Ram ELSE slot(s) % NPrg]]

\* Registers 8-19 are $5120-$512B, 6 the CHR mode, 7 the upper bits ($5130).
Mmc5Chr(b, s, spr) ==
  LET r == b.reg
      n == s % 4
      at(k, sub) == (256 * r[7] + r[8 + k] + sub) % NChr
  IN  IF spr THEN CASE r[6] = 0 -> at(7, s)
                    [] r[6] = 1 -> at(IF s >= 4 THEN 7 ELSE 3, n)
                    [] r[6] = 2 -> at((s \div 2) * 2 + 1, (s % 2))
                    [] r[6] = 3 -> at(s, 0)
      ELSE CASE r[6] \in {0, 1} -> at(11, n)
             [] r[6] = 2 -> at((n \div 2) * 2 + 9, (n % 2))
             [] r[6] = 3 -> at(8 + n, 0)

Mapper9Banks(b) ==
  LET bank(h) == b.reg[1 + 2*h + b.reg[5 + h]]
      paged == [b EXCEPT !.prg = [s \in 0..3 |-> IF s = 0 THEN b.reg[0] ELSE NPrg - 4 + s]]
  IN  IF b.ram THEN paged ELSE Chr4(Chr4(paged, 0, bank(0)), 1, bank(1))

Vrc4Prg(b) ==
  LET fixed == NPrg - 2
  IN  PrgAll(b, IF Bits(b.reg[2], 2, 2) = 1 THEN <<fixed, b.reg[1], b.reg[0], NPrg - 1>>
                ELSE <<b.reg[0], b.reg[1], fixed, NPrg - 1>>)

RamboUpdate(b) ==
  LET r == b.reg
      c == (IF Bits(b.cmd, 32, 2) = 1 THEN <<r[0], r[8], r[1], r[9]>>
            ELSE <<Even(r[0]), Even(r[0]) + 1, Even(r[1]), Even(r[1]) + 1>>)
           \o <<r[2], r[3], r[4], r[5]>>
      chred == ChrAll(b, [i \in 1..8 |-> c[IF b.cmd >= 128 THEN ((i + 3) % 8) + 1 ELSE i]])
  IN  PrgAll(chred, IF Bits(b.cmd, 64, 2) = 1 THEN <<r[15], r[6], r[7], NPrg - 1>>
                    ELSE <<r[6], r[7], r[15], NPrg - 1>>)

Namco108Update(b) ==
  LET r == b.reg
      chr(k) == r[k] % (IF b.m = 95 THEN 32 ELSE 64)
      pages == ChrAll(b, <<2 * (chr(0) \div 2), 2 * (chr(0) \div 2) + 1,
                           2 * (chr(1) \div 2), 2 * (chr(1) \div 2) + 1,
                           chr(2), chr(3), chr(4), chr(5)>>)
      all == PrgAll(pages, <<(r[6] % 16), (r[7] % 16), NPrg - 2, NPrg - 1>>)
      lo == Bits(r[0], 32, 2)
      hi == Bits(r[1], 32, 2)
  IN  IF b.m = 95 THEN SetNt(all, <<lo, lo, hi, hi>>) ELSE all

NtdecUpdate(b) ==
  LET r == b.reg
  IN  PrgAll(ChrAll(b, <<Even(r[2]), Even(r[2]) + 1, Even(r[3]), Even(r[3]) + 1,
                         r[4], r[5], r[6], r[7]>>),
             <<r[0], r[1], NPrg - 2, NPrg - 1>>)

SachenUpdate(b) ==
  LET r == b.reg
      chr == IF b.m = 150 THEN 8 * (r[2] % 2) + 4 * (r[4] % 2) + (r[6] % 4)
             ELSE (r[2] % 2) + 2 * (r[4] % 2) + 4 * (r[6] % 4)
  IN  SetNt(Chr8(Prg32(b, r[5] % 8), chr),
            <<<<0, 1, 0, 1>>, <<0, 0, 1, 1>>, <<0, 1, 1, 1>>, <<1, 1, 1, 1>>>>[Bits(r[7], 2, 4) + 1])

----------------------------------------------------------------------------
\* A write of v to address a.  Where the ROM drives the bus against the
\* program (mappers 3, 11, 66, 70, 78, 180, 185), v is what is left of it.

Mmc1Write(b, a, v) ==
  LET bits == Append(b.shift, v % 2)
      value == bits[1] + 2*bits[2] + 4*bits[3] + 8*bits[4] + 16*bits[5]
  IN  IF v >= 128
      THEN Mmc1Banks([b EXCEPT !.shift = <<>>, !.reg[0] = 16 * (@ \div 16) + 12 + (@ % 4)])
      ELSE IF Len(bits) < 5 THEN [b EXCEPT !.shift = bits]
           ELSE Mmc1Banks([b EXCEPT !.shift = <<>>, !.reg[Bits(a, 8192, 4)] = value])

Mmc3Write(b, a, v) ==
  CASE a = \h8000 -> [b EXCEPT !.cmd = v]
    [] a = \h8001 -> Mmc3Banks(SetReg(b, b.cmd % 8, v))
    [] a = \hA000 -> MirrorHv(b, Odd(v))
    [] OTHER -> b

Mmc5Write(b, a, v) ==
  CASE a = \h5100 -> Mmc5Prg(SetReg(b, 5, v % 4))
    [] a = \h5101 -> SetReg(b, 6, v % 4)
    [] a = \h5105 -> SetNt(b, <<v % 4, Bits(v, 4, 4), Bits(v, 16, 4), Bits(v, 64, 4)>>)
    [] a \in \h5113..\h5117 -> Mmc5Prg(SetReg(b, a - \h5113, v))
    [] a \in \h5120..\h512B -> SetReg(b, 8 + a - \h5120, v)
    [] a = \h5130 -> SetReg(b, 7, v % 4)

Vrc6Write(b, a, v) ==
  LET line == IF b.m = 26 THEN 2 * (a % 2) + Bits(a, 2, 2) ELSE (a % 4)
      page == a \div \h1000
  IN  CASE page = 8 -> Prg16(b, 0, v % 16)
        [] page = 11 /\ line = 3 -> [b EXCEPT !.mir = <<"vertical", "horizontal", "A", "B">>[Bits(v, 4, 4) + 1]]
        [] page = 12 /\ line = 0 -> Prg8(b, 2, v % 32)
        [] page = 13 -> Chr1(b, line, v)
        [] page = 14 -> Chr1(b, 4 + line, v)
        [] OTHER -> b

\* The address itself selects the banks of mapper 228.
M228Write(b, a, v) ==
  LET chip == Bits(a, 2048, 4)
      bank == (IF chip = 3 THEN 64 ELSE 32 * chip) + Bits(a, 64, 32)
      pair == IF Bits(a, 32, 2) = 0 THEN <<Even(bank), Even(bank) + 1>> ELSE <<bank, bank>>
  IN  IF chip = 2 THEN b
      ELSE [Chr8(Prg16(Prg16(b, 0, pair[1]), 1, pair[2]), 4 * (a % 16) + (v % 4)) EXCEPT
              !.mir = IF Bits(a, 8192, 2) = 1 THEN "horizontal" ELSE "vertical"]

Vrc4Write(b, a, v) ==
  LET line(lo, hi) == IF Bits(a, lo, 2) = 1 \/ Bits(a, hi, 2) = 1 THEN 1 ELSE 0
      r == line(1, 4) + 2 * line(2, 8)
      page == a \div \h1000
      i == 2 * (page - 11) + r \div 2
      old == b.reg[8 + i]
      whole == IF Odd(r) THEN (old % 16) + 16 * (v % 32) ELSE 16 * (old \div 16) + (v % 16)
  IN  CASE page = 8 -> Vrc4Prg(SetReg(b, 0, v % 32))
        [] page = 9 /\ r < 2 -> MirrorVhab(b, v)
        [] page = 9 /\ r = 2 -> Vrc4Prg(SetReg(b, 2, v))
        [] page = 10 -> Vrc4Prg(SetReg(b, 1, v % 32))
        [] page \in 11..14 -> Chr1(SetReg(b, 8 + i, whole), i, whole)
        [] OTHER -> b

RamboWrite(b, a, v) ==
  CASE a = \h8000 -> RamboUpdate([b EXCEPT !.cmd = v])
    [] a = \h8001 -> RamboUpdate(SetReg(b, b.cmd % 16, v))
    [] a = \hA000 -> MirrorHv(b, Odd(v))
    [] OTHER -> b

\* Boards whose write selects everything it changes.
PlainWrite(b, a, v) ==
  LET m == b.m
      page == a \div \h1000
  IN CASE m = 2 -> Prg16(b, 0, v)
       [] m = 3 -> Chr8(b, v)
       [] m = 66 -> Chr8(Whole32(b, Bits(v, 16, 4)), v % 4)
       [] m = 7 -> Single(Whole32(b, v % 8), Bits(v, 16, 2) = 1)
       [] m = 9 -> IF page = 15 THEN [b EXCEPT !.mir = IF Odd(v) THEN "horizontal" ELSE "vertical"]
                   ELSE Mapper9Banks(SetReg(b, IF page < 11 THEN 0 ELSE page - 10,
                                            IF page < 11 THEN v % 16 ELSE v % 32))
       [] m = 178 -> M178Banks(IF a = \h4803 THEN b ELSE SetReg(b, a - \h4800, v))
       [] m = 11 -> Chr8(Prg32(b, v % 4), v \div 16)
       [] m = 16 -> (CASE a % 16 < 8 -> Chr1(b, a % 8, v) [] a % 16 = 8 -> Prg16(b, 0, v % 16)
                       [] a % 16 = 9 -> MirrorVhab(b, v) [] OTHER -> b)
       [] m = 19 -> (CASE page < 12 -> Chr1(b, Bits(a, 2048, 8), v)
                       [] page \in {12, 13} -> [b EXCEPT !.nt[Bits(a, 2048, 4) + 1] = v]
                       [] page >= 14 /\ a < \hF800 -> Prg8(b, Bits(a, 2048, 8) - 4, (v % 64))
                       [] OTHER -> b)
       [] m = 33 -> (CASE a = \h8000 -> MirrorHv(Prg8(b, 0, v % 64), Bits(v, 64, 2) = 1)
                       [] a = \h8001 -> Prg8(b, 1, v % 64)
                       [] a \in {\h8002, \h8003} -> Chr2(b, a % 2, v)
                       [] OTHER -> Chr1(b, 4 + (a % 4), v))
       [] m = 69 -> (CASE page < 10 -> [b EXCEPT !.cmd = v % 16]
                       [] page \in {10, 11} /\ b.cmd < 8 -> Chr1(b, b.cmd, v)
                       [] page \in {10, 11} /\ b.cmd \in 9..11 -> Prg8(b, b.cmd - 9, (v % 64))
                       [] page \in {10, 11} /\ b.cmd = 12 -> MirrorVhab(b, v)
                       [] OTHER -> b)
       [] m = 70 -> Chr8(Prg16(b, 0, v \div 16), v % 16)
       [] m = 71 -> IF page >= 12 THEN Prg16(b, 0, v % 16)
                    ELSE IF page = 9 THEN Single(b, Bits(v, 16, 2) = 1) ELSE b
       [] m = 78 -> LET paged == Chr8(Prg16(b, 0, v % 8), v \div 16)
                    IN  IF b.reg[15] = 1
                        THEN [paged EXCEPT !.mir = IF Bits(v, 8, 2) = 1 THEN "vertical" ELSE "horizontal"]
                        ELSE Single(paged, Bits(v, 8, 2) = 1)
       [] m = 79 -> Chr8(Prg32(b, Bits(v, 8, 2)), v % 8)
       [] m = 113 -> MirrorHv(Chr8(Prg32(b, Bits(v, 8, 8)), (v % 8) + 8 * Bits(v, 64, 2)), v < 128)
       [] m = 87 -> Chr8(b, 2 * (v % 2) + Bits(v, 2, 2))
       [] m \in {95, 206} -> (IF page >= 10 THEN b
                                ELSE IF Odd(a) THEN Namco108Update(SetReg(b, b.cmd, v))
                                ELSE [b EXCEPT !.cmd = v % 8])
       [] m = 112 -> (CASE a = \h8000 -> [b EXCEPT !.cmd = v % 8]
                        [] a = \hA000 -> NtdecUpdate(SetReg(b, b.cmd, v))
                        [] a = \hE000 -> MirrorHv(b, Odd(v))
                        [] OTHER -> b)
       [] m = 132 -> IF a < \h8000 THEN SetReg(b, a % 4, v)
                     ELSE Chr8(Prg32(b, Bits(b.reg[2], 4, 2)), b.reg[2] % 4)
       [] m \in {150, 243} -> IF Odd(a) THEN SachenUpdate(SetReg(b, b.cmd, v)) ELSE [b EXCEPT !.cmd = v % 8]
       [] m = 180 -> Prg16(b, 1, v % 8)
       [] m = 184 -> Chr4(Chr4(b, 0, (v % 8)), 1, Bits(v, 16, 4) + 4)
       [] m = 185 -> SetReg(b, 0, IF v % 4 # 0 /\ v # 19 THEN 0 ELSE 1)

Written(b, a, v) ==
  CASE b.m = 1 -> Mmc1Write(b, a, v)
    [] b.m \in {4, 119} -> Mmc3Write(b, a, v)
    [] b.m = 5 -> Mmc5Write(b, a, v)
    [] b.m = 23 -> Vrc4Write(b, a, v)
    [] b.m \in {24, 26} -> Vrc6Write(b, a, v)
    [] b.m = 64 -> RamboWrite(b, a, v)
    [] b.m = 228 -> M228Write(b, a, v)
    [] OTHER -> PlainWrite(b, a, v)

\* Addresses at which the boards tell writes apart.
Ports(m) ==
  CASE m = 1 -> {\h8000, \hA000, \hC000, \hE000}
    [] m \in {4, 119, 64, 112} -> {\h8000, \h8001, \hA000, \hE000}
    [] m = 5 -> {\h5100, \h5101, \h5105, \h5114, \h5115, \h5117, \h5127, \h512B, \h5130}
    [] m = 9 -> {\hA000, \hB000, \hC000, \hD000, \hE000, \hF000}
    [] m = 16 -> {\h8000, \h8007, \h8008, \h8009}
    [] m = 19 -> {\h8000, \hB800, \hC800, \hE000, \hE800, \hF000, \hF800}
    [] m = 23 -> {\h8000, \h9000, \h9002, \h9008, \hA000, \hB000, \hB001, \hB004, \hE003, \hE008}
    [] m \in {24, 26} -> {\h8000, \hB003, \hC000, \hC001, \hD001, \hD002, \hE003}
    [] m = 33 -> {\h8000, \h8001, \h8002, \h8003, \hA000, \hA003}
    [] m = 69 -> {\h8000, \hA000, \hC000}
    [] m = 71 -> {\h8000, \h9000, \hC000}
    [] m \in {79, 113} -> {\h4100}
    [] m \in {87, 184} -> {\h6000}
    [] m \in {95, 206} -> {\h8000, \h8001, \hA000}
    [] m = 132 -> {\h4102, \h4103, \h8000}
    [] m \in {150, 243} -> {\h4100, \h4101}
    [] m = 178 -> {\h4800, \h4801, \h4802, \h4803}
    [] m = 228 -> {\h8000, \h80E0, \h8861, \h9001, \hB8C3}
    [] OTHER -> {\h8000}

Mappers == {1, 2, 3, 4, 5, 7, 9, 11, 16, 19, 23, 24, 26, 33, 64, 66, 69, 70, 71, 78, 79, 87, 95, 112,
            113, 119, 132, 150, 178, 180, 184, 185, 206, 228, 243}
\* Boards that need whole units of 32K.
WholeOnly == {1, 5, 7, 66}

----------------------------------------------------------------------------
\* nes_reset and nes_board_reset; what they leave alone stays.

MCleared(b) == [b EXCEPT !.cmd = 0, !.shift = <<>>, !.mir = b.cart]
Cleared(b) == [b EXCEPT !.cmd = 0, !.shift = <<>>, !.mir = b.cart, !.reg = [r \in 0..19 |-> 0]]
HeaderNt(b) ==
  LET v == IF b.cart = "vertical" THEN 1 ELSE 0
  IN  IF b.m = 19 THEN <<224, 224 + v, 225 - v, 225>> ELSE <<0, v, 1 - v, 1>>
Generic(b) == SetNt(Chr8(PrgAll(Cleared(b), <<0, 1, NPrg - 2, NPrg - 1>>), 0), HeaderNt(b))

BoardReset(b) ==
  LET c == Cleared(b)
      g == Generic(b)
      ends == Chr8(Prg16(Prg16(c, 0, 0), 1, NPrg \div 2 - 1), 0)
  IN CASE b.m = 1 -> Mmc1Banks(SetReg(c, 0, 12))
       [] b.m = 2 -> ends
       [] b.m = 3 -> Chr8(Prg32(c, 0), 0)
       [] b.m = 66 -> Chr8(Whole32(c, 0), 0)
       [] b.m = 228 -> Prg16(ends, 0, NPrg \div 2 - 2)
       [] b.m = 5 -> Mmc5Prg([SetNt(c, <<0, 0, 0, 0>>) EXCEPT
                        !.reg = [r \in 0..19 |-> IF r < 5 THEN 255 ELSE IF r < 7 THEN 3 ELSE 0]])
       [] b.m = 178 -> Chr8(M178Banks(c), 0)
       [] b.m = 9 -> Mapper9Banks(c)
       [] b.m = 7 -> Single(Whole32(c, 0), FALSE)
       [] b.m \in {4, 119} -> Mmc3Banks(c)
       [] b.m \in {24, 26} -> ChrAll(PrgAll(c, <<0, 1, 0, NPrg - 1>>), [i \in 1..8 |-> 0])
       [] b.m \in {11, 79, 113, 132, 87, 184, 185} -> Prg32(g, 0)
       [] b.m \in {150, 243} -> SachenUpdate(g)
       [] b.m = 64 -> RamboUpdate([g EXCEPT !.reg[7] = 1, !.reg[15] = NPrg - 2])
       [] b.m = 78 -> IF b.cart = "4screen" THEN [SetReg(g, 15, 1) EXCEPT !.mir = "horizontal"] ELSE g
       [] b.m \in {95, 206} -> Namco108Update(SetReg(g, 7, 1))
       [] b.m = 112 -> NtdecUpdate(SetReg(g, 1, 1))
       [] b.m = 180 -> Prg16(g, 1, 0)
       [] OTHER -> g

Blank(m, cart, ram) ==
  [m |-> m, cart |-> cart, ram |-> ram, cmd |-> 0, shift |-> <<>>, mir |-> cart, nt |-> <<0, 0, 0, 0>>,
   prg |-> [s \in 0..3 |-> s], chr |-> [s \in 0..7 |-> s], reg |-> [r \in 0..19 |-> 0]]

BoardPowerOn(m, cart, ram) ==
  /\ board.m = 0 /\ (m = 9 => NPrg >= 16) /\ (m \in WholeOnly => NPrg % 4 = 0)
  /\ board' = BoardReset(Blank(m, cart, ram)) /\ fresh' = TRUE

BoardWrite(a, v) ==
  /\ board.m # 0 /\ board' = Written(board, a, v) /\ fresh' = FALSE

\* nes_chr_read: the latches of mapper 9 follow the tiles it fetches.
BoardFetch(h, tile) ==
  /\ board.m = 9 /\ ~board.ram
  /\ board' = Mapper9Banks(SetReg(board, 5 + h, tile)) /\ fresh' = FALSE

BoardResets ==
  /\ board.m # 0 /\ board' = BoardReset(board) /\ fresh' = TRUE

BoardInit == board = Blank(0, "vertical", FALSE) /\ fresh = TRUE
BoardNext ==
  \/ \E m \in Mappers, cart \in {"vertical", "4screen"}, ram \in BOOLEAN : BoardPowerOn(m, cart, ram)
  \/ \E a \in Ports(board.m), v \in BoardVals : BoardWrite(a, v)
  \/ \E h \in 0..1, tile \in 0..1 : BoardFetch(h, tile)
  \/ BoardResets

BoardSpec == BoardInit /\ [][BoardNext]_boardVars

----------------------------------------------------------------------------
\* Boards that keep the last 8K bank of PRG, where the vectors are.
KeepsLast == {4, 9, 16, 19, 23, 24, 26, 33, 64, 69, 70, 71, 78, 95, 112, 119, 206}

\* A slot shows a bank the cartridge has, the boards that promise the last
\* bank to the vectors never switch it away, and after a reset the machine
\* finds the banks and nametables as they are after power on, whatever the
\* program had written.
BoardMapsRom ==
  /\ board.m # 0 => \A s \in 0..3 : board.prg[s] \in (IF board.m = 5 THEN {Ram} ELSE {}) \cup 0..(NPrg - 1)
  /\ \A s \in 0..7 : board.chr[s] \in 0..(NChr - 1 + IF board.m = 119 THEN 8 ELSE 0)
  /\ \A s \in 0..7, spr \in BOOLEAN : board.m = 5 => Mmc5Chr(board, s, spr) \in 0..(NChr - 1)
  /\ board.m \in KeepsLast => board.prg[3] = NPrg - 1
  /\ fresh /\ board.m # 0 => board = BoardReset(Blank(board.m, board.cart, board.ram))
=============================================================================
