----------------------------- MODULE MonitorView -----------------------------
(***************************************************************************)
(* The memory views of the machines: what their mon_read and mon_write     *)
(* functions (x, peek, poke, memsave) make of an address, next to what the *)
(* processor's bus makes of it, in every state of the latches that switch  *)
(* memory.                                                                 *)
(*                                                                         *)
(* A decoder is a list of entries, the first that holds the address wins.  *)
(* An entry leads to a place: a memory and an offset into it, mirrored     *)
(* every `wrap' bytes.  Reading an entry that is `live' changes something. *)
(* Where the monitor's function calls the bus's own, its decoder is made   *)
(* of the bus's entries.                                                   *)
(*                                                                         *)
(* Addresses are bytes; of the Itanium machines they are numbered in units *)
(* of 32 KB, with the registers of a unit in it, region 6 and the highest  *)
(* 4 GB of the physical space at numbers of their own.                     *)
(*                                                                         *)
(* All contacts of a NES cartridge are sound: what the processor reads     *)
(* through faulty ones, and the monitor does not, is left out.             *)
(***************************************************************************)
EXTENDS Integers, SequencesExt

VARIABLES machine,     \* which one, and how it is built
          latch        \* what switches its memory

viewVars == <<machine, latch>>

Whole == \h70000000
At(lo, hi, what) ==
  [lo |-> lo, hi |-> hi, every |-> Whole, what |-> what, from |-> lo, wrap |-> Whole, live |-> FALSE]
Live(lo, hi, what) == [At(lo, hi, what) EXCEPT !.live = TRUE]
Refused(lo, hi) == At(lo, hi, "nothing")
\* Only the lower address lines are looked at.
Repeated(e, every) == [e EXCEPT !.every = every]
Wrapped(e, wrap) == [e EXCEPT !.wrap = wrap]
When(c, entries) == IF c THEN entries ELSE <<>>
Hidden(entries) == [i \in DOMAIN entries |-> [entries[i] EXCEPT !.what = "nothing"]]

Decoding(decoder, a) == {i \in DOMAIN decoder : a % decoder[i].every \in decoder[i].lo .. decoder[i].hi}
Entry(decoder, a) ==
  LET is == Decoding(decoder, a) IN IF is = {} THEN Refused(0, Whole) ELSE decoder[Min(is)]
Answers(decoder, a) == Entry(decoder, a).what # "nothing"
Place(decoder, a) == LET e == Entry(decoder, a) IN <<e.what, ((a % e.every) - e.from) % e.wrap>>

----------------------------------------------------------------------------
\* The machines with a 6502.  `m' is how the machine is built, `l' what its latches hold.

\* The ROM is at the end of the memory, which repeats when there is less than 64 KB.
Generic6502(m) ==
  LET registers == <<At(\hDF00, \hDF02, "timer"), At(\hDF11, \hDF12, "serial")>>
      ram == <<Repeated(At(0, m.size - \h101, "ram"), m.size)>>
      top == <<Repeated(At(m.size - \h100, m.size - 1, "rom"), m.size)>>
  IN [read  |-> registers \o <<Live(\hDF10, \hDF10, "queue"), At(\hDF03, \hDFFF, "zero")>> \o ram \o top,
      write |-> <<At(\hF001, \hF001, "stdout")>> \o registers \o <<At(\hDF10, \hDF10, "stdout"),
                  Refused(\hDF03, \hDFFF)>> \o ram,
      peek  |-> registers \o <<Refused(\hDF00, \hDFFF)>> \o ram \o top,
      poke  |-> <<Refused(\hF001, \hF001), Refused(\hDF00, \hDFFF)>> \o ram]

FiveClown ==
  [read  |-> <<At(0, \h7FF, "nvram"), At(\h801, \h801, "crtc"), Live(\h844, \h847, "pia0"), Live(\h848, \h84B, "pia1"),
               At(\h1000, \h13FF, "video"), At(\h1800, \h1BFF, "color"), At(\h2000, \h7FFF, "prg"),
               At(\hC400, \hC400, "dip1"), At(\hCC00, \hCC00, "dip2"), At(\hD400, \hD400, "dip3"),
               [At(\hE000, \hFFFF, "prg") EXCEPT !.from = \h8000]>>,
   write |-> <<At(0, \h7FF, "nvram"), At(\h800, \h801, "crtc"), At(\h844, \h847, "pia0"), At(\h848, \h84B, "pia1"),
               At(\h1000, \h13FF, "video"), At(\h1800, \h1BFF, "color"), At(\hD800, \hD800, "latch")>>,
   peek  |-> <<At(0, \h7FF, "nvram"), At(\h1000, \h13FF, "video"), At(\h1800, \h1BFF, "color"),
               At(\h2000, \h7FFF, "prg"), At(\hC400, \hC400, "dip1"), At(\hCC00, \hCC00, "dip2"),
               At(\hD400, \hD400, "dip3"), [At(\hE000, \hFFFF, "prg") EXCEPT !.from = \h8000]>>,
   poke  |-> <<At(0, \h7FF, "nvram"), At(\h1000, \h13FF, "video"), At(\h1800, \h1BFF, "color")>>]

Magicfly ==
  [read  |-> <<At(0, \h7FF, "nvram"), At(\h801, \h801, "crtc"), At(\h1000, \h13FF, "video"),
               At(\h1800, \h1BFF, "color"), At(\h2800, \h2800, "inputs"), At(\hC000, \hFFFF, "prg")>>,
   write |-> <<At(0, \h7FF, "nvram"), At(\h800, \h801, "crtc"), At(\h1000, \h13FF, "video"),
               At(\h1800, \h1BFF, "color"), At(\h3000, \h3000, "outputs")>>,
   peek  |-> <<At(0, \h7FF, "nvram"), At(\h1000, \h13FF, "video"), At(\h1800, \h1BFF, "color"),
               At(\hC000, \hFFFF, "prg")>>,
   poke  |-> <<At(0, \h7FF, "nvram"), At(\h1000, \h13FF, "video"), At(\h1800, \h1BFF, "color")>>]

\* Address line 12 selects the cartridge, 7 the TIA, 9 the RAM of the RIOT.
Atari2600 ==
  LET ram == Wrapped(Repeated(At(0, \h1FF, "ram"), \h400), \h80)
      tia == Repeated(At(0, \h7F, "tia"), \h100)
      cart == Repeated(At(\h1000, \h1FFF, "cart"), \h2000)
      riot == Repeated(At(0, \h1FFF, "riot"), \h2000)
      lively(e) == [e EXCEPT !.live = TRUE]
  IN [read  |-> <<lively(cart), lively(tia), ram, lively(riot)>>,
      write |-> <<cart, tia, ram, riot>>,
      peek  |-> <<cart, tia, ram, riot>>,
      poke  |-> <<Repeated(Refused(\h1000, \h1FFF), \h2000), Repeated(Refused(0, \h7F), \h100), ram>>]

Apple1(m) ==
  LET ram == <<At(0, m.size - 1, "ram")>>
      rom == <<At(\hFF00, \hFFFF, "rom")>>
  IN [read  |-> <<Live(\hD010, \hD010, "kbd"), At(\hD011, \hD011, "kbdcr"), At(\hD013, \hD013, "dspcr")>> \o rom \o ram
                \o <<At(0, \hFFFF, "zero")>>,
      write |-> <<At(\hD012, \hD012, "dsp"), Refused(\hD010, \hD013), Refused(\hFF00, \hFFFF)>> \o ram,
      peek  |-> <<At(\hD010, \hD010, "kbd"), At(\hD011, \hD011, "kbdcr"), At(\hD013, \hD013, "dspcr")>> \o rom \o ram
                \o <<At(0, \hFFFF, "zero")>>,
      poke  |-> <<Refused(\hD010, \hD013), Refused(\hFF00, \hFFFF)>> \o ram]

\* `m.type' is 0 for a plain cartridge of m.size bytes that ends at BFFF, 41 and 42 for MaxFlash ones.
A400Cart(m, l) ==
  LET base == IF m.type > 0 THEN \hA000 ELSE \hC000 - m.size
  IN When(m.size > 0 /\ l.cartOn, <<[At(base, base + Min({m.size, \h2000}) - 1, "cart")
                                     EXCEPT !.from = base - l.cartBank * \h2000]>>)
A400Closed(m, l) == When(m.size > 0 /\ l.cartOn, <<Refused(IF m.type > 0 THEN \hA000 ELSE \hC000 - m.size, \hBFFF)>>)
A400Axlon(l) ==
  When(l.axlon > 0, <<[At(\h4000, \h7FFF, "axlon") EXCEPT !.from = \h4000 - (l.axlon - 1) * \h4000]>>)
A400Ram(m) == <<At(0, m.ram - 1, "ram")>>
A400Chips == <<Live(\hD000, \hD0FF, "gtia"), Live(\hD200, \hD2FF, "pokey"), Live(\hD300, \hD3FF, "pia"),
               Live(\hD400, \hD4FF, "antic")>>
a400_maxflash_control(m) == When(m.type > 0, <<Live(\hD500, IF m.type = 41 THEN \hD51F ELSE \hD5FF, "control")>>)

a400_read(m, l) ==
  a400_maxflash_control(m) \o A400Cart(m, l) \o A400Axlon(l) \o A400Ram(m) \o <<At(\hD800, \hFFFF, "os")>> \o A400Chips
a400_write(m, l) ==
  a400_maxflash_control(m) \o A400Closed(m, l) \o When(m.axlon, <<At(\hCFC0, \hCFFF, "axlon select")>>)
  \o A400Axlon(l) \o A400Ram(m) \o A400Chips
a400_mon_read(m, l) ==
  <<Refused(\hD000, \hD7FF)>> \o A400Cart(m, l) \o A400Axlon(l) \o A400Ram(m) \o <<At(\hD800, \hFFFF, "os")>>
a400_mon_write(m, l) == A400Closed(m, l) \o A400Axlon(l) \o A400Ram(m)

\* Only the expansion RAM, up to m.size, sees all address lines.
KimRam(m) ==
  <<At(0, \h3FF, "ram")>> \o When(m.size > \h400, <<At(\h400, m.size - 1, "ext")>>)
  \o <<Repeated(At(0, \h3FF, "ram"), \h2000)>>
KimRiotRam == <<Repeated(At(\h1780, \h17FF, "rriot ram"), \h2000)>>
KimRom == <<Repeated(At(\h1800, \h1FFF, "rom"), \h2000)>>
KimClosed(lo, hi) == <<Repeated(Refused(lo, hi), \h2000)>>
\* There the CPU finds a NOP, and the emulator has done the routine's work.
KimTraps(m) ==
  LET traps == {\h1F1F, \h1EFE, \h1F6A, \h1800, \h1873} \cup IF m.serial THEN {\h1EA0, \h1E5A} ELSE {}
  IN SetToSeq({[Repeated(Live(t, t, "rom"), \h2000) EXCEPT !.from = \h1800] : t \in traps})
KimRiots == <<Repeated(Live(\h1700, \h177F, "rriot"), \h2000)>>

kim1_mem_read(m) == KimRiots \o KimRiotRam \o KimTraps(m) \o KimRom \o KimRam(m) \o <<At(0, \hFFFF, "zero")>>
kim1_mem_write(m) == KimRiots \o KimRiotRam \o KimClosed(\h1800, \h1FFF) \o KimRam(m)
kim1_mon_read(m) == KimClosed(\h1700, \h177F) \o KimRiotRam \o KimRom \o KimRam(m)
kim1_mon_write(m) == KimClosed(\h1700, \h177F) \o KimRiotRam \o KimClosed(\h1800, \h1FFF) \o KimRam(m)

Um6578Dma == <<At(\h4040, \h4047, "bankswitch"), At(\h4048, \h404F, "dma")>>
Um6578High == <<At(\h5000, \h7FFF, "ram_hi")>>
\* Eight windows of 4 KB.
bank_read(l) ==
  [i \in 1 .. 8 |-> [At((7 + i) * \h1000, (7 + i) * \h1000 + \hFFF, "rom") EXCEPT !.from = (7 + i - l.banks[i]) * \h1000]]

um6578_read(l) ==
  <<At(0, \h1FFF, "ram_lo"), Live(\h2000, \h2008, "ppu"), At(\h2040, \h207F, "palette"), Live(\h4015, \h4015, "apu"),
    Live(\h4016, \h4016, "iolatch"), At(\h4017, \h4017, "zero"), Live(\h4020, \h4020, "mouse queue"),
    At(\h4026, \h4026, "ones"), At(\h4033, \h4033, "irqs"), At(\h4036, \h4036, "timer")>>
  \o Um6578Dma \o Um6578High \o bank_read(l)
um6578_write(l) ==
  <<At(0, \h1FFF, "ram_lo"), At(\h2000, \h2008, "ppu"), At(\h2040, \h207F, "palette"), At(\h4000, \h4017, "apu"),
    At(\h4020, \h4036, "io")>> \o Um6578Dma \o Um6578High \o bank_read(l)
um6578_mon_read(l) == <<At(0, \h1FFF, "ram_lo")>> \o Um6578Dma \o Um6578High \o bank_read(l)
um6578_mon_write == <<At(0, \h1FFF, "ram_lo")>> \o Um6578High

----------------------------------------------------------------------------
\* The Famicom family.  `m.board' is the mapper, or "arcade" and "fds".

nes_prg_ram_mapped(m, l) == m.board \in {"mmc5", "mmc3", "vrc6", "178", "arcade"} \/ (m.board = "mmc1" /\ l.wram)

\* Four slots of 8 KB, of RAM on the MMC5 only, and a Game Genie code that matches.
nes_prg_mapped(m, l) ==
  When(l.genie, <<At(\h8000, \h8000, "genie")>>)
  \o [i \in 1 .. 4 |-> LET lo == \h6000 + i * \h2000
                      IN IF m.board = "mmc5" /\ l.slotRam = i THEN At(lo, lo + \h1FFF, "prg_ram")
                         ELSE [At(lo, lo + \h1FFF, "prg") EXCEPT !.from = lo - l.prg * \h2000]]

nes_board_read(m, l) ==
  CASE m.board = "16"  -> <<Live(\h6000, \h7FFF, "eeprom")>>
    [] m.board = "n163" -> <<Live(\h4800, \h4FFF, "sound ram"), At(\h5000, \h5FFF, "irq counter")>>
    [] m.board = "fme7" -> <<CASE l.prg6 = "rom" -> At(\h6000, \h7FFF, "prg")
                               [] l.prg6 = "ram" -> At(\h6000, \h7FFF, "prg_ram")
                               [] OTHER -> At(\h6000, \h7FFF, "open bus")>>
    [] m.board \in {"132", "150"} -> <<At(\h4100, \h4100, "protection")>>
    [] OTHER -> <<>>

Mmc5Peeks(l) == <<At(\h5205, \h5206, "product")>> \o When(l.exram >= 2, <<At(\h5C00, \h5FFF, "exram")>>)
NesRam == <<Wrapped(At(0, \h1FFF, "ram"), \h800)>>
FdsMemory == <<At(\h6000, \hDFFF, "disk ram"), At(\hE000, \hFFFF, "disk bios")>>
PrgRam == <<At(\h6000, \h7FFF, "prg_ram")>>

nes_cpu_read_bus(m, l) ==
  NesRam \o <<Live(\h2000, \h3FFF, "ppu")>> \o When(m.board = "fds", <<Live(\h4020, \h408F, "disk")>>)
  \o <<Live(\h4015, \h4015, "apu"), Live(\h4016, \h4017, "pads")>>
  \o When(m.board = "arcade", <<At(\h4020, \h5FFF, "coin counter")>>)
  \o nes_board_read(m, l) \o When(m.board = "mmc5", <<Live(\h5204, \h5204, "irq status")>> \o Mmc5Peeks(l))
  \o (IF m.board = "fds" THEN FdsMemory ELSE When(nes_prg_ram_mapped(m, l), PrgRam) \o nes_prg_mapped(m, l))

nes_cpu_write_bus(m, l) ==
  NesRam \o <<At(\h2000, \h3FFF, "ppu"), At(\h4000, \h4013, "apu"), At(\h4014, \h4014, "dma"), At(\h4015, \h4017, "apu")>>
  \o When(m.board = "fds", <<At(\h4020, \h408A, "disk")>>)
  \o When(m.board = "arcade", <<At(\h4020, \h5FFF, "coin counter")>>)
  \o When(m.board = "mmc5", <<At(\h5205, \h5206, "factors")>> \o When(l.exram <= 2, <<At(\h5C00, \h5FFF, "exram")>>))
  \o (IF m.board = "fds" THEN <<At(\h6000, \hDFFF, "disk ram")>>
      ELSE When(nes_prg_ram_mapped(m, l), PrgRam) \o When(m.board = "fme7" /\ l.prg6 = "ram", PrgRam)
           \o <<At(\h8000, \hFFFF, "mapper")>>)

nes_mon_read(m, l) ==
  NesRam \o <<Refused(\h2000, \h401F)>>
  \o (IF m.board = "fds" THEN FdsMemory
      ELSE When(m.board = "arcade", <<At(\h4020, \h5FFF, "coin counter")>>) \o When(m.board = "mmc5", Mmc5Peeks(l))
           \o When(nes_prg_ram_mapped(m, l), PrgRam) \o nes_prg_mapped(m, l))

nes_mon_write(m, l) ==
  NesRam \o (IF m.board = "fds" THEN <<At(\h6000, \hDFFF, "disk ram")>> ELSE When(nes_prg_ram_mapped(m, l), PrgRam))

----------------------------------------------------------------------------
\* The machines with a Z80, an 1802, a CHIP-8 interpreter and an 8088.

Lagonda ==
  LET memory == <<At(0, \hFFF, "code"), At(\h1000, \h1FFF, "gfx"), Wrapped(At(\h2000, \h2FFF, "ram0"), \h400),
                  Wrapped(At(\h3000, \h3FFF, "ram1"), \h400)>>
      rams == SubSeq(memory, 3, 4)
  IN [read |-> memory \o <<At(\h4000, \hFFFF, "ones")>>, write |-> rams, peek |-> memory, poke |-> rams]

GenericZ80(m) ==
  LET writable == <<Refused(m.rom, m.rom + \hFF), At(0, \hFFFF, "mem")>>
  IN [read |-> <<At(0, \hFFFF, "mem")>>, write |-> writable, peek |-> <<At(0, \hFFFF, "mem")>>, poke |-> writable]

\* The CDP1869 keeps the CPU from its memories while it displays.  Its character memory is found by
\* way of the page memory, and with `cmem' all page addresses lead to the same byte.
CharRam(l) == <<IF l.blocked THEN At(\hF400, \hF7FF, "blocked") ELSE Live(\hF400, \hF7FF, "char_ram")>>
PageRam(l) == <<IF l.blocked THEN At(\hF800, \hFFFF, "blocked")
                ELSE Wrapped(At(\hF800, \hFFFF, "page_ram"), IF l.cmem THEN 1 ELSE \h400)>>

Destroyer(l) ==
  LET writes == <<Refused(0, \h1FFF)>> \o CharRam(l) \o PageRam(l) \o <<At(0, \hFFFF, "mem")>>
  IN [read  |-> CharRam(l) \o PageRam(l) \o <<At(0, \hFFFF, "mem")>>,
      write |-> writes,
      peek  |-> <<Refused(\hF400, \hF7FF)>> \o PageRam(l) \o <<At(0, \hFFFF, "mem")>>,
      poke  |-> writes]

Vip(m, l) ==
  LET video == When(m.vis, CharRam(l) \o PageRam(l)) \o <<At(0, \hFFFF, "mem")>>
  IN [read  |-> video, write |-> video, poke |-> video,
      peek  |-> When(m.vis, <<Refused(\hF400, \hF7FF)>> \o PageRam(l)) \o <<At(0, \hFFFF, "mem")>>]

\* Until the first OUT 1, the ROM is seen at 0 as well.
PecomBoot(l) == When(l.mirror, <<At(0, \h3FFF, "rom")>>)
pecom_mem_read(m, l) ==
  <<At(\h8000, \hBFFF, "rom")>> \o PecomBoot(l) \o CharRam(l) \o PageRam(l)
  \o <<IF m.extended THEN [At(\hC000, \hF3FF, "rom") EXCEPT !.from = \h8000] ELSE At(\hC000, \hF3FF, "ram2"),
       At(0, \h7FFF, "ram1")>>
pecom_mem_write(m, l) ==
  <<Refused(\h8000, \hBFFF)>> \o When(l.mirror, <<Refused(0, \h3FFF)>>) \o CharRam(l) \o PageRam(l)
  \o <<IF m.extended THEN Refused(\hC000, \hF3FF) ELSE At(\hC000, \hF3FF, "ram2"), At(0, \h7FFF, "ram1")>>
\* mutant: the monitor forgets the ROM that is seen at 0
Mpecom_mon_read(m, l) == <<Refused(\hF400, \hF7FF), At(0, \h3FFF, "ram1")>> \o pecom_mem_read(m, l)
pecom_mon_read(m, l) == <<Refused(\hF400, \hF7FF)>> \o pecom_mem_read(m, l)
pecom_mon_write(m, l) ==
  <<Refused(\h8000, \hBFFF)>> \o When(l.mirror, <<Refused(0, \h3FFF)>>)
  \o When(m.extended, <<Refused(\hC000, \hF3FF)>>) \o pecom_mem_write(m, l)

Studio2(l) ==
  LET ram == <<Wrapped(At(\h800, \hFFFF, "ram"), \h200)>>
      memory == <<At(0, \h3FF, "rom")>> \o (IF l.cart THEN <<At(\h400, \h7FF, "cart")>> ELSE <<At(0, \h7FF, "rom")>>)
                \o When(l.c00, <<[At(\hC00, \hFFF, "cart") EXCEPT !.from = \h400]>>) \o ram
  IN [read |-> memory, write |-> ram, peek |-> memory, poke |-> When(l.c00, <<Refused(\hC00, \hFFF)>>) \o ram]

Chip8 == LET mem == <<At(0, \hFFF, "mem")>> IN [read |-> mem, write |-> mem, peek |-> mem, poke |-> mem]

\* Where the CGA and the second page of a Hercules card overlap, both take writes and the CGA is read.
video_mem(m, l) ==
  When("cga" \in m.cards, <<At(\hB8000, \hBBFFF, "cga")>>)
  \o When("herc" \in m.cards, <<At(\hB0000, IF l.page2 THEN \hBFFFF ELSE \hB7FFF, "herc")>>)
  \o When("mda" \in m.cards, <<Wrapped(At(\hB0000, \hB7FFF, "mda"), \h1000)>>)
Ibm5150Memory(m, l) ==
  LET ram == <<At(0, m.ram - 1, "ram")>>
      memory == ram \o video_mem(m, l) \o <<At(\hF6000, \hFDFFF, "basic"), At(\hFE000, \hFFFFF, "bios"),
                                           At(\hC8000, \hC8FFF, "hdc rom")>>
  IN [read |-> memory, write |-> ram \o video_mem(m, l), peek |-> memory, poke |-> ram \o video_mem(m, l)]

----------------------------------------------------------------------------
\* The Itanium machines, in units of 32 KB.

Unit(gb, mb, kb) == (gb * 1024 + mb) * 32 + kb \div 32
\* Numbers of their own for the highest 4 GB, for the tagged high DRAM, for region 6 and for the ports.
TopUnit == \h100000
HighUnit == \h200000
Region6 == \h400000
PortUnit == \h300000

\* vga_ibm_aperture
VgaWindow(l) ==
  At(Unit(0, 0, IF l.gc6 <= 1 THEN 640 ELSE IF l.gc6 = 2 THEN 704 ELSE 736),
     Unit(0, 0, CASE l.gc6 = 0 -> 767 [] l.gc6 = 1 -> 703 [] l.gc6 = 2 -> 735 [] OTHER -> 767), "vga")
Region6Of(es) == [i \in DOMAIN es |-> [es[i] EXCEPT !.lo = @ + Region6, !.hi = @ + Region6, !.from = @ + Region6]]
Everywhere(es) == es \o Region6Of(es)

\* The two units of the highest 4 GB stand for where the flash routines run.
i2000_normalize_pa(l, a) ==
  IF (a % Region6) \div TopUnit = 1 THEN (IF l.cmdAddr > 0 THEN l.cmdAddr ELSE Unit(2, 0, 0) - 2) + (a % 2) ELSE a

HighDram == <<At(HighUnit + Unit(0, 1984, 0), HighUnit + Unit(2, 0, 0) - 1, "high_dram")>>
Rage(l) == <<Wrapped(Live(l.fb, l.fb + Unit(0, 64, 0) - 1, "vram"), Unit(0, 8, 0)), Live(l.mmio, l.mmio, "rage")>>
Nic(m) == When(m.nic, <<Live(Unit(3, 129, 0), Unit(3, 129, 0), "i82559")>>)
OptionRom(m, l) == When(m.nic /\ l.rom > 0, <<At(l.rom, l.rom + 1, "option_rom")>>)
VgaRom == At(Unit(0, 0, 768), Unit(0, 0, 831), "vga_rom_shadow")
Memory(m) == <<At(0, m.ram - 1, "ram"), At(Unit(2, -1, 0), Unit(2, 0, 0) - 1, "scratch")>>
ConfigCycles(what) == <<At(Region6, Region6 + Unit(3, 1020, 0) - 1, what)>>
\* The first of the four flash chips is in some mode, the others give the array.
Flash(l) == <<At(Unit(3, 1020, 0), Unit(3, 1021, 0) - 1, l.flash), At(Unit(3, 1020, 0), Unit(4, 0, 0) - 1, "array")>>
IoSapic == Unit(3, 1004, 0)
LegacyAck == Unit(3, 1007, 896)

i2000_bus_read(m, l) ==
  Everywhere(HighDram \o Rage(l) \o Nic(m) \o OptionRom(m, l) \o <<[VgaWindow(l) EXCEPT !.live = TRUE], VgaRom>>)
  \o ConfigCycles("pci config")
  \o Everywhere(Memory(m) \o <<Live(IoSapic, IoSapic, "iosapic"), Live(LegacyAck, LegacyAck, "ack")>> \o Flash(l))
  \o <<Live(PortUnit, PortUnit + 1, "ports")>>
i2000_bus_write(m, l) ==
  Everywhere(HighDram \o Rage(l) \o Nic(m) \o <<VgaWindow(l)>> \o Hidden(<<VgaRom>>))
  \o ConfigCycles("pci config")
  \o Everywhere(Memory(m) \o <<At(IoSapic, IoSapic, "iosapic"), At(Unit(3, 1020, 0), Unit(4, 0, 0) - 1, "flash command")>>)
  \o <<At(PortUnit, PortUnit + 1, "ports")>>
i2000_mon_read(m, l) ==
  Everywhere(HighDram \o Hidden(Rage(l) \o Nic(m)) \o OptionRom(m, l) \o Hidden(<<VgaWindow(l)>>) \o <<VgaRom>>)
  \o ConfigCycles("nothing")
  \o Everywhere(Memory(m) \o <<Refused(IoSapic, IoSapic), Refused(LegacyAck, LegacyAck)>> \o Flash(l))
i2000_mon_write(m, l) ==
  Everywhere(HighDram \o Hidden(Rage(l) \o Nic(m)) \o Hidden(<<VgaWindow(l), VgaRom>>))
  \o ConfigCycles("nothing") \o Everywhere(Memory(m))

\* Up to 2 GB and a little more, RAM comes before all devices, beyond that after them.
GenericDevices(l, live) ==
  LET at(lo, hi, what) == IF live THEN Live(lo, hi, what) ELSE At(lo, hi, what)
  IN <<at(Unit(2, 1, 64), Unit(2, 1, 64), "iosapic and pm"), at(VgaWindow(l).lo, VgaWindow(l).hi, "vga"),
       at(Unit(3, 0, 0), Unit(3, 0, 0), "vga ports and disks"), at(Unit(3, 1, 0), Unit(3, 1, 0), "cdrom_buf")>>
generic_bus_read(m, l) ==
  <<At(0, Min({m.ram, Unit(2, 1, 64)}) - 1, "ram")>> \o GenericDevices(l, TRUE)
  \o <<At(0, m.ram - 1, "ram"), At(Unit(3, 1020, 0), Unit(4, 0, 0) - 1, "rom")>>
generic_bus_write(m, l) ==
  <<At(0, Min({m.ram, Unit(2, 1, 64)}) - 1, "ram")>> \o GenericDevices(l, FALSE) \o <<At(0, m.ram - 1, "ram")>>
generic_mon(m) == <<At(0, m.ram - 1, "ram")>>

----------------------------------------------------------------------------

View(m, l) ==
  CASE m.of = "generic_6502" -> Generic6502(m)
    [] m.of = "fiveclown" -> FiveClown
    [] m.of = "magicfly" -> Magicfly
    [] m.of = "atari2600" -> Atari2600
    [] m.of = "apple1" -> Apple1(m)
    [] m.of = "atari400" -> [read |-> a400_read(m, l), write |-> a400_write(m, l), peek |-> a400_mon_read(m, l),
                             poke |-> a400_mon_write(m, l)]
    [] m.of = "kim1" -> [read |-> kim1_mem_read(m), write |-> kim1_mem_write(m), peek |-> kim1_mon_read(m),
                         poke |-> kim1_mon_write(m)]
    [] m.of = "um6578" -> [read |-> um6578_read(l), write |-> um6578_write(l), peek |-> um6578_mon_read(l),
                           poke |-> um6578_mon_write]
    [] m.of = "nes" -> [read |-> nes_cpu_read_bus(m, l), write |-> nes_cpu_write_bus(m, l),
                        peek |-> nes_mon_read(m, l), poke |-> nes_mon_write(m, l)]
    [] m.of = "lagonda" -> Lagonda
    [] m.of = "generic_z80" -> GenericZ80(m)
    [] m.of = "destroyer" -> Destroyer(l)
    [] m.of = "vip" -> Vip(m, l)
    [] m.of = "pecom" -> [read |-> pecom_mem_read(m, l), write |-> pecom_mem_write(m, l), peek |-> pecom_mon_read(m, l),
                          poke |-> pecom_mon_write(m, l)]
    [] m.of = "studio2" -> Studio2(l)
    [] m.of = "chip8" -> Chip8
    [] m.of = "ibm5150" -> Ibm5150Memory(m, l)
    [] m.of = "i2000" -> [read |-> i2000_bus_read(m, l), write |-> i2000_bus_write(m, l), peek |-> i2000_mon_read(m, l),
                          poke |-> i2000_mon_write(m, l)]
    [] m.of = "generic_ia64" -> [read |-> generic_bus_read(m, l), write |-> generic_bus_write(m, l),
                                 peek |-> generic_mon(m), poke |-> generic_mon(m)]

\* How machines are built, and the latches of each after a reset.
NoLatch == [none |-> TRUE]
Vis == [blocked |-> FALSE, cmem |-> FALSE, mirror |-> TRUE]
NesLatch == [wram |-> TRUE, exram |-> 0, slotRam |-> 0, prg |-> 0, prg6 |-> "rom", genie |-> FALSE]
ViewStarts ==
       {<<[of |-> x], NoLatch>> : x \in {"fiveclown", "magicfly", "atari2600", "lagonda", "chip8"}}
  \cup {<<[of |-> "generic_6502", size |-> s], NoLatch>> : s \in {\h1000, \h10000}}
  \cup {<<[of |-> "apple1", size |-> s], NoLatch>> : s \in {\h1000, \hC000}}
  \cup {<<[of |-> "atari400", type |-> t, size |-> IF t = 0 THEN \h4000 ELSE \h20000, ram |-> r, axlon |-> TRUE],
          [cartOn |-> TRUE, cartBank |-> 0, axlon |-> 0]>> :
          t \in {0, 41, 42}, r \in {\h4000, \hC000}}
  \cup {<<[of |-> "atari400", type |-> 41, size |-> \h20000, ram |-> \hC000, axlon |-> FALSE],
          [cartOn |-> TRUE, cartBank |-> 0, axlon |-> 0]>>}
  \cup {<<[of |-> "kim1", size |-> s, serial |-> x], NoLatch>> : s \in {\h400, \h1400, \h4000}, x \in BOOLEAN}
  \cup {<<[of |-> "um6578"], [banks |-> [i \in 1 .. 8 |-> i - 1]]>>}
  \cup {<<[of |-> "nes", board |-> b], NesLatch>> :
          b \in {"nrom", "mmc1", "mmc3", "mmc5", "16", "n163", "fme7", "132", "150", "vrc6", "178", "arcade", "fds"}}
  \cup {<<[of |-> "generic_z80", rom |-> r], NoLatch>> : r \in {0, \hF000}}
  \cup {<<[of |-> "destroyer"], Vis>>}
  \cup {<<[of |-> "vip", vis |-> x], IF x THEN Vis ELSE NoLatch>> : x \in BOOLEAN}
  \cup {<<[of |-> "pecom", extended |-> x], Vis>> : x \in BOOLEAN}
  \cup {<<[of |-> "studio2"], [cart |-> FALSE, c00 |-> FALSE]>>}
  \cup {<<[of |-> "ibm5150", ram |-> r, cards |-> c], [page2 |-> FALSE]>> :
          r \in {\h10000, \hA0000}, c \in SUBSET {"cga", "herc", "mda"} \ {{"herc", "mda"}, {"cga", "herc", "mda"}}}
  \cup {<<[of |-> "i2000", ram |-> Unit(0, r, 0), nic |-> x],
          [gc6 |-> 0, fb |-> Unit(3, 64, 0), mmio |-> Unit(3, 128, 0), rom |-> 0, flash |-> "array", cmdAddr |-> 0]>> :
          r \in {64, 2000}, x \in BOOLEAN}
  \cup {<<[of |-> "generic_ia64", ram |-> Unit(0, r, 0)], [gc6 |-> 0]>> : r \in {512, 2304}}

ViewInit == \E s \in ViewStarts : machine = s[1] /\ latch = s[2]

Sets(of, new) == machine.of \in of /\ latch' = new /\ UNCHANGED machine

\* Reads and writes of D5xx.
MaxFlash(bank, on) ==
  machine.of = "atari400" /\ machine.type > 0 /\ Sets({"atari400"}, [latch EXCEPT !.cartBank = bank, !.cartOn = on])
AxlonSelect(bank) == machine.of = "atari400" /\ machine.axlon /\ Sets({"atari400"}, [latch EXCEPT !.axlon = bank])
BankSwitch(i, bank) == Sets({"um6578"}, [latch EXCEPT !.banks[i] = bank])
Mapper(board, new) == machine.of = "nes" /\ machine.board = board /\ Sets({"nes"}, new)
PrgBank(bank) == machine.of = "nes" /\ machine.board \notin {"nrom", "fds"} /\ Sets({"nes"}, [latch EXCEPT !.prg = bank])
Genie(on) == Sets({"nes"}, [latch EXCEPT !.genie = on])
\* The display begins and ends, and OUT 5 sets the access mode.
Display(on) == latch # NoLatch /\ Sets({"destroyer", "vip", "pecom"}, [latch EXCEPT !.blocked = on])
AccessMode(cmem) == latch # NoLatch /\ Sets({"destroyer", "vip", "pecom"}, [latch EXCEPT !.cmem = cmem])
pecom_io_out == Sets({"pecom"}, [latch EXCEPT !.mirror = FALSE])
rca_pecom32_reset == Sets({"pecom"}, Vis)
studio2_load_cart(c00) == Sets({"studio2"}, [cart |-> TRUE, c00 |-> c00])
studio2_eject_cart == Sets({"studio2"}, [cart |-> FALSE, c00 |-> FALSE])
HercConfig(page2) == Sets({"ibm5150"}, [latch EXCEPT !.page2 = page2])
GraphicsMode(gc6) == Sets({"i2000", "generic_ia64"}, [latch EXCEPT !.gc6 = gc6])
\* The BARs of the adapters, also below the end of RAM.
Bars(fb, mmio, rom) == Sets({"i2000"}, [latch EXCEPT !.fb = fb, !.mmio = mmio, !.rom = rom])
FlashMode(mode) == Sets({"i2000"}, [latch EXCEPT !.flash = mode])
\* An 8 byte write to the end of an aperture in RAM.
FlashAddress == Sets({"i2000"}, [latch EXCEPT !.cmdAddr = Unit(0, 32, 0) - 2])

\* Nothing switches the memory of the other machines.
Wired == latch = NoLatch /\ UNCHANGED viewVars

ViewNext ==
  \/ Wired
  \/ \E bank \in 0 .. 1, on \in BOOLEAN : MaxFlash(bank, on)
  \/ \E bank \in 0 .. 2 : AxlonSelect(bank)
  \/ \E i \in {1, 4, 8}, bank \in {0, 9} : BankSwitch(i, bank)
  \/ \E on \in BOOLEAN : \/ Mapper("mmc1", [latch EXCEPT !.wram = on]) \/ Genie(on) \/ Display(on) \/ AccessMode(on)
                         \/ studio2_load_cart(on) \/ HercConfig(on)
  \/ \E n \in 0 .. 3 : Mapper("mmc5", [latch EXCEPT !.exram = n])
  \/ \E n \in 0 .. 3 : Mapper("mmc5", [latch EXCEPT !.slotRam = n])
  \/ \E p \in {"rom", "ram", "open"} : Mapper("fme7", [latch EXCEPT !.prg6 = p])
  \/ \E bank \in 0 .. 1 : PrgBank(bank)
  \/ pecom_io_out \/ rca_pecom32_reset \/ studio2_eject_cart
  \/ \E n \in 0 .. 3 : GraphicsMode(n)
  \/ \E fb \in {Unit(3, 64, 0), Unit(1, 0, 0)}, mmio \in {Unit(3, 128, 0), Unit(0, 16, 0)}, rom \in {0, Unit(0, 17, 0)} :
       Bars(fb, mmio, rom)
  \/ \E mode \in {"array", "status", "id"} : FlashMode(mode)
  \/ FlashAddress

----------------------------------------------------------------------------
\* The edges of all entries, where addresses begin to lead elsewhere.
Edges(decoder) == UNION {{e.lo - 1, e.lo, e.hi, e.hi + 1, e.every + e.lo, e.every + e.hi} : e \in Range(decoder)}
Top == CASE machine.of = "ibm5150" -> \hFFFFF
         [] machine.of = "chip8" -> \hFFF
         [] machine.of \in {"i2000", "generic_ia64"} -> 2 * Region6 - 1
         [] OTHER -> \hFFFF
Samples(v) ==
  (Edges(v.read) \cup Edges(v.write) \cup Edges(v.peek) \cup Edges(v.poke) \cup {TopUnit, TopUnit + 1}) \cap 0 .. Top
Normalized(a) == IF machine.of = "i2000" THEN i2000_normalize_pa(latch, a) ELSE a

(***************************************************************************)
(* What the monitor shows is what the processor would read there, in every *)
(* state of the latches, and showing it changes nothing; what it pokes     *)
(* ends where the processor's own write would.  Excused is the generic     *)
(* Itanium with so much RAM that the devices hide some: there the monitor  *)
(* shows and writes the hidden RAM.                                        *)
(***************************************************************************)
MonitorSeesBus ==
  LET v == View(machine, latch)
  IN \A b \in Samples(v) :
           LET a == Normalized(b)
           IN \/ /\ Answers(v.peek, a) => /\ ~Entry(v.peek, a).live
                                          /\ Place(v.peek, a) = Place(v.read, a)
                 /\ Answers(v.poke, a) => Place(v.poke, a) = Place(v.write, a)
              \/ machine.of = "generic_ia64" /\ a \in Unit(2, 1, 64) .. machine.ram - 1
=============================================================================
