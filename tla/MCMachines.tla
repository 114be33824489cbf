----------------------------- MODULE MCMachines -----------------------------
(***************************************************************************)
(* The parts of the i2000 around its processor and of the NES, each on its *)
(* own from its initial state: `unit' is the part this behaviour is of,    *)
(* `count' bounds its steps.                                               *)
(***************************************************************************)
EXTENDS I2kInput, I2kDrives, I2kFlash,
        NesBoards, NesIrq, NesBus, NesVideo, NesSprites, NesDisk

VARIABLES unit, count

\* Lines of small and large sprites.
MCHeights == <<1, 2>>

\* Two of the disks have one name; one of these has two sides.
MCSides == [a |-> 1, b |-> 2, c |-> 1]
MCNames == [a |-> "x", b |-> "y", c |-> "y"]

\* A flash image of two blocks; the chip of both is the same kind.
MCRom == [b \in FlashBlocks |-> {b + 1}]
MCChipOf == [b \in FlashBlocks |-> b]

Bound == [input |-> 8, drives |-> 6, flash |-> 5,
          boards |-> 11, irqs |-> 9, bus |-> 9,
          video |-> 62, sprites |-> 42, disk |-> 6]

\* An access by the program counts as this many ticks of the video chip.
Access == 20

\* Only the shift register of MMC1 needs more than four writes.
Steps == IF unit = "boards" /\ board.m # 1 THEN 4 ELSE Bound[unit]

i2000 == <<inpVars, drivesVars, flashVars>>
nes == <<boardVars, cartIrqVars, busVars, videoVars, spriteVars, diskVars>>

Init ==
  /\ unit \in DOMAIN Bound /\ count = 0
  /\ VideoInit  /\ (unit # "video" => ~(on \/ nmiEn \/ vblank) /\ t.cx = 0)
  /\ SpriteInit /\ (unit # "sprites" => ~(shows \/ tall) /\ oam \in Oams({0}, {0}) /\ oamaddr = 0)
  /\ DiskInit
  /\ InpInit /\ DrivesInit /\ FlashInit
  /\ BoardInit /\ IrqInit /\ BusInit

\* A step that counts as n.
Takes(n) == count' = count + n /\ count' <= Steps

\* A unit of the NES moves.
OfNes(u, next, others) == unit = u /\ next /\ UNCHANGED others

NesNext ==
  /\ UNCHANGED i2000
  /\ \/ OfNes("boards", BoardNext, <<cartIrqVars, busVars, videoVars, spriteVars, diskVars>>) /\ Takes(1)
     \/ OfNes("irqs", IrqNext, <<boardVars, busVars, videoVars, spriteVars, diskVars>>) /\ Takes(1)
     \/ OfNes("bus", BusNext, <<boardVars, cartIrqVars, videoVars, spriteVars, diskVars>>) /\ Takes(1)
     \/ OfNes("video", Tick, <<boardVars, cartIrqVars, busVars, spriteVars, diskVars>>) /\ Takes(1)
     \/ OfNes("video", Program, <<boardVars, cartIrqVars, busVars, spriteVars, diskVars>>) /\ Takes(Access)
     \/ OfNes("sprites", SpriteTick, <<boardVars, cartIrqVars, busVars, videoVars, diskVars>>) /\ Takes(1)
     \/ OfNes("sprites", SpriteProgram, <<boardVars, cartIrqVars, busVars, videoVars, diskVars>>) /\ Takes(Access)
     \/ OfNes("disk", DiskNext, <<boardVars, cartIrqVars, busVars, videoVars, spriteVars>>) /\ Takes(1)

I2000Next ==
  /\ UNCHANGED nes
  /\ \/ unit = "input"  /\ InpNext    /\ UNCHANGED <<drivesVars, flashVars>>
     \/ unit = "drives" /\ DrivesNext /\ UNCHANGED <<inpVars, flashVars>>
     \/ unit = "flash"  /\ FlashNext  /\ UNCHANGED <<inpVars, drivesVars>>

Next == UNCHANGED unit /\ ((I2000Next /\ Takes(1)) \/ NesNext)

Spec == Init /\ [][Next]_<<unit, count, i2000, nes>>
=============================================================================
