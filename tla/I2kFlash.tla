------------------------------ MODULE I2kFlash ------------------------------
(***************************************************************************)
(* The i2000 machine's firmware flash and the file that keeps it: the      *)
(* command machine of each chip, loading and saving of the NVRAM file with *)
(* the repairs of its prefix and of an obsolete timeout, snapshots and     *)
(* autosave, resets of the machine, and a process that may die at any      *)
(* moment, in the middle of a save too.  Left out: I2000_IGNORE_NVRAM, a   *)
(* start without memory, and what the uses of the high DRAM do whose       *)
(* pointer a reset clears.                                                 *)
(*                                                                         *)
(* A block holds the set of its bits that are one: programming clears      *)
(* bits, erasing sets all.  A file is missing, torn or an image.  `last'   *)
(* is the image of the last save that succeeded, `restored' that a         *)
(* snapshot has been loaded since the machine started, `path' that the     *)
(* machine knows the name of its file.                                     *)
(***************************************************************************)
EXTENDS Integers, FiniteSets

CONSTANTS FlashBits,     \* bits of a block
          FlashBlocks,   \* block 0 is the prefix that is repaired
          Factory,       \* the block that an old version copied into it
          RomImage,      \* the firmware as it is loaded
          FlashChipOf,   \* the chip of a block
          OldTimeout,    \* a block with a boot timeout that an old version set
          NewTimeout     \* the block as the repair leaves it

ASSUME FlashConstants ==
  /\ FlashBlocks \subseteq Nat /\ {0, Factory} \subseteq FlashBlocks
  /\ RomImage \in [FlashBlocks -> SUBSET FlashBits]
  /\ OldTimeout \in SUBSET FlashBits /\ NewTimeout \in SUBSET FlashBits

VARIABLES running, flash, dirty, path, chip, nvram, last, snaps, turn, restored

flashVars == <<running, flash, dirty, path, chip, nvram, last, snaps, turn, restored>>

Erased == FlashBits
Missing == <<>>
Torn == <<"cut off">>
FlashChips == {FlashChipOf[b] : b \in FlashBlocks}
ReadArray == [mode |-> "array", cmd |-> "none", block |-> 0]

FlashInit ==
  /\ running = FALSE /\ flash = RomImage /\ dirty = FALSE /\ path = FALSE
  /\ chip = [c \in FlashChips |-> ReadArray]
  /\ nvram = Missing /\ last = Missing
  /\ snaps = [s \in 0..1 |-> Missing] /\ turn = 0 /\ restored = FALSE

----------------------------------------------------------------------------
\* Bytes the guest writes to a chip: second bytes of a command, commands.

FlashProgram(b, v) ==
  LET c == FlashChipOf[b]
  IN  /\ running /\ chip[c].cmd = "program"
      /\ flash' = [flash EXCEPT ![b] = @ \cap v]
      /\ dirty' = (dirty \/ flash'[b] # flash[b])
      /\ chip' = [chip EXCEPT ![c] = [mode |-> "status", cmd |-> "none", block |-> @.block]]
      /\ UNCHANGED <<running, path, nvram, last, snaps, turn, restored>>

FlashErase(c, confirmed) ==
  /\ running /\ chip[c].cmd = "erase"
  /\ flash' = IF confirmed THEN [flash EXCEPT ![chip[c].block] = Erased] ELSE flash
  /\ dirty' = (dirty \/ confirmed)
  /\ chip' = [chip EXCEPT ![c] = [mode |-> "status", cmd |-> "none", block |-> @.block]]
  /\ UNCHANGED <<running, path, nvram, last, snaps, turn, restored>>

FlashCommand(b) ==
  LET c == FlashChipOf[b]
  IN  /\ running /\ chip[c].cmd = "none"
      /\ chip' \in {[chip EXCEPT ![c] = m] :
                      m \in {ReadArray} \cup {[chip[c] EXCEPT !.mode = r] : r \in {"status", "id"}}
                           \cup {[chip[c] EXCEPT !.cmd = x, !.block = b] : x \in {"program", "erase"}}}
      /\ UNCHANGED <<running, flash, dirty, path, nvram, last, snaps, turn, restored>>

----------------------------------------------------------------------------
\* The NVRAM file.

BadPrefix(img) == img[0] = Erased \/ img[0] = img[Factory]
RepairBadPrefix(img, rom) == IF BadPrefix(img) THEN [img EXCEPT ![0] = rom[0]] ELSE img
Whole(f) == f \notin {Missing, Torn}
NvramLoad(f) == IF Whole(f) THEN RepairBadPrefix(f, RomImage) ELSE RomImage

\* The first block with an obsolete timeout is mended.
Outdated(img) == \E b \in FlashBlocks : img[b] = OldTimeout
FirstOutdated(img) ==
  CHOOSE b \in FlashBlocks :
     img[b] = OldTimeout /\ \A c \in FlashBlocks : img[c] = OldTimeout => b <= c
RepairBootTimeout(img) ==
  IF Outdated(img) THEN [img EXCEPT ![FirstOutdated(img)] = NewTimeout] ELSE img

\* The flash of a machine that starts from a file.
LoadsAs(f) == RepairBootTimeout(NvramLoad(f))

FlashStart ==
  /\ ~running /\ running' = TRUE /\ path' = TRUE
  /\ flash' = LoadsAs(nvram)
  /\ dirty' = ((Whole(nvram) /\ BadPrefix(nvram)) \/ Outdated(NvramLoad(nvram)))
  /\ chip' = [c \in FlashChips |-> ReadArray] /\ restored' = FALSE
  /\ UNCHANGED <<nvram, last, snaps, turn>>

\* What the file may hold when the process dies in a save of img: the save
\* goes to another file, which replaces the old one in a single step.
MNvramDuring(img) == {nvram, Torn, img}
NvramDuring(img) == {nvram, img}

NvramSaved ==
  /\ nvram' = flash /\ last' = flash /\ dirty' = FALSE

\* i2000_nvram_save when the machine is destroyed: nothing to save, nowhere to
\* save it, a save that fails, or one that succeeds.
FlashStop ==
  /\ running /\ running' = FALSE
  /\ (dirty /\ path /\ NvramSaved) \/ UNCHANGED <<nvram, last, dirty>>
  /\ UNCHANGED <<flash, path, chip, snaps, turn, restored>>

FlashCrash ==
  /\ running /\ running' = FALSE
  /\ nvram' \in IF dirty /\ path THEN NvramDuring(flash) ELSE {nvram}
  /\ last' = IF nvram' = flash THEN flash ELSE last
  /\ UNCHANGED <<flash, dirty, path, chip, snaps, turn, restored>>

\* i2000_reset clears all that comes after the INT 10h bridge in the machine's
\* state: the flags of the flash and the name of its file, not the flash.
FlashReset ==
  /\ running /\ dirty' = FALSE /\ path' = FALSE
  /\ chip' = [c \in FlashChips |-> ReadArray]
  /\ UNCHANGED <<running, flash, nvram, last, snaps, turn, restored>>

----------------------------------------------------------------------------
\* Snapshots: savevm to a slot's file, or autosave to the two in turn.  A
\* save writes in place and may fail before or after the flash is written.

FlashSnapshot(s) ==
  /\ running
  /\ \E cut \in {"early", "late", "whole"} :
        snaps' = [snaps EXCEPT ![s] = [cut |-> cut, flash |-> flash, chip |-> chip, turn |-> turn']]
  /\ UNCHANGED <<running, flash, dirty, path, chip, nvram, last, restored>>

FlashSavevm == UNCHANGED turn /\ \E s \in 0..1 : FlashSnapshot(s)
FlashAutosave == turn' = 1 - turn /\ FlashSnapshot(turn)

\* i2000_load_snapshot: what is read before the end of a file that is cut off
\* stays read, and repaired as far as the load came; the flags of the flash
\* follow only when all of it was read.
FlashLoadvm(s) ==
  /\ running /\ snaps[s] # Missing /\ restored' = TRUE
  /\ LET read == RepairBootTimeout(snaps[s].flash)
         done == RepairBadPrefix(read, flash)
     IN  flash' \in CASE snaps[s].cut = "early" -> {flash, snaps[s].flash}
                      [] snaps[s].cut = "late" -> {read, done}
                      [] OTHER -> {done}
  /\ \/ /\ snaps[s].cut = "whole"
        /\ dirty' = FALSE /\ chip' = snaps[s].chip /\ turn' = snaps[s].turn
     \/ snaps[s].cut # "whole" /\ UNCHANGED <<dirty, chip, turn>>
  /\ UNCHANGED <<running, path, nvram, last, snaps>>

FlashNext ==
  \/ FlashStart \/ FlashStop \/ FlashCrash \/ FlashReset \/ FlashSavevm \/ FlashAutosave
  \/ \E b \in FlashBlocks : FlashCommand(b)
  \/ \E b \in FlashBlocks, v \in SUBSET FlashBits : FlashProgram(b, v)
  \/ \E c \in FlashChips, confirmed \in BOOLEAN : FlashErase(c, confirmed)
  \/ \E s \in 0..1 : FlashLoadvm(s)

FlashSpec == FlashInit /\ [][FlashNext]_flashVars

----------------------------------------------------------------------------
\* Whenever the process dies, the file is the image that was saved last, and
\* a machine that believes it has nothing to save has what the next start
\* would load: no programming of the flash is forgotten, and none lost to a
\* save that was cut short.  A reset of the machine ends that: it forgets that
\* there is something to save, and where.
SavedOrKnown ==
  /\ nvram = last
  /\ running /\ path /\ ~dirty /\ ~restored => flash = LoadsAs(nvram)
=============================================================================
