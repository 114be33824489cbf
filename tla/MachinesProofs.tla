--------------------------- MODULE MachinesProofs ---------------------------
(***************************************************************************)
(* Proofs about machines around their processors: the i2000's devices, the *)
(* Famicom Disk System, the NES's sound chip on its bus, the interrupt     *)
(* counters of its cartridges and their banks, for every size of the       *)
(* queues, every length of a reply, every image of the flash, every set of *)
(* disks, every length of the sound chip's periods, every width of the     *)
(* counters and every size of the ROM.                                     *)
(***************************************************************************)
EXTENDS I2kInput, I2kDrives, I2kFlash, NesDisk, NesBus, SequenceTheorems, WellFoundedInduction, NesIrq, NesBoards, TLAPS

\* The smaller and the larger of two numbers are one of them.
LEMMA MinOfTwo ==
    ASSUME NEW a \in Int, NEW b \in Int
    PROVE  Min({a, b}) = IF a <= b THEN a ELSE b
<1>1. PICK m \in {a, b} : \A y \in {a, b} : m <= y
  OBVIOUS
<1>2. Min({a, b}) \in {a, b} /\ \A y \in {a, b} : Min({a, b}) <= y
  BY <1>1 DEF Min
<1> QED
  BY <1>2

LEMMA MaxOfTwo ==
    ASSUME NEW a \in Int, NEW b \in Int
    PROVE  Max({a, b}) = IF a >= b THEN a ELSE b
<1>1. PICK m \in {a, b} : \A y \in {a, b} : m >= y
  OBVIOUS
<1>2. Max({a, b}) \in {a, b} /\ \A y \in {a, b} : Max({a, b}) >= y
  BY <1>1 DEF Max
<1> QED
  BY <1>2

----------------------------------------------------------------------------
\* The keyboard controller.

MouseStates == [on : BOOLEAN, param : BOOLEAN, moved : 0..Motion, host : BOOLEAN, prev : BOOLEAN,
                due : BOOLEAN, rfi : BOOLEAN, retry : BOOLEAN, kbdRetry : BOOLEAN]

InpQueues == kbc \in 0..1 /\ kbq \in 0..KbSize /\ auxq \in 0..AuxSize
InpFlags ==
  /\ kbWrite \in {"kbd", "byte", "port", "mouse"} /\ kbScan \in BOOLEAN /\ kbParam \in BOOLEAN
  /\ mouse \in MouseStates
  /\ told \in {"none", "kbd", "mouse"} /\ injected \in BOOLEAN
InpIrqs == irq \in SUBSET Lines /\ ext0 \in BOOLEAN /\ masked \in SUBSET Lines /\ served \in Lines \cup {"none"}
InpTypeOK == InpQueues /\ InpFlags /\ InpIrqs

\* Adding bytes to a queue keeps it within its size and leaves it not empty.
LEMMA QueueGrows ==
    ASSUME NEW q \in Nat, NEW n \in Nat \ {0}
    PROVE  /\ QueueByte(q, n) \in 0..KbSize /\ QueueByte(q, n) > 0
           /\ AuxQueueByte(q, n) \in 0..AuxSize /\ AuxQueueByte(q, n) > 0
BY InputSizes, MinOfTwo DEF QueueByte, AuxQueueByte

LEMMA OffTyped == MouseOff \in MouseStates
BY InputSizes DEF MouseOff, MouseStates

\* The keyboard's and the mouse's commands keep their parts of the state.
LEMMA CommandTypes ==
    ASSUME InpTypeOK
    PROVE  /\ KeyboardCommand => kbq' \in 0..KbSize /\ kbScan' \in BOOLEAN /\ kbParam' \in BOOLEAN
           /\ MouseDeviceCommand => auxq' \in 0..AuxSize /\ mouse' \in MouseStates
<1> USE DEF InpTypeOK, InpQueues, InpFlags
<1>1. \A n \in 1..4 : QueueByte(kbq, n) \in 0..KbSize /\ AuxQueueByte(auxq, n) \in 0..AuxSize
  <2> SUFFICES ASSUME NEW n \in 1..4
               PROVE  QueueByte(kbq, n) \in 0..KbSize /\ AuxQueueByte(auxq, n) \in 0..AuxSize
    OBVIOUS
  <2>1. kbq \in Nat /\ auxq \in Nat /\ n \in Nat \ {0}
    BY InputSizes
  <2> QED
    BY <2>1, QueueGrows
<1>2. ASSUME KeyboardCommand
      PROVE  kbq' \in 0..KbSize
  BY <1>1, <1>2 DEF KeyboardCommand
<1>3. ASSUME KeyboardCommand
      PROVE  kbScan' \in BOOLEAN /\ kbParam' \in BOOLEAN
  BY <1>3 DEF KeyboardCommand
<1>4. ASSUME MouseDeviceCommand
      PROVE  auxq' \in 0..AuxSize
  BY <1>1, <1>4 DEF MouseDeviceCommand
<1>5. /\ \A b \in BOOLEAN : [mouse EXCEPT !.on = b] \in MouseStates
      /\ \A b \in BOOLEAN : [mouse EXCEPT !.param = b] \in MouseStates
      /\ [mouse EXCEPT !.on = FALSE, !.moved = 0, !.host = FALSE, !.prev = FALSE] \in MouseStates
  <2> mouse \in MouseStates /\ 0 \in 0..Motion
    BY InputSizes
  <2>1. ASSUME NEW b \in BOOLEAN
        PROVE  [mouse EXCEPT !.on = b] \in MouseStates /\ [mouse EXCEPT !.param = b] \in MouseStates
    BY DEF MouseStates
  <2>2. [mouse EXCEPT !.on = FALSE, !.moved = 0, !.host = FALSE, !.prev = FALSE] \in MouseStates
    BY DEF MouseStates
  <2> QED
    BY <2>1, <2>2
<1>6. ASSUME MouseDeviceCommand
      PROVE  mouse' \in MouseStates
  BY <1>5, <1>6 DEF MouseDeviceCommand
<1> QED
  BY <1>2, <1>3, <1>4, <1>6, Zenon

\* What the pointer does to the mouse.
LEMMA PointerTypes ==
    ASSUME InpTypeOK, InpPointer
    PROVE  auxq' \in 0..AuxSize /\ mouse' \in MouseStates
<1> USE DEF InpTypeOK, InpQueues, InpFlags
<1>1. PICK move \in 0..1, button \in BOOLEAN :
        LET m == Polled(move, button)
        IN  \/ /\ ReportDue(m) /\ auxq' = AuxQueueByte(auxq, 3)
               /\ mouse' = [m EXCEPT !.moved = Max({0, @ - 1}), !.prev = m.host]
            \/ ~ReportDue(m) /\ mouse' = m /\ UNCHANGED auxq
  BY DEF InpPointer
<1> DEFINE m == Polled(move, button)
<1>2. Min({Motion, mouse.moved + move}) \in 0..Motion
  BY MinOfTwo, InputSizes DEF MouseStates
<1>3. m \in MouseStates
  BY <1>2 DEF Polled, MouseStates
<1>4. Max({0, m.moved - 1}) \in 0..Motion
  BY <1>3, MaxOfTwo, InputSizes DEF MouseStates
<1>5. [m EXCEPT !.moved = Max({0, @ - 1}), !.prev = m.host] \in MouseStates
  BY <1>3, <1>4 DEF MouseStates
<1> QED
  BY <1>1, <1>3, <1>5, QueueGrows

\* What the monitor's mouse commands do.
LEMMA MonitorTypes ==
    ASSUME InpTypeOK, InpMousemove \/ InpMousekick
    PROVE  InpTypeOK'
<1> USE DEF InpTypeOK, InpQueues, InpFlags, InpIrqs, cntlVars, kbdVars, irqVars
<1>1. CASE InpMousemove
  <2>1. auxq' \in 0..AuxSize
    <3>1. auxq \in Nat /\ 3 \in Nat \ {0}
      BY InputSizes
    <3> QED
      BY <1>1, <3>1, QueueGrows DEF InpMousemove
  <2>2. mouse' \in MouseStates
    BY <1>1 DEF InpMousemove, MouseStates
  <2> QED
    BY <1>1, <2>1, <2>2 DEF InpMousemove
<1>2. CASE InpMousekick
  <2>1. irq' \in SUBSET Lines
    BY <1>2 DEF InpMousekick, Lines
  <2> QED
    BY <1>2, <2>1 DEF InpMousekick, toldVars
<1> QED
  BY <1>1, <1>2

\* A status told stays true while queues only grow.
LEMMA TypedStep == InpTypeOK /\ [InpNext]_inpVars => InpTypeOK'
<1> SUFFICES ASSUME InpTypeOK, [InpNext]_inpVars
             PROVE  InpTypeOK'
  OBVIOUS
<1> USE DEF InpTypeOK, InpQueues, InpFlags, InpIrqs
<1> USE DEF cntlVars, kbdVars, irqVars, toldVars
<1>1. CASE InpReadStatus
  BY <1>1 DEF InpReadStatus, DataSource
<1>2. CASE InpReadData
  <2>1. InpQueues'
    <3>1. kbc' \in {kbc, kbc - 1} /\ (kbc' = kbc - 1 => kbc > 0)
      BY <1>2 DEF InpReadData
    <3>2. kbq' \in {kbq, kbq - 1} /\ (kbq' = kbq - 1 => kbq > 0)
      BY <1>2 DEF InpReadData
    <3>3. auxq' \in {auxq, auxq - 1} /\ (auxq' = auxq - 1 => auxq > 0)
      BY <1>2 DEF InpReadData
    <3> QED
      BY <3>1, <3>2, <3>3, InputSizes
  <2>2. told' = "none" /\ injected' = FALSE /\ UNCHANGED <<kbWrite, kbScan, kbParam, mouse, irqVars>>
    BY <1>2 DEF InpReadData
  <2> QED
    BY <2>1, <2>2
<1>3. CASE InpCommand
  <2>1. kbc' \in 0..1 /\ kbWrite' \in {"kbd", "byte", "port", "mouse"}
    BY <1>3 DEF InpCommand
  <2>2. told' = "none" /\ injected' = FALSE /\ UNCHANGED <<kbdVars, auxq, mouse, irqVars>>
    BY <1>3 DEF InpCommand
  <2> QED
    BY <2>1, <2>2
<1>4. CASE InpWriteData
  <2>1. InpQueues' /\ mouse' \in MouseStates
    BY <1>4, CommandTypes DEF InpWriteData
  <2>2. kbScan' \in BOOLEAN /\ kbParam' \in BOOLEAN
    BY <1>4, CommandTypes DEF InpWriteData
  <2> QED
    BY <1>4, <2>1, <2>2 DEF InpWriteData
<1>5. CASE InpHostKey
  <2>1. kbq' \in 0..KbSize
    BY <1>5, QueueGrows, InputSizes DEF InpHostKey
  <2> QED
    BY <1>5, <2>1 DEF InpHostKey
<1>6. CASE InpPointer
  <2>1. UNCHANGED <<cntlVars, kbdVars, irqVars, toldVars>>
    BY <1>6 DEF InpPointer
  <2> QED
    BY <1>6, <2>1, PointerTypes
<1>7. CASE InpPoll
  <2>1. mouse' \in MouseStates
    BY <1>7 DEF InpPoll, MouseStates
  <2>2. irq' \in SUBSET Lines /\ ext0' \in BOOLEAN
    BY <1>7 DEF InpPoll, Asserted, Lines
  <2> QED
    BY <1>7, <2>1, <2>2 DEF InpPoll
<1>8. CASE InpAcknowledge
  <2>1. mouse' \in MouseStates
    BY <1>8 DEF InpAcknowledge, MouseStates
  <2>2. InpIrqs'
    BY <1>8 DEF InpAcknowledge, Lines
  <2> QED
    BY <1>8, <2>1, <2>2 DEF InpAcknowledge
<1>9. CASE InpMask
  <2>1. masked' \in SUBSET Lines
    BY <1>9 DEF InpMask, Lines
  <2> QED
    BY <1>9, <2>1 DEF InpMask
<1>10. CASE InpTime
  <2>1. mouse' \in MouseStates
    BY <1>10 DEF InpTime, MouseStates
  <2> QED
    BY <1>10, <2>1 DEF InpTime
<1>11. CASE InpReset
  <2>1. InpQueues'
    BY <1>11, InputSizes DEF InpReset
  <2>2. InpFlags'
    BY <1>11, OffTyped DEF InpReset
  <2>3. InpIrqs'
    BY <1>11 DEF InpReset
  <2> QED
    BY <2>1, <2>2, <2>3
<1>12. CASE UNCHANGED inpVars
  BY <1>12 DEF inpVars
<1>13. CASE InpMousemove \/ InpMousekick
  BY <1>13, MonitorTypes
<1> QED
  BY <1>1, <1>2, <1>3, <1>4, <1>5, <1>6, <1>7, <1>8, <1>9, <1>10, <1>11, <1>12, <1>13 DEF InpNext

\* Every step but the guest's own accesses leaves the source that was told, or
\* is the monitor's.
LEMMA StatusStep == InpTypeOK /\ SourceKept /\ [InpNext]_inpVars => SourceKept'
<1> SUFFICES ASSUME InpTypeOK, SourceKept, [InpNext]_inpVars, told' # "none"
             PROVE  DataSource' = IF injected' THEN "mouse" ELSE told'
  BY DEF SourceKept
<1> USE DEF InpTypeOK, InpQueues, SourceKept, DataSource, cntlVars, kbdVars, irqVars, toldVars
<1>1. CASE InpReadStatus
  BY <1>1 DEF InpReadStatus
<1>2. CASE InpReadData \/ InpCommand \/ InpWriteData \/ InpReset
  BY <1>2 DEF InpReadData, InpCommand, InpWriteData, InpReset
<1>3. CASE InpHostKey
  \* The keyboard's queue grows: it was not empty, or the mouse's is not.
  <2>1. kbq' > 0 /\ UNCHANGED <<kbc, auxq, told, injected>>
    BY <1>3, QueueGrows, InputSizes, SMTT(60) DEF InpHostKey
  <2> QED
    BY <2>1
<1>4. CASE InpPointer
  \* A report is added only when no byte was waiting, and none was told.
  BY <1>4 DEF InpPointer, ReportDue
<1>5. CASE InpPoll \/ InpAcknowledge \/ InpMask \/ InpTime \/ InpMousekick \/ UNCHANGED inpVars
  <2>1. UNCHANGED <<kbc, kbq, auxq, told, injected>>
    BY <1>5 DEF InpPoll, InpAcknowledge, InpMask, InpTime, InpMousekick, inpVars
  <2> QED
    BY <2>1
<1>6. CASE InpMousemove
  <2>1. auxq' > 0
    <3>1. auxq \in Nat /\ 3 \in Nat \ {0}
      BY InputSizes
    <3> QED
      BY <1>6, <3>1, QueueGrows DEF InpMousemove
  <2> QED
    BY <1>6, <2>1 DEF InpMousemove
<1> QED
  BY <1>1, <1>2, <1>3, <1>4, <1>5, <1>6 DEF InpNext

LEMMA InputInit == InpInit => InpTypeOK /\ SourceKept
<1> SUFFICES ASSUME InpInit
             PROVE  InpTypeOK /\ told = "none"
  BY DEF SourceKept
<1> USE DEF InpInit
<1>1. InpQueues
  BY InputSizes DEF InpQueues
<1>2. InpFlags
  BY OffTyped DEF InpFlags
<1>3. InpIrqs
  BY DEF InpIrqs
<1> QED
  BY <1>1, <1>2, <1>3 DEF InpTypeOK

\* The queues, the flags and the lines of the keyboard controller keep their
\* types, and no queue holds more than it can (kb_queue_push, mouse_queue).
THEOREM InputTyped == InpSpec => []InpTypeOK
<1>1. InpInit => InpTypeOK
  BY InputInit
<1> QED
  BY <1>1, TypedStep, PTL DEF InpSpec

\* The byte that a guest reads after the status port named its source comes
\* from that source, or from the packet that the monitor's mousemove has queued
\* since, for all sizes of the queues and all orders of the host's input, the
\* guest's accesses and the interrupts.
THEOREM StatusTells == InpSpec => []SourceKept
<1>1. InpInit => InpTypeOK /\ SourceKept
  BY InputInit
<1>2. InpTypeOK /\ SourceKept /\ [InpNext]_inpVars => InpTypeOK' /\ SourceKept'
  BY TypedStep, StatusStep
<1> QED
  BY <1>1, <1>2, PTL DEF InpSpec

----------------------------------------------------------------------------
\* The flash.

Images == [FlashBlocks -> SUBSET FlashBits]
ChipStates == [mode : {"array", "status", "id"}, cmd : {"none", "program", "erase"}, block : FlashBlocks]
Snapshots == [cut : {"early", "late", "whole"}, flash : Images, chip : [FlashChips -> ChipStates], turn : 0..1]

FlashTypeOK ==
  /\ running \in BOOLEAN /\ dirty \in BOOLEAN /\ path \in BOOLEAN
  /\ restored \in BOOLEAN /\ turn \in 0..1
  /\ flash \in Images /\ nvram \in Images \cup {Missing} /\ last \in Images \cup {Missing}
  /\ chip \in [FlashChips -> ChipStates]
  /\ snaps \in [0..1 -> Snapshots \cup {Missing}]

\* The repairs of a bad prefix and of an obsolete timeout make an image, and so
\* does a start.
LEMMA RepairedImage == \A img, rom \in Images : RepairBadPrefix(img, rom) \in Images
BY FlashConstants DEF RepairBadPrefix, Images

LEMMA MendedImage == \A img \in Images : RepairBootTimeout(img) \in Images
<1> SUFFICES ASSUME NEW img \in Images
             PROVE  RepairBootTimeout(img) \in Images
  OBVIOUS
<1>1. \A x : [img EXCEPT ![x] = NewTimeout] \in Images
  BY FlashConstants DEF Images
<1> QED
  BY <1>1 DEF RepairBootTimeout

LEMMA StartedImage == \A f \in Images \cup {Missing} : LoadsAs(f) \in Images
<1>1. \A f \in Images \cup {Missing} : NvramLoad(f) \in Images
  BY FlashConstants, RepairedImage DEF NvramLoad, Whole, Images
<1> QED
  BY <1>1, MendedImage DEF LoadsAs

\* A command leaves its chip in a state of a chip.
LEMMA ChipTyped ==
    ASSUME FlashTypeOK, NEW c \in FlashChips, NEW b \in FlashBlocks
    PROVE  /\ [chip EXCEPT ![c] = [mode |-> "status", cmd |-> "none", block |-> @.block]]
                 \in [FlashChips -> ChipStates]
           /\ FlashChipOf[b] = c /\ FlashCommand(b) => chip' \in [FlashChips -> ChipStates]
<1>1. chip[c] \in ChipStates
  BY DEF FlashTypeOK
<1>2. [mode |-> "status", cmd |-> "none", block |-> chip[c].block] \in ChipStates
  BY <1>1 DEF ChipStates
<1>3. ReadArray \in ChipStates
  BY FlashConstants DEF ReadArray, ChipStates
<1>4. \A r \in {"status", "id"} : [chip[c] EXCEPT !.mode = r] \in ChipStates
  BY <1>1 DEF ChipStates
<1>5. \A x \in {"program", "erase"} : [chip[c] EXCEPT !.cmd = x, !.block = b] \in ChipStates
  BY <1>1 DEF ChipStates
<1>6. \A m \in ChipStates : [chip EXCEPT ![c] = m] \in [FlashChips -> ChipStates]
  BY DEF FlashTypeOK
<1>7. ASSUME FlashChipOf[b] = c, FlashCommand(b)
      PROVE  chip' \in [FlashChips -> ChipStates]
  BY <1>3, <1>4, <1>5, <1>6, <1>7 DEF FlashCommand
<1> QED
  BY <1>2, <1>6, <1>7

LEMMA FlashTypedStep == FlashTypeOK /\ [FlashNext]_flashVars => FlashTypeOK'
<1> SUFFICES ASSUME FlashTypeOK, [FlashNext]_flashVars
             PROVE  FlashTypeOK'
  OBVIOUS
<1> USE DEF FlashTypeOK
<1>1. CASE FlashStart
  <2>1. [c \in FlashChips |-> ReadArray] \in [FlashChips -> ChipStates]
    BY FlashConstants DEF ReadArray, ChipStates
  <2>2. flash' \in Images
    BY <1>1, StartedImage DEF FlashStart
  <2>3. dirty' \in BOOLEAN
    BY <1>1 DEF FlashStart, Whole, BadPrefix, Outdated
  <2> QED
    BY <1>1, <2>1, <2>2, <2>3 DEF FlashStart
<1>2. CASE FlashStop
  BY <1>2 DEF FlashStop, NvramSaved
<1>3. CASE FlashCrash
  BY <1>3 DEF FlashCrash, NvramDuring
<1>4. CASE FlashSavevm \/ FlashAutosave
  <2>1. turn' \in 0..1
    BY <1>4 DEF FlashSavevm, FlashAutosave
  <2>2. PICK s \in 0..1 : FlashSnapshot(s)
    BY <1>4 DEF FlashSavevm, FlashAutosave
  <2>3. \A cut \in {"early", "late", "whole"} :
           [cut |-> cut, flash |-> flash, chip |-> chip, turn |-> turn'] \in Snapshots
    BY <2>1 DEF Snapshots
  <2>4. snaps' \in [0..1 -> Snapshots \cup {Missing}]
    BY <2>2, <2>3 DEF FlashSnapshot
  <2> QED
    BY <2>1, <2>2, <2>4 DEF FlashSnapshot
<1>5. ASSUME NEW b \in FlashBlocks, FlashCommand(b)
      PROVE  FlashTypeOK'
  <2>1. chip' \in [FlashChips -> ChipStates]
    BY <1>5, ChipTyped DEF FlashChips
  <2> QED
    BY <1>5, <2>1 DEF FlashCommand
<1>6. ASSUME NEW b \in FlashBlocks, NEW v \in SUBSET FlashBits, FlashProgram(b, v)
      PROVE  FlashTypeOK'
  <2>1. chip' \in [FlashChips -> ChipStates]
    BY <1>6, ChipTyped DEF FlashChips, FlashProgram
  <2>2. flash' \in Images
    BY <1>6 DEF FlashProgram, Images
  <2> QED
    BY <1>6, <2>1, <2>2 DEF FlashProgram
<1>7. ASSUME NEW c \in FlashChips, NEW confirmed \in BOOLEAN, FlashErase(c, confirmed)
      PROVE  FlashTypeOK'
  <2>1. chip' \in [FlashChips -> ChipStates]
    BY <1>7, ChipTyped, FlashConstants DEF FlashErase
  <2>2. flash' \in Images
    BY <1>7 DEF FlashErase, Images, Erased
  <2> QED
    BY <1>7, <2>1, <2>2 DEF FlashErase
<1>8. ASSUME NEW s \in 0..1, FlashLoadvm(s)
      PROVE  FlashTypeOK'
  <2>1. snaps[s] \in Snapshots
    BY <1>8 DEF FlashLoadvm
  <2>2. /\ snaps[s].flash \in Images /\ snaps[s].turn \in 0..1
        /\ snaps[s].chip \in [FlashChips -> ChipStates]
    BY <2>1 DEF Snapshots
  <2>3. flash' \in Images
    <3> DEFINE read == RepairBootTimeout(snaps[s].flash)
               done == RepairBadPrefix(read, flash)
    <3>1. read \in Images /\ done \in Images
      BY <2>2, MendedImage, RepairedImage
    <3>2. flash' \in {flash, snaps[s].flash, read, done}
      BY <1>8, <2>1 DEF FlashLoadvm, Snapshots
    <3> QED
      BY <2>2, <3>1, <3>2
  <2> QED
    BY <1>8, <2>2, <2>3 DEF FlashLoadvm
<1>9. CASE UNCHANGED flashVars
  BY <1>9 DEF flashVars
<1>10. CASE FlashReset
  <2>1. [c \in FlashChips |-> ReadArray] \in [FlashChips -> ChipStates]
    BY FlashConstants DEF ReadArray, ChipStates
  <2> QED
    BY <1>10, <2>1 DEF FlashReset
<1> QED
  BY <1>1, <1>2, <1>3, <1>4, <1>5, <1>6, <1>7, <1>8, <1>9, <1>10 DEF FlashNext

\* A step that changes the flash of a machine that runs leaves it dirty or is
\* the load of a snapshot, and no death of the process leaves a file in parts.
\* A machine that has been reset has no file.
LEMMA KnownStep == FlashTypeOK /\ SavedOrKnown /\ [FlashNext]_flashVars => SavedOrKnown'
<1> SUFFICES ASSUME FlashTypeOK, SavedOrKnown, [FlashNext]_flashVars
             PROVE  SavedOrKnown'
  OBVIOUS
<1> USE DEF SavedOrKnown
<1>1. CASE FlashStart
  BY <1>1 DEF FlashStart
<1>2. CASE FlashStop
  BY <1>2 DEF FlashStop, NvramSaved
<1>3. CASE FlashCrash
  BY <1>3 DEF FlashCrash, NvramDuring
<1>4. CASE FlashSavevm \/ FlashAutosave
  BY <1>4 DEF FlashSavevm, FlashAutosave, FlashSnapshot
<1>5. ASSUME NEW b \in FlashBlocks, FlashCommand(b)
      PROVE  SavedOrKnown'
  BY <1>5 DEF FlashCommand
<1>6. ASSUME NEW b \in FlashBlocks, NEW v \in SUBSET FlashBits, FlashProgram(b, v)
      PROVE  SavedOrKnown'
  <2>1. flash'[b] = flash[b] => flash' = flash
    BY <1>6 DEF FlashProgram, FlashTypeOK, Images
  <2> QED
    BY <1>6, <2>1 DEF FlashProgram, FlashTypeOK
<1>7. ASSUME NEW c \in FlashChips, NEW confirmed \in BOOLEAN, FlashErase(c, confirmed)
      PROVE  SavedOrKnown'
  BY <1>7 DEF FlashErase
<1>8. ASSUME NEW s \in 0..1, FlashLoadvm(s)
      PROVE  SavedOrKnown'
  BY <1>8 DEF FlashLoadvm
<1>9. CASE UNCHANGED flashVars
  BY <1>9 DEF flashVars
<1>10. CASE FlashReset
  BY <1>10 DEF FlashReset
<1> QED
  BY <1>1, <1>2, <1>3, <1>4, <1>5, <1>6, <1>7, <1>8, <1>9, <1>10 DEF FlashNext

\* Whenever the process dies the file holds the image that was saved last, and
\* a machine without anything to save has what the next start would load,
\* until it is reset or takes a snapshot: for every image, prefix, obsolete
\* timeout and division of the flash into chips.
THEOREM FlashRemembers == FlashSpec => [](FlashTypeOK /\ SavedOrKnown)
<1>1. FlashInit => FlashTypeOK
  <2>1. [c \in FlashChips |-> ReadArray] \in [FlashChips -> ChipStates]
    BY FlashConstants DEF ReadArray, ChipStates
  <2>2. RomImage \in Images /\ 0 \in 0..1
    BY FlashConstants DEF Images
  <2>3. [s \in 0..1 |-> Missing] \in [0..1 -> Snapshots \cup {Missing}]
    OBVIOUS
  <2> QED
    BY <2>1, <2>2, <2>3, Zenon DEF FlashInit, FlashTypeOK
<1>2. FlashInit => SavedOrKnown
  BY DEF FlashInit, SavedOrKnown
<1> QED
  BY <1>1, <1>2, FlashTypedStep, KnownStep, PTL DEF FlashSpec

----------------------------------------------------------------------------
\* The drives.

Transfers == [len : Nat, pos : Nat, end : Nat]
AtapiStates ==
  [slave : BOOLEAN, st : {"idle", "busy", "packet", "data", "error"}, pkt : Nat, limit : Nat,
   data : Transfers, ready : {"none", "packet", "data", "error"}, irq : BOOLEAN]
Knowledge == {"no", "yes", "void"}
AtaStates ==
  [st : {"idle", "data", "error"}, isWrite : BOOLEAN, lba : Nat, len : Nat, pos : Nat]

\* Something is left of the phase, and the phase within the reply.
Open(d) == d.pos < d.end /\ d.end <= d.len

\* The states of the CD-ROM: unless the guest's knowledge is void, a drive that
\* will be ready is busy, and a phase waits open for it.
AtapiInv(a, s) ==
  /\ a \in AtapiStates /\ s \in Knowledge
  /\ s # "void" =>
       /\ a.ready # "none" => a.st = "busy"
       /\ a.ready = "data" => Open(a.data)
       /\ a.st = "data" /\ ~a.slave => Open(a.data) /\ (a.irq \/ s = "yes")

\* The disk takes words of a sector only while it knows that it writes.
AtaInv(h, d) ==
  /\ h \in AtaStates /\ d \in {"none", "read", "write"}
  /\ h.st = "data" /\ d = "write" => h.isWrite
  /\ h.st = "data" /\ (h.isWrite => d = "write") => h.pos < h.len

DrivesInv == AtapiInv(at, seen) /\ AtaInv(hd, dir) /\ medium \in BOOLEAN

\* A phase moves at least a byte and no more than is left.
LEMMA PhaseBounds ==
    ASSUME NEW limit \in Nat, NEW rest \in Nat \ {0}
    PROVE  Phase(limit, rest) \in 1..rest
<1> DEFINE p == IF limit = 0 THEN rest ELSE Min({limit, rest})
<1>1. p \in 1..rest
  BY MinOfTwo
<1>2. p > 1 => p - 1 \in 1..rest
  BY <1>1
<1> QED
  BY <1>1, <1>2 DEF Phase

\* A phase that begins is open and interrupts.
LEMMA PhaseBegins ==
    ASSUME NEW a \in AtapiStates, NEW d \in Transfers, d.pos < d.len
    PROVE  LET b == AtapiBeginDataPhase(a, d)
           IN  /\ b \in AtapiStates /\ Open(b.data) /\ b.st = "data" /\ b.irq
               /\ b.slave = a.slave /\ b.ready = a.ready
<1> DEFINE b == AtapiBeginDataPhase(a, d)
           e == d.pos + Phase(a.limit, d.len - d.pos)
<1>1. a.limit \in Nat /\ d.pos \in Nat /\ d.len \in Nat /\ d.len - d.pos \in Nat \ {0}
  BY DEF AtapiStates, Transfers
<1>2. e \in Nat /\ d.pos < e /\ e <= d.len
  <2>1. Phase(a.limit, d.len - d.pos) \in 1..(d.len - d.pos)
    BY <1>1, PhaseBounds
  <2> QED
    BY <1>1, <2>1
<1>3. [d EXCEPT !.end = e] \in Transfers /\ Open([d EXCEPT !.end = e])
  BY <1>2 DEF Transfers, Open
<1>4. b = [a EXCEPT !.data = [d EXCEPT !.end = e], !.st = "data", !.irq = TRUE]
  BY DEF AtapiBeginDataPhase
<1> HIDE DEF e
<1>5. b \in AtapiStates
  BY <1>3, <1>4 DEF AtapiStates
<1>6. b.data = [d EXCEPT !.end = e] /\ b.st = "data" /\ b.irq /\ b.slave = a.slave /\ b.ready = a.ready
  BY <1>4 DEF AtapiStates
<1> QED
  BY <1>3, <1>5, <1>6

\* A reply to a packet: a phase that begins, or no data at all.
LEMMA ReplyBegins ==
    ASSUME NEW a \in AtapiStates, NEW n \in Nat
    PROVE  LET b == AtapiSetData(a, n)
           IN  /\ b \in AtapiStates /\ b.irq /\ b.slave = a.slave /\ b.ready = a.ready
               /\ IF n > 0 THEN b.st = "data" /\ Open(b.data) ELSE b.st = "idle"
<1> DEFINE d == [NoData EXCEPT !.len = n]
<1>1. NoData \in Transfers /\ d \in Transfers /\ d.pos = 0 /\ d.len = n
  BY DEF NoData, Transfers
<1>2. CASE n > 0
  BY <1>1, <1>2, PhaseBegins DEF AtapiSetData
<1>3. CASE n = 0
  <2> DEFINE c == [a EXCEPT !.data = NoData, !.st = "idle", !.irq = TRUE]
  <2>1. AtapiSetData(a, n) = c
    BY <1>3 DEF AtapiSetData
  <2>2. c \in AtapiStates
    BY <1>1 DEF AtapiStates
  <2>3. c.irq /\ c.slave = a.slave /\ c.ready = a.ready /\ c.st = "idle"
    BY DEF AtapiStates
  <2> HIDE DEF c
  <2> QED
    BY <1>3, <2>1, <2>2, <2>3
<1> QED
  BY <1>2, <1>3

\* A reply is of a drive's type; a phase that it begins is open and interrupts.
LEMMA RepliesSound ==
    ASSUME NEW a \in AtapiStates, NEW b \in Replies(a)
    PROVE  /\ b \in AtapiStates /\ b.slave = a.slave /\ b.ready = a.ready
           /\ b.st = "data" => Open(b.data) /\ b.irq
<1>1. ASSUME NEW n \in AtapiLens, b = AtapiSetData(a, n)
      PROVE  /\ b \in AtapiStates /\ b.slave = a.slave /\ b.ready = a.ready
             /\ b.st = "data" => Open(b.data) /\ b.irq
  <2>1. n \in Nat
    BY DriveSizes
  <2> QED
    BY <1>1, <2>1, ReplyBegins
<1>2. ASSUME b \in {AtapiError(a), AtapiNoMedium(a), AtapiNoMemory(a)}
      PROVE  b \in AtapiStates /\ b.slave = a.slave /\ b.ready = a.ready /\ b.st = "error"
  <2>1. NoData \in Transfers
    BY DEF NoData, Transfers
  <2> QED
    BY <1>2, <2>1 DEF AtapiError, AtapiNoMedium, AtapiNoMemory, AtapiStates
<1> QED
  BY <1>1, <1>2 DEF Replies

\* A packet that is complete is answered, and interrupts.
LEMMA PacketStep == DrivesInv /\ AtapiPacketWrite => AtapiInv(at', seen')
<1> SUFFICES ASSUME DrivesInv, AtapiPacketWrite
             PROVE  AtapiInv(at', seen')
  OBVIOUS
<1> DEFINE a == [at EXCEPT !.pkt = @ + 1]
<1>1. AtapiInv(at, seen)
  BY DEF DrivesInv
<1>2. /\ a \in AtapiStates /\ a.st = at.st /\ a.slave = at.slave /\ a.ready = at.ready
      /\ a.data = at.data /\ a.irq = at.irq
  BY <1>1 DEF AtapiInv, AtapiStates
<1>3. CASE a.pkt < PacketWords
  <2>1. at' = a /\ seen' = seen
    BY <1>3 DEF AtapiPacketWrite
  <2> HIDE DEF a
  <2> QED
    BY <1>1, <1>2, <2>1 DEF AtapiInv
<1>4. CASE ~(a.pkt < PacketWords)
  <2>1. at' \in Replies(a) /\ seen' = IF at.st = "packet" THEN Answered ELSE "void"
    BY <1>4 DEF AtapiPacketWrite
  <2> HIDE DEF a
  <2>2. /\ at' \in AtapiStates /\ at'.ready = a.ready
        /\ at'.st = "data" => Open(at'.data) /\ at'.irq
    BY <1>2, <2>1, RepliesSound
  <2>3. seen' # "void" => at.st = "packet" /\ seen # "void"
    BY <2>1 DEF Answered
  <2>4. seen' \in Knowledge
    BY <2>1 DEF Answered, Knowledge
  <2> QED
    BY <1>1, <1>2, <2>2, <2>3, <2>4 DEF AtapiInv
<1> QED
  BY <1>3, <1>4

\* A read of the data port takes bytes of the phase, begins the next one at
\* its end, or ends the reply.
LEMMA DataReadStep ==
    ASSUME DrivesInv, NEW size \in {1, 2, 4}, AtapiDataRead(size)
    PROVE  AtapiInv(at', seen')
<1> DEFINE d == [at.data EXCEPT !.pos = IF @ < at.data.end THEN Min({@ + size, at.data.end}) ELSE @]
           over == at.st = "data" /\ d.pos >= d.end
<1>1. AtapiInv(at, seen) /\ ~at.slave /\ at.data \in Transfers
  BY DEF AtapiDataRead, DrivesInv, AtapiInv, AtapiStates
<1>2. /\ d \in Transfers /\ d.end = at.data.end /\ d.len = at.data.len
      /\ Open(at.data) => d.pos <= d.end
  <2>1. Min({at.data.pos + size, at.data.end}) \in Nat /\ Min({at.data.pos + size, at.data.end}) <= at.data.end
    BY <1>1, MinOfTwo DEF Transfers
  <2> QED
    BY <1>1, <2>1 DEF Transfers, Open
<1>3. \/ /\ ~over /\ at' = [at EXCEPT !.data = d]
         /\ seen' = IF at.st # "data" /\ d # at.data THEN "void" ELSE seen
      \/ over /\ d.pos < d.len /\ at' = AtapiBeginDataPhase(at, d) /\ seen' = Answered
      \/ /\ over /\ d.pos >= d.len /\ seen' = Answered
         /\ at' = [at EXCEPT !.data = d, !.st = "idle", !.irq = TRUE]
  BY DEF AtapiDataRead
<1>a. d.pos \in Nat /\ d.end \in Nat /\ d.len \in Nat
  BY <1>2 DEF Transfers
<1>b. seen \in Knowledge /\ Answered \in Knowledge /\ (Answered # "void" => seen # "void")
  BY <1>1 DEF AtapiInv, Answered, Knowledge
<1> HIDE DEF d
<1>4. ASSUME ~over, at' = [at EXCEPT !.data = d],
             seen' = IF at.st # "data" /\ d # at.data THEN "void" ELSE seen
      PROVE  AtapiInv(at', seen')
  <2>1. at' \in AtapiStates
    BY <1>1, <1>2, <1>4 DEF AtapiInv, AtapiStates
  <2>2. at'.data = d /\ at'.st = at.st /\ at'.irq = at.irq /\ at'.ready = at.ready /\ at'.slave = at.slave
    BY <1>1, <1>4 DEF AtapiInv, AtapiStates
  <2>3. seen' \in Knowledge /\ (seen' # "void" => seen' = seen /\ (at.st = "data" \/ d = at.data))
    BY <1>b, <1>4 DEF Knowledge
  <2> QED
    BY <1>1, <1>2, <1>a, <1>4, <2>1, <2>2, <2>3 DEF AtapiInv, Open
<1>5. ASSUME over, d.pos < d.len, at' = AtapiBeginDataPhase(at, d), seen' = Answered
      PROVE  AtapiInv(at', seen')
  <2>1. at \in AtapiStates
    BY <1>1 DEF AtapiInv
  <2>2. /\ at' \in AtapiStates /\ Open(at'.data) /\ at'.st = "data" /\ at'.irq
        /\ at'.slave = at.slave /\ at'.ready = at.ready
    BY <1>2, <1>5, <2>1, PhaseBegins
  <2> QED
    BY <1>1, <1>b, <1>5, <2>2 DEF AtapiInv
<1>6. ASSUME over, at' = [at EXCEPT !.data = d, !.st = "idle", !.irq = TRUE], seen' = Answered
      PROVE  AtapiInv(at', seen')
  <2>1. at' \in AtapiStates
    BY <1>1, <1>2, <1>6 DEF AtapiInv, AtapiStates
  <2>2. at'.st = "idle" /\ at'.ready = at.ready
    BY <1>1, <1>6 DEF AtapiInv, AtapiStates
  <2> QED
    BY <1>1, <1>b, <1>6, <2>1, <2>2 DEF AtapiInv
<1> QED
  BY <1>3, <1>4, <1>5, <1>6

\* A command that defers its phase leaves the drive busy.
LEMMA DeferredStep ==
    ASSUME NEW a \in AtapiStates, a.st \in {"packet", "data", "error"}, a.st = "data" => Open(a.data),
           at' = AtapiDeferReady(a), NEW s \in Knowledge
    PROVE  AtapiInv(at', s)
<1>1. at' = [a EXCEPT !.ready = a.st, !.st = "busy", !.irq = FALSE]
  BY DEF AtapiDeferReady
<1>2. at' \in AtapiStates
  BY <1>1 DEF AtapiStates
<1>3. at'.ready = a.st /\ at'.st = "busy" /\ at'.data = a.data
  BY <1>1 DEF AtapiStates
<1> QED
  BY <1>2, <1>3 DEF AtapiInv

LEMMA CommandStep == DrivesInv /\ AtapiCommand => AtapiInv(at', seen')
<1> SUFFICES ASSUME DrivesInv, AtapiCommand
             PROVE  AtapiInv(at', seen')
  OBVIOUS
<1> DEFINE a == [at EXCEPT !.irq = FALSE, !.ready = "none"]
<1>1. at \in AtapiStates /\ seen' \in Knowledge
  BY DEF DrivesInv, AtapiInv, AtapiCommand, Knowledge
<1>2. a \in AtapiStates /\ a.ready = "none"
  BY <1>1 DEF AtapiStates
<1>3. \/ \E l \in AtapiLimits : at' = AtapiDeferReady([a EXCEPT !.limit = l, !.pkt = 0, !.st = "packet"])
      \/ \E n \in AtapiLens \ {0} :
            \/ at' = AtapiDeferReady(AtapiSetData([a EXCEPT !.limit = n], n))
            \/ at' = AtapiDeferReady(AtapiNoMemory([a EXCEPT !.limit = n]))
      \/ at' = [a EXCEPT !.st = "idle"]
      \/ at' = AtapiError(a)
  BY DEF AtapiCommand
<1> HIDE DEF a
<1>4. ASSUME NEW l \in AtapiLimits, at' = AtapiDeferReady([a EXCEPT !.limit = l, !.pkt = 0, !.st = "packet"])
      PROVE  AtapiInv(at', seen')
  <2> DEFINE c == [a EXCEPT !.limit = l, !.pkt = 0, !.st = "packet"]
  <2>1. c \in AtapiStates /\ c.st = "packet"
    BY <1>2, DriveSizes DEF AtapiStates
  <2> HIDE DEF c
  <2> QED
    BY <1>1, <1>4, <2>1, DeferredStep DEF c
<1>5. ASSUME NEW n \in AtapiLens \ {0},
             \/ at' = AtapiDeferReady(AtapiSetData([a EXCEPT !.limit = n], n))
             \/ at' = AtapiDeferReady(AtapiNoMemory([a EXCEPT !.limit = n]))
      PROVE  AtapiInv(at', seen')
  <2> DEFINE c == [a EXCEPT !.limit = n]
             b == AtapiSetData(c, n)
             e == AtapiNoMemory(c)
  <2>1. c \in AtapiStates /\ n \in Nat /\ n > 0
    BY <1>2, DriveSizes DEF AtapiStates
  <2> HIDE DEF c
  <2>2. b \in AtapiStates /\ b.st = "data" /\ Open(b.data)
    BY <2>1, ReplyBegins
  <2>3. e \in AtapiStates /\ e.st = "error"
    BY <2>1 DEF AtapiNoMemory, AtapiStates, NoData, Transfers
  <2>4. at' = AtapiDeferReady(b) \/ at' = AtapiDeferReady(e)
    BY <1>5 DEF c
  <2> HIDE DEF b, e
  <2> QED
    BY <1>1, <2>2, <2>3, <2>4, DeferredStep
<1>6. CASE at' = [a EXCEPT !.st = "idle"] \/ at' = AtapiError(a)
  <2>1. at' \in AtapiStates
    <3>1. [a EXCEPT !.st = "idle"] \in AtapiStates
      BY <1>2 DEF AtapiStates
    <3>2. AtapiError(a) \in AtapiStates
      BY <1>2 DEF AtapiStates, AtapiError
    <3> QED
      BY <1>6, <3>1, <3>2
  <2>2. at'.st \in {"idle", "error"} /\ at'.ready = "none"
    BY <1>2, <1>6 DEF AtapiStates, AtapiError
  <2> QED
    BY <1>1, <2>1, <2>2 DEF AtapiInv
<1> QED
  BY <1>3, <1>4, <1>5, <1>6

LEMMA OtherSteps ==
    DrivesInv /\ (AtapiSelect \/ AtapiControl \/ AtapiPoll \/ AtapiAcknowledge \/ AtapiReset)
      => AtapiInv(at', seen')
<1> SUFFICES ASSUME DrivesInv
             PROVE  AtapiSelect \/ AtapiControl \/ AtapiPoll \/ AtapiAcknowledge \/ AtapiReset
                      => AtapiInv(at', seen')
  OBVIOUS
<1>1. AtapiInv(at, seen)
  BY DEF DrivesInv
<1> USE DEF AtapiInv
<1>2. ASSUME AtapiSelect
      PROVE  AtapiInv(at', seen')
  <2>1. at' \in AtapiStates
    BY <1>1, <1>2 DEF AtapiSelect, AtapiStates
  <2>2. at'.ready = "none" /\ at'.slave = ~at.slave /\ (at.slave => at'.st = "idle") /\ seen' = seen
    BY <1>1, <1>2 DEF AtapiSelect, AtapiStates
  <2> QED
    BY <1>1, <2>1, <2>2
<1>3. ASSUME AtapiControl
      PROVE  AtapiInv(at', seen')
  <2>1. at' \in AtapiStates
    BY <1>1, <1>3 DEF AtapiControl, AtapiStates
  <2>2. at'.ready = "none" /\ at'.st \in {"busy", "idle"} /\ seen' = seen
    BY <1>1, <1>3 DEF AtapiControl, AtapiStates
  <2> QED
    BY <1>1, <2>1, <2>2
<1>4. ASSUME AtapiPoll
      PROVE  AtapiInv(at', seen')
  <2>1. at' \in AtapiStates
    BY <1>1, <1>4 DEF AtapiPoll, AtapiStates
  <2>2. /\ at'.ready = "none" /\ at'.st = at.ready /\ at'.data = at.data /\ seen' = seen
        /\ at.ready = "data" => at'.irq
    BY <1>1, <1>4 DEF AtapiPoll, AtapiStates
  <2> QED
    BY <1>1, <2>1, <2>2
<1>5. ASSUME AtapiAcknowledge
      PROVE  AtapiInv(at', seen')
  <2>1. at' \in AtapiStates
    BY <1>1, <1>5 DEF AtapiAcknowledge, AtapiStates
  <2>2. /\ at'.ready = at.ready /\ at'.st = at.st /\ at'.data = at.data /\ at'.slave = at.slave
        /\ seen' \in Knowledge /\ (seen' # "void" => seen # "void" /\ seen' = "yes")
    BY <1>1, <1>5 DEF AtapiAcknowledge, AtapiStates, Knowledge
  <2> QED
    BY <1>1, <2>1, <2>2
<1>6. ASSUME AtapiReset
      PROVE  AtapiInv(at', seen')
  <2>1. [at.data EXCEPT !.end = 0] \in Transfers
    BY <1>1 DEF AtapiStates, Transfers
  <2>2. at' \in AtapiStates /\ seen' = "void"
    BY <1>1, <1>6, <2>1 DEF AtapiReset, AtapiStates
  <2> QED
    BY <2>2 DEF Knowledge
<1> QED
  BY <1>2, <1>3, <1>4, <1>5, <1>6

\* A command with data starts with the whole buffer, or without memory fails.
LEMMA BufferSet ==
    ASSUME NEW h \in AtaStates, NEW n \in Nat
    PROVE  LET g == AtaSetData(h, n)
               e == AtaNoMemory(h)
           IN  /\ g \in AtaStates /\ g.st = "data" /\ g.pos = 0 /\ g.len = n
               /\ g.isWrite = h.isWrite
               /\ e \in AtaStates /\ e.st = "error"
BY DEF AtaSetData, AtaNoMemory, AtaStates

LEMMA AtaCommandStep == AtaInv(hd, dir) /\ AtaCommand => AtaInv(hd', dir')
<1> SUFFICES ASSUME AtaInv(hd, dir), AtaCommand
             PROVE  AtaInv(hd', dir')
  OBVIOUS
<1>1. hd \in AtaStates
  BY DEF AtaInv
<1>2. \A x \in {"idle", "error"} : [hd EXCEPT !.st = x] \in AtaStates /\ [hd EXCEPT !.st = x].st = x
  BY <1>1 DEF AtaStates
<1>3. ASSUME NEW lba \in 0..HdSectors - 1, NEW n \in 1..2, AtaRead(lba, n)
      PROVE  AtaInv(hd', dir')
  <2>1. n \in Nat /\ n > 0
    OBVIOUS
  <2>2. dir' = "read" /\ (hd' = AtaSetData(hd, n) \/ hd' = AtaNoMemory(hd) \/ hd' = [hd EXCEPT !.st = "error"])
    BY <1>3 DEF AtaRead
  <2>3. AtaSetData(hd, n) \in AtaStates /\ AtaSetData(hd, n).pos = 0 /\ AtaSetData(hd, n).len = n
    BY <1>1, <2>1, BufferSet
  <2>4. AtaNoMemory(hd) \in AtaStates /\ AtaNoMemory(hd).st = "error"
    BY <1>1, <2>1, BufferSet
  <2>5. hd' \in AtaStates /\ (hd'.st = "error" \/ (hd'.pos = 0 /\ hd'.len = n))
    BY <1>2, <2>2, <2>3, <2>4
  <2> QED
    BY <2>1, <2>2, <2>5 DEF AtaInv
<1>4. ASSUME NEW lba \in 0..HdSectors - 1, NEW n \in 1..2, AtaWrite(lba, n)
      PROVE  AtaInv(hd', dir')
  <2> DEFINE g == [hd EXCEPT !.lba = lba, !.isWrite = TRUE]
  <2> lba \in Nat /\ n \in Nat /\ 0 < n
    BY DriveSizes
  <2>1. g \in AtaStates /\ g.isWrite
    BY <1>1 DEF AtaStates
  <2>2. (hd' = AtaSetData(g, n) \/ hd' = AtaNoMemory(g)) /\ dir' = "write"
    BY <1>4 DEF AtaWrite
  <2> HIDE DEF g
  <2>3. /\ AtaSetData(g, n) \in AtaStates /\ AtaSetData(g, n).isWrite
        /\ AtaSetData(g, n).pos = 0 /\ AtaSetData(g, n).len = n
    BY <2>1, BufferSet
  <2>4. AtaNoMemory(g) \in AtaStates /\ AtaNoMemory(g).st = "error"
    BY <2>1, BufferSet
  <2>5. hd' \in AtaStates /\ (hd'.st = "error" \/ (hd'.isWrite /\ hd'.pos = 0 /\ hd'.len = n))
    BY <2>2, <2>3, <2>4
  <2> QED
    BY <2>2, <2>5 DEF AtaInv
<1>5. ASSUME hd' \in {AtaSetData(hd, 1), AtaNoMemory(hd)}, dir' = "read"
      PROVE  AtaInv(hd', dir')
  <2>1. AtaSetData(hd, 1) \in AtaStates /\ AtaSetData(hd, 1).pos = 0 /\ AtaSetData(hd, 1).len = 1
    BY <1>1, BufferSet
  <2>2. AtaNoMemory(hd) \in AtaStates /\ AtaNoMemory(hd).st = "error"
    BY <1>1, BufferSet
  <2> QED
    BY <1>5, <2>1, <2>2 DEF AtaInv
<1>6. ASSUME NEW x \in {"idle", "error"}, hd' = [hd EXCEPT !.st = x], dir' = "none"
      PROVE  AtaInv(hd', dir')
  BY <1>2, <1>6 DEF AtaInv
<1> QED
  BY <1>3, <1>4, <1>5, <1>6 DEF AtaCommand

LEMMA AtaDataStep == AtaInv(hd, dir) /\ (AtaControl \/ AtaDataRead \/ AtaDataWrite) => AtaInv(hd', dir')
<1> SUFFICES ASSUME AtaInv(hd, dir)
             PROVE  AtaControl \/ AtaDataRead \/ AtaDataWrite => AtaInv(hd', dir')
  OBVIOUS
<1> DEFINE p == Min({hd.pos + 1, hd.len})
<1>1. hd \in AtaStates /\ hd.pos \in Nat /\ hd.len \in Nat
  BY DEF AtaInv, AtaStates
<1>2. p \in Nat /\ p <= hd.len
  BY <1>1, MinOfTwo
<1>3. ASSUME AtaControl
      PROVE  AtaInv(hd', dir')
  <2>1. hd' \in AtaStates /\ hd'.st = "idle" /\ dir' = "none"
    BY <1>1, <1>3 DEF AtaControl, AtaStates
  <2> QED
    BY <2>1 DEF AtaInv
<1>4. ASSUME AtaDataRead
      PROVE  AtaInv(hd', dir')
  <2>1. /\ hd' = [hd EXCEPT !.pos = p, !.st = IF ~hd.isWrite /\ p = hd.len THEN "idle" ELSE @]
        /\ dir = "read" /\ dir' = "read"
    BY <1>4 DEF AtaDataRead
  <2> HIDE DEF p
  <2>2. hd' \in AtaStates
    BY <1>1, <1>2, <2>1 DEF AtaStates
  <2>3. /\ hd'.pos = p /\ hd'.len = hd.len /\ hd'.isWrite = hd.isWrite
        /\ hd'.st = IF ~hd.isWrite /\ p = hd.len THEN "idle" ELSE hd.st
    BY <1>1, <2>1 DEF AtaStates
  <2> QED
    BY <1>1, <1>2, <2>1, <2>2, <2>3 DEF AtaInv
<1>5. ASSUME AtaDataWrite
      PROVE  AtaInv(hd', dir')
  <2>1. /\ dir = "write" /\ dir' = "write" /\ hd.isWrite
        /\ \/ \E x \in {"idle", "error"} : hd' = [hd EXCEPT !.pos = p, !.st = x, !.isWrite = FALSE]
           \/ p # hd.len /\ hd' = [hd EXCEPT !.pos = p]
    BY <1>5 DEF AtaDataWrite, AtaInv
  <2> HIDE DEF p
  <2>2. ASSUME NEW x \in {"idle", "error"}, hd' = [hd EXCEPT !.pos = p, !.st = x, !.isWrite = FALSE]
        PROVE  AtaInv(hd', dir')
    <3>1. hd' \in AtaStates /\ hd'.st = x
      BY <1>1, <1>2, <2>2 DEF AtaStates
    <3> QED
      BY <2>1, <3>1 DEF AtaInv
  <2>3. ASSUME p # hd.len, hd' = [hd EXCEPT !.pos = p]
        PROVE  AtaInv(hd', dir')
    <3>1. hd' \in AtaStates
      BY <1>1, <1>2, <2>3 DEF AtaStates
    <3>2. hd'.pos = p /\ hd'.len = hd.len /\ hd'.isWrite = hd.isWrite
      BY <1>1, <2>3 DEF AtaStates
    <3> QED
      BY <1>1, <1>2, <2>1, <2>3, <3>1, <3>2 DEF AtaInv
  <2> QED
    BY <2>1, <2>2, <2>3
<1> QED
  BY <1>3, <1>4, <1>5

LEMMA DrivesStep == DrivesInv /\ [DrivesNext]_drivesVars => DrivesInv'
<1> SUFFICES ASSUME DrivesInv, [DrivesNext]_drivesVars
             PROVE  AtapiInv(at', seen') /\ AtaInv(hd', dir') /\ medium' \in BOOLEAN
  BY DEF DrivesInv, AtapiInv, AtaInv
<1>1. AtapiInv(at, seen) /\ AtaInv(hd, dir) /\ medium \in BOOLEAN
  BY DEF DrivesInv
<1>2. CASE AtapiMedium
  BY <1>1, <1>2 DEF AtapiMedium, ataVars
<1>3. CASE AtapiPacketWrite
  BY <1>1, <1>3, PacketStep DEF AtapiPacketWrite, ataVars
<1>4. CASE AtapiCommand
  BY <1>1, <1>4, CommandStep DEF AtapiCommand, ataVars
<1>5. CASE AtapiSelect \/ AtapiControl \/ AtapiPoll \/ AtapiAcknowledge \/ AtapiReset
  <2>1. UNCHANGED <<medium, ataVars>>
    BY <1>5 DEF AtapiSelect, AtapiControl, AtapiPoll, AtapiAcknowledge, AtapiReset
  <2> QED
    BY <1>1, <1>5, <2>1, OtherSteps DEF ataVars
<1>6. ASSUME NEW size \in {1, 2, 4}, AtapiDataRead(size)
      PROVE  AtapiInv(at', seen') /\ AtaInv(hd', dir') /\ medium' \in BOOLEAN
  <2>1. UNCHANGED <<medium, ataVars>>
    BY <1>6 DEF AtapiDataRead
  <2> QED
    BY <1>1, <1>6, <2>1, DataReadStep DEF ataVars
<1>7. CASE AtaNext
  <2>1. UNCHANGED atapiVars
    BY <1>7 DEF AtaNext, AtaCommand, AtaControl, AtaDataRead, AtaDataWrite
  <2> QED
    BY <1>1, <1>7, <2>1, AtaCommandStep, AtaDataStep DEF AtaNext, atapiVars
<1>8. CASE UNCHANGED drivesVars
  BY <1>1, <1>8 DEF drivesVars
<1> QED
  BY <1>2, <1>3, <1>4, <1>5, <1>6, <1>7, <1>8 DEF DrivesNext, AtapiNext

LEMMA DrivesStart == DrivesInit => DrivesInv
<1> SUFFICES ASSUME DrivesInit
             PROVE  AtapiInv(at, seen) /\ AtaInv(hd, dir) /\ medium \in BOOLEAN
  BY DEF DrivesInv
<1>1. NoData \in Transfers
  BY DEF NoData, Transfers
<1>2. AtIdle \in AtapiStates
  BY <1>1, DriveSizes DEF AtIdle, AtapiStates
<1>3. AtapiInv(at, seen)
  BY <1>2 DEF DrivesInit, AtapiInv, AtIdle, Knowledge
<1>4. AtaInv(hd, dir)
  BY DEF DrivesInit, AtaInv, AtaStates
<1> QED
  BY <1>3, <1>4 DEF DrivesInit

\* While a drive requests a transfer there is something to transfer, and the
\* guest has been or will be interrupted for the phase, from its command on and
\* until the machine is reset: for replies and limits of any length, and a disk
\* of any size.
THEOREM RequestsBacked == DrivesSpec => []RequestedDataIsThere
<1>1. DrivesInv => RequestedDataIsThere
  BY DEF DrivesInv, AtapiInv, AtaInv, RequestedDataIsThere, Open
<1> QED
  BY <1>1, DrivesStart, DrivesStep, PTL DEF DrivesSpec

----------------------------------------------------------------------------
\* The disk drive.

Bytes(d) == 0 .. SidesOf[d] * SideLen - 1
Contents(d) == [Bytes(d) -> 0..1]

DriveTyped ==
  /\ held \in Disks \cup {NoDisk} /\ powered \in BOOLEAN /\ disk_dirty \in BOOLEAN
  /\ held # NoDisk => raw \in Contents(held)
  /\ disk_dirty => held # NoDisk

FilesTyped ==
  /\ saves = [x \in {NameOf[d] : d \in Disks} |-> saves[x]]
  /\ \A d \in Disks : \A i \in Nat : i < saves[NameOf[d]].n => saves[NameOf[d]].data[i] \in 0..1
  /\ kept = [d \in Disks |-> kept[d]] /\ \A d \in Disks : kept[d] \in Contents(d)

\* What a start would show of a disk whose file is its own and whole.
FilesKeep == \A d \in Disks \ spoilt : Overlay(saves, d) = kept[d]

DiskInv == DriveTyped /\ FilesTyped /\ FilesKeep /\ DiskRemembers

LEMMA SidesPositive == \A d \in Disks : d # NoDisk /\ SidesOf[d] \in Nat /\ Bytes(d) \subseteq Nat
BY DiskConstants DEF Bytes

\* An image with a save read over it is a disk's contents, and is all of the
\* save when that is whole.
LEMMA OverlayTyped ==
    ASSUME NEW files, NEW d \in Disks,
           \A i \in Nat : i < files[NameOf[d]].n => files[NameOf[d]].data[i] \in 0..1
    PROVE  Overlay(files, d) \in Contents(d)
<1> DEFINE s == files[NameOf[d]]
<1>1. DOMAIN Image(d) = Bytes(d) /\ \A i \in Bytes(d) : Image(d)[i] \in 0..1
  BY DEF Image, Bytes
<1>2. Overlay(files, d) = [i \in Bytes(d) |-> IF s.sides = SidesOf[d] /\ i < s.n THEN s.data[i] ELSE Image(d)[i]]
  BY <1>1 DEF Overlay
<1>3. ASSUME NEW i \in Bytes(d)
      PROVE  (IF s.sides = SidesOf[d] /\ i < s.n THEN s.data[i] ELSE Image(d)[i]) \in 0..1
  <2>1. i \in Nat
    BY SidesPositive
  <2> QED
    BY <1>1, <2>1
<1> QED
  BY <1>2, <1>3 DEF Contents

LEMMA OverlayWhole ==
    ASSUME NEW d \in Disks, NEW files, NEW r \in Contents(d),
           files[NameOf[d]] = [n |-> SidesOf[d] * SideLen, sides |-> SidesOf[d], data |-> r]
    PROVE  Overlay(files, d) = r
<1>1. DOMAIN Image(d) = Bytes(d) /\ \A i \in Bytes(d) : i < SidesOf[d] * SideLen
  BY SidesPositive DEF Image, Bytes, SideLen
<1>2. Overlay(files, d) = [i \in Bytes(d) |-> IF i < SidesOf[d] * SideLen THEN r[i] ELSE Image(d)[i]]
  BY <1>1 DEF Overlay
<1>3. Overlay(files, d) = [i \in Bytes(d) |-> r[i]]
  BY <1>1, <1>2
<1> QED
  BY <1>3 DEF Contents

LEMMA OverlaySame ==
    ASSUME NEW d \in Disks, NEW files, NEW others, files[NameOf[d]] = others[NameOf[d]]
    PROVE  Overlay(files, d) = Overlay(others, d)
BY DEF Overlay

\* A file that is written anew changes what is shown of its namesakes only.
LEMMA SavesTyped ==
    ASSUME FilesTyped, DriveTyped, held # NoDisk, kept' = kept \/ kept' = [kept EXCEPT ![held] = raw],
           NEW new, \A i \in Nat : i < new.n => new.data[i] \in 0..1,
           saves' = [saves EXCEPT ![NameOf[held]] = new]
    PROVE  FilesTyped'
<1>1. held \in Disks /\ raw \in Contents(held)
  BY DEF DriveTyped
<1>2. saves' = [x \in {NameOf[d] : d \in Disks} |-> IF x = NameOf[held] THEN new ELSE saves[x]]
  BY DEF FilesTyped
<1>3. \A d \in Disks : saves'[NameOf[d]] = IF NameOf[d] = NameOf[held] THEN new ELSE saves[NameOf[d]]
  BY <1>2
<1>4. saves' = [x \in {NameOf[d] : d \in Disks} |-> saves'[x]]
  BY <1>2
<1>5. \A d \in Disks : \A i \in Nat : i < saves'[NameOf[d]].n => saves'[NameOf[d]].data[i] \in 0..1
  BY <1>3 DEF FilesTyped
<1>6. kept' = [d \in Disks |-> kept'[d]] /\ \A d \in Disks : kept'[d] \in Contents(d)
  BY <1>1 DEF FilesTyped
<1> QED
  BY <1>4, <1>5, <1>6 DEF FilesTyped, Contents, Bytes, SideLen

\* The bytes of a save, whole or torn, are bytes of the disk.
LEMMA RawTyped ==
    ASSUME DriveTyped, held # NoDisk, NEW n \in Nat, n <= SidesOf[held] * SideLen
    PROVE  \A i \in Nat : i < n => raw[i] \in 0..1
<1>1. held \in Disks /\ raw \in Contents(held) /\ SidesOf[held] \in Nat
  BY SidesPositive DEF DriveTyped
<1> QED
  BY <1>1 DEF Contents, Bytes, SideLen

LEMMA OthersKeep ==
    ASSUME FilesTyped, FilesKeep, held \in Disks, NEW new, NEW d \in Disks \ spoilt,
           d \notin Namesakes(held), kept' = kept \/ kept' = [kept EXCEPT ![held] = raw],
           saves' = [saves EXCEPT ![NameOf[held]] = new]
    PROVE  Overlay(saves', d) = kept'[d]
<1>1. NameOf[d] # NameOf[held] /\ d # held
  BY DEF Namesakes
<1>2. saves'[NameOf[d]] = saves[NameOf[d]]
  BY <1>1 DEF FilesTyped
<1>3. kept'[d] = kept[d]
  BY <1>1 DEF FilesTyped
<1> QED
  BY <1>2, <1>3, OverlaySame DEF FilesKeep

\* A save: when it succeeds the file keeps the disk, and otherwise the file is
\* as it was, or the disk and its namesakes count as spoilt.
LEMMA SaveStep ==
    ASSUME DiskInv, NEW ok \in BOOLEAN, FdsSave(ok)
    PROVE  /\ FilesTyped' /\ (\A d \in Disks \ spoilt' : Overlay(saves', d) = kept'[d])
           /\ held # NoDisk /\ held \notin spoilt' /\ (ok \/ ~disk_dirty) => raw = kept'[held]
<1> DEFINE Keep == \A d \in Disks \ spoilt' : Overlay(saves', d) = kept'[d]
<1> DEFINE Same == held # NoDisk /\ held \notin spoilt' /\ (ok \/ ~disk_dirty) => raw = kept'[held]
<1> USE DEF DiskInv
<1>1. CASE UNCHANGED fileVars /\ (disk_dirty => ~ok)
  <2>1. FilesTyped' /\ Keep
    BY <1>1 DEF fileVars, FilesTyped, FilesKeep, Contents, Bytes, SideLen
  <2>2. Same
    BY <1>1 DEF fileVars, DiskRemembers
  <2> QED
    BY <2>1, <2>2
<1>2. CASE disk_dirty /\ Tears
  <2>1. held \in Disks /\ held # NoDisk /\ SidesOf[held] \in Nat
    BY <1>2, SidesPositive DEF DriveTyped
  <2>2. PICK new : /\ saves' = [saves EXCEPT ![NameOf[held]] = new]
                   /\ \A i \in Nat : i < new.n => new.data[i] \in 0..1
                   /\ spoilt' = spoilt \cup Namesakes(held) /\ kept' = kept
    <3>1. ASSUME Unreadable
          PROVE  \E new : /\ saves' = [saves EXCEPT ![NameOf[held]] = new]
                          /\ \A i \in Nat : i < new.n => new.data[i] \in 0..1
                          /\ spoilt' = spoilt \cup Namesakes(held) /\ kept' = kept
      <4>1. \A i \in Nat : i < NoSave.n => NoSave.data[i] \in 0..1
        BY DEF NoSave
      <4> QED
        BY <3>1, <4>1 DEF Unreadable
    <3>2. ASSUME NEW n \in 0 .. SidesOf[held] * SideLen - 1, TornSave(n)
          PROVE  \E new : /\ saves' = [saves EXCEPT ![NameOf[held]] = new]
                          /\ \A i \in Nat : i < new.n => new.data[i] \in 0..1
                          /\ spoilt' = spoilt \cup Namesakes(held) /\ kept' = kept
      <4> DEFINE new == [n |-> n, sides |-> SidesOf[held], data |-> raw]
      <4>1. n \in Nat /\ n <= SidesOf[held] * SideLen
        BY <2>1 DEF SideLen
      <4>2. \A i \in Nat : i < new.n => new.data[i] \in 0..1
        BY <2>1, <4>1, RawTyped
      <4>3. saves' = [saves EXCEPT ![NameOf[held]] = new] /\ spoilt' = spoilt \cup Namesakes(held) /\ kept' = kept
        BY <3>2 DEF TornSave
      <4> QED
        BY <4>2, <4>3
    <3> QED
      BY <1>2, <3>1, <3>2 DEF Tears
  <2>3. FilesTyped'
    BY <2>1, <2>2, SavesTyped
  <2>4. Keep
    BY <2>1, <2>2, OthersKeep
  <2>5. held \in spoilt'
    BY <2>1, <2>2 DEF Namesakes
  <2> QED
    BY <2>3, <2>4, <2>5
<1>3. CASE /\ disk_dirty /\ ok
           /\ saves' = [saves EXCEPT ![NameOf[held]] =
                          [n |-> SidesOf[held] * SideLen, sides |-> SidesOf[held], data |-> raw]]
           /\ kept' = [kept EXCEPT ![held] = raw]
           /\ spoilt' = (spoilt \ {held}) \cup (Namesakes(held) \ {held})
  <2> DEFINE new == [n |-> SidesOf[held] * SideLen, sides |-> SidesOf[held], data |-> raw]
  <2>1. /\ held \in Disks /\ held # NoDisk /\ SidesOf[held] * SideLen \in Nat
        /\ raw \in Contents(held)
    BY <1>3, SidesPositive DEF DriveTyped, SideLen
  <2>2. \A i \in Nat : i < new.n => new.data[i] \in 0..1
    BY <2>1, RawTyped
  <2>3. saves' = [saves EXCEPT ![NameOf[held]] = new] /\ saves'[NameOf[held]] = new
    BY <1>3, <2>1 DEF FilesTyped
  <2>4. FilesTyped'
    <3> HIDE DEF new
    <3> QED
      BY <1>3, <2>1, <2>2, <2>3, SavesTyped
  <2>5. kept'[held] = raw
    BY <1>3, <2>1 DEF FilesTyped
  <2>6. Overlay(saves', held) = kept'[held]
    BY <2>1, <2>3, <2>5, OverlayWhole
  <2>7. ASSUME NEW d \in Disks \ spoilt', d # held
        PROVE  Overlay(saves', d) = kept'[d]
    <3> HIDE DEF new
    <3>1. d \notin Namesakes(held) /\ d \notin spoilt
      BY <1>3, <2>7
    <3> QED
      BY <1>3, <2>1, <2>3, <3>1, OthersKeep
  <2> QED
    BY <2>4, <2>5, <2>6, <2>7
<1> QED
  BY <1>1, <1>2, <1>3 DEF FdsSave

\* Files and kept contents that are left alone go on agreeing.
LEMMA FilesSame == DiskInv /\ UNCHANGED fileVars => FilesTyped' /\ FilesKeep'
<1> SUFFICES ASSUME DiskInv, UNCHANGED fileVars
             PROVE  FilesTyped' /\ FilesKeep'
  OBVIOUS
<1>1. saves' = saves /\ kept' = kept /\ spoilt' = spoilt
  BY DEF fileVars
<1>2. FilesTyped'
  BY <1>1 DEF DiskInv, FilesTyped, Contents, Bytes, SideLen
<1>3. FilesKeep'
  BY <1>1, Zenon DEF DiskInv, FilesKeep, Overlay, Image, SideLen
<1> QED
  BY <1>2, <1>3

\* The program's accesses write only to the disk that is held, and make it dirty.
LEMMA AccessStep ==
    DiskInv /\ (DiskCycle \/ DiskStatus \/ DiskRead \/ DiskWrite \/ DiskControl) => DiskInv'
<1> SUFFICES ASSUME DiskInv, DiskCycle \/ DiskStatus \/ DiskRead \/ DiskWrite \/ DiskControl
             PROVE  DiskInv'
  OBVIOUS
<1>1. UNCHANGED <<powered, held, fileVars>>
  BY DEF DiskCycle, DiskStatus, DiskRead, DiskWrite, DiskControl, Quiet
<1>2. FilesTyped' /\ FilesKeep'
  BY <1>1, FilesSame
<1>3. CASE DiskWrite
  <2>1. PICK value \in 0..1, stores \in BOOLEAN :
          /\ stores => held # NoDisk
          /\ raw' = IF stores THEN [raw EXCEPT ![Here] = value] ELSE raw
          /\ disk_dirty' = (disk_dirty \/ stores)
    BY <1>3 DEF DiskWrite
  <2>2. DriveTyped'
    BY <1>1, <2>1 DEF DiskInv, DriveTyped, Contents, Bytes, SideLen
  <2>3. DiskRemembers'
    BY <1>1, <2>1 DEF DiskInv, DiskRemembers, DriveTyped, fileVars
  <2> QED
    BY <1>2, <2>2, <2>3 DEF DiskInv
<1>4. CASE DiskCycle \/ DiskStatus \/ DiskRead \/ DiskControl
  <2>1. UNCHANGED <<raw, disk_dirty>>
    BY <1>4 DEF DiskCycle, DiskStatus, DiskRead, DiskControl
  <2> QED
    BY <1>1, <1>2, <2>1 DEF DiskInv, DriveTyped, DiskRemembers, fileVars, Contents, Bytes, SideLen
<1> QED
  BY <1>3, <1>4

\* A disk that is put in, and one that a start finds, shows what was kept.
LEMMA InsertStep ==
    ASSUME FilesTyped', \A d \in Disks \ spoilt' : Overlay(saves', d) = kept'[d],
           NEW d \in Disks \cup {NoDisk}, held' = d, powered' \in BOOLEAN, disk_dirty' = FALSE,
           raw' = IF d = NoDisk THEN <<>> ELSE Overlay(saves', d)
    PROVE  DiskInv'
<1>1. d \in Disks => Overlay(saves', d) \in Contents(d)
  BY OverlayTyped DEF FilesTyped
<1>2. DriveTyped'
  BY <1>1, SidesPositive DEF DriveTyped, Contents, Bytes, SideLen
<1>3. FilesKeep' /\ DiskRemembers'
  BY SidesPositive DEF FilesKeep, DiskRemembers, Overlay, Image, SideLen
<1> QED
  BY <1>2, <1>3 DEF DiskInv

\* A machine that has stopped holds no disk.
LEMMA StopStep ==
    ASSUME FilesTyped', \A d \in Disks \ spoilt' : Overlay(saves', d) = kept'[d], Stopped
    PROVE  DiskInv'
BY InsertStep DEF Stopped

LEMMA DiskStep == DiskInv /\ [DiskNext]_diskVars => DiskInv'
<1> SUFFICES ASSUME DiskInv, [DiskNext]_diskVars
             PROVE  DiskInv'
  OBVIOUS
<1>1. CASE DiskCycle \/ DiskStatus \/ DiskRead \/ DiskWrite \/ DiskControl
  BY <1>1, AccessStep
<1>2. CASE FdsChange
  <2>1. PICK d \in Disks \cup {NoDisk}, ok \in BOOLEAN : FdsSave(ok) /\ Replaced(d)
    BY <1>2 DEF FdsChange
  <2> QED
    BY <2>1, SaveStep, InsertStep DEF Replaced, DiskInv, DriveTyped
<1>3. CASE FdsFlip
  <2>1. UNCHANGED <<powered, held, raw, disk_dirty, fileVars>>
    BY <1>3 DEF FdsFlip
  <2> QED
    BY <2>1, FilesSame DEF DiskInv, DriveTyped, DiskRemembers, fileVars, Contents, Bytes, SideLen
<1>4. CASE FdsReset
  <2>1. PICK ok \in BOOLEAN : FdsSave(ok) /\ disk_dirty' = (disk_dirty /\ ~ok)
    BY <1>4 DEF FdsReset
  <2>2. UNCHANGED <<powered, held, raw>>
    BY <1>4 DEF FdsReset
  <2>3. DriveTyped'
    BY <2>1, <2>2 DEF DiskInv, DriveTyped, Contents, Bytes, SideLen
  <2>4. FilesTyped' /\ FilesKeep'
    BY <2>1, SaveStep, Zenon DEF FilesKeep, Overlay, Image, SideLen
  <2>5. DiskRemembers'
    BY <2>1, <2>2, SaveStep DEF DiskInv, DriveTyped, DiskRemembers
  <2> QED
    BY <2>3, <2>4, <2>5 DEF DiskInv
<1>5. CASE FdsQuit
  <2>1. PICK ok \in BOOLEAN : FdsSave(ok)
    BY <1>5 DEF FdsQuit
  <2> QED
    BY <1>5, <2>1, SaveStep, StopStep DEF FdsQuit
<1>6. CASE FdsCrash
  <2>1. FdsSave(FALSE) \/ UNCHANGED fileVars
    BY <1>6 DEF FdsCrash, FdsSave
  <2>2. FilesTyped' /\ \A d \in Disks \ spoilt' : Overlay(saves', d) = kept'[d]
    <3>1. CASE FdsSave(FALSE)
      BY <3>1, SaveStep
    <3>2. CASE UNCHANGED fileVars
      BY <3>2, FilesSame DEF DiskInv, FilesKeep, fileVars
    <3> QED
      BY <2>1, <3>1, <3>2
  <2> QED
    BY <1>6, <2>2, StopStep DEF FdsCrash
<1>7. CASE FdsStart
  <2>1. PICK d \in Disks \cup {NoDisk} : PowerUp(d)
    BY <1>7 DEF FdsStart
  <2>2. UNCHANGED fileVars /\ powered' = TRUE
    BY <1>7 DEF FdsStart
  <2>3. /\ FilesTyped' /\ \A e \in Disks \ spoilt' : Overlay(saves', e) = kept'[e]
        /\ raw' = IF d = NoDisk THEN <<>> ELSE Overlay(saves', d)
    BY <2>1, <2>2, FilesSame DEF DiskInv, FilesKeep, fileVars, PowerUp
  <2> QED
    BY <2>1, <2>2, <2>3, InsertStep DEF PowerUp
<1>8. CASE UNCHANGED diskVars
  <2>1. UNCHANGED <<powered, held, raw, disk_dirty, fileVars>>
    BY <1>8 DEF diskVars
  <2> QED
    BY <2>1, FilesSame DEF DiskInv, DriveTyped, DiskRemembers, fileVars, Contents, Bytes, SideLen
<1> QED
  BY <1>1, <1>2, <1>3, <1>4, <1>5, <1>6, <1>7, <1>8 DEF DiskNext

LEMMA DiskStart == DiskInit => DiskInv
<1> SUFFICES ASSUME DiskInit
             PROVE  DiskInv
  OBVIOUS
<1>1. DriveTyped /\ DiskRemembers
  BY DEF DiskInit, DriveTyped, DiskRemembers
<1>2. \A d \in Disks : saves[NameOf[d]] = NoSave /\ kept[d] = Image(d)
  BY DEF DiskInit
<1>3. \A d \in Disks : Image(d) \in Contents(d)
  BY DEF Image, Contents, Bytes
<1>4. FilesTyped
  <2>1. saves = [x \in {NameOf[d] : d \in Disks} |-> saves[x]] /\ kept = [d \in Disks |-> kept[d]]
    BY DEF DiskInit
  <2> QED
    BY <1>2, <1>3, <2>1 DEF FilesTyped, NoSave
<1>5. FilesKeep
  <2> SUFFICES ASSUME NEW d \in Disks
               PROVE  Overlay(saves, d) = Image(d)
    BY <1>2 DEF FilesKeep
  <2>1. Overlay(saves, d) = [i \in DOMAIN Image(d) |-> Image(d)[i]]
    BY <1>2, SidesPositive, DiskConstants DEF Overlay, NoSave
  <2> QED
    BY <2>1, <1>3 DEF Contents
<1> QED
  BY <1>1, <1>4, <1>5 DEF DiskInv

\* A disk in the drive holds what it held when it was last saved until the
\* program writes to it, over exchanges, restarts, crashes and saves that fail
\* for other disks: for every set of disks, sides and names of their files.
THEOREM DiskKeeps == DiskSpec => []DiskRemembers
<1>1. DiskInv => DiskRemembers
  BY DEF DiskInv
<1> QED
  BY <1>1, DiskStart, DiskStep, PTL DEF DiskSpec

----------------------------------------------------------------------------
\* A set of natural numbers has a least one.
LEMMA LeastBy ==
    ASSUME NEW S \in SUBSET Nat, S # {}, NEW R, IsWellFoundedOn(R, Nat),
           \A x, y \in S : (<<y, x>> \in R) <=> y < x
    PROVE  \E m \in S : \A k \in S : m <= k
<1>1. \E x \in S : \A y \in S : ~ (<<y, x>> \in R)
  BY WFMin
<1>2. PICK m \in S : \A y \in S : ~ (<<y, m>> \in R)
  BY <1>1
<1>3. \A y \in S : ~ (y < m)
  BY <1>2, Zenon
<1>4. \A y \in S : m <= y
  BY <1>3
<1> QED
  BY <1>4

LEMMA LeastNatural ==
    ASSUME NEW S \in SUBSET Nat, S # {}
    PROVE  \E m \in S : \A k \in S : m <= k
<1>1. \A x, y \in S : (<<y, x>> \in OpToRel(<, Nat)) <=> y < x
  BY DEF OpToRel
<1> QED
  BY <1>1, NatLessThanWellFounded, LeastBy, Zenon


----------------------------------------------------------------------------
(***************************************************************************)
(* The sound chip of the NES, from one cycle to the next.                  *)
(***************************************************************************)

ChipRecs ==
  [odd : {0, 1}, len : [ApuChannels -> Nat], halt : [ApuChannels -> BOOLEAN],
   en : [ApuChannels -> BOOLEAN], div : Nat, mode : {0, 1}, new : {0, 1}, delay : Nat,
   inhibit : BOOLEAN, frame : BOOLEAN, clear : BOOLEAN, timer : Nat, bits : Nat \ {0},
   empty : BOOLEAN, rem : Nat, start : Nat, irqOn : BOOLEAN, loop : BOOLEAN, dmc : BOOLEAN,
   pending : BOOLEAN, abort : BOOLEAN]

\* What only the program changes, the frame counter with the length counters,
\* and the reader of the delta channel.
SameRegs(r, a) == /\ r.halt = a.halt /\ r.en = a.en /\ r.new = a.new /\ r.inhibit = a.inhibit
                  /\ r.irqOn = a.irqOn /\ r.loop = a.loop /\ r.abort = a.abort
SameFrame(r, a) == /\ r.len = a.len /\ r.div = a.div /\ r.mode = a.mode /\ r.delay = a.delay
                   /\ r.frame = a.frame /\ r.clear = a.clear
SameSample(r, a) == r.rem = a.rem /\ r.dmc = a.dmc
SameUnit(r, a) == r.timer = a.timer /\ r.bits = a.bits
SameReader(r, a) == r.empty = a.empty /\ r.start = a.start /\ r.pending = a.pending

\* The output unit comes to the end of its bits.
Takes(a) == a.odd = 1 /\ a.timer = 0 /\ a.bits = 1
TickTimer(a) == IF a.odd = 0 THEN a.timer ELSE IF a.timer > 0 THEN a.timer - 1 ELSE DmcHalf - 1
TickBits(a) == IF a.odd = 0 \/ a.timer > 0 THEN a.bits ELSE IF a.bits > 1 THEN a.bits - 1 ELSE DmcBits

Toggled(a) == [a EXCEPT !.odd = 1 - @]

LEMMA ToggledIs ==
  ASSUME NEW a \in ChipRecs
  PROVE  /\ Toggled(a) \in ChipRecs /\ Toggled(a).odd = 1 - a.odd
         /\ SameRegs(Toggled(a), a) /\ SameFrame(Toggled(a), a) /\ SameSample(Toggled(a), a)
         /\ SameUnit(Toggled(a), a) /\ SameReader(Toggled(a), a)
<1> DEFINE odd == 1 - a.odd
<1>1. odd \in {0, 1}
  BY DEF ChipRecs
<1>2. Toggled(a) = [a EXCEPT !.odd = odd]
  BY DEF Toggled
<1> HIDE DEF odd
<1>3. Toggled(a) \in ChipRecs /\ Toggled(a).odd = odd
  BY <1>1, <1>2 DEF ChipRecs
<1>4. /\ SameRegs(Toggled(a), a) /\ SameFrame(Toggled(a), a) /\ SameSample(Toggled(a), a)
      /\ SameUnit(Toggled(a), a) /\ SameReader(Toggled(a), a)
  BY <1>1, <1>2 DEF ChipRecs, SameRegs, SameFrame, SameSample, SameUnit, SameReader
<1> QED
  BY <1>3, <1>4 DEF odd

LEMMA OutputIs ==
  ASSUME NEW a \in ChipRecs, NEW o, o = DmcOutput(Toggled(a))
  PROVE  /\ o \in ChipRecs /\ o.odd = 1 - a.odd
         /\ SameRegs(o, a) /\ SameFrame(o, a) /\ SameSample(o, a)
         /\ o.timer = TickTimer(a) /\ o.bits = TickBits(a)
         /\ o.empty <=> a.empty \/ Takes(a)
         /\ o.start = a.start /\ o.pending = a.pending
<1> DEFINE b == Toggled(a)
           timer == TickTimer(a)
           bits == TickBits(a)
           empty == a.empty \/ Takes(a)
<1>1. /\ b \in ChipRecs /\ b.odd = 1 - a.odd /\ SameRegs(b, a) /\ SameFrame(b, a)
      /\ SameSample(b, a) /\ SameUnit(b, a) /\ SameReader(b, a)
  BY ToggledIs
<1>2. /\ a.odd \in {0, 1} /\ a.timer \in Nat /\ a.bits \in Nat \ {0} /\ a.empty \in BOOLEAN
      /\ b.empty \in BOOLEAN
  BY <1>1 DEF ChipRecs
<1>3. timer \in Nat /\ bits \in Nat \ {0} /\ empty \in BOOLEAN
  BY <1>2, ApuSizes DEF TickTimer, TickBits, Takes
<1>4. b.timer = a.timer /\ b.bits = a.bits /\ b.empty = a.empty
  BY <1>1 DEF SameUnit, SameReader
<1> HIDE DEF b
<1>5. o = [b EXCEPT !.timer = timer, !.bits = bits, !.empty = empty]
  <2>1. CASE a.odd = 0
    <3>1. o = b /\ timer = b.timer /\ bits = b.bits /\ empty = b.empty
      BY <1>1, <1>2, <1>4, <2>1 DEF DmcOutput, TickTimer, TickBits, Takes, b
    <3> QED
      BY <1>1, <3>1 DEF ChipRecs
  <2>2. CASE a.odd = 1 /\ a.timer > 0
    <3>1. /\ o = [b EXCEPT !.timer = @ - 1]
          /\ timer = b.timer - 1 /\ bits = b.bits /\ empty = b.empty
      BY <1>1, <1>2, <1>4, <2>2 DEF DmcOutput, TickTimer, TickBits, Takes, b
    <3> QED
      BY <1>1, <3>1 DEF ChipRecs
  <2>3. CASE a.odd = 1 /\ a.timer = 0 /\ a.bits > 1
    <3>1. /\ o = [b EXCEPT !.timer = DmcHalf - 1, !.bits = @ - 1]
          /\ timer = DmcHalf - 1 /\ bits = b.bits - 1 /\ empty = b.empty
      BY <1>1, <1>2, <1>4, <2>3 DEF DmcOutput, TickTimer, TickBits, Takes, b
    <3> QED
      BY <1>1, <3>1 DEF ChipRecs
  <2>4. CASE Takes(a)
    <3>1. /\ o = [b EXCEPT !.timer = DmcHalf - 1, !.bits = DmcBits, !.empty = TRUE]
          /\ timer = DmcHalf - 1 /\ bits = DmcBits /\ empty = TRUE
      BY <1>1, <1>2, <1>4, <2>4 DEF DmcOutput, TickTimer, TickBits, Takes, b
    <3> QED
      BY <3>1
  <2> QED
    BY <1>2, <2>1, <2>2, <2>3, <2>4 DEF Takes
<1> HIDE DEF timer, bits, empty
<1>6. o \in ChipRecs /\ o.timer = timer /\ o.bits = bits /\ (o.empty <=> empty) /\ o.odd = b.odd
  <2> DEFINE c == [b EXCEPT !.timer = timer]
             e == [c EXCEPT !.bits = bits]
  <2>1. c \in ChipRecs /\ c.timer = timer /\ c.odd = b.odd
    BY <1>1, <1>3 DEF ChipRecs
  <2>2. o = [e EXCEPT !.empty = empty]
    BY <1>5
  <2> HIDE DEF c
  <2>3. e \in ChipRecs /\ e.timer = timer /\ e.bits = bits /\ e.odd = b.odd
    BY <1>3, <2>1 DEF ChipRecs
  <2> HIDE DEF e
  <2> QED
    BY <1>3, <2>2, <2>3 DEF ChipRecs
<1>7. /\ SameRegs(o, b) /\ SameFrame(o, b) /\ SameSample(o, b) /\ o.start = b.start
      /\ o.pending = b.pending
  BY <1>1, <1>5 DEF ChipRecs, SameRegs, SameFrame, SameSample
<1>8. SameRegs(o, a) /\ SameFrame(o, a) /\ SameSample(o, a)
  BY <1>1, <1>7 DEF SameRegs, SameFrame, SameSample
<1>9. o.start = a.start /\ o.pending = a.pending /\ o.odd = 1 - a.odd
  BY <1>1, <1>6, <1>7 DEF SameReader
<1> QED
  BY <1>6, <1>8, <1>9 DEF timer, bits, empty

LEMMA ReaderIs ==
  ASSUME NEW a \in ChipRecs, NEW r, r = DmcReader(a)
  PROVE  /\ r \in ChipRecs /\ r.odd = a.odd
         /\ SameRegs(r, a) /\ SameFrame(r, a) /\ SameSample(r, a) /\ SameUnit(r, a)
         /\ r.empty = a.empty
         /\ r.start = IF a.start > 1 THEN a.start - 1 ELSE 0
         /\ r.pending <=> a.pending \/ (~(a.start > 1) /\ a.empty /\ a.rem > 0)
<1> DEFINE start == IF a.start > 1 THEN a.start - 1 ELSE 0
           pending == a.pending \/ (~(a.start > 1) /\ a.empty /\ a.rem > 0)
<1>1. a.start \in Nat /\ a.pending \in BOOLEAN /\ a.empty \in BOOLEAN
  BY DEF ChipRecs
<1>2. start \in Nat /\ pending \in BOOLEAN
  BY <1>1
<1>3. r = [a EXCEPT !.start = start, !.pending = pending]
  <2>1. CASE a.start > 1
    <3>1. r = [a EXCEPT !.start = start] /\ pending = a.pending
      BY <1>1, <2>1 DEF DmcReader
    <3> QED
      BY <3>1 DEF ChipRecs
  <2>2. CASE ~(a.start > 1)
    BY <1>1, <2>2 DEF DmcReader
  <2> QED
    BY <2>1, <2>2
<1> HIDE DEF start, pending
<1>4. /\ r \in ChipRecs /\ r.odd = a.odd /\ r.empty = a.empty /\ r.start = start
      /\ (r.pending <=> pending)
  BY <1>2, <1>3 DEF ChipRecs
<1>5. SameRegs(r, a) /\ SameFrame(r, a) /\ SameSample(r, a) /\ SameUnit(r, a)
  BY <1>3 DEF ChipRecs, SameRegs, SameFrame, SameSample, SameUnit
<1> QED
  BY <1>4, <1>5 DEF start, pending

\* The interrupt that a read of $4015 clears.
FrameCleared(a) == IF a.clear /\ a.odd = 1 THEN [a EXCEPT !.frame = FALSE, !.clear = FALSE] ELSE a

SameDelta(r, a) ==
  SameRegs(r, a) /\ SameSample(r, a) /\ SameUnit(r, a) /\ SameReader(r, a) /\ r.odd = a.odd

LEMMA ClearedIs ==
  ASSUME NEW a \in ChipRecs, NEW r, r = FrameCleared(a)
  PROVE  /\ r \in ChipRecs /\ SameDelta(r, a)
         /\ r.len = a.len /\ r.div = a.div /\ r.mode = a.mode /\ r.delay = a.delay
         /\ r.frame <=> a.frame /\ ~(a.clear /\ a.odd = 1)
         /\ r.clear <=> a.clear /\ ~(a.odd = 1)
<1>1. CASE a.clear /\ a.odd = 1
  <2>1. r = [a EXCEPT !.frame = FALSE, !.clear = FALSE]
    BY <1>1 DEF FrameCleared
  <2>2. r \in ChipRecs /\ ~r.frame /\ ~r.clear
    BY <2>1 DEF ChipRecs
  <2>3. SameDelta(r, a) /\ r.len = a.len /\ r.div = a.div /\ r.mode = a.mode /\ r.delay = a.delay
    BY <2>1 DEF ChipRecs, SameDelta, SameRegs, SameSample, SameUnit, SameReader
  <2> QED
    BY <1>1, <2>2, <2>3
<1>2. CASE ~(a.clear /\ a.odd = 1)
  <2>1. r = a
    BY <1>2 DEF FrameCleared
  <2> QED
    BY <1>2, <2>1 DEF ChipRecs, SameDelta, SameRegs, SameSample, SameUnit, SameReader
<1> QED
  BY <1>1, <1>2

\* The length counters after a clock, from what they and their halt bits were.
Counted(len, halt) == [c \in ApuChannels |-> IF halt[c] \/ len[c] = 0 THEN len[c] ELSE len[c] - 1]

LEMMA LengthsIs ==
  ASSUME NEW a \in ChipRecs, NEW r, r = ClockLengths(a)
  PROVE  /\ r \in ChipRecs /\ SameDelta(r, a) /\ r.len = Counted(a.len, a.halt)
         /\ r.div = a.div /\ r.mode = a.mode /\ r.delay = a.delay
         /\ r.frame = a.frame /\ r.clear = a.clear
<1> DEFINE len == Counted(a.len, a.halt)
<1>1. a.len \in [ApuChannels -> Nat] /\ a.halt \in [ApuChannels -> BOOLEAN]
  BY DEF ChipRecs
<1>2. \A c \in ApuChannels : (IF a.halt[c] \/ a.len[c] = 0 THEN a.len[c] ELSE a.len[c] - 1) \in Nat
  <2> SUFFICES ASSUME NEW c \in ApuChannels, NEW h \in BOOLEAN
               PROVE  (IF h \/ a.len[c] = 0 THEN a.len[c] ELSE a.len[c] - 1) \in Nat
    BY <1>1
  <2>1. a.len[c] \in Nat
    BY <1>1
  <2> QED
    BY <2>1
<1>3. len \in [ApuChannels -> Nat]
  BY <1>2 DEF Counted
<1>4. r = [a EXCEPT !.len = len]
  BY DEF ClockLengths, Counted
<1> HIDE DEF len
<1>5. /\ r \in ChipRecs /\ r.len = len /\ r.div = a.div /\ r.mode = a.mode /\ r.delay = a.delay
      /\ r.frame = a.frame /\ r.clear = a.clear
  BY <1>3, <1>4 DEF ChipRecs
<1>6. SameDelta(r, a)
  BY <1>4 DEF ChipRecs, SameDelta, SameRegs, SameSample, SameUnit, SameReader
<1> QED
  BY <1>5, <1>6 DEF len

LEMMA SameDeltaTrans ==
  ASSUME NEW a, NEW b, NEW c, SameDelta(a, b), SameDelta(b, c)
  PROVE  SameDelta(a, c)
BY DEF SameDelta, SameRegs, SameSample, SameUnit, SameReader

LEMMA DelayedIs ==
  ASSUME NEW a \in ChipRecs, NEW r, r = DelayedWrite(a)
  PROVE  /\ r \in ChipRecs /\ SameDelta(r, a) /\ r.frame = a.frame /\ r.clear = a.clear
         /\ r.delay = IF a.delay > 0 THEN a.delay - 1 ELSE 0
         /\ r.mode = IF a.delay = 1 THEN a.new ELSE a.mode
         /\ r.div = IF a.delay = 1 THEN 0 ELSE a.div
         /\ r.len = IF a.delay = 1 /\ a.new = 1 THEN Counted(a.len, a.halt) ELSE a.len
<1>0. a.delay \in Nat /\ a.new \in {0, 1}
  BY DEF ChipRecs
<1>1. CASE a.delay # 1
  <2> DEFINE delay == IF a.delay > 0 THEN a.delay - 1 ELSE 0
  <2>1. delay \in Nat
    BY <1>0
  <2>2. r = [a EXCEPT !.delay = delay]
    BY <1>1 DEF DelayedWrite
  <2> HIDE DEF delay
  <2>3. /\ r \in ChipRecs /\ r.frame = a.frame /\ r.clear = a.clear /\ r.delay = delay
        /\ r.mode = a.mode /\ r.div = a.div /\ r.len = a.len
    BY <2>1, <2>2 DEF ChipRecs
  <2>4. SameDelta(r, a)
    BY <2>2 DEF ChipRecs, SameDelta, SameRegs, SameSample, SameUnit, SameReader
  <2> QED
    BY <1>1, <2>3, <2>4 DEF delay
<1>2. CASE a.delay = 1
  <2> DEFINE b == [a EXCEPT !.delay = 0, !.mode = a.new, !.div = 0]
  <2>1. /\ b \in ChipRecs /\ b.frame = a.frame /\ b.clear = a.clear /\ b.delay = 0
        /\ b.mode = a.new /\ b.div = 0 /\ b.len = a.len /\ b.halt = a.halt
    BY <1>0 DEF ChipRecs
  <2>2. SameDelta(b, a)
    BY DEF ChipRecs, SameDelta, SameRegs, SameSample, SameUnit, SameReader
  <2>3. r = IF a.new = 1 THEN ClockLengths(b) ELSE b
    BY <1>2 DEF DelayedWrite
  <2> HIDE DEF b
  <2>4. CASE a.new = 1
    <3>1. /\ r \in ChipRecs /\ SameDelta(r, b) /\ r.len = Counted(b.len, b.halt)
          /\ r.div = b.div /\ r.mode = b.mode /\ r.delay = b.delay
          /\ r.frame = b.frame /\ r.clear = b.clear
      BY <2>1, <2>3, <2>4, LengthsIs
    <3>2. SameDelta(r, a)
      BY <2>2, <3>1, SameDeltaTrans
    <3> QED
      BY <1>2, <2>1, <2>4, <3>1, <3>2
  <2>5. CASE a.new # 1
    BY <1>2, <2>1, <2>2, <2>3, <2>5
  <2> QED
    BY <2>4, <2>5
<1> QED
  BY <1>1, <1>2

\* The frame counter.
Halves2(a) ==
  LET t == a.div + 1 IN
  t = ApuSteps.h \/ (a.mode = 0 /\ t = ApuSteps.last - 1) \/ (a.mode = 1 /\ t = ApuSteps.full5)
Wraps(a) == IF a.mode = 0 THEN a.div + 1 = ApuSteps.last ELSE a.div + 1 = ApuSteps.full5 + 1
Rings(a) == a.mode = 0 /\ a.div + 1 \in (ApuSteps.last - 2)..ApuSteps.last /\ ~a.inhibit

LEMMA FrameIs ==
  ASSUME NEW a \in ChipRecs, NEW r, r = FrameCounter(a)
  PROVE  /\ r \in ChipRecs /\ SameDelta(r, a) /\ r.clear = a.clear /\ r.delay = a.delay
         /\ r.mode = a.mode
         /\ r.frame <=> a.frame \/ Rings(a)
         /\ r.div = IF Wraps(a) THEN 0 ELSE a.div + 1
         /\ r.len = IF Halves2(a) THEN Counted(a.len, a.halt) ELSE a.len
<1> DEFINE div == IF Wraps(a) THEN 0 ELSE a.div + 1
           frame == a.frame \/ Rings(a)
           b == [a EXCEPT !.div = div, !.frame = frame]
<1>1. a.div \in Nat /\ a.frame \in BOOLEAN
  BY DEF ChipRecs
<1>2. div \in Nat /\ frame \in BOOLEAN
  BY <1>1
<1>3. r = IF Halves2(a) THEN ClockLengths(b) ELSE b
  BY DEF FrameCounter, Halves2, Wraps, Rings
<1> HIDE DEF div, frame
<1>4. /\ b \in ChipRecs /\ (b.frame <=> frame) /\ b.clear = a.clear /\ b.delay = a.delay
      /\ b.mode = a.mode /\ b.div = div /\ b.len = a.len /\ b.halt = a.halt
  BY <1>2 DEF ChipRecs
<1>5. SameDelta(b, a)
  BY <1>2 DEF ChipRecs, SameDelta, SameRegs, SameSample, SameUnit, SameReader
<1> HIDE DEF b
<1>6. CASE Halves2(a)
  <2>1. /\ r \in ChipRecs /\ SameDelta(r, b) /\ r.len = Counted(b.len, b.halt)
        /\ r.div = b.div /\ r.mode = b.mode /\ r.delay = b.delay
        /\ r.frame = b.frame /\ r.clear = b.clear
    BY <1>3, <1>4, <1>6, LengthsIs
  <2>2. SameDelta(r, a)
    BY <1>5, <2>1, SameDeltaTrans
  <2> QED
    BY <1>4, <1>6, <2>1, <2>2 DEF div, frame
<1>7. CASE ~Halves2(a)
  BY <1>3, <1>4, <1>5, <1>7 DEF div, frame
<1> QED
  BY <1>6, <1>7

\* One tick.
LEMMA TickStages ==
  ASSUME NEW a
  PROVE  ApuTick(a) = FrameCounter(DelayedWrite(FrameCleared(DmcReader(DmcOutput(Toggled(a))))))
BY DEF ApuTick, FrameCleared, Toggled

\* What a tick does to the delta channel and the program's bits.
TickDelta(t, a) ==
  /\ t.odd = 1 - a.odd /\ SameRegs(t, a) /\ SameSample(t, a)
  /\ t.timer = TickTimer(a) /\ t.bits = TickBits(a)
  /\ t.empty <=> a.empty \/ Takes(a)
  /\ t.start = IF a.start > 1 THEN a.start - 1 ELSE 0
  /\ t.pending <=> a.pending \/ (~(a.start > 1) /\ (a.empty \/ Takes(a)) /\ a.rem > 0)

LEMMA TickTyped == \A a \in ChipRecs : ApuTick(a) \in ChipRecs /\ TickDelta(ApuTick(a), a)
<1> SUFFICES ASSUME NEW a \in ChipRecs PROVE ApuTick(a) \in ChipRecs /\ TickDelta(ApuTick(a), a)
  OBVIOUS
<1> DEFINE o == DmcOutput(Toggled(a))
           r == DmcReader(o)
           c == FrameCleared(r)
           d == DelayedWrite(c)
           t == FrameCounter(d)
<1>0. ApuTick(a) = t
  BY TickStages
<1>1. /\ o \in ChipRecs /\ o.odd = 1 - a.odd /\ SameRegs(o, a) /\ SameSample(o, a)
      /\ o.timer = TickTimer(a) /\ o.bits = TickBits(a) /\ (o.empty <=> a.empty \/ Takes(a))
      /\ o.start = a.start /\ o.pending = a.pending
  BY OutputIs
<1> HIDE DEF o
<1>2. /\ r \in ChipRecs /\ r.odd = o.odd /\ SameRegs(r, o) /\ SameSample(r, o) /\ SameUnit(r, o)
      /\ r.empty = o.empty /\ r.start = (IF o.start > 1 THEN o.start - 1 ELSE 0)
      /\ (r.pending <=> o.pending \/ (~(o.start > 1) /\ o.empty /\ o.rem > 0))
  BY <1>1, ReaderIs
<1> HIDE DEF r
<1>3. c \in ChipRecs /\ SameDelta(c, r)
  BY <1>2, ClearedIs
<1> HIDE DEF c
<1>4. d \in ChipRecs /\ SameDelta(d, c)
  BY <1>3, DelayedIs
<1> HIDE DEF d
<1>5. t \in ChipRecs /\ SameDelta(t, d)
  BY <1>4, FrameIs
<1> HIDE DEF t
<1>6. SameDelta(t, r)
  BY <1>3, <1>4, <1>5, SameDeltaTrans
<1>7. SameRegs(t, a) /\ SameSample(t, a) /\ t.odd = 1 - a.odd
  BY <1>1, <1>2, <1>6 DEF SameDelta, SameRegs, SameSample
<1>8. t.timer = TickTimer(a) /\ t.bits = TickBits(a)
  BY <1>1, <1>2, <1>6 DEF SameDelta, SameUnit
<1>9. t.empty = o.empty /\ t.pending = r.pending /\ t.start = r.start
  BY <1>2, <1>6 DEF SameDelta, SameReader
<1>10. o.rem = a.rem
  BY <1>1 DEF SameSample
<1>11. t.start = (IF a.start > 1 THEN a.start - 1 ELSE 0)
  BY <1>1, <1>2, <1>9
<1>12. t.pending <=> a.pending \/ (~(a.start > 1) /\ (a.empty \/ Takes(a)) /\ a.rem > 0)
  BY <1>1, <1>2, <1>9, <1>10
<1>13. t.empty <=> a.empty \/ Takes(a)
  BY <1>1, <1>9
<1> QED
  BY <1>0, <1>5, <1>7, <1>8, <1>11, <1>12, <1>13 DEF TickDelta

\* While no write waits and no interrupt is to be cleared the frame counter
\* only counts.
LEMMA TickQuiet ==
  ASSUME NEW a \in ChipRecs, a.delay = 0, ~a.clear
  PROVE  /\ ApuTick(a).delay = 0 /\ ~ApuTick(a).clear /\ ApuTick(a).mode = a.mode
         /\ ApuTick(a).frame <=> a.frame \/ Rings(a)
         /\ ApuTick(a).div = IF Wraps(a) THEN 0 ELSE a.div + 1
<1> DEFINE o == DmcOutput(Toggled(a))
           r == DmcReader(o)
           c == FrameCleared(r)
           d == DelayedWrite(c)
           t == FrameCounter(d)
<1>0. ApuTick(a) = t
  BY TickStages
<1>1. o \in ChipRecs /\ SameRegs(o, a) /\ SameFrame(o, a)
  BY OutputIs
<1> HIDE DEF o
<1>2. r \in ChipRecs /\ SameRegs(r, o) /\ SameFrame(r, o)
  BY <1>1, ReaderIs
<1> HIDE DEF r
<1>3. /\ c \in ChipRecs /\ SameDelta(c, r) /\ c.div = r.div /\ c.mode = r.mode
      /\ c.delay = r.delay
      /\ (c.frame <=> r.frame /\ ~(r.clear /\ r.odd = 1)) /\ (c.clear <=> r.clear /\ ~(r.odd = 1))
  BY <1>2, ClearedIs
<1> HIDE DEF c
<1>4. /\ r.delay = 0 /\ ~r.clear /\ r.div = a.div /\ r.mode = a.mode /\ r.frame = a.frame
      /\ r.inhibit = a.inhibit
  BY <1>1, <1>2 DEF SameFrame, SameRegs
<1>5. /\ c.delay = 0 /\ ~c.clear /\ c.div = a.div /\ c.mode = a.mode /\ (c.frame <=> a.frame)
      /\ c.inhibit = a.inhibit
  BY <1>3, <1>4 DEF SameDelta, SameRegs
<1>6. /\ d \in ChipRecs /\ SameDelta(d, c) /\ d.frame = c.frame /\ d.clear = c.clear
      /\ d.delay = 0 /\ d.mode = c.mode /\ d.div = c.div
  BY <1>3, <1>5, DelayedIs
<1> HIDE DEF d
<1>7. d.inhibit = a.inhibit
  BY <1>5, <1>6 DEF SameDelta, SameRegs
<1>8. /\ t.clear = d.clear /\ t.delay = d.delay /\ t.mode = d.mode
      /\ (t.frame <=> d.frame \/ Rings(d)) /\ t.div = (IF Wraps(d) THEN 0 ELSE d.div + 1)
  BY <1>6, FrameIs
<1>9. (Rings(d) <=> Rings(a)) /\ (Wraps(d) <=> Wraps(a))
  BY <1>5, <1>6, <1>7 DEF Rings, Wraps
<1> QED
  BY <1>0, <1>5, <1>6, <1>8, <1>9

\* Two chips that differ in the sample's reader only do so after a tick.
Twins(x, y) == x.odd = y.odd /\ SameRegs(x, y) /\ SameFrame(x, y) /\ SameUnit(x, y) /\ x.start = y.start

LEMMA TwinsTick ==
  ASSUME NEW x \in ChipRecs, NEW y \in ChipRecs, Twins(x, y)
  PROVE  Twins(ApuTick(x), ApuTick(y))
<1> DEFINE o(a) == DmcOutput(Toggled(a))
           r(a) == DmcReader(o(a))
           c(a) == FrameCleared(r(a))
           d(a) == DelayedWrite(c(a))
           t(a) == FrameCounter(d(a))
<1>0. ApuTick(x) = t(x) /\ ApuTick(y) = t(y)
  BY TickStages
<1>1. /\ o(x) \in ChipRecs /\ SameRegs(o(x), x) /\ SameFrame(o(x), x) /\ o(x).odd = 1 - x.odd
      /\ o(y) \in ChipRecs /\ SameRegs(o(y), y) /\ SameFrame(o(y), y) /\ o(y).odd = 1 - y.odd
  BY OutputIs
<1> HIDE DEF o
<1>2. /\ r(x) \in ChipRecs /\ SameRegs(r(x), o(x)) /\ SameFrame(r(x), o(x)) /\ r(x).odd = o(x).odd
      /\ r(y) \in ChipRecs /\ SameRegs(r(y), o(y)) /\ SameFrame(r(y), o(y)) /\ r(y).odd = o(y).odd
  BY <1>1, ReaderIs
<1> HIDE DEF r
<1>3. SameRegs(r(x), r(y)) /\ SameFrame(r(x), r(y)) /\ r(x).odd = r(y).odd
  BY <1>1, <1>2 DEF Twins, SameRegs, SameFrame
<1>4. /\ c(x) \in ChipRecs /\ SameDelta(c(x), r(x)) /\ c(x).len = r(x).len /\ c(x).div = r(x).div
      /\ c(x).mode = r(x).mode /\ c(x).delay = r(x).delay /\ c(x).frame \in BOOLEAN
      /\ c(x).clear \in BOOLEAN
      /\ (c(x).frame <=> r(x).frame /\ ~(r(x).clear /\ r(x).odd = 1))
      /\ (c(x).clear <=> r(x).clear /\ ~(r(x).odd = 1))
  BY <1>2, ClearedIs DEF ChipRecs
<1>5. /\ c(y) \in ChipRecs /\ SameDelta(c(y), r(y)) /\ c(y).len = r(y).len /\ c(y).div = r(y).div
      /\ c(y).mode = r(y).mode /\ c(y).delay = r(y).delay /\ c(y).frame \in BOOLEAN
      /\ c(y).clear \in BOOLEAN
      /\ (c(y).frame <=> r(y).frame /\ ~(r(y).clear /\ r(y).odd = 1))
      /\ (c(y).clear <=> r(y).clear /\ ~(r(y).odd = 1))
  BY <1>2, ClearedIs DEF ChipRecs
<1> HIDE DEF c
<1>6. SameRegs(c(x), c(y)) /\ SameFrame(c(x), c(y))
  BY <1>3, <1>4, <1>5 DEF SameDelta, SameRegs, SameFrame
<1>7. /\ d(x) \in ChipRecs /\ SameDelta(d(x), c(x)) /\ d(x).frame = c(x).frame
      /\ d(x).clear = c(x).clear
      /\ d(x).delay = (IF c(x).delay > 0 THEN c(x).delay - 1 ELSE 0)
      /\ d(x).mode = (IF c(x).delay = 1 THEN c(x).new ELSE c(x).mode)
      /\ d(x).div = (IF c(x).delay = 1 THEN 0 ELSE c(x).div)
      /\ d(x).len = (IF c(x).delay = 1 /\ c(x).new = 1 THEN Counted(c(x).len, c(x).halt) ELSE c(x).len)
  BY <1>4, DelayedIs
<1>8. /\ d(y) \in ChipRecs /\ SameDelta(d(y), c(y)) /\ d(y).frame = c(y).frame
      /\ d(y).clear = c(y).clear
      /\ d(y).delay = (IF c(y).delay > 0 THEN c(y).delay - 1 ELSE 0)
      /\ d(y).mode = (IF c(y).delay = 1 THEN c(y).new ELSE c(y).mode)
      /\ d(y).div = (IF c(y).delay = 1 THEN 0 ELSE c(y).div)
      /\ d(y).len = (IF c(y).delay = 1 /\ c(y).new = 1 THEN Counted(c(y).len, c(y).halt) ELSE c(y).len)
  BY <1>5, DelayedIs
<1> HIDE DEF d
<1>9. SameRegs(d(x), d(y))
  BY <1>6, <1>7, <1>8 DEF SameDelta, SameRegs
<1>10. SameFrame(d(x), d(y))
  BY <1>6, <1>7, <1>8 DEF SameRegs, SameFrame
<1>11. /\ t(x) \in ChipRecs /\ SameDelta(t(x), d(x)) /\ t(x).clear = d(x).clear
       /\ t(x).delay = d(x).delay /\ t(x).mode = d(x).mode
       /\ (t(x).frame <=> d(x).frame \/ Rings(d(x)))
       /\ t(x).div = (IF Wraps(d(x)) THEN 0 ELSE d(x).div + 1)
       /\ t(x).len = (IF Halves2(d(x)) THEN Counted(d(x).len, d(x).halt) ELSE d(x).len)
  BY <1>7, FrameIs
<1>12. /\ t(y) \in ChipRecs /\ SameDelta(t(y), d(y)) /\ t(y).clear = d(y).clear
       /\ t(y).delay = d(y).delay /\ t(y).mode = d(y).mode
       /\ (t(y).frame <=> d(y).frame \/ Rings(d(y)))
       /\ t(y).div = (IF Wraps(d(y)) THEN 0 ELSE d(y).div + 1)
       /\ t(y).len = (IF Halves2(d(y)) THEN Counted(d(y).len, d(y).halt) ELSE d(y).len)
  BY <1>8, FrameIs
<1> HIDE DEF t
<1>13. /\ (Rings(d(x)) <=> Rings(d(y))) /\ (Wraps(d(x)) <=> Wraps(d(y)))
       /\ (Halves2(d(x)) <=> Halves2(d(y)))
  BY <1>9, <1>10 DEF SameRegs, SameFrame, Rings, Wraps, Halves2
<1>14. t(x).frame \in BOOLEAN /\ t(y).frame \in BOOLEAN
  BY <1>11, <1>12 DEF ChipRecs
<1>15. SameFrame(t(x), t(y))
  BY <1>9, <1>10, <1>11, <1>12, <1>13, <1>14 DEF SameRegs, SameFrame
<1>16. SameRegs(t(x), t(y))
  BY <1>9, <1>11, <1>12 DEF SameDelta, SameRegs
<1>17. TickDelta(ApuTick(x), x) /\ TickDelta(ApuTick(y), y)
  BY TickTyped
<1>18. /\ ApuTick(x).odd = ApuTick(y).odd /\ SameUnit(ApuTick(x), ApuTick(y))
       /\ ApuTick(x).start = ApuTick(y).start
  BY <1>17 DEF TickDelta, Twins, SameUnit, TickTimer, TickBits
<1> QED
  BY <1>0, <1>15, <1>16, <1>18 DEF Twins

\* The function that ApuRun chooses.
IsRun(f, a, n) == f = [k \in 0..n |-> IF k = 0 THEN a ELSE ApuTick(f[k - 1])]

LEMMA RunChosen ==
  ASSUME NEW a, NEW n \in Nat
  PROVE  ApuRun(a, n) = (CHOOSE f : IsRun(f, a, n))[n]
BY DEF ApuRun, IsRun

LEMMA RunExists ==
  ASSUME NEW a, NEW n \in Nat
  PROVE  \E f : IsRun(f, a, n)
<1> DEFINE S == {m \in Nat : ~(\E f : IsRun(f, a, m))}
<1> SUFFICES ASSUME S # {} PROVE FALSE
  OBVIOUS
<1>1. PICK m \in S : \A k \in S : m <= k
  BY LeastNatural
<1>2. m # 0
  <2>1. IsRun([k \in 0..0 |-> a], a, 0)
    BY DEF IsRun
  <2> QED
    BY <2>1
<1>3. m - 1 \in Nat /\ m - 1 \notin S
  BY <1>1, <1>2
<1>4. PICK g : IsRun(g, a, m - 1)
  BY <1>3
<1> DEFINE h == [k \in 0..m |-> IF k = 0 THEN a ELSE ApuTick(g[k - 1])]
<1>5. \A k \in 0..m - 1 : g[k] = IF k = 0 THEN a ELSE ApuTick(g[k - 1])
  BY <1>4 DEF IsRun
<1>6. \A k \in 0..m - 1 : h[k] = g[k]
  BY <1>3, <1>5
<1>7. \A k \in 0..m : k # 0 => h[k - 1] = g[k - 1]
  BY <1>3, <1>6
<1>8. IsRun(h, a, m)
  BY <1>7 DEF IsRun
<1> QED
  BY <1>1, <1>8

LEMMA RunsAgree ==
  ASSUME NEW a, NEW n \in Nat, NEW f, IsRun(f, a, n), NEW g, IsRun(g, a, n + 1)
  PROVE  f[n] = g[n]
<1> DEFINE S == {m \in 0..n : f[m] # g[m]}
<1> SUFFICES ASSUME S # {} PROVE FALSE
  OBVIOUS
<1>1. S \in SUBSET Nat
  OBVIOUS
<1>2. PICK m \in S : \A k \in S : m <= k
  BY <1>1, LeastNatural
<1>3. f[m] = (IF m = 0 THEN a ELSE ApuTick(f[m - 1])) /\ g[m] = (IF m = 0 THEN a ELSE ApuTick(g[m - 1]))
  BY <1>2 DEF IsRun
<1>4. m # 0 => m - 1 \in 0..n /\ m - 1 \notin S
  BY <1>2
<1> QED
  BY <1>2, <1>3, <1>4

\* ApuRun runs the chip cycle by cycle.
LEMMA RunSteps ==
  ASSUME NEW a, NEW n \in Nat
  PROVE  ApuRun(a, 0) = a /\ ApuRun(a, n + 1) = ApuTick(ApuRun(a, n))
<1> DEFINE f(m) == CHOOSE f : IsRun(f, a, m)
<1>1. IsRun(f(0), a, 0) /\ IsRun(f(n), a, n) /\ IsRun(f(n + 1), a, n + 1)
  BY RunExists
<1>2. ApuRun(a, 0) = f(0)[0] /\ ApuRun(a, n) = f(n)[n] /\ ApuRun(a, n + 1) = f(n + 1)[n + 1]
  BY RunChosen
<1> HIDE DEF f
<1>3. f(0)[0] = a
  BY <1>1 DEF IsRun
<1>4. f(n + 1)[n + 1] = ApuTick(f(n + 1)[n])
  BY <1>1 DEF IsRun
<1>5. f(n)[n] = f(n + 1)[n]
  BY <1>1, RunsAgree
<1> QED
  BY <1>2, <1>3, <1>4, <1>5

\* A chip whose request for DMA is for a sample's next byte, and that has no
\* request to withdraw.
ChipOk(a) ==
  /\ a \in ChipRecs /\ ~a.abort
  /\ a.pending => a.empty /\ a.rem > 0 /\ a.start = 0

LEMMA ResetOk == ChipOk(ApuReset)
<1>1. ApuReset \in ChipRecs
  BY ApuSizes DEF ApuReset, ChipRecs
<1>2. ~ApuReset.abort /\ ~ApuReset.pending
  BY DEF ApuReset
<1> QED
  BY <1>1, <1>2 DEF ChipOk

LEMMA TickOk == \A a : ChipOk(a) => ChipOk(ApuTick(a))
<1> SUFFICES ASSUME NEW a, ChipOk(a) PROVE ChipOk(ApuTick(a))
  OBVIOUS
<1>1. a \in ChipRecs /\ ~a.abort /\ (a.pending => a.empty /\ a.rem > 0 /\ a.start = 0)
  BY DEF ChipOk
<1>2. ApuTick(a) \in ChipRecs /\ TickDelta(ApuTick(a), a)
  BY <1>1, TickTyped
<1>3. a.start \in Nat
  BY <1>1 DEF ChipRecs
<1>4. ApuTick(a).abort = a.abort
  BY <1>2 DEF TickDelta, SameRegs
<1>5. ApuTick(a).pending => ApuTick(a).empty /\ ApuTick(a).rem > 0 /\ ApuTick(a).start = 0
  BY <1>1, <1>2, <1>3 DEF TickDelta, SameSample
<1> QED
  BY <1>1, <1>2, <1>4, <1>5 DEF ChipOk

\* How long nothing can be seen of it: ApuUntilEvent, in its two parts.
FrameDue(a) ==
  IF a.mode = 0 /\ ~a.inhibit
  THEN (IF a.div < ApuSteps.last - 2 THEN ApuSteps.last - 2 - a.div ELSE 1) ELSE Forever
BitsLeft(a) == a.timer + 1 + (a.bits - 1) * DmcHalf
DmcDue(a) ==
  IF a.empty /\ a.rem > 0 /\ ~a.pending THEN 0
  ELSE IF ~a.empty /\ a.rem > 0 THEN 2 * BitsLeft(a) - a.odd - 1 ELSE Forever

LEMMA UntilIs ==
  ASSUME NEW a
  PROVE  ApuUntilEvent(a) = IF a.delay > 0 \/ a.clear \/ a.start > 0 THEN 0
                            ELSE IF DmcDue(a) < FrameDue(a) THEN DmcDue(a) ELSE FrameDue(a)
<1>1. DmcDue(a) = CASE a.empty /\ a.rem > 0 /\ ~a.pending -> 0
                    [] ~a.empty /\ a.rem > 0 -> 2 * BitsLeft(a) - a.odd - 1
                    [] OTHER -> Forever
  BY Zenon DEF DmcDue
<1> HIDE DEF DmcDue
<1> QED
  BY <1>1, Zenon DEF ApuUntilEvent, FrameDue, BitsLeft

LEMMA BitsLeftTick ==
  ASSUME NEW a \in ChipRecs
  PROVE  /\ BitsLeft(a) \in Nat \ {0}
         /\ a.odd = 0 => BitsLeft(ApuTick(a)) = BitsLeft(a)
         /\ a.odd = 1 /\ BitsLeft(a) > 1 => /\ ~Takes(a)
                                            /\ BitsLeft(ApuTick(a)) = BitsLeft(a) - 1
<1> DEFINE h == DmcHalf
           b == a.bits
<1>1. a.odd \in {0, 1} /\ a.timer \in Nat /\ b \in Nat \ {0} /\ h \in Nat \ {0}
  BY ApuSizes DEF ChipRecs
<1>2. ApuTick(a).timer = TickTimer(a) /\ ApuTick(a).bits = TickBits(a)
  BY TickTyped DEF TickDelta
<1> DEFINE p == (b - 1) * h
           q == (b - 2) * h
<1>3. p \in Nat /\ q \in Int /\ p = q + h
  <2>1. \A x, y \in Nat : x * y \in Nat
    OBVIOUS
  <2>2. b - 1 \in Nat
    BY <1>1
  <2>3. p \in Nat
    BY <1>1, <2>1, <2>2
  <2>4. \A x, y \in Int : (x - 1) * y = (x - 2) * y + y /\ (x - 2) * y \in Int
    OBVIOUS
  <2> QED
    BY <1>1, <2>3, <2>4
<1>4. BitsLeft(a) = a.timer + 1 + p
  BY DEF BitsLeft
<1>5. b = 1 => p = 0
  BY <1>1
<1>6. BitsLeft(ApuTick(a)) = ApuTick(a).timer + 1 + (ApuTick(a).bits - 1) * h
  BY DEF BitsLeft
<1>7. CASE a.odd = 0
  <2>1. ApuTick(a).timer = a.timer /\ ApuTick(a).bits = b
    BY <1>2, <1>7 DEF TickTimer, TickBits
  <2>2. BitsLeft(ApuTick(a)) = BitsLeft(a)
    BY <1>4, <1>6, <2>1
  <2> HIDE DEF p
  <2> QED
    BY <1>1, <1>3, <1>4, <1>7, <2>2
<1>8. CASE a.odd = 1 /\ a.timer > 0
  <2>1. ApuTick(a).timer = a.timer - 1 /\ ApuTick(a).bits = b /\ ~Takes(a)
    BY <1>1, <1>2, <1>8 DEF TickTimer, TickBits, Takes
  <2>2. BitsLeft(ApuTick(a)) = a.timer - 1 + 1 + p
    BY <1>6, <2>1
  <2> HIDE DEF p, b, h
  <2>3. BitsLeft(a) \in Nat \ {0} /\ BitsLeft(ApuTick(a)) = BitsLeft(a) - 1
    BY <1>1, <1>3, <1>4, <1>8, <2>2
  <2> QED
    BY <1>8, <2>1, <2>3
<1>9. CASE a.odd = 1 /\ a.timer = 0 /\ b > 1
  <2>1. ApuTick(a).timer = h - 1 /\ ApuTick(a).bits = b - 1 /\ ~Takes(a)
    BY <1>1, <1>2, <1>9 DEF TickTimer, TickBits, Takes
  <2>2. ApuTick(a).bits - 1 = b - 2
    BY <1>1, <2>1
  <2>3. BitsLeft(ApuTick(a)) = h - 1 + 1 + q
    BY <1>6, <2>1, <2>2
  <2> HIDE DEF p, q
  <2> QED
    BY <1>1, <1>3, <1>4, <1>9, <2>1, <2>3
<1>10. CASE a.odd = 1 /\ a.timer = 0 /\ b = 1
  <2>1. BitsLeft(a) = 1
    BY <1>4, <1>5, <1>10
  <2> QED
    BY <1>10, <2>1
<1> QED
  BY <1>1, <1>7, <1>8, <1>9, <1>10

\* A tick before the time ApuUntilEvent gives shows nothing, and the time left
\* is shorter by no more than that tick.
LEMMA QuietTick ==
  ASSUME NEW a, ChipOk(a), ApuUntilEvent(a) >= 2
  PROVE  /\ ApuIrq(ApuTick(a)) <=> ApuIrq(a)
         /\ ApuTick(a).pending <=> a.pending
         /\ ApuUntilEvent(ApuTick(a)) >= ApuUntilEvent(a) - 1
         /\ ApuUntilEvent(a) \in Int /\ ApuUntilEvent(ApuTick(a)) \in Int
<1> DEFINE t == ApuTick(a)
<1>1. a \in ChipRecs /\ t \in ChipRecs /\ TickDelta(t, a)
  BY TickTyped DEF ChipOk
<1>2. /\ a.odd \in {0, 1} /\ a.start \in Nat /\ a.delay \in Nat /\ a.clear \in BOOLEAN
      /\ a.div \in Nat /\ a.mode \in {0, 1} /\ a.inhibit \in BOOLEAN /\ a.rem \in Nat
      /\ a.empty \in BOOLEAN /\ a.pending \in BOOLEAN /\ a.frame \in BOOLEAN /\ a.dmc \in BOOLEAN
  BY <1>1 DEF ChipRecs
<1>3. ApuSteps.last \in Nat /\ ApuSteps.full5 \in Nat
  BY ApuSizes
<1>4. /\ a.delay = 0 /\ ~a.clear /\ a.start = 0
      /\ ApuUntilEvent(a) = IF DmcDue(a) < FrameDue(a) THEN DmcDue(a) ELSE FrameDue(a)
  BY <1>2, UntilIs
<1>5. BitsLeft(a) \in Nat \ {0} /\ BitsLeft(t) \in Nat \ {0}
  BY <1>1, BitsLeftTick
<1>6. DmcDue(a) \in Int /\ FrameDue(a) \in Int
  BY <1>2, <1>3, <1>5 DEF DmcDue, FrameDue, Forever
<1>7. DmcDue(a) >= 2 /\ FrameDue(a) >= 2
  BY <1>4, <1>6
<1>8. /\ t.delay = 0 /\ ~t.clear /\ t.mode = a.mode /\ (t.frame <=> a.frame \/ Rings(a))
      /\ t.div = IF Wraps(a) THEN 0 ELSE a.div + 1
  BY <1>1, <1>4, TickQuiet
<1>9. /\ t.odd = 1 - a.odd /\ t.inhibit = a.inhibit /\ t.rem = a.rem /\ t.dmc = a.dmc
      /\ (t.empty <=> a.empty \/ Takes(a)) /\ t.start = 0
      /\ (t.pending <=> a.pending \/ ((a.empty \/ Takes(a)) /\ a.rem > 0))
  BY <1>1, <1>4 DEF TickDelta, SameRegs, SameSample
<1>10. t.odd \in {0, 1} /\ t.empty \in BOOLEAN /\ t.pending \in BOOLEAN /\ t.frame \in BOOLEAN
  BY <1>1 DEF ChipRecs
<1>11. ~Rings(a) /\ FrameDue(t) >= FrameDue(a) - 1 /\ FrameDue(t) \in Int
  <2>1. CASE a.mode = 0 /\ ~a.inhibit
    <3>1. a.div < ApuSteps.last - 2 /\ FrameDue(a) = ApuSteps.last - 2 - a.div /\ FrameDue(a) >= 2
      BY <1>2, <1>3, <1>7, <2>1 DEF FrameDue
    <3>2. ~Rings(a) /\ ~Wraps(a)
      BY <1>2, <1>3, <2>1, <3>1 DEF Rings, Wraps
    <3>3. t.div = a.div + 1 /\ t.mode = 0 /\ ~t.inhibit
      BY <1>8, <1>9, <2>1, <3>2
    <3>4. FrameDue(t) = ApuSteps.last - 2 - (a.div + 1)
      BY <1>2, <1>3, <3>1, <3>3 DEF FrameDue
    <3> QED
      BY <1>2, <1>3, <3>1, <3>2, <3>4
  <2>2. CASE ~(a.mode = 0 /\ ~a.inhibit)
    <3>1. ~Rings(a) /\ FrameDue(a) = 99 /\ FrameDue(t) = 99
      BY <1>8, <1>9, <2>2 DEF Rings, FrameDue, Forever
    <3> QED
      BY <3>1
  <2> QED
    BY <2>1, <2>2
<1>12. (t.pending <=> a.pending) /\ DmcDue(t) >= DmcDue(a) - 1 /\ DmcDue(t) \in Int
  <2>1. CASE ~a.empty /\ a.rem > 0
    <3>1. DmcDue(a) = 2 * BitsLeft(a) - a.odd - 1
      BY <2>1 DEF DmcDue
    <3>2. BitsLeft(a) > 1
      BY <1>2, <1>5, <1>7, <3>1
    <3>3. ~Takes(a)
      BY <1>1, <1>2, <3>2, BitsLeftTick DEF Takes
    <3>4. ~t.empty /\ t.rem > 0 /\ (t.pending <=> a.pending)
      BY <1>2, <1>9, <1>10, <2>1, <3>3
    <3>5. DmcDue(t) = 2 * BitsLeft(t) - t.odd - 1
      BY <3>4 DEF DmcDue
    <3>6. CASE a.odd = 0
      <4>1. BitsLeft(t) = BitsLeft(a) /\ t.odd = 1
        BY <1>1, <1>9, <3>6, BitsLeftTick
      <4> QED
        BY <1>5, <3>1, <3>4, <3>5, <3>6, <4>1
    <3>7. CASE a.odd = 1
      <4>1. BitsLeft(t) = BitsLeft(a) - 1 /\ t.odd = 0
        BY <1>1, <1>9, <3>2, <3>7, BitsLeftTick
      <4> QED
        BY <1>5, <3>1, <3>4, <3>5, <3>7, <4>1
    <3> QED
      BY <1>2, <3>6, <3>7
  <2>2. CASE ~(~a.empty /\ a.rem > 0)
    <3>1. DmcDue(a) = 99 /\ (a.empty /\ a.rem > 0 => a.pending)
      BY <1>7, <2>2 DEF DmcDue, Forever
    <3>2. t.pending <=> a.pending
      BY <1>9, <1>10, <1>2, <2>2, <3>1
    <3>3. DmcDue(t) = 99
      BY <1>2, <1>9, <1>10, <2>2, <3>1, <3>2 DEF DmcDue, Forever
    <3> QED
      BY <3>1, <3>2, <3>3
  <2> QED
    BY <2>1, <2>2
<1>13. ApuUntilEvent(t) = IF DmcDue(t) < FrameDue(t) THEN DmcDue(t) ELSE FrameDue(t)
  BY <1>8, <1>9, UntilIs
<1>14. ApuUntilEvent(t) >= ApuUntilEvent(a) - 1 /\ ApuUntilEvent(a) \in Int /\ ApuUntilEvent(t) \in Int
  BY <1>4, <1>6, <1>11, <1>12, <1>13
<1>15. ApuIrq(t) <=> ApuIrq(a)
  BY <1>8, <1>9, <1>10, <1>11 DEF ApuIrq
<1> QED
  BY <1>12, <1>14, <1>15

LEMMA UntilInt == \A a \in ChipRecs : ApuUntilEvent(a) \in Int
<1> SUFFICES ASSUME NEW a \in ChipRecs PROVE ApuUntilEvent(a) \in Int
  OBVIOUS
<1>1. /\ a.odd \in {0, 1} /\ a.div \in Nat /\ ApuSteps.last \in Nat /\ BitsLeft(a) \in Nat
  BY ApuSizes, BitsLeftTick DEF ChipRecs
<1>2. DmcDue(a) \in Int /\ FrameDue(a) \in Int
  BY <1>1 DEF DmcDue, FrameDue, Forever
<1> QED
  BY <1>2, UntilIs

\* Chips that agree in every field are equal.
LEMMA SameChip ==
  ASSUME NEW x \in ChipRecs, NEW y \in ChipRecs, Twins(x, y), SameSample(x, y),
         x.empty <=> y.empty, x.pending <=> y.pending
  PROVE  x = y
<1>1. x.empty \in BOOLEAN /\ y.empty \in BOOLEAN /\ x.pending \in BOOLEAN /\ y.pending \in BOOLEAN
  BY DEF ChipRecs
<1>2. x.empty = y.empty /\ x.pending = y.pending
  BY <1>1
<1> QED
  BY <1>2 DEF ChipRecs, Twins, SameRegs, SameFrame, SameUnit, SameSample

\* The byte that the DMA fetched arrives at a chip that asked for it.
FilledRem(a) == IF a.rem = 1 /\ a.loop THEN DmcBytes ELSE a.rem - 1
FilledIrq(a) == a.dmc \/ (a.rem = 1 /\ ~a.loop /\ a.irqOn)

LEMMA FillIs ==
  ASSUME NEW a \in ChipRecs, a.rem > 0
  PROVE  /\ DmcFill(a) \in ChipRecs /\ Twins(DmcFill(a), a)
         /\ ~DmcFill(a).empty /\ ~DmcFill(a).pending
         /\ DmcFill(a).rem = FilledRem(a) /\ (DmcFill(a).dmc <=> FilledIrq(a))
<1> DEFINE rem == FilledRem(a)
           rings == FilledIrq(a)
           b == [a EXCEPT !.pending = FALSE]
<1>1. a.rem \in Nat \ {0} /\ a.dmc \in BOOLEAN /\ a.irqOn \in BOOLEAN /\ a.loop \in BOOLEAN
  BY DEF ChipRecs
<1>2. rem \in Nat /\ rings \in BOOLEAN
  BY <1>1, ApuSizes DEF FilledRem, FilledIrq
<1>3. b.rem = a.rem /\ b.dmc = a.dmc
  BY DEF ChipRecs
<1>4. DmcFill(a) = [b EXCEPT !.empty = FALSE, !.rem = rem, !.dmc = rings]
  BY <1>1, <1>3 DEF DmcFill, FilledRem, FilledIrq
<1> HIDE DEF rem, rings
<1>5. DmcFill(a) = [a EXCEPT !.pending = FALSE, !.empty = FALSE, !.rem = rem, !.dmc = rings]
  BY <1>4 DEF ChipRecs
<1>6. /\ DmcFill(a) \in ChipRecs /\ ~DmcFill(a).empty /\ ~DmcFill(a).pending
      /\ DmcFill(a).rem = rem /\ (DmcFill(a).dmc <=> rings)
  BY <1>2, <1>5 DEF ChipRecs
<1>7. Twins(DmcFill(a), a)
  BY <1>5 DEF ChipRecs, Twins, SameRegs, SameFrame, SameUnit
<1> QED
  BY <1>6, <1>7 DEF rem, rings

\* A byte that arrives a few cycles before the chip is brought up to date: it
\* is as if it came now, or else the output unit took it in the meantime and
\* the chip has asked for the next one.
Overtaken(x) == [DmcFill(x) EXCEPT !.empty = TRUE, !.pending = DmcFill(x).rem > 0]

\* Half cycles since the output unit came to the end of its bits.
Since(x) == 2 * (DmcHalf - 1 - x.timer) + x.odd

\* A chip x that waits for its byte, and y that had it n cycles ago.
Beside(x, y, n) ==
  /\ x \in ChipRecs /\ y \in ChipRecs /\ Twins(y, x)
  /\ x.start = 0 /\ x.pending /\ x.empty /\ x.rem > 0
  /\ y.rem = FilledRem(x) /\ (y.dmc <=> FilledIrq(x))
  /\ \/ ~y.empty /\ ~y.pending
     \/ /\ y.empty /\ (y.pending <=> y.rem > 0)
        /\ x.bits = DmcBits /\ x.timer < DmcHalf /\ Since(x) + 1 <= n

LEMMA BesideStart ==
  ASSUME NEW x, ChipOk(x), x.pending
  PROVE  Beside(x, DmcFill(x), 0)
<1>1. x \in ChipRecs /\ x.start = 0 /\ x.empty /\ x.rem > 0
  BY DEF ChipOk
<1> QED
  BY <1>1, FillIs DEF Beside

LEMMA BesideTick ==
  ASSUME NEW x, NEW y, NEW n \in 0..5, Beside(x, y, n)
  PROVE  Beside(ApuTick(x), ApuTick(y), n + 1)
<1> DEFINE u == ApuTick(x)
           v == ApuTick(y)
<1>1. /\ x \in ChipRecs /\ y \in ChipRecs /\ Twins(y, x)
      /\ x.start = 0 /\ x.pending /\ x.empty /\ x.rem > 0
      /\ y.rem = FilledRem(x) /\ (y.dmc <=> FilledIrq(x))
  BY DEF Beside
<1>2. u \in ChipRecs /\ v \in ChipRecs /\ TickDelta(u, x) /\ TickDelta(v, y) /\ Twins(v, u)
  BY <1>1, TickTyped, TwinsTick
<1>3. y.odd = x.odd /\ y.timer = x.timer /\ y.bits = x.bits /\ y.start = 0
  BY <1>1 DEF Twins, SameUnit
<1>4. Takes(y) <=> Takes(x)
  BY <1>3 DEF Takes
<1>5. u.start = 0 /\ u.pending /\ u.empty /\ u.rem = x.rem
  BY <1>1, <1>2 DEF TickDelta, SameSample
<1>6. u.loop = x.loop /\ u.irqOn = x.irqOn /\ u.dmc = x.dmc
  BY <1>2 DEF TickDelta, SameSample, SameRegs
<1>7. v.rem = FilledRem(u) /\ (v.dmc <=> FilledIrq(u))
  BY <1>1, <1>2, <1>5, <1>6 DEF TickDelta, SameSample, FilledRem, FilledIrq
<1>8. /\ v.empty <=> y.empty \/ Takes(x)
      /\ v.pending <=> y.pending \/ ((y.empty \/ Takes(x)) /\ y.rem > 0)
      /\ v.rem = y.rem
  BY <1>2, <1>3, <1>4 DEF TickDelta, SameSample
<1>9. x.odd \in {0, 1} /\ x.timer \in Nat /\ x.bits \in Nat \ {0} /\ DmcHalf \in Nat /\ DmcHalf >= 3
  BY <1>1, ApuSizes DEF ChipRecs
<1>10. u.odd = 1 - x.odd /\ u.timer = TickTimer(x) /\ u.bits = TickBits(x)
  BY <1>2 DEF TickDelta
<1>11. /\ y.empty \in BOOLEAN /\ y.pending \in BOOLEAN /\ v.empty \in BOOLEAN /\ v.pending \in BOOLEAN
       /\ y.rem \in Nat
  BY <1>1, <1>2 DEF ChipRecs
<1> DEFINE new == /\ v.empty /\ (v.pending <=> v.rem > 0)
                  /\ u.bits = DmcBits /\ u.timer < DmcHalf /\ Since(u) + 1 <= n + 1
<1>12. CASE ~y.empty /\ ~y.pending /\ ~Takes(x)
  <2>1. ~v.empty /\ ~v.pending
    BY <1>8, <1>11, <1>12
  <2> QED
    BY <1>1, <1>2, <1>5, <1>7, <2>1 DEF Beside
<1>13. CASE ~y.empty /\ ~y.pending /\ Takes(x)
  <2>1. v.empty /\ (v.pending <=> v.rem > 0)
    BY <1>8, <1>11, <1>13
  <2>2. x.odd = 1 /\ x.timer = 0 /\ x.bits = 1
    BY <1>13 DEF Takes
  <2>3. u.odd = 0 /\ u.timer = DmcHalf - 1 /\ u.bits = DmcBits
    BY <1>9, <1>10, <2>2 DEF TickTimer, TickBits
  <2>4. u.timer < DmcHalf /\ Since(u) + 1 <= n + 1
    BY <1>9, <2>3 DEF Since
  <2> QED
    BY <1>1, <1>2, <1>5, <1>7, <2>1, <2>3, <2>4 DEF Beside
<1>14. CASE y.empty /\ (y.pending <=> y.rem > 0) /\ x.bits = DmcBits /\ x.timer < DmcHalf /\ Since(x) + 1 <= n
  <2>1. 2 * (DmcHalf - 1 - x.timer) + x.odd + 1 <= 5
    BY <1>9, <1>14 DEF Since
  <2>2. x.odd = 0 \/ x.timer > 0
    BY <1>9, <2>1
  <2>3. u.bits = DmcBits /\ u.timer = IF x.odd = 0 THEN x.timer ELSE x.timer - 1
    BY <1>9, <1>10, <1>14, <2>2 DEF TickTimer, TickBits
  <2>4. u.timer < DmcHalf
    BY <1>9, <1>14, <2>3
  <2>5. Since(u) = Since(x) + 1
    <3>1. CASE x.odd = 0
      BY <1>9, <1>10, <2>3, <3>1 DEF Since
    <3>2. CASE x.odd = 1
      BY <1>9, <1>10, <2>3, <3>2 DEF Since
    <3> QED
      BY <1>9, <3>1, <3>2
  <2>6. Since(x) \in Int
    BY <1>9 DEF Since
  <2>7. Since(u) + 1 <= n + 1
    BY <1>14, <2>5, <2>6
  <2>8. v.empty /\ (v.pending <=> v.rem > 0)
    BY <1>8, <1>11, <1>14
  <2> QED
    BY <1>1, <1>2, <1>5, <1>7, <2>3, <2>4, <2>7, <2>8 DEF Beside
<1> QED
  BY <1>12, <1>13, <1>14 DEF Beside

LEMMA BesideIs ==
  ASSUME NEW x, NEW y, NEW n, Beside(x, y, n)
  PROVE  y = DmcFill(x) \/ (x.pending /\ x.bits = DmcBits /\ y = Overtaken(x))
<1>1. /\ x \in ChipRecs /\ y \in ChipRecs /\ Twins(y, x) /\ x.pending /\ x.rem > 0
      /\ y.rem = FilledRem(x) /\ (y.dmc <=> FilledIrq(x))
  BY DEF Beside
<1> DEFINE f == DmcFill(x)
<1>2. f \in ChipRecs /\ Twins(f, x) /\ ~f.empty /\ ~f.pending /\ f.rem = FilledRem(x)
      /\ (f.dmc <=> FilledIrq(x))
  BY <1>1, FillIs
<1>3. Twins(y, f)
  BY <1>1, <1>2 DEF Twins, SameRegs, SameFrame, SameUnit
<1>4. SameSample(y, f)
  BY <1>1, <1>2 DEF SameSample, ChipRecs
<1>5. CASE ~y.empty /\ ~y.pending
  BY <1>1, <1>2, <1>3, <1>4, <1>5, SameChip
<1>6. CASE y.empty /\ (y.pending <=> y.rem > 0) /\ x.bits = DmcBits
  <2> DEFINE more == f.rem > 0
             g == [f EXCEPT !.empty = TRUE, !.pending = more]
  <2>1. f.rem \in Nat /\ more \in BOOLEAN
    BY <1>2 DEF ChipRecs
  <2>2. Overtaken(x) = g
    BY DEF Overtaken
  <2> HIDE DEF f
  <2>3. y.rem = f.rem
    BY <1>4 DEF SameSample
  <2>7. y.pending <=> more
    BY <1>6, <2>3
  <2> HIDE DEF more
  <2>4. g \in ChipRecs /\ g.empty /\ (g.pending <=> more)
    BY <1>2, <2>1 DEF ChipRecs
  <2>5. Twins(y, g) /\ SameSample(y, g)
    BY <1>2, <1>3, <1>4 DEF ChipRecs, Twins, SameRegs, SameFrame, SameUnit, SameSample
  <2> HIDE DEF g
  <2>6. y = g
    BY <1>1, <1>6, <2>4, <2>5, <2>7, SameChip
  <2> QED
    BY <1>1, <1>6, <2>2, <2>6
<1> QED
  BY <1>5, <1>6 DEF Beside

\* ... and so is what the chip becomes when it is brought up to date.
LEMMA FilledRun ==
  ASSUME NEW a, ChipOk(a), a.pending, NEW n \in 0..6
  PROVE  Beside(ApuRun(a, n), ApuRun(DmcFill(a), n), n)
<1> DEFINE B(k) == Beside(ApuRun(a, k), ApuRun(DmcFill(a), k), k)
<1>1. B(0)
  BY BesideStart, RunSteps
<1>2. \A k \in 0..5 : B(k) => B(k + 1)
  <2> SUFFICES ASSUME NEW k \in 0..5, B(k) PROVE B(k + 1)
    OBVIOUS
  <2>1. k \in Nat
    OBVIOUS
  <2>2. /\ ApuRun(a, k + 1) = ApuTick(ApuRun(a, k))
        /\ ApuRun(DmcFill(a), k + 1) = ApuTick(ApuRun(DmcFill(a), k))
    BY <2>1, RunSteps
  <2> QED
    BY <2>2, BesideTick
<1> HIDE DEF B
<1>3. B(1)
  BY <1>1, <1>2
<1>4. B(2)
  BY <1>2, <1>3
<1>5. B(3)
  BY <1>2, <1>4
<1>6. B(4)
  BY <1>2, <1>5
<1>7. B(5)
  BY <1>2, <1>6
<1>8. B(6)
  BY <1>2, <1>7
<1>9. B(n)
  BY <1>1, <1>3, <1>4, <1>5, <1>6, <1>7, <1>8
<1> QED
  BY <1>9 DEF B

----------------------------------------------------------------------------
(***************************************************************************)
(* The bus of the NES: the lagging chip is in touch with the one that runs *)
(* along.                                                                  *)
(***************************************************************************)

\* The flags of the DMAs.
FlagRecs == [halt : BOOLEAN, dmc : BOOLEAN, dummy : BOOLEAN, abort : BOOLEAN, oam : BOOLEAN, n : Nat]

\* A chip a that was brought up to date `lag' cycles ago and is due after
\* `until', with `line' at the processor and the flags `asked' of the
\* delta channel's DMA: now it would be `now', and nothing of it is missed.
InTouch(a, lag, until, line, asked, now) ==
  /\ ChipOk(a) /\ lag \in Nat /\ until \in Int /\ line \in BOOLEAN
  /\ ChipOk(now) /\ now = ApuRun(a, lag)
  /\ asked <=> a.pending
  /\ until > lag + 1 => /\ ApuUntilEvent(now) >= until - lag
                        /\ (line <=> ApuIrq(now)) /\ (asked <=> now.pending)


\* The flags once a request of the chip is noticed.
Noticed(d, asks) == IF asks /\ ~d.dmc THEN [d EXCEPT !.dmc = TRUE, !.dummy = TRUE, !.halt = TRUE] ELSE d

LEMMA NoticedIs ==
  ASSUME NEW d \in FlagRecs, NEW asks \in BOOLEAN, NEW r, r = Noticed(d, asks)
  PROVE  /\ r \in FlagRecs /\ (r.dmc <=> d.dmc \/ asks)
         /\ r.abort = d.abort /\ r.oam = d.oam /\ r.n = d.n
         /\ (r = d /\ (asks => d.dmc)) \/ (r.dmc /\ r.dummy /\ r.halt /\ asks /\ ~d.dmc)
<1>1. CASE asks /\ ~d.dmc
  <2>1. r = [d EXCEPT !.dmc = TRUE, !.dummy = TRUE, !.halt = TRUE]
    BY <1>1 DEF Noticed
  <2> QED
    BY <1>1, <2>1 DEF FlagRecs
<1>2. CASE ~(asks /\ ~d.dmc)
  BY <1>2 DEF Noticed, FlagRecs
<1> QED
  BY <1>1, <1>2

\* A check of a chip without a request to withdraw only notices.
LEMMA CheckIs ==
  ASSUME NEW a, ChipOk(a), NEW d, NEW in
  PROVE  DmaCheck(a, d, in) = <<a, Noticed(d, a.pending)>>
<1>1. a \in ChipRecs /\ a.abort = FALSE
  BY DEF ChipOk, ChipRecs
<1>2. [a EXCEPT !.abort = FALSE] = a
  BY <1>1 DEF ChipRecs
<1>3. DmaCheck(a, d, in)[1] = [a EXCEPT !.abort = FALSE] /\ DmaCheck(a, d, in)[2] = Noticed(d, a.pending)
      /\ DmaCheck(a, d, in) = <<DmaCheck(a, d, in)[1], DmaCheck(a, d, in)[2]>>
  BY <1>1 DEF DmaCheck, Noticed
<1> QED
  BY <1>2, <1>3

\* nes_sync_all, with the flags and the halt it finds.
SyncOf(d, in) ==
  IF behind + 1 >= left
  THEN LET c == DmaCheck(ApuRun(apu, behind + 1), d, in)
       IN  [apu |-> c[1], behind |-> 0, left |-> ApuUntilEvent(c[1]), irq |-> ApuIrq(c[1]), dma |-> c[2]]
  ELSE [apu |-> apu, behind |-> behind + 1, left |-> left, irq |-> irqLine, dma |-> d]

\* A request stays until its byte arrives.
LEMMA PendingStays ==
  ASSUME NEW a, ChipOk(a), NEW n \in Nat, a.pending
  PROVE  ChipOk(ApuRun(a, n)) /\ ApuRun(a, n).pending
<1> DEFINE S == {m \in Nat : ~(ChipOk(ApuRun(a, m)) /\ ApuRun(a, m).pending)}
<1> SUFFICES ASSUME S # {} PROVE FALSE
  OBVIOUS
<1>1. PICK m \in S : \A k \in S : m <= k
  BY LeastNatural
<1>2. m # 0
  BY <1>1, RunSteps
<1> DEFINE k == m - 1
<1>3. k \in Nat /\ k \notin S /\ m = k + 1
  BY <1>1, <1>2
<1>4. ChipOk(ApuRun(a, k)) /\ ApuRun(a, k).pending
  BY <1>3
<1>5. ApuRun(a, m) = ApuTick(ApuRun(a, k))
  BY <1>3, RunSteps
<1> HIDE DEF k
<1>6. ChipOk(ApuRun(a, m))
  BY <1>4, <1>5, TickOk
<1>7. ApuRun(a, m).pending
  BY <1>4, <1>5, TickTyped DEF ChipOk, TickDelta
<1> QED
  BY <1>1, <1>6, <1>7

\* What it leaves: the chip in touch with its next cycle, and the flags as
\* they were or with a new request.
Follows(s, d) ==
  /\ InTouch(s.apu, s.behind, s.left, s.irq, s.dma.dmc, ApuTick(along))
  /\ s.dma \in FlagRecs /\ s.dma.abort = d.abort /\ s.dma.oam = d.oam /\ s.dma.n = d.n
  /\ (s.irq <=> ApuIrq(ApuTick(along))) /\ (s.dma.dmc <=> ApuTick(along).pending)
  /\ \/ s.dma = d /\ (s.behind = 0 \/ s.behind = behind + 1)
     \/ s.dma.dmc /\ s.dma.dummy /\ s.dma.halt /\ ~d.dmc /\ s.behind = 0

LEMMA SyncFollows ==
  ASSUME InTouch(apu, behind, left, irqLine, dma.dmc, along), dma \in FlagRecs,
         NEW d \in FlagRecs, d.dmc = dma.dmc, NEW in \in BOOLEAN
  PROVE  Follows(SyncOf(d, in), d)
<1> DEFINE t == ApuTick(along)
<1>1. /\ ChipOk(apu) /\ behind \in Nat /\ left \in Int /\ irqLine \in BOOLEAN /\ ChipOk(along)
      /\ along = ApuRun(apu, behind) /\ (dma.dmc <=> apu.pending)
  BY DEF InTouch
<1>2. t = ApuRun(apu, behind + 1)
  BY <1>1, RunSteps
<1>3. ChipOk(t) /\ t \in ChipRecs /\ t.pending \in BOOLEAN /\ ApuUntilEvent(t) \in Int
      /\ ApuIrq(t) \in BOOLEAN
  BY <1>1, TickOk, UntilInt DEF ChipOk, ChipRecs, ApuIrq
<1>4. CASE behind + 1 >= left
  <2> DEFINE f == Noticed(d, t.pending)
             s == [apu |-> t, behind |-> 0, left |-> ApuUntilEvent(t), irq |-> ApuIrq(t), dma |-> f]
  <2>1. SyncOf(d, in) = s
    <3>1. DmaCheck(t, d, in) = <<t, f>>
      BY <1>3, CheckIs
    <3> QED
      BY <1>2, <1>4, <3>1 DEF SyncOf
  <2>2. /\ f \in FlagRecs /\ (f.dmc <=> d.dmc \/ t.pending)
        /\ f.abort = d.abort /\ f.oam = d.oam /\ f.n = d.n
        /\ (f = d /\ (t.pending => d.dmc)) \/ (f.dmc /\ f.dummy /\ f.halt /\ t.pending /\ ~d.dmc)
    BY <1>3, NoticedIs, SMTT(60)
  <2>3. d.dmc => t.pending
    <3>1. TickDelta(t, along)
      BY <1>1, TickTyped DEF ChipOk
    <3>2. apu.pending => along.pending
      BY <1>1, PendingStays
    <3> QED
      BY <1>1, <3>1, <3>2 DEF TickDelta
  <2>4. f.dmc <=> t.pending
    BY <2>2, <2>3
  <2> HIDE DEF f, t
  <2>5. ApuRun(t, 0) = t
    BY RunSteps
  <2>6. InTouch(t, 0, ApuUntilEvent(t), ApuIrq(t), f.dmc, t)
    BY <1>3, <2>4, <2>5 DEF InTouch
  <2>7. Follows(s, d)
    BY <2>2, <2>4, <2>6 DEF Follows, t
  <2> QED
    BY <2>1, <2>7
<1>5. CASE ~(behind + 1 >= left)
  <2>1. SyncOf(d, in) = [apu |-> apu, behind |-> behind + 1, left |-> left, irq |-> irqLine, dma |-> d]
    BY <1>5 DEF SyncOf
  <2>2. left > behind + 1
    BY <1>1, <1>5
  <2>3. ApuUntilEvent(along) >= left - behind /\ (irqLine <=> ApuIrq(along)) /\ (dma.dmc <=> along.pending)
    BY <2>2 DEF InTouch
  <2>4. ApuUntilEvent(along) \in Int
    BY <1>1, UntilInt DEF ChipOk
  <2>5. ApuUntilEvent(along) >= 2
    BY <1>1, <2>2, <2>3, <2>4
  <2>6. /\ (ApuIrq(t) <=> ApuIrq(along)) /\ (t.pending <=> along.pending)
        /\ ApuUntilEvent(t) >= ApuUntilEvent(along) - 1
    BY <1>1, <2>5, QuietTick
  <2> HIDE DEF t
  <2>7. ApuUntilEvent(t) >= left - (behind + 1)
    BY <1>1, <1>3, <2>3, <2>4, <2>6
  <2>8. (irqLine <=> ApuIrq(t)) /\ (d.dmc <=> t.pending)
    BY <2>3, <2>6
  <2>9. InTouch(apu, behind + 1, left, irqLine, d.dmc, t)
    BY <1>1, <1>2, <1>3, <2>7, <2>8 DEF InTouch
  <2> QED
    BY <2>1, <2>8, <2>9 DEF Follows, t
<1> QED
  BY <1>4, <1>5

LEMMA RunOk ==
  ASSUME NEW a, ChipOk(a), NEW n \in Nat
  PROVE  ChipOk(ApuRun(a, n))
<1> DEFINE S == {m \in Nat : ~ChipOk(ApuRun(a, m))}
<1> SUFFICES ASSUME S # {} PROVE FALSE
  OBVIOUS
<1>1. PICK m \in S : \A k \in S : m <= k
  BY LeastNatural
<1>2. m # 0
  BY <1>1, RunSteps
<1> DEFINE k == m - 1
<1>3. k \in Nat /\ k \notin S /\ m = k + 1
  BY <1>1, <1>2
<1>4. ChipOk(ApuRun(a, k))
  BY <1>3
<1>5. ApuRun(a, m) = ApuTick(ApuRun(a, k))
  BY <1>3, RunSteps
<1> HIDE DEF k
<1> QED
  BY <1>1, <1>4, <1>5, TickOk

\* What the program's writes make of a chip t.
LEMMA WriteIs ==
  ASSUME NEW t, ChipOk(t), NEW a \in ApuWrites(t)
  PROVE  /\ [a EXCEPT !.abort = FALSE] \in Eager!EagerAccesses(t)
         /\ ChipOk([a EXCEPT !.abort = FALSE])
         /\ [a EXCEPT !.abort = FALSE].odd = t.odd
         /\ [a EXCEPT !.abort = FALSE].pending = a.pending
         /\ a.pending \in BOOLEAN
         /\ \/ a.abort /\ ~a.pending /\ t.pending
            \/ ~a.abort /\ (a.pending <=> t.pending)
<1>1. t \in ChipRecs /\ t.abort = FALSE
  BY DEF ChipOk, ChipRecs
<1>2. t.pending => t.empty /\ t.rem > 0 /\ t.start = 0
  BY DEF ChipOk
<1>3. t.pending \in BOOLEAN /\ t.odd \in {0, 1} /\ t.rem \in Nat /\ t.start \in Nat
      /\ t.empty \in BOOLEAN
  BY <1>1 DEF ChipRecs
\* A write that leaves the reader alone.
<1> DEFINE Plain(w) == /\ w \in ChipRecs /\ w.abort = FALSE /\ w.pending = t.pending
                       /\ w.odd = t.odd /\ w.empty = t.empty /\ w.rem = t.rem /\ w.start = t.start
<1>4. ASSUME NEW w, Plain(w), w \in Eager!EagerAccesses(t), a = w
      PROVE  /\ [a EXCEPT !.abort = FALSE] \in Eager!EagerAccesses(t)
             /\ ChipOk([a EXCEPT !.abort = FALSE])
             /\ [a EXCEPT !.abort = FALSE].odd = t.odd
             /\ [a EXCEPT !.abort = FALSE].pending = a.pending
             /\ a.pending \in BOOLEAN /\ ~a.abort /\ (a.pending <=> t.pending)
  <2>1. [a EXCEPT !.abort = FALSE] = a
    BY <1>4 DEF ChipRecs
  <2>2. ChipOk(a)
    BY <1>2, <1>4 DEF ChipOk
  <2> QED
    BY <1>3, <1>4, <2>1, <2>2
<1>5. CASE a \in {ApuHalt(t, c, h) : c \in ApuChannels, h \in BOOLEAN}
  <2>1. PICK c \in ApuChannels, h \in BOOLEAN : a = ApuHalt(t, c, h)
    BY <1>5
  <2> DEFINE halt == [t.halt EXCEPT ![c] = h]
  <2>2. halt \in [ApuChannels -> BOOLEAN]
    BY <1>1 DEF ChipRecs
  <2>3. a = [t EXCEPT !.halt = halt]
    BY <2>1 DEF ApuHalt
  <2> HIDE DEF halt
  <2>4. Plain(a)
    BY <1>1, <2>2, <2>3 DEF ChipRecs
  <2>5. a \in Eager!EagerAccesses(t)
    <3>1. a = Eager!ApuHalt(t, c, h)
      BY <2>1 DEF ApuHalt, Eager!ApuHalt
    <3>2. a \in {Eager!ApuHalt(t, d, g) : d \in ApuChannels, g \in BOOLEAN}
      BY <3>1
    <3> QED
      BY <3>2 DEF Eager!EagerAccesses
  <2> QED
    BY <1>4, <2>4, <2>5
<1>6. CASE a \in {ApuLoad(t, c) : c \in ApuChannels}
  <2>1. PICK c \in ApuChannels : a = ApuLoad(t, c)
    BY <1>6
  <2> DEFINE len == IF t.en[c] THEN [t.len EXCEPT ![c] = ApuLength] ELSE t.len
  <2>2. len \in [ApuChannels -> Nat]
    BY <1>1, ApuSizes DEF ChipRecs
  <2>3. a = [t EXCEPT !.len = len]
    <3>1. CASE t.en[c]
      BY <2>1, <3>1 DEF ApuLoad
    <3>2. CASE ~t.en[c]
      BY <1>1, <2>1, <3>2 DEF ApuLoad, ChipRecs
    <3> QED
      BY <3>1, <3>2
  <2> HIDE DEF len
  <2>4. Plain(a)
    BY <1>1, <2>2, <2>3 DEF ChipRecs
  <2>5. a \in Eager!EagerAccesses(t)
    <3>1. a = Eager!ApuLoad(t, c)
      BY <2>1 DEF ApuLoad, Eager!ApuLoad
    <3>2. a \in {Eager!ApuLoad(t, d) : d \in ApuChannels}
      BY <3>1
    <3> QED
      BY <3>2 DEF Eager!EagerAccesses
  <2> QED
    BY <1>4, <2>4, <2>5
<1>7. CASE a \in {DmcControl(t, i, l) : i, l \in BOOLEAN}
  <2>1. PICK i \in BOOLEAN, l \in BOOLEAN : a = DmcControl(t, i, l)
    BY <1>7
  <2> DEFINE dmc == t.dmc /\ i
  <2>2. dmc \in BOOLEAN
    OBVIOUS
  <2>3. a = [t EXCEPT !.irqOn = i, !.loop = l, !.dmc = dmc]
    BY <2>1 DEF DmcControl
  <2> HIDE DEF dmc
  <2>4. Plain(a)
    <3>1. /\ a.abort = t.abort /\ a.pending = t.pending /\ a.odd = t.odd /\ a.empty = t.empty
          /\ a.rem = t.rem /\ a.start = t.start
      BY <1>1, <2>3, SMTT(60) DEF ChipRecs
    <3>2. a \in ChipRecs
      <4> DEFINE b == [t EXCEPT !.irqOn = i]
                 c == [b EXCEPT !.loop = l]
      <4>1. b \in ChipRecs
        BY <1>1 DEF ChipRecs
      <4>2. a = [c EXCEPT !.dmc = dmc]
        BY <2>3
      <4> HIDE DEF b
      <4>3. c \in ChipRecs
        BY <4>1 DEF ChipRecs
      <4> HIDE DEF c
      <4> QED
        BY <2>2, <4>2, <4>3 DEF ChipRecs
    <3> QED
      BY <1>1, <3>1, <3>2, Zenon
  <2>5. a \in Eager!EagerAccesses(t)
    <3>1. a = Eager!DmcControl(t, i, l)
      BY <2>1 DEF DmcControl, Eager!DmcControl
    <3>2. a \in {Eager!DmcControl(t, j, r) : j, r \in BOOLEAN}
      BY <3>1
    <3> QED
      BY <3>2 DEF Eager!EagerAccesses
  <2> QED
    BY <1>4, <2>4, <2>5
<1>8. CASE a \in {FrameWrite(t, v, i) : v \in 0..1, i \in BOOLEAN}
  <2>1. PICK v \in 0..1, i \in BOOLEAN : a = FrameWrite(t, v, i)
    BY <1>8
  <2> DEFINE frame == t.frame /\ ~i
             clear == t.clear /\ ~i
             delay == IF t.odd = 0 THEN 4 ELSE 3
  <2>2. frame \in BOOLEAN /\ clear \in BOOLEAN /\ delay \in Nat /\ v \in {0, 1}
    OBVIOUS
  <2>3. a = [t EXCEPT !.inhibit = i, !.frame = frame, !.clear = clear, !.new = v, !.delay = delay]
    BY <2>1 DEF FrameWrite
  <2> HIDE DEF frame, clear, delay
  <2>4. Plain(a)
    <3>1. /\ a.abort = t.abort /\ a.pending = t.pending /\ a.odd = t.odd /\ a.empty = t.empty
          /\ a.rem = t.rem /\ a.start = t.start
      BY <1>1, <2>3, SMTT(60) DEF ChipRecs
    <3>2. a \in ChipRecs
      <4> DEFINE b == [t EXCEPT !.inhibit = i]
                 c == [b EXCEPT !.frame = frame]
                 e == [c EXCEPT !.clear = clear]
                 f == [e EXCEPT !.new = v]
      <4>1. b \in ChipRecs
        BY <1>1 DEF ChipRecs
      <4>2. a = [f EXCEPT !.delay = delay]
        BY <2>3
      <4> HIDE DEF b
      <4>3. c \in ChipRecs
        BY <2>2, <4>1 DEF ChipRecs
      <4> HIDE DEF c
      <4>4. e \in ChipRecs
        BY <2>2, <4>3 DEF ChipRecs
      <4> HIDE DEF e
      <4>5. f \in ChipRecs
        BY <2>2, <4>4 DEF ChipRecs
      <4> HIDE DEF f
      <4> QED
        BY <2>2, <4>2, <4>5 DEF ChipRecs
    <3> QED
      BY <1>1, <3>1, <3>2, Zenon
  <2>5. a \in Eager!EagerAccesses(t)
    <3>1. a = Eager!FrameWrite(t, v, i)
      BY <2>1 DEF FrameWrite, Eager!FrameWrite
    <3>2. a \in {Eager!FrameWrite(t, w, j) : w \in 0..1, j \in BOOLEAN}
      BY <3>1
    <3> QED
      BY <3>2 DEF Eager!EagerAccesses
  <2> QED
    BY <1>4, <2>4, <2>5
<1>9. CASE a \in {ApuEnable(t, on, d) : on \in SUBSET ApuChannels, d \in BOOLEAN}
  <2>1. PICK on \in SUBSET ApuChannels, d \in BOOLEAN : a = ApuEnable(t, on, d)
    BY <1>9
  <2> DEFINE en == [c \in ApuChannels |-> c \in on]
             len == [c \in ApuChannels |-> IF c \in on THEN t.len[c] ELSE 0]
             b == [t EXCEPT !.en = en, !.len = len, !.dmc = FALSE]
  <2>2. en \in [ApuChannels -> BOOLEAN] /\ len \in [ApuChannels -> Nat]
    BY <1>1 DEF ChipRecs
  <2>3. a = IF d THEN IF t.rem > 0 THEN b
                      ELSE [b EXCEPT !.rem = DmcBytes, !.start = IF t.empty THEN (IF t.odd = 0 THEN 3 ELSE 2) ELSE @]
            ELSE [b EXCEPT !.rem = 0, !.start = 0, !.pending = FALSE, !.abort = @ \/ t.pending]
    BY <2>1 DEF ApuEnable
  <2> HIDE DEF en, len
  <2>4. Plain(b)
    BY <1>1, <2>2 DEF ChipRecs
  <2> HIDE DEF b
  <2>5. [a EXCEPT !.abort = FALSE] \in Eager!EagerAccesses(t)
    <3>1. a = Eager!ApuEnable(t, on, d)
      BY <2>1 DEF ApuEnable, Eager!ApuEnable
    <3> DEFINE E(o, e) == [Eager!ApuEnable(t, o, e) EXCEPT !.abort = FALSE]
               S == {E(o, e) : o \in SUBSET ApuChannels, e \in BOOLEAN}
    <3>3. [a EXCEPT !.abort = FALSE] = E(on, d)
      BY <3>1
    <3>4. S \subseteq Eager!EagerAccesses(t)
      BY DEF Eager!EagerAccesses
    <3>2. E(on, d) \in S
      <4> HIDE DEF E
      <4> QED
        OBVIOUS
    <3> HIDE DEF S, E
    <3> QED
      BY <3>2, <3>3, <3>4
  <2>6. CASE d /\ t.rem > 0
    <3>1. a = b
      BY <2>3, <2>6
    <3>2. [a EXCEPT !.abort = FALSE] = a
      BY <2>4, <3>1 DEF ChipRecs
    <3> QED
      BY <1>4, <2>4, <2>5, <3>1, <3>2
  <2>7. CASE d /\ ~(t.rem > 0)
    <3> DEFINE start == IF t.empty THEN (IF t.odd = 0 THEN 3 ELSE 2) ELSE b.start
    <3>1. start \in Nat /\ DmcBytes \in Nat
      BY <1>3, <2>4, ApuSizes
    <3>2. a = [b EXCEPT !.rem = DmcBytes, !.start = start]
      BY <2>3, <2>7
    <3> HIDE DEF start
    <3>3. a \in ChipRecs /\ a.abort = FALSE /\ a.pending = b.pending /\ a.odd = b.odd
      BY <2>4, <3>1, <3>2 DEF ChipRecs
    <3>4. ~t.pending
      BY <1>2, <2>7
    <3>5. [a EXCEPT !.abort = FALSE] = a
      BY <3>3 DEF ChipRecs
    <3>6. ChipOk(a)
      BY <1>3, <2>4, <3>3, <3>4 DEF ChipOk
    <3> QED
      BY <1>3, <2>4, <2>5, <3>3, <3>4, <3>5, <3>6
  <2>8. CASE ~d
    <3> DEFINE abort == b.abort \/ t.pending
    <3>5. abort = t.pending
      BY <1>3, <2>4
    <3>6. a = [b EXCEPT !.rem = 0, !.start = 0, !.pending = FALSE, !.abort = abort]
      BY <2>3, <2>8
    <3> HIDE DEF abort
    <3>1. a = [b EXCEPT !.rem = 0, !.start = 0, !.pending = FALSE, !.abort = t.pending]
      BY <3>5, <3>6
    <3>2. a \in ChipRecs /\ a.abort = t.pending /\ a.pending = FALSE /\ a.odd = b.odd
      BY <1>3, <2>4, <3>1 DEF ChipRecs
    <3> DEFINE c == [a EXCEPT !.abort = FALSE]
    <3>3. c \in ChipRecs /\ c.abort = FALSE /\ c.pending = FALSE /\ c.odd = b.odd
      BY <3>2 DEF ChipRecs
    <3>4. ChipOk(c)
      BY <3>3 DEF ChipOk
    <3> QED
      BY <1>3, <2>4, <2>5, <3>2, <3>3, <3>4
  <2> QED
    BY <2>6, <2>7, <2>8
<1> QED
  BY <1>5, <1>6, <1>7, <1>8, <1>9 DEF ApuWrites

LEMMA StatusIs ==
  ASSUME NEW t, ChipOk(t)
  PROVE  /\ ApuStatusRead(t) \in Eager!EagerAccesses(t) /\ ChipOk(ApuStatusRead(t))
         /\ ApuStatusRead(t).odd = t.odd /\ ApuStatusRead(t).pending = t.pending
         /\ ApuIrq(ApuStatusRead(t)) = ApuIrq(t)
<1> DEFINE clear == t.clear \/ t.frame
           a == [t EXCEPT !.clear = clear]
<1>1. t \in ChipRecs /\ clear \in BOOLEAN
  BY DEF ChipOk, ChipRecs
<1>2. ApuStatusRead(t) = a
  BY DEF ApuStatusRead
<1> HIDE DEF clear
<1>3. /\ a \in ChipRecs /\ a.abort = t.abort /\ a.pending = t.pending /\ a.odd = t.odd
      /\ a.empty = t.empty /\ a.rem = t.rem /\ a.start = t.start
  BY <1>1 DEF ChipRecs
<1>6. a.frame = t.frame /\ a.dmc = t.dmc
  BY <1>1 DEF ChipRecs
<1>4. ChipOk(a)
  BY <1>3 DEF ChipOk
<1>5. ApuStatusRead(t) \in Eager!EagerAccesses(t)
  <2>1. ApuStatusRead(t) = Eager!ApuStatusRead(t)
    BY DEF ApuStatusRead, Eager!ApuStatusRead
  <2> QED
    BY <2>1 DEF Eager!EagerAccesses
<1>7. ApuIrq(ApuStatusRead(t)) = ApuIrq(t)
  BY <1>2, <1>6 DEF ApuIrq
<1> QED
  BY <1>2, <1>3, <1>4, <1>5, <1>7

\* The flags outside a DMA and in it, and how long its request has waited: a
\* processor that may be halted by a read makes three writes at most.
FlagsOutside(d, lag, w) ==
  /\ d.dmc => d.halt /\ d.dummy /\ lag + 1 <= w
  /\ d.oam => d.halt
  /\ d.n = 0
FlagsInside(d, lag, e) ==
  d.dmc => IF d.halt THEN d.dummy /\ lag = 0 ELSE IF d.dummy THEN lag <= 3 ELSE lag <= (IF e THEN 4 ELSE 5)

\* The bytes of a sprite DMA: n accesses of d have been made.
SpritesMoved(d, in, ss, l) ==
  /\ ss \in Seq(Nat) /\ \A i \in 1..Len(ss) : ss[i] = i - 1
  /\ ~d.oam => d.n = 0
  /\ ~(d.oam /\ in) => Len(ss) \in {0, OamBytes}
  /\ d.oam /\ in => /\ d.n < 2 * OamBytes
                    /\ d.n = 2 * Len(ss) \/ (d.n = 2 * Len(ss) + 1 /\ l = Len(ss))

BusInv ==
  /\ InTouch(apu, behind, left, irqLine, dma.dmc, along)
  /\ dma \in FlagRecs /\ ~dma.abort /\ inDma \in BOOLEAN /\ even \in BOOLEAN /\ writes \in 0..3
  /\ IF inDma THEN FlagsInside(dma, behind, even) ELSE FlagsOutside(dma, behind, writes)
  /\ SpritesMoved(dma, inDma, sprites, latch)

\* A cycle as the chip that runs along shows it.
Shown(t) ==
  \/ /\ along' \in Eager!EagerAccesses(t)
     /\ irqLine' <=> ApuIrq(along')
     /\ dma'.dmc <=> along'.pending
  \/ along' = DmcFill(t) /\ t.rem > 0 /\ (irqLine' <=> ApuIrq(t)) /\ ~dma'.dmc
  \/ t.pending /\ t.bits = DmcBits /\ along' = Overtaken(t) /\ (irqLine' <=> ApuIrq(t)) /\ ~dma'.dmc
ShownCycle == along'.odd # along.odd /\ Shown(ApuTick(along))

\* The invariant after a step, part by part.
LEMMA InvAfter ==
  ASSUME InTouch(apu, behind, left, irqLine, dma.dmc, along)', NEW f \in FlagRecs, dma' = f, ~f.abort,
         NEW lag, behind' = lag, NEW in \in BOOLEAN, inDma' = in, NEW w \in 0..3, writes' = w,
         even' \in BOOLEAN, IF in THEN FlagsInside(f, lag, even') ELSE FlagsOutside(f, lag, w),
         SpritesMoved(f, in, sprites', latch')
  PROVE  BusInv'
BY Zenon DEF BusInv

LEMMA SyncedIs == Synced = SyncOf(dma, inDma)
BY DEF Synced, SyncOf

LEMMA TickFacts ==
  ASSUME BusInv
  PROVE  ChipOk(ApuTick(along)) /\ ApuTick(along).odd # along.odd /\ ApuTick(along) \in ChipRecs
         /\ ApuTick(along) \in Eager!EagerAccesses(ApuTick(along))
<1>1. ChipOk(along) /\ along \in ChipRecs /\ along.odd \in {0, 1}
  BY DEF BusInv, InTouch, ChipOk, ChipRecs
<1>2. ChipOk(ApuTick(along)) /\ ApuTick(along).odd = 1 - along.odd
  BY <1>1, TickOk, TickTyped DEF TickDelta
<1> QED
  BY <1>1, <1>2 DEF ChipOk, Eager!EagerAccesses

\* A cycle that leaves the chip to itself, with the flags f after it.
LEMMA PlainCycle ==
  ASSUME BusInv, NEW d, NEW s, Follows(s, d), NEW f, f \in FlagRecs, f.dmc = s.dma.dmc,
         Settle(s.apu, s.behind, s.left, s.irq, f)
  PROVE  /\ ShownCycle /\ dma' = f /\ behind' = s.behind
         /\ InTouch(apu, behind, left, irqLine, dma.dmc, along)'
<1> DEFINE t == ApuTick(along)
<1>1. /\ InTouch(s.apu, s.behind, s.left, s.irq, s.dma.dmc, t)
      /\ (s.irq <=> ApuIrq(t)) /\ (s.dma.dmc <=> t.pending)
  BY DEF Follows
<1>2. /\ along' = t /\ apu' = s.apu /\ behind' = s.behind /\ left' = s.left /\ irqLine' = s.irq
      /\ dma' = f
  BY <1>1 DEF Settle, InTouch
<1>3. InTouch(apu', behind', left', irqLine', dma'.dmc, along')
  BY <1>1, <1>2
<1>4. ShownCycle
  BY <1>1, <1>2, TickFacts DEF ShownCycle, Shown
<1> QED
  BY <1>2, <1>3, <1>4

\* A cycle that leaves the chip a, up to date, and is followed by a sync.
LEMMA AccessCycle ==
  ASSUME BusInv, NEW a, ChipOk(a), a \in Eager!EagerAccesses(ApuTick(along)), a.odd = ApuTick(along).odd,
         NEW f, f \in FlagRecs, f.dmc <=> a.pending, Settle(a, 0, 0, ApuIrq(a), f)
  PROVE  /\ ShownCycle /\ dma' = f /\ behind' = 0
         /\ InTouch(apu, behind, left, irqLine, dma.dmc, along)'
<1>1. /\ along' = a /\ apu' = a /\ behind' = 0 /\ left' = 0 /\ irqLine' = ApuIrq(a) /\ dma' = f
  BY RunSteps DEF Settle
<1>2. ApuIrq(a) \in BOOLEAN /\ ApuRun(a, 0) = a
  BY RunSteps DEF ApuIrq, ChipOk, ChipRecs
<1>3. InTouch(apu', behind', left', irqLine', dma'.dmc, along')
  BY <1>1, <1>2 DEF InTouch
<1>4. ShownCycle
  BY <1>1, TickFacts DEF ShownCycle, Shown
<1> QED
  BY <1>1, <1>3, <1>4

\* What the sync leaves of the flags outside a DMA, before the w'th write.
LEMMA OutsideSync ==
  ASSUME BusInv, ~inDma
  PROVE  /\ Follows(Synced, dma)
         /\ Synced.dma.dmc => Synced.dma.halt /\ Synced.dma.dummy /\ Synced.behind <= writes
         /\ Synced.dma.oam => Synced.dma.halt
         /\ Synced.dma.n = 0 /\ ~Synced.dma.abort /\ Synced.dma.oam = dma.oam
         /\ Synced.dma \in FlagRecs /\ Synced.behind \in Nat
<1> DEFINE s == Synced
<1>1. /\ InTouch(apu, behind, left, irqLine, dma.dmc, along) /\ dma \in FlagRecs /\ inDma \in BOOLEAN
      /\ FlagsOutside(dma, behind, writes) /\ writes \in 0..3 /\ behind \in Nat /\ ~dma.abort
  BY DEF BusInv, InTouch
<1>2. Follows(s, dma)
  BY <1>1, SyncFollows, SyncedIs
<1> HIDE DEF s
<1>3. /\ s.dma \in FlagRecs /\ s.dma.abort = dma.abort /\ s.dma.oam = dma.oam /\ s.dma.n = dma.n
      /\ \/ s.dma = dma /\ (s.behind = 0 \/ s.behind = behind + 1)
         \/ s.dma.dmc /\ s.dma.dummy /\ s.dma.halt /\ ~dma.dmc /\ s.behind = 0
      /\ s.behind \in Nat
  BY <1>2 DEF Follows, InTouch
<1>4. s.dma.dmc => s.dma.halt /\ s.dma.dummy /\ s.behind <= writes
  BY <1>1, <1>3 DEF FlagsOutside
<1>5. s.dma.oam => s.dma.halt
  BY <1>1, <1>3 DEF FlagsOutside
<1>6. s.dma.n = 0 /\ ~s.dma.abort
  BY <1>1, <1>3 DEF FlagsOutside
<1> QED
  BY <1>2, <1>3, <1>4, <1>5, <1>6 DEF s

\* ... and the chip brought up to date for an access in the same cycle.
LEMMA UpToDateIs ==
  ASSUME BusInv, ~inDma
  PROVE  UpToDate(Synced) = <<ApuTick(along), Synced.dma>>
<1> DEFINE s == Synced
           t == ApuTick(along)
<1>1. Follows(s, dma)
  BY OutsideSync
<1> HIDE DEF s
<1>2. ApuRun(s.apu, s.behind) = t /\ (s.dma.dmc <=> t.pending)
  BY <1>1 DEF Follows, InTouch
<1>3. ChipOk(t)
  BY TickFacts
<1>4. DmaCheck(t, s.dma, inDma) = <<t, Noticed(s.dma, t.pending)>>
  BY <1>3, CheckIs
<1>5. Noticed(s.dma, t.pending) = s.dma
  BY <1>2 DEF Noticed
<1>6. UpToDate(s) = <<t, s.dma>>
  BY <1>2, <1>4, <1>5 DEF UpToDate
<1> QED
  BY <1>6 DEF s

----------------------------------------------------------------------------
\* The processor's cycles.

LEMMA ReadStep == BusInv /\ BusRead => BusInv' /\ ShownCycle
<1> SUFFICES ASSUME BusInv, BusRead PROVE BusInv' /\ ShownCycle
  OBVIOUS
<1> DEFINE s == Synced
<1>1. /\ Follows(s, dma) /\ (s.dma.dmc => s.dma.halt /\ s.dma.dummy /\ s.behind <= writes)
      /\ (s.dma.oam => s.dma.halt) /\ s.dma.n = 0 /\ ~s.dma.abort /\ s.dma.oam = dma.oam
      /\ s.dma \in FlagRecs /\ s.behind \in Nat
  BY OutsideSync DEF BusRead
<1>10. even' \in BOOLEAN /\ 0 \in 0..3
  BY DEF BusRead, BusInv
<1>2. /\ even' = ~even /\ writes' = 0 /\ inDma' = s.dma.halt /\ latch' = latch /\ ~inDma
      /\ sprites' = IF s.dma.halt /\ s.dma.oam THEN <<>> ELSE sprites
      /\ Settle(s.apu, s.behind, s.left, s.irq,
                IF ~s.dma.halt THEN s.dma
                ELSE IF s.dma.abort THEN [s.dma EXCEPT !.dmc = FALSE, !.dummy = FALSE, !.abort = FALSE, !.halt = FALSE]
                     ELSE [s.dma EXCEPT !.halt = FALSE, !.n = 0])
  BY DEF BusRead
<1> HIDE DEF s
<1> DEFINE f == IF s.dma.halt THEN [s.dma EXCEPT !.halt = FALSE, !.n = 0] ELSE s.dma
<1>3. Settle(s.apu, s.behind, s.left, s.irq, f)
  BY <1>1, <1>2
<1>4. /\ f \in FlagRecs /\ f.dmc = s.dma.dmc /\ f.oam = s.dma.oam /\ f.dummy = s.dma.dummy
      /\ f.n = 0 /\ f.halt = FALSE /\ ~f.abort
  BY <1>1 DEF FlagRecs
<1> HIDE DEF f
<1>5. /\ ShownCycle /\ dma' = f /\ behind' = s.behind
      /\ InTouch(apu, behind, left, irqLine, dma.dmc, along)'
  BY <1>1, <1>3, <1>4, PlainCycle
<1>6. inDma \in BOOLEAN /\ even \in BOOLEAN /\ writes \in 0..3 /\ SpritesMoved(dma, FALSE, sprites, latch)
  BY <1>2, Zenon DEF BusInv
<1>7. s.dma.halt \in BOOLEAN /\ s.dma.dmc \in BOOLEAN /\ s.dma.oam \in BOOLEAN
  BY <1>1 DEF FlagRecs
<1>8. CASE s.dma.halt
  <2>1. FlagsInside(f, s.behind, even')
    BY <1>1, <1>4, <1>6, <1>8 DEF FlagsInside
  <2>2. SpritesMoved(f, TRUE, sprites', latch')
    <3>1. CASE s.dma.oam
      <4>1. sprites' = <<>>
        BY <1>2, <1>8, <3>1
      <4>2. <<>> \in Seq(Nat) /\ Len(<<>>) = 0
        OBVIOUS
      <4> QED
        BY <1>4, <3>1, <4>1, <4>2, BusSizes DEF SpritesMoved
    <3>2. CASE ~s.dma.oam
      BY <1>1, <1>2, <1>4, <1>6, <3>2 DEF SpritesMoved
    <3> QED
      BY <3>1, <3>2
  <2>3. inDma' = TRUE
    BY <1>2, <1>7, <1>8
  <2> QED
    BY <1>2, <1>4, <1>5, <1>10, <2>1, <2>2, <2>3, InvAfter
<1>9. CASE ~s.dma.halt
  <2>1. FlagsOutside(f, s.behind, 0)
    BY <1>1, <1>4, <1>9 DEF FlagsOutside
  <2>2. SpritesMoved(f, FALSE, sprites', latch')
    BY <1>1, <1>2, <1>4, <1>6, <1>9 DEF SpritesMoved
  <2>3. inDma' = FALSE
    BY <1>2, <1>7, <1>9
  <2> QED
    BY <1>2, <1>4, <1>5, <1>10, <2>1, <2>2, <2>3, InvAfter
<1> QED
  BY <1>8, <1>9

LEMMA PairParts ==
  ASSUME NEW p, NEW x, NEW y, p = <<x, y>>
  PROVE  p[1] = x /\ p[2] = y
OBVIOUS

LEMMA MovedStays ==
  ASSUME NEW d, NEW f, NEW in, NEW ss, NEW l, SpritesMoved(d, in, ss, l), f.oam = d.oam, f.n = d.n
  PROVE  SpritesMoved(f, in, ss, l)
BY DEF SpritesMoved

LEMMA WriteStep == BusInv /\ (BusWrite \/ BusOam) => BusInv' /\ ShownCycle
<1> SUFFICES ASSUME BusInv, BusWrite \/ BusOam PROVE BusInv' /\ ShownCycle
  OBVIOUS
<1> DEFINE s == Synced
           f == IF BusWrite THEN s.dma ELSE [s.dma EXCEPT !.oam = TRUE, !.halt = TRUE]
<1>1. /\ ~inDma /\ writes < 3 /\ writes' = writes + 1 /\ even' = ~even /\ inDma' = inDma
      /\ latch' = latch /\ sprites' = sprites
      /\ Settle(s.apu, s.behind, s.left, s.irq, f)
  BY DEF BusWrite, BusOam, Writing
<1>2. /\ Follows(s, dma) /\ (s.dma.dmc => s.dma.halt /\ s.dma.dummy /\ s.behind <= writes)
      /\ (s.dma.oam => s.dma.halt) /\ s.dma.n = 0 /\ ~s.dma.abort /\ s.dma.oam = dma.oam
      /\ s.dma \in FlagRecs /\ s.behind \in Nat
  BY <1>1, OutsideSync
<1> HIDE DEF s
<1>3. /\ f \in FlagRecs /\ f.dmc = s.dma.dmc /\ f.dummy = s.dma.dummy /\ f.n = 0 /\ ~f.abort
      /\ (f.oam => f.halt) /\ (s.dma.halt => f.halt)
  <2>1. CASE BusWrite
    <3>1. f = s.dma
      BY <2>1
    <3> QED
      BY <1>2, <3>1
  <2>2. CASE ~BusWrite
    <3>1. f = [s.dma EXCEPT !.oam = TRUE, !.halt = TRUE]
      BY <2>2
    <3> QED
      BY <1>2, <3>1 DEF FlagRecs
  <2> QED
    BY <2>1, <2>2
<1> HIDE DEF f
<1>4. /\ ShownCycle /\ dma' = f /\ behind' = s.behind
      /\ InTouch(apu, behind, left, irqLine, dma.dmc, along)'
  BY <1>1, <1>2, <1>3, PlainCycle
<1>5. /\ inDma = FALSE /\ even' \in BOOLEAN /\ writes \in 0..3 /\ SpritesMoved(dma, FALSE, sprites, latch)
      /\ dma.n = 0
  BY <1>1, Zenon DEF BusInv, FlagsOutside
<1>6. writes + 1 \in 0..3
  BY <1>1, <1>5
<1>7. FlagsOutside(f, s.behind, writes + 1)
  BY <1>2, <1>3, <1>5 DEF FlagsOutside
<1>8. SpritesMoved(f, FALSE, sprites', latch')
  BY <1>1, <1>3, <1>5 DEF SpritesMoved
<1> QED
  BY <1>1, <1>3, <1>4, <1>5, <1>6, <1>7, <1>8, InvAfter

LEMMA BusStatusStep == BusInv /\ BusStatus => BusInv' /\ ShownCycle
<1> SUFFICES ASSUME BusInv, BusStatus PROVE BusInv' /\ ShownCycle
  OBVIOUS
<1> DEFINE s == Synced
           t == ApuTick(along)
<1>1. /\ ~inDma /\ ~s.dma.halt /\ writes' = 0 /\ even' = ~even /\ inDma' = inDma
      /\ latch' = latch /\ sprites' = sprites
  BY DEF BusStatus
<1>14. Settle(ApuStatusRead(UpToDate(s)[1]), 0, 0, ApuIrq(UpToDate(s)[1]), UpToDate(s)[2])
  BY Zenon DEF BusStatus
<1>2. /\ Follows(s, dma) /\ (s.dma.dmc => s.dma.halt /\ s.dma.dummy /\ s.behind <= writes)
      /\ (s.dma.oam => s.dma.halt) /\ s.dma.n = 0 /\ ~s.dma.abort /\ s.dma.oam = dma.oam
      /\ s.dma \in FlagRecs /\ s.behind \in Nat
  BY <1>1, OutsideSync
<1>3. UpToDate(s) = <<t, s.dma>>
  BY <1>1, UpToDateIs
<1> HIDE DEF s
<1>4. UpToDate(s)[1] = t /\ UpToDate(s)[2] = s.dma
  BY <1>3
<1>16. ApuIrq(ApuStatusRead(t)) = ApuIrq(t)
  BY TickFacts, StatusIs
<1>5. Settle(ApuStatusRead(t), 0, 0, ApuIrq(ApuStatusRead(t)), s.dma)
  BY <1>4, <1>14, <1>16, Zenon
<1>6. ChipOk(t)
  BY TickFacts
<1>7. s.dma.dmc <=> t.pending
  BY <1>2 DEF Follows
<1> HIDE DEF t
<1>8. /\ ApuStatusRead(t) \in Eager!EagerAccesses(t) /\ ChipOk(ApuStatusRead(t))
      /\ ApuStatusRead(t).odd = t.odd /\ ApuStatusRead(t).pending = t.pending
  BY <1>6, StatusIs
<1>9. s.dma.dmc <=> ApuStatusRead(t).pending
  BY <1>7, <1>8
<1>10. /\ ShownCycle /\ dma' = s.dma /\ behind' = 0
       /\ InTouch(apu, behind, left, irqLine, dma.dmc, along)'
  BY <1>2, <1>5, <1>8, <1>9, AccessCycle DEF t
<1>11. /\ inDma = FALSE /\ even' \in BOOLEAN /\ SpritesMoved(dma, FALSE, sprites, latch)
      /\ dma.n = 0
  BY <1>1, Zenon DEF BusInv, FlagsOutside
<1>12. FlagsOutside(s.dma, 0, 0)
  BY <1>1, <1>2 DEF FlagsOutside
<1>15. 0 \in 0..3
  OBVIOUS
<1>13. SpritesMoved(s.dma, FALSE, sprites', latch')
  BY <1>1, <1>2, <1>11, MovedStays
<1> QED
  BY <1>1, <1>2, <1>10, <1>11, <1>12, <1>13, <1>15, InvAfter

LEMMA ApuWriteStep == BusInv /\ BusApuWrite => BusInv' /\ ShownCycle
<1> SUFFICES ASSUME BusInv, BusApuWrite PROVE BusInv' /\ ShownCycle
  OBVIOUS
<1> DEFINE s == Synced
           t == ApuTick(along)
<1>1. /\ ~inDma /\ ~dma.oam /\ writes < 3 /\ writes' = writes + 1 /\ even' = ~even /\ inDma' = inDma
      /\ latch' = latch /\ sprites' = sprites
      /\ \E a \in ApuWrites(UpToDate(s)[1]) :
           Settle(DmaCheck(a, UpToDate(s)[2], FALSE)[1], 0, 0,
                  ApuIrq(DmaCheck(a, UpToDate(s)[2], FALSE)[1]), DmaCheck(a, UpToDate(s)[2], FALSE)[2])
  BY DEF BusApuWrite, Writing
<1>2. /\ Follows(s, dma) /\ (s.dma.dmc => s.dma.halt /\ s.dma.dummy /\ s.behind <= writes)
      /\ (s.dma.oam => s.dma.halt) /\ s.dma.n = 0 /\ ~s.dma.abort /\ s.dma.oam = dma.oam
      /\ s.dma \in FlagRecs /\ s.behind \in Nat
  BY <1>1, OutsideSync
<1>3. UpToDate(s) = <<t, s.dma>>
  BY <1>1, UpToDateIs
<1> HIDE DEF s
<1>4. UpToDate(s)[1] = t /\ UpToDate(s)[2] = s.dma
  BY <1>3
<1>5. PICK a \in ApuWrites(t) : Settle(DmaCheck(a, s.dma, FALSE)[1], 0, 0,
                                       ApuIrq(DmaCheck(a, s.dma, FALSE)[1]), DmaCheck(a, s.dma, FALSE)[2])
  BY <1>1, <1>4
<1>6. ChipOk(t)
  BY TickFacts
<1>7. s.dma.dmc <=> t.pending
  BY <1>2 DEF Follows
<1> HIDE DEF t
<1> DEFINE b == [a EXCEPT !.abort = FALSE]
           f == IF a.abort THEN [s.dma EXCEPT !.dmc = FALSE, !.dummy = FALSE, !.halt = FALSE] ELSE s.dma
<1>8. /\ b \in Eager!EagerAccesses(t) /\ ChipOk(b) /\ b.odd = t.odd /\ b.pending = a.pending
      /\ a.pending \in BOOLEAN
      /\ \/ a.abort /\ ~a.pending /\ t.pending
         \/ ~a.abort /\ (a.pending <=> t.pending)
  BY <1>6, WriteIs
<1>9. DmaCheck(a, s.dma, FALSE) = <<b, f>>
  <2>1. CASE a.abort /\ ~a.pending /\ t.pending
    BY <1>2, <1>7, <2>1 DEF DmaCheck
  <2>2. CASE ~a.abort /\ (a.pending <=> t.pending)
    BY <1>2, <1>7, <2>2 DEF DmaCheck
  <2> QED
    BY <1>8, <2>1, <2>2
<1>10. Settle(b, 0, 0, ApuIrq(b), f)
  <2> HIDE DEF b, f
  <2>1. DmaCheck(a, s.dma, FALSE)[1] = b /\ DmaCheck(a, s.dma, FALSE)[2] = f
    BY <1>9, PairParts
  <2> QED
    BY <1>5, <2>1, Zenon
<1>11. /\ f \in FlagRecs /\ (f.dmc <=> a.pending) /\ f.n = 0 /\ ~f.abort /\ f.oam = s.dma.oam
       /\ (f.dmc => f.halt /\ f.dummy)
  <2>1. CASE a.abort /\ ~a.pending /\ t.pending
    <3>1. f = [s.dma EXCEPT !.dmc = FALSE, !.dummy = FALSE, !.halt = FALSE]
      BY <2>1
    <3> QED
      BY <1>2, <2>1, <3>1 DEF FlagRecs
  <2>2. CASE ~a.abort /\ (a.pending <=> t.pending)
    <3>1. f = s.dma
      BY <2>2
    <3> QED
      BY <1>2, <1>7, <2>2, <3>1
  <2> QED
    BY <1>8, <2>1, <2>2
<1> HIDE DEF f, b
<1>12. f.dmc <=> b.pending
  BY <1>8, <1>11
<1>13. /\ ShownCycle /\ dma' = f /\ behind' = 0
       /\ InTouch(apu, behind, left, irqLine, dma.dmc, along)'
  BY <1>8, <1>10, <1>11, <1>12, AccessCycle DEF t
<1>14. /\ inDma = FALSE /\ even' \in BOOLEAN /\ SpritesMoved(dma, FALSE, sprites, latch)
       /\ dma.n = 0 /\ writes \in 0..3
  BY <1>1, Zenon DEF BusInv, FlagsOutside
<1>15. writes + 1 \in 0..3
  BY <1>1, <1>14
<1>16. FlagsOutside(f, 0, writes + 1)
  BY <1>1, <1>2, <1>11, <1>14 DEF FlagsOutside
<1>17. SpritesMoved(f, FALSE, sprites', latch')
  BY <1>1, <1>2, <1>11, <1>14, MovedStays
<1> QED
  BY <1>1, <1>11, <1>13, <1>14, <1>15, <1>16, <1>17, InvAfter

\* The flags with which a cycle of DMA goes into its sync, when nothing is to
\* be given up.
Waited == IF dma.halt THEN [dma EXCEPT !.halt = FALSE]
          ELSE IF dma.dummy THEN [dma EXCEPT !.dummy = FALSE] ELSE dma
Ready == dma.dmc /\ ~dma.halt /\ ~dma.dummy

LEMMA WaitedIs ==
  ASSUME dma \in FlagRecs
  PROVE  /\ Waited \in FlagRecs /\ Waited.dmc = dma.dmc /\ Waited.abort = dma.abort
         /\ Waited.oam = dma.oam /\ Waited.n = dma.n /\ ~Waited.halt
         /\ Waited.dummy <=> dma.halt /\ dma.dummy
<1>1. CASE dma.halt
  <2>1. Waited = [dma EXCEPT !.halt = FALSE]
    BY <1>1 DEF Waited
  <2> QED
    BY <1>1, <2>1 DEF FlagRecs
<1>2. CASE ~dma.halt /\ dma.dummy
  <2>1. Waited = [dma EXCEPT !.dummy = FALSE]
    BY <1>2 DEF Waited
  <2> QED
    BY <1>2, <2>1 DEF FlagRecs
<1>3. CASE ~dma.halt /\ ~dma.dummy
  BY <1>3 DEF Waited, FlagRecs
<1> QED
  BY <1>1, <1>2, <1>3

\* A cycle of DMA in its four alternatives: the byte of the sample arrives, a
\* sprite byte is read, one is written, or the cycle is idle.
Arrives(s) == ~even /\ Ready /\ Settle(DmcFill(s.apu), s.behind, 0, s.irq, [s.dma EXCEPT !.dmc = FALSE])
              /\ UNCHANGED <<latch, sprites>>
Reads(s) == /\ ~even /\ ~Ready /\ dma.oam /\ dma.n % 2 = 0 /\ latch' = dma.n \div 2
            /\ Settle(s.apu, s.behind, s.left, s.irq, [s.dma EXCEPT !.n = @ + 1])
            /\ UNCHANGED sprites
Writes(s) == /\ even /\ dma.oam /\ dma.n % 2 = 1 /\ sprites' = Append(sprites, latch)
             /\ Settle(s.apu, s.behind, s.left, s.irq,
                       IF OamDone(dma.n + 1) THEN [s.dma EXCEPT !.oam = FALSE, !.n = 0]
                       ELSE [s.dma EXCEPT !.n = @ + 1])
             /\ UNCHANGED latch
Idles(s) == /\ ~even => ~Ready
            /\ Settle(s.apu, s.behind, s.left, s.irq, s.dma) /\ UNCHANGED <<latch, sprites>>

LEMMA DmaCycleIs ==
  ASSUME DmaCycle, BusInv
  PROVE  /\ inDma = TRUE /\ even' = ~even /\ writes' = writes /\ inDma' = (dma'.dmc \/ dma'.oam)
         /\ LET s == SyncOf(Waited, TRUE) IN Arrives(s) \/ Reads(s) \/ Writes(s) \/ Idles(s)
<1>1. dma.abort = FALSE /\ inDma \in BOOLEAN /\ dma.halt \in BOOLEAN /\ dma.dummy \in BOOLEAN
      /\ even \in BOOLEAN
  BY DEF BusInv, FlagRecs
<1>2. inDma = TRUE /\ even' = ~even /\ writes' = writes /\ inDma' = (dma'.dmc \/ dma'.oam)
  BY <1>1 DEF DmaCycle
<1> DEFINE waited == CASE dma.halt -> [dma EXCEPT !.halt = FALSE]
                       [] ~dma.halt /\ dma.dummy -> [dma EXCEPT !.dummy = FALSE]
                       [] OTHER -> dma
           sync(w) == IF behind + 1 >= left
                      THEN LET c == DmaCheck(ApuRun(apu, behind + 1), w, TRUE)
                           IN  [apu |-> c[1], behind |-> 0, left |-> ApuUntilEvent(c[1]), irq |-> ApuIrq(c[1]), dma |-> c[2]]
                      ELSE [apu |-> apu, behind |-> behind + 1, left |-> left, irq |-> irqLine, dma |-> w]
           step(w, get, ready) ==
                LET s == sync(w) IN
                \/ /\ get /\ ready /\ ~dma.abort
                   /\ Settle(DmcFill(s.apu), s.behind, 0, s.irq, [s.dma EXCEPT !.dmc = FALSE])
                   /\ UNCHANGED <<latch, sprites>>
                \/ /\ get /\ ~(ready /\ ~dma.abort) /\ dma.oam /\ dma.n % 2 = 0
                   /\ latch' = dma.n \div 2
                   /\ Settle(s.apu, s.behind, s.left, s.irq, [s.dma EXCEPT !.n = @ + 1])
                   /\ UNCHANGED sprites
                \/ /\ ~get /\ dma.oam /\ dma.n % 2 = 1
                   /\ sprites' = Append(sprites, latch)
                   /\ Settle(s.apu, s.behind, s.left, s.irq,
                             IF OamDone(dma.n + 1) THEN [s.dma EXCEPT !.oam = FALSE, !.n = 0] ELSE [s.dma EXCEPT !.n = @ + 1])
                   /\ UNCHANGED latch
                \/ /\ IF get THEN ~(ready /\ ~dma.abort) /\ ~(dma.oam /\ dma.n % 2 = 0) ELSE ~(dma.oam /\ dma.n % 2 = 1)
                   /\ Settle(s.apu, s.behind, s.left, s.irq, s.dma)
                   /\ UNCHANGED <<latch, sprites>>
<1>3. waited = Waited
  BY <1>1, Zenon DEF Waited
<1> DEFINE cut == IF dma.abort THEN [dma EXCEPT !.dmc = FALSE, !.dummy = FALSE, !.abort = FALSE, !.halt = FALSE] ELSE dma
           waits == CASE cut.halt -> [cut EXCEPT !.halt = FALSE]
                      [] ~cut.halt /\ cut.dummy -> [cut EXCEPT !.dummy = FALSE]
                      [] OTHER -> cut
<1>4. step(waits, ~even, Ready)
  BY Zenon DEF DmaCycle, Ready
<1>5. cut = dma
  BY <1>1
<1>6. waits = waited
  BY <1>5, Zenon
<1>7. step(Waited, ~even, Ready)
  BY <1>3, <1>4, <1>6, ZenonT(60)
<1>8. sync(Waited) = SyncOf(Waited, TRUE)
  BY Zenon DEF SyncOf
<1> HIDE DEF sync, waits, cut, waited
<1> DEFINE s == SyncOf(Waited, TRUE)
<1>9. Arrives(s) \/ Reads(s) \/ Writes(s) \/ Idles(s)
  <2> HIDE DEF s
  <2>1. sync(Waited) = s
    BY <1>8 DEF s
  <2> QED
    BY <1>1, <1>7, <2>1 DEF Arrives, Reads, Writes, Idles
<1> QED
  BY <1>2, <1>9

\* What the sync of a cycle of DMA leaves of the flags.
LEMMA InsideSync ==
  ASSUME BusInv, inDma
  PROVE  LET s == SyncOf(Waited, TRUE) IN
         /\ Follows(s, Waited) /\ s.dma \in FlagRecs /\ s.dma.oam = dma.oam /\ s.dma.n = dma.n
         /\ ~s.dma.abort /\ s.behind \in Nat
         /\ Ready /\ ~even => s.dma = dma /\ s.behind \in 0..6
         /\ ~(Ready /\ ~even) => FlagsInside(s.dma, s.behind, ~even)
<1> DEFINE s == SyncOf(Waited, TRUE)
<1>1. /\ InTouch(apu, behind, left, irqLine, dma.dmc, along) /\ dma \in FlagRecs /\ even \in BOOLEAN
      /\ FlagsInside(dma, behind, even) /\ behind \in Nat /\ ~dma.abort
  BY DEF BusInv, InTouch
<1>2. /\ Waited \in FlagRecs /\ Waited.dmc = dma.dmc /\ Waited.abort = dma.abort
      /\ Waited.oam = dma.oam /\ Waited.n = dma.n /\ ~Waited.halt
      /\ Waited.dummy <=> dma.halt /\ dma.dummy
  BY <1>1, WaitedIs
<1>3. Follows(s, Waited)
  BY <1>1, <1>2, SyncFollows
<1>4. Ready => Waited = dma
  BY DEF Ready, Waited
<1> HIDE DEF s
<1>5. /\ s.dma \in FlagRecs /\ s.dma.abort = Waited.abort /\ s.dma.oam = Waited.oam /\ s.dma.n = Waited.n
      /\ \/ s.dma = Waited /\ (s.behind = 0 \/ s.behind = behind + 1)
         \/ s.dma.dmc /\ s.dma.dummy /\ s.dma.halt /\ ~Waited.dmc /\ s.behind = 0
      /\ s.behind \in Nat
  BY <1>3 DEF Follows, InTouch
<1>6. ASSUME Ready, ~even PROVE s.dma = dma /\ s.behind \in 0..6
  BY <1>1, <1>2, <1>4, <1>5, <1>6 DEF Ready, FlagsInside
<1>7. ASSUME ~(Ready /\ ~even) PROVE FlagsInside(s.dma, s.behind, ~even)
  <2>1. CASE s.dma.dmc /\ s.dma.dummy /\ s.dma.halt /\ s.behind = 0
    BY <2>1 DEF FlagsInside
  <2>2. CASE s.dma = Waited /\ (s.behind = 0 \/ s.behind = behind + 1)
    <3>1. CASE dma.halt
      BY <1>1, <1>2, <2>2, <3>1 DEF FlagsInside
    <3>2. CASE ~dma.halt /\ dma.dummy
      BY <1>1, <1>2, <2>2, <3>2 DEF FlagsInside
    <3>3. CASE ~dma.halt /\ ~dma.dummy /\ dma.dmc
      <4>1. even
        BY <1>7, <3>3 DEF Ready
      <4> QED
        BY <1>1, <1>2, <2>2, <3>3, <4>1 DEF FlagsInside
    <3>4. CASE ~dma.dmc
      BY <1>2, <2>2, <3>4 DEF FlagsInside
    <3> QED
      BY <3>1, <3>2, <3>3, <3>4
  <2> QED
    BY <1>5, <2>1, <2>2
<1>8. s.dma.oam = dma.oam /\ s.dma.n = dma.n /\ ~s.dma.abort
  BY <1>1, <1>2, <1>5
<1> QED
  BY <1>3, <1>5, <1>6, <1>7, <1>8 DEF s

\* The byte that arrives leaves the lagging chip in touch.
LEMMA ArrivalCycle ==
  ASSUME BusInv, NEW d, NEW s, Follows(s, d), s.dma.dmc, s.behind \in 0..6,
         NEW f, f \in FlagRecs, ~f.dmc, Settle(DmcFill(s.apu), s.behind, 0, s.irq, f)
  PROVE  /\ ShownCycle /\ dma' = f /\ behind' = s.behind
         /\ InTouch(apu, behind, left, irqLine, dma.dmc, along)'
<1> DEFINE t == ApuTick(along)
           a == DmcFill(s.apu)
<1>1. /\ ChipOk(s.apu) /\ s.behind \in Nat /\ s.irq \in BOOLEAN /\ ChipOk(t) /\ t = ApuRun(s.apu, s.behind)
      /\ s.apu.pending /\ t.pending /\ (s.irq <=> ApuIrq(t))
  BY DEF Follows, InTouch
<1>2. s.apu \in ChipRecs /\ s.apu.rem > 0 /\ ~s.apu.abort /\ t.rem > 0 /\ t \in ChipRecs
  BY <1>1 DEF ChipOk
<1>3. a \in ChipRecs /\ Twins(a, s.apu) /\ ~a.pending
  BY <1>2, FillIs
<1>4. ChipOk(a)
  BY <1>2, <1>3 DEF ChipOk, Twins, SameRegs
<1>5. ChipOk(ApuRun(a, s.behind))
  BY <1>1, <1>4, RunOk
<1>6. Beside(t, ApuRun(a, s.behind), s.behind)
  BY <1>1, FilledRun
<1>7. /\ along' = ApuRun(a, s.behind) /\ apu' = a /\ behind' = s.behind /\ left' = 0
      /\ irqLine' = s.irq /\ dma' = f
  BY DEF Settle
<1>8. ApuRun(a, s.behind) = DmcFill(t) \/ (t.pending /\ t.bits = DmcBits /\ ApuRun(a, s.behind) = Overtaken(t))
  BY <1>6, BesideIs
<1>9. ApuRun(a, s.behind).odd = t.odd
  BY <1>6 DEF Beside, Twins
<1>10. t.odd # along.odd
  BY TickFacts
<1> HIDE DEF t, a
<1>11. InTouch(apu', behind', left', irqLine', dma'.dmc, along')
  <2>1. ~(0 > s.behind + 1) /\ 0 \in Int
    BY <1>1
  <2> QED
    BY <1>1, <1>3, <1>4, <1>5, <1>7, <2>1 DEF InTouch
<1>12. along'.odd # along.odd
  BY <1>7, <1>9, <1>10
<1>13. Shown(t)
  BY <1>1, <1>2, <1>7, <1>8, Zenon DEF Shown
<1> QED
  BY <1>7, <1>11, <1>12, <1>13 DEF ShownCycle, t

\* Sprites as the DMA moves them: nothing more, a byte read, a byte written.
LEMMA MovedOn ==
  ASSUME NEW d, NEW f \in FlagRecs, NEW ss, NEW l, SpritesMoved(d, TRUE, ss, l), f.oam = d.oam, f.n = d.n
  PROVE  SpritesMoved(f, f.dmc \/ f.oam, ss, l)
<1>1. f.oam \in BOOLEAN
  BY DEF FlagRecs
<1> QED
  BY <1>1 DEF SpritesMoved

LEMMA MovedReads ==
  ASSUME NEW d \in FlagRecs, NEW f \in FlagRecs, NEW ss, NEW l, SpritesMoved(d, TRUE, ss, l),
         d.oam, f.oam, d.n % 2 = 0, f.n = d.n + 1
  PROVE  SpritesMoved(f, TRUE, ss, d.n \div 2)
<1> DEFINE L == Len(ss)
<1>1. /\ ss \in Seq(Nat) /\ \A i \in 1..Len(ss) : ss[i] = i - 1
      /\ d.n < 2 * OamBytes /\ (d.n = 2 * L \/ d.n = 2 * L + 1)
  BY DEF SpritesMoved
<1>2. L \in Nat /\ d.n \in Nat /\ OamBytes \in Nat
  BY <1>1, LenProperties, BusSizes DEF FlagRecs
<1> HIDE DEF L
<1>3. d.n = 2 * L
  BY <1>1, <1>2
<1>4. d.n \div 2 = L /\ f.n = 2 * L + 1 /\ f.n < 2 * OamBytes
  BY <1>1, <1>2, <1>3
<1> QED
  BY <1>1, <1>4 DEF SpritesMoved, L

LEMMA MovedWrites ==
  ASSUME NEW d \in FlagRecs, NEW f \in FlagRecs, NEW ss, NEW l, SpritesMoved(d, TRUE, ss, l),
         d.oam, d.n % 2 = 1,
         IF OamDone(d.n + 1) THEN ~f.oam /\ f.n = 0 ELSE f.oam /\ f.n = d.n + 1
  PROVE  SpritesMoved(f, f.dmc \/ f.oam, Append(ss, l), l)
<1> DEFINE L == Len(ss)
           r == Append(ss, l)
<1>1. /\ ss \in Seq(Nat) /\ \A i \in 1..Len(ss) : ss[i] = i - 1
      /\ d.n < 2 * OamBytes /\ (d.n = 2 * L \/ (d.n = 2 * L + 1 /\ l = L))
  BY DEF SpritesMoved
<1>2. L \in Nat /\ d.n \in Nat /\ OamBytes \in Nat
  BY <1>1, LenProperties, BusSizes DEF FlagRecs
<1>3. l = L /\ d.n = 2 * L + 1
  <2> HIDE DEF L
  <2> QED
    BY <1>1, <1>2
<1>4. r \in Seq(Nat) /\ Len(r) = L + 1 /\ r[L + 1] = l /\ \A i \in 1..L : r[i] = ss[i]
  BY <1>1, <1>2, <1>3, AppendProperties
<1>5. \A i \in 1..Len(r) : r[i] = i - 1
  <2> SUFFICES ASSUME NEW i \in 1..Len(r) PROVE r[i] = i - 1
    OBVIOUS
  <2> HIDE DEF r
  <2>1. CASE i = L + 1
    BY <1>2, <1>3, <1>4, <2>1
  <2>2. CASE i # L + 1
    <3>1. i \in 1..L
      BY <1>2, <1>4, <2>2
    <3> QED
      BY <1>1, <1>4, <3>1
  <2> QED
    BY <2>1, <2>2
<1> HIDE DEF L, r
<1>6. CASE OamDone(d.n + 1)
  <2>1. L + 1 = OamBytes
    BY <1>2, <1>3, <1>6 DEF OamDone
  <2> QED
    BY <1>4, <1>5, <1>6, <2>1 DEF SpritesMoved, r
<1>7. CASE ~OamDone(d.n + 1)
  <2>1. d.n + 1 = 2 * (L + 1) /\ d.n + 1 < 2 * OamBytes
    BY <1>1, <1>2, <1>3, <1>7 DEF OamDone
  <2> QED
    BY <1>4, <1>5, <1>7, <2>1 DEF SpritesMoved, r
<1> QED
  BY <1>6, <1>7

LEMMA OneMore ==
  ASSUME NEW d \in FlagRecs, NEW f, f = [d EXCEPT !.n = @ + 1]
  PROVE  /\ f \in FlagRecs /\ f.dmc = d.dmc /\ f.halt = d.halt /\ f.dummy = d.dummy
         /\ f.abort = d.abort /\ f.oam = d.oam /\ f.n = d.n + 1
<1> DEFINE m == d.n + 1
<1>1. m \in Nat
  BY DEF FlagRecs
<1>2. f = [d EXCEPT !.n = m]
  OBVIOUS
<1> HIDE DEF m
<1>3. /\ f \in FlagRecs /\ f.dmc = d.dmc /\ f.halt = d.halt /\ f.dummy = d.dummy
      /\ f.abort = d.abort /\ f.oam = d.oam /\ f.n = m
  BY <1>1, <1>2 DEF FlagRecs
<1> QED
  BY <1>3 DEF m

LEMMA DmaStep == BusInv /\ DmaCycle => BusInv' /\ ShownCycle
<1> SUFFICES ASSUME BusInv, DmaCycle PROVE BusInv' /\ ShownCycle
  OBVIOUS
<1> DEFINE s == SyncOf(Waited, TRUE)
<1>1. /\ inDma = TRUE /\ even' = ~even /\ writes' = writes /\ inDma' = (dma'.dmc \/ dma'.oam)
      /\ Arrives(s) \/ Reads(s) \/ Writes(s) \/ Idles(s)
  BY DmaCycleIs
<1>2. /\ Follows(s, Waited) /\ s.dma \in FlagRecs /\ s.dma.oam = dma.oam /\ s.dma.n = dma.n
      /\ ~s.dma.abort /\ s.behind \in Nat
      /\ Ready /\ ~even => s.dma = dma /\ s.behind \in 0..6
      /\ ~(Ready /\ ~even) => FlagsInside(s.dma, s.behind, ~even)
  BY <1>1, InsideSync
<1> HIDE DEF s
<1>3. /\ even' \in BOOLEAN /\ writes \in 0..3 /\ SpritesMoved(dma, TRUE, sprites, latch)
      /\ dma \in FlagRecs /\ dma.oam \in BOOLEAN /\ dma.n \in Nat
  <2>1. dma \in FlagRecs
    BY DEF BusInv
  <2>2. dma.oam \in BOOLEAN /\ dma.n \in Nat
    BY <2>1 DEF FlagRecs
  <2> QED
    BY <1>1, <2>1, <2>2, Zenon DEF BusInv
\* The halt ends when nothing is asked for any more.
<1>4. ASSUME NEW f \in FlagRecs, dma' = f, ~f.abort, behind' = s.behind, FlagsInside(f, s.behind, ~even),
             SpritesMoved(f, f.dmc \/ f.oam, sprites', latch'),
             InTouch(apu, behind, left, irqLine, dma.dmc, along)'
      PROVE  BusInv'
  <2> DEFINE in == f.dmc \/ f.oam
  <2>1. f.dmc \in BOOLEAN /\ f.oam \in BOOLEAN /\ inDma' = in
    BY <1>1, <1>4 DEF FlagRecs
  <2>2. ~in => FlagsOutside(f, s.behind, writes)
    BY <1>4 DEF FlagsOutside, SpritesMoved
  <2>3. IF in THEN FlagsInside(f, s.behind, even') ELSE FlagsOutside(f, s.behind, writes)
    BY <1>1, <1>4, <2>2
  <2> QED
    BY <1>1, <1>3, <1>4, <2>1, <2>3, InvAfter
<1>5. CASE Arrives(s)
  <2>1. /\ ~even /\ Ready /\ latch' = latch /\ sprites' = sprites
        /\ Settle(DmcFill(s.apu), s.behind, 0, s.irq, [s.dma EXCEPT !.dmc = FALSE])
    BY <1>5 DEF Arrives
  <2> DEFINE f == [s.dma EXCEPT !.dmc = FALSE]
  <2>2. s.dma = dma /\ s.behind \in 0..6 /\ s.dma.dmc
    BY <1>2, <2>1 DEF Ready
  <2>3. f \in FlagRecs /\ ~f.dmc /\ ~f.abort /\ f.oam = dma.oam /\ f.n = dma.n
    BY <1>2, <2>2 DEF FlagRecs
  <2>4. Settle(DmcFill(s.apu), s.behind, 0, s.irq, f)
    BY <2>1
  <2> HIDE DEF f
  <2>5. /\ ShownCycle /\ dma' = f /\ behind' = s.behind
        /\ InTouch(apu, behind, left, irqLine, dma.dmc, along)'
    BY <1>2, <2>2, <2>3, <2>4, ArrivalCycle
  <2>6. FlagsInside(f, s.behind, ~even)
    BY <2>3 DEF FlagsInside
  <2>7. SpritesMoved(f, f.dmc \/ f.oam, sprites', latch')
    BY <1>3, <2>1, <2>3, MovedOn
  <2> QED
    BY <1>4, <2>3, <2>5, <2>6, <2>7
<1>6. CASE Reads(s)
  <2>1. /\ ~even /\ ~Ready /\ dma.oam /\ dma.n % 2 = 0 /\ latch' = dma.n \div 2 /\ sprites' = sprites
        /\ Settle(s.apu, s.behind, s.left, s.irq, [s.dma EXCEPT !.n = @ + 1])
    BY <1>6 DEF Reads
  <2> DEFINE f == [s.dma EXCEPT !.n = @ + 1]
  <2>2. /\ f \in FlagRecs /\ f.dmc = s.dma.dmc /\ f.halt = s.dma.halt /\ f.dummy = s.dma.dummy
        /\ ~f.abort /\ f.oam /\ f.n = dma.n + 1
    <3>1. f = [s.dma EXCEPT !.n = @ + 1]
      OBVIOUS
    <3> HIDE DEF f
    <3>2. /\ f \in FlagRecs /\ f.dmc = s.dma.dmc /\ f.halt = s.dma.halt /\ f.dummy = s.dma.dummy
          /\ f.abort = s.dma.abort /\ f.oam = s.dma.oam /\ f.n = s.dma.n + 1
      BY <1>2, <3>1, OneMore
    <3> QED
      BY <1>2, <2>1, <3>2
  <2>3. Settle(s.apu, s.behind, s.left, s.irq, f)
    BY <2>1
  <2> HIDE DEF f
  <2>4. /\ ShownCycle /\ dma' = f /\ behind' = s.behind
        /\ InTouch(apu, behind, left, irqLine, dma.dmc, along)'
    BY <1>2, <2>2, <2>3, PlainCycle
  <2>5. FlagsInside(f, s.behind, ~even)
    BY <1>2, <2>1, <2>2 DEF FlagsInside
  <2>6. SpritesMoved(f, TRUE, sprites', latch')
    BY <1>3, <2>1, <2>2, MovedReads
  <2>7. SpritesMoved(f, f.dmc \/ f.oam, sprites', latch')
    BY <2>2, <2>6 DEF SpritesMoved
  <2> QED
    BY <1>4, <2>2, <2>4, <2>5, <2>7
<1>7. CASE Writes(s)
  <2> DEFINE f == IF OamDone(dma.n + 1) THEN [s.dma EXCEPT !.oam = FALSE, !.n = 0] ELSE [s.dma EXCEPT !.n = @ + 1]
  <2>1. /\ even /\ dma.oam /\ dma.n % 2 = 1 /\ latch' = latch /\ sprites' = Append(sprites, latch)
        /\ Settle(s.apu, s.behind, s.left, s.irq, f)
    BY <1>7 DEF Writes
  <2>2. /\ f \in FlagRecs /\ f.dmc = s.dma.dmc /\ f.halt = s.dma.halt /\ f.dummy = s.dma.dummy /\ ~f.abort
        /\ IF OamDone(dma.n + 1) THEN ~f.oam /\ f.n = 0 ELSE f.oam /\ f.n = dma.n + 1
    <3>1. CASE OamDone(dma.n + 1)
      <4>1. f = [s.dma EXCEPT !.oam = FALSE, !.n = 0]
        BY <3>1
      <4> QED
        BY <1>2, <3>1, <4>1 DEF FlagRecs
    <3>2. CASE ~OamDone(dma.n + 1)
      <4>1. f = [s.dma EXCEPT !.n = @ + 1]
        BY <3>2
      <4> HIDE DEF f
      <4>2. /\ f \in FlagRecs /\ f.dmc = s.dma.dmc /\ f.halt = s.dma.halt /\ f.dummy = s.dma.dummy
            /\ f.abort = s.dma.abort /\ f.oam = s.dma.oam /\ f.n = s.dma.n + 1
        BY <1>2, <4>1, OneMore
      <4> QED
        BY <1>2, <2>1, <3>2, <4>2
    <3> QED
      BY <3>1, <3>2
  <2> HIDE DEF f
  <2>3. /\ ShownCycle /\ dma' = f /\ behind' = s.behind
        /\ InTouch(apu, behind, left, irqLine, dma.dmc, along)'
    BY <1>2, <2>1, <2>2, PlainCycle
  <2>4. FlagsInside(f, s.behind, ~even)
    BY <1>2, <2>1, <2>2 DEF FlagsInside
  <2>5. SpritesMoved(f, f.dmc \/ f.oam, Append(sprites, latch), latch)
    BY <1>3, <2>1, <2>2, MovedWrites
  <2> QED
    BY <1>4, <2>1, <2>2, <2>3, <2>4, <2>5
<1>8. CASE Idles(s)
  <2>1. /\ ~even => ~Ready
        /\ Settle(s.apu, s.behind, s.left, s.irq, s.dma) /\ latch' = latch /\ sprites' = sprites
    BY <1>8 DEF Idles
  <2> DEFINE f == s.dma
  <2>2. f \in FlagRecs /\ ~f.abort /\ f.oam = dma.oam /\ f.n = dma.n /\ f.dmc = s.dma.dmc
    BY <1>2
  <2>3. Settle(s.apu, s.behind, s.left, s.irq, f)
    BY <2>1
  <2>4. FlagsInside(f, s.behind, ~even)
    BY <1>2, <2>1
  <2> HIDE DEF f
  <2>5. /\ ShownCycle /\ dma' = f /\ behind' = s.behind
        /\ InTouch(apu, behind, left, irqLine, dma.dmc, along)'
    BY <1>2, <2>2, <2>3, PlainCycle
  <2>6. SpritesMoved(f, f.dmc \/ f.oam, sprites', latch')
    BY <1>3, <2>1, <2>2, MovedOn
  <2> QED
    BY <1>4, <2>2, <2>4, <2>5, <2>6
<1> QED
  BY <1>1, <1>5, <1>6, <1>7, <1>8

LEMMA BusInitial == BusInit => BusInv
<1> SUFFICES ASSUME BusInit PROVE BusInv
  OBVIOUS
<1>1. /\ apu = ApuReset /\ behind = 0 /\ left = 0 /\ irqLine = FALSE /\ along = ApuReset
      /\ dma = Idle /\ inDma = FALSE /\ even = FALSE /\ sprites = <<>> /\ writes = 0
  BY DEF BusInit
<1>2. ChipOk(ApuReset) /\ ~ApuReset.pending /\ ApuRun(ApuReset, 0) = ApuReset
  BY ResetOk, RunSteps DEF ApuReset
<1>3. Idle \in FlagRecs /\ ~Idle.dmc /\ ~Idle.abort /\ ~Idle.oam /\ Idle.n = 0
  BY DEF Idle, FlagRecs
<1>4. InTouch(apu, behind, left, irqLine, dma.dmc, along)
  <2>1. InTouch(ApuReset, 0, 0, FALSE, Idle.dmc, ApuReset)
    BY <1>2, <1>3 DEF InTouch
  <2> QED
    BY <1>1, <2>1
<1>5. FlagsOutside(dma, behind, writes)
  BY <1>1, <1>3 DEF FlagsOutside
<1>6. SpritesMoved(dma, inDma, sprites, latch)
  BY <1>1, <1>3 DEF SpritesMoved
<1>7. dma \in FlagRecs /\ ~dma.abort /\ inDma \in BOOLEAN /\ even \in BOOLEAN /\ writes \in 0..3 /\ ~inDma
  <2>1. writes \in 0..3
    BY <1>1
  <2> QED
    BY <1>1, <1>3, <2>1, Zenon
<1> QED
  BY <1>4, <1>5, <1>6, <1>7, Zenon DEF BusInv

LEMMA BusStep == BusInv /\ [BusNext]_busVars => BusInv' /\ (ShownCycle \/ UNCHANGED busVars)
<1> SUFFICES ASSUME BusInv, [BusNext]_busVars PROVE BusInv' /\ (ShownCycle \/ UNCHANGED busVars)
  OBVIOUS
<1>1. CASE BusRead
  BY <1>1, ReadStep
<1>2. CASE BusWrite \/ BusOam
  BY <1>2, WriteStep
<1>3. CASE BusApuWrite
  BY <1>3, ApuWriteStep
<1>4. CASE BusStatus
  BY <1>4, BusStatusStep
<1>5. CASE DmaCycle
  BY <1>5, DmaStep
<1>6. CASE UNCHANGED busVars
  <2>1. /\ apu' = apu /\ behind' = behind /\ left' = left /\ irqLine' = irqLine /\ dma' = dma
        /\ inDma' = inDma /\ even' = even /\ latch' = latch /\ sprites' = sprites
        /\ writes' = writes /\ along' = along
    BY <1>6 DEF busVars
  <2>2. InTouch(apu, behind, left, irqLine, dma.dmc, along)'
    BY <2>1, Zenon DEF BusInv
  <2>3. BusInv'
    BY <2>1, <2>2, Zenon DEF BusInv
  <2> QED
    BY <1>6, <2>3
<1> QED
  BY <1>1, <1>2, <1>3, <1>4, <1>5, <1>6 DEF BusNext

LEMMA BusKept == BusSpec => []BusInv
<1>1. BusInv /\ [BusNext]_busVars => BusInv'
  BY BusStep
<1> QED
  BY <1>1, BusInitial, PTL DEF BusSpec

\* Sprite DMA moves its bytes in order and once each though the delta channel
\* takes cycles out of the middle of it, and leaves the processor halted no
\* longer than it must, with no request of the chip forgotten: for every
\* number of bytes and every length of the chip's periods.
THEOREM DmaKept == BusSpec => []DmaDelivers
<1>1. BusInv => DmaDelivers
  <2> SUFFICES ASSUME BusInv PROVE DmaDelivers
    OBVIOUS
  <2>1. /\ InTouch(apu, behind, left, irqLine, dma.dmc, along) /\ dma \in FlagRecs /\ inDma \in BOOLEAN
        /\ ~inDma => FlagsOutside(dma, behind, writes)
        /\ SpritesMoved(dma, inDma, sprites, latch)
    BY DEF BusInv
  <2>2. \A i \in 1..Len(sprites) : sprites[i] = i - 1
    BY <2>1 DEF SpritesMoved
  <2>3. ~inDma /\ ~dma.halt => Len(sprites) \in {0, OamBytes} /\ ~dma.dmc /\ ~dma.oam
    BY <2>1 DEF SpritesMoved, FlagsOutside
  <2>4. apu.pending => dma.dmc
    BY <2>1 DEF InTouch
  <2> QED
    BY <2>2, <2>3, <2>4 DEF DmaDelivers
<1> QED
  BY <1>1, BusKept, PTL

LEMMA EagerTick == \A a : Eager!ApuTick(a) = ApuTick(a)
<1> SUFFICES ASSUME NEW a PROVE Eager!ApuTick(a) = ApuTick(a)
  OBVIOUS
<1>1. \A x : Eager!ClockLengths(x) = ClockLengths(x)
  BY DEF ClockLengths, Eager!ClockLengths
<1>2. \A x : Eager!DmcOutput(x) = DmcOutput(x)
  BY Zenon DEF DmcOutput, Eager!DmcOutput
<1>3. \A x : Eager!DmcReader(x) = DmcReader(x)
  BY Zenon DEF DmcReader, Eager!DmcReader
<1>4. \A x : Eager!DelayedWrite(x) = DelayedWrite(x)
  BY <1>1, Zenon DEF DelayedWrite, Eager!DelayedWrite
<1>5. \A x : Eager!FrameCounter(x) = FrameCounter(x)
  BY <1>1, Zenon DEF FrameCounter, Eager!FrameCounter
<1> QED
  BY <1>2, <1>3, <1>4, <1>5, Zenon DEF ApuTick, Eager!ApuTick

LEMMA EagerSame == \A a : /\ Eager!ApuTick(a) = ApuTick(a) /\ Eager!DmcFill(a) = DmcFill(a)
                          /\ Eager!ApuIrq(a) = ApuIrq(a)
<1>1. \A a : Eager!DmcFill(a) = DmcFill(a)
  BY Zenon DEF DmcFill, Eager!DmcFill
<1>2. \A a : Eager!ApuIrq(a) = ApuIrq(a)
  BY Zenon DEF ApuIrq, Eager!ApuIrq
<1> QED
  BY <1>1, <1>2, EagerTick

\* A cycle that the bus shows is one of the chip that runs along.
LEMMA ShownIsEager == BusInv /\ BusInv' /\ ShownCycle => Eager!EagerMostlyNext
<1> SUFFICES ASSUME BusInv, BusInv', ShownCycle PROVE Eager!EagerMostlyNext
  OBVIOUS
<1> DEFINE t == ApuTick(along)
           asked == dma.dmc /\ ~dma.abort
<1>1. /\ along'.odd # along.odd /\ Shown(t)
  BY DEF ShownCycle
<1>2. /\ ~dma'.abort /\ dma'.dmc \in BOOLEAN /\ irqLine' \in BOOLEAN /\ along' \in ChipRecs
  BY DEF BusInv, InTouch, ChipOk, FlagRecs
<1>3. asked' = dma'.dmc
  BY <1>2
<1>4. Eager!ApuTick(along) = t /\ Eager!DmcFill(t) = DmcFill(t) /\ Eager!ApuIrq(t) = ApuIrq(t)
      /\ Eager!ApuIrq(along') = ApuIrq(along') /\ t \in ChipRecs
  BY EagerSame, TickFacts
<1>5. ApuIrq(t) \in BOOLEAN /\ ApuIrq(along') \in BOOLEAN
  BY <1>2, <1>4 DEF ApuIrq, ChipRecs
<1>6. along'.pending \in BOOLEAN
  BY <1>2 DEF ChipRecs
<1> HIDE DEF t, asked
<1>7. CASE along' \in Eager!EagerAccesses(t) /\ (irqLine' <=> ApuIrq(along')) /\ (dma'.dmc <=> along'.pending)
  <2>1. irqLine' = Eager!ApuIrq(along') /\ asked' = along'.pending
    BY <1>2, <1>3, <1>4, <1>5, <1>6, <1>7
  <2>2. Eager!EagerCycle
    BY <1>4, <1>7, <2>1, Zenon DEF Eager!EagerCycle, asked
  <2> QED
    BY <1>1, <2>2 DEF Eager!EagerMostlyNext
<1>8. CASE along' = DmcFill(t) /\ t.rem > 0 /\ (irqLine' <=> ApuIrq(t)) /\ ~dma'.dmc
  <2>1. ~along'.pending
    BY <1>4, <1>8, FillIs
  <2>2. irqLine' = Eager!ApuIrq(t) /\ asked' = along'.pending
    BY <1>2, <1>3, <1>4, <1>5, <1>6, <1>8, <2>1
  <2>3. Eager!EagerCycle
    BY <1>4, <1>8, <2>2, Zenon DEF Eager!EagerCycle, asked
  <2> QED
    BY <1>1, <2>3 DEF Eager!EagerMostlyNext
<1>9. CASE /\ t.pending /\ t.bits = DmcBits /\ along' = Overtaken(t) /\ (irqLine' <=> ApuIrq(t)) /\ ~dma'.dmc
  <2>1. irqLine' = Eager!ApuIrq(t) /\ asked' = FALSE
    BY <1>2, <1>3, <1>4, <1>5, <1>9
  <2>2. Eager!EagerOvertakes
    BY <1>4, <1>9, <2>1, Zenon DEF Eager!EagerOvertakes, Overtaken, asked
  <2> QED
    BY <1>1, <2>2 DEF Eager!EagerMostlyNext
<1> QED
  BY <1>1, <1>7, <1>8, <1>9 DEF Shown

\* The chip that is left behind and brought up to date only when something of
\* it can be seen implements the chip that runs along: interrupts, requests
\* and what the program reads are those of that chip in every cycle, or a byte
\* is overtaken by the output unit.
THEOREM ChipRunsAlong == BusSpec => RunsAlong
<1>1. BusInit => Eager!EagerInit
  <2> SUFFICES ASSUME BusInit PROVE Eager!EagerInit
    OBVIOUS
  <2>1. along = ApuReset /\ irqLine = FALSE /\ dma = Idle
    BY DEF BusInit
  <2>2. Eager!ApuReset = ApuReset
    BY DEF ApuReset, Eager!ApuReset
  <2>3. (dma.dmc /\ ~dma.abort) = FALSE
    BY <2>1 DEF Idle
  <2> QED
    BY <2>1, <2>2, <2>3, Zenon DEF Eager!EagerInit
<1>2. BusInv /\ BusInv' /\ [BusNext]_busVars => [Eager!EagerMostlyNext]_(Eager!eagerVars)
  <2> SUFFICES ASSUME BusInv, BusInv', [BusNext]_busVars PROVE Eager!EagerMostlyNext \/ UNCHANGED Eager!eagerVars
    OBVIOUS
  <2>1. CASE ShownCycle
    BY <2>1, ShownIsEager
  <2>2. CASE UNCHANGED busVars
    BY <2>2 DEF busVars, Eager!eagerVars
  <2> QED
    BY <2>1, <2>2, BusStep
<1> QED
  BY <1>1, <1>2, BusKept, PTL DEF BusSpec, RunsAlong, Eager!EagerMostly

----------------------------------------------------------------------------
(***************************************************************************)
(* The interrupt counters of the NES cartridges.                           *)
(***************************************************************************)

IrqRecs ==
  [m : IrqBoards \cup {"none"}, latch : Nat, ctr : Nat, pre : Int, on : BOOLEAN, after : BOOLEAN,
   cycles : BOOLEAN, reload : BOOLEAN, counting : BOOLEAN, pending : BOOLEAN, line : Nat]

\* A counter of two digits, or one that counts the lines of a frame.
IrqRange(b) == IF b.m = "mmc5" THEN b.line = (IF b.counting THEN b.ctr + 1 ELSE 0)
               ELSE b.latch \in 0..IrqTop /\ b.ctr \in 0..IrqTop

\* `due' is what the values written last leave; a counter that stopped at its
\* end never interrupts again.
IrqDue(b, d) == d \in Int /\ IF b.m = "n163" /\ b.ctr = IrqTop THEN d <= -1 ELSE d = DueIn(b)

IrqLinesAgree == /\ cartIrq \in BOOLEAN /\ apuIrq \in BOOLEAN /\ rang \in BOOLEAN
                 /\ CountersKeepTime
IrqInv == irqb \in IrqRecs /\ IrqRange(irqb) /\ IrqDue(irqb, due) /\ IrqLinesAgree

LEMMA TopIs == IrqTop \in Nat /\ IrqHalf - 1 \in 0..IrqTop
<1>1. IrqHalf \in Nat /\ IrqHalf >= 1
  BY IrqSizes
<1>2. IrqHalf * IrqHalf >= IrqHalf /\ IrqHalf * IrqHalf \in Nat
  BY <1>1
<1> QED
  BY <1>1, <1>2 DEF IrqTop

\* Half a counter written leaves a counter.
LEMMA HalvesWritten ==
  ASSUME NEW v \in 0..IrqTop, NEW x \in Halves
  PROVE  WithLow(v, x) \in 0..IrqTop /\ WithHigh(v, x) \in 0..IrqTop
<1> DEFINE h == IrqHalf
           q == v \div h
           r == v % h
<1>1. h \in Nat /\ h >= 1 /\ x \in 0..h - 1 /\ v \in Nat /\ v <= h * h - 1 /\ h * h \in Nat
  BY IrqSizes, TopIs DEF IrqTop, Halves
<1>2. q \in Nat /\ r \in 0..h - 1 /\ v = h * q + r
  BY <1>1
<1> HIDE DEF h, q, r
<1>3. q <= h - 1
  <2>1. CASE q >= h
    <3>1. h * q >= h * h
      BY <1>1, <1>2, <2>1
    <3> QED
      BY <1>1, <1>2, <3>1
  <2> QED
    BY <1>1, <1>2, <2>1
<1>4. q * h <= (h - 1) * h /\ q * h \in Nat
  BY <1>1, <1>2, <1>3
<1>5. x * h <= (h - 1) * h /\ x * h \in Nat
  BY <1>1
<1>6. (h - 1) * h = h * h - h
  BY <1>1
<1>7. q * h + x \in Nat /\ q * h + x <= h * h - 1
  BY <1>1, <1>4, <1>6
<1>8. r + x * h \in Nat /\ r + x * h <= h * h - 1
  BY <1>1, <1>2, <1>5, <1>6
<1> QED
  BY <1>7, <1>8 DEF WithLow, WithHigh, IrqTop, h, q, r

LEMMA DueTyped ==
  ASSUME NEW b \in IrqRecs, IrqRange(b)
  PROVE  IrqDue(b, DueIn(b)) /\ DueIn(b) \in Int
<1>1. /\ b.latch \in Nat /\ b.ctr \in Nat /\ b.m \in IrqBoards \cup {"none"} /\ IrqTop \in Nat
  BY TopIs DEF IrqRecs
<1>2. DueIn(b) \in Int
  BY <1>1 DEF DueIn, IrqBoards
<1>3. b.m = "n163" /\ b.ctr = IrqTop => DueIn(b) <= -1
  BY <1>1 DEF DueIn
<1> QED
  BY <1>2, <1>3 DEF IrqDue

\* A counter that differs only in its prescaler.
LEMMA PrescaledIs ==
  ASSUME NEW b \in IrqRecs, NEW p \in Int, NEW r, r = [b EXCEPT !.pre = p]
  PROVE  /\ r \in IrqRecs /\ r.m = b.m /\ r.on = b.on /\ r.ctr = b.ctr
         /\ IrqRange(b) => IrqRange(r)
         /\ \A d : IrqDue(b, d) => IrqDue(r, d)
<1>1. /\ r \in IrqRecs /\ r.m = b.m /\ r.on = b.on /\ r.ctr = b.ctr /\ r.latch = b.latch
      /\ r.line = b.line /\ r.counting = b.counting /\ r.reload = b.reload
  BY DEF IrqRecs
<1>2. DueIn(r) = DueIn(b)
  BY <1>1 DEF DueIn
<1> QED
  BY <1>1, <1>2 DEF IrqRange, IrqDue

\* A clock of a counter rings when its time has come and on no other clock.
LEMMA ClockedIs ==
  ASSUME NEW b \in IrqRecs, IrqRange(b), NEW d, IrqDue(b, d),
         b.m \in {"mmc3", "rambo", "bandai", "n163", "fme7", "vrc4", "vrc6"},
         b.m \in {"bandai", "n163", "vrc4", "vrc6"} => b.on
  PROVE  /\ Clocked(b)[1] \in IrqRecs /\ IrqRange(Clocked(b)[1])
         /\ Clocked(b)[2] <=> d = 1 /\ b.on
         /\ IrqDue(Clocked(b)[1], IF d = 1 THEN DueIn(Clocked(b)[1]) ELSE d - 1)
<1>1. /\ b.latch \in 0..IrqTop /\ b.ctr \in 0..IrqTop /\ IrqTop \in Nat /\ d \in Int
      /\ b.on \in BOOLEAN /\ b.reload \in BOOLEAN
  BY TopIs DEF IrqRecs, IrqRange, IrqDue
<1>2. ASSUME NEW c \in 0..IrqTop, NEW r, r = [b EXCEPT !.ctr = c] \/ r = [b EXCEPT !.ctr = c,
      !.reload = FALSE]
      PROVE  /\ r \in IrqRecs /\ IrqRange(r) /\ r.m = b.m /\ r.latch = b.latch /\ r.ctr = c
             /\ r = [b EXCEPT !.ctr = c, !.reload = FALSE] => r.reload = FALSE
  <2>1. c \in Nat
    BY <1>1
  <2>2. /\ r \in IrqRecs /\ r.m = b.m /\ r.latch = b.latch /\ r.ctr = c
        /\ r = [b EXCEPT !.ctr = c, !.reload = FALSE] => r.reload = FALSE
    BY <1>2, <2>1 DEF IrqRecs
  <2> QED
    BY <1>1, <2>2 DEF IrqRange
<1>3. CASE b.m \in {"mmc3", "rambo"}
  <2> DEFINE n == IF b.reload \/ b.ctr = 0 THEN b.latch ELSE b.ctr - 1
             r == [b EXCEPT !.ctr = n, !.reload = FALSE]
             ring == n = 0 /\ b.on
  <2>1. Clocked(b) = <<r, ring>>
    BY <1>3 DEF Clocked
  <2>2. n \in 0..IrqTop
    BY <1>1
  <2>3. d = IF b.reload \/ b.ctr = 0 THEN b.latch + 1 ELSE b.ctr
    BY <1>3 DEF IrqDue, DueIn
  <2>4. (n = 0 <=> d = 1) /\ (n # 0 => d - 1 = n)
    BY <1>1, <2>3
  <2> HIDE DEF n
  <2>5. r \in IrqRecs /\ IrqRange(r) /\ r.m = b.m /\ r.latch = b.latch /\ r.ctr = n /\ r.reload = FALSE
    BY <1>2, <2>2
  <2> HIDE DEF r
  <2>6. n # 0 => DueIn(r) = d - 1
    BY <1>3, <2>4, <2>5 DEF DueIn
  <2>7. Clocked(b)[1] = r /\ (Clocked(b)[2] <=> d = 1 /\ b.on)
    <3>1. ring <=> d = 1 /\ b.on
      BY <2>4
    <3> HIDE DEF ring
    <3> QED
      BY <2>1, <3>1
  <2>8. IrqDue(r, IF d = 1 THEN DueIn(r) ELSE d - 1)
    BY <2>4, <2>5, <2>6, DueTyped, Zenon
  <2> QED
    BY <2>5, <2>7, <2>8
<1>4. CASE b.m \in {"vrc4", "vrc6"} /\ b.ctr = IrqTop
  <2> DEFINE r == [b EXCEPT !.ctr = b.latch]
  <2>1. Clocked(b) = <<r, TRUE>>
    BY <1>4 DEF Clocked
  <2>2. d = 1
    BY <1>1, <1>4 DEF IrqDue, DueIn
  <2>3. r \in IrqRecs /\ IrqRange(r)
    BY <1>1, <1>2
  <2> HIDE DEF r
  <2>4. IrqDue(r, IF d = 1 THEN DueIn(r) ELSE d - 1)
    BY <2>2, <2>3, DueTyped
  <2> QED
    BY <1>4, <2>1, <2>2, <2>3, <2>4
<1>5. CASE b.m \in {"vrc4", "vrc6"} /\ b.ctr # IrqTop
  <2> DEFINE c == b.ctr + 1
             r == [b EXCEPT !.ctr = c]
  <2>1. Clocked(b) = <<r, FALSE>>
    BY <1>5 DEF Clocked
  <2>2. d = IrqTop - b.ctr + 1
    BY <1>1, <1>5 DEF IrqDue, DueIn
  <2>3. c \in 0..IrqTop /\ d # 1 /\ d - 1 = IrqTop - c + 1
    <3>1. b.ctr \in Nat /\ b.ctr < IrqTop
      BY <1>1, <1>5
    <3> QED
      BY <1>1, <2>2, <3>1
  <2> HIDE DEF c
  <2>4. r \in IrqRecs /\ IrqRange(r) /\ r.m = b.m /\ r.ctr = c
    BY <1>2, <2>3
  <2> HIDE DEF r
  <2>5. DueIn(r) = d - 1
    BY <1>5, <2>3, <2>4 DEF DueIn
  <2>6. IrqDue(r, IF d = 1 THEN DueIn(r) ELSE d - 1)
    BY <2>3, <2>4, <2>5, DueTyped
  <2> QED
    BY <2>1, <2>3, <2>4, <2>6
<1>6. CASE b.m \in {"bandai", "fme7"}
  <2> DEFINE c == (b.ctr + IrqTop) % (IrqTop + 1)
             r == [b EXCEPT !.ctr = c]
             ring == IF b.m = "bandai" THEN b.ctr = 0 ELSE b.ctr = 0 /\ b.on
  <2>1. Clocked(b)[1] = r /\ (Clocked(b)[2] <=> ring)
    BY <1>6 DEF Clocked
  <2>2. d = b.ctr + 1
    BY <1>1, <1>6 DEF IrqDue, DueIn
  <2>3. c \in 0..IrqTop /\ (b.ctr # 0 => c = b.ctr - 1)
    <3>1. CASE b.ctr = 0
      BY <1>1, <3>1
    <3>2. CASE b.ctr # 0
      <4>1. b.ctr - 1 \in 0..IrqTop /\ b.ctr + IrqTop = 1 * (IrqTop + 1) + (b.ctr - 1)
        BY <1>1, <3>2
      <4>2. c = b.ctr - 1
        BY <1>1, <4>1
      <4> QED
        BY <4>1, <4>2
    <3> QED
      BY <3>1, <3>2
  <2> HIDE DEF c
  <2>4. r \in IrqRecs /\ IrqRange(r) /\ r.m = b.m /\ r.ctr = c
    BY <1>2, <2>3
  <2> HIDE DEF r
  <2>5. d # 1 => DueIn(r) = d - 1
    BY <1>1, <1>6, <2>2, <2>3, <2>4 DEF DueIn
  <2>6. IrqDue(r, IF d = 1 THEN DueIn(r) ELSE d - 1)
    BY <2>4, <2>5, DueTyped, Zenon
  <2>7. ring <=> d = 1 /\ b.on
    BY <1>1, <1>6, <2>2
  <2> QED
    BY <2>1, <2>4, <2>6, <2>7
<1>7. CASE b.m = "n163" /\ b.ctr = IrqTop
  <2>1. Clocked(b) = <<b, FALSE>>
    BY <1>7 DEF Clocked
  <2>2. d <= -1 /\ d - 1 <= -1 /\ d # 1
    BY <1>1, <1>7 DEF IrqDue
  <2>3. IrqDue(b, d - 1)
    BY <1>1, <1>7, <2>2 DEF IrqDue
  <2> QED
    BY <2>1, <2>2, <2>3
<1>8. CASE b.m = "n163" /\ b.ctr # IrqTop
  <2> DEFINE c == b.ctr + 1
             r == [b EXCEPT !.ctr = c]
             ring == c = IrqTop
  <2>1. Clocked(b) = <<r, ring>>
    BY <1>8 DEF Clocked
  <2>2. d = IrqTop - b.ctr
    BY <1>1, <1>8 DEF IrqDue, DueIn
  <2>3. c \in 0..IrqTop /\ (d = 1 <=> c = IrqTop) /\ d - 1 = IrqTop - c
    BY <1>1, <1>8, <2>2
  <2> HIDE DEF c
  <2>4. r \in IrqRecs /\ IrqRange(r) /\ r.m = b.m /\ r.ctr = c
    BY <1>2, <2>3
  <2> HIDE DEF r
  <2>5. d # 1 => DueIn(r) = d - 1
    BY <1>8, <2>3, <2>4 DEF DueIn
  <2>6. IrqDue(r, IF d = 1 THEN DueIn(r) ELSE d - 1)
    BY <2>4, <2>5, DueTyped, Zenon
  <2>7. ring <=> d = 1 /\ b.on
    BY <1>8, <2>3
  <2> HIDE DEF ring
  <2>8. Clocked(b)[1] = r /\ (Clocked(b)[2] <=> d = 1 /\ b.on)
    BY <2>1, <2>7
  <2> QED
    BY <2>4, <2>6, <2>8
<1> QED
  BY <1>3, <1>4, <1>5, <1>6, <1>7, <1>8

LEMMA ClockStep ==
  ASSUME IrqInv, NEW b \in IrqRecs, IrqRange(b), IrqDue(b, due),
         b.m \in {"mmc3", "rambo", "bandai", "n163", "fme7", "vrc4", "vrc6"},
         b.m \in {"bandai", "n163", "vrc4", "vrc6"} => b.on,
         Clock(b), apuIrq' = apuIrq
  PROVE  IrqInv'
<1> DEFINE r == Clocked(b)[1]
           ring == Clocked(b)[2]
<1>1. /\ r \in IrqRecs /\ IrqRange(r) /\ (ring <=> due = 1 /\ b.on)
      /\ IrqDue(r, IF due = 1 THEN DueIn(r) ELSE due - 1)
  BY ClockedIs
<1>2. /\ irqb' = r /\ cartIrq' = (cartIrq \/ ring)
      /\ IF ring THEN UpdateIrq ELSE cpuIrq' = cpuIrq
      /\ due' = (IF due = 1 THEN DueIn(r) ELSE due - 1)
      /\ rang' = (rang \/ (due = 1 /\ b.on))
  BY DEF Clock
<1> HIDE DEF r, ring
<1>3. IrqLinesAgree'
  <2>1. cartIrq \in BOOLEAN /\ apuIrq \in BOOLEAN /\ rang \in BOOLEAN /\ cartIrq = rang
        /\ cpuIrq = (cartIrq \/ apuIrq)
    BY DEF IrqInv, IrqLinesAgree, CountersKeepTime
  <2>2. cartIrq' \in BOOLEAN /\ apuIrq' \in BOOLEAN /\ rang' \in BOOLEAN /\ cartIrq' = rang'
    BY <1>1, <1>2, <2>1
  <2>3. cpuIrq' = (cartIrq' \/ apuIrq')
    <3>1. CASE ring
      BY <1>2, <2>2, <3>1 DEF UpdateIrq
    <3>2. CASE ~ring
      <4>1. cpuIrq' = cpuIrq /\ cartIrq' = cartIrq
        BY <1>2, <2>1, <3>2
      <4> QED
        BY <2>1, <4>1
    <3> QED
      BY <3>1, <3>2
  <2> QED
    BY <2>2, <2>3 DEF IrqLinesAgree, CountersKeepTime
<1>4. IrqDue(irqb', due')
  BY <1>1, <1>2, Zenon
<1>5. irqb' \in IrqRecs /\ IrqRange(irqb')
  BY <1>1, <1>2
<1> QED
  BY <1>3, <1>4, <1>5 DEF IrqInv

\* What a write leaves is a counter of the same board.
Fits(b, w) == w[1] \in IrqRecs /\ IrqRange(w[1]) /\ w[2] \in BOOLEAN

LEMMA FitsIs ==
  ASSUME NEW b, NEW r \in IrqRecs, IrqRange(r), NEW k \in BOOLEAN, NEW w, w = <<r, k>>
  PROVE  Fits(b, w)
BY DEF Fits

LEMMA WritesFit ==
  ASSUME NEW b \in IrqRecs, IrqRange(b), NEW w \in CounterWrites(b)
  PROVE  Fits(b, w)
<1>1. /\ b.latch \in Nat /\ b.ctr \in Nat /\ b.pre \in Int /\ b.on \in BOOLEAN /\ b.after \in BOOLEAN
      /\ b.cycles \in BOOLEAN /\ b.reload \in BOOLEAN /\ b.counting \in BOOLEAN /\ b.pending \in BOOLEAN
      /\ b.m \in IrqBoards \cup {"none"} /\ IrqTop \in Nat /\ 0 \in 0..IrqTop /\ IrqDots \in Int
            /\ 0 \in Int
      /\ IrqLines \in Nat
  BY TopIs, IrqSizes DEF IrqRecs
<1>2. b.m # "mmc5" => b.latch \in 0..IrqTop /\ b.ctr \in 0..IrqTop
  BY DEF IrqRange
<1>3. ASSUME NEW r \in IrqRecs, b.m # "mmc5", r.m = b.m, r.latch \in 0..IrqTop, r.ctr \in 0..IrqTop,
             NEW k \in BOOLEAN, w = <<r, k>>
      PROVE  Fits(b, w)
  BY <1>3, FitsIs DEF IrqRange
<1>4. ASSUME NEW v \in 0..IrqTop, b.m # "mmc5",
             w = <<[b EXCEPT !.latch = v], FALSE>>
      PROVE  Fits(b, w)
  <2> DEFINE r == [b EXCEPT !.latch = v]
  <2>1. b.m # "mmc5" /\ v \in 0..IrqTop
    BY <1>4
  <2>2. r \in IrqRecs /\ r.m = b.m /\ r.latch \in 0..IrqTop /\ r.ctr \in 0..IrqTop
    BY <1>1, <1>2, <2>1 DEF IrqRecs
  <2> HIDE DEF r
  <2>3. w = <<r, FALSE>> /\ (FALSE) \in BOOLEAN
    BY <1>4 DEF r
  <2> QED
    BY <1>3, <2>1, <2>2, <2>3
<1>5. ASSUME b.m # "mmc5",
             w = <<[b EXCEPT !.reload = TRUE, !.ctr = 0], FALSE>>
      PROVE  Fits(b, w)
  <2> DEFINE r == [b EXCEPT !.reload = TRUE, !.ctr = 0]
  <2>1. b.m # "mmc5"
    BY <1>5
  <2>2. r \in IrqRecs /\ r.m = b.m /\ r.latch \in 0..IrqTop /\ r.ctr \in 0..IrqTop
    BY <1>1, <1>2, <2>1 DEF IrqRecs
  <2> HIDE DEF r
  <2>3. w = <<r, FALSE>> /\ (FALSE) \in BOOLEAN
    BY <1>5 DEF r
  <2> QED
    BY <1>3, <2>1, <2>2, <2>3
<1>6. ASSUME b.m # "mmc5",
             w = <<[b EXCEPT !.on = FALSE], TRUE>>
      PROVE  Fits(b, w)
  <2> DEFINE r == [b EXCEPT !.on = FALSE]
  <2>1. b.m # "mmc5"
    BY <1>6
  <2>2. r \in IrqRecs /\ r.m = b.m /\ r.latch \in 0..IrqTop /\ r.ctr \in 0..IrqTop
    BY <1>1, <1>2, <2>1 DEF IrqRecs
  <2> HIDE DEF r
  <2>3. w = <<r, TRUE>> /\ (TRUE) \in BOOLEAN
    BY <1>6 DEF r
  <2> QED
    BY <1>3, <2>1, <2>2, <2>3
<1>7. ASSUME b.m # "mmc5",
             w = <<[b EXCEPT !.on = TRUE], FALSE>>
      PROVE  Fits(b, w)
  <2> DEFINE r == [b EXCEPT !.on = TRUE]
  <2>1. b.m # "mmc5"
    BY <1>7
  <2>2. r \in IrqRecs /\ r.m = b.m /\ r.latch \in 0..IrqTop /\ r.ctr \in 0..IrqTop
    BY <1>1, <1>2, <2>1 DEF IrqRecs
  <2> HIDE DEF r
  <2>3. w = <<r, FALSE>> /\ (FALSE) \in BOOLEAN
    BY <1>7 DEF r
  <2> QED
    BY <1>3, <2>1, <2>2, <2>3
<1>8. ASSUME NEW c \in BOOLEAN, b.m # "mmc5",
             w = <<[b EXCEPT !.cycles = c, !.reload = TRUE, !.pre = 0], FALSE>>
      PROVE  Fits(b, w)
  <2> DEFINE r == [b EXCEPT !.cycles = c, !.reload = TRUE, !.pre = 0]
  <2>1. b.m # "mmc5" /\ c \in BOOLEAN
    BY <1>8
  <2>2. r \in IrqRecs /\ r.m = b.m /\ r.latch \in 0..IrqTop /\ r.ctr \in 0..IrqTop
    BY <1>1, <1>2, <2>1 DEF IrqRecs
  <2> HIDE DEF r
  <2>3. w = <<r, FALSE>> /\ (FALSE) \in BOOLEAN
    BY <1>8 DEF r
  <2> QED
    BY <1>3, <2>1, <2>2, <2>3
<1>9. ASSUME NEW x \in Halves, b.m # "mmc5",
             w = <<[b EXCEPT !.latch = WithLow(@, x)], FALSE>>
      PROVE  Fits(b, w)
  <2> DEFINE r == [b EXCEPT !.latch = WithLow(@, x)]
  <2>1. b.m # "mmc5" /\ x \in Halves
    BY <1>9
  <2> DEFINE l1 == WithLow(b.latch, x)
  <2>2. l1 \in 0..IrqTop
    BY <1>1, <1>2, <2>1, HalvesWritten
  <2>3. r = [b EXCEPT !.latch = l1]
    OBVIOUS
  <2> HIDE DEF r, l1
  <2>4. l1 \in Nat
    BY <1>1, <2>2
  <2>5. r \in IrqRecs /\ r.m = b.m /\ r.latch \in 0..IrqTop /\ r.ctr \in 0..IrqTop
    BY <1>1, <1>2, <2>1, <2>2, <2>3, <2>4 DEF IrqRecs
  <2> HIDE DEF r
  <2>6. w = <<r, FALSE>> /\ (FALSE) \in BOOLEAN
    BY <1>9 DEF r
  <2> QED
    BY <1>3, <2>1, <2>5, <2>6
<1>10. ASSUME NEW x \in Halves, b.m # "mmc5",
             w = <<[b EXCEPT !.latch = WithHigh(@, x)], FALSE>>
      PROVE  Fits(b, w)
  <2> DEFINE r == [b EXCEPT !.latch = WithHigh(@, x)]
  <2>1. b.m # "mmc5" /\ x \in Halves
    BY <1>10
  <2> DEFINE l1 == WithHigh(b.latch, x)
  <2>2. l1 \in 0..IrqTop
    BY <1>1, <1>2, <2>1, HalvesWritten
  <2>3. r = [b EXCEPT !.latch = l1]
    OBVIOUS
  <2> HIDE DEF r, l1
  <2>4. l1 \in Nat
    BY <1>1, <2>2
  <2>5. r \in IrqRecs /\ r.m = b.m /\ r.latch \in 0..IrqTop /\ r.ctr \in 0..IrqTop
    BY <1>1, <1>2, <2>1, <2>2, <2>3, <2>4 DEF IrqRecs
  <2> HIDE DEF r
  <2>6. w = <<r, FALSE>> /\ (FALSE) \in BOOLEAN
    BY <1>10 DEF r
  <2> QED
    BY <1>3, <2>1, <2>5, <2>6
<1>11. ASSUME NEW a \in BOOLEAN, NEW e \in BOOLEAN, NEW c \in BOOLEAN, b.m # "mmc5",
             w = <<[b EXCEPT !.after = a, !.on = e, !.cycles = c,
                   !.ctr = IF e THEN b.latch ELSE @, !.pre = IF e THEN IrqDots ELSE @], TRUE>>
      PROVE  Fits(b, w)
  <2> DEFINE r == [b EXCEPT !.after = a, !.on = e, !.cycles = c,
        !.ctr = IF e THEN b.latch ELSE @, !.pre = IF e THEN IrqDots ELSE @]
  <2>1. b.m # "mmc5" /\ a \in BOOLEAN /\ e \in BOOLEAN /\ c \in BOOLEAN
    BY <1>11
  <2> DEFINE c1 == IF e THEN b.latch ELSE b.ctr
           p1 == IF e THEN IrqDots ELSE b.pre
  <2>2. c1 \in 0..IrqTop /\ p1 \in Int
    BY <1>1, <1>2, <2>1, HalvesWritten
  <2>3. r = [b EXCEPT !.after = a, !.on = e, !.cycles = c, !.ctr = c1, !.pre = p1]
    OBVIOUS
  <2> HIDE DEF r, c1, p1
  <2>4. c1 \in Nat
    BY <1>1, <2>2
  <2>5. r \in IrqRecs /\ r.m = b.m /\ r.latch \in 0..IrqTop /\ r.ctr \in 0..IrqTop
    BY <1>1, <1>2, <2>1, <2>2, <2>3, <2>4 DEF IrqRecs
  <2> HIDE DEF r
  <2>6. w = <<r, TRUE>> /\ (TRUE) \in BOOLEAN
    BY <1>11 DEF r
  <2> QED
    BY <1>3, <2>1, <2>5, <2>6
<1>12. ASSUME b.m # "mmc5",
             w = <<[b EXCEPT !.on = b.after], TRUE>>
      PROVE  Fits(b, w)
  <2> DEFINE r == [b EXCEPT !.on = b.after]
  <2>1. b.m # "mmc5"
    BY <1>12
  <2>2. r \in IrqRecs /\ r.m = b.m /\ r.latch \in 0..IrqTop /\ r.ctr \in 0..IrqTop
    BY <1>1, <1>2, <2>1 DEF IrqRecs
  <2> HIDE DEF r
  <2>3. w = <<r, TRUE>> /\ (TRUE) \in BOOLEAN
    BY <1>12 DEF r
  <2> QED
    BY <1>3, <2>1, <2>2, <2>3
<1>13. ASSUME NEW a \in BOOLEAN, NEW e \in BOOLEAN, NEW c \in BOOLEAN, b.m # "mmc5",
             w = <<[b EXCEPT !.after = a, !.on = e, !.cycles = c,
                   !.ctr = IF e THEN b.latch ELSE @, !.pre = IF e THEN 0 ELSE @], ~e>>
      PROVE  Fits(b, w)
  <2> DEFINE r == [b EXCEPT !.after = a, !.on = e, !.cycles = c,
        !.ctr = IF e THEN b.latch ELSE @, !.pre = IF e THEN 0 ELSE @]
  <2>1. b.m # "mmc5" /\ a \in BOOLEAN /\ e \in BOOLEAN /\ c \in BOOLEAN
    BY <1>13
  <2> DEFINE c1 == IF e THEN b.latch ELSE b.ctr
           p1 == IF e THEN 0 ELSE b.pre
  <2>2. c1 \in 0..IrqTop /\ p1 \in Int
    BY <1>1, <1>2, <2>1, HalvesWritten
  <2>3. r = [b EXCEPT !.after = a, !.on = e, !.cycles = c, !.ctr = c1, !.pre = p1]
    OBVIOUS
  <2> HIDE DEF r, c1, p1
  <2>4. c1 \in Nat
    BY <1>1, <2>2
  <2>5. r \in IrqRecs /\ r.m = b.m /\ r.latch \in 0..IrqTop /\ r.ctr \in 0..IrqTop
    BY <1>1, <1>2, <2>1, <2>2, <2>3, <2>4 DEF IrqRecs
  <2> HIDE DEF r
  <2>6. w = <<r, ~e>> /\ (~e) \in BOOLEAN
    BY <1>13 DEF r
  <2> QED
    BY <1>3, <2>1, <2>5, <2>6
<1>14. ASSUME b.m # "mmc5",
             w = <<[b EXCEPT !.ctr = b.latch, !.on = b.after, !.pre = 0], TRUE>>
      PROVE  Fits(b, w)
  <2> DEFINE r == [b EXCEPT !.ctr = b.latch, !.on = b.after, !.pre = 0]
  <2>1. b.m # "mmc5"
    BY <1>14
  <2>2. r \in IrqRecs /\ r.m = b.m /\ r.latch \in 0..IrqTop /\ r.ctr \in 0..IrqTop
    BY <1>1, <1>2, <2>1 DEF IrqRecs
  <2> HIDE DEF r
  <2>3. w = <<r, TRUE>> /\ (TRUE) \in BOOLEAN
    BY <1>14 DEF r
  <2> QED
    BY <1>3, <2>1, <2>2, <2>3
<1>15. ASSUME NEW e \in BOOLEAN, b.m # "mmc5",
             w = <<[b EXCEPT !.on = e, !.ctr = b.latch], TRUE>>
      PROVE  Fits(b, w)
  <2> DEFINE r == [b EXCEPT !.on = e, !.ctr = b.latch]
  <2>1. b.m # "mmc5" /\ e \in BOOLEAN
    BY <1>15
  <2>2. r \in IrqRecs /\ r.m = b.m /\ r.latch \in 0..IrqTop /\ r.ctr \in 0..IrqTop
    BY <1>1, <1>2, <2>1 DEF IrqRecs
  <2> HIDE DEF r
  <2>3. w = <<r, TRUE>> /\ (TRUE) \in BOOLEAN
    BY <1>15 DEF r
  <2> QED
    BY <1>3, <2>1, <2>2, <2>3
<1>16. ASSUME NEW x \in Halves, b.m # "mmc5",
             w = <<[b EXCEPT !.latch = WithLow(@, x), !.ctr = WithLow(@, x)], FALSE>>
      PROVE  Fits(b, w)
  <2> DEFINE r == [b EXCEPT !.latch = WithLow(@, x), !.ctr = WithLow(@, x)]
  <2>1. b.m # "mmc5" /\ x \in Halves
    BY <1>16
  <2> DEFINE l1 == WithLow(b.latch, x)
           c1 == WithLow(b.ctr, x)
  <2>2. l1 \in 0..IrqTop /\ c1 \in 0..IrqTop
    BY <1>1, <1>2, <2>1, HalvesWritten
  <2>3. r = [b EXCEPT !.latch = l1, !.ctr = c1]
    OBVIOUS
  <2> HIDE DEF r, l1, c1
  <2>4. l1 \in Nat /\ c1 \in Nat
    BY <1>1, <2>2
  <2>5. r \in IrqRecs /\ r.m = b.m /\ r.latch \in 0..IrqTop /\ r.ctr \in 0..IrqTop
    BY <1>1, <1>2, <2>1, <2>2, <2>3, <2>4 DEF IrqRecs
  <2> HIDE DEF r
  <2>6. w = <<r, FALSE>> /\ (FALSE) \in BOOLEAN
    BY <1>16 DEF r
  <2> QED
    BY <1>3, <2>1, <2>5, <2>6
<1>17. ASSUME NEW x \in Halves, b.m # "mmc5",
             w = <<[b EXCEPT !.latch = WithHigh(@, x), !.ctr = WithHigh(@, x)], FALSE>>
      PROVE  Fits(b, w)
  <2> DEFINE r == [b EXCEPT !.latch = WithHigh(@, x), !.ctr = WithHigh(@, x)]
  <2>1. b.m # "mmc5" /\ x \in Halves
    BY <1>17
  <2> DEFINE l1 == WithHigh(b.latch, x)
           c1 == WithHigh(b.ctr, x)
  <2>2. l1 \in 0..IrqTop /\ c1 \in 0..IrqTop
    BY <1>1, <1>2, <2>1, HalvesWritten
  <2>3. r = [b EXCEPT !.latch = l1, !.ctr = c1]
    OBVIOUS
  <2> HIDE DEF r, l1, c1
  <2>4. l1 \in Nat /\ c1 \in Nat
    BY <1>1, <2>2
  <2>5. r \in IrqRecs /\ r.m = b.m /\ r.latch \in 0..IrqTop /\ r.ctr \in 0..IrqTop
    BY <1>1, <1>2, <2>1, <2>2, <2>3, <2>4 DEF IrqRecs
  <2> HIDE DEF r
  <2>6. w = <<r, FALSE>> /\ (FALSE) \in BOOLEAN
    BY <1>17 DEF r
  <2> QED
    BY <1>3, <2>1, <2>5, <2>6
<1>18. ASSUME NEW x \in Halves, b.m # "mmc5",
             w = <<[b EXCEPT !.ctr = WithLow(@, x)], TRUE>>
      PROVE  Fits(b, w)
  <2> DEFINE r == [b EXCEPT !.ctr = WithLow(@, x)]
  <2>1. b.m # "mmc5" /\ x \in Halves
    BY <1>18
  <2> DEFINE c1 == WithLow(b.ctr, x)
  <2>2. c1 \in 0..IrqTop
    BY <1>1, <1>2, <2>1, HalvesWritten
  <2>3. r = [b EXCEPT !.ctr = c1]
    OBVIOUS
  <2> HIDE DEF r, c1
  <2>4. c1 \in Nat
    BY <1>1, <2>2
  <2>5. r \in IrqRecs /\ r.m = b.m /\ r.latch \in 0..IrqTop /\ r.ctr \in 0..IrqTop
    BY <1>1, <1>2, <2>1, <2>2, <2>3, <2>4 DEF IrqRecs
  <2> HIDE DEF r
  <2>6. w = <<r, TRUE>> /\ (TRUE) \in BOOLEAN
    BY <1>18 DEF r
  <2> QED
    BY <1>3, <2>1, <2>5, <2>6
<1>19. ASSUME NEW x \in Halves, NEW e \in BOOLEAN, b.m # "mmc5",
             w = <<[b EXCEPT !.ctr = WithHigh(@, x), !.on = e], TRUE>>
      PROVE  Fits(b, w)
  <2> DEFINE r == [b EXCEPT !.ctr = WithHigh(@, x), !.on = e]
  <2>1. b.m # "mmc5" /\ x \in Halves /\ e \in BOOLEAN
    BY <1>19
  <2> DEFINE c1 == WithHigh(b.ctr, x)
  <2>2. c1 \in 0..IrqTop
    BY <1>1, <1>2, <2>1, HalvesWritten
  <2>3. r = [b EXCEPT !.ctr = c1, !.on = e]
    OBVIOUS
  <2> HIDE DEF r, c1
  <2>4. c1 \in Nat
    BY <1>1, <2>2
  <2>5. r \in IrqRecs /\ r.m = b.m /\ r.latch \in 0..IrqTop /\ r.ctr \in 0..IrqTop
    BY <1>1, <1>2, <2>1, <2>2, <2>3, <2>4 DEF IrqRecs
  <2> HIDE DEF r
  <2>6. w = <<r, TRUE>> /\ (TRUE) \in BOOLEAN
    BY <1>19 DEF r
  <2> QED
    BY <1>3, <2>1, <2>5, <2>6
<1>20. ASSUME NEW e \in BOOLEAN, NEW c \in BOOLEAN, b.m # "mmc5",
             w = <<[b EXCEPT !.on = e, !.counting = c], TRUE>>
      PROVE  Fits(b, w)
  <2> DEFINE r == [b EXCEPT !.on = e, !.counting = c]
  <2>1. b.m # "mmc5" /\ e \in BOOLEAN /\ c \in BOOLEAN
    BY <1>20
  <2>2. r \in IrqRecs /\ r.m = b.m /\ r.latch \in 0..IrqTop /\ r.ctr \in 0..IrqTop
    BY <1>1, <1>2, <2>1 DEF IrqRecs
  <2> HIDE DEF r
  <2>3. w = <<r, TRUE>> /\ (TRUE) \in BOOLEAN
    BY <1>20 DEF r
  <2> QED
    BY <1>3, <2>1, <2>2, <2>3
<1>21. ASSUME NEW x \in Halves, b.m # "mmc5",
             w = <<[b EXCEPT !.ctr = WithLow(@, x)], FALSE>>
      PROVE  Fits(b, w)
  <2> DEFINE r == [b EXCEPT !.ctr = WithLow(@, x)]
  <2>1. b.m # "mmc5" /\ x \in Halves
    BY <1>21
  <2> DEFINE c1 == WithLow(b.ctr, x)
  <2>2. c1 \in 0..IrqTop
    BY <1>1, <1>2, <2>1, HalvesWritten
  <2>3. r = [b EXCEPT !.ctr = c1]
    OBVIOUS
  <2> HIDE DEF r, c1
  <2>4. c1 \in Nat
    BY <1>1, <2>2
  <2>5. r \in IrqRecs /\ r.m = b.m /\ r.latch \in 0..IrqTop /\ r.ctr \in 0..IrqTop
    BY <1>1, <1>2, <2>1, <2>2, <2>3, <2>4 DEF IrqRecs
  <2> HIDE DEF r
  <2>6. w = <<r, FALSE>> /\ (FALSE) \in BOOLEAN
    BY <1>21 DEF r
  <2> QED
    BY <1>3, <2>1, <2>5, <2>6
<1>22. ASSUME NEW x \in Halves, b.m # "mmc5",
             w = <<[b EXCEPT !.ctr = WithHigh(@, x)], FALSE>>
      PROVE  Fits(b, w)
  <2> DEFINE r == [b EXCEPT !.ctr = WithHigh(@, x)]
  <2>1. b.m # "mmc5" /\ x \in Halves
    BY <1>22
  <2> DEFINE c1 == WithHigh(b.ctr, x)
  <2>2. c1 \in 0..IrqTop
    BY <1>1, <1>2, <2>1, HalvesWritten
  <2>3. r = [b EXCEPT !.ctr = c1]
    OBVIOUS
  <2> HIDE DEF r, c1
  <2>4. c1 \in Nat
    BY <1>1, <2>2
  <2>5. r \in IrqRecs /\ r.m = b.m /\ r.latch \in 0..IrqTop /\ r.ctr \in 0..IrqTop
    BY <1>1, <1>2, <2>1, <2>2, <2>3, <2>4 DEF IrqRecs
  <2> HIDE DEF r
  <2>6. w = <<r, FALSE>> /\ (FALSE) \in BOOLEAN
    BY <1>22 DEF r
  <2> QED
    BY <1>3, <2>1, <2>5, <2>6
<1>23. CASE b.m = "mmc3"
  <2>0. w \in Mmc3Writes(b)
    BY <1>23 DEF CounterWrites
  <2>1. \/ \E v \in 0..IrqTop : w = <<[b EXCEPT !.latch = v], FALSE>>
        \/ w = <<[b EXCEPT !.reload = TRUE, !.ctr = 0], FALSE>>
        \/ w = <<[b EXCEPT !.on = FALSE], TRUE>>
        \/ w = <<[b EXCEPT !.on = TRUE], FALSE>>
    BY <2>0 DEF Mmc3Writes
  <2>2. b.m # "mmc5"
    BY <1>23
  <2>3. CASE \E v \in 0..IrqTop : w = <<[b EXCEPT !.latch = v], FALSE>>
    BY <1>4, <2>2, <2>3
  <2>4. CASE w = <<[b EXCEPT !.reload = TRUE, !.ctr = 0], FALSE>>
    BY <1>5, <2>2, <2>4
  <2>5. CASE w = <<[b EXCEPT !.on = FALSE], TRUE>>
    BY <1>6, <2>2, <2>5
  <2>6. CASE w = <<[b EXCEPT !.on = TRUE], FALSE>>
    BY <1>7, <2>2, <2>6
  <2> QED
    BY <2>1, <2>3, <2>4, <2>5, <2>6
<1>24. CASE b.m = "rambo"
  <2>0. w \in RamboWrites(b)
    BY <1>24 DEF CounterWrites
  <2>1. \/ \E v \in 0..IrqTop : w = <<[b EXCEPT !.latch = v], FALSE>>
        \/ \E c \in BOOLEAN : w = <<[b EXCEPT !.cycles = c, !.reload = TRUE, !.pre = 0], FALSE>>
        \/ w = <<[b EXCEPT !.on = FALSE], TRUE>>
        \/ w = <<[b EXCEPT !.on = TRUE], FALSE>>
    BY <2>0 DEF RamboWrites
  <2>2. b.m # "mmc5"
    BY <1>24
  <2>3. CASE \E v \in 0..IrqTop : w = <<[b EXCEPT !.latch = v], FALSE>>
    BY <1>4, <2>2, <2>3
  <2>4. CASE \E c \in BOOLEAN : w = <<[b EXCEPT !.cycles = c, !.reload = TRUE, !.pre = 0], FALSE>>
    BY <1>8, <2>2, <2>4
  <2>5. CASE w = <<[b EXCEPT !.on = FALSE], TRUE>>
    BY <1>6, <2>2, <2>5
  <2>6. CASE w = <<[b EXCEPT !.on = TRUE], FALSE>>
    BY <1>7, <2>2, <2>6
  <2> QED
    BY <2>1, <2>3, <2>4, <2>5, <2>6
<1>25. CASE b.m = "vrc4"
  <2>0. w \in Vrc4Writes(b)
    BY <1>25 DEF CounterWrites
  <2>1. \/ \E x \in Halves : w = <<[b EXCEPT !.latch = WithLow(@, x)], FALSE>>
        \/ \E x \in Halves : w = <<[b EXCEPT !.latch = WithHigh(@, x)], FALSE>>
        \/ \E a \in BOOLEAN : \E e \in BOOLEAN : \E c \in BOOLEAN : w = <<[b EXCEPT !.after = a,
              !.on = e, !.cycles = c, !.ctr = IF e THEN b.latch ELSE @,
                    !.pre = IF e THEN IrqDots ELSE @], TRUE>>
        \/ w = <<[b EXCEPT !.on = b.after], TRUE>>
    <3>1. \/ \E x \in Halves : w = <<[b EXCEPT !.latch = WithLow(@, x)], FALSE>>
          \/ \E x \in Halves : w = <<[b EXCEPT !.latch = WithHigh(@, x)], FALSE>>
          \/ w \in Vrc4Controls(b)
          \/ w = <<[b EXCEPT !.on = b.after], TRUE>>
      BY <2>0 DEF Vrc4Writes
    <3>2. w \in Vrc4Controls(b) => \E a \in BOOLEAN : \E e \in BOOLEAN : \E c \in BOOLEAN : w = Vrc4Control(b, a, e, c)
      BY DEF Vrc4Controls
    <3> QED
      BY <3>1, <3>2, Zenon DEF Vrc4Control
  <2>2. b.m # "mmc5"
    BY <1>25
  <2>3. CASE \E x \in Halves : w = <<[b EXCEPT !.latch = WithLow(@, x)], FALSE>>
    BY <1>9, <2>2, <2>3
  <2>4. CASE \E x \in Halves : w = <<[b EXCEPT !.latch = WithHigh(@, x)], FALSE>>
    BY <1>10, <2>2, <2>4
  <2>5. CASE \E a \in BOOLEAN : \E e \in BOOLEAN : \E c \in BOOLEAN : w = <<[b EXCEPT !.after = a, !.on = e, !.cycles = c, !.ctr = IF e THEN b.latch ELSE @, !.pre = IF e THEN IrqDots ELSE @], TRUE>>
    BY <1>11, <2>2, <2>5
  <2>6. CASE w = <<[b EXCEPT !.on = b.after], TRUE>>
    BY <1>12, <2>2, <2>6
  <2> QED
    BY <2>1, <2>3, <2>4, <2>5, <2>6
<1>26. CASE b.m = "vrc6"
  <2>0. w \in Vrc6Writes(b)
    BY <1>26 DEF CounterWrites
  <2>1. \/ \E v \in 0..IrqTop : w = <<[b EXCEPT !.latch = v], FALSE>>
        \/ \E a \in BOOLEAN : \E e \in BOOLEAN : \E c \in BOOLEAN : w = <<[b EXCEPT !.after = a,
              !.on = e, !.cycles = c, !.ctr = IF e THEN b.latch ELSE @, !.pre = IF e THEN 0 ELSE @], ~e>>
        \/ w = <<[b EXCEPT !.ctr = b.latch, !.on = b.after, !.pre = 0], TRUE>>
    <3>1. \/ \E v \in 0..IrqTop : w = <<[b EXCEPT !.latch = v], FALSE>>
          \/ w \in Vrc6Controls(b)
          \/ w = <<[b EXCEPT !.ctr = b.latch, !.on = b.after, !.pre = 0], TRUE>>
      BY <2>0 DEF Vrc6Writes
    <3>2. w \in Vrc6Controls(b) => \E a \in BOOLEAN : \E e \in BOOLEAN : \E c \in BOOLEAN : w = Vrc6Control(b, a, e, c)
      BY DEF Vrc6Controls
    <3> QED
      BY <3>1, <3>2, Zenon DEF Vrc6Control
  <2>2. b.m # "mmc5"
    BY <1>26
  <2>3. CASE \E v \in 0..IrqTop : w = <<[b EXCEPT !.latch = v], FALSE>>
    BY <1>4, <2>2, <2>3
  <2>4. CASE \E a \in BOOLEAN : \E e \in BOOLEAN : \E c \in BOOLEAN : w = <<[b EXCEPT !.after = a, !.on = e, !.cycles = c, !.ctr = IF e THEN b.latch ELSE @, !.pre = IF e THEN 0 ELSE @], ~e>>
    BY <1>13, <2>2, <2>4
  <2>5. CASE w = <<[b EXCEPT !.ctr = b.latch, !.on = b.after, !.pre = 0], TRUE>>
    BY <1>14, <2>2, <2>5
  <2> QED
    BY <2>1, <2>3, <2>4, <2>5
<1>27. CASE b.m = "bandai"
  <2>0. w \in BandaiWrites(b)
    BY <1>27 DEF CounterWrites
  <2>1. \/ \E e \in BOOLEAN : w = <<[b EXCEPT !.on = e, !.ctr = b.latch], TRUE>>
        \/ \E x \in Halves : w = <<[b EXCEPT !.latch = WithLow(@, x), !.ctr = WithLow(@, x)], FALSE>>
        \/ \E x \in Halves : w = <<[b EXCEPT !.latch = WithHigh(@, x), !.ctr = WithHigh(@, x)], FALSE>>
    BY <2>0 DEF BandaiWrites
  <2>2. b.m # "mmc5"
    BY <1>27
  <2>3. CASE \E e \in BOOLEAN : w = <<[b EXCEPT !.on = e, !.ctr = b.latch], TRUE>>
    BY <1>15, <2>2, <2>3
  <2>4. CASE \E x \in Halves : w = <<[b EXCEPT !.latch = WithLow(@, x), !.ctr = WithLow(@, x)], FALSE>>
    BY <1>16, <2>2, <2>4
  <2>5. CASE \E x \in Halves : w = <<[b EXCEPT !.latch = WithHigh(@, x), !.ctr = WithHigh(@, x)], FALSE>>
    BY <1>17, <2>2, <2>5
  <2> QED
    BY <2>1, <2>3, <2>4, <2>5
<1>28. CASE b.m = "n163"
  <2>0. w \in N163Writes(b)
    BY <1>28 DEF CounterWrites
  <2>1. \/ \E x \in Halves : w = <<[b EXCEPT !.ctr = WithLow(@, x)], TRUE>>
        \/ \E x \in Halves : \E e \in BOOLEAN : w = <<[b EXCEPT !.ctr = WithHigh(@, x), !.on = e], TRUE>>
    <3>1. \/ \E x \in Halves : w = <<[b EXCEPT !.ctr = WithLow(@, x)], TRUE>>
          \/ w \in N163Highs(b)
      BY <2>0 DEF N163Writes
    <3>2. w \in N163Highs(b) => \E x \in Halves : \E e \in BOOLEAN : w = N163High(b, x, e)
      BY DEF N163Highs
    <3> QED
      BY <3>1, <3>2, Zenon DEF N163High
  <2>2. b.m # "mmc5"
    BY <1>28
  <2>3. CASE \E x \in Halves : w = <<[b EXCEPT !.ctr = WithLow(@, x)], TRUE>>
    BY <1>18, <2>2, <2>3
  <2>4. CASE \E x \in Halves : \E e \in BOOLEAN : w = <<[b EXCEPT !.ctr = WithHigh(@, x),
        !.on = e], TRUE>>
    BY <1>19, <2>2, <2>4
  <2> QED
    BY <2>1, <2>3, <2>4
<1>29. CASE b.m = "fme7"
  <2>0. w \in Fme7Writes(b)
    BY <1>29 DEF CounterWrites
  <2>1. \/ \E e \in BOOLEAN : \E c \in BOOLEAN : w = <<[b EXCEPT !.on = e, !.counting = c], TRUE>>
        \/ \E x \in Halves : w = <<[b EXCEPT !.ctr = WithLow(@, x)], FALSE>>
        \/ \E x \in Halves : w = <<[b EXCEPT !.ctr = WithHigh(@, x)], FALSE>>
    <3>1. \/ w \in Fme7Controls(b)
          \/ \E x \in Halves : w = <<[b EXCEPT !.ctr = WithLow(@, x)], FALSE>>
          \/ \E x \in Halves : w = <<[b EXCEPT !.ctr = WithHigh(@, x)], FALSE>>
      BY <2>0 DEF Fme7Writes
    <3>2. w \in Fme7Controls(b) => \E e \in BOOLEAN : \E c \in BOOLEAN : w = Fme7Control(b, e, c)
      BY DEF Fme7Controls
    <3> QED
      BY <3>1, <3>2, Zenon DEF Fme7Control
  <2>2. b.m # "mmc5"
    BY <1>29
  <2>3. CASE \E e \in BOOLEAN : \E c \in BOOLEAN : w = <<[b EXCEPT !.on = e, !.counting = c], TRUE>>
    BY <1>20, <2>2, <2>3
  <2>4. CASE \E x \in Halves : w = <<[b EXCEPT !.ctr = WithLow(@, x)], FALSE>>
    BY <1>21, <2>2, <2>4
  <2>5. CASE \E x \in Halves : w = <<[b EXCEPT !.ctr = WithHigh(@, x)], FALSE>>
    BY <1>22, <2>2, <2>5
  <2> QED
    BY <2>1, <2>3, <2>4, <2>5
<1>30. CASE b.m = "mmc5"
  <2>0. w \in Mmc5Writes(b)
    BY <1>30 DEF CounterWrites
  <2>1. \/ \E v \in 0..IrqLines : w = <<[b EXCEPT !.latch = v], FALSE>>
        \/ w = <<[b EXCEPT !.on = TRUE], FALSE>>
        \/ w = <<[b EXCEPT !.on = FALSE, !.pending = FALSE], TRUE>>
        \/ w = <<[b EXCEPT !.pending = FALSE], TRUE>>
    BY <2>0 DEF Mmc5Writes
  <2>2. ASSUME NEW l \in Nat, NEW on \in BOOLEAN, NEW pending \in BOOLEAN, NEW k \in BOOLEAN,
               w = <<[b EXCEPT !.latch = l, !.on = on, !.pending = pending], k>>
        PROVE  Fits(b, w)
    <3> DEFINE r == [b EXCEPT !.latch = l, !.on = on, !.pending = pending]
    <3>1. r \in IrqRecs /\ r.m = b.m /\ r.ctr = b.ctr /\ r.line = b.line /\ r.counting = b.counting
      BY DEF IrqRecs
    <3> HIDE DEF r
    <3>2. IrqRange(r)
      BY <1>30, <3>1 DEF IrqRange
    <3> QED
      BY <2>2, <3>1, <3>2, FitsIs DEF r
  <2>3. ASSUME NEW v \in 0..IrqLines, w = <<[b EXCEPT !.latch = v], FALSE>> PROVE Fits(b, w)
    <3>1. [b EXCEPT !.latch = v] = [b EXCEPT !.latch = v, !.on = b.on, !.pending = b.pending]
      BY DEF IrqRecs
    <3>2. w = <<[b EXCEPT !.latch = v, !.on = b.on, !.pending = b.pending], FALSE>> /\ v \in Nat
      BY <1>1, <2>3, <3>1
    <3> QED
      BY <1>1, <2>2, <3>2
  <2>4. CASE w = <<[b EXCEPT !.on = TRUE], FALSE>>
    <3>1. [b EXCEPT !.on = TRUE] = [b EXCEPT !.latch = b.latch, !.on = TRUE, !.pending = b.pending]
      BY DEF IrqRecs
    <3> QED
      BY <1>1, <2>2, <2>4, <3>1
  <2>5. CASE w = <<[b EXCEPT !.on = FALSE, !.pending = FALSE], TRUE>>
    <3>1. [b EXCEPT !.on = FALSE, !.pending = FALSE] = [b EXCEPT !.latch = b.latch, !.on = FALSE,
          !.pending = FALSE]
      BY DEF IrqRecs
    <3> QED
      BY <1>1, <2>2, <2>5, <3>1
  <2>6. CASE w = <<[b EXCEPT !.pending = FALSE], TRUE>>
    <3>1. [b EXCEPT !.pending = FALSE] = [b EXCEPT !.latch = b.latch, !.on = b.on, !.pending = FALSE]
      BY DEF IrqRecs
    <3> QED
      BY <1>1, <2>2, <2>6, <3>1
  <2> QED
    BY <2>1, <2>3, <2>4, <2>5, <2>6
<1> QED
  BY <1>23, <1>24, <1>25, <1>26, <1>27, <1>28, <1>29, <1>30 DEF CounterWrites

LEMMA LinesAre ==
  ASSUME IrqLinesAgree
  PROVE  cartIrq \in BOOLEAN /\ apuIrq \in BOOLEAN /\ rang \in BOOLEAN /\ cartIrq = rang
         /\ cpuIrq = (cartIrq \/ apuIrq)
BY DEF IrqLinesAgree, CountersKeepTime

LEMMA IrqWriteStep == IrqInv /\ IrqWrite => IrqInv'
<1> SUFFICES ASSUME IrqInv, IrqWrite PROVE IrqInv'
  OBVIOUS
<1>1. irqb \in IrqRecs /\ IrqRange(irqb) /\ IrqLinesAgree
  BY DEF IrqInv
<1>2. PICK w \in CounterWrites(irqb) :
        /\ irqb' = w[1] /\ apuIrq' = apuIrq /\ cartIrq' = (cartIrq /\ ~w[2])
        /\ IF w[2] THEN UpdateIrq ELSE cpuIrq' = cpuIrq
        /\ due' = DueIn(irqb') /\ rang' = (rang /\ ~w[2])
  BY DEF IrqWrite
<1>3. w[1] \in IrqRecs /\ IrqRange(w[1]) /\ w[2] \in BOOLEAN
  BY <1>1, WritesFit DEF Fits
<1>4. IrqDue(irqb', due')
  BY <1>2, <1>3, DueTyped
<1>5. IrqLinesAgree'
  <2>1. cartIrq \in BOOLEAN /\ apuIrq \in BOOLEAN /\ rang \in BOOLEAN /\ cartIrq = rang
        /\ cpuIrq = (cartIrq \/ apuIrq)
    BY <1>1, LinesAre
  <2>2. cartIrq' \in BOOLEAN /\ apuIrq' \in BOOLEAN /\ rang' \in BOOLEAN /\ cartIrq' = rang'
    BY <1>2, <1>3, <2>1
  <2>3. cpuIrq' = (cartIrq' \/ apuIrq')
    <3>1. CASE w[2]
      BY <1>2, <2>2, <3>1 DEF UpdateIrq
    <3>2. CASE ~w[2]
      <4>1. cpuIrq' = cpuIrq /\ cartIrq' = cartIrq /\ apuIrq' = apuIrq
        BY <1>2, <2>1, <3>2
      <4> QED
        BY <2>1, <4>1
    <3> QED
      BY <3>1, <3>2
  <2> QED
    BY <2>2, <2>3 DEF IrqLinesAgree, CountersKeepTime
<1> QED
  BY <1>2, <1>3, <1>4, <1>5 DEF IrqInv

LEMMA PrescaleStep ==
  ASSUME IrqInv, NEW b \in IrqRecs, IrqRange(b), IrqDue(b, due), Prescale(b), apuIrq' = apuIrq
  PROVE  IrqInv'
<1>1. irqb' = b /\ cartIrq' = cartIrq /\ cpuIrq' = cpuIrq /\ due' = due /\ rang' = rang
  BY DEF Prescale
<1>2. IrqLinesAgree'
  BY <1>1, Zenon DEF IrqInv, IrqLinesAgree, CountersKeepTime
<1> QED
  BY <1>1, <1>2 DEF IrqInv

LEMMA CpuCycleStep == IrqInv /\ CpuCycle => IrqInv'
<1> SUFFICES ASSUME IrqInv, CpuCycle PROVE IrqInv'
  OBVIOUS
<1> DEFINE vrcPre == IF irqb.m = "vrc4" THEN irqb.pre - 3 ELSE irqb.pre + 1
           full == IF irqb.m = "vrc4" THEN vrcPre <= 0 ELSE vrcPre >= IrqDots
           after == IF irqb.m = "vrc4" THEN vrcPre + IrqDots ELSE 0
           next == irqb.pre + 1
<1>1. irqb \in IrqRecs /\ IrqRange(irqb) /\ IrqDue(irqb, due)
  BY DEF IrqInv
<1>2. irqb.pre \in Int /\ IrqDots \in Int /\ 0 \in Int
  BY <1>1, IrqSizes DEF IrqRecs
<1>3. vrcPre \in Int /\ next \in Int
  BY <1>2
<1>4. after \in Int
  BY <1>2, <1>3
<1>5. /\ apuIrq' = apuIrq
      /\ \/ irqb.m \in {"bandai", "n163"} /\ irqb.on /\ Clock(irqb)
         \/ irqb.m = "fme7" /\ irqb.counting /\ Clock(irqb)
         \/ irqb.m = "rambo" /\ irqb.cycles /\ IF next >= 4 THEN Clock([irqb EXCEPT !.pre = 0])
                                               ELSE Prescale([irqb EXCEPT !.pre = next])
         \/ irqb.m \in {"vrc4", "vrc6"} /\ irqb.on /\ irqb.cycles /\ Clock(irqb)
         \/ /\ irqb.m \in {"vrc4", "vrc6"} /\ irqb.on /\ ~irqb.cycles
            /\ IF full THEN Clock([irqb EXCEPT !.pre = after]) ELSE Prescale([irqb EXCEPT !.pre = vrcPre])
  BY DEF CpuCycle
<1> HIDE DEF vrcPre, full, after, next
<1>6. CASE irqb.m \in {"bandai", "n163", "fme7", "vrc4", "vrc6"} /\ Clock(irqb)
           /\ (irqb.m \in {"bandai", "n163", "vrc4", "vrc6"} => irqb.on)
  BY <1>1, <1>5, <1>6, ClockStep
<1>7. CASE irqb.m = "rambo" /\ Clock([irqb EXCEPT !.pre = 0])
  <2> DEFINE b == [irqb EXCEPT !.pre = 0]
  <2>1. b \in IrqRecs /\ b.m = irqb.m /\ IrqRange(b) /\ IrqDue(b, due)
    BY <1>1, <1>2, PrescaledIs
  <2>2. Clock(b)
    BY <1>7
  <2> HIDE DEF b
  <2> QED
    BY <1>5, <1>7, <2>1, <2>2, ClockStep
<1>8. CASE Prescale([irqb EXCEPT !.pre = next])
  <2> DEFINE b == [irqb EXCEPT !.pre = next]
  <2>1. b \in IrqRecs /\ IrqRange(b) /\ IrqDue(b, due)
    BY <1>1, <1>3, PrescaledIs
  <2>2. Prescale(b)
    BY <1>8
  <2> HIDE DEF b
  <2> QED
    BY <1>5, <2>1, <2>2, PrescaleStep
<1>9. CASE irqb.m \in {"vrc4", "vrc6"} /\ irqb.on /\ Clock([irqb EXCEPT !.pre = after])
  <2> DEFINE b == [irqb EXCEPT !.pre = after]
  <2>1. b \in IrqRecs /\ b.m = irqb.m /\ b.on = irqb.on /\ IrqRange(b) /\ IrqDue(b, due)
    BY <1>1, <1>4, PrescaledIs
  <2>2. Clock(b)
    BY <1>9
  <2> HIDE DEF b
  <2> QED
    BY <1>5, <1>9, <2>1, <2>2, ClockStep
<1>10. CASE Prescale([irqb EXCEPT !.pre = vrcPre])
  <2> DEFINE b == [irqb EXCEPT !.pre = vrcPre]
  <2>1. b \in IrqRecs /\ IrqRange(b) /\ IrqDue(b, due)
    BY <1>1, <1>3, PrescaledIs
  <2>2. Prescale(b)
    BY <1>10
  <2> HIDE DEF b
  <2> QED
    BY <1>5, <2>1, <2>2, PrescaleStep
<1> QED
  BY <1>5, <1>6, <1>7, <1>8, <1>9, <1>10

LEMMA ScanlineStep == IrqInv /\ Scanline => IrqInv'
BY ClockStep DEF Scanline, IrqInv

\* The line at which mmc5 interrupts is the line it was asked for.
LEMMA Mmc5Step == IrqInv /\ Mmc5Scanline(irqb.line) => IrqInv'
<1> SUFFICES ASSUME IrqInv, Mmc5Scanline(irqb.line) PROVE IrqInv'
  OBVIOUS
<1> DEFINE l == irqb.line
           n == IF irqb.counting THEN irqb.ctr + 1 ELSE 0
           hit == irqb.latch > 0 /\ n = irqb.latch
           pending == irqb.pending \/ hit
           l1 == l + 1
<1>1. irqb \in IrqRecs /\ IrqRange(irqb) /\ IrqDue(irqb, due) /\ IrqLinesAgree
  BY DEF IrqInv
<1>2. /\ irqb.m = "mmc5" /\ apuIrq' = apuIrq /\ due' = due
      /\ IF l = IrqLines THEN irqb' = [irqb EXCEPT !.counting = FALSE, !.line = 0]
            /\ UNCHANGED <<cartIrq, cpuIrq, rang>>
         ELSE /\ irqb' = [irqb EXCEPT !.counting = TRUE, !.ctr = n, !.pending = pending, !.line = l1]
              /\ cartIrq' = (cartIrq \/ (hit /\ irqb.on))
              /\ rang' = (rang \/ (l = irqb.latch /\ l > 0 /\ irqb.on))
              /\ IF hit /\ irqb.on THEN UpdateIrq ELSE cpuIrq' = cpuIrq
  BY DEF Mmc5Scanline
<1>3. /\ irqb.latch \in Nat /\ irqb.ctr \in Nat /\ irqb.line \in Nat /\ irqb.counting \in BOOLEAN
      /\ irqb.on \in BOOLEAN /\ irqb.pending \in BOOLEAN
  BY <1>1 DEF IrqRecs
<1>4. n = l /\ l1 = n + 1 /\ n \in Nat /\ l1 \in Nat /\ pending \in BOOLEAN
  BY <1>1, <1>2, <1>3 DEF IrqRange
<1>5. hit <=> l = irqb.latch /\ l > 0
  BY <1>3, <1>4
<1> HIDE DEF n, hit, pending, l1
<1>6. cartIrq \in BOOLEAN /\ apuIrq \in BOOLEAN /\ rang \in BOOLEAN /\ cartIrq = rang
      /\ cpuIrq = (cartIrq \/ apuIrq)
  BY <1>1, LinesAre
<1>7. due = -1
  BY <1>1, <1>2 DEF IrqDue, DueIn
<1>8. CASE l = IrqLines
  <2> DEFINE r == [irqb EXCEPT !.counting = FALSE, !.line = 0]
  <2>1. r \in IrqRecs /\ r.m = "mmc5" /\ r.counting = FALSE /\ r.line = 0
    BY <1>1, <1>2 DEF IrqRecs
  <2>2. irqb' = r /\ cartIrq' = cartIrq /\ cpuIrq' = cpuIrq /\ rang' = rang
    BY <1>2, <1>8
  <2> HIDE DEF r
  <2>3. IrqRange(r) /\ IrqDue(r, due)
    BY <1>7, <2>1 DEF IrqRange, IrqDue, DueIn
  <2>4. IrqLinesAgree'
    BY <1>2, <1>6, <2>2 DEF IrqLinesAgree, CountersKeepTime
  <2> QED
    BY <1>2, <2>1, <2>2, <2>3, <2>4 DEF IrqInv
<1>9. CASE l # IrqLines
  <2> DEFINE r == [irqb EXCEPT !.counting = TRUE, !.ctr = n, !.pending = pending, !.line = l1]
  <2>1. r \in IrqRecs /\ r.m = "mmc5" /\ r.counting = TRUE /\ r.ctr = n /\ r.line = l1
    BY <1>1, <1>2, <1>4 DEF IrqRecs
  <2>2. /\ irqb' = r /\ cartIrq' = (cartIrq \/ (hit /\ irqb.on))
        /\ rang' = (rang \/ (l = irqb.latch /\ l > 0 /\ irqb.on))
        /\ IF hit /\ irqb.on THEN UpdateIrq ELSE cpuIrq' = cpuIrq
    BY <1>2, <1>9
  <2> HIDE DEF r
  <2>3. IrqRange(r) /\ IrqDue(r, due)
    BY <1>4, <1>7, <2>1 DEF IrqRange, IrqDue, DueIn
  <2>4. cartIrq' = rang' /\ cartIrq' \in BOOLEAN
    BY <1>3, <1>5, <1>6, <2>2
  <2>5. cpuIrq' = (cartIrq' \/ apuIrq')
    <3>1. CASE hit /\ irqb.on
      BY <2>2, <3>1 DEF UpdateIrq
    <3>2. CASE ~(hit /\ irqb.on)
      <4>1. cpuIrq' = cpuIrq /\ cartIrq' = cartIrq
        BY <1>6, <2>2, <3>2
      <4> QED
        BY <1>2, <1>6, <4>1
    <3> QED
      BY <3>1, <3>2
  <2>6. IrqLinesAgree'
    BY <1>2, <1>6, <2>4, <2>5 DEF IrqLinesAgree, CountersKeepTime
  <2> QED
    BY <1>2, <2>1, <2>2, <2>3, <2>6 DEF IrqInv
<1> QED
  BY <1>8, <1>9

LEMMA IrqPowerStep ==
  ASSUME IrqInv, NEW m \in IrqBoards, IrqPowerOn(m)
  PROVE  IrqInv'
<1> DEFINE r == [NoCounter EXCEPT !.m = m]
<1>1. /\ irqb' = r /\ due' = DueIn(irqb') /\ cartIrq' = cartIrq /\ apuIrq' = apuIrq
      /\ cpuIrq' = cpuIrq /\ rang' = rang
  BY DEF IrqPowerOn
<1>2. r \in IrqRecs /\ r.latch = 0 /\ r.ctr = 0 /\ r.line = 0 /\ r.counting = FALSE
  <2>1. /\ NoCounter \in IrqRecs /\ NoCounter.latch = 0 /\ NoCounter.ctr = 0 /\ NoCounter.line = 0
        /\ NoCounter.counting = FALSE
    BY DEF NoCounter, IrqRecs
  <2>2. m \in IrqBoards \cup {"none"}
    OBVIOUS
  <2> QED
    BY <2>1, <2>2 DEF IrqRecs
<1> HIDE DEF r
<1>3. IrqRange(r)
  BY <1>2, TopIs DEF IrqRange
<1>4. IrqDue(irqb', due')
  BY <1>1, <1>2, <1>3, DueTyped
<1>5. IrqLinesAgree'
  BY <1>1, Zenon DEF IrqInv, IrqLinesAgree, CountersKeepTime
<1> QED
  BY <1>1, <1>2, <1>3, <1>4, <1>5 DEF IrqInv

LEMMA IrqInitial == IrqInit => IrqInv
<1> SUFFICES ASSUME IrqInit PROVE IrqInv
  OBVIOUS
<1>1. irqb = NoCounter /\ cartIrq = FALSE /\ apuIrq = FALSE /\ cpuIrq = FALSE /\ due = -1 /\ rang = FALSE
  BY DEF IrqInit
<1>2. NoCounter \in IrqRecs /\ NoCounter.latch = 0 /\ NoCounter.ctr = 0 /\ NoCounter.m = "none"
  BY DEF NoCounter, IrqRecs
<1>3. IrqRange(NoCounter) /\ IrqDue(NoCounter, -1)
  BY <1>2, TopIs DEF IrqRange, IrqDue, DueIn
<1> QED
  BY <1>1, <1>2, <1>3 DEF IrqInv, IrqLinesAgree, CountersKeepTime

IrqSpec == IrqInit /\ [][IrqNext]_cartIrqVars

\* The processor sees a cartridge's interrupt on the clock that the values
\* written last call for and on no other, until it is acknowledged, and the
\* sound chip's interrupt whenever that has one: for counters of any width,
\* lines of any number of dots and frames of any number of lines.
THEOREM CountersTimely == IrqSpec => []CountersKeepTime
<1>1. IrqInv /\ [IrqNext]_cartIrqVars => IrqInv'
  <2> SUFFICES ASSUME IrqInv, [IrqNext]_cartIrqVars PROVE IrqInv'
    OBVIOUS
  <2>1. CASE \E m \in IrqBoards : IrqPowerOn(m)
    BY <2>1, IrqPowerStep
  <2>2. CASE IrqWrite
    BY <2>2, IrqWriteStep
  <2>3. CASE CpuCycle
    BY <2>3, CpuCycleStep
  <2>4. CASE Scanline
    BY <2>4, ScanlineStep
  <2>5. CASE Mmc5Scanline(irqb.line)
    BY <2>5, Mmc5Step
  <2>6. CASE ApuEvent
    <3>1. /\ apuIrq' \in BOOLEAN /\ irqb' = irqb /\ cartIrq' = cartIrq /\ due' = due /\ rang' = rang
          /\ cpuIrq' = (apuIrq' \/ cartIrq')
      BY <2>6 DEF ApuEvent, UpdateIrq
    <3>2. cartIrq \in BOOLEAN /\ rang \in BOOLEAN /\ cartIrq = rang
      BY LinesAre DEF IrqInv
    <3>3. IrqLinesAgree'
      BY <3>1, <3>2 DEF IrqLinesAgree, CountersKeepTime
    <3> QED
      BY <3>1, <3>3 DEF IrqInv
  <2>7. CASE UNCHANGED cartIrqVars
    <3>1. /\ irqb' = irqb /\ cartIrq' = cartIrq /\ apuIrq' = apuIrq /\ cpuIrq' = cpuIrq /\ due' = due
          /\ rang' = rang
      BY <2>7 DEF cartIrqVars
    <3>2. IrqLinesAgree'
      BY <3>1, Zenon DEF IrqInv, IrqLinesAgree, CountersKeepTime
    <3> QED
      BY <3>1, <3>2 DEF IrqInv
  <2> QED
    BY <2>1, <2>2, <2>3, <2>4, <2>5, <2>6, <2>7 DEF IrqNext
<1>2. IrqInv => CountersKeepTime
  BY DEF IrqInv, IrqLinesAgree
<1> QED
  BY <1>1, <1>2, IrqInitial, PTL DEF IrqSpec

----------------------------------------------------------------------------
\* The cartridge boards.

Mirrors == {"vertical", "horizontal", "4screen", "A", "B"}
Slots == [0..3 -> Int]
Windows == [0..7 -> Int]
Boards == [m : Nat, cart : Mirrors, ram : BOOLEAN, cmd : Nat, shift : Seq(Nat), mir : Mirrors,
           nt : [1..4 -> Int], prg : Slots, chr : Windows, reg : [0..19 -> Nat]]

\* What no write to a board changes.
SameCart(b, r) == r.m = b.m /\ r.cart = b.cart /\ r.ram = b.ram
KeepsRegs(b, r) == r.cmd = b.cmd /\ r.shift = b.shift /\ r.reg = b.reg

LEMMA Remainders ==
    \A k \in Int, n \in Nat \ {0} : k % n \in 0..(n - 1) /\ k % n \in Int
  OBVIOUS

LEMMA LastBank ==
    NPrg \in Nat \ {0} /\ NChr \in Nat \ {0} /\ (NPrg - 1) % NPrg = NPrg - 1 /\ NPrg \div 2 \in Int
  BY BoardSizes

LEMMA BitsNat ==
    \A v \in Nat, lo \in Nat \ {0}, n \in Nat \ {0} : Bits(v, lo, n) \in 0..(n - 1) /\ Bits(v, lo, n) \in Nat
  BY DEF Bits

LEMMA Prg8Is ==
    \A b \in Boards, s \in 0..3, k \in Int :
      LET r == Prg8(b, s, k) IN
      /\ r \in Boards /\ SameCart(b, r) /\ KeepsRegs(b, r) /\ r.mir = b.mir /\ r.nt = b.nt /\ r.chr = b.chr
      /\ r.prg = [b.prg EXCEPT ![s] = k % NPrg]
<1> SUFFICES ASSUME NEW b \in Boards, NEW s \in 0..3, NEW k \in Int
             PROVE  LET r == Prg8(b, s, k) IN
      /\ r \in Boards /\ SameCart(b, r) /\ KeepsRegs(b, r) /\ r.mir = b.mir /\ r.nt = b.nt /\ r.chr = b.chr
      /\ r.prg = [b.prg EXCEPT ![s] = k % NPrg]
  OBVIOUS
<1>1. k % NPrg \in Int
  BY LastBank, Remainders
<1> QED
  BY <1>1 DEF Prg8, Boards, Slots, SameCart, KeepsRegs

LEMMA PrgAllIs ==
    \A b \in Boards, q \in [1..4 -> Int] :
      LET r == PrgAll(b, q) IN
      /\ r \in Boards /\ SameCart(b, r) /\ KeepsRegs(b, r) /\ r.mir = b.mir /\ r.nt = b.nt /\ r.chr = b.chr
      /\ r.prg = [s \in 0..3 |-> q[s + 1] % NPrg]
<1> SUFFICES ASSUME NEW b \in Boards, NEW q \in [1..4 -> Int]
             PROVE  LET r == PrgAll(b, q) IN
      /\ r \in Boards /\ SameCart(b, r) /\ KeepsRegs(b, r) /\ r.mir = b.mir /\ r.nt = b.nt /\ r.chr = b.chr
      /\ r.prg = [s \in 0..3 |-> q[s + 1] % NPrg]
  OBVIOUS
<1> DEFINE p == [s \in 0..3 |-> q[s + 1] % NPrg]
<1>1. p \in Slots
  <2>1. \A s \in 0..3 : q[s + 1] \in Int
    OBVIOUS
  <2> QED
    BY <2>1, LastBank, Remainders DEF Slots
<1>2. PrgAll(b, q) = [b EXCEPT !.prg = p]
  BY DEF PrgAll
<1> HIDE DEF p
<1>3. LET r == [b EXCEPT !.prg = p] IN
      /\ r \in Boards /\ SameCart(b, r) /\ KeepsRegs(b, r) /\ r.mir = b.mir /\ r.nt = b.nt /\ r.chr = b.chr
      /\ r.prg = p
  BY <1>1 DEF Boards, SameCart, KeepsRegs
<1> QED
  BY <1>2, <1>3 DEF p

LEMMA Chr1Is ==
    \A b \in Boards, s \in 0..7, k \in Int :
      LET r == Chr1(b, s, k) IN
      /\ r \in Boards /\ SameCart(b, r) /\ KeepsRegs(b, r) /\ r.mir = b.mir /\ r.nt = b.nt /\ r.prg = b.prg
      /\ r.chr = [b.chr EXCEPT ![s] = k % NChr]
<1> SUFFICES ASSUME NEW b \in Boards, NEW s \in 0..7, NEW k \in Int
             PROVE  LET r == Chr1(b, s, k) IN
      /\ r \in Boards /\ SameCart(b, r) /\ KeepsRegs(b, r) /\ r.mir = b.mir /\ r.nt = b.nt /\ r.prg = b.prg
      /\ r.chr = [b.chr EXCEPT ![s] = k % NChr]
  OBVIOUS
<1>1. k % NChr \in Int
  BY LastBank, Remainders
<1> QED
  BY <1>1 DEF Chr1, Boards, Windows, SameCart, KeepsRegs

LEMMA ChrAllIs ==
    \A b \in Boards, q \in [1..8 -> Int] :
      LET r == ChrAll(b, q) IN
      /\ r \in Boards /\ SameCart(b, r) /\ KeepsRegs(b, r) /\ r.mir = b.mir /\ r.nt = b.nt /\ r.prg = b.prg
      /\ r.chr = [s \in 0..7 |-> q[s + 1] % NChr]
<1> SUFFICES ASSUME NEW b \in Boards, NEW q \in [1..8 -> Int]
             PROVE  LET r == ChrAll(b, q) IN
      /\ r \in Boards /\ SameCart(b, r) /\ KeepsRegs(b, r) /\ r.mir = b.mir /\ r.nt = b.nt /\ r.prg = b.prg
      /\ r.chr = [s \in 0..7 |-> q[s + 1] % NChr]
  OBVIOUS
<1> DEFINE p == [s \in 0..7 |-> q[s + 1] % NChr]
<1>1. p \in Windows
  <2>1. \A s \in 0..7 : q[s + 1] \in Int
    OBVIOUS
  <2> QED
    BY <2>1, LastBank, Remainders DEF Windows
<1>2. ChrAll(b, q) = [b EXCEPT !.chr = p]
  BY DEF ChrAll
<1> HIDE DEF p
<1>3. LET r == [b EXCEPT !.chr = p] IN
      /\ r \in Boards /\ SameCart(b, r) /\ KeepsRegs(b, r) /\ r.mir = b.mir /\ r.nt = b.nt /\ r.prg = b.prg
      /\ r.chr = p
  BY <1>1 DEF Boards, SameCart, KeepsRegs
<1> QED
  BY <1>2, <1>3 DEF p

LEMMA Chr4Is ==
    \A b \in Boards, h \in 0..1, k \in Int :
      LET r == Chr4(b, h, k) IN
      /\ r \in Boards /\ SameCart(b, r) /\ KeepsRegs(b, r) /\ r.mir = b.mir /\ r.nt = b.nt /\ r.prg = b.prg
      /\ r.chr = [s \in 0..7 |-> IF s \div 4 = h THEN (4 * k + (s % 4)) % NChr ELSE b.chr[s]]
<1> SUFFICES ASSUME NEW b \in Boards, NEW h \in 0..1, NEW k \in Int
             PROVE  LET r == Chr4(b, h, k) IN
      /\ r \in Boards /\ SameCart(b, r) /\ KeepsRegs(b, r) /\ r.mir = b.mir /\ r.nt = b.nt /\ r.prg = b.prg
      /\ r.chr = [s \in 0..7 |-> IF s \div 4 = h THEN (4 * k + (s % 4)) % NChr ELSE b.chr[s]]
  OBVIOUS
<1> DEFINE p == [s \in 0..7 |-> IF s \div 4 = h THEN (4 * k + (s % 4)) % NChr ELSE b.chr[s]]
<1>1. p \in Windows
  <2>1. \A s \in 0..7 : 4 * k + (s % 4) \in Int
    OBVIOUS
  <2>2. b.chr \in Windows
    BY DEF Boards
  <2>3. \A s \in 0..7 : (4 * k + (s % 4)) % NChr \in Int
    BY <2>1, LastBank, Remainders
  <2> QED
    BY <2>2, <2>3 DEF Windows
<1>2. Chr4(b, h, k) = [b EXCEPT !.chr = p]
  BY DEF Chr4
<1> HIDE DEF p
<1>3. LET r == [b EXCEPT !.chr = p] IN
      /\ r \in Boards /\ SameCart(b, r) /\ KeepsRegs(b, r) /\ r.mir = b.mir /\ r.nt = b.nt /\ r.prg = b.prg
      /\ r.chr = p
  BY <1>1 DEF Boards, SameCart, KeepsRegs
<1> QED
  BY <1>2, <1>3 DEF p

----------------------------------------------------------------------------
\* Boards that leave their nametables, and boards that leave their CHR, as the power on found them.
SoleTables == {1, 2, 3, 4, 7, 9, 24, 26, 66, 119, 178, 228}
Still(b) == b.m \in {5, 7} \/ (b.ram /\ b.m \in {4, 9, 119})

PrgFits(b) == \A s \in 0..3 : b.prg[s] \in (IF b.m = 5 THEN {Ram} ELSE {}) \cup 0..(NPrg - 1)
ChrFits(b) == \A s \in 0..7 : b.chr[s] \in 0..(NChr - 1 + IF b.m = 119 THEN 8 ELSE 0)
LastFits(b) == b.m \in KeepsLast => b.prg[3] = NPrg - 1
TablesFit(b) == b.m \in SoleTables => b.nt = <<0, 0, 0, 0>>
StillFits(b) == Still(b) => b.chr = [s \in 0..7 |-> s]
RegsFit(b) ==
  /\ b.m = 9 => NPrg >= 16 /\ b.reg[0] \in 0..15 /\ b.reg[5] \in 0..1 /\ b.reg[6] \in 0..1
  /\ b.m = 5 => b.reg[5] \in 0..3 /\ b.reg[6] \in 0..3
  /\ b.m \in WholeOnly => NPrg % 4 = 0

BoardOk(b) ==
  /\ b \in Boards /\ PrgFits(b) /\ ChrFits(b) /\ LastFits(b) /\ TablesFit(b) /\ StillFits(b) /\ RegsFit(b)
Goes(b, r) == SameCart(b, r) /\ BoardOk(r)

\* What changes nothing but the banks, in the way each board allows, keeps the board right.
LEMMA PrgGoes ==
    \A b, r : /\ BoardOk(b) /\ r \in Boards /\ SameCart(b, r) /\ KeepsRegs(b, r) /\ r.nt = b.nt /\ r.chr = b.chr
              /\ PrgFits(r) /\ LastFits(r)
              => Goes(b, r)
  BY DEF BoardOk, Goes, SameCart, KeepsRegs, ChrFits, TablesFit, StillFits, Still, RegsFit

LEMMA ChrGoes ==
    \A b, r : /\ BoardOk(b) /\ r \in Boards /\ SameCart(b, r) /\ KeepsRegs(b, r) /\ r.nt = b.nt /\ r.prg = b.prg
              /\ ChrFits(r) /\ ~Still(b)
              => Goes(b, r)
  BY DEF BoardOk, Goes, SameCart, KeepsRegs, PrgFits, LastFits, TablesFit, StillFits, Still, RegsFit

LEMMA Prg8Goes ==
    \A b \in Boards, s \in 0..3, k \in Int :
      BoardOk(b) /\ (b.m \notin KeepsLast \/ s # 3) => Goes(b, Prg8(b, s, k))
<1> SUFFICES ASSUME NEW b \in Boards, NEW s \in 0..3, NEW k \in Int, BoardOk(b), b.m \notin KeepsLast \/ s # 3
             PROVE  Goes(b, Prg8(b, s, k))
  OBVIOUS
<1> DEFINE r == Prg8(b, s, k)
<1>1. b \in Boards /\ b.prg \in Slots
  BY DEF BoardOk, Boards
<1>2. /\ r \in Boards /\ SameCart(b, r) /\ KeepsRegs(b, r) /\ r.nt = b.nt /\ r.chr = b.chr
      /\ r.prg = [b.prg EXCEPT ![s] = k % NPrg]
  BY <1>1, Prg8Is
<1>3. k % NPrg \in 0..(NPrg - 1)
  BY LastBank, Remainders
<1> HIDE DEF r
<1>4. PrgFits(r) /\ LastFits(r)
  BY <1>1, <1>2, <1>3 DEF PrgFits, LastFits, Slots, SameCart, BoardOk
<1> QED
  BY <1>2, <1>4, PrgGoes DEF r

LEMMA PrgAllGoes ==
    \A b \in Boards, q \in [1..4 -> Int] :
      BoardOk(b) /\ (b.m \notin KeepsLast \/ q[4] = NPrg - 1) => Goes(b, PrgAll(b, q))
<1> SUFFICES ASSUME NEW b \in Boards, NEW q \in [1..4 -> Int], BoardOk(b), b.m \notin KeepsLast \/ q[4] = NPrg - 1
             PROVE  Goes(b, PrgAll(b, q))
  OBVIOUS
<1> DEFINE r == PrgAll(b, q)
<1>1. b \in Boards
  BY DEF BoardOk
<1>2. /\ r \in Boards /\ SameCart(b, r) /\ KeepsRegs(b, r) /\ r.nt = b.nt /\ r.chr = b.chr
      /\ r.prg = [s \in 0..3 |-> q[s + 1] % NPrg]
  BY <1>1, PrgAllIs
<1>3. \A s \in 0..3 : q[s + 1] % NPrg \in 0..(NPrg - 1)
  <2>1. \A s \in 0..3 : q[s + 1] \in Int
    OBVIOUS
  <2> QED
    BY <2>1, LastBank, Remainders
<1> HIDE DEF r
<1>4. PrgFits(r) /\ LastFits(r)
  BY <1>2, <1>3, LastBank DEF PrgFits, LastFits, SameCart
<1> QED
  BY <1>2, <1>4, PrgGoes DEF r

LEMMA Prg16Goes ==
    \A b \in Boards, h \in 0..1, k \in Int :
      BoardOk(b) /\ (b.m \notin KeepsLast \/ h = 0) => Goes(b, Prg16(b, h, k))
<1> SUFFICES ASSUME NEW b \in Boards, NEW h \in 0..1, NEW k \in Int, BoardOk(b), b.m \notin KeepsLast \/ h = 0
             PROVE  Goes(b, Prg16(b, h, k))
  OBVIOUS
<1> DEFINE r == Prg8(b, 2*h, 2*k)
<1>1. 2*h \in 0..3 /\ 2*h + 1 \in 0..3 /\ 2*k \in Int /\ 2*k + 1 \in Int /\ 2*h # 3 /\ (h = 0 => 2*h + 1 # 3)
  OBVIOUS
<1>2. Goes(b, r)
  BY <1>1, Prg8Goes
<1>3. Goes(r, Prg8(r, 2*h + 1, 2*k + 1))
  <2>1. r \in Boards /\ BoardOk(r) /\ r.m = b.m
    BY <1>2 DEF Goes, SameCart, BoardOk
  <2> HIDE DEF r
  <2> QED
    BY <1>1, <2>1, Prg8Goes
<1>4. Prg16(b, h, k) = Prg8(r, 2*h + 1, 2*k + 1)
  BY DEF Prg16
<1> HIDE DEF r
<1> QED
  BY <1>2, <1>3, <1>4 DEF Goes, SameCart

LEMMA Prg32Goes ==
    \A b \in Boards, k \in Int : BoardOk(b) /\ b.m \notin KeepsLast => Goes(b, Prg32(b, k))
<1> TAKE b \in Boards, k \in Int
<1>1. [i \in 1..4 |-> 4*k + i - 1] \in [1..4 -> Int]
  OBVIOUS
<1> QED
  BY <1>1, PrgAllGoes DEF Prg32

LEMMA Chr1Goes ==
    \A b \in Boards, s \in 0..7, k \in Int : BoardOk(b) /\ ~Still(b) => Goes(b, Chr1(b, s, k))
<1> SUFFICES ASSUME NEW b \in Boards, NEW s \in 0..7, NEW k \in Int, BoardOk(b), ~Still(b)
             PROVE  Goes(b, Chr1(b, s, k))
  OBVIOUS
<1> DEFINE r == Chr1(b, s, k)
<1>1. b \in Boards /\ b.chr \in Windows
  BY DEF BoardOk, Boards
<1>2. /\ r \in Boards /\ SameCart(b, r) /\ KeepsRegs(b, r) /\ r.nt = b.nt /\ r.prg = b.prg
      /\ r.chr = [b.chr EXCEPT ![s] = k % NChr]
  BY <1>1, Chr1Is
<1>3. k % NChr \in 0..(NChr - 1)
  BY LastBank, Remainders
<1> HIDE DEF r
<1>4. ChrFits(r)
  BY <1>1, <1>2, <1>3, LastBank DEF ChrFits, Windows, SameCart, BoardOk
<1> QED
  BY <1>2, <1>4, ChrGoes DEF r

LEMMA ChrAllGoes ==
    \A b \in Boards, q \in [1..8 -> Int] : BoardOk(b) /\ ~Still(b) => Goes(b, ChrAll(b, q))
<1> SUFFICES ASSUME NEW b \in Boards, NEW q \in [1..8 -> Int], BoardOk(b), ~Still(b)
             PROVE  Goes(b, ChrAll(b, q))
  OBVIOUS
<1> DEFINE r == ChrAll(b, q)
<1>1. b \in Boards
  BY DEF BoardOk
<1>2. /\ r \in Boards /\ SameCart(b, r) /\ KeepsRegs(b, r) /\ r.nt = b.nt /\ r.prg = b.prg
      /\ r.chr = [s \in 0..7 |-> q[s + 1] % NChr]
  BY <1>1, ChrAllIs
<1>3. \A s \in 0..7 : q[s + 1] % NChr \in 0..(NChr - 1)
  <2>1. \A s \in 0..7 : q[s + 1] \in Int
    OBVIOUS
  <2> QED
    BY <2>1, LastBank, Remainders
<1> HIDE DEF r
<1>4. ChrFits(r)
  BY <1>2, <1>3, LastBank DEF ChrFits, SameCart
<1> QED
  BY <1>2, <1>4, ChrGoes DEF r

LEMMA Chr4Goes ==
    \A b \in Boards, h \in 0..1, k \in Int : BoardOk(b) /\ ~Still(b) => Goes(b, Chr4(b, h, k))
<1> SUFFICES ASSUME NEW b \in Boards, NEW h \in 0..1, NEW k \in Int, BoardOk(b), ~Still(b)
             PROVE  Goes(b, Chr4(b, h, k))
  OBVIOUS
<1> DEFINE r == Chr4(b, h, k)
<1>1. b \in Boards /\ ChrFits(b)
  BY DEF BoardOk
<1>2. /\ r \in Boards /\ SameCart(b, r) /\ KeepsRegs(b, r) /\ r.nt = b.nt /\ r.prg = b.prg
      /\ r.chr = [s \in 0..7 |-> IF s \div 4 = h THEN (4 * k + (s % 4)) % NChr ELSE b.chr[s]]
  BY <1>1, Chr4Is
<1>3. \A s \in 0..7 : 4 * k + (s % 4) \in Int
  OBVIOUS
<1>4. \A s \in 0..7 : (4 * k + (s % 4)) % NChr \in 0..(NChr - 1)
  BY <1>3, LastBank, Remainders
<1> HIDE DEF r
<1>5. \A s \in 0..7 : r.chr[s] \in 0..(NChr - 1) \/ r.chr[s] = b.chr[s]
  BY <1>2, <1>4
<1>6. ChrFits(r)
  BY <1>1, <1>2, <1>5, LastBank DEF ChrFits, SameCart
<1> QED
  BY <1>2, <1>6, ChrGoes DEF r

LEMMA Chr8Goes ==
    \A b \in Boards, k \in Int : BoardOk(b) /\ ~Still(b) => Goes(b, Chr8(b, k))
<1> TAKE b \in Boards, k \in Int
<1>1. [i \in 1..8 |-> 8*k + i - 1] \in [1..8 -> Int]
  OBVIOUS
<1> QED
  BY <1>1, ChrAllGoes DEF Chr8

LEMMA Chr2Goes ==
    \A b \in Boards, h \in 0..3, k \in Int : BoardOk(b) /\ ~Still(b) => Goes(b, Chr2(b, h, k))
<1> SUFFICES ASSUME NEW b \in Boards, NEW h \in 0..3, NEW k \in Int, BoardOk(b), ~Still(b)
             PROVE  Goes(b, Chr2(b, h, k))
  OBVIOUS
<1> DEFINE r == Chr1(b, 2*h, 2*k)
<1>1. 2*h \in 0..7 /\ 2*h + 1 \in 0..7 /\ 2*k \in Int /\ 2*k + 1 \in Int
  OBVIOUS
<1>2. Goes(b, r)
  BY <1>1, Chr1Goes
<1>3. Goes(r, Chr1(r, 2*h + 1, 2*k + 1))
  <2>1. r \in Boards /\ BoardOk(r) /\ ~Still(r)
    BY <1>2 DEF Goes, SameCart, BoardOk, Still
  <2> HIDE DEF r
  <2> QED
    BY <1>1, <2>1, Chr1Goes
<1>4. Chr2(b, h, k) = Chr1(r, 2*h + 1, 2*k + 1)
  BY DEF Chr2
<1> HIDE DEF r
<1> QED
  BY <1>2, <1>3, <1>4 DEF Goes, SameCart

\* The registers that select nothing by themselves, the mirroring and the nametables.
LEMMA OthersGo ==
    \A b, r : /\ BoardOk(b) /\ r \in Boards /\ SameCart(b, r) /\ r.prg = b.prg /\ r.chr = b.chr
              /\ r.reg = b.reg \/ b.m \notin {5, 9} \/ RegsFit(r)
              /\ r.nt = b.nt \/ b.m \notin SoleTables
              => Goes(b, r)
  BY DEF BoardOk, Goes, SameCart, PrgFits, ChrFits, LastFits, TablesFit, StillFits, Still, RegsFit

LEMMA MirIs ==
    \A b \in Boards, x \in Mirrors :
      LET r == [b EXCEPT !.mir = x] IN
      /\ r \in Boards /\ SameCart(b, r) /\ KeepsRegs(b, r) /\ r.nt = b.nt /\ r.prg = b.prg /\ r.chr = b.chr /\ r.mir = x
  BY DEF Boards, SameCart, KeepsRegs

LEMMA CmdIs ==
    \A b \in Boards, v \in Nat :
      LET r == [b EXCEPT !.cmd = v] IN
      /\ r \in Boards /\ SameCart(b, r) /\ r.nt = b.nt /\ r.prg = b.prg /\ r.chr = b.chr /\ r.reg = b.reg
  BY DEF Boards, SameCart

LEMMA ShiftIs ==
    \A b \in Boards, v \in Seq(Nat) :
      LET r == [b EXCEPT !.shift = v] IN
      /\ r \in Boards /\ SameCart(b, r) /\ r.nt = b.nt /\ r.prg = b.prg /\ r.chr = b.chr /\ r.reg = b.reg
  BY DEF Boards, SameCart

LEMMA NtIs ==
    \A b \in Boards, q \in [1..4 -> Int] :
      LET r == SetNt(b, q) IN
      /\ r \in Boards /\ SameCart(b, r) /\ KeepsRegs(b, r) /\ r.nt = q /\ r.prg = b.prg /\ r.chr = b.chr /\ r.mir = b.mir
  BY DEF Boards, SameCart, KeepsRegs, SetNt

LEMMA RegIs ==
    \A b \in Boards, i, v \in Nat :
      LET r == SetReg(b, i, v) IN
      /\ r \in Boards /\ SameCart(b, r) /\ r.nt = b.nt /\ r.prg = b.prg /\ r.chr = b.chr /\ r.mir = b.mir
      /\ r.cmd = b.cmd /\ r.shift = b.shift /\ r.reg = [b.reg EXCEPT ![i] = v]
<1> SUFFICES ASSUME NEW b \in Boards, NEW i \in Nat, NEW v \in Nat
             PROVE  LET r == SetReg(b, i, v) IN
      /\ r \in Boards /\ SameCart(b, r) /\ r.nt = b.nt /\ r.prg = b.prg /\ r.chr = b.chr /\ r.mir = b.mir
      /\ r.cmd = b.cmd /\ r.shift = b.shift /\ r.reg = [b.reg EXCEPT ![i] = v]
  OBVIOUS
<1> DEFINE p == [b.reg EXCEPT ![i] = v]
<1>1. p \in [0..19 -> Nat]
  BY DEF Boards
<1>2. SetReg(b, i, v) = [b EXCEPT !.reg = p]
  BY DEF SetReg, Boards
<1> HIDE DEF p
<1>3. LET r == [b EXCEPT !.reg = p] IN
      /\ r \in Boards /\ SameCart(b, r) /\ r.nt = b.nt /\ r.prg = b.prg /\ r.chr = b.chr /\ r.mir = b.mir
      /\ r.cmd = b.cmd /\ r.shift = b.shift /\ r.reg = p
  BY <1>1 DEF Boards, SameCart
<1> QED
  BY <1>2, <1>3 DEF p

LEMMA SettersGo ==
    /\ \A b \in Boards, x \in Mirrors : BoardOk(b) => Goes(b, [b EXCEPT !.mir = x])
    /\ \A b \in Boards, v \in Nat : BoardOk(b) => Goes(b, [b EXCEPT !.cmd = v])
    /\ \A b \in Boards, v \in Seq(Nat) : BoardOk(b) => Goes(b, [b EXCEPT !.shift = v])
    /\ \A b \in Boards, q \in [1..4 -> Int] : BoardOk(b) /\ b.m \notin SoleTables => Goes(b, SetNt(b, q))
    /\ \A b \in Boards, i, v \in Nat : BoardOk(b) /\ b.m \notin {5, 9} => Goes(b, SetReg(b, i, v))
<1>1. \A b \in Boards, x \in Mirrors : BoardOk(b) => Goes(b, [b EXCEPT !.mir = x])
  BY MirIs, OthersGo DEF KeepsRegs
<1>2. \A b \in Boards, v \in Nat : BoardOk(b) => Goes(b, [b EXCEPT !.cmd = v])
  BY CmdIs, OthersGo
<1>3. \A b \in Boards, v \in Seq(Nat) : BoardOk(b) => Goes(b, [b EXCEPT !.shift = v])
  BY ShiftIs, OthersGo
<1>4. \A b \in Boards, q \in [1..4 -> Int] : BoardOk(b) /\ b.m \notin SoleTables => Goes(b, SetNt(b, q))
  BY NtIs, OthersGo DEF KeepsRegs
<1>5. \A b \in Boards, i, v \in Nat : BoardOk(b) /\ b.m \notin {5, 9} => Goes(b, SetReg(b, i, v))
  BY RegIs, OthersGo
<1> QED
  BY <1>1, <1>2, <1>3, <1>4, <1>5

\* The names of four arrangements, in some order.
LEMMA FourNames ==
    \A w \in 0..3 :
      /\ <<"vertical", "horizontal", "A", "B">>[w + 1] \in Mirrors
      /\ <<"A", "B", "vertical", "horizontal">>[w + 1] \in Mirrors
<1> TAKE w \in 0..3
<1>1. CASE w = 0
  BY <1>1 DEF Mirrors
<1>2. CASE w = 1
  BY <1>2 DEF Mirrors
<1>3. CASE w = 2
  BY <1>3 DEF Mirrors
<1>4. CASE w = 3
  BY <1>4 DEF Mirrors
<1> QED
  BY <1>1, <1>2, <1>3, <1>4

LEMMA MirrorGoes ==
    /\ \A b \in Boards, v \in Nat : BoardOk(b) => Goes(b, MirrorVhab(b, v))
    /\ \A b \in Boards, h \in BOOLEAN : BoardOk(b) => Goes(b, MirrorHv(b, h)) /\ Goes(b, Single(b, h))
<1>1. ASSUME NEW b \in Boards, NEW v \in Nat, BoardOk(b) PROVE Goes(b, MirrorVhab(b, v))
  <2>1. v % 4 \in 0..3
    OBVIOUS
  <2>2. <<"vertical", "horizontal", "A", "B">>[(v % 4) + 1] \in Mirrors
    BY <2>1, FourNames
  <2> QED
    BY <1>1, <2>2, SettersGo DEF MirrorVhab
<1>2. ASSUME NEW b \in Boards, NEW h \in BOOLEAN, BoardOk(b) PROVE Goes(b, MirrorHv(b, h)) /\ Goes(b, Single(b, h))
  <2>1. Goes(b, b)
    BY <1>2 DEF Goes, SameCart
  <2>2. /\ Goes(b, [b EXCEPT !.mir = "horizontal"]) /\ Goes(b, [b EXCEPT !.mir = "vertical"])
        /\ Goes(b, [b EXCEPT !.mir = "A"]) /\ Goes(b, [b EXCEPT !.mir = "B"])
    BY <1>2, SettersGo DEF Mirrors
  <2>3. MirrorHv(b, h) \in {b, [b EXCEPT !.mir = "horizontal"], [b EXCEPT !.mir = "vertical"]}
    BY DEF MirrorHv
  <2>4. Single(b, h) \in {[b EXCEPT !.mir = "A"], [b EXCEPT !.mir = "B"]}
    BY DEF Single
  <2> QED
    BY <2>1, <2>2, <2>3, <2>4
<1> QED
  BY <1>1, <1>2

----------------------------------------------------------------------------
LEMMA GoesOn ==
    /\ \A b, r, s : Goes(b, r) /\ Goes(r, s) => Goes(b, s)
    /\ \A b, r : Goes(b, r) => r \in Boards /\ BoardOk(r) /\ r.m = b.m /\ r.ram = b.ram /\ (Still(r) <=> Still(b))
  BY DEF Goes, SameCart, BoardOk, Still

\* Boards that differ in nothing but their banks and nametables.
Agree(b, d) == SameCart(b, d) /\ KeepsRegs(b, d) /\ d.mir = b.mir

\* Two halves make all the slots, or all the windows.
SlotsOf(p, k) == [s \in 0..3 |-> CASE s = 0 -> (2*p) % NPrg [] s = 1 -> (2*p + 1) % NPrg
                                  [] s = 2 -> (2*k) % NPrg [] s = 3 -> (2*k + 1) % NPrg]
WindowsOf(p, k) == [s \in 0..7 |-> IF s \div 4 = 1 THEN (4*k + (s % 4)) % NChr ELSE (4*p + (s % 4)) % NChr]

LEMMA HalvesAre ==
    \A b \in Boards, p, k \in Int :
      LET r == Prg16(Prg16(b, 0, p), 1, k) IN
      /\ r \in Boards /\ Agree(b, r) /\ r.chr = b.chr /\ r.nt = b.nt
      /\ r.prg = SlotsOf(p, k)
<1> TAKE b \in Boards, p, k \in Int
<1> DEFINE n0 == 2*p
           n1 == 2*p + 1
           n2 == 2*k
           n3 == 2*k + 1
           b0 == Prg8(b, 0, n0)
           b1 == Prg8(b0, 1, n1)
           b2 == Prg8(b1, 2, n2)
           b3 == Prg8(b2, 3, n3)
<1>1. /\ n0 \in Int /\ n1 \in Int /\ n2 \in Int /\ n3 \in Int
      /\ 0 \in 0..3 /\ 1 \in 0..3 /\ 2 \in 0..3 /\ 3 \in 0..3
  OBVIOUS
<1>2. Prg16(Prg16(b, 0, p), 1, k) = b3
  BY DEF Prg16
<1> HIDE DEF n0, n1, n2, n3
<1>3. /\ b0 \in Boards /\ SameCart(b, b0) /\ KeepsRegs(b, b0) /\ b0.mir = b.mir /\ b0.nt = b.nt /\ b0.chr = b.chr
      /\ b0.prg = [b.prg EXCEPT ![0] = n0 % NPrg]
  BY <1>1, Prg8Is
<1> HIDE DEF b0
<1>4. /\ b1 \in Boards /\ SameCart(b0, b1) /\ KeepsRegs(b0, b1) /\ b1.mir = b0.mir /\ b1.nt = b0.nt /\ b1.chr = b0.chr
      /\ b1.prg = [b0.prg EXCEPT ![1] = n1 % NPrg]
  <2>1. b0 \in Boards
    BY <1>3
  <2> QED
    BY <1>1, <2>1, Prg8Is
<1> HIDE DEF b1
<1>5. /\ b2 \in Boards /\ SameCart(b1, b2) /\ KeepsRegs(b1, b2) /\ b2.mir = b1.mir /\ b2.nt = b1.nt /\ b2.chr = b1.chr
      /\ b2.prg = [b1.prg EXCEPT ![2] = n2 % NPrg]
  <2>1. b1 \in Boards
    BY <1>4
  <2> QED
    BY <1>1, <2>1, Prg8Is
<1> HIDE DEF b2
<1>6. /\ b3 \in Boards /\ SameCart(b2, b3) /\ KeepsRegs(b2, b3) /\ b3.mir = b2.mir /\ b3.nt = b2.nt /\ b3.chr = b2.chr
      /\ b3.prg = [b2.prg EXCEPT ![3] = n3 % NPrg]
  <2>1. b2 \in Boards
    BY <1>5
  <2> QED
    BY <1>1, <2>1, Prg8Is
<1> HIDE DEF b3
<1>7. Agree(b, b3) /\ b3.chr = b.chr /\ b3.nt = b.nt
  BY <1>3, <1>4, <1>5, <1>6 DEF Agree, SameCart, KeepsRegs
<1> DEFINE w0 == n0 % NPrg
           w1 == n1 % NPrg
           w2 == n2 % NPrg
           w3 == n3 % NPrg
<1>8. b.prg \in [0..3 -> Int]
  BY DEF Boards, Slots
<1>9. b3.prg = [b.prg EXCEPT ![0] = w0, ![1] = w1, ![2] = w2, ![3] = w3]
  BY <1>3, <1>4, <1>5, <1>6
<1> HIDE DEF w0, w1, w2, w3
<1>10. b3.prg = [s \in 0..3 |-> CASE s = 0 -> w0 [] s = 1 -> w1 [] s = 2 -> w2 [] s = 3 -> w3]
  BY <1>8, <1>9
<1> QED
  BY <1>2, <1>6, <1>7, <1>10 DEF SlotsOf, w0, w1, w2, w3, n0, n1, n2, n3

LEMMA OneRemainder ==
    ASSUME NEW n \in Nat \ {0}, NEW q \in Int, NEW x \in Int, 0 <= x, x < n
    PROVE  (n*q + x) % n = x
<1> DEFINE y == n*q + x
           d == y \div n
           r == y % n
           z == q - d
<1>1. y \in Int
  OBVIOUS
<1> HIDE DEF y
<1>2. d \in Int /\ r \in Int /\ y = n*d + r /\ 0 <= r /\ r < n
  BY <1>1
<1> HIDE DEF d, r
<1>3. z \in Int /\ n*z = r - x
  BY <1>2 DEF y
<1> HIDE DEF z
<1>4. z = 0
  <2>1. CASE z >= 1
    <3>1. n*z >= n
      BY <1>3, <2>1
    <3> QED
      BY <1>2, <1>3, <3>1
  <2>2. CASE z <= -1
    <3>1. n*z <= -n
      BY <1>3, <2>2
    <3> QED
      BY <1>2, <1>3, <3>1
  <2> QED
    BY <1>3, <2>1, <2>2
<1>5. r = x
  BY <1>2, <1>3, <1>4
<1> QED
  BY <1>5 DEF r, y

\* Where the ROM is whole units of 32K, reducing the first bank of a unit reduces them all.
LEMMA FourFollow ==
    ASSUME NPrg % 4 = 0, NEW k \in Int, NEW s \in 0..3
    PROVE  (4*k + s) % NPrg = ((4*k) % NPrg) + s
<1>1. PICK m \in Nat \ {0} : NPrg = 4*m
  <2> DEFINE m == NPrg \div 4
  <2>1. m \in Nat \ {0} /\ NPrg = 4*m
    BY LastBank
  <2> HIDE DEF m
  <2> QED
    BY <2>1
<1>2. PICK j \in Int, q \in Int : k = m*q + j /\ 0 <= j /\ j < m
  <2> DEFINE j == k % m
             q == k \div m
  <2>1. j \in Int /\ q \in Int /\ k = m*q + j /\ 0 <= j /\ j < m
    OBVIOUS
  <2> HIDE DEF j, q
  <2> QED
    BY <2>1
<1> DEFINE r == 4*j
<1>3. r \in Int /\ 0 <= r /\ r + 3 < NPrg
  BY <1>1, <1>2
<1>4. 4*k = NPrg*q + r
  BY <1>1, <1>2
<1> HIDE DEF r
<1>5. \A x \in Int : 0 <= x /\ x < NPrg => (NPrg*q + x) % NPrg = x
  BY LastBank, OneRemainder
<1> DEFINE base == NPrg*q
<1>6. base \in Int /\ 4*k = base + r /\ \A x \in Int : 0 <= x /\ x < NPrg => (base + x) % NPrg = x
  BY <1>4, <1>5, LastBank
<1> HIDE DEF base
<1>7. (base + r) % NPrg = r /\ (base + (r + s)) % NPrg = r + s
  <2>1. r + s \in Int /\ 0 <= r + s /\ r + s < NPrg /\ r < NPrg
    BY <1>3, LastBank
  <2> QED
    BY <1>3, <1>6, <2>1
<1>8. 4*k + s = base + (r + s)
  BY <1>3, <1>6
<1> QED
  BY <1>6, <1>7, <1>8

LEMMA WholeIs ==
    ASSUME NPrg % 4 = 0, NEW b \in Boards, NEW k \in Int
    PROVE  Whole32(b, k) = Prg32(b, k)
<1> DEFINE q == [i \in 1..4 |-> 4*k + i - 1]
<1>1. \A s \in 0..3 : q[s + 1] = 4*k + s
  OBVIOUS
<1>2. \A s \in 0..3 : ((4*k) % NPrg) + s = q[s + 1] % NPrg
  BY <1>1, FourFollow
<1> HIDE DEF q
<1>3. [s \in 0..3 |-> ((4*k) % NPrg) + s] = [s \in 0..3 |-> q[s + 1] % NPrg]
  BY <1>2
<1> QED
  BY <1>3 DEF Whole32, Prg32, PrgAll, q

\* PRG and CHR at once.
LEMMA BothGo ==
    \A b \in Boards, k, j \in Int :
      BoardOk(b) /\ ~Still(b) => /\ b.m \notin KeepsLast => Goes(b, Chr8(Prg32(b, k), j))
                                 /\ Goes(b, Chr8(Prg16(b, 0, k), j))
<1> SUFFICES ASSUME NEW b \in Boards, NEW k \in Int, NEW j \in Int, BoardOk(b), ~Still(b)
             PROVE  /\ b.m \notin KeepsLast => Goes(b, Chr8(Prg32(b, k), j))
                    /\ Goes(b, Chr8(Prg16(b, 0, k), j))
  OBVIOUS
<1>1. \A r : Goes(b, r) => Goes(b, Chr8(r, j))
  BY GoesOn, Chr8Goes
<1>2. (b.m \notin KeepsLast => Goes(b, Prg32(b, k))) /\ Goes(b, Prg16(b, 0, k))
  BY Prg32Goes, Prg16Goes
<1> QED
  BY <1>1, <1>2

\* A write that selects all it changes.
LEMMA SmallNumbers ==
    \A v \in Nat : /\ v % 2 \in Nat /\ v % 4 \in Nat /\ v % 8 \in Nat /\ v % 16 \in Nat /\ v % 32 \in Nat /\ v % 64 \in Nat
                   /\ v \div 16 \in Nat /\ Bits(v, 2, 2) \in Nat /\ Bits(v, 4, 2) \in Nat
                   /\ Bits(v, 8, 2) \in Nat /\ Bits(v, 8, 8) \in Nat /\ Bits(v, 16, 4) \in Nat /\ Bits(v, 64, 2) \in Nat
  BY DEF Bits

LEMMA DiscreteGoes ==
    \A b \in Boards, a, v \in Nat :
      BoardOk(b) /\ b.m \in {2, 3, 7, 11, 66, 70, 71, 78, 79, 87, 113, 180, 184, 185} => Goes(b, PlainWrite(b, a, v))
<1> SUFFICES ASSUME NEW b \in Boards, NEW a \in Nat, NEW v \in Nat, BoardOk(b),
                    b.m \in {2, 3, 7, 11, 66, 70, 71, 78, 79, 87, 113, 180, 184, 185}
             PROVE  Goes(b, PlainWrite(b, a, v))
  OBVIOUS
<1>1. /\ v % 2 \in Nat /\ v % 4 \in Nat /\ v % 8 \in Nat /\ v % 16 \in Nat /\ v % 32 \in Nat /\ v % 64 \in Nat
      /\ v \div 16 \in Nat /\ Bits(v, 2, 2) \in Nat /\ Bits(v, 4, 2) \in Nat
      /\ Bits(v, 8, 2) \in Nat /\ Bits(v, 8, 8) \in Nat /\ Bits(v, 16, 4) \in Nat /\ Bits(v, 64, 2) \in Nat
  BY SmallNumbers
<1>2. b.m # 7 => ~Still(b)
  BY DEF Still
<1>3. \A x : Goes(b, x) => x \in Boards /\ BoardOk(x) /\ x.m = b.m /\ (Still(x) <=> Still(b))
  BY GoesOn
<1>4. Goes(b, b)
  BY DEF Goes, SameCart
<1>a. CASE b.m = 2
  <2>1. PlainWrite(b, a, v) = Prg16(b, 0, v)
    BY <1>a DEF PlainWrite
  <2> QED
    BY <2>1, <1>a, Prg16Goes
<1>b. CASE b.m = 3
  <2>1. PlainWrite(b, a, v) = Chr8(b, v)
    BY <1>b DEF PlainWrite
  <2> QED
    BY <2>1, <1>b, <1>2, Chr8Goes
<1>c. CASE b.m = 66
  <2>1. PlainWrite(b, a, v) = Chr8(Whole32(b, Bits(v, 16, 4)), v % 4)
    BY <1>c DEF PlainWrite
  <2>2. Whole32(b, Bits(v, 16, 4)) = Prg32(b, Bits(v, 16, 4))
    BY <1>1, <1>c, WholeIs DEF BoardOk, RegsFit, WholeOnly
  <2> QED
    BY <2>1, <2>2, <1>1, <1>c, <1>2, BothGo DEF KeepsLast
<1>d. CASE b.m = 7
  <2>0. Whole32(b, v % 8) = Prg32(b, v % 8)
    BY <1>1, <1>d, WholeIs DEF BoardOk, RegsFit, WholeOnly
  <2>1. PlainWrite(b, a, v) = Single(Prg32(b, v % 8), Bits(v, 16, 2) = 1)
    BY <1>d, <2>0 DEF PlainWrite
  <2>2. PICK yes \in BOOLEAN : yes <=> Bits(v, 16, 2) = 1
    OBVIOUS
  <2>3. PlainWrite(b, a, v) = Single(Prg32(b, v % 8), yes)
    BY <2>1, <2>2
  <2>4. Goes(b, Prg32(b, v % 8))
    BY <1>1, <1>d, Prg32Goes DEF KeepsLast
  <2> QED
    BY <2>3, <2>4, <1>3, GoesOn, MirrorGoes
<1>e. CASE b.m = 11
  <2>1. PlainWrite(b, a, v) = Chr8(Prg32(b, v % 4), v \div 16)
    BY <1>e DEF PlainWrite
  <2> QED
    BY <2>1, <1>1, <1>e, <1>2, BothGo DEF KeepsLast
<1>f. CASE b.m = 70
  <2>1. PlainWrite(b, a, v) = Chr8(Prg16(b, 0, v \div 16), v % 16)
    BY <1>f DEF PlainWrite
  <2> QED
    BY <2>1, <1>1, <1>f, <1>2, BothGo
<1>g. CASE b.m = 71
  <2>1. PICK yes \in BOOLEAN : yes <=> Bits(v, 16, 2) = 1
    OBVIOUS
  <2>2. PlainWrite(b, a, v) \in {Prg16(b, 0, v % 16), Single(b, yes), b}
    BY <1>g, <2>1 DEF PlainWrite
  <2>3. Goes(b, Prg16(b, 0, v % 16)) /\ Goes(b, Single(b, yes))
    BY <1>1, Prg16Goes, MirrorGoes
  <2> QED
    BY <2>2, <2>3, <1>4
<1>h. CASE b.m = 78
  <2> DEFINE p == Chr8(Prg16(b, 0, v % 8), v \div 16)
  <2>1. PICK yes \in BOOLEAN : yes <=> Bits(v, 8, 2) = 1
    OBVIOUS
  <2>2. PlainWrite(b, a, v) \in {Single(p, yes), [p EXCEPT !.mir = "vertical"], [p EXCEPT !.mir = "horizontal"]}
    BY <1>h, <2>1 DEF PlainWrite
  <2>3. Goes(b, p)
    BY <1>1, <1>h, <1>2, BothGo
  <2> HIDE DEF p
  <2>4. p \in Boards /\ BoardOk(p)
    BY <2>3, <1>3
  <2>5. Goes(p, Single(p, yes)) /\ Goes(p, [p EXCEPT !.mir = "vertical"]) /\ Goes(p, [p EXCEPT !.mir = "horizontal"])
    BY <2>4, MirrorGoes, SettersGo DEF Mirrors
  <2> QED
    BY <2>2, <2>3, <2>5, GoesOn
<1>i. CASE b.m = 79
  <2>1. PlainWrite(b, a, v) = Chr8(Prg32(b, Bits(v, 8, 2)), v % 8)
    BY <1>i DEF PlainWrite
  <2> QED
    BY <2>1, <1>1, <1>i, <1>2, BothGo DEF KeepsLast
<1>j. CASE b.m = 113
  <2> DEFINE p == Chr8(Prg32(b, Bits(v, 8, 8)), (v % 8) + 8 * Bits(v, 64, 2))
  <2>1. PICK yes \in BOOLEAN : yes <=> v < 128
    OBVIOUS
  <2>2. PlainWrite(b, a, v) = MirrorHv(p, yes)
    BY <1>j, <2>1 DEF PlainWrite
  <2>3. Goes(b, p)
    BY <1>1, <1>j, <1>2, BothGo DEF KeepsLast
  <2> HIDE DEF p
  <2>4. p \in Boards /\ BoardOk(p)
    BY <2>3, <1>3
  <2> QED
    BY <2>2, <2>3, <2>4, GoesOn, MirrorGoes
<1>k. CASE b.m = 87
  <2>1. PlainWrite(b, a, v) = Chr8(b, 2 * (v % 2) + Bits(v, 2, 2))
    BY <1>k DEF PlainWrite
  <2>2. 2 * (v % 2) + Bits(v, 2, 2) \in Int
    BY <1>1
  <2> QED
    BY <2>1, <2>2, <1>k, <1>2, Chr8Goes
<1>l. CASE b.m = 180
  <2>1. PlainWrite(b, a, v) = Prg16(b, 1, v % 8)
    BY <1>l DEF PlainWrite
  <2> QED
    BY <2>1, <1>1, <1>l, Prg16Goes DEF KeepsLast
<1>m. CASE b.m = 184
  <2> DEFINE p == Chr4(b, 0, v % 8)
  <2>1. PlainWrite(b, a, v) = Chr4(p, 1, Bits(v, 16, 4) + 4)
    BY <1>m DEF PlainWrite
  <2>2. Goes(b, p)
    BY <1>1, <1>m, <1>2, Chr4Goes
  <2>3. Bits(v, 16, 4) + 4 \in Int
    BY <1>1
  <2> HIDE DEF p
  <2>4. p \in Boards /\ BoardOk(p) /\ ~Still(p)
    BY <2>2, <1>3, <1>2, <1>m
  <2> QED
    BY <2>1, <2>2, <2>3, <2>4, GoesOn, Chr4Goes
<1>n. CASE b.m = 185
  <2>1. PICK n \in Nat : PlainWrite(b, a, v) = SetReg(b, 0, n)
    BY <1>n DEF PlainWrite
  <2> QED
    BY <2>1, <1>n, SettersGo
<1> QED
  BY <1>a, <1>b, <1>c, <1>d, <1>e, <1>f, <1>g, <1>h, <1>i, <1>j, <1>k, <1>l, <1>m, <1>n

----------------------------------------------------------------------------
LEMMA RegsNat ==
    \A b \in Boards, i \in 0..19 : b.reg[i] \in Nat /\ b.cmd \in Nat
  BY DEF Boards

LEMMA PrgIs ==
    \A b \in Boards, p \in Slots :
      LET r == [b EXCEPT !.prg = p] IN
      /\ r \in Boards /\ SameCart(b, r) /\ KeepsRegs(b, r) /\ r.nt = b.nt /\ r.chr = b.chr /\ r.prg = p /\ r.mir = b.mir
  BY DEF Boards, SameCart, KeepsRegs

LEMMA ChrIs ==
    \A b \in Boards, p \in Windows :
      LET r == [b EXCEPT !.chr = p] IN
      /\ r \in Boards /\ SameCart(b, r) /\ KeepsRegs(b, r) /\ r.nt = b.nt /\ r.prg = b.prg /\ r.chr = p /\ r.mir = b.mir
  BY DEF Boards, SameCart, KeepsRegs

LEMMA ItAgrees ==
    \A b : Agree(b, b)
  BY DEF Agree, SameCart, KeepsRegs

\* Boards that agree and have the same banks and nametables are the same.
LEMMA SameBoard ==
    \A b, o \in Boards : Agree(b, o) /\ b.prg = o.prg /\ b.chr = o.chr /\ b.nt = o.nt => b = o
<1>1. \A b \in Boards : b = [m |-> b.m, cart |-> b.cart, ram |-> b.ram, cmd |-> b.cmd, shift |-> b.shift, mir |-> b.mir,
                           nt |-> b.nt, prg |-> b.prg, chr |-> b.chr, reg |-> b.reg]
  BY DEF Boards
<1> TAKE b, o \in Boards
<1> HAVE Agree(b, o) /\ b.prg = o.prg /\ b.chr = o.chr /\ b.nt = o.nt
<1>2. /\ b.m = o.m /\ b.cart = o.cart /\ b.ram = o.ram /\ b.cmd = o.cmd /\ b.shift = o.shift /\ b.mir = o.mir
      /\ b.reg = o.reg /\ b.prg = o.prg /\ b.chr = o.chr /\ b.nt = o.nt
  BY DEF Agree, SameCart, KeepsRegs
<1> DEFINE all(x) == [m |-> x.m, cart |-> x.cart, ram |-> x.ram, cmd |-> x.cmd, shift |-> x.shift, mir |-> x.mir,
                      nt |-> x.nt, prg |-> x.prg, chr |-> x.chr, reg |-> x.reg]
<1>3. all(b) = all(o)
  BY <1>2
<1>4. b = all(b) /\ o = all(o)
  BY <1>1
<1> HIDE DEF all
<1> QED
  BY <1>3, <1>4

\* A unit of 32K is its two halves.
LEMMA WholeHalves ==
    ASSUME NPrg % 4 = 0, NEW b \in Boards, NEW k \in Int
    PROVE  Whole32(b, k) = Prg16(Prg16(b, 0, 2*k), 1, 2*k + 1)
<1> DEFINE q == [i \in 1..4 |-> 4*k + i - 1]
           w == PrgAll(b, q)
           h == Prg16(Prg16(b, 0, 2*k), 1, 2*k + 1)
<1>1. Whole32(b, k) = w
  BY WholeIs DEF Prg32
<1>2. q \in [1..4 -> Int] /\ 2*k \in Int /\ 2*k + 1 \in Int
  OBVIOUS
<1>3. /\ w \in Boards /\ SameCart(b, w) /\ KeepsRegs(b, w) /\ w.mir = b.mir /\ w.nt = b.nt /\ w.chr = b.chr
      /\ w.prg = [s \in 0..3 |-> q[s + 1] % NPrg]
  BY <1>2, PrgAllIs
<1>4. h \in Boards /\ Agree(b, h) /\ h.chr = b.chr /\ h.nt = b.nt /\ h.prg = SlotsOf(2*k, 2*k + 1)
  BY <1>2, HalvesAre
<1> HIDE DEF w, h
<1>5. SlotsOf(2*k, 2*k + 1) = [s \in 0..3 |-> q[s + 1] % NPrg]
  <2>1. /\ 2*(2*k) = 4*k /\ 2*(2*k) + 1 = 4*k + 1
        /\ 2*(2*k + 1) = 4*k + 2 /\ 2*(2*k + 1) + 1 = 4*k + 3
    OBVIOUS
  <2>2. SlotsOf(2*k, 2*k + 1) = [s \in 0..3 |-> CASE s = 0 -> (4*k) % NPrg [] s = 1 -> (4*k + 1) % NPrg
                                                  [] s = 2 -> (4*k + 2) % NPrg [] s = 3 -> (4*k + 3) % NPrg]
    BY <2>1 DEF SlotsOf
  <2>3. q[1] = 4*k /\ q[2] = 4*k + 1 /\ q[3] = 4*k + 2 /\ q[4] = 4*k + 3
    OBVIOUS
  <2> HIDE DEF q
  <2> DEFINE f == [s \in 0..3 |-> CASE s = 0 -> q[1] % NPrg [] s = 1 -> q[2] % NPrg
                                     [] s = 2 -> q[3] % NPrg [] s = 3 -> q[4] % NPrg]
  <2>4. SlotsOf(2*k, 2*k + 1) = f
    BY <2>2, <2>3
  <2>5. \A s \in 0..3 : f[s] = q[s + 1] % NPrg
    <3>1. f[0] = q[1] % NPrg /\ f[1] = q[2] % NPrg /\ f[2] = q[3] % NPrg /\ f[3] = q[4] % NPrg
      OBVIOUS
    <3> HIDE DEF f
    <3> QED
      BY <3>1
  <2> QED
    BY <2>4, <2>5
<1>6. Agree(b, w)
  BY <1>3 DEF Agree
<1>7. Agree(w, h) /\ w.prg = h.prg /\ w.chr = h.chr /\ w.nt = h.nt
  BY <1>3, <1>4, <1>5, <1>6 DEF Agree, SameCart, KeepsRegs
<1> QED
  BY <1>1, <1>3, <1>4, <1>7, SameBoard DEF w, h

LEMMA Mmc1Pages ==
    \A b \in Boards : NPrg % 4 = 0 => \E p, q, c, d \in Int, x \in Mirrors : \A o \in Boards :
      Agree(b, o) => Mmc1Banks(o) = [Chr4(Chr4(Prg16(Prg16(o, 0, p), 1, q), 0, c), 1, d) EXCEPT !.mir = x]
<1> TAKE b \in Boards
<1> HAVE NPrg % 4 = 0
<1> DEFINE mode == Bits(b.reg[0], 4, 4)
           bank == b.reg[3] % 16
           two == IF mode = 2 THEN <<0, bank>> ELSE <<bank, NPrg \div 2 - 1>>
           half == bank \div 2
           pair == IF mode \in {0, 1} THEN <<2*half, 2*half + 1>> ELSE two
           c == IF Bits(b.reg[0], 16, 2) = 0 THEN <<Even(b.reg[1]), Even(b.reg[1]) + 1>> ELSE <<b.reg[1], b.reg[2]>>
           x == <<"A", "B", "vertical", "horizontal">>[(b.reg[0] % 4) + 1]
<1>1. b.reg[0] \in Nat /\ b.reg[1] \in Nat /\ b.reg[2] \in Nat /\ b.reg[3] \in Nat
  BY RegsNat
<1>2. mode \in 0..3 /\ bank \in Nat
  BY <1>1 DEF Bits
<1>3. \A n \in Nat : Even(n) \in Nat
  BY DEF Even
<1>4. \A o \in Boards : Agree(b, o) =>
        Mmc1Banks(o) = [Chr4(Chr4(Prg16(Prg16(o, 0, pair[1]), 1, pair[2]), 0, c[1]), 1, c[2]) EXCEPT !.mir = x]
  <2> TAKE o \in Boards
  <2> HAVE Agree(b, o)
  <2> DEFINE paged == IF mode \in {0, 1} THEN Whole32(o, half) ELSE Prg16(Prg16(o, 0, two[1]), 1, two[2])
  <2>1. Mmc1Banks(o) = [Chr4(Chr4(paged, 0, c[1]), 1, c[2]) EXCEPT !.mir = x]
    BY DEF Mmc1Banks, Agree, KeepsRegs
  <2>2. half \in Int
    BY <1>2
  <2> HIDE DEF mode, bank, half, two, c, x
  <2>3. paged = Prg16(Prg16(o, 0, pair[1]), 1, pair[2])
    BY <2>2, WholeHalves
  <2> HIDE DEF paged
  <2> QED
    BY <2>1, <2>3
<1>5. x \in Mirrors
  <2>1. b.reg[0] % 4 \in 0..3
    BY <1>1
  <2> QED
    BY <2>1, FourNames
<1>6. c[1] \in Int /\ c[2] \in Int
  BY <1>1, <1>3
<1>7. pair[1] \in Int /\ pair[2] \in Int
  <2>1. half \in Int /\ two[1] \in Int /\ two[2] \in Int
    <3>1. bank \div 2 \in Int
      BY <1>2
    <3> HIDE DEF mode, bank
    <3> QED
      BY <3>1, <1>2, LastBank
  <2> HIDE DEF mode, bank, half, two
  <2> QED
    BY <2>1
<1> HIDE DEF pair, c, x
<1>8. PICK p \in Int : p = pair[1]
  BY <1>7
<1>9. PICK q \in Int : q = pair[2]
  BY <1>7
<1>10. PICK d \in Int, e \in Int : d = c[1] /\ e = c[2]
  BY <1>6
<1>11. \A o \in Boards : Agree(b, o) =>
         Mmc1Banks(o) = [Chr4(Chr4(Prg16(Prg16(o, 0, p), 1, q), 0, d), 1, e) EXCEPT !.mir = x]
  BY <1>4, <1>8, <1>9, <1>10
<1> QED
  BY <1>5, <1>11

LEMMA Mmc1Goes ==
    \A b \in Boards : BoardOk(b) /\ b.m = 1 => Goes(b, Mmc1Banks(b))
<1> SUFFICES ASSUME NEW b \in Boards, BoardOk(b), b.m = 1
             PROVE  Goes(b, Mmc1Banks(b))
  OBVIOUS
<1>1. PICK p, q, c, d \in Int, x \in Mirrors :
        Mmc1Banks(b) = [Chr4(Chr4(Prg16(Prg16(b, 0, p), 1, q), 0, c), 1, d) EXCEPT !.mir = x]
  <2>1. NPrg % 4 = 0
    BY DEF BoardOk, RegsFit, WholeOnly
  <2> QED
    BY <2>1, Mmc1Pages, ItAgrees
<1> DEFINE r == Prg16(b, 0, p)
           s == Prg16(r, 1, q)
           t == Chr4(s, 0, c)
           u == Chr4(t, 1, d)
<1>2. Goes(b, r)
  BY Prg16Goes
<1>3. r \in Boards /\ BoardOk(r) /\ r.m = 1
  BY <1>2, GoesOn
<1>4. Goes(r, s)
  <2> HIDE DEF r
  <2> QED
    BY <1>3, Prg16Goes DEF KeepsLast
<1>5. s \in Boards /\ BoardOk(s) /\ s.m = 1 /\ ~Still(s)
  <2> HIDE DEF s
  <2> QED
    BY <1>3, <1>4, GoesOn DEF Still
<1>6. Goes(s, t)
  <2> HIDE DEF s
  <2> QED
    BY <1>5, Chr4Goes
<1>7. t \in Boards /\ BoardOk(t) /\ ~Still(t)
  <2> HIDE DEF t, s
  <2> QED
    BY <1>5, <1>6, GoesOn
<1>8. Goes(t, u)
  <2> HIDE DEF t
  <2> QED
    BY <1>7, Chr4Goes
<1>9. Goes(u, [u EXCEPT !.mir = x])
  <2> HIDE DEF u
  <2>1. u \in Boards /\ BoardOk(u)
    BY <1>8, GoesOn
  <2> QED
    BY <2>1, SettersGo
<1>10. Mmc1Banks(b) = [u EXCEPT !.mir = x]
  BY <1>1
<1> HIDE DEF r, s, t, u
<1> QED
  BY <1>10, <1>2, <1>4, <1>6, <1>8, <1>9, GoesOn

LEMMA M178Pages ==
    \A b \in Boards : \E p, q \in Int, x \in Mirrors : \A o \in Boards :
      Agree(b, o) => M178Banks(o) = [Prg16(Prg16(o, 0, p), 1, q) EXCEPT !.mir = x]
<1> TAKE b \in Boards
<1> DEFINE outer == 8 * b.reg[2]
           inner == outer + (b.reg[1] % 8)
           low == outer + Even(b.reg[1] % 8)
           pair == CASE Bits(b.reg[0], 2, 4) = 0 -> <<low, low + 1>>
                     [] Bits(b.reg[0], 2, 4) = 2 -> <<inner, inner>>
                     [] OTHER -> <<inner, outer + 7>>
           x == IF Odd(b.reg[0]) THEN "horizontal" ELSE "vertical"
<1>1. \A o \in Boards : Agree(b, o) => M178Banks(o) = [Prg16(Prg16(o, 0, pair[1]), 1, pair[2]) EXCEPT !.mir = x]
  BY DEF M178Banks, Agree, KeepsRegs
<1>2. outer \in Int /\ inner \in Int /\ low \in Int
  BY RegsNat DEF Even
<1>3. x \in Mirrors
  BY DEF Mirrors
<1>4. pair[1] \in Int /\ pair[2] \in Int
  <2> HIDE DEF outer, inner, low
  <2> QED
    BY <1>2
<1> HIDE DEF pair, x
<1> QED
  BY <1>1, <1>3, <1>4

LEMMA M178Goes ==
    \A b \in Boards : BoardOk(b) /\ b.m = 178 => Goes(b, M178Banks(b))
<1> SUFFICES ASSUME NEW b \in Boards, BoardOk(b), b.m = 178
             PROVE  Goes(b, M178Banks(b))
  OBVIOUS
<1>2. PICK p, q \in Int, x \in Mirrors : M178Banks(b) = [Prg16(Prg16(b, 0, p), 1, q) EXCEPT !.mir = x]
  BY M178Pages, ItAgrees
<1> DEFINE r == Prg16(b, 0, p)
           s == Prg16(r, 1, q)
<1>3. Goes(b, r)
  BY Prg16Goes
<1>4. Goes(r, s)
  <2> HIDE DEF r
  <2>1. r \in Boards /\ BoardOk(r) /\ r.m = 178
    BY <1>3, GoesOn
  <2> QED
    BY <2>1, Prg16Goes DEF KeepsLast
<1>5. Goes(s, [s EXCEPT !.mir = x])
  <2> HIDE DEF r, s
  <2>1. s \in Boards /\ BoardOk(s)
    BY <1>4, GoesOn
  <2> QED
    BY <2>1, SettersGo
<1>6. M178Banks(b) = [s EXCEPT !.mir = x]
  BY <1>2
<1> HIDE DEF r, s
<1> QED
  BY <1>3, <1>4, <1>5, <1>6, GoesOn

\* The banks of MMC3 in the slots, and those of its windows.
LEMMA Mmc3Is ==
    \A b \in Boards : \E q \in [1..4 -> Int], f \in [0..7 -> 0..(NChr - 1 + IF b.m = 119 THEN 8 ELSE 0)] :
      /\ q[4] = NPrg - 1
      /\ \A o \in Boards : Agree(b, o) =>
           Mmc3Banks(o) = IF b.ram THEN PrgAll(o, q) ELSE [PrgAll(o, q) EXCEPT !.chr = f]
<1> TAKE b \in Boards
<1> DEFINE r == b.reg
           f0 == NPrg - 2
           q == IF Bits(b.cmd, 64, 2) = 0 THEN <<r[6], r[7], f0, NPrg - 1>> ELSE <<f0, r[7], r[6], NPrg - 1>>
           c == <<Even(r[0]), Even(r[0]) + 1, Even(r[1]), Even(r[1]) + 1, r[2], r[3], r[4], r[5]>>
           bank(k) == IF b.m = 119 /\ Bits(k, 64, 2) = 1 THEN NChr + (k % 8) ELSE (k % NChr)
           from(w) == IF b.cmd >= 128 THEN (w + 4) % 8 ELSE w
           f == [w \in 0..7 |-> bank(c[from(w) + 1])]
<1>1. \A i \in 0..7 : r[i] \in Nat /\ Even(r[i]) \in Nat
  BY RegsNat DEF Even
<1>2. q \in [1..4 -> Int] /\ q[4] = NPrg - 1
  <2> HIDE DEF r
  <2> QED
    BY <1>1, LastBank
<1>3. c \in [1..8 -> Int]
  <2> HIDE DEF r
  <2> QED
    BY <1>1
<1>4. \A k \in Int : bank(k) \in 0..(NChr - 1 + IF b.m = 119 THEN 8 ELSE 0)
  <2> TAKE k \in Int
  <2>1. k % NChr \in 0..(NChr - 1) /\ k % 8 \in 0..7 /\ NChr \in Nat
    BY LastBank, Remainders
  <2> HIDE DEF r
  <2>2. CASE b.m = 119
    BY <2>1, <2>2
  <2>3. CASE b.m # 119
    BY <2>1, <2>3
  <2> QED
    BY <2>2, <2>3
<1>5. \A w \in 0..7 : from(w) + 1 \in 1..8
  OBVIOUS
<1>6. \A o \in Boards : Agree(b, o) =>
        Mmc3Banks(o) = IF b.ram THEN PrgAll(o, q) ELSE [PrgAll(o, q) EXCEPT !.chr = f]
  BY DEF Mmc3Banks, Agree, SameCart, KeepsRegs
<1>7. f \in [0..7 -> 0..(NChr - 1 + IF b.m = 119 THEN 8 ELSE 0)]
  <2> HIDE DEF c, bank, from
  <2> QED
    BY <1>3, <1>4, <1>5
<1> HIDE DEF q, f
<1> QED
  BY <1>2, <1>6, <1>7

LEMMA Mmc3Goes ==
    \A b \in Boards : BoardOk(b) /\ b.m \in {4, 119} => Goes(b, Mmc3Banks(b))
<1> SUFFICES ASSUME NEW b \in Boards, BoardOk(b), b.m \in {4, 119}
             PROVE  Goes(b, Mmc3Banks(b))
  OBVIOUS
<1>1. PICK q \in [1..4 -> Int], f \in [0..7 -> 0..(NChr - 1 + IF b.m = 119 THEN 8 ELSE 0)] :
      q[4] = NPrg - 1 /\ Mmc3Banks(b) = IF b.ram THEN PrgAll(b, q) ELSE [PrgAll(b, q) EXCEPT !.chr = f]
  BY Mmc3Is, ItAgrees
<1> DEFINE p == PrgAll(b, q)
<1>2. Goes(b, p)
  BY <1>1, PrgAllGoes
<1>3. CASE b.ram
  BY <1>1, <1>2, <1>3
<1>4. CASE ~b.ram
  <2> HIDE DEF p
  <2>1. p \in Boards /\ BoardOk(p) /\ p.m = b.m /\ ~Still(p)
    BY <1>2, <1>4, GoesOn DEF Still
  <2> DEFINE s == [p EXCEPT !.chr = f]
  <2>2. f \in Windows
    BY LastBank DEF Windows
  <2>3. s \in Boards /\ SameCart(p, s) /\ KeepsRegs(p, s) /\ s.nt = p.nt /\ s.prg = p.prg /\ s.chr = f
    BY <2>1, <2>2, ChrIs
  <2> HIDE DEF s
  <2>4. ChrFits(s)
    BY <2>1, <2>3 DEF ChrFits, SameCart
  <2>5. Goes(p, s)
    BY <2>1, <2>3, <2>4, ChrGoes
  <2>6. Mmc3Banks(b) = s
    BY <1>1, <1>4 DEF p, s
  <2> QED
    BY <1>2, <2>5, <2>6, GoesOn
<1> QED
  BY <1>3, <1>4

----------------------------------------------------------------------------
LEMMA Mmc5Is ==
    \A b \in Boards : b.reg[5] \in 0..3 /\ NPrg % 4 = 0 =>
      \E p \in [0..3 -> {Ram} \cup 0..(NPrg - 1)] : \A o \in Boards :
        Agree(b, o) => Mmc5Prg(o) = [o EXCEPT !.prg = p]
<1> SUFFICES ASSUME NEW b \in Boards, b.reg[5] \in 0..3, NPrg % 4 = 0
             PROVE  \E p \in [0..3 -> {Ram} \cup 0..(NPrg - 1)] : \A o \in Boards :
                      Agree(b, o) => Mmc5Prg(o) = [o EXCEPT !.prg = p]
  OBVIOUS
<1> DEFINE r == b.reg
           mode == r[5]
           down(k, n) == n * ((k % 128) \div n)
           slot(s) ==
             CASE mode = 1 -> IF s < 2 THEN down(r[2], 2) + s ELSE down(r[4], 2) + s - 2
               [] mode = 2 -> IF s < 2 THEN down(r[2], 2) + s ELSE (r[s + 1] % 128)
               [] mode = 3 -> (r[s + 1] % 128)
           isRam(s) ==
             CASE mode \in {1, 2} /\ s < 2 -> r[2] < 128
               [] mode = 2 /\ s = 2 -> r[3] < 128
               [] mode = 3 /\ s < 3 -> r[s + 1] < 128
               [] OTHER -> FALSE
           whole == (r[4] % 128) \div 4
           u == [i \in 1..4 |-> 4*whole + i - 1]
           w == [s \in 0..3 |-> u[s + 1] % NPrg]
           p == [s \in 0..3 |-> IF isRam(s) THEN Ram ELSE slot(s) % NPrg]
<1>1. \A s \in 0..3 : r[s + 1] \in Nat /\ r[2] \in Nat /\ r[4] \in Nat
  BY RegsNat
<1>2. \A k \in Nat : down(k, 4) \in Int /\ down(k, 2) \in Int
  OBVIOUS
<1>3. mode # 0 => \A s \in 0..3 : slot(s) \in Int
  <2> HAVE mode # 0
  <2> TAKE s \in 0..3
  <2> DEFINE d22 == down(r[2], 2)
             d42 == down(r[4], 2)
  <2>1. d22 \in Int /\ d42 \in Int /\ r[s + 1] % 128 \in Int
    BY <1>1, <1>2
  <2> HIDE DEF d22, d42, down
  <2>3. CASE mode = 1
    <3>1. slot(s) = IF s < 2 THEN d22 + s ELSE d42 + s - 2
      BY <2>3 DEF d22, d42
    <3> HIDE DEF slot
    <3> QED
      BY <3>1, <2>1
  <2>4. CASE mode = 2
    <3>1. slot(s) = IF s < 2 THEN d22 + s ELSE (r[s + 1] % 128)
      BY <2>4 DEF d22
    <3> HIDE DEF slot
    <3> QED
      BY <3>1, <2>1
  <2>5. CASE mode = 3
    <3>1. slot(s) = r[s + 1] % 128
      BY <2>5
    <3> HIDE DEF slot
    <3> QED
      BY <3>1, <2>1
  <2> QED
    BY <2>3, <2>4, <2>5
<1>4. CASE mode # 0
  <2>1. \A o \in Boards : Agree(b, o) => Mmc5Prg(o) = [o EXCEPT !.prg = p]
    BY <1>4 DEF Mmc5Prg, Agree, KeepsRegs
  <2>2. p \in [0..3 -> {Ram} \cup 0..(NPrg - 1)]
    <3> HIDE DEF slot, isRam
    <3>1. \A s \in 0..3 : slot(s) % NPrg \in 0..(NPrg - 1)
      BY <1>3, <1>4, LastBank, Remainders
    <3> QED
      BY <3>1
  <2> HIDE DEF p
  <2> QED
    BY <2>1, <2>2
<1>5. CASE mode = 0
  <2>1. whole \in Int
    BY <1>1
  <2>2. \A o \in Boards : Agree(b, o) => Mmc5Prg(o) = Whole32(o, whole)
    BY <1>5 DEF Mmc5Prg, Agree, KeepsRegs
  <2> HIDE DEF whole
  <2>3. \A o \in Boards : Whole32(o, whole) = [o EXCEPT !.prg = w]
    BY <2>1, WholeIs DEF Prg32, PrgAll
  <2>4. w \in [0..3 -> {Ram} \cup 0..(NPrg - 1)]
    <3>1. \A s \in 0..3 : u[s + 1] \in Int
      BY <2>1
    <3> HIDE DEF u
    <3>2. \A s \in 0..3 : u[s + 1] % NPrg \in 0..(NPrg - 1)
      BY <3>1, LastBank, Remainders
    <3> QED
      BY <3>2
  <2> HIDE DEF w
  <2> QED
    BY <2>2, <2>3, <2>4
<1> QED
  BY <1>4, <1>5

LEMMA Mmc5Goes ==
    \A b \in Boards : BoardOk(b) /\ b.m = 5 => Goes(b, Mmc5Prg(b))
<1> SUFFICES ASSUME NEW b \in Boards, BoardOk(b), b.m = 5 PROVE Goes(b, Mmc5Prg(b))
  OBVIOUS
<1>1. b.reg[5] \in 0..3 /\ NPrg % 4 = 0
  BY DEF BoardOk, RegsFit, WholeOnly
<1>2. PICK p \in [0..3 -> {Ram} \cup 0..(NPrg - 1)] : Mmc5Prg(b) = [b EXCEPT !.prg = p]
  BY <1>1, Mmc5Is, ItAgrees
<1>3. p \in Slots
  BY LastBank DEF Slots, Ram
<1> DEFINE r == [b EXCEPT !.prg = p]
<1>4. r \in Boards /\ SameCart(b, r) /\ KeepsRegs(b, r) /\ r.nt = b.nt /\ r.chr = b.chr /\ r.prg = p
  BY <1>3, PrgIs
<1> HIDE DEF r
<1>5. PrgFits(r) /\ LastFits(r)
  BY <1>4 DEF PrgFits, LastFits, KeepsLast, SameCart
<1>6. Goes(b, r)
  BY <1>4, <1>5, PrgGoes
<1> QED
  BY <1>2, <1>6 DEF r

LEMMA Mapper9Is ==
    \A b \in Boards : NPrg >= 16 /\ b.reg[0] \in 0..15 /\ b.reg[5] \in 0..1 /\ b.reg[6] \in 0..1 =>
      \E p \in [0..3 -> 0..(NPrg - 1)], k, j \in Nat :
        /\ p[3] = NPrg - 1
        /\ \A o \in Boards : Agree(b, o) =>
             Mapper9Banks(o) = IF b.ram THEN [o EXCEPT !.prg = p]
                               ELSE Chr4(Chr4([o EXCEPT !.prg = p], 0, k), 1, j)
<1> SUFFICES ASSUME NEW b \in Boards, NPrg >= 16, b.reg[0] \in 0..15, b.reg[5] \in 0..1, b.reg[6] \in 0..1
             PROVE  \E p \in [0..3 -> 0..(NPrg - 1)], k, j \in Nat :
        /\ p[3] = NPrg - 1
        /\ \A o \in Boards : Agree(b, o) =>
             Mapper9Banks(o) = IF b.ram THEN [o EXCEPT !.prg = p]
                               ELSE Chr4(Chr4([o EXCEPT !.prg = p], 0, k), 1, j)
  OBVIOUS
<1> DEFINE bank(h) == b.reg[1 + 2*h + b.reg[5 + h]]
           p == [s \in 0..3 |-> IF s = 0 THEN b.reg[0] ELSE NPrg - 4 + s]
<1>1. bank(0) \in Nat /\ bank(1) \in Nat
  <2>1. 1 + 2*0 + b.reg[5 + 0] \in 0..19 /\ 1 + 2*1 + b.reg[5 + 1] \in 0..19
    OBVIOUS
  <2> QED
    BY <2>1, RegsNat
<1>2. p \in [0..3 -> 0..(NPrg - 1)] /\ p[3] = NPrg - 1
  BY LastBank
<1>3. \A o \in Boards : Agree(b, o) =>
        Mapper9Banks(o) = IF b.ram THEN [o EXCEPT !.prg = p]
                          ELSE Chr4(Chr4([o EXCEPT !.prg = p], 0, bank(0)), 1, bank(1))
  BY DEF Mapper9Banks, Agree, SameCart, KeepsRegs
<1> DEFINE k == bank(0)
           j == bank(1)
<1>4. \A o \in Boards : Agree(b, o) =>
        Mapper9Banks(o) = IF b.ram THEN [o EXCEPT !.prg = p]
                          ELSE Chr4(Chr4([o EXCEPT !.prg = p], 0, k), 1, j)
  BY <1>3
<1>5. k \in Nat /\ j \in Nat
  BY <1>1
<1> HIDE DEF k, j, p
<1> QED
  BY <1>2, <1>4, <1>5

LEMMA Mapper9Goes ==
    \A b \in Boards : BoardOk(b) /\ b.m = 9 => Goes(b, Mapper9Banks(b))
<1> SUFFICES ASSUME NEW b \in Boards, BoardOk(b), b.m = 9 PROVE Goes(b, Mapper9Banks(b))
  OBVIOUS
<1>1. NPrg >= 16 /\ b.reg[0] \in 0..15 /\ b.reg[5] \in 0..1 /\ b.reg[6] \in 0..1
  BY DEF BoardOk, RegsFit
<1>2. PICK p \in [0..3 -> 0..(NPrg - 1)], k, j \in Nat :
        /\ p[3] = NPrg - 1
        /\ Mapper9Banks(b) = IF b.ram THEN [b EXCEPT !.prg = p]
                             ELSE Chr4(Chr4([b EXCEPT !.prg = p], 0, k), 1, j)
  BY <1>1, Mapper9Is, ItAgrees
<1>3. p \in Slots
  BY LastBank DEF Slots
<1> DEFINE r == [b EXCEPT !.prg = p]
           s == Chr4(r, 0, k)
           t == Chr4(s, 1, j)
<1>4. r \in Boards /\ SameCart(b, r) /\ KeepsRegs(b, r) /\ r.nt = b.nt /\ r.chr = b.chr /\ r.prg = p
  BY <1>3, PrgIs
<1>5. Goes(b, r)
  <2> HIDE DEF r
  <2>1. PrgFits(r) /\ LastFits(r)
    BY <1>2, <1>4, LastBank DEF PrgFits, LastFits, SameCart
  <2> QED
    BY <1>4, <2>1, PrgGoes
<1>6. CASE b.ram
  BY <1>2, <1>5, <1>6
<1>7. CASE ~b.ram
  <2> HIDE DEF r
  <2>1. r \in Boards /\ BoardOk(r) /\ ~Still(r)
    BY <1>5, <1>7, GoesOn DEF Still
  <2>2. Goes(r, s)
    BY <2>1, Chr4Goes
  <2> HIDE DEF s
  <2>3. s \in Boards /\ BoardOk(s) /\ ~Still(s)
    BY <2>1, <2>2, GoesOn
  <2>4. Goes(s, t)
    BY <2>3, Chr4Goes
  <2>5. Mapper9Banks(b) = t
    BY <1>2, <1>7 DEF r, s
  <2> HIDE DEF t
  <2> QED
    BY <1>5, <2>2, <2>4, <2>5, GoesOn
<1> QED
  BY <1>6, <1>7

\* A board whose four slots and eight windows are chosen at once.
LEMMA AllGo ==
    \A b \in Boards, p \in [1..4 -> Int], c \in [1..8 -> Int] :
      BoardOk(b) /\ ~Still(b) /\ (b.m \notin KeepsLast \/ p[4] = NPrg - 1) => Goes(b, PrgAll(ChrAll(b, c), p))
<1> SUFFICES ASSUME NEW b \in Boards, NEW p \in [1..4 -> Int], NEW c \in [1..8 -> Int],
                    BoardOk(b), ~Still(b), b.m \notin KeepsLast \/ p[4] = NPrg - 1
             PROVE  Goes(b, PrgAll(ChrAll(b, c), p))
  OBVIOUS
<1> DEFINE r == ChrAll(b, c)
<1>1. Goes(b, r)
  BY ChrAllGoes
<1> HIDE DEF r
<1>2. r \in Boards /\ BoardOk(r) /\ r.m = b.m
  BY <1>1, GoesOn
<1>3. Goes(r, PrgAll(r, p))
  BY <1>2, PrgAllGoes
<1> QED
  BY <1>1, <1>3, GoesOn DEF r

LEMMA Vrc4Goes ==
    \A b \in Boards : BoardOk(b) /\ b.m = 23 => Goes(b, Vrc4Prg(b))
<1> SUFFICES ASSUME NEW b \in Boards, BoardOk(b), b.m = 23 PROVE Goes(b, Vrc4Prg(b))
  OBVIOUS
<1> DEFINE q == IF Bits(b.reg[2], 2, 2) = 1 THEN <<NPrg - 2, b.reg[1], b.reg[0], NPrg - 1>>
                ELSE <<b.reg[0], b.reg[1], NPrg - 2, NPrg - 1>>
<1>1. b.reg[0] \in Nat /\ b.reg[1] \in Nat
  BY RegsNat
<1>2. q \in [1..4 -> Int] /\ q[4] = NPrg - 1
  BY <1>1, LastBank
<1>3. Vrc4Prg(b) = PrgAll(b, q)
  BY DEF Vrc4Prg
<1> HIDE DEF q
<1> QED
  BY <1>2, <1>3, PrgAllGoes

LEMMA RamboIs ==
    \A b \in Boards : \E p \in [1..4 -> Int], c \in [1..8 -> Int] :
      p[4] = NPrg - 1 /\ RamboUpdate(b) = PrgAll(ChrAll(b, c), p)
<1> TAKE b \in Boards
<1> DEFINE r == b.reg
           x == IF Bits(b.cmd, 32, 2) = 1 THEN <<r[0], r[8], r[1], r[9]>>
                ELSE <<Even(r[0]), Even(r[0]) + 1, Even(r[1]), Even(r[1]) + 1>>
           y == <<r[2], r[3], r[4], r[5]>>
           pos(i) == IF b.cmd >= 128 THEN ((i + 3) % 8) + 1 ELSE i
           c == [i \in 1..8 |-> (x \o y)[pos(i)]]
           p == IF Bits(b.cmd, 64, 2) = 1 THEN <<r[15], r[6], r[7], NPrg - 1>> ELSE <<r[6], r[7], r[15], NPrg - 1>>
<1>1. /\ \A i \in 0..19 : r[i] \in Nat
      /\ \A n \in Nat : Even(n) \in Nat
  BY RegsNat DEF Even
<1>2. p \in [1..4 -> Int] /\ p[4] = NPrg - 1
  <2> HIDE DEF r
  <2> QED
    BY <1>1, LastBank
<1>3. x \in Seq(Int) /\ Len(x) = 4 /\ y \in Seq(Int) /\ Len(y) = 4
  <2> HIDE DEF r
  <2> QED
    BY <1>1
<1>4. x \o y \in Seq(Int) /\ Len(x \o y) = 8
  <2> HIDE DEF x, y
  <2>1. x \in Seq(Int) /\ y \in Seq(Int)
    BY <1>3
  <2>2. x \o y \in Seq(Int) /\ Len(x \o y) = Len(x) + Len(y)
    BY <2>1, ConcatProperties
  <2> QED
    BY <2>2, <1>3
<1>5. \A i \in 1..8 : pos(i) \in 1..8
  OBVIOUS
<1>6. c \in [1..8 -> Int]
  <2> DEFINE z == x \o y
  <2> HIDE DEF z, pos
  <2>1. \A i \in 1..8 : z[i] \in Int
    BY <1>4 DEF z
  <2>2. c = [i \in 1..8 |-> z[pos(i)]]
    BY DEF z
  <2> HIDE DEF c
  <2> QED
    BY <2>1, <2>2, <1>5
<1>7. RamboUpdate(b) = PrgAll(ChrAll(b, c), p)
  BY DEF RamboUpdate
<1> HIDE DEF c, p
<1> QED
  BY <1>2, <1>6, <1>7

LEMMA NamcoIs ==
    \A b \in Boards : \E p \in [1..4 -> Int], c \in [1..8 -> Int], q \in [1..4 -> Int] :
      /\ p[4] = NPrg - 1
      /\ Namco108Update(b) = LET all == PrgAll(ChrAll(b, c), p) IN IF b.m = 95 THEN SetNt(all, q) ELSE all
<1> TAKE b \in Boards
<1> DEFINE r == b.reg
           chr(k) == r[k] % (IF b.m = 95 THEN 32 ELSE 64)
           c == <<2 * (chr(0) \div 2), 2 * (chr(0) \div 2) + 1,
                  2 * (chr(1) \div 2), 2 * (chr(1) \div 2) + 1,
                  chr(2), chr(3), chr(4), chr(5)>>
           p == <<(r[6] % 16), (r[7] % 16), NPrg - 2, NPrg - 1>>
           lo == Bits(r[0], 32, 2)
           hi == Bits(r[1], 32, 2)
           q == <<lo, lo, hi, hi>>
<1>1. \A i \in 0..19 : r[i] \in Nat
  BY RegsNat
<1>2. \A i \in 0..7 : chr(i) \in Int
  BY <1>1
<1>3. c \in [1..8 -> Int]
  <2> HIDE DEF chr
  <2> QED
    BY <1>2
<1>4. p \in [1..4 -> Int] /\ p[4] = NPrg - 1
  <2> HIDE DEF r
  <2> QED
    BY <1>1, LastBank
<1>5. q \in [1..4 -> Int]
  <2>1. lo \in Int /\ hi \in Int
    BY <1>1 DEF Bits
  <2> HIDE DEF lo, hi
  <2> QED
    BY <2>1
<1>6. Namco108Update(b) = LET all == PrgAll(ChrAll(b, c), p) IN IF b.m = 95 THEN SetNt(all, q) ELSE all
  BY DEF Namco108Update
<1> HIDE DEF c, p, q
<1> QED
  BY <1>3, <1>4, <1>5, <1>6

LEMMA NtdecIs ==
    \A b \in Boards : \E p \in [1..4 -> Int], c \in [1..8 -> Int] :
      p[4] = NPrg - 1 /\ NtdecUpdate(b) = PrgAll(ChrAll(b, c), p)
<1> TAKE b \in Boards
<1> DEFINE r == b.reg
           c == <<Even(r[2]), Even(r[2]) + 1, Even(r[3]), Even(r[3]) + 1, r[4], r[5], r[6], r[7]>>
           p == <<r[0], r[1], NPrg - 2, NPrg - 1>>
<1>1. /\ \A i \in 0..19 : r[i] \in Nat
      /\ \A n \in Nat : Even(n) \in Nat
  BY RegsNat DEF Even
<1>2. c \in [1..8 -> Int] /\ p \in [1..4 -> Int] /\ p[4] = NPrg - 1
  <2> HIDE DEF r
  <2> QED
    BY <1>1, LastBank
<1>3. NtdecUpdate(b) = PrgAll(ChrAll(b, c), p)
  BY DEF NtdecUpdate
<1> HIDE DEF c, p
<1> QED
  BY <1>2, <1>3

LEMMA SachenIs ==
    \A b \in Boards : \E k, j \in Int, q \in [1..4 -> Int] : SachenUpdate(b) = SetNt(Chr8(Prg32(b, k), j), q)
<1> TAKE b \in Boards
<1> DEFINE r == b.reg
           k == r[5] % 8
           j == IF b.m = 150 THEN 8 * (r[2] % 2) + 4 * (r[4] % 2) + (r[6] % 4)
                ELSE (r[2] % 2) + 2 * (r[4] % 2) + 4 * (r[6] % 4)
           n == Bits(r[7], 2, 4)
           q == <<<<0, 1, 0, 1>>, <<0, 0, 1, 1>>, <<0, 1, 1, 1>>, <<1, 1, 1, 1>>>>[n + 1]
<1>1. \A i \in 0..19 : r[i] \in Nat
  BY RegsNat
<1>2. k \in Int /\ j \in Int
  BY <1>1
<1>3. n = 0 \/ n = 1 \/ n = 2 \/ n = 3
  BY <1>1 DEF Bits
<1>4. q \in [1..4 -> Int]
  <2> HIDE DEF n
  <2> QED
    BY <1>3
<1>5. SachenUpdate(b) = SetNt(Chr8(Prg32(b, k), j), q)
  BY DEF SachenUpdate
<1> HIDE DEF k, j, q
<1> QED
  BY <1>2, <1>4, <1>5

LEMMA UpdatesGo ==
    \A b \in Boards :
      BoardOk(b) => /\ b.m = 64 => Goes(b, RamboUpdate(b))
                    /\ b.m \in {95, 206} => Goes(b, Namco108Update(b))
                    /\ b.m = 112 => Goes(b, NtdecUpdate(b))
                    /\ b.m \in {150, 243} => Goes(b, SachenUpdate(b))
<1> SUFFICES ASSUME NEW b \in Boards, BoardOk(b)
             PROVE  /\ b.m = 64 => Goes(b, RamboUpdate(b))
                    /\ b.m \in {95, 206} => Goes(b, Namco108Update(b))
                    /\ b.m = 112 => Goes(b, NtdecUpdate(b))
                    /\ b.m \in {150, 243} => Goes(b, SachenUpdate(b))
  OBVIOUS
<1>1. ASSUME b.m = 64 PROVE Goes(b, RamboUpdate(b))
  <2>1. ~Still(b)
    BY <1>1 DEF Still
  <2> QED
    BY <2>1, RamboIs, AllGo
<1>2. ASSUME b.m = 112 PROVE Goes(b, NtdecUpdate(b))
  <2>1. ~Still(b)
    BY <1>2 DEF Still
  <2> QED
    BY <2>1, NtdecIs, AllGo
<1>3. ASSUME b.m \in {95, 206} PROVE Goes(b, Namco108Update(b))
  <2>1. ~Still(b) /\ b.m \notin SoleTables
    BY <1>3 DEF Still, SoleTables
  <2>2. PICK p \in [1..4 -> Int], c \in [1..8 -> Int], q \in [1..4 -> Int] :
      /\ p[4] = NPrg - 1
      /\ Namco108Update(b) = LET all == PrgAll(ChrAll(b, c), p) IN IF b.m = 95 THEN SetNt(all, q) ELSE all
    BY NamcoIs
  <2> DEFINE all == PrgAll(ChrAll(b, c), p)
  <2>3. Goes(b, all)
    BY <2>1, <2>2, AllGo
  <2>4. Namco108Update(b) = IF b.m = 95 THEN SetNt(all, q) ELSE all
    BY <2>2
  <2> HIDE DEF all
  <2>5. Goes(all, SetNt(all, q))
    <3>1. all \in Boards /\ BoardOk(all) /\ all.m \notin SoleTables
      BY <2>1, <2>3, GoesOn
    <3> QED
      BY <3>1, SettersGo
  <2> QED
    BY <2>3, <2>4, <2>5, GoesOn
<1>4. ASSUME b.m \in {150, 243} PROVE Goes(b, SachenUpdate(b))
  <2>1. ~Still(b) /\ b.m \notin SoleTables /\ b.m \notin KeepsLast
    BY <1>4 DEF Still, SoleTables, KeepsLast
  <2>2. PICK k, j \in Int, q \in [1..4 -> Int] : SachenUpdate(b) = SetNt(Chr8(Prg32(b, k), j), q)
    BY SachenIs
  <2> DEFINE all == Chr8(Prg32(b, k), j)
  <2>3. Goes(b, all)
    BY <2>1, BothGo
  <2>4. SachenUpdate(b) = SetNt(all, q)
    BY <2>2
  <2> HIDE DEF all
  <2>5. Goes(all, SetNt(all, q))
    <3>1. all \in Boards /\ BoardOk(all) /\ all.m \notin SoleTables
      BY <2>1, <2>3, GoesOn
    <3> QED
      BY <3>1, SettersGo
  <2> QED
    BY <2>3, <2>4, <2>5, GoesOn
<1> QED
  BY <1>1, <1>2, <1>3, <1>4

----------------------------------------------------------------------------
\* A board with one more register set, then its banks worked out.
LEMMA AfterReg ==
    \A b \in Boards, i, v \in Nat :
      BoardOk(b) /\ b.m \notin {5, 9} =>
        LET r == SetReg(b, i, v) IN
        /\ r \in Boards /\ BoardOk(r) /\ r.m = b.m
        /\ \A x : Goes(r, x) => Goes(b, x)
  BY SettersGo, GoesOn

LEMMA AfterCmd ==
    \A b \in Boards, v \in Nat :
      BoardOk(b) =>
        LET r == [b EXCEPT !.cmd = v] IN
        /\ r \in Boards /\ BoardOk(r) /\ r.m = b.m /\ Goes(b, r)
        /\ \A x : Goes(r, x) => Goes(b, x)
  BY SettersGo, GoesOn

LEMMA NestedGoes ==
    \A b \in Boards, a \in Nat, v \in Nat :
      BoardOk(b) /\ b.m \in {64, 95, 112, 132, 150, 178, 206, 243} /\ (b.m = 178 => a \in \h4800..\h4803) =>
        /\ b.m # 64 => Goes(b, PlainWrite(b, a, v))
        /\ b.m = 64 => Goes(b, RamboWrite(b, a, v))
<1> SUFFICES ASSUME NEW b \in Boards, NEW a \in Nat, NEW v \in Nat, BoardOk(b),
                    b.m \in {64, 95, 112, 132, 150, 178, 206, 243}, b.m = 178 => a \in \h4800..\h4803
             PROVE  /\ b.m # 64 => Goes(b, PlainWrite(b, a, v))
                    /\ b.m = 64 => Goes(b, RamboWrite(b, a, v))
  OBVIOUS
<1> DEFINE r(i) == SetReg(b, i, v)
           c(n) == [b EXCEPT !.cmd = n]
<1>1. Goes(b, b) /\ b.cmd \in Nat /\ b.cmd % 16 \in Nat /\ v % 8 \in Nat
  BY RegsNat DEF Goes, SameCart
<1>2. \A i \in Nat : r(i) \in Boards /\ BoardOk(r(i)) /\ r(i).m = b.m /\ Goes(b, r(i)) /\ \A x : Goes(r(i), x) => Goes(b, x)
  BY AfterReg, SettersGo
<1>3. \A n \in Nat : c(n) \in Boards /\ BoardOk(c(n)) /\ c(n).m = b.m /\ Goes(b, c(n)) /\ \A x : Goes(c(n), x) => Goes(b, x)
  BY AfterCmd
<1>4. PICK odd \in BOOLEAN : odd = Odd(v)
  <2>1. Odd(v) \in BOOLEAN
    BY DEF Odd
  <2> QED
    BY <2>1
<1>5. Goes(b, MirrorHv(b, odd))
  BY MirrorGoes
<1>a. CASE b.m = 64
  <2>1. RamboWrite(b, a, v) \in {RamboUpdate(c(v)), RamboUpdate(r(b.cmd % 16)), MirrorHv(b, odd), b}
    BY <1>4 DEF RamboWrite
  <2> HIDE DEF r, c
  <2>2. Goes(b, RamboUpdate(c(v))) /\ Goes(b, RamboUpdate(r(b.cmd % 16)))
    BY <1>1, <1>2, <1>3, <1>a, UpdatesGo
  <2> QED
    BY <2>1, <2>2, <1>1, <1>5, <1>a
<1>b. CASE b.m \in {95, 206}
  <2>1. PlainWrite(b, a, v) \in {b, Namco108Update(r(b.cmd)), c(v % 8)}
    BY <1>b DEF PlainWrite
  <2> HIDE DEF r, c
  <2>2. Goes(b, Namco108Update(r(b.cmd))) /\ Goes(b, c(v % 8))
    BY <1>1, <1>2, <1>3, <1>b, UpdatesGo
  <2> QED
    BY <2>1, <2>2, <1>1, <1>b
<1>c. CASE b.m = 112
  <2>1. PlainWrite(b, a, v) \in {b, NtdecUpdate(r(b.cmd)), c(v % 8), MirrorHv(b, odd)}
    BY <1>c, <1>4 DEF PlainWrite
  <2> HIDE DEF r, c
  <2>2. Goes(b, NtdecUpdate(r(b.cmd))) /\ Goes(b, c(v % 8))
    BY <1>1, <1>2, <1>3, <1>c, UpdatesGo
  <2> QED
    BY <2>1, <2>2, <1>1, <1>5, <1>c
<1>d. CASE b.m \in {150, 243}
  <2>1. PlainWrite(b, a, v) \in {SachenUpdate(r(b.cmd)), c(v % 8)}
    BY <1>d DEF PlainWrite
  <2> HIDE DEF r, c
  <2>2. Goes(b, SachenUpdate(r(b.cmd))) /\ Goes(b, c(v % 8))
    BY <1>1, <1>2, <1>3, <1>d, UpdatesGo
  <2> QED
    BY <2>1, <2>2, <1>d
<1>e. CASE b.m = 132
  <2> DEFINE k == Bits(b.reg[2], 4, 2)
             j == b.reg[2] % 4
  <2>1. PlainWrite(b, a, v) \in {r(a % 4), Chr8(Prg32(b, k), j)}
    BY <1>e DEF PlainWrite
  <2>2. k \in Int /\ j \in Int /\ a % 4 \in Nat
    BY RegsNat DEF Bits
  <2> HIDE DEF r, k, j
  <2>3. Goes(b, Chr8(Prg32(b, k), j))
    BY <2>2, <1>e, BothGo DEF Still, KeepsLast
  <2> QED
    BY <2>1, <2>2, <2>3, <1>2, <1>e
<1>f. CASE b.m = 178
  <2>1. PlainWrite(b, a, v) \in {M178Banks(b), M178Banks(r(a - \h4800))} /\ a - \h4800 \in Nat
    BY <1>f DEF PlainWrite
  <2> HIDE DEF r
  <2>2. Goes(b, M178Banks(b)) /\ Goes(b, M178Banks(r(a - \h4800)))
    BY <2>1, <1>2, <1>f, M178Goes
  <2> QED
    BY <2>1, <2>2, <1>f
<1> QED
  BY <1>a, <1>b, <1>c, <1>d, <1>e, <1>f

LEMMA SlotsGo ==
    \A b \in Boards, a, v \in Nat :
      BoardOk(b) /\ b.m \in {16, 19, 33, 69} /\ a \in Ports(b.m) => Goes(b, PlainWrite(b, a, v))
<1> SUFFICES ASSUME NEW b \in Boards, NEW a \in Nat, NEW v \in Nat, BoardOk(b),
                    b.m \in {16, 19, 33, 69}, a \in Ports(b.m)
             PROVE  Goes(b, PlainWrite(b, a, v))
  OBVIOUS
<1>1. Goes(b, b) /\ ~Still(b) /\ b.m \notin SoleTables
  BY DEF Goes, SameCart, Still, SoleTables
<1>2. \A s \in 0..2, k \in Int : Goes(b, Prg8(b, s, k))
  BY Prg8Goes
<1>3. \A s \in 0..7, k \in Int : Goes(b, Chr1(b, s, k))
  BY <1>1, Chr1Goes
<1>4. Goes(b, MirrorVhab(b, v))
  BY MirrorGoes
<1>5. v % 16 \in Nat /\ v % 64 \in Nat
  OBVIOUS
<1>a. CASE b.m = 16
  <2>1. PlainWrite(b, a, v) \in {Prg16(b, 0, v % 16), MirrorVhab(b, v), b} \cup {Chr1(b, s, v) : s \in 0..7}
    BY <1>a DEF PlainWrite
  <2>2. Goes(b, Prg16(b, 0, v % 16))
    BY <1>5, Prg16Goes
  <2> QED
    BY <2>1, <2>2, <1>1, <1>3, <1>4
<1>b. CASE b.m = 19
  <2> DEFINE w == PlainWrite(b, a, v)
  <2>1. a \in {\h8000, \hB800, \hC800, \hE000, \hE800, \hF000, \hF800}
    BY <1>b DEF Ports
  <2>2. w \in {Chr1(b, s, v) : s \in 0..7} \cup {[b EXCEPT !.nt[s] = v] : s \in 1..4}
               \cup {Prg8(b, s, v % 64) : s \in 0..2} \cup {b}
    <3>1. CASE a \in {\h8000, \hB800}
      <4>1. w = Chr1(b, Bits(a, 2048, 8), v)
        <5>1. a \div \h1000 < 12
          BY <3>1
        <5> QED
          BY <5>1, <1>b DEF PlainWrite
      <4>2. Bits(a, 2048, 8) \in 0..7
        BY DEF Bits
      <4> HIDE DEF w
      <4> QED
        BY <4>1, <4>2
    <3>2. CASE a = \hC800
      <4>1. w = [b EXCEPT !.nt[Bits(a, 2048, 4) + 1] = v]
        <5>1. a \div \h1000 = 12
          BY <3>2
        <5> QED
          BY <5>1, <1>b DEF PlainWrite
      <4>2. Bits(a, 2048, 4) + 1 \in 1..4
        BY <3>2 DEF Bits
      <4> HIDE DEF w
      <4> QED
        BY <4>1, <4>2
    <3>3. CASE a \in {\hE000, \hE800, \hF000}
      <4>1. w = Prg8(b, Bits(a, 2048, 8) - 4, v % 64)
        BY <3>3, <1>b DEF PlainWrite
      <4>2. Bits(a, 2048, 8) - 4 \in 0..2
        BY <3>3 DEF Bits
      <4> HIDE DEF w
      <4> QED
        BY <4>1, <4>2
    <3>4. CASE a = \hF800
      <4>1. w = b
        BY <3>4, <1>b DEF PlainWrite
      <4> HIDE DEF w
      <4> QED
        BY <4>1
    <3> QED
      BY <2>1, <3>1, <3>2, <3>3, <3>4
  <2>3. \A s \in 1..4 : Goes(b, [b EXCEPT !.nt[s] = v])
    <3> TAKE s \in 1..4
    <3> DEFINE q == [b.nt EXCEPT ![s] = v]
    <3>1. q \in [1..4 -> Int]
      <4>1. b.nt \in [1..4 -> Int]
        BY DEF Boards
      <4> QED
        BY <4>1
    <3>2. [b EXCEPT !.nt[s] = v] = SetNt(b, q)
      BY DEF SetNt, Boards
    <3> HIDE DEF q
    <3> QED
      BY <3>1, <3>2, <1>1, SettersGo
  <2> HIDE DEF w
  <2> QED
    BY <2>2, <2>3, <1>1, <1>2, <1>3, <1>5 DEF w
<1>c. CASE b.m = 33
  <2> DEFINE p == Prg8(b, 0, v % 64)
  <2>1. PICK yes \in BOOLEAN : yes <=> Bits(v, 64, 2) = 1
    OBVIOUS
  <2>2. PlainWrite(b, a, v) \in {MirrorHv(p, yes), Prg8(b, 1, v % 64), Chr2(b, a % 2, v), Chr1(b, 4 + (a % 4), v)}
    <3>1. CASE a = \h8000
      <4>1. PlainWrite(b, a, v) = MirrorHv(p, yes)
        BY <1>c, <2>1, <3>1 DEF PlainWrite
      <4> QED
        BY <4>1
    <3>2. CASE a # \h8000
      <4>1. \/ PlainWrite(b, a, v) = Prg8(b, 1, v % 64)
            \/ PlainWrite(b, a, v) = Chr2(b, a % 2, v)
            \/ PlainWrite(b, a, v) = Chr1(b, 4 + (a % 4), v)
        BY <1>c, <3>2 DEF PlainWrite
      <4> QED
        BY <4>1
    <3> QED
      BY <3>1, <3>2
  <2>3. Goes(b, p) /\ Goes(b, Prg8(b, 1, v % 64))
    BY <1>2, <1>5
  <2>4. a % 2 \in 0..3 /\ 4 + (a % 4) \in 0..7
    OBVIOUS
  <2>5. Goes(b, Chr2(b, a % 2, v)) /\ Goes(b, Chr1(b, 4 + (a % 4), v))
    BY <2>4, <1>1, <1>3, Chr2Goes
  <2> HIDE DEF p
  <2>6. Goes(b, MirrorHv(p, yes))
    <3>1. p \in Boards /\ BoardOk(p)
      BY <2>3, GoesOn
    <3> QED
      BY <3>1, <2>3, MirrorGoes, GoesOn
  <2> QED
    BY <2>2, <2>3, <2>5, <2>6
<1>d. CASE b.m = 69
  <2>1. b.cmd \in Nat
    BY RegsNat
  <2>2. PlainWrite(b, a, v) \in {[b EXCEPT !.cmd = v % 16], b, MirrorVhab(b, v)} \cup {Chr1(b, s, v) : s \in 0..7}
                                \cup {Prg8(b, s, v % 64) : s \in 0..2}
    <3>1. CASE b.cmd \in 0..7
      BY <1>d, <3>1, <2>1 DEF PlainWrite
    <3>2. CASE b.cmd \in 9..11
      <4>1. b.cmd - 9 \in 0..2
        BY <3>2
      <4>2. PlainWrite(b, a, v) \in {[b EXCEPT !.cmd = v % 16], b, Prg8(b, b.cmd - 9, v % 64)}
        BY <1>d, <3>2, <2>1 DEF PlainWrite
      <4> QED
        BY <4>1, <4>2
    <3>3. CASE b.cmd \notin 0..7 /\ b.cmd \notin 9..11
      BY <1>d, <3>3, <2>1 DEF PlainWrite
    <3> QED
      BY <3>1, <3>2, <3>3
  <2>3. Goes(b, [b EXCEPT !.cmd = v % 16])
    BY <1>5, SettersGo
  <2> QED
    BY <2>2, <2>3, <1>1, <1>2, <1>3, <1>4, <1>5
<1> QED
  BY <1>a, <1>b, <1>c, <1>d

----------------------------------------------------------------------------
\* Registers of MMC5 and of mapper 9, whose numbers have a meaning.
LEMMA MeantRegs ==
    \A b \in Boards, i, v \in Nat :
      BoardOk(b) /\ \/ b.m = 5 /\ (i \in {5, 6} => v \in 0..3)
                    \/ b.m = 9 /\ (i = 0 => v \in 0..15) /\ (i \in {5, 6} => v \in 0..1)
        => LET r == SetReg(b, i, v) IN r \in Boards /\ BoardOk(r) /\ r.m = b.m /\ Goes(b, r) /\ \A x : Goes(r, x) => Goes(b, x)
<1> SUFFICES ASSUME NEW b \in Boards, NEW i \in Nat, NEW v \in Nat, BoardOk(b),
                    \/ b.m = 5 /\ (i \in {5, 6} => v \in 0..3)
                    \/ b.m = 9 /\ (i = 0 => v \in 0..15) /\ (i \in {5, 6} => v \in 0..1)
             PROVE  LET r == SetReg(b, i, v) IN
                    r \in Boards /\ BoardOk(r) /\ r.m = b.m /\ Goes(b, r) /\ \A x : Goes(r, x) => Goes(b, x)
  OBVIOUS
<1> DEFINE r == SetReg(b, i, v)
<1>1. /\ r \in Boards /\ SameCart(b, r) /\ r.nt = b.nt /\ r.prg = b.prg /\ r.chr = b.chr
      /\ r.reg = [b.reg EXCEPT ![i] = v]
  BY RegIs
<1>2. b.reg \in [0..19 -> Nat] /\ RegsFit(b)
  BY DEF Boards, BoardOk
<1> HIDE DEF r
<1>3. RegsFit(r)
  BY <1>1, <1>2 DEF RegsFit, SameCart
<1>4. Goes(b, r)
  BY <1>1, <1>3, OthersGo
<1> QED
  BY <1>4, GoesOn DEF r

LEMMA Write9Goes ==
    \A b \in Boards, a \in Ports(9), v \in Nat : BoardOk(b) /\ b.m = 9 => Goes(b, PlainWrite(b, a, v))
<1> SUFFICES ASSUME NEW b \in Boards, NEW a \in Ports(9), NEW v \in Nat, BoardOk(b), b.m = 9
             PROVE  Goes(b, PlainWrite(b, a, v))
  OBVIOUS
<1>1. a \in {\hA000, \hB000, \hC000, \hD000, \hE000, \hF000}
  BY DEF Ports
<1>2. CASE a = \hF000
  <2>1. a \div \h1000 = 15
    BY <1>2
  <2>2. PlainWrite(b, a, v) \in {[b EXCEPT !.mir = "horizontal"], [b EXCEPT !.mir = "vertical"]}
    BY <2>1 DEF PlainWrite
  <2>3. Goes(b, [b EXCEPT !.mir = "horizontal"]) /\ Goes(b, [b EXCEPT !.mir = "vertical"])
    BY SettersGo DEF Mirrors
  <2> QED
    BY <2>2, <2>3
<1>3. CASE a = \hA000
  <2>1. a \div \h1000 = 10
    BY <1>3
  <2> DEFINE r == SetReg(b, 0, v % 16)
  <2>2. PlainWrite(b, a, v) = Mapper9Banks(r)
    BY <2>1 DEF PlainWrite
  <2>3. v % 16 \in 0..15 /\ v % 16 \in Nat
    OBVIOUS
  <2>4. r \in Boards /\ BoardOk(r) /\ r.m = 9 /\ \A x : Goes(r, x) => Goes(b, x)
    BY <2>3, MeantRegs
  <2> HIDE DEF r
  <2> QED
    BY <2>2, <2>4, Mapper9Goes
<1>4. CASE a \in {\hB000, \hC000, \hD000, \hE000}
  <2>1. PICK p \in 11..14 : p = a \div \h1000
    BY <1>4
  <2> DEFINE r == SetReg(b, p - 10, v % 32)
  <2>2. PlainWrite(b, a, v) = Mapper9Banks(r)
    BY <2>1 DEF PlainWrite
  <2>3. v % 32 \in Nat /\ p - 10 \in 1..4 /\ p - 10 \in Nat
    BY <2>1
  <2>4. r \in Boards /\ BoardOk(r) /\ r.m = 9 /\ \A x : Goes(r, x) => Goes(b, x)
    BY <2>3, MeantRegs
  <2> HIDE DEF r
  <2> QED
    BY <2>2, <2>4, Mapper9Goes
<1> QED
  BY <1>1, <1>2, <1>3, <1>4

LEMMA Write1Goes ==
    \A b \in Boards, a, v \in Nat : BoardOk(b) /\ b.m = 1 => Goes(b, Mmc1Write(b, a, v))
<1> SUFFICES ASSUME NEW b \in Boards, NEW a \in Nat, NEW v \in Nat, BoardOk(b), b.m = 1
             PROVE  Goes(b, Mmc1Write(b, a, v))
  OBVIOUS
<1> DEFINE bits == Append(b.shift, v % 2)
           value == bits[1] + 2*bits[2] + 4*bits[3] + 8*bits[4] + 16*bits[5]
           low == 16 * (b.reg[0] \div 16) + 12 + (b.reg[0] % 4)
           n == Bits(a, 8192, 4)
           empty == [b EXCEPT !.shift = <<>>]
<1>1. b.shift \in Seq(Nat) /\ b.reg[0] \in Nat
  BY RegsNat DEF Boards
<1>2. bits \in Seq(Nat) /\ <<>> \in Seq(Nat)
  BY <1>1
<1>3. low \in Nat /\ n \in Nat
  BY <1>1 DEF Bits
<1>4. Len(bits) >= 5 => value \in Nat
  <2> HIDE DEF bits
  <2>1. SUFFICES ASSUME Len(bits) >= 5 PROVE value \in Nat
    OBVIOUS
  <2>2. bits[1] \in Nat /\ bits[2] \in Nat /\ bits[3] \in Nat /\ bits[4] \in Nat /\ bits[5] \in Nat
    BY <1>2, <2>1
  <2> QED
    BY <2>2
<1>5. empty \in Boards /\ BoardOk(empty) /\ empty.m = 1 /\ empty.reg = b.reg /\ \A x : Goes(empty, x) => Goes(b, x)
  <2>1. empty \in Boards /\ empty.reg = b.reg
    BY <1>2, ShiftIs
  <2>2. Goes(b, empty)
    BY <1>2, SettersGo
  <2> HIDE DEF empty
  <2> QED
    BY <2>1, <2>2, GoesOn
<1>6. \A i, k \in Nat : Goes(b, Mmc1Banks(SetReg(empty, i, k)))
  <2> HIDE DEF empty
  <2> TAKE i, k \in Nat
  <2> DEFINE r == SetReg(empty, i, k)
  <2>1. r \in Boards /\ BoardOk(r) /\ r.m = 1 /\ \A x : Goes(r, x) => Goes(empty, x)
    BY <1>5, AfterReg
  <2> HIDE DEF r
  <2>2. Goes(empty, Mmc1Banks(r))
    BY <2>1, Mmc1Goes
  <2> QED
    BY <2>2, <1>5 DEF r
<1>7. Goes(b, [b EXCEPT !.shift = bits])
  <2> HIDE DEF bits
  <2> QED
    BY <1>2, SettersGo
<1>8. \/ Mmc1Write(b, a, v) = Mmc1Banks([b EXCEPT !.shift = <<>>, !.reg[0] = low])
      \/ Mmc1Write(b, a, v) = [b EXCEPT !.shift = bits]
      \/ Len(bits) >= 5 /\ Mmc1Write(b, a, v) = Mmc1Banks([b EXCEPT !.shift = <<>>, !.reg[n] = value])
  <2>1. Mmc1Write(b, a, v) = IF v >= 128 THEN Mmc1Banks([b EXCEPT !.shift = <<>>, !.reg[0] = low])
                             ELSE IF Len(bits) < 5 THEN [b EXCEPT !.shift = bits]
                             ELSE Mmc1Banks([b EXCEPT !.shift = <<>>, !.reg[n] = value])
    BY DEF Mmc1Write
  <2>2. Len(bits) \in Nat
    BY <1>2
  <2> HIDE DEF bits, low, n, value
  <2> QED
    BY <2>1, <2>2
<1>9. \A i, k \in Nat : [b EXCEPT !.shift = <<>>, !.reg[i] = k] = SetReg(empty, i, k)
  BY DEF SetReg, Boards
<1> HIDE DEF bits, low, n, value, empty
<1>10. CASE Mmc1Write(b, a, v) = Mmc1Banks([b EXCEPT !.shift = <<>>, !.reg[0] = low])
  <2>1. [b EXCEPT !.shift = <<>>, !.reg[0] = low] = SetReg(empty, 0, low)
    BY <1>3, <1>9
  <2> QED
    BY <2>1, <1>3, <1>6, <1>10
<1>11. CASE Len(bits) >= 5 /\ Mmc1Write(b, a, v) = Mmc1Banks([b EXCEPT !.shift = <<>>, !.reg[n] = value])
  <2>1. [b EXCEPT !.shift = <<>>, !.reg[n] = value] = SetReg(empty, n, value)
    BY <1>3, <1>4, <1>9, <1>11
  <2> QED
    BY <2>1, <1>3, <1>4, <1>6, <1>11
<1> QED
  BY <1>7, <1>8, <1>10, <1>11

LEMMA Write3Goes ==
    \A b \in Boards, a, v \in Nat : BoardOk(b) /\ b.m \in {4, 119} => Goes(b, Mmc3Write(b, a, v))
<1> SUFFICES ASSUME NEW b \in Boards, NEW a \in Nat, NEW v \in Nat, BoardOk(b), b.m \in {4, 119}
             PROVE  Goes(b, Mmc3Write(b, a, v))
  OBVIOUS
<1> DEFINE r == SetReg(b, b.cmd % 8, v)
<1>1. Goes(b, b) /\ b.cmd % 8 \in Nat
  BY RegsNat DEF Goes, SameCart
<1>2. PICK odd \in BOOLEAN : odd = Odd(v)
  <2>1. Odd(v) \in BOOLEAN
    BY DEF Odd
  <2> QED
    BY <2>1
<1>3. Mmc3Write(b, a, v) \in {[b EXCEPT !.cmd = v], Mmc3Banks(r), MirrorHv(b, odd), b}
  BY <1>2 DEF Mmc3Write
<1>4. Goes(b, [b EXCEPT !.cmd = v]) /\ Goes(b, MirrorHv(b, odd))
  BY SettersGo, MirrorGoes
<1>5. r \in Boards /\ BoardOk(r) /\ r.m = b.m /\ \A x : Goes(r, x) => Goes(b, x)
  BY <1>1, AfterReg
<1> HIDE DEF r
<1>6. Goes(b, Mmc3Banks(r))
  BY <1>5, Mmc3Goes
<1> QED
  BY <1>1, <1>3, <1>4, <1>6

LEMMA Write5Goes ==
    \A b \in Boards, a \in Ports(5), v \in Nat : BoardOk(b) /\ b.m = 5 => Goes(b, Mmc5Write(b, a, v))
<1> SUFFICES ASSUME NEW b \in Boards, NEW a \in Ports(5), NEW v \in Nat, BoardOk(b), b.m = 5
             PROVE  Goes(b, Mmc5Write(b, a, v))
  OBVIOUS
<1>1. a \in {\h5100, \h5101, \h5105, \h5114, \h5115, \h5117, \h5127, \h512B, \h5130}
  BY DEF Ports
<1>2. v % 4 \in 0..3 /\ v % 4 \in Nat
  OBVIOUS
<1>3. \A i, n \in Nat : (i \in {5, 6} => n \in 0..3) =>
        Goes(b, SetReg(b, i, n)) /\ Goes(b, Mmc5Prg(SetReg(b, i, n)))
  <2> SUFFICES ASSUME NEW i \in Nat, NEW n \in Nat, i \in {5, 6} => n \in 0..3
               PROVE  Goes(b, SetReg(b, i, n)) /\ Goes(b, Mmc5Prg(SetReg(b, i, n)))
    OBVIOUS
  <2> DEFINE r == SetReg(b, i, n)
  <2>1. r \in Boards /\ BoardOk(r) /\ r.m = 5 /\ Goes(b, r) /\ \A x : Goes(r, x) => Goes(b, x)
    BY MeantRegs
  <2> HIDE DEF r
  <2>2. Goes(b, Mmc5Prg(r))
    BY <2>1, Mmc5Goes
  <2> QED
    BY <2>1, <2>2 DEF r
<1>4. CASE a = \h5100
  BY <1>2, <1>3, <1>4 DEF Mmc5Write
<1>5. CASE a = \h5101
  BY <1>2, <1>3, <1>5 DEF Mmc5Write
<1>6. CASE a = \h5105
  <2> DEFINE q == <<v % 4, Bits(v, 4, 4), Bits(v, 16, 4), Bits(v, 64, 4)>>
  <2>1. q \in [1..4 -> Int]
    <3>1. v % 4 \in Int /\ Bits(v, 4, 4) \in Int /\ Bits(v, 16, 4) \in Int /\ Bits(v, 64, 4) \in Int
      BY DEF Bits
    <3> QED
      BY <3>1
  <2>2. Mmc5Write(b, a, v) = SetNt(b, q)
    BY <1>6 DEF Mmc5Write
  <2> HIDE DEF q
  <2> QED
    BY <2>1, <2>2, SettersGo DEF SoleTables
<1>7. CASE a \in {\h5114, \h5115, \h5117}
  <2>1. Mmc5Write(b, a, v) = Mmc5Prg(SetReg(b, a - \h5113, v))
    BY <1>7 DEF Mmc5Write
  <2>2. PICK i \in Nat : i = a - \h5113 /\ i \notin {5, 6}
    BY <1>7
  <2>3. Goes(b, Mmc5Prg(SetReg(b, i, v)))
    <3>1. i \in {5, 6} => v \in 0..3
      BY <2>2
    <3> QED
      BY <3>1, <1>3
  <2> QED
    BY <2>1, <2>2, <2>3
<1>8. CASE a \in {\h5127, \h512B}
  <2>1. Mmc5Write(b, a, v) = SetReg(b, 8 + a - \h5120, v)
    BY <1>8 DEF Mmc5Write
  <2>2. PICK i \in Nat : i = 8 + a - \h5120 /\ i \notin {5, 6}
    BY <1>8
  <2>3. Goes(b, SetReg(b, i, v))
    BY <2>2, <1>3
  <2> QED
    BY <2>1, <2>2, <2>3
<1>9. CASE a = \h5130
  <2>1. Mmc5Write(b, a, v) = SetReg(b, 7, v % 4)
    BY <1>9 DEF Mmc5Write
  <2> QED
    BY <2>1, <1>2, <1>3
<1> QED
  BY <1>1, <1>4, <1>5, <1>6, <1>7, <1>8, <1>9

----------------------------------------------------------------------------
LEMMA Vrc6Goes ==
    \A b \in Boards, a, v \in Nat : BoardOk(b) /\ b.m \in {24, 26} => Goes(b, Vrc6Write(b, a, v))
<1> SUFFICES ASSUME NEW b \in Boards, NEW a \in Nat, NEW v \in Nat, BoardOk(b), b.m \in {24, 26}
             PROVE  Goes(b, Vrc6Write(b, a, v))
  OBVIOUS
<1> DEFINE line == IF b.m = 26 THEN 2 * (a % 2) + Bits(a, 2, 2) ELSE (a % 4)
           x == <<"vertical", "horizontal", "A", "B">>[Bits(v, 4, 4) + 1]
<1>1. line \in 0..3 /\ 4 + line \in 0..7 /\ line \in 0..7 /\ v % 16 \in Nat /\ v % 32 \in Nat
  BY DEF Bits
<1>2. x \in Mirrors
  <2>1. Bits(v, 4, 4) \in 0..3
    BY DEF Bits
  <2> QED
    BY <2>1, FourNames
<1>3. Vrc6Write(b, a, v) \in {Prg16(b, 0, v % 16), [b EXCEPT !.mir = x], Prg8(b, 2, v % 32),
                              Chr1(b, line, v), Chr1(b, 4 + line, v), b}
  BY DEF Vrc6Write
<1> HIDE DEF line, x
<1>4. Goes(b, Prg16(b, 0, v % 16)) /\ Goes(b, Prg8(b, 2, v % 32)) /\ Goes(b, b) /\ Goes(b, [b EXCEPT !.mir = x])
  BY <1>1, <1>2, Prg16Goes, Prg8Goes, SettersGo DEF Goes, SameCart
<1>5. Goes(b, Chr1(b, line, v)) /\ Goes(b, Chr1(b, 4 + line, v))
  BY <1>1, Chr1Goes DEF Still
<1> QED
  BY <1>3, <1>4, <1>5

LEMMA Vrc4WritesGo ==
    \A b \in Boards, a \in Nat, v \in Nat : BoardOk(b) /\ b.m = 23 => Goes(b, Vrc4Write(b, a, v))
<1> SUFFICES ASSUME NEW b \in Boards, NEW a \in Nat, NEW v \in Nat, BoardOk(b), b.m = 23
             PROVE  Goes(b, Vrc4Write(b, a, v))
  OBVIOUS
<1> DEFINE line(lo, hi) == IF Bits(a, lo, 2) = 1 \/ Bits(a, hi, 2) = 1 THEN 1 ELSE 0
           r == line(1, 4) + 2 * line(2, 8)
           page == a \div \h1000
           i == 2 * (page - 11) + r \div 2
           old == b.reg[8 + i]
           whole == IF Odd(r) THEN (old % 16) + 16 * (v % 32) ELSE 16 * (old \div 16) + (v % 16)
           s(k, n) == SetReg(b, k, n)
<1>1. r \in 0..3 /\ page \in Nat /\ v % 32 \in Nat
  OBVIOUS
<1>2. \/ Vrc4Write(b, a, v) \in {Vrc4Prg(s(0, v % 32)), Vrc4Prg(s(1, v % 32)), Vrc4Prg(s(2, v)), MirrorVhab(b, v), b}
      \/ page \in 11..14 /\ Vrc4Write(b, a, v) = Chr1(s(8 + i, whole), i, whole)
  BY DEF Vrc4Write
<1>3. \A k, n \in Nat : s(k, n) \in Boards /\ BoardOk(s(k, n)) /\ s(k, n).m = 23 /\ \A x : Goes(s(k, n), x) => Goes(b, x)
  BY AfterReg
<1>4. ASSUME page \in 11..14 PROVE i \in 0..7 /\ 8 + i \in 0..19 /\ 8 + i \in Nat /\ whole \in Nat
  <2>1. r \div 2 \in 0..1
    BY <1>1
  <2> HIDE DEF r, page
  <2>2. i \in 0..7 /\ 8 + i \in 0..19 /\ 8 + i \in Nat
    BY <2>1, <1>4
  <2> HIDE DEF i
  <2>3. old \in Nat
    BY <2>2, RegsNat
  <2> HIDE DEF old
  <2> QED
    BY <2>2, <2>3
<1> HIDE DEF s, i, whole, page
<1>5. Goes(b, Vrc4Prg(s(0, v % 32))) /\ Goes(b, Vrc4Prg(s(1, v % 32))) /\ Goes(b, Vrc4Prg(s(2, v)))
  BY <1>1, <1>3, Vrc4Goes
<1>6. ASSUME page \in 11..14 PROVE Goes(b, Chr1(s(8 + i, whole), i, whole))
  <2> DEFINE t == s(8 + i, whole)
  <2>1. t \in Boards /\ BoardOk(t) /\ t.m = 23 /\ \A x : Goes(t, x) => Goes(b, x)
    BY <1>3, <1>4, <1>6
  <2> HIDE DEF t
  <2>2. Goes(t, Chr1(t, i, whole))
    BY <2>1, <1>4, <1>6, Chr1Goes DEF Still
  <2> QED
    BY <2>1, <2>2 DEF t
<1>7. Goes(b, MirrorVhab(b, v)) /\ Goes(b, b)
  BY MirrorGoes DEF Goes, SameCart
<1> QED
  BY <1>2, <1>5, <1>6, <1>7

LEMMA M228Goes ==
    \A b \in Boards, a, v \in Nat : BoardOk(b) /\ b.m = 228 => Goes(b, M228Write(b, a, v))
<1> SUFFICES ASSUME NEW b \in Boards, NEW a \in Nat, NEW v \in Nat, BoardOk(b), b.m = 228
             PROVE  Goes(b, M228Write(b, a, v))
  OBVIOUS
<1> DEFINE part == Bits(a, 2048, 4)
           bank == (IF part = 3 THEN 64 ELSE 32 * part) + Bits(a, 64, 32)
           pair == IF Bits(a, 32, 2) = 0 THEN <<Even(bank), Even(bank) + 1>> ELSE <<bank, bank>>
           j == 4 * (a % 16) + (v % 4)
           x == IF Bits(a, 8192, 2) = 1 THEN "horizontal" ELSE "vertical"
<1>1. bank \in Nat /\ j \in Int /\ x \in Mirrors
  BY DEF Bits, Mirrors
<1>2. M228Write(b, a, v) = IF part = 2 THEN b
        ELSE [Chr8(Prg16(Prg16(b, 0, pair[1]), 1, pair[2]), j) EXCEPT !.mir = x]
  BY DEF M228Write
<1>3. pair[1] \in Int /\ pair[2] \in Int
  <2> HIDE DEF bank
  <2> QED
    BY <1>1 DEF Even
<1>4. PICK p \in Int, q \in Int : p = pair[1] /\ q = pair[2]
  BY <1>3
<1> DEFINE r == Prg16(b, 0, p)
           s == Prg16(r, 1, q)
           t == Chr8(s, j)
<1>5. M228Write(b, a, v) \in {b, [t EXCEPT !.mir = x]}
  <2> HIDE DEF pair, j, x, part
  <2> QED
    BY <1>2, <1>4
<1> HIDE DEF pair, j, x
<1>6. Goes(b, r)
  BY Prg16Goes
<1>7. Goes(r, s)
  <2> HIDE DEF r
  <2>1. r \in Boards /\ BoardOk(r) /\ r.m = 228
    BY <1>6, GoesOn
  <2> QED
    BY <2>1, Prg16Goes DEF KeepsLast
<1>8. Goes(s, t)
  <2> HIDE DEF r, s
  <2>1. s \in Boards /\ BoardOk(s) /\ s.m = 228
    BY <1>6, <1>7, GoesOn
  <2> QED
    BY <2>1, <1>1, Chr8Goes DEF Still, j
<1>9. Goes(t, [t EXCEPT !.mir = x])
  <2> HIDE DEF s, t
  <2>1. t \in Boards /\ BoardOk(t)
    BY <1>8, GoesOn
  <2> QED
    BY <2>1, <1>1, SettersGo
<1>10. Goes(b, b)
  BY DEF Goes, SameCart
<1> HIDE DEF r, s, t
<1> QED
  BY <1>5, <1>6, <1>7, <1>8, <1>9, <1>10, GoesOn

\* Every write keeps the board right, and its cartridge.
LEMMA WritesGo ==
    \A b \in Boards, v \in Nat :
      BoardOk(b) /\ b.m \in Mappers => \A a \in Ports(b.m) : Goes(b, Written(b, a, v))
<1> SUFFICES ASSUME NEW b \in Boards, NEW v \in Nat, BoardOk(b), b.m \in Mappers, NEW a \in Ports(b.m)
             PROVE  Goes(b, Written(b, a, v))
  OBVIOUS
<1>1. a \in Nat
  BY DEF Ports
<1>2. b.m = 178 => a \in \h4800..\h4803
  BY DEF Ports
<1>3. CASE b.m = 1
  BY <1>1, <1>3, Write1Goes DEF Written
<1>4. CASE b.m \in {4, 119}
  BY <1>1, <1>4, Write3Goes DEF Written
<1>5. CASE b.m = 5
  BY <1>5, Write5Goes DEF Written
<1>6. CASE b.m = 23
  BY <1>1, <1>6, Vrc4WritesGo DEF Written
<1>7. CASE b.m \in {24, 26}
  BY <1>1, <1>7, Vrc6Goes DEF Written
<1>8. CASE b.m = 228
  BY <1>1, <1>8, M228Goes DEF Written
<1>9. CASE b.m = 64
  BY <1>1, <1>9, NestedGoes DEF Written
<1>10. CASE b.m \notin {1, 4, 119, 5, 23, 24, 26, 64, 228}
  <2>1. Written(b, a, v) = PlainWrite(b, a, v)
    BY <1>10 DEF Written
  <2>2. CASE b.m \in {2, 3, 7, 11, 66, 70, 71, 78, 79, 87, 113, 180, 184, 185}
    BY <2>1, <2>2, <1>1, DiscreteGoes
  <2>3. CASE b.m \in {95, 112, 132, 150, 178, 206, 243}
    BY <2>1, <2>3, <1>1, <1>2, NestedGoes
  <2>4. CASE b.m \in {16, 19, 33, 69}
    BY <2>1, <2>4, <1>1, SlotsGo
  <2>5. CASE b.m = 9
    BY <2>1, <2>5, Write9Goes
  <2> QED
    BY <2>2, <2>3, <2>4, <2>5, <1>10 DEF Mappers
<1> QED
  BY <1>3, <1>4, <1>5, <1>6, <1>7, <1>8, <1>9, <1>10

LEMMA FetchGoes ==
    \A b \in Boards, h, tile \in 0..1 : BoardOk(b) /\ b.m = 9 => Goes(b, Mapper9Banks(SetReg(b, 5 + h, tile)))
<1> SUFFICES ASSUME NEW b \in Boards, NEW h \in 0..1, NEW tile \in 0..1, BoardOk(b), b.m = 9
             PROVE  Goes(b, Mapper9Banks(SetReg(b, 5 + h, tile)))
  OBVIOUS
<1> DEFINE r == SetReg(b, 5 + h, tile)
<1>1. 5 + h \in Nat /\ 5 + h # 0 /\ tile \in Nat
  OBVIOUS
<1>2. r \in Boards /\ BoardOk(r) /\ r.m = 9 /\ \A x : Goes(r, x) => Goes(b, x)
  BY <1>1, MeantRegs
<1> HIDE DEF r
<1>3. Goes(r, Mapper9Banks(r))
  BY <1>2, Mapper9Goes
<1> QED
  BY <1>2, <1>3 DEF r

----------------------------------------------------------------------------
\* A reset.  Boards that agree and have the same banks in the slots, or in the windows.
LEMMA PrgAllSame ==
    \A b, o \in Boards, q \in [1..4 -> Int] :
      Agree(b, o) => LET r == PrgAll(b, q) s == PrgAll(o, q) IN
        r \in Boards /\ s \in Boards /\ Agree(r, s) /\ r.prg = s.prg /\ r.chr = b.chr /\ s.chr = o.chr /\ r.nt = b.nt /\ s.nt = o.nt
<1> TAKE b, o \in Boards, q \in [1..4 -> Int]
<1> DEFINE r == PrgAll(b, q)
           s == PrgAll(o, q)
<1>1. r \in Boards /\ SameCart(b, r) /\ KeepsRegs(b, r) /\ r.mir = b.mir /\ r.nt = b.nt /\ r.chr = b.chr
  BY PrgAllIs
<1>2. s \in Boards /\ SameCart(o, s) /\ KeepsRegs(o, s) /\ s.mir = o.mir /\ s.nt = o.nt /\ s.chr = o.chr
  BY PrgAllIs
<1>3. r.prg = s.prg
  BY PrgAllIs
<1> HIDE DEF r, s
<1>4. Agree(b, o) => Agree(r, s)
  BY <1>1, <1>2 DEF Agree, SameCart, KeepsRegs
<1> QED
  BY <1>1, <1>2, <1>3, <1>4 DEF r, s

LEMMA ChrAllSame ==
    \A b, o \in Boards, q \in [1..8 -> Int] :
      Agree(b, o) => LET r == ChrAll(b, q) s == ChrAll(o, q) IN
        r \in Boards /\ s \in Boards /\ Agree(r, s) /\ r.chr = s.chr /\ r.prg = b.prg /\ s.prg = o.prg /\ r.nt = b.nt /\ s.nt = o.nt
<1> TAKE b, o \in Boards, q \in [1..8 -> Int]
<1> DEFINE r == ChrAll(b, q)
           s == ChrAll(o, q)
<1>1. r \in Boards /\ SameCart(b, r) /\ KeepsRegs(b, r) /\ r.mir = b.mir /\ r.nt = b.nt /\ r.prg = b.prg
  BY ChrAllIs
<1>2. s \in Boards /\ SameCart(o, s) /\ KeepsRegs(o, s) /\ s.mir = o.mir /\ s.nt = o.nt /\ s.prg = o.prg
  BY ChrAllIs
<1>3. r.chr = s.chr
  BY ChrAllIs
<1> HIDE DEF r, s
<1>4. Agree(b, o) => Agree(r, s)
  BY <1>1, <1>2 DEF Agree, SameCart, KeepsRegs
<1> QED
  BY <1>1, <1>2, <1>3, <1>4 DEF r, s

LEMMA HalvesSame ==
    \A b, o \in Boards, p, k \in Int :
      Agree(b, o) => LET r == Prg16(Prg16(b, 0, p), 1, k) s == Prg16(Prg16(o, 0, p), 1, k) IN
        r \in Boards /\ s \in Boards /\ Agree(r, s) /\ r.prg = s.prg /\ r.chr = b.chr /\ s.chr = o.chr /\ r.nt = b.nt /\ s.nt = o.nt
<1> TAKE b, o \in Boards, p, k \in Int
<1> DEFINE r == Prg16(Prg16(b, 0, p), 1, k)
           s == Prg16(Prg16(o, 0, p), 1, k)
<1>2. r \in Boards /\ Agree(b, r) /\ r.chr = b.chr /\ r.nt = b.nt /\ s \in Boards /\ Agree(o, s) /\ s.chr = o.chr /\ s.nt = o.nt
      /\ r.prg = s.prg
  <2>1. r \in Boards /\ Agree(b, r) /\ r.chr = b.chr /\ r.nt = b.nt
    BY HalvesAre
  <2>2. s \in Boards /\ Agree(o, s) /\ s.chr = o.chr /\ s.nt = o.nt
    BY HalvesAre
  <2>3. r.prg = s.prg
    BY HalvesAre
  <2> HIDE DEF r, s
  <2> QED
    BY <2>1, <2>2, <2>3
<1> HIDE DEF r, s
<1>3. Agree(b, o) => Agree(r, s)
  BY <1>2 DEF Agree, SameCart, KeepsRegs
<1> QED
  BY <1>2, <1>3 DEF r, s

LEMMA QuartersAre ==
    \A b \in Boards, p, k \in Int :
      LET r == Chr4(Chr4(b, 0, p), 1, k) IN
      /\ r \in Boards /\ Agree(b, r) /\ r.prg = b.prg /\ r.nt = b.nt
      /\ r.chr = WindowsOf(p, k)
<1> TAKE b \in Boards, p, k \in Int
<1> DEFINE b0 == Chr4(b, 0, p)
           b1 == Chr4(b0, 1, k)
<1>1. /\ b0 \in Boards /\ SameCart(b, b0) /\ KeepsRegs(b, b0) /\ b0.mir = b.mir /\ b0.nt = b.nt /\ b0.prg = b.prg
      /\ b0.chr = [s \in 0..7 |-> IF s \div 4 = 0 THEN (4*p + (s % 4)) % NChr ELSE b.chr[s]]
  BY Chr4Is
<1> HIDE DEF b0
<1>2. /\ b1 \in Boards /\ SameCart(b0, b1) /\ KeepsRegs(b0, b1) /\ b1.mir = b0.mir /\ b1.nt = b0.nt /\ b1.prg = b0.prg
      /\ b1.chr = [s \in 0..7 |-> IF s \div 4 = 1 THEN (4*k + (s % 4)) % NChr ELSE b0.chr[s]]
  BY <1>1, Chr4Is
<1> HIDE DEF b1
<1>3. Agree(b, b1) /\ b1.prg = b.prg /\ b1.nt = b.nt
  BY <1>1, <1>2 DEF Agree, SameCart, KeepsRegs
<1>4. \A s \in 0..7 : s \div 4 # 1 => s \div 4 = 0
  OBVIOUS
<1>5. \A s \in 0..7 : s \div 4 # 1 => b0.chr[s] = (4*p + (s % 4)) % NChr
  BY <1>1, <1>4
<1>6. b1.chr = [s \in 0..7 |-> IF s \div 4 = 1 THEN (4*k + (s % 4)) % NChr ELSE (4*p + (s % 4)) % NChr]
  BY <1>2, <1>5
<1> QED
  BY <1>2, <1>3, <1>6 DEF b1, b0, WindowsOf

LEMMA QuartersSame ==
    \A b, o \in Boards, p, k \in Int :
      Agree(b, o) => LET r == Chr4(Chr4(b, 0, p), 1, k) s == Chr4(Chr4(o, 0, p), 1, k) IN
        r \in Boards /\ s \in Boards /\ Agree(r, s) /\ r.chr = s.chr /\ r.prg = b.prg /\ s.prg = o.prg /\ r.nt = b.nt /\ s.nt = o.nt
<1> TAKE b, o \in Boards, p, k \in Int
<1> DEFINE r == Chr4(Chr4(b, 0, p), 1, k)
           s == Chr4(Chr4(o, 0, p), 1, k)
<1>2. r \in Boards /\ Agree(b, r) /\ r.prg = b.prg /\ r.nt = b.nt /\ s \in Boards /\ Agree(o, s) /\ s.prg = o.prg /\ s.nt = o.nt
      /\ r.chr = s.chr
  <2>1. r \in Boards /\ Agree(b, r) /\ r.prg = b.prg /\ r.nt = b.nt
    BY QuartersAre
  <2>2. s \in Boards /\ Agree(o, s) /\ s.prg = o.prg /\ s.nt = o.nt
    BY QuartersAre
  <2>3. r.chr = s.chr
    BY QuartersAre
  <2> HIDE DEF r, s
  <2> QED
    BY <2>1, <2>2, <2>3
<1> HIDE DEF r, s
<1>3. Agree(b, o) => Agree(r, s)
  BY <1>2 DEF Agree, SameCart, KeepsRegs
<1> QED
  BY <1>2, <1>3 DEF r, s

----------------------------------------------------------------------------
LEMMA ClearedBoardIs ==
    \A b \in Boards :
      LET c == Cleared(b) IN
      /\ c \in Boards /\ SameCart(b, c) /\ c.nt = b.nt /\ c.prg = b.prg /\ c.chr = b.chr
      /\ c.cmd = 0 /\ c.shift = <<>> /\ c.mir = b.cart /\ c.reg = [r \in 0..19 |-> 0]
<1> TAKE b \in Boards
<1> DEFINE zero == [r \in 0..19 |-> 0]
           empty == <<>>
           c == [b EXCEPT !.cmd = 0, !.shift = empty, !.mir = b.cart, !.reg = zero]
<1>1. zero \in [0..19 -> Nat] /\ empty \in Seq(Nat)
  OBVIOUS
<1>2. Cleared(b) = c
  BY DEF Cleared
<1> HIDE DEF zero, empty
<1>3. /\ c \in Boards /\ SameCart(b, c) /\ c.nt = b.nt /\ c.prg = b.prg /\ c.chr = b.chr
      /\ c.cmd = 0 /\ c.shift = empty /\ c.mir = b.cart /\ c.reg = zero
  BY <1>1 DEF Boards, SameCart
<1> HIDE DEF c
<1> QED
  BY <1>2, <1>3 DEF zero, empty

LEMMA ClearedSame ==
    \A b, o \in Boards : SameCart(b, o) => Agree(Cleared(b), Cleared(o))
  BY ClearedBoardIs DEF Agree, SameCart, KeepsRegs

\* What slots and windows were does not matter when both are chosen anew.
LEMMA FirstSame ==
    \A b, o \in Boards, q \in [1..4 -> Int], f \in [1..8 -> Int] :
      Agree(b, o) /\ b.nt = o.nt => ChrAll(PrgAll(b, q), f) = ChrAll(PrgAll(o, q), f)
<1> SUFFICES ASSUME NEW b \in Boards, NEW o \in Boards, NEW q \in [1..4 -> Int], NEW f \in [1..8 -> Int],
                    Agree(b, o), b.nt = o.nt
             PROVE  ChrAll(PrgAll(b, q), f) = ChrAll(PrgAll(o, q), f)
  OBVIOUS
<1> DEFINE r == PrgAll(b, q)
           s == PrgAll(o, q)
           t == ChrAll(r, f)
           u == ChrAll(s, f)
<1>1. r \in Boards /\ s \in Boards /\ Agree(r, s) /\ r.prg = s.prg /\ r.nt = s.nt
  BY PrgAllSame
<1> HIDE DEF r, s
<1>2. t \in Boards /\ u \in Boards /\ Agree(t, u) /\ t.chr = u.chr /\ t.prg = u.prg /\ t.nt = u.nt
  BY <1>1, ChrAllSame
<1>3. t = u
  BY <1>2, SameBoard
<1> QED
  BY <1>3 DEF r, s

LEMMA FillOf ==
    \A k \in Int : [i \in 1..4 |-> 4*k + i - 1] \in [1..4 -> Int] /\ [i \in 1..8 |-> 8*k + i - 1] \in [1..8 -> Int]
  OBVIOUS

LEMMA EndsSame ==
    \A b, o \in Boards, p, k \in Int :
      Agree(b, o) /\ b.nt = o.nt => Chr8(Prg16(Prg16(b, 0, p), 1, k), 0) = Chr8(Prg16(Prg16(o, 0, p), 1, k), 0)
<1> SUFFICES ASSUME NEW b \in Boards, NEW o \in Boards, NEW p \in Int, NEW k \in Int, Agree(b, o), b.nt = o.nt
             PROVE  Chr8(Prg16(Prg16(b, 0, p), 1, k), 0) = Chr8(Prg16(Prg16(o, 0, p), 1, k), 0)
  OBVIOUS
<1> DEFINE r == Prg16(Prg16(b, 0, p), 1, k)
           s == Prg16(Prg16(o, 0, p), 1, k)
           f == [i \in 1..8 |-> 8*0 + i - 1]
           t == ChrAll(r, f)
           u == ChrAll(s, f)
<1>1. r \in Boards /\ s \in Boards /\ Agree(r, s) /\ r.prg = s.prg /\ r.nt = s.nt
  BY HalvesSame
<1>2. f \in [1..8 -> Int]
  BY FillOf
<1>3. Chr8(r, 0) = t /\ Chr8(s, 0) = u
  BY DEF Chr8
<1> HIDE DEF r, s, f
<1>4. t \in Boards /\ u \in Boards /\ Agree(t, u) /\ t.chr = u.chr /\ t.prg = u.prg /\ t.nt = u.nt
  BY <1>1, <1>2, ChrAllSame
<1>5. t = u
  BY <1>4, SameBoard
<1> QED
  BY <1>3, <1>5 DEF r, s

\* Slots of a board whose windows and nametables are known.
LEMMA PutSame ==
    \A b, o \in Boards, p \in Slots :
      Agree(b, o) => LET r == [b EXCEPT !.prg = p] s == [o EXCEPT !.prg = p] IN
        /\ r \in Boards /\ s \in Boards /\ Agree(r, s) /\ r.prg = s.prg /\ r.chr = b.chr /\ s.chr = o.chr
        /\ r.nt = b.nt /\ s.nt = o.nt
        /\ b.nt = o.nt /\ b.chr = o.chr => r = s
<1> SUFFICES ASSUME NEW b \in Boards, NEW o \in Boards, NEW p \in Slots, Agree(b, o)
             PROVE  LET r == [b EXCEPT !.prg = p] s == [o EXCEPT !.prg = p] IN
        /\ r \in Boards /\ s \in Boards /\ Agree(r, s) /\ r.prg = s.prg /\ r.chr = b.chr /\ s.chr = o.chr
        /\ r.nt = b.nt /\ s.nt = o.nt
        /\ b.nt = o.nt /\ b.chr = o.chr => r = s
  OBVIOUS
<1> DEFINE r == [b EXCEPT !.prg = p]
           s == [o EXCEPT !.prg = p]
<1>1. r \in Boards /\ SameCart(b, r) /\ KeepsRegs(b, r) /\ r.nt = b.nt /\ r.chr = b.chr /\ r.prg = p /\ r.mir = b.mir
  BY PrgIs
<1>2. s \in Boards /\ SameCart(o, s) /\ KeepsRegs(o, s) /\ s.nt = o.nt /\ s.chr = o.chr /\ s.prg = p /\ s.mir = o.mir
  BY PrgIs
<1> HIDE DEF r, s
<1>3. Agree(r, s)
  BY <1>1, <1>2 DEF Agree, SameCart, KeepsRegs
<1>4. b.nt = o.nt /\ b.chr = o.chr => r = s
  BY <1>1, <1>2, <1>3, SameBoard
<1> QED
  BY <1>1, <1>2, <1>3, <1>4 DEF r, s

LEMMA PutWindows ==
    \A b, o \in Boards, f \in Windows :
      Agree(b, o) /\ b.prg = o.prg /\ b.nt = o.nt => [b EXCEPT !.chr = f] = [o EXCEPT !.chr = f]
<1> SUFFICES ASSUME NEW b \in Boards, NEW o \in Boards, NEW f \in Windows, Agree(b, o), b.prg = o.prg, b.nt = o.nt
             PROVE  [b EXCEPT !.chr = f] = [o EXCEPT !.chr = f]
  OBVIOUS
<1> DEFINE r == [b EXCEPT !.chr = f]
           s == [o EXCEPT !.chr = f]
<1>1. r \in Boards /\ SameCart(b, r) /\ KeepsRegs(b, r) /\ r.nt = b.nt /\ r.chr = f /\ r.prg = b.prg /\ r.mir = b.mir
  BY ChrIs
<1>2. s \in Boards /\ SameCart(o, s) /\ KeepsRegs(o, s) /\ s.nt = o.nt /\ s.chr = f /\ s.prg = o.prg /\ s.mir = o.mir
  BY ChrIs
<1> HIDE DEF r, s
<1>3. Agree(r, s)
  BY <1>1, <1>2 DEF Agree, SameCart, KeepsRegs
<1>4. r = s
  BY <1>1, <1>2, <1>3, SameBoard
<1> QED
  BY <1>4 DEF r, s

LEMMA MirSame ==
    \A b, o \in Boards, x \in Mirrors :
      Agree(b, o) => LET r == [b EXCEPT !.mir = x] s == [o EXCEPT !.mir = x] IN
        r \in Boards /\ s \in Boards /\ Agree(r, s) /\ r.prg = b.prg /\ s.prg = o.prg /\ r.nt = b.nt /\ s.nt = o.nt
<1> TAKE b, o \in Boards, x \in Mirrors
<1> DEFINE r == [b EXCEPT !.mir = x]
           s == [o EXCEPT !.mir = x]
<1>1. r \in Boards /\ SameCart(b, r) /\ KeepsRegs(b, r) /\ r.nt = b.nt /\ r.prg = b.prg /\ r.mir = x
  BY MirIs
<1>2. s \in Boards /\ SameCart(o, s) /\ KeepsRegs(o, s) /\ s.nt = o.nt /\ s.prg = o.prg /\ s.mir = x
  BY MirIs
<1> HIDE DEF r, s
<1>3. Agree(b, o) => Agree(r, s)
  BY <1>1, <1>2 DEF Agree, SameCart, KeepsRegs
<1> QED
  BY <1>1, <1>2, <1>3 DEF r, s

LEMMA HeaderIs ==
    \A b : HeaderNt(b) \in [1..4 -> Int]
<1> TAKE b
<1> DEFINE v == IF b.cart = "vertical" THEN 1 ELSE 0
<1>1. v \in 0..1
  OBVIOUS
<1>2. HeaderNt(b) = IF b.m = 19 THEN <<224, 224 + v, 225 - v, 225>> ELSE <<0, v, 1 - v, 1>>
  BY DEF HeaderNt
<1> HIDE DEF v
<1>3. CASE b.m = 19
  BY <1>1, <1>2, <1>3
<1>4. CASE b.m # 19
  BY <1>1, <1>2, <1>4
<1> QED
  BY <1>3, <1>4

LEMMA GenericSame ==
    \A b, o \in Boards : SameCart(b, o) => Generic(b) = Generic(o)
<1> SUFFICES ASSUME NEW b \in Boards, NEW o \in Boards, SameCart(b, o) PROVE Generic(b) = Generic(o)
  OBVIOUS
<1> DEFINE c == Cleared(b)
           d == Cleared(o)
           q == <<0, 1, NPrg - 2, NPrg - 1>>
           f == [i \in 1..8 |-> 8*0 + i - 1]
           h == HeaderNt(b)
           r == PrgAll(c, q)
           s == PrgAll(d, q)
           t == ChrAll(r, f)
           u == ChrAll(s, f)
           x == SetNt(t, h)
           y == SetNt(u, h)
<1>1. HeaderNt(o) = h
  BY DEF HeaderNt, SameCart
<1>2. Generic(b) = x /\ Generic(o) = y
  BY <1>1 DEF Generic, Chr8
<1>3. c \in Boards /\ d \in Boards /\ Agree(c, d)
  BY ClearedBoardIs, ClearedSame
<1>4. q \in [1..4 -> Int] /\ f \in [1..8 -> Int] /\ h \in [1..4 -> Int]
  BY LastBank, FillOf, HeaderIs
<1> HIDE DEF c, d, q, f, h
<1>5. r \in Boards /\ s \in Boards /\ Agree(r, s) /\ r.prg = s.prg
  BY <1>3, <1>4, PrgAllSame
<1> HIDE DEF r, s
<1>6. t \in Boards /\ u \in Boards /\ Agree(t, u) /\ t.chr = u.chr /\ t.prg = u.prg
  BY <1>4, <1>5, ChrAllSame
<1> HIDE DEF t, u
<1>7. x \in Boards /\ SameCart(t, x) /\ KeepsRegs(t, x) /\ x.nt = h /\ x.prg = t.prg /\ x.chr = t.chr /\ x.mir = t.mir
  BY <1>4, <1>6, NtIs
<1>8. y \in Boards /\ SameCart(u, y) /\ KeepsRegs(u, y) /\ y.nt = h /\ y.prg = u.prg /\ y.chr = u.chr /\ y.mir = u.mir
  BY <1>4, <1>6, NtIs
<1> HIDE DEF x, y
<1>9. Agree(x, y)
  BY <1>6, <1>7, <1>8 DEF Agree, SameCart, KeepsRegs
<1>10. x = y
  BY <1>6, <1>7, <1>8, <1>9, SameBoard
<1> QED
  BY <1>2, <1>10

----------------------------------------------------------------------------
\* What a reset relies on: boards that do not set their nametables or their windows have them as they were.
Restartable(b) ==
  TablesFit(b) /\ StillFits(b) /\ (b.m = 9 => NPrg >= 16) /\ (b.m \in WholeOnly => NPrg % 4 = 0)

LEMMA Mmc1Same ==
    \A b, o \in Boards : Agree(b, o) /\ b.nt = o.nt /\ NPrg % 4 = 0 => Mmc1Banks(b) = Mmc1Banks(o)
<1> SUFFICES ASSUME NEW b \in Boards, NEW o \in Boards, Agree(b, o), b.nt = o.nt, NPrg % 4 = 0
             PROVE  Mmc1Banks(b) = Mmc1Banks(o)
  OBVIOUS
<1>1. PICK p, q, c, d \in Int, x \in Mirrors : \A e \in Boards :
        Agree(b, e) => Mmc1Banks(e) = [Chr4(Chr4(Prg16(Prg16(e, 0, p), 1, q), 0, c), 1, d) EXCEPT !.mir = x]
  BY Mmc1Pages
<1> DEFINE r == Prg16(Prg16(b, 0, p), 1, q)
           s == Prg16(Prg16(o, 0, p), 1, q)
           t == Chr4(Chr4(r, 0, c), 1, d)
           u == Chr4(Chr4(s, 0, c), 1, d)
<1>2. Mmc1Banks(b) = [t EXCEPT !.mir = x] /\ Mmc1Banks(o) = [u EXCEPT !.mir = x]
  BY <1>1, ItAgrees
<1>3. r \in Boards /\ s \in Boards /\ Agree(r, s) /\ r.prg = s.prg /\ r.nt = s.nt
  BY HalvesSame
<1> HIDE DEF r, s
<1>4. t \in Boards /\ u \in Boards /\ Agree(t, u) /\ t.chr = u.chr /\ t.prg = u.prg /\ t.nt = u.nt
  BY <1>3, QuartersSame
<1> HIDE DEF t, u
<1>5. t = u
  BY <1>4, SameBoard
<1> QED
  BY <1>2, <1>5

LEMMA M178Same ==
    \A b, o \in Boards : Agree(b, o) /\ b.nt = o.nt => Chr8(M178Banks(b), 0) = Chr8(M178Banks(o), 0)
<1> SUFFICES ASSUME NEW b \in Boards, NEW o \in Boards, Agree(b, o), b.nt = o.nt
             PROVE  Chr8(M178Banks(b), 0) = Chr8(M178Banks(o), 0)
  OBVIOUS
<1>1. PICK p, q \in Int, x \in Mirrors : \A e \in Boards :
        Agree(b, e) => M178Banks(e) = [Prg16(Prg16(e, 0, p), 1, q) EXCEPT !.mir = x]
  BY M178Pages
<1> DEFINE r == Prg16(Prg16(b, 0, p), 1, q)
           s == Prg16(Prg16(o, 0, p), 1, q)
           t == [r EXCEPT !.mir = x]
           u == [s EXCEPT !.mir = x]
           f == [i \in 1..8 |-> 8*0 + i - 1]
<1>2. M178Banks(b) = t /\ M178Banks(o) = u
  BY <1>1, ItAgrees
<1>3. r \in Boards /\ s \in Boards /\ Agree(r, s) /\ r.prg = s.prg /\ r.nt = s.nt
  BY HalvesSame
<1> HIDE DEF r, s
<1>4. t \in Boards /\ u \in Boards /\ Agree(t, u) /\ t.prg = u.prg /\ t.nt = u.nt
  BY <1>3, MirSame
<1>5. f \in [1..8 -> Int] /\ Chr8(t, 0) = ChrAll(t, f) /\ Chr8(u, 0) = ChrAll(u, f)
  BY FillOf DEF Chr8
<1> HIDE DEF t, u, f
<1>6. ChrAll(t, f) \in Boards /\ ChrAll(u, f) \in Boards /\ ChrAll(t, f) = ChrAll(u, f)
  BY <1>4, <1>5, ChrAllSame, SameBoard
<1> QED
  BY <1>2, <1>5, <1>6

LEMMA Mmc3Same ==
    \A b, o \in Boards :
      Agree(b, o) /\ b.nt = o.nt /\ (b.ram => b.chr = o.chr) => Mmc3Banks(b) = Mmc3Banks(o)
<1> SUFFICES ASSUME NEW b \in Boards, NEW o \in Boards, Agree(b, o), b.nt = o.nt, b.ram => b.chr = o.chr
             PROVE  Mmc3Banks(b) = Mmc3Banks(o)
  OBVIOUS
<1>1. PICK q \in [1..4 -> Int], f \in [0..7 -> 0..(NChr - 1 + IF b.m = 119 THEN 8 ELSE 0)] :
        \A e \in Boards : Agree(b, e) =>
           Mmc3Banks(e) = IF b.ram THEN PrgAll(e, q) ELSE [PrgAll(e, q) EXCEPT !.chr = f]
  BY Mmc3Is
<1> DEFINE r == PrgAll(b, q)
           s == PrgAll(o, q)
<1>2. /\ Mmc3Banks(b) = IF b.ram THEN r ELSE [r EXCEPT !.chr = f]
      /\ Mmc3Banks(o) = IF b.ram THEN s ELSE [s EXCEPT !.chr = f]
  BY <1>1, ItAgrees
<1>3. r \in Boards /\ s \in Boards /\ Agree(r, s) /\ r.prg = s.prg /\ r.nt = s.nt /\ r.chr = b.chr /\ s.chr = o.chr
  BY PrgAllSame
<1>4. f \in Windows
  BY LastBank DEF Windows
<1> HIDE DEF r, s
<1>5. CASE b.ram
  <2>1. r = s
    BY <1>3, <1>5, SameBoard
  <2> QED
    BY <1>2, <2>1
<1>6. CASE ~b.ram
  <2>1. [r EXCEPT !.chr = f] = [s EXCEPT !.chr = f]
    BY <1>3, <1>4, PutWindows
  <2> QED
    BY <1>2, <1>6, <2>1
<1> QED
  BY <1>5, <1>6

LEMMA Mapper9Same ==
    \A b, o \in Boards :
      /\ Agree(b, o) /\ b.nt = o.nt /\ (b.ram => b.chr = o.chr)
      /\ NPrg >= 16 /\ b.reg[0] \in 0..15 /\ b.reg[5] \in 0..1 /\ b.reg[6] \in 0..1
      => Mapper9Banks(b) = Mapper9Banks(o)
<1> SUFFICES ASSUME NEW b \in Boards, NEW o \in Boards, Agree(b, o), b.nt = o.nt, b.ram => b.chr = o.chr,
                    NPrg >= 16, b.reg[0] \in 0..15, b.reg[5] \in 0..1, b.reg[6] \in 0..1
             PROVE  Mapper9Banks(b) = Mapper9Banks(o)
  OBVIOUS
<1>1. PICK p \in [0..3 -> 0..(NPrg - 1)], k, j \in Nat :
        \A e \in Boards : Agree(b, e) =>
             Mapper9Banks(e) = IF b.ram THEN [e EXCEPT !.prg = p]
                               ELSE Chr4(Chr4([e EXCEPT !.prg = p], 0, k), 1, j)
  BY Mapper9Is
<1> DEFINE r == [b EXCEPT !.prg = p]
           s == [o EXCEPT !.prg = p]
           t == Chr4(Chr4(r, 0, k), 1, j)
           u == Chr4(Chr4(s, 0, k), 1, j)
<1>2. Mapper9Banks(b) = (IF b.ram THEN r ELSE t) /\ Mapper9Banks(o) = (IF b.ram THEN s ELSE u)
  BY <1>1, ItAgrees
<1>3. p \in Slots
  BY LastBank DEF Slots
<1>4. /\ r \in Boards /\ s \in Boards /\ Agree(r, s) /\ r.prg = s.prg /\ r.nt = b.nt /\ s.nt = o.nt
      /\ r.chr = b.chr /\ s.chr = o.chr
  BY <1>3, PutSame
<1> HIDE DEF r, s
<1>5. b.ram => r = s
  BY <1>4, SameBoard
<1>6. t \in Boards /\ u \in Boards /\ Agree(t, u) /\ t.chr = u.chr /\ t.prg = u.prg /\ t.nt = u.nt
  BY <1>4, QuartersSame
<1> HIDE DEF t, u
<1>7. t = u
  BY <1>6, SameBoard
<1> QED
  BY <1>2, <1>5, <1>7

\* The registers of MMC5 after a reset.
Mmc5Regs == [r \in 0..19 |-> IF r < 5 THEN 255 ELSE IF r < 7 THEN 3 ELSE 0]

LEMMA Mmc5RegsAre ==
    Mmc5Regs \in [0..19 -> Nat] /\ Mmc5Regs[5] = 3 /\ Mmc5Regs[6] = 3
  BY DEF Mmc5Regs

LEMMA RegsIs ==
    \A b \in Boards, f \in [0..19 -> Nat] :
      LET r == [b EXCEPT !.reg = f] IN
      /\ r \in Boards /\ SameCart(b, r) /\ r.nt = b.nt /\ r.prg = b.prg /\ r.chr = b.chr /\ r.mir = b.mir
      /\ r.cmd = b.cmd /\ r.shift = b.shift /\ r.reg = f
  BY DEF Boards, SameCart

LEMMA Mmc5Same ==
    \A b, o \in Boards, q \in [1..4 -> Int] :
      Agree(b, o) /\ b.chr = o.chr /\ NPrg % 4 = 0 =>
        Mmc5Prg([SetNt(b, q) EXCEPT !.reg = Mmc5Regs]) = Mmc5Prg([SetNt(o, q) EXCEPT !.reg = Mmc5Regs])
<1> SUFFICES ASSUME NEW b \in Boards, NEW o \in Boards, NEW q \in [1..4 -> Int], Agree(b, o), b.chr = o.chr,
                    NPrg % 4 = 0
             PROVE  Mmc5Prg([SetNt(b, q) EXCEPT !.reg = Mmc5Regs]) = Mmc5Prg([SetNt(o, q) EXCEPT !.reg = Mmc5Regs])
  OBVIOUS
<1> DEFINE c == SetNt(b, q)
           d == SetNt(o, q)
           r == [c EXCEPT !.reg = Mmc5Regs]
           s == [d EXCEPT !.reg = Mmc5Regs]
<1>1. c \in Boards /\ SameCart(b, c) /\ KeepsRegs(b, c) /\ c.nt = q /\ c.chr = b.chr /\ c.mir = b.mir
  BY NtIs
<1>2. d \in Boards /\ SameCart(o, d) /\ KeepsRegs(o, d) /\ d.nt = q /\ d.chr = o.chr /\ d.mir = o.mir
  BY NtIs
<1> HIDE DEF c, d
<1>3. /\ r \in Boards /\ SameCart(c, r) /\ r.nt = c.nt /\ r.chr = c.chr /\ r.mir = c.mir
      /\ r.cmd = c.cmd /\ r.shift = c.shift /\ r.reg = Mmc5Regs
  BY <1>1, RegsIs, Mmc5RegsAre
<1>4. /\ s \in Boards /\ SameCart(d, s) /\ s.nt = d.nt /\ s.chr = d.chr /\ s.mir = d.mir
      /\ s.cmd = d.cmd /\ s.shift = d.shift /\ s.reg = Mmc5Regs
  BY <1>2, RegsIs, Mmc5RegsAre
<1> HIDE DEF r, s
<1>5. Agree(r, s) /\ r.nt = s.nt /\ r.chr = s.chr
  BY <1>1, <1>2, <1>3, <1>4 DEF Agree, SameCart, KeepsRegs
<1>6. r.reg[5] \in 0..3
  BY <1>3, Mmc5RegsAre
<1>7. PICK p \in [0..3 -> {Ram} \cup 0..(NPrg - 1)] : \A e \in Boards :
        Agree(r, e) => Mmc5Prg(e) = [e EXCEPT !.prg = p]
  BY <1>3, <1>6, Mmc5Is
<1>8. p \in Slots
  BY LastBank DEF Slots, Ram
<1>9. Mmc5Prg(r) = [r EXCEPT !.prg = p] /\ Mmc5Prg(s) = [s EXCEPT !.prg = p]
  BY <1>3, <1>4, <1>5, <1>7, ItAgrees
<1>10. [r EXCEPT !.prg = p] = [s EXCEPT !.prg = p]
  BY <1>3, <1>4, <1>5, <1>8, PutSame
<1> QED
  BY <1>9, <1>10 DEF r, s, c, d

----------------------------------------------------------------------------
\* What a reset sets, board by board.
LEMMA ResetArms ==
    \A b :
      LET c == Cleared(b)
          g == Generic(b)
          ends == Chr8(Prg16(Prg16(c, 0, 0), 1, NPrg \div 2 - 1), 0)
      IN
      /\ b.m = 2 => BoardReset(b) = ends
      /\ b.m = 228 => BoardReset(b) = Prg16(ends, 0, NPrg \div 2 - 2)
      /\ b.m = 3 => BoardReset(b) = Chr8(Prg32(c, 0), 0)
      /\ b.m = 66 => BoardReset(b) = Chr8(Whole32(c, 0), 0)
      /\ b.m \in {4, 119} => BoardReset(b) = Mmc3Banks(c)
      /\ b.m \in {11, 79, 113, 132, 87, 184, 185} => BoardReset(b) = Prg32(g, 0)
      /\ b.m \in {150, 243} => BoardReset(b) = SachenUpdate(g)
      /\ b.m = 64 => BoardReset(b) = RamboUpdate([g EXCEPT !.reg[7] = 1, !.reg[15] = NPrg - 2])
      /\ b.m = 78 => BoardReset(b) = IF b.cart = "4screen" THEN [SetReg(g, 15, 1) EXCEPT !.mir = "horizontal"] ELSE g
      /\ b.m \in {95, 206} => BoardReset(b) = Namco108Update(SetReg(g, 7, 1))
      /\ b.m = 112 => BoardReset(b) = NtdecUpdate(SetReg(g, 1, 1))
      /\ b.m = 180 => BoardReset(b) = Prg16(g, 1, 0)
      /\ b.m \in {16, 19, 23, 33, 69, 70, 71} => BoardReset(b) = g
<1> TAKE b
<1>1. b.m = 2 => BoardReset(b) = Chr8(Prg16(Prg16(Cleared(b), 0, 0), 1, NPrg \div 2 - 1), 0)
  BY DEF BoardReset
<1>2. b.m = 228 => BoardReset(b) = Prg16(Chr8(Prg16(Prg16(Cleared(b), 0, 0), 1, NPrg \div 2 - 1), 0), 0, NPrg \div 2 - 2)
  BY DEF BoardReset
<1>3. /\ b.m = 3 => BoardReset(b) = Chr8(Prg32(Cleared(b), 0), 0)
      /\ b.m = 66 => BoardReset(b) = Chr8(Whole32(Cleared(b), 0), 0)
  <2>1. b.m = 3 => BoardReset(b) = Chr8(Prg32(Cleared(b), 0), 0)
    BY DEF BoardReset
  <2>2. b.m = 66 => BoardReset(b) = Chr8(Whole32(Cleared(b), 0), 0)
    BY DEF BoardReset
  <2> QED
    BY <2>1, <2>2
<1>4. b.m \in {4, 119} => BoardReset(b) = Mmc3Banks(Cleared(b))
  <2>1. b.m = 4 => BoardReset(b) = Mmc3Banks(Cleared(b))
    BY DEF BoardReset
  <2>2. b.m = 119 => BoardReset(b) = Mmc3Banks(Cleared(b))
    BY DEF BoardReset
  <2> QED
    BY <2>1, <2>2
<1>5. b.m \in {11, 79, 113, 132, 87, 184, 185} => BoardReset(b) = Prg32(Generic(b), 0)
  <2>1. b.m = 11 => BoardReset(b) = Prg32(Generic(b), 0)
    BY DEF BoardReset
  <2>2. b.m = 79 => BoardReset(b) = Prg32(Generic(b), 0)
    BY DEF BoardReset
  <2>3. b.m = 113 => BoardReset(b) = Prg32(Generic(b), 0)
    BY DEF BoardReset
  <2>4. b.m = 132 => BoardReset(b) = Prg32(Generic(b), 0)
    BY DEF BoardReset
  <2>5. b.m = 87 => BoardReset(b) = Prg32(Generic(b), 0)
    BY DEF BoardReset
  <2>6. b.m = 184 => BoardReset(b) = Prg32(Generic(b), 0)
    BY DEF BoardReset
  <2>7. b.m = 185 => BoardReset(b) = Prg32(Generic(b), 0)
    BY DEF BoardReset
  <2> QED
    BY <2>1, <2>2, <2>3, <2>4, <2>5, <2>6, <2>7
<1>6. b.m \in {150, 243} => BoardReset(b) = SachenUpdate(Generic(b))
  <2>1. b.m = 150 => BoardReset(b) = SachenUpdate(Generic(b))
    BY DEF BoardReset
  <2>2. b.m = 243 => BoardReset(b) = SachenUpdate(Generic(b))
    BY DEF BoardReset
  <2> QED
    BY <2>1, <2>2
<1>7. b.m = 64 => BoardReset(b) = RamboUpdate([Generic(b) EXCEPT !.reg[7] = 1, !.reg[15] = NPrg - 2])
  BY DEF BoardReset
<1>8. b.m = 78 => BoardReset(b) = IF b.cart = "4screen" THEN [SetReg(Generic(b), 15, 1) EXCEPT !.mir = "horizontal"] ELSE Generic(b)
  BY DEF BoardReset
<1>9. b.m \in {95, 206} => BoardReset(b) = Namco108Update(SetReg(Generic(b), 7, 1))
  <2>1. b.m = 95 => BoardReset(b) = Namco108Update(SetReg(Generic(b), 7, 1))
    BY DEF BoardReset
  <2>2. b.m = 206 => BoardReset(b) = Namco108Update(SetReg(Generic(b), 7, 1))
    BY DEF BoardReset
  <2> QED
    BY <2>1, <2>2
<1>10. b.m = 112 => BoardReset(b) = NtdecUpdate(SetReg(Generic(b), 1, 1))
  BY DEF BoardReset
<1>11. b.m = 180 => BoardReset(b) = Prg16(Generic(b), 1, 0)
  BY DEF BoardReset
<1>12. b.m \in {16, 19, 23, 33, 69, 70, 71} => BoardReset(b) = Generic(b)
  <2>1. b.m = 16 => BoardReset(b) = Generic(b)
    BY DEF BoardReset
  <2>2. b.m = 19 => BoardReset(b) = Generic(b)
    BY DEF BoardReset
  <2>3. b.m = 23 => BoardReset(b) = Generic(b)
    BY DEF BoardReset
  <2>4. b.m = 33 => BoardReset(b) = Generic(b)
    BY DEF BoardReset
  <2>5. b.m = 69 => BoardReset(b) = Generic(b)
    BY DEF BoardReset
  <2>6. b.m = 70 => BoardReset(b) = Generic(b)
    BY DEF BoardReset
  <2>7. b.m = 71 => BoardReset(b) = Generic(b)
    BY DEF BoardReset
  <2> QED
    BY <2>1, <2>2, <2>3, <2>4, <2>5, <2>6, <2>7
<1> QED
  BY <1>1, <1>2, <1>3, <1>4, <1>5, <1>6, <1>7, <1>8, <1>9, <1>10, <1>11, <1>12

\* The banks a reset sets do not depend on what the program had written.
LEMMA ResetSame ==
    \A b, o \in Boards : SameCart(b, o) /\ b.m \in Mappers /\ Restartable(b) /\ Restartable(o) => BoardReset(b) = BoardReset(o)
<1> SUFFICES ASSUME NEW b \in Boards, NEW o \in Boards, SameCart(b, o), b.m \in Mappers, Restartable(b), Restartable(o)
             PROVE  BoardReset(b) = BoardReset(o)
  OBVIOUS
<1> DEFINE c == Cleared(b)
           d == Cleared(o)
           zero == [r \in 0..19 |-> 0]
<1>1. /\ c \in Boards /\ d \in Boards /\ Agree(c, d) /\ o.m = b.m /\ o.cart = b.cart /\ o.ram = b.ram
      /\ c.m = b.m /\ c.ram = b.ram /\ d.m = b.m /\ d.ram = b.ram /\ c.reg = zero /\ d.reg = zero
      /\ c.nt = b.nt /\ d.nt = o.nt /\ c.chr = b.chr /\ d.chr = o.chr
  BY ClearedBoardIs, ClearedSame DEF SameCart
<1>2. b.m \in SoleTables => c.nt = d.nt
  BY <1>1 DEF Restartable, TablesFit
<1>3. Still(b) => c.chr = d.chr
  <2>1. Still(o) <=> Still(b)
    BY <1>1 DEF Still
  <2> QED
    BY <1>1, <2>1 DEF Restartable, StillFits
<1>4. Generic(b) = Generic(o)
  BY GenericSame
<1>5. NPrg \div 2 - 1 \in Int /\ NPrg - 1 \in Int
  BY LastBank
<1> HIDE DEF zero
<1>a. CASE b.m = 1
  <2> DEFINE r == SetReg(c, 0, 12)
             s == SetReg(d, 0, 12)
  <2>1. BoardReset(b) = Mmc1Banks(r) /\ BoardReset(o) = Mmc1Banks(s)
    BY <1>1, <1>a DEF BoardReset
  <2> HIDE DEF c, d
  <2>2. /\ r \in Boards /\ SameCart(c, r) /\ r.nt = c.nt /\ r.mir = c.mir /\ r.cmd = c.cmd /\ r.shift = c.shift
        /\ r.reg = [c.reg EXCEPT ![0] = 12]
    BY <1>1, RegIs
  <2>3. /\ s \in Boards /\ SameCart(d, s) /\ s.nt = d.nt /\ s.mir = d.mir /\ s.cmd = d.cmd /\ s.shift = d.shift
        /\ s.reg = [d.reg EXCEPT ![0] = 12]
    BY <1>1, RegIs
  <2> HIDE DEF r, s
  <2>4. Agree(r, s)
    BY <1>1, <2>2, <2>3 DEF Agree, SameCart, KeepsRegs
  <2>5. r.nt = s.nt
    BY <1>2, <1>a, <2>2, <2>3 DEF SoleTables
  <2>6. NPrg % 4 = 0
    BY <1>a DEF Restartable, WholeOnly
  <2> QED
    BY <2>1, <2>2, <2>3, <2>4, <2>5, <2>6, Mmc1Same
<1>b. CASE b.m \in {2, 228}
  <2> DEFINE k == NPrg \div 2 - 1
             e(x) == Chr8(Prg16(Prg16(x, 0, 0), 1, k), 0)
  <2>0. o.m = b.m
    BY <1>1
  <2>1. /\ b.m = 2 => BoardReset(b) = e(c) /\ BoardReset(o) = e(d)
        /\ b.m = 228 => /\ BoardReset(b) = Prg16(e(c), 0, NPrg \div 2 - 2)
                         /\ BoardReset(o) = Prg16(e(d), 0, NPrg \div 2 - 2)
    BY <2>0, ResetArms
  <2>2. c.nt = d.nt
    BY <1>2, <1>b DEF SoleTables
  <2>3. k \in Int
    BY <1>5
  <2> HIDE DEF c, d, k
  <2>4. e(c) = e(d)
    BY <1>1, <2>2, <2>3, EndsSame
  <2> HIDE DEF e
  <2> QED
    BY <1>b, <2>1, <2>4
<1>c. CASE b.m \in {3, 66}
  <2> DEFINE q == [i \in 1..4 |-> 4*0 + i - 1]
             f == [i \in 1..8 |-> 8*0 + i - 1]
  <2>0. b.m = 66 => Whole32(c, 0) = Prg32(c, 0) /\ Whole32(d, 0) = Prg32(d, 0)
    BY <1>1, WholeIs DEF Restartable, WholeOnly
  <2>1. BoardReset(b) = ChrAll(PrgAll(c, q), f) /\ BoardReset(o) = ChrAll(PrgAll(d, q), f)
    <3>1. BoardReset(b) = Chr8(Prg32(c, 0), 0) /\ BoardReset(o) = Chr8(Prg32(d, 0), 0)
      BY <1>1, <1>c, <2>0, ResetArms
    <3> QED
      BY <3>1 DEF Chr8, Prg32
  <2>2. c.nt = d.nt
    BY <1>2, <1>c DEF SoleTables
  <2>3. q \in [1..4 -> Int] /\ f \in [1..8 -> Int]
    BY FillOf
  <2> HIDE DEF c, d, q, f
  <2> QED
    BY <1>1, <2>1, <2>2, <2>3, FirstSame
<1>d. CASE b.m = 5
  <2> DEFINE q == <<0, 0, 0, 0>>
  <2>1. /\ BoardReset(b) = Mmc5Prg([SetNt(c, q) EXCEPT !.reg = Mmc5Regs])
        /\ BoardReset(o) = Mmc5Prg([SetNt(d, q) EXCEPT !.reg = Mmc5Regs])
    BY <1>1, <1>d DEF BoardReset, Mmc5Regs
  <2>2. c.chr = d.chr
    BY <1>3, <1>d DEF Still
  <2>3. q \in [1..4 -> Int]
    OBVIOUS
  <2>4. NPrg % 4 = 0
    BY <1>d DEF Restartable, WholeOnly
  <2> HIDE DEF c, d, q
  <2> QED
    BY <1>1, <2>1, <2>2, <2>3, <2>4, Mmc5Same
<1>e. CASE b.m = 178
  <2>1. BoardReset(b) = Chr8(M178Banks(c), 0) /\ BoardReset(o) = Chr8(M178Banks(d), 0)
    BY <1>1, <1>e DEF BoardReset
  <2>2. c.nt = d.nt
    BY <1>2, <1>e DEF SoleTables
  <2> HIDE DEF c, d
  <2> QED
    BY <1>1, <2>1, <2>2, M178Same
<1>f. CASE b.m = 9
  <2>1. BoardReset(b) = Mapper9Banks(c) /\ BoardReset(o) = Mapper9Banks(d)
    BY <1>1, <1>f DEF BoardReset
  <2>2. c.nt = d.nt /\ (c.ram => c.chr = d.chr)
    BY <1>1, <1>2, <1>3, <1>f DEF SoleTables, Still
  <2>3. NPrg >= 16 /\ c.reg[0] \in 0..15 /\ c.reg[5] \in 0..1 /\ c.reg[6] \in 0..1
    BY <1>1, <1>f DEF Restartable, zero
  <2> HIDE DEF c, d
  <2> QED
    BY <1>1, <2>1, <2>2, <2>3, Mapper9Same
<1>g. CASE b.m = 7
  <2> DEFINE q == [i \in 1..4 |-> 4*0 + i - 1]
             r == PrgAll(c, q)
             s == PrgAll(d, q)
  <2>0. Whole32(c, 0) = r /\ Whole32(d, 0) = s
    <3>1. NPrg % 4 = 0
      BY <1>g DEF Restartable, WholeOnly
    <3>2. c \in Boards /\ d \in Boards
      BY <1>1
    <3> HIDE DEF c, d
    <3>3. Whole32(c, 0) = Prg32(c, 0) /\ Whole32(d, 0) = Prg32(d, 0)
      BY <3>1, <3>2, WholeIs
    <3> QED
      BY <3>3 DEF Prg32
  <2>1. BoardReset(b) = Single(r, FALSE) /\ BoardReset(o) = Single(s, FALSE)
    <3>1. b.m = 7 /\ o.m = 7
      BY <1>1, <1>g
    <3>2. BoardReset(b) = Single(Whole32(c, 0), FALSE)
      BY <3>1 DEF BoardReset
    <3>3. BoardReset(o) = Single(Whole32(d, 0), FALSE)
      BY <3>1 DEF BoardReset
    <3> HIDE DEF c, d, r, s
    <3> QED
      BY <2>0, <3>2, <3>3
  <2>2. c.nt = d.nt /\ c.chr = d.chr
    BY <1>2, <1>3, <1>g DEF SoleTables, Still
  <2>3. q \in [1..4 -> Int]
    BY FillOf
  <2> HIDE DEF c, d, q
  <2>4. r \in Boards /\ s \in Boards /\ Agree(r, s) /\ r.prg = s.prg /\ r.chr = s.chr /\ r.nt = s.nt
    BY <1>1, <2>2, <2>3, PrgAllSame
  <2> HIDE DEF r, s
  <2>5. r = s
    BY <2>4, SameBoard
  <2> QED
    BY <2>1, <2>5
<1>h. CASE b.m \in {4, 119}
  <2>1. BoardReset(b) = Mmc3Banks(c) /\ BoardReset(o) = Mmc3Banks(d)
    BY <1>1, <1>h, ResetArms
  <2>2. c.nt = d.nt /\ (c.ram => c.chr = d.chr)
    BY <1>1, <1>2, <1>3, <1>h DEF SoleTables, Still
  <2> HIDE DEF c, d
  <2> QED
    BY <1>1, <2>1, <2>2, Mmc3Same
<1>i. CASE b.m \in {24, 26}
  <2> DEFINE q == <<0, 1, 0, NPrg - 1>>
             f == [i \in 1..8 |-> 0]
  <2>1. BoardReset(b) = ChrAll(PrgAll(c, q), f) /\ BoardReset(o) = ChrAll(PrgAll(d, q), f)
    BY <1>1, <1>i DEF BoardReset
  <2>2. c.nt = d.nt
    BY <1>2, <1>i DEF SoleTables
  <2>3. q \in [1..4 -> Int] /\ f \in [1..8 -> Int]
    BY <1>5
  <2> HIDE DEF c, d, q, f
  <2> QED
    BY <1>1, <2>1, <2>2, <2>3, FirstSame
<1>j. CASE b.m \notin {1, 2, 228, 3, 66, 5, 178, 9, 7, 4, 119, 24, 26}
  <2>0. o.m = b.m /\ o.cart = b.cart
    BY <1>1
  <2>1. CASE b.m \in {11, 79, 113, 132, 87, 184, 185}
    <3>1. BoardReset(b) = Prg32(Generic(b), 0)
      BY <2>1, ResetArms
    <3>2. BoardReset(o) = Prg32(Generic(o), 0)
      BY <2>1, <2>0, ResetArms
    <3> QED
      BY <3>1, <3>2, <2>0, <1>4
  <2>2. CASE b.m \in {150, 243}
    <3>1. BoardReset(b) = SachenUpdate(Generic(b))
      BY <2>2, ResetArms
    <3>2. BoardReset(o) = SachenUpdate(Generic(o))
      BY <2>2, <2>0, ResetArms
    <3> QED
      BY <3>1, <3>2, <2>0, <1>4
  <2>3. CASE b.m = 64
    <3>1. BoardReset(b) = RamboUpdate([Generic(b) EXCEPT !.reg[7] = 1, !.reg[15] = NPrg - 2])
      BY <2>3, ResetArms
    <3>2. BoardReset(o) = RamboUpdate([Generic(o) EXCEPT !.reg[7] = 1, !.reg[15] = NPrg - 2])
      BY <2>3, <2>0, ResetArms
    <3> QED
      BY <3>1, <3>2, <2>0, <1>4
  <2>4. CASE b.m \in {95, 206}
    <3>1. BoardReset(b) = Namco108Update(SetReg(Generic(b), 7, 1))
      BY <2>4, ResetArms
    <3>2. BoardReset(o) = Namco108Update(SetReg(Generic(o), 7, 1))
      BY <2>4, <2>0, ResetArms
    <3> QED
      BY <3>1, <3>2, <2>0, <1>4
  <2>5. CASE b.m = 112
    <3>1. BoardReset(b) = NtdecUpdate(SetReg(Generic(b), 1, 1))
      BY <2>5, ResetArms
    <3>2. BoardReset(o) = NtdecUpdate(SetReg(Generic(o), 1, 1))
      BY <2>5, <2>0, ResetArms
    <3> QED
      BY <3>1, <3>2, <2>0, <1>4
  <2>6. CASE b.m = 180
    <3>1. BoardReset(b) = Prg16(Generic(b), 1, 0)
      BY <2>6, ResetArms
    <3>2. BoardReset(o) = Prg16(Generic(o), 1, 0)
      BY <2>6, <2>0, ResetArms
    <3> QED
      BY <3>1, <3>2, <2>0, <1>4
  <2>7. CASE b.m \in {16, 19, 23, 33, 69, 70, 71}
    <3>1. BoardReset(b) = Generic(b)
      BY <2>7, ResetArms
    <3>2. BoardReset(o) = Generic(o)
      BY <2>7, <2>0, ResetArms
    <3> QED
      BY <3>1, <3>2, <2>0, <1>4
  <2>8. CASE b.m = 78
    <3>1. BoardReset(b) = IF b.cart = "4screen" THEN [SetReg(Generic(b), 15, 1) EXCEPT !.mir = "horizontal"] ELSE Generic(b)
      BY <2>8, ResetArms
    <3>2. BoardReset(o) = IF o.cart = "4screen" THEN [SetReg(Generic(o), 15, 1) EXCEPT !.mir = "horizontal"] ELSE Generic(o)
      BY <2>8, <2>0, ResetArms
    <3> QED
      BY <3>1, <3>2, <2>0, <1>4
  <2> QED
    BY <1>j, <2>1, <2>2, <2>3, <2>4, <2>5, <2>6, <2>7, <2>8 DEF Mappers
<1> QED
  BY <1>a, <1>b, <1>c, <1>d, <1>e, <1>f, <1>g, <1>h, <1>i, <1>j

----------------------------------------------------------------------------
\* A reset keeps the board right.
LEMMA ClearedGoes ==
    \A b \in Boards : BoardOk(b) => Goes(b, Cleared(b))
<1> SUFFICES ASSUME NEW b \in Boards, BoardOk(b) PROVE Goes(b, Cleared(b))
  OBVIOUS
<1> DEFINE c == Cleared(b)
<1>1. /\ c \in Boards /\ SameCart(b, c) /\ c.nt = b.nt /\ c.prg = b.prg /\ c.chr = b.chr
      /\ c.reg = [r \in 0..19 |-> 0]
  BY ClearedBoardIs
<1> HIDE DEF c
<1>2. (b.m = 9 => NPrg >= 16) /\ (b.m \in WholeOnly => NPrg % 4 = 0)
  BY DEF BoardOk, RegsFit
<1>3. c.reg[0] = 0 /\ c.reg[5] = 0 /\ c.reg[6] = 0
  BY <1>1
<1>4. RegsFit(c)
  BY <1>1, <1>2, <1>3 DEF RegsFit, SameCart
<1>5. Goes(b, c)
  BY <1>1, <1>4, OthersGo
<1> QED
  BY <1>5 DEF c

LEMMA GenericGoes ==
    \A b \in Boards : BoardOk(b) /\ b.m \notin SoleTables /\ b.m # 5 => Goes(b, Generic(b)) /\ ~Still(Generic(b))
<1> SUFFICES ASSUME NEW b \in Boards, BoardOk(b), b.m \notin SoleTables, b.m # 5
             PROVE  Goes(b, Generic(b)) /\ ~Still(Generic(b))
  OBVIOUS
<1> DEFINE c == Cleared(b)
           q == <<0, 1, NPrg - 2, NPrg - 1>>
           h == HeaderNt(b)
           r == PrgAll(c, q)
           s == Chr8(r, 0)
           t == SetNt(s, h)
<1>1. Generic(b) = t
  BY DEF Generic
<1>2. q \in [1..4 -> Int] /\ q[4] = NPrg - 1 /\ h \in [1..4 -> Int]
  BY LastBank, HeaderIs
<1>3. ~Still(b)
  BY DEF Still, SoleTables
<1>4. Goes(b, c)
  BY ClearedGoes
<1> HIDE DEF c, q, h
<1>5. c \in Boards /\ BoardOk(c)
  BY <1>4, GoesOn
<1>6. Goes(c, r)
  BY <1>2, <1>5, PrgAllGoes
<1>7. Goes(b, r)
  BY <1>4, <1>6, GoesOn
<1> HIDE DEF r
<1>8. r \in Boards /\ BoardOk(r) /\ ~Still(r)
  BY <1>3, <1>7, GoesOn
<1>9. Goes(r, s)
  BY <1>8, Chr8Goes
<1>10. Goes(b, s)
  BY <1>7, <1>9, GoesOn
<1> HIDE DEF s
<1>11. s \in Boards /\ BoardOk(s) /\ s.m = b.m
  BY <1>10, GoesOn
<1>12. Goes(s, t)
  BY <1>2, <1>11, SettersGo
<1>13. Goes(b, t)
  BY <1>10, <1>12, GoesOn
<1> QED
  BY <1>1, <1>3, <1>13, GoesOn

LEMMA EndsGo ==
    \A b \in Boards, k \in Int :
      BoardOk(b) /\ b.m \in {2, 228} => Goes(b, Chr8(Prg16(Prg16(b, 0, 0), 1, k), 0))
<1> SUFFICES ASSUME NEW b \in Boards, NEW k \in Int, BoardOk(b), b.m \in {2, 228}
             PROVE  Goes(b, Chr8(Prg16(Prg16(b, 0, 0), 1, k), 0))
  OBVIOUS
<1> DEFINE r == Prg16(b, 0, 0)
           s == Prg16(r, 1, k)
<1>1. b.m \notin KeepsLast /\ ~Still(b)
  BY DEF KeepsLast, Still
<1>2. Goes(b, r)
  BY <1>1, Prg16Goes
<1> HIDE DEF r
<1>3. r \in Boards /\ BoardOk(r) /\ r.m = b.m
  BY <1>2, GoesOn
<1>4. Goes(r, s)
  BY <1>1, <1>3, Prg16Goes
<1>5. Goes(b, s)
  BY <1>2, <1>4, GoesOn
<1> HIDE DEF s
<1>6. s \in Boards /\ BoardOk(s) /\ ~Still(s)
  BY <1>1, <1>5, GoesOn
<1>7. Goes(s, Chr8(s, 0))
  BY <1>6, Chr8Goes
<1>8. Goes(b, Chr8(s, 0))
  BY <1>5, <1>7, GoesOn
<1> QED
  BY <1>8 DEF r, s

\* From a board just cleared, and from one with the banks most boards start with.
LEMMA SoleResets ==
    \A b \in Boards : BoardOk(b) /\ b.m \in SoleTables \cup {5} => Goes(b, BoardReset(b))
<1> SUFFICES ASSUME NEW b \in Boards, BoardOk(b), b.m \in SoleTables \cup {5} PROVE Goes(b, BoardReset(b))
  OBVIOUS
<1> DEFINE c == Cleared(b)
<1>1. Goes(b, c)
  BY ClearedGoes
<1>2. c \in Boards /\ BoardOk(c) /\ c.m = b.m /\ c.ram = b.ram /\ \A x : Goes(c, x) => Goes(b, x)
  BY <1>1, GoesOn
<1>3. NPrg \div 2 - 1 \in Int /\ NPrg \div 2 - 2 \in Int
  BY LastBank
<1>a. CASE b.m = 1
  <2> DEFINE r == SetReg(c, 0, 12)
  <2>1. BoardReset(b) = Mmc1Banks(r)
    BY <1>a DEF BoardReset
  <2> HIDE DEF c
  <2>2. Goes(c, r)
    BY <1>2, <1>a, SettersGo
  <2> HIDE DEF r
  <2>3. r \in Boards /\ BoardOk(r) /\ r.m = 1
    BY <1>2, <1>a, <2>2, GoesOn
  <2>4. Goes(r, Mmc1Banks(r))
    BY <2>3, Mmc1Goes
  <2> QED
    BY <1>2, <2>1, <2>2, <2>4, GoesOn
<1>b. CASE b.m \in {2, 228}
  <2> DEFINE k == NPrg \div 2 - 1
             j == NPrg \div 2 - 2
             e == Chr8(Prg16(Prg16(c, 0, 0), 1, k), 0)
  <2>1. BoardReset(b) \in {e, Prg16(e, 0, j)}
    BY <1>b, ResetArms, ZenonT(60)
  <2>2. k \in Int /\ j \in Int
    BY <1>3
  <2> HIDE DEF c, k, j
  <2>3. Goes(c, e)
    BY <1>2, <1>b, <2>2, EndsGo
  <2> HIDE DEF e
  <2>4. e \in Boards /\ BoardOk(e)
    BY <2>3, GoesOn
  <2>5. Goes(e, Prg16(e, 0, j))
    BY <2>2, <2>4, Prg16Goes
  <2> QED
    BY <1>2, <2>1, <2>3, <2>5, GoesOn
<1>c. CASE b.m \in {3, 66}
  <2>1. BoardReset(b) = Chr8(Prg32(c, 0), 0)
    <3>1. b.m = 66 => Whole32(c, 0) = Prg32(c, 0)
      BY <1>2, WholeIs DEF BoardOk, RegsFit, WholeOnly
    <3> QED
      BY <1>c, <3>1, ResetArms, ZenonT(60)
  <2> HIDE DEF c
  <2>2. c.m \notin KeepsLast /\ ~Still(c)
    BY <1>2, <1>c DEF KeepsLast, Still
  <2> QED
    BY <1>2, <2>1, <2>2, BothGo
<1>d. CASE b.m = 5
  <2> DEFINE q == <<0, 0, 0, 0>>
             r == SetNt(c, q)
             s == [r EXCEPT !.reg = Mmc5Regs]
  <2>1. BoardReset(b) = Mmc5Prg(s)
    BY <1>d DEF BoardReset, Mmc5Regs
  <2>2. q \in [1..4 -> Int] /\ c.m \notin SoleTables
    BY <1>2, <1>d DEF SoleTables
  <2> HIDE DEF c, q
  <2>3. Goes(c, r)
    BY <1>2, <2>2, SettersGo
  <2> HIDE DEF r
  <2>4. r \in Boards /\ BoardOk(r) /\ r.m = 5
    BY <1>2, <1>d, <2>3, GoesOn
  <2>5. /\ s \in Boards /\ SameCart(r, s) /\ s.nt = r.nt /\ s.prg = r.prg /\ s.chr = r.chr /\ s.reg = Mmc5Regs
    BY <2>4, RegsIs, Mmc5RegsAre
  <2> HIDE DEF s
  <2>6. RegsFit(s)
    <3>1. NPrg % 4 = 0
      BY <2>4 DEF BoardOk, RegsFit, WholeOnly
    <3> QED
      BY <2>4, <2>5, <3>1, Mmc5RegsAre DEF RegsFit, SameCart
  <2>7. Goes(r, s)
    BY <2>4, <2>5, <2>6, OthersGo
  <2>8. s \in Boards /\ BoardOk(s) /\ s.m = 5
    BY <2>4, <2>7, GoesOn
  <2>9. Goes(s, Mmc5Prg(s))
    BY <2>8, Mmc5Goes
  <2> QED
    BY <1>2, <2>1, <2>3, <2>7, <2>9, GoesOn
<1>e. CASE b.m = 178
  <2> DEFINE r == M178Banks(c)
  <2>1. BoardReset(b) = Chr8(r, 0)
    BY <1>e DEF BoardReset
  <2> HIDE DEF c
  <2>2. Goes(c, r)
    BY <1>2, <1>e, M178Goes
  <2> HIDE DEF r
  <2>3. r \in Boards /\ BoardOk(r) /\ ~Still(r)
    BY <1>2, <1>e, <2>2, GoesOn DEF Still
  <2>4. Goes(r, Chr8(r, 0))
    BY <2>3, Chr8Goes
  <2> QED
    BY <1>2, <2>1, <2>2, <2>4, GoesOn
<1>f. CASE b.m = 9
  <2>1. BoardReset(b) = Mapper9Banks(c)
    BY <1>f DEF BoardReset
  <2> QED
    BY <1>2, <1>f, <2>1, Mapper9Goes
<1>g. CASE b.m = 7
  <2> DEFINE r == Prg32(c, 0)
  <2>0. Whole32(c, 0) = r
    <3>1. NPrg % 4 = 0
      BY <1>g DEF BoardOk, RegsFit, WholeOnly
    <3>2. c \in Boards
      BY <1>2
    <3> HIDE DEF c
    <3> QED
      BY <3>1, <3>2, WholeIs
  <2>1. BoardReset(b) = Single(r, FALSE)
    <3>1. BoardReset(b) = Single(Whole32(c, 0), FALSE)
      BY <1>g DEF BoardReset
    <3> HIDE DEF c, r
    <3> QED
      BY <2>0, <3>1
  <2> HIDE DEF c
  <2>2. Goes(c, r)
    BY <1>2, <1>g, Prg32Goes DEF KeepsLast
  <2> HIDE DEF r
  <2>3. r \in Boards /\ BoardOk(r)
    BY <2>2, GoesOn
  <2>4. PICK no \in BOOLEAN : ~no
    OBVIOUS
  <2>5. Single(r, FALSE) = Single(r, no)
    BY <2>4 DEF Single
  <2>6. Goes(r, Single(r, no))
    BY <2>3, MirrorGoes
  <2> QED
    BY <1>2, <2>1, <2>2, <2>5, <2>6, GoesOn
<1>h. CASE b.m \in {4, 119}
  <2>1. BoardReset(b) = Mmc3Banks(c)
    BY <1>h, ResetArms, ZenonT(60)
  <2> QED
    BY <1>2, <1>h, <2>1, Mmc3Goes
<1>i. CASE b.m \in {24, 26}
  <2> DEFINE q == <<0, 1, 0, NPrg - 1>>
             f == [i \in 1..8 |-> 0]
             r == PrgAll(c, q)
  <2>1. BoardReset(b) = ChrAll(r, f)
    BY <1>i DEF BoardReset
  <2>2. q \in [1..4 -> Int] /\ f \in [1..8 -> Int] /\ q[4] = NPrg - 1
    BY LastBank
  <2> HIDE DEF c, q, f
  <2>3. Goes(c, r)
    BY <1>2, <2>2, PrgAllGoes
  <2> HIDE DEF r
  <2>4. r \in Boards /\ BoardOk(r) /\ ~Still(r)
    BY <1>2, <1>i, <2>3, GoesOn DEF Still
  <2>5. Goes(r, ChrAll(r, f))
    BY <2>2, <2>4, ChrAllGoes
  <2> QED
    BY <1>2, <2>1, <2>3, <2>5, GoesOn
<1> QED
  BY <1>a, <1>b, <1>c, <1>d, <1>e, <1>f, <1>g, <1>h, <1>i DEF SoleTables

LEMMA OtherResets ==
    \A b \in Boards : BoardOk(b) /\ b.m \in Mappers \ (SoleTables \cup {5}) => Goes(b, BoardReset(b))
<1> SUFFICES ASSUME NEW b \in Boards, BoardOk(b), b.m \in Mappers, b.m \notin SoleTables, b.m # 5
             PROVE  Goes(b, BoardReset(b))
  OBVIOUS
<1> DEFINE g == Generic(b)
<1>1. Goes(b, g) /\ ~Still(g)
  BY GenericGoes
<1>2. g \in Boards /\ BoardOk(g) /\ g.m = b.m /\ \A x : Goes(g, x) => Goes(b, x)
  BY <1>1, GoesOn
<1>3. g.m \notin {5, 9}
  BY <1>2 DEF SoleTables
<1>4. NPrg - 2 \in Nat
  BY BoardSizes
<1>a. CASE b.m \in {11, 79, 113, 132, 87, 184, 185}
  <2>1. BoardReset(b) = Prg32(g, 0)
    BY <1>a, ResetArms, ZenonT(60)
  <2> HIDE DEF g
  <2>2. g.m \notin KeepsLast
    BY <1>2, <1>a DEF KeepsLast
  <2> QED
    BY <1>2, <2>1, <2>2, Prg32Goes
<1>b. CASE b.m \in {150, 243}
  <2>1. BoardReset(b) = SachenUpdate(g)
    BY <1>b, ResetArms, ZenonT(60)
  <2> HIDE DEF g
  <2> QED
    BY <1>2, <1>b, <2>1, UpdatesGo
<1>c. CASE b.m = 64
  <2> DEFINE n == NPrg - 2
             r == SetReg(g, 7, 1)
             s == SetReg(r, 15, n)
  <2>1. BoardReset(b) = RamboUpdate([g EXCEPT !.reg[7] = 1, !.reg[15] = n])
    BY <1>c, ResetArms, ZenonT(60)
  <2> HIDE DEF g, n
  <2>2. [g EXCEPT !.reg[7] = 1, !.reg[15] = n] = s
    BY DEF SetReg
  <2>3. Goes(g, r)
    BY <1>2, <1>3, SettersGo
  <2> HIDE DEF r
  <2>4. r \in Boards /\ BoardOk(r) /\ r.m = 64
    BY <1>2, <1>c, <2>3, GoesOn
  <2>5. Goes(r, s)
    <3>1. n \in Nat /\ 15 \in Nat
      BY <1>4 DEF n
    <3>2. r.m \notin {5, 9}
      BY <2>4
    <3> QED
      BY <2>4, <3>1, <3>2, SettersGo
  <2> HIDE DEF s
  <2>6. s \in Boards /\ BoardOk(s) /\ s.m = 64
    BY <2>4, <2>5, GoesOn
  <2>7. Goes(s, RamboUpdate(s))
    BY <2>6, UpdatesGo
  <2> QED
    BY <1>2, <2>1, <2>2, <2>3, <2>5, <2>7, GoesOn
<1>d. CASE b.m \in {95, 206}
  <2> DEFINE r == SetReg(g, 7, 1)
  <2>1. BoardReset(b) = Namco108Update(SetReg(Generic(b), 7, 1))
    <3>1. b.m = 95 => BoardReset(b) = Namco108Update(SetReg(Generic(b), 7, 1))
      BY DEF BoardReset
    <3>2. b.m = 206 => BoardReset(b) = Namco108Update(SetReg(Generic(b), 7, 1))
      BY DEF BoardReset
    <3> QED
      BY <1>d, <3>1, <3>2
  <2>a. BoardReset(b) = Namco108Update(r)
    BY <2>1
  <2> HIDE DEF g
  <2>2. Goes(g, r)
    BY <1>2, <1>3, SettersGo
  <2> HIDE DEF r
  <2>3. r \in Boards /\ BoardOk(r) /\ r.m \in {95, 206}
    BY <1>2, <1>d, <2>2, GoesOn
  <2>4. Goes(r, Namco108Update(r))
    BY <2>3, UpdatesGo
  <2> QED
    BY <1>2, <2>a, <2>2, <2>4, GoesOn
<1>e. CASE b.m = 112
  <2> DEFINE r == SetReg(g, 1, 1)
  <2>1. BoardReset(b) = NtdecUpdate(r)
    BY <1>e, ResetArms, ZenonT(60)
  <2> HIDE DEF g
  <2>2. Goes(g, r)
    BY <1>2, <1>3, SettersGo
  <2> HIDE DEF r
  <2>3. r \in Boards /\ BoardOk(r) /\ r.m = 112
    BY <1>2, <1>e, <2>2, GoesOn
  <2>4. Goes(r, NtdecUpdate(r))
    BY <2>3, UpdatesGo
  <2> QED
    BY <1>2, <2>1, <2>2, <2>4, GoesOn
<1>f. CASE b.m = 180
  <2>1. BoardReset(b) = Prg16(g, 1, 0)
    BY <1>f, ResetArms, ZenonT(60)
  <2> HIDE DEF g
  <2>2. g.m \notin KeepsLast
    BY <1>2, <1>f DEF KeepsLast
  <2> QED
    BY <1>2, <2>1, <2>2, Prg16Goes
<1>g. CASE b.m = 78
  <2> DEFINE r == SetReg(g, 15, 1)
             s == [r EXCEPT !.mir = "horizontal"]
  <2>1. BoardReset(b) = IF b.cart = "4screen" THEN s ELSE g
    BY <1>g, ResetArms, ZenonT(60)
  <2>2. BoardReset(b) \in {s, g}
    BY <2>1
  <2> HIDE DEF g
  <2>3. Goes(g, r)
    BY <1>2, <1>3, SettersGo
  <2> HIDE DEF r
  <2>4. r \in Boards /\ BoardOk(r)
    BY <2>3, GoesOn
  <2>5. Goes(r, s)
    BY <2>4, SettersGo DEF Mirrors
  <2> QED
    BY <1>1, <1>2, <2>2, <2>3, <2>5, GoesOn
<1>h. CASE b.m \in {16, 19, 23, 33, 69, 70, 71}
  <2>1. BoardReset(b) = g
    BY <1>h, ResetArms, ZenonT(60)
  <2> QED
    BY <1>1, <2>1
<1> QED
  BY <1>a, <1>b, <1>c, <1>d, <1>e, <1>f, <1>g, <1>h DEF Mappers, SoleTables

LEMMA ResetGoes ==
    \A b \in Boards : BoardOk(b) /\ b.m \in Mappers => Goes(b, BoardReset(b))
  BY SoleResets, OtherResets

----------------------------------------------------------------------------
\* A board before its first reset, and one like it whose slots show the last bank: a reset makes the same of both.
LEMMA BlankIs ==
    \A m \in Nat, cart \in Mirrors, ram \in BOOLEAN :
      LET b == Blank(m, cart, ram) IN
      /\ b \in Boards /\ b.m = m /\ b.cart = cart /\ b.ram = ram /\ TablesFit(b) /\ StillFits(b)
      /\ (\A s \in 0..7 : b.chr[s] = s) /\ b.reg[0] = 0 /\ b.reg[5] = 0 /\ b.reg[6] = 0
<1> TAKE m \in Nat, cart \in Mirrors, ram \in BOOLEAN
<1> DEFINE empty == <<>>
           nt == <<0, 0, 0, 0>>
           prg == [s \in 0..3 |-> s]
           chr == [s \in 0..7 |-> s]
           reg == [r \in 0..19 |-> 0]
           b == [m |-> m, cart |-> cart, ram |-> ram, cmd |-> 0, shift |-> empty, mir |-> cart, nt |-> nt,
                 prg |-> prg, chr |-> chr, reg |-> reg]
<1>1. empty \in Seq(Nat) /\ nt \in [1..4 -> Int] /\ prg \in Slots /\ chr \in Windows /\ reg \in [0..19 -> Nat]
  BY DEF Slots, Windows
<1>2. Blank(m, cart, ram) = b
  BY DEF Blank
<1> HIDE DEF empty, nt, prg, chr, reg
<1>3. /\ b \in Boards /\ b.m = m /\ b.cart = cart /\ b.ram = ram /\ b.nt = nt
      /\ b.prg = prg /\ b.chr = chr /\ b.reg = reg
  BY <1>1 DEF Boards
<1> HIDE DEF b
<1>4. TablesFit(b) /\ StillFits(b)
  BY <1>3 DEF TablesFit, StillFits, nt, chr
<1>5. (\A s \in 0..7 : b.chr[s] = s) /\ b.reg[0] = 0 /\ b.reg[5] = 0 /\ b.reg[6] = 0
  BY <1>3 DEF chr, reg
<1> QED
  BY <1>2, <1>3, <1>4, <1>5

LEMMA PoweredGoes ==
    \A m \in Mappers, cart \in Mirrors, ram \in BOOLEAN :
      (m = 9 => NPrg >= 16) /\ (m \in WholeOnly => NPrg % 4 = 0) =>
        LET b == Blank(m, cart, ram) r == BoardReset(b) IN SameCart(b, r) /\ BoardOk(r) /\ b.m = m
<1> SUFFICES ASSUME NEW m \in Mappers, NEW cart \in Mirrors, NEW ram \in BOOLEAN,
                    m = 9 => NPrg >= 16, m \in WholeOnly => NPrg % 4 = 0
             PROVE  LET b == Blank(m, cart, ram) r == BoardReset(b) IN SameCart(b, r) /\ BoardOk(r) /\ b.m = m
  OBVIOUS
<1> DEFINE b == Blank(m, cart, ram)
           p == [s \in 0..3 |-> NPrg - 1]
           o == [b EXCEPT !.prg = p]
<1>1. m \in Nat
  BY DEF Mappers
<1>2. /\ b \in Boards /\ b.m = m /\ b.cart = cart /\ b.ram = ram /\ TablesFit(b) /\ StillFits(b)
      /\ (\A s \in 0..7 : b.chr[s] = s) /\ b.reg[0] = 0 /\ b.reg[5] = 0 /\ b.reg[6] = 0
  BY <1>1, BlankIs
<1>3. p \in Slots /\ \A s \in 0..3 : p[s] = NPrg - 1
  BY LastBank DEF Slots
<1> HIDE DEF b, p
<1>4. /\ o \in Boards /\ SameCart(b, o) /\ KeepsRegs(b, o) /\ o.nt = b.nt /\ o.chr = b.chr /\ o.prg = p
  BY <1>2, <1>3, PrgIs
<1> HIDE DEF o
<1>5. TablesFit(b) /\ StillFits(b) /\ TablesFit(o) /\ StillFits(o)
  BY <1>2, <1>4 DEF TablesFit, StillFits, Still, SameCart
<1>6. Restartable(b) /\ Restartable(o)
  BY <1>2, <1>4, <1>5 DEF Restartable, SameCart
<1>7. BoardOk(o)
  <2>1. PrgFits(o) /\ LastFits(o)
    BY <1>3, <1>4, LastBank DEF PrgFits, LastFits
  <2>2. \A s \in 0..7 : o.chr[s] = s
    BY <1>2, <1>4
  <2>3. ChrFits(o)
    BY <2>2, BoardSizes DEF ChrFits
  <2>4. o.reg[0] = 0 /\ o.reg[5] = 0 /\ o.reg[6] = 0 /\ o.m = m
    BY <1>2, <1>4 DEF KeepsRegs, SameCart
  <2>5. RegsFit(o)
    BY <2>4 DEF RegsFit
  <2> QED
    BY <1>4, <1>5, <2>1, <2>3, <2>5 DEF BoardOk
<1>8. o.m \in Mappers /\ b.m \in Mappers
  BY <1>2, <1>4 DEF SameCart
<1>9. BoardReset(b) = BoardReset(o)
  BY <1>2, <1>4, <1>6, <1>8, ResetSame
<1>10. Goes(o, BoardReset(o))
  BY <1>4, <1>7, <1>8, ResetGoes
<1>11. SameCart(b, BoardReset(b)) /\ BoardOk(BoardReset(b)) /\ b.m = m
  BY <1>2, <1>4, <1>9, <1>10 DEF Goes, SameCart
<1> QED
  BY <1>11 DEF b

\* What a board whose cartridge is in keeps: its banks are right, and until a write it is as a power on leaves it.
BoardInv ==
  \/ board = Blank(0, "vertical", FALSE)
  \/ /\ board.m \in Mappers /\ BoardOk(board)
     /\ fresh => board = BoardReset(Blank(board.m, board.cart, board.ram))

LEMMA BoardIsReset ==
    \A b \in Boards :
      BoardOk(b) /\ b.m \in Mappers =>
        LET r == BoardReset(b) IN Goes(b, r) /\ r = BoardReset(Blank(r.m, r.cart, r.ram))
<1> SUFFICES ASSUME NEW b \in Boards, BoardOk(b), b.m \in Mappers
             PROVE  LET r == BoardReset(b) IN Goes(b, r) /\ r = BoardReset(Blank(r.m, r.cart, r.ram))
  OBVIOUS
<1> DEFINE r == BoardReset(b)
           o == Blank(b.m, b.cart, b.ram)
<1>1. Goes(b, r)
  BY ResetGoes
<1>2. b.m \in Nat /\ b.cart \in Mirrors /\ b.ram \in BOOLEAN
  BY DEF Boards
<1>3. o \in Boards /\ o.m = b.m /\ o.cart = b.cart /\ o.ram = b.ram /\ TablesFit(o) /\ StillFits(o)
  BY <1>2, BlankIs
<1> HIDE DEF o
<1>4. TablesFit(o) /\ StillFits(o) /\ SameCart(b, o)
  BY <1>3 DEF SameCart
<1>5. TablesFit(b) /\ StillFits(b) /\ (b.m = 9 => NPrg >= 16) /\ (b.m \in WholeOnly => NPrg % 4 = 0)
  BY DEF BoardOk, RegsFit
<1>6. Restartable(b) /\ Restartable(o)
  BY <1>3, <1>4, <1>5 DEF Restartable
<1>7. r = BoardReset(o)
  BY <1>3, <1>4, <1>6, ResetSame
<1> HIDE DEF r
<1>8. Blank(r.m, r.cart, r.ram) = o
  BY <1>1 DEF o, Goes, SameCart
<1> QED
  BY <1>1, <1>7, <1>8 DEF r

LEMMA BoardStep ==
    ASSUME BoardInv, [BoardNext]_boardVars
    PROVE  BoardInv'
<1>0. board.m = 0 => board = Blank(0, "vertical", FALSE)
  BY DEF BoardInv, Mappers
<1>1. ASSUME NEW m \in Mappers, NEW cart \in {"vertical", "4screen"}, NEW ram \in BOOLEAN, BoardPowerOn(m, cart, ram)
      PROVE  BoardInv'
  <2> DEFINE b == Blank(m, cart, ram)
             r == BoardReset(b)
  <2>1. board' = r /\ (m = 9 => NPrg >= 16) /\ (m \in WholeOnly => NPrg % 4 = 0)
    BY <1>1 DEF BoardPowerOn
  <2>2. cart \in Mirrors /\ m \in Nat
    BY DEF Mirrors, Mappers
  <2>3. SameCart(b, r) /\ BoardOk(r)
    BY <2>1, <2>2, PoweredGoes
  <2>4. b.m = m /\ b.cart = cart /\ b.ram = ram
    BY <2>2, BlankIs
  <2> HIDE DEF r
  <2>5. r.m = m /\ r.cart = cart /\ r.ram = ram
    BY <2>3, <2>4 DEF SameCart
  <2>6. r = BoardReset(Blank(r.m, r.cart, r.ram))
    BY <2>5 DEF r
  <2>7. /\ board'.m \in Mappers /\ BoardOk(board')
        /\ board' = BoardReset(Blank(board'.m, board'.cart, board'.ram))
    BY <2>1, <2>3, <2>5, <2>6
  <2> QED
    BY <2>7 DEF BoardInv, BoardOk, PrgFits, ChrFits, LastFits, TablesFit, StillFits, Still, RegsFit
<1>2. ASSUME NEW r, Goes(board, r), board.m \in Mappers, board' = r, fresh' = FALSE
      PROVE  BoardInv'
  <2>1. board'.m \in Mappers /\ BoardOk(board') /\ ~fresh'
    BY <1>2 DEF Goes, SameCart
  <2> QED
    BY <2>1 DEF BoardInv, BoardOk, PrgFits, ChrFits, LastFits, TablesFit, StillFits, Still, RegsFit
<1>3. board.m # 0 => board.m \in Mappers /\ BoardOk(board) /\ board \in Boards
  <2>1. Blank(0, "vertical", FALSE).m = 0
    BY DEF Blank
  <2> QED
    BY <2>1 DEF BoardInv, BoardOk
<1>4. ASSUME NEW a \in Ports(board.m), NEW v \in BoardVals, BoardWrite(a, v)
      PROVE  BoardInv'
  <2>1. board.m # 0 /\ board' = Written(board, a, v) /\ fresh' = FALSE
    BY <1>4 DEF BoardWrite
  <2>2. v \in Nat
    BY BoardSizes
  <2>3. Goes(board, Written(board, a, v))
    BY <1>3, <2>1, <2>2, WritesGo
  <2> QED
    BY <1>2, <1>3, <2>1, <2>3
<1>5. ASSUME NEW h \in 0..1, NEW tile \in 0..1, BoardFetch(h, tile)
      PROVE  BoardInv'
  <2> DEFINE r == Mapper9Banks(SetReg(board, 5 + h, tile))
  <2>1. board.m = 9 /\ board' = r /\ fresh' = FALSE
    BY <1>5 DEF BoardFetch
  <2>2. Goes(board, r)
    BY <1>3, <2>1, FetchGoes
  <2> HIDE DEF r
  <2>3. board.m \in Mappers
    BY <1>3, <2>1
  <2> QED
    BY <1>2, <2>1, <2>2, <2>3
<1>6. CASE BoardResets
  <2> DEFINE r == BoardReset(board)
  <2>1. board.m # 0 /\ board' = r
    BY <1>6 DEF BoardResets
  <2>2. Goes(board, r) /\ r = BoardReset(Blank(r.m, r.cart, r.ram))
    BY <1>3, <2>1, BoardIsReset
  <2> HIDE DEF r
  <2>3. /\ board'.m \in Mappers /\ BoardOk(board')
        /\ board' = BoardReset(Blank(board'.m, board'.cart, board'.ram))
    BY <1>3, <2>1, <2>2 DEF Goes, SameCart
  <2> QED
    BY <2>3 DEF BoardInv, BoardOk, PrgFits, ChrFits, LastFits, TablesFit, StillFits, Still, RegsFit
<1>7. CASE UNCHANGED boardVars
  <2>1. board' = board /\ fresh' = fresh
    BY <1>7 DEF boardVars
  <2> QED
    BY <2>1 DEF BoardInv, BoardOk, PrgFits, ChrFits, LastFits, TablesFit, StillFits, Still, RegsFit
<1> QED
  BY <1>1, <1>4, <1>5, <1>6, <1>7 DEF BoardNext

LEMMA BoardShows ==
    BoardInv => BoardMapsRom
<1> SUFFICES ASSUME BoardInv PROVE BoardMapsRom
  OBVIOUS
<1>1. CASE board = Blank(0, "vertical", FALSE)
  <2> DEFINE b == Blank(0, "vertical", FALSE)
  <2>1. b.m = 0 /\ \A s \in 0..7 : b.chr[s] = s
    BY DEF Blank
  <2> HIDE DEF b
  <2>2. board.m = 0 /\ \A s \in 0..7 : board.chr[s] = s
    BY <1>1, <2>1 DEF b
  <2>3. board.m \notin KeepsLast
    BY <2>2 DEF KeepsLast
  <2> QED
    BY <2>2, <2>3, BoardSizes DEF BoardMapsRom
<1>2. CASE /\ board.m \in Mappers /\ BoardOk(board)
           /\ fresh => board = BoardReset(Blank(board.m, board.cart, board.ram))
  <2>1. PrgFits(board) /\ ChrFits(board) /\ LastFits(board) /\ board \in Boards
    BY <1>2 DEF BoardOk
  <2>2. ASSUME NEW s \in 0..7, NEW spr \in BOOLEAN, board.m = 5 PROVE Mmc5Chr(board, s, spr) \in 0..(NChr - 1)
    <3>1. board.reg[6] \in 0..3
      BY <1>2, <2>2 DEF BoardOk, RegsFit
    <3> DEFINE r == board.reg
               bankOf(k, sub) == (256 * r[7] + r[8 + k] + sub) % NChr
    <3>2. ASSUME NEW k \in 0..11, NEW sub \in Int PROVE bankOf(k, sub) \in 0..(NChr - 1)
      <4>1. 8 + k \in 0..19 /\ 7 \in 0..19
        OBVIOUS
      <4>2. PICK i \in 0..19 : i = 8 + k
        BY <4>1
      <4>3. r[i] \in Nat /\ r[7] \in Nat
        BY <2>1, <4>1, RegsNat
      <4> DEFINE n == 256 * r[7] + r[i] + sub
      <4>4. n \in Int
        BY <4>3
      <4> HIDE DEF n
      <4>5. n % NChr \in 0..(NChr - 1)
        BY <4>4, LastBank, Remainders
      <4> QED
        BY <4>2, <4>5 DEF n
    <3>3. PICK k \in 0..11, sub \in Int : Mmc5Chr(board, s, spr) = bankOf(k, sub)
      <4> DEFINE n == s % 4
      <4>0. n \in 0..3 /\ (n \div 2) * 2 + 9 \in 0..11 /\ (n % 2) \in Int /\ 8 + n \in 0..11
            /\ (s \div 2) * 2 + 1 \in 0..11 /\ (s % 2) \in Int /\ s \in 0..11
        OBVIOUS
      <4> HIDE DEF bankOf, r, n
      <4>1. CASE spr = TRUE
        <5>1. \/ Mmc5Chr(board, s, spr) = bankOf(7, s) \/ Mmc5Chr(board, s, spr) = bankOf(7, n) \/ Mmc5Chr(board, s, spr) = bankOf(3, n)
              \/ Mmc5Chr(board, s, spr) = bankOf((s \div 2) * 2 + 1, s % 2) \/ Mmc5Chr(board, s, spr) = bankOf(s, 0)
          BY <3>1, <4>1 DEF Mmc5Chr, bankOf, r, n
        <5> QED
          BY <4>0, <5>1
      <4>2. CASE spr = FALSE
        <5>1. \/ Mmc5Chr(board, s, spr) = bankOf(11, n)
              \/ Mmc5Chr(board, s, spr) = bankOf((n \div 2) * 2 + 9, n % 2) \/ Mmc5Chr(board, s, spr) = bankOf(8 + n, 0)
          BY <3>1, <4>2 DEF Mmc5Chr, bankOf, r, n
        <5> QED
          BY <4>0, <5>1
      <4> QED
        BY <4>1, <4>2
    <3> HIDE DEF bankOf
    <3> QED
      BY <3>2, <3>3
  <2>3. board.m # 0
    BY <1>2 DEF Mappers
  <2> QED
    BY <1>2, <2>1, <2>2, <2>3 DEF BoardMapsRom, PrgFits, ChrFits, LastFits
<1> QED
  BY <1>1, <1>2 DEF BoardInv

\* Whatever a program writes to its cartridge, a slot shows a bank the cartridge has, the boards that promise their
\* last bank to the vectors keep it, and a reset finds the board as a power on leaves it (nes_board_write and
\* nes_board_reset).  For PRG in units of 16K and CHR in units of 8K; a board of WholeOnly has
\* whole units of 32K and mapper 9 has 128K of PRG, since with less the code maps banks that are not there.
THEOREM BoardsMapRom == BoardSpec => []BoardMapsRom
<1>1. BoardInit => BoardInv
  BY DEF BoardInit, BoardInv
<1>2. BoardInv /\ [BoardNext]_boardVars => BoardInv'
  BY BoardStep
<1> QED
  BY <1>1, <1>2, BoardShows, PTL DEF BoardSpec
=============================================================================
