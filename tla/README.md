# GEMU: a verification development

GEMU emulates some fifty machines (6502, Z80, 1802, CHIP-8, 8086 and Itanium
families) in about 92,000 lines of C.  This directory holds TLA+ models of the
parts whose correctness depends on *sequences* of events (threads, commands,
port accesses, media changes), TLC configurations that check them on small
instances, and TLAPS proofs of the main results for every size.

`PROJECT.json` lists components, runs, mutants, the map from definitions to
source lines, findings, hazards and theorems.  `tlc -workers 2 -config X.cfg M`
runs a configuration, `tlapm M.tla` checks a proof module.

## 1. Inventory

### The system's parts

| part | source | state it keeps | operations | interacts with |
|---|---|---|---|---|
| monitor queue and transports | core/src/monitor.c | ring of 32 entries, done_cond, client, capture target, quit_signal | submit, wait, poll, finish, reply, stop; signals | reader thread, emulator thread, menus, guest shutdown |
| GMP session | core/src/monitor_qmp.c | negotiation flag, request id | JSON commands | queue |
| text commands, breakpoints | core/src/monitor_cmds.c | bp_entries, summaries, resume skip | break, watch, delete, checks before instructions and accesses | run loops of the machines |
| removable media | core/src/monitor_block.c | nodes, trays, file names | blockdev-*, change, eject | devices' change/eject callbacks |
| drives | core/src/drive.c | table, image, write protection, overlay | -drive, claim, read, write, insert, eject | machines, monitor |
| VNC server | core/src/vnc.c, gemu_display_vnc.c | clients, frame, requests, input queue, held keys | accept, handshake, reader, writer, publish, drain, shutdown | accept thread, two threads per client, emulator thread |
| displays and menus | core/src/gemu_display*.c, menu.c, video_*.c | key holds, menu tree | events, presentation | monitor, machines |
| IBM 5150 | machine/x86/machine_ibm5150.c, device/{i8259,upd765,ins8250,ibm_hdc,i8237,i8253,i8255}.c | registers of each chip, keyboard queue | port reads and writes, ticks, lines | 8086, drives, display |
| other machines and chips | hardware/ | registers, memory maps | bus accesses, ticks | CPU cores, audio, video |
| CPU cores | cpu/ | registers | instructions, interrupts | machines |
| audio, crt, vga | audio/, crt/, vga/ | sample and pixel buffers | rendering | displays |
| start-up | src/, core/src/args.c, mdl/ | options, ROM database | parsing, loading | everything |

### What is hard

* **Threads.**  The monitor's reader thread and the emulator thread share the
  ring; a request may time out while it runs; stop closes what the reader uses.
  Each VNC client has two threads, and the accept and emulator threads reach
  into its state.
* **Failure half way.**  An image that cannot be opened after the old one was
  closed; a copy-on-write chunk whose copy fails; an eject refused.
* **Order.**  Port accesses in any order, ticks between any two of them,
  interrupts taken or not; frames published between a tile comparison and the
  sending of its result.
* **Limits.**  Rings, tables and queues that are full; a count of 0 that means
  256; transfers over the edge of a track.
* **Liveness.**  Waiting readers, sleeping writers, shutdown.

The list of hazards at their lines, with the properties that answer each one,
is `hazards` in PROJECT.json.

### What makes each part correct

* queue: entries run once and in order; a reply "ok" means the command ran and
  carries its own output; nobody waits for ever; nothing is used after stop.
* media: a node is in at most one drive and the two agree; what the monitor
  says is in a drive is in it.
* drives: the guest reads back what it wrote; protected images never change;
  every drive has its own place and is claimed or reported.
* VNC: a client ends up showing the newest frame; no freed client is reached;
  no key sticks; shutdown ends.
* breakpoints: the cheap summaries agree with the table; a paused machine runs
  nothing; a machine resumed from a breakpoint makes progress and does not
  overrun another one.
* 5150: every line has the level its device asks for; no request is lost;
  handlers nest; transfers move exactly what was asked; keys agree.
* processors: an interrupt is taken once, at the right boundary and with what
  it interrupts still restartable; translations and speculative results are
  never used after what they were taken from has changed; spilled registers
  come back.
* i2000: a byte read is the named device's; a drive asks only for data it has;
  what was stored survives a crash.
* NES: a sound chip that is brought up to date only when somebody looks answers
  like one that runs all the time; boards map the ROM they hold; disks keep what was
  written.
* run loops and memory views: a machine runs what was asked and nothing else;
  the monitor sees the memory the processor sees.

## 2. Modules

| module | models | state and actions |
|---|---|---|
| MonitorQueue | monitor.c | ring (`queue`, `head`, `tail`), reader program counter `rpc`, emulator program counter; one action per section that holds `mon->lock` and one per step between them |
| MonitorBlock | monitor_block.c, change/eject of monitor_cmds.c | node table, trays, media; one action per command (they run on the emulator thread, one at a time) |
| DriveImage | gemu_drive_read/write, open_medium, insert, eject | cells, chunks copied, overlay, configuration; one action per call, with the calls' failure points |
| DriveTable | gemu_drive_add, gemu_drive_get, defaults, attach | table of drives; one action per option, claim and default |
| Breakpoints | bp table, check_exec/read/write, mos_generic_run | table, summaries, skip, run loop over an arbitrary guest program |
| RunLoops | the run loops of every machine | what a loop runs between two polls, under pause, step, quit, breakpoints, watchpoints, faults and window events; one kind per shape of loop |
| MonitorView | the peek/poke functions of every machine beside its bus | for each machine build the regions of its bus and of the monitor's view, at every edge of every decoder and in every state of the latches that switch memory |
| Vt100 | device/vt100.c | parser, cursor, scrolling region, modes, key ring, dirty rows, window; one action per byte, key, focus change and poll |
| VncUpdates | publication, requests, writer_main | one client's request flags, last picture sent, picture shown |
| VncClients | accept, reader, writer, disconnect, shutdown, input | thread program counters per client, table, event queue, held keys |
| I8259, Upd765, Ins8250, IbmHdc | the chips of the 5150 | one record per chip; one action per register access and tick |
| Ibm5150 | the machine that composes them | keyboard, lines, reset; `fitted` selects which device works against the controller |
| Ia64Rse | register stack engine of merced.c | frames, clean and dirty partitions, backing store, spills and reloads, interruptions |
| Ia64Step | interrupt recognition and return of merced.c | PSR bits, IRR, in-service stack, TPR, EOI, rfi |
| Ia64Mmu | translation registers and caches | TRs, TCs, purges, region registers, the fetch and data lookups |
| Ia64Spec | NaT bits and the ALAT | advanced and speculative loads, checks, stores, calls, rotation |
| Ia32 | the IA-32 instructions merced.c runs | accesses in order, faults and restarts |
| Mos6502, Z80, I8086 | interrupt recognition of the cores | bus cycles and lines; shadows; repeating instructions |
| Cdp1802 | cdp1802.c and cdp1861.c together | fetch, execute, DMA, interrupt against the chip's display lines |
| I2kInput, I2kDrives, I2kFlash | parts of machine_i2000.c | 8042 with keyboard and mouse; ATAPI and ATA drives of a channel; flash, variables and their files |
| NesBoards, NesIrq | nes_boards.c | bank registers and windows; interrupt counters |
| NesApu, NesEager, NesBus | apu2a03.c and the bus of machine_nes.c | the sound chip run late, the same chip run on every cycle, and the bus with both DMAs |
| NesVideo, NesSprites | rp2c02.c | vertical blank, NMI and latches of a chip that runs up to each access of the processor; sprite evaluation dot by dot |
| NesDisk | device/fds.c and its use in machine_nes.c | disk drive, side changes, writes, saves with crashes |

Five `MC*` modules instantiate them: MCMonitorTables (media, one drive of every
kind, the table of options, breakpoints), MCHost (monitor queue under fairness,
run loops, memory views, terminal), MCVnc (both halves of the server),
MCProcessors, MCMachines; NesBus is also checked by itself, with
MCNesExact.cfg, for a finding.  Ia64Step
extends Ia64Rse, and I8086 extends Z80, to state one property of both.  The parts
that one MC module holds share no variable: each behaviour chooses one of them at
its start and leaves the others at rest, so that a run is the sum of its parts
and not their product.

Some definitions are preceded by a faulty variant marked *mutant*: with that
variant in place of the definition TLC finds the property violated, which shows
that the property can tell.

Conventions: definitions keep the source's names where TLA+ allows; history
variables, which the code does not have, are marked *history*; numbers become
sets or small ranges; text, pixels and sector contents are model values or are
left out.

### Modelling decisions worth knowing

* A section under a lock is one action; between two sections any other thread
  may run.  This is what the mutexes give and no more.
* Time is not counted where the code does not count it.  A wait may end at any
  moment (`Slow` in MonitorQueue says whether time limits may run out; the
  liveness run sets it to FALSE so that nothing is saved by a time limit).
  Where the code counts cycles (sound chip, video chip, cores) so does the
  model, from a start close to the interesting ones.
* A file may fail to open at each attempt, independently.
* Breakpoints uses the generic 6502 loop; RunLoops has the others.
* In Ibm5150 one device at a time works against the controller: the devices
  share no state but their lines, and the behaviours of `fitted = "pic"` move
  three lines freely while the guest programs the controller in every way.  In
  the others the controller is set up as the BIOS does it, edge-triggered.
* IbmHdc and the others clear what a finished command leaves behind where
  nothing reads it before it is set again; the module says so.
* The guest of Upd765 either always senses the interrupt status after a seek
  or reset (`polite`), as the BIOS does, or does as it likes.
* In the processor cores a program is a choice: at each boundary the next
  instruction is any of its kinds.  Results of arithmetic are left out.
* Ia64Rse takes the long jump out of a fault only when it unwinds a frame; NaT
  bits of spilled registers are not followed there (they are in Ia64Spec).

### A refinement

NesBus runs the sound chip late: it is brought up to date at accesses and at a
deadline computed from its state.  NesEager is the same chip run on every
cycle.  `RunsAlong` says that NesBus implements it under the mapping that
advances the late chip to the present; the history variable `along` tells which
cycles have been shown to the eager chip.  One exception is written into the
mapping and is a finding of its own (nes_exact): a sample byte that arrives
while the chip lags.

## 3. Runs

| run | checks | result and bounds |
|---|---|---|
| queue | QueueConsistent, CommandsObeyed, ReaderOutlived | holds; a ring of three slots (two usable), three entries, all transports, both platforms, time limits running out: full and wrapped rings both happen |
| host | ThreadsEnd, RunsAsAsked, MonitorSeesBus, TerminalSound | holds; queue under fairness with a ring of two and time limits off; loops over two addresses, frames of two instructions, counts up to two; all machine builds at all decoder edges; a terminal of three lines by two columns, two strings and keys |
| monitor_tables | NodeLinked, ReadBack, DrivesPlaced, StopsOncePerVisit | holds; a floppy drive, a slot and a fixed disk, two nodes, two files; three cells in chunks of two (a partial last chunk, a write across chunks); up to three options, IDE with two units per bus and diskettes without a limit; three addresses, a table of two, four ids |
| refused_del | RefusedNodeIsInDrive | **violated**: see findings |
| copy_fault | ReadBack | **violated** when a chunk copy may fail: see findings |
| vnc | ShowsCurrentFrame, NoUseAfterFree, NothingSticks, RequestServed, SessionsEnd | holds; two tiles, two colours, two sizes, three frames; two clients that may come back, one key, a queue of two, exclusive sessions and a password |
| bp_resume | RunningStops | **violated**: see findings |
| pc | LinesDriven, InterruptsInOrder, HdcTransfersAll, KeysArrive, FdcFreshEdge | holds; lines 0, 1, 4, 5, 6; a drive of 2 x 2 x 2 sectors initialised to as many or fewer cylinders and to as many, fewer or more heads; two keys, a queue of three |
| processors | SpilledCurrent, EoiEndsLastTaken, TranslationsCurrent, SpeculationIsSound, RfiReturns, RestartsPrecisely, InterruptsOnTime, ProgramsUnaware, DisplayInStep | holds; register stack 7 steps, interrupts 8, translations 5, speculation 3, or 5 of the steps that touch the ALAT, IA-32 13; Z80 programs of 4 with blocks and nesting of 3, 8086 programs of 4; 7 display lines |
| ia32_precise | FaultsArePrecise | **violated**: see findings |
| machines | SourceKept, RequestedDataIsThere, SavedOrKnown, BoardMapsRom, CountersKeepTime, DmaDelivers, PictureKeepsTime, SpritesPicked, DiskRemembers, RunsAlong | holds; input 8 steps, drives 6, flash 5, boards 4 (11 writes for the serial register of MMC1), counters 9, bus 9 cycles, video 62 and sprites 42 ticks, an access counting for 20, disk 6 |
| nes_exact | RunsExactly | **violated**: see findings |

Merged properties keep their parts as named definitions: CommandsObeyed is
OkMeansRun, StopContEffective and OwnOutput; DrivesPlaced is PositionsUnique,
NextFreeUnit, AllClaimed and OwnEntry; StopsOncePerVisit is ResumeRuns and
OnePass; InterruptsInOrder is NestedByPriority and NoLostInterrupt; KeysArrive
is KeysAgree and ModifiersFirst; RunsAsAsked is NothingUnasked and StepsAll.

Types are checked by proof (section 4) where a proof exists, and documented by
the TypeOK of the module elsewhere.  The bounds are the least at which the
interesting cases happen: two of each thing that can be confused with another,
one more entry than fits, one sector more than a track, one display line more
than it takes for the counters to wrap.

### Fairness

* MonitorQueue (run host): weak fairness of the emulator thread and of the
  reader thread (the operating system schedules both), and strong fairness of
  the end of a chunk of input, since a client cannot make one `recv` return for
  ever.  Nothing is assumed of clients, signals, menus or the guest.
* VncUpdates: weak fairness of the writer thread's own steps.  Nothing is
  assumed of a send: `sendall` (vnc.c:239) has no time limit and blocks for as
  long as the client does not read.  RequestServed therefore promises no answer
  while an answer before it is being sent.
* VncClients: weak fairness of the server's own threads.  A peer need not send
  or read; `send` may block while the client is connected and returns when its
  socket is shut down.

### Findings

1. **refused_del** (monitor_block.c:192).  A change that fails after the drive
   closed its old medium leaves the node attached; `blockdev-del` then refuses
   a node that is in no drive, against docs/monitor.md:39.
2. **copy_fault** (drive.c:161).  When the read that fills a fresh overlay
   chunk fails, the write fails but the zeroed chunk stays, and cells nobody
   wrote read as zeroes from then on.
3. **bp_resume** (monitor_cmds.c:839).  The skip that lets a resumed machine
   run the instruction it was stopped on outlives the breakpoint when no exec
   breakpoint is left; a breakpoint set there later is missed once.
4. **ia32_precise** (merced.c).  An IA-32 instruction of several accesses that
   faults in the middle runs again over what it had already changed.
5. **nes_exact** (machine_nes.c:1392).  A sample byte fetched while the sound
   chip lags is given to the chip of some cycles before; the comment at line
   1306 promises exactness to the cycle.

### Observations without a run

Monitor and displays
* A guest shutdown, and `quit` on the console, are dropped when the ring is
  full (monitor.c:634, 486).
* `SetPixelFormat` marks a full update but does not wake the writer
  (vnc.c:608); the next frame does.
* The VNC writer ends when it cannot allocate a frame copy while its client
  stays connected (vnc.c:543).
* generic_ia64's loop ignores `-no-shutdown` (ia64_setup.c:265 sets a field
  nobody reads) although args.c:56 offers it.
* Magicfly, 5clown, atari400, um6578 and ibm5150 never look for watchpoints;
  chip8, the 1802 machines and tvgame6 never look for breakpoints.  tvgame6
  steps one turn whatever the count; destroyer's step counts machine cycles.
* pecom32, studio2, the chip8 bench and ibm5150 go on draining commands after
  `quit`.
* A pending `frame n` or `scanline n` of the a2600 survives another stop.
* With RAM reaching 80110000h the monitor of generic_ia64 reads and pokes RAM
  that the bus hides under device windows; i2000 pokes under an option ROM go
  to RAM; CDP1869 pokes during display are reported done and dropped
  (docs/monitor.md:135, monitor.h:108).
* The check for a drive id given twice compares only with the names that exist
  by then, and exactly (drive.c): an id may be a later drive's default name or
  differ in capitals only, and find_media, which ignores case, then finds the
  first of the two.
* A key pressed while a VNC client already holds 256 is not noted in `c->held`
  and so is not released when the client leaves.
* Terminal: ED erases to the end of the scrolling region, not of the screen;
  DL below the region clears the region's last line; CUP in origin mode is not
  clamped to the region and setting DECOM does not home the cursor, so a report
  can name a line below 1; a key sequence is torn when the 256-byte ring fills.

IBM 5150
* A scan code that does not fit in `kbq` is dropped although `key_down` has
  been updated (machine_ibm5150.c:547); the guest may never see a release.
* `dma_run` of the fixed disk does not test the DMA enable that ibm_hdc.h
  documents (mask bit 0).
* ICW1 in edge mode forgets requests of lines that are high; the line must
  fall and rise again, as on the chip.

Processors
* `br.ctop` and `br.wtop` rotate registers and leave their ALAT entries behind,
  although the comment at merced.c:2449 says rotation drops them; invala
  leaves the mask.
* Instructions that look at no NaT: check loads, semaphores and loadrs
  (merced.c:2834-2910, 3890), moves to and from branch registers and predicates
  (5289-5330).  A deferred value goes through them unmarked.
* 6502: BRK takes nine cycles instead of seven.  Z80: mode 0 always takes RST
  38h; EI's shadow is lost with an NMI in between; no board drives `nmi_line`.
  8086: a single-step trap with HLT.  CDP1802: a request with IE = 0 is dropped;
  a DMA after an instruction of three cycles spills one cycle.

i2000 and NES
* The comment at machine_i2000.c:1706 on mixing keyboard and mouse bytes does
  not describe the code below it; `ata_data_is_write` stays set after a command.
* The comment at machine_i2000.c:4334 says that the monitor's `mousemove` waits
  for what the polling path waits for; it does not look at the keyboard's byte
  and queue (5431), so its packet can come before a keyboard byte that the
  status has announced.  `injected` (*history* in I2kInput) marks that case.
* i2000_reset (machine_i2000.c:5284) clears the whole record from `int10_req`
  on: `nvram_dirty` and `nvram_path` are forgotten, and what is programmed
  before or after a reset is not saved; the pointer to the high memory is lost;
  an ATAPI drive keeps its request and forgets where its phase ends.
* NES: VRC4's prescaler differs from the comment at nes_boards.c:77; MMC5's
  interrupt line (`cart_irq`) survives a reset that clears its pending flag
  (machine_nes.c:2218).  With one 16K bank of PRG the boards 1, 5, 7 and 66
  read past the ROM (522, 697, 1846, 1879).
* Disk system: any register access also ticks the timers; the save file is
  named by the base name only; a torn save is read over the image; a save whose
  fclose fails (fds.c:145) counts as saved.

## 4. Proofs

TLC checks small instances; the theorems below hold for every value of the
constants that the modules' assumptions allow.  They are proved by TLAPS (SMT,
Zenon, LS4) in six modules.  Nothing is assumed but the named ASSUMEs of the
component modules, which TLC evaluates in the runs and which the code's
constants satisfy (`ApuSizes`, for instance, wants half periods of three or
more cycles; the shortest the chip has is 27).

All invariance proofs have one shape.  The property is not inductive as it
stands, so it is proved from a larger invariant that says what the code keeps
between steps; that invariant was first checked by TLC.

**MonitorQueueProofs** (MonitorQueue, RunLoops, Vt100)
* *TypeCorrect*, *QueueCorrect*, *RunsInOrder*: from `QueueInv`.  The numbers
  in the ring are consecutive from the head on, the numbers in the ring and the
  entry in the emulator's hands add up to those given out, and an entry is in
  hand exactly between taking and finishing it.
* *ClientsObeyed*: a command answered OK ran, `stop` and `cont` take effect by
  their answer, every answer goes to its own client.  From `AnswerInv`: a
  waiting reader's number is in the ring, in hand or done (`Linked`), the
  capture buffer belongs to the entry in hand or to the request that waits
  (`CaptureInv`, `BufferKept`), and an OK means the entry was dispatched.
* *ReadersOutlived*: from `OutlivedInv`, which relates the reader's position
  to what has been announced and cancelled.
* *RunsAllowed* (RunsAsAsked): from `LoopInv`: at each point of a run loop the
  machine may only do what it is `Allowed`, given what was asked and hit since;
  the three loops that the property excuses are the findings' loops.  It
  assumes LoopSizes.
* *TerminalKept*: from `TermInv`.  `Works(t, u)` says that a step from t to u
  keeps cursor, region and parameters in range and marks every cell whose text
  it changes; it is transitive, every operation of the terminal is shown to be
  one, and vt100_write is a composition of them.

**TablesProofs** (MonitorBlock, Breakpoints, DriveImage, DriveTable)
* *NodesLinked*, *MediaInOnePlace*, *FilesCurrent*: from `MediumInv` (a drive
  and the node in it name each other; a medium is in one tray).
* *TableCorrect*, *FlagsAgree*, *PausedIsStill*, *ResumedRuns*, *AtMostOnePass*,
  *StopsOnce*: from `SkipInv`, that a pending skip is for the address the
  machine is stopped at and is gone after one instruction.
* *ImageTyped*, *ReadsBack*, *ImagesUntouched*: every chunk is either shared
  with the base or holds what was written.  ReadsBack needs that reading the
  base does not fail while a chunk is copied: with that fault it is false
  (finding 2).
* *DrivesInPlace*: from `TableInv`: entries are placed as soon as they are
  entered, in the order options, claims, defaults.

**DisplayProofs** (VncUpdates, VncClients, NesVideo, NesSprites)
* *UpdatesTyped*, *ClientShowsFrame*, *LastHasSize*: tile by tile, what the
  client shows is the frame last sent to it, and what differs from the current
  frame is still to be sent.
* *FreedIsUnreachable*: a client is freed only when it is out of the list and
  none of its threads can still reach it.
* *KeysReleased*: from `StickInv`: a key that the display will hold when it has
  seen the whole queue is held by some client.
* *PictureTimely* (PictureKeepsTime): from `VideoInv`, which gives the place of
  the beam for each point of the program: where in the frame the blank's flag,
  the pending and the taken interrupt can stand, and, in a steady picture, which
  column the pipe holds and which line and column `v` demands.  That the next
  column and the next line follow from the chip's wrapping additions is
  arithmetic of remainders (`AtNextColumn`, `OnNextLine`).  It assumes
  VideoSizes.
* *SpritesFound* (SpritesPicked): from `SpriteInv`: after d pairs of dots the
  search is `Halfway`, at the byte b of sprite i with d = i + 3 found + b, or it
  is `Complete`; what it has copied is the sprites before i that reach the
  line, in their order, and is not written over (`CopiedKept`).  A copied
  sprite takes three pairs more than one passed over, so Sprites + 3 PerLine
  pairs are enough, which SpriteSizes assumes of SearchSteps (64 + 24 of the
  chip's 96).

**ChipProofs** (Ibm5150 with I8259, Upd765, Ins8250, IbmHdc; Cdp1802, Mos6502,
Z80, I8086)
* *PcSound*: `PcInv`, the conjunction of an invariant for each chip and
  `Wired`, that each line has the level its device asks for.
* *HandlersNest* (InterruptsInOrder), *LinesFollow* (LinesDriven),
  *SectorsMoved* (HdcTransfersAll: the position is the start plus what has been
  moved, the count asked is what has been moved plus what is left),
  *EdgesFresh* (FdcFreshEdge: a raised interrupt has a result nobody has read,
  or a status that a polite guest reads before the next command).
* *KeysReachGuest* (KeysArrive: KeysAgree and ModifiersFirst): from `KeysInv`:
  the port is empty or holds what the guest has not read, and the guest's keys
  after port and queue are those that are down.  "The last code that tells of a
  key counts" is stated with quantifiers, so that reading the front and queueing
  at the back are facts about concatenation (`GotThen`, `OrderedThen`) and need
  no induction.  It assumes KeySizes (a code has seven bits).
* *DisplayKept*: the cycles left of an instruction bound when a request of the
  display is answered.
* *InterruptsTaken*: a sequence's steps are known by their distance from its
  end; the two samples are the lines of the last two cycles with the I flag of
  that time; an NMI that has waited one boundary was seen in every cycle since.
* *Unaware* (ProgramsUnaware), without assumptions.  `Z80Inv`: under NMIs alone
  IFF2 is what the main program asked for, the frame of an INT means that it
  asked, outside NMI handlers IFF1 and IFF2 agree.  `X86Inv`: half an MOV SS has
  its shadow, is of the main program and running; every frame is whole; the main
  program's frame is as it was pushed; as many traps are due as were taken.

**MercedProofs** (Ia64Rse, Ia64Step, Ia64Spec, Ia64Mmu, Ia32)
* *StacksKept*, *SpillsCurrent* (SpilledCurrent), *RfiIsTransparent*
  (RfiTransparent) and, with *RfiGoesBack* (RfiResumes), *RfiReturnsWhole*
  (RfiReturns, in Ia64Step): from `RseInv`.  That each context has its words in memory is
  not inductive by itself, since a handler stores into the same memory: besides
  `Homed`, each interrupted context is tied to the running one and to those it
  interrupted.  `Link`: both count on the same axis, or the running one's first
  free word is above all the other's (a word's place on an axis is `Shift`, the
  rank of the anchor's address without the collection words, less its register).
  `Carries`: the running context has the other's registers, unchanged.
  `RseModes`: either all contexts are on the program's backing store, which has
  drifted by at most RseDepth in a step, or one handler has set it aside and the
  handlers above run on the kernel's.  `FramesOk`: the frames in `calls` lie end
  to end below the running one, each interruption's between its marks.
  `RecordsOk`: a kept record is what its interruption set aside, so the one that
  matches puts back the right partition.  The addresses come down to ranks:
  RegHome and RegRank are inverse, and MoveRegs, RegsBetween and AddrToRegs are
  shown to be sums of ranks (`Counted`, `MoveRegsIs`).  It assumes RseConstants:
  no more live registers than the file has and than the span of the rewind test
  covers with their collection words (with 4096 and groups of 64 it covers all
  4096), and a kernel's backing store far from the program's.
* *EoiEnds*: the vectors being served ascend in priority and are those in
  service.  *RfiGoesBack*: the IIP and IPSR of each open interruption are in
  its handler's memory or, for the innermost, still in the control registers.
* *SpeculationSound*: the NaT bit is with every value that comes from a deferred
  load, in registers and the spill slot, until an instruction that looks at no
  NaT loses it (`bad`, a history, tells the two apart); an ALAT entry is current
  and its register holds what was loaded, or there is no entry.  Programs that
  write ar.unat between a spill and its fill are outside.
* *TranslationSound*: each cached translation, fetch word and pending purge
  agrees with the register or table it was taken from, also over ssm, rsm and
  mov to psr of psr.dt.  It is about programs that insert no translation over
  one a register of the side holds, under the system's own region-7 IVT.
* *RestartsHold* (RestartsPrecisely), for any size of the memory (Ia32Size says
  only that the words the instructions name exist).  `Pair`: an attempt that
  does not fault does what the same attempt does with every page translating,
  shown operator by operator.  `Held` and `Undone`: an attempt that faults is,
  with the fault lifted, the state it started in, or for REP INS a state on the
  way of the unfaulted run, which goes on from there as that run did (`Rounds`
  is the recursive function in Repeat; by least counterexample).  `RestartInv`
  carries this over any number of faults and refills.

**MachinesProofs** (I2kInput, I2kDrives, I2kFlash, NesDisk, NesBus, NesIrq,
NesBoards)
* *InputTyped*, *StatusTells*, *RequestsBacked*, *FlashRemembers*, *DiskKeeps*:
  from invariants that relate each device's rings, buffers and files to its
  status (`DrivesInv`, `DiskInv`).  StatusTells excepts a packet that the
  monitor's `mousemove` has queued since the status, and names the mouse then.
  FlashRemembers promises that the file is the image saved last in every state,
  and that a clean flash is what the next start loads until a reset of the
  machine has forgotten the file.
* *DmaKept* and *ChipRunsAlong*, the refinement: from `BusInv`, that the chip
  left behind is in touch with the one that runs along.  ApuUntilEvent bounds
  the cycles in which nothing shows, so the ticks left out are quiet ones; a
  byte that comes up to six cycles before the chip catches up commutes with
  the ticks in between or is overtaken, as the mapping says; a request waits at
  most five cycles since at most three writes precede the read that halts.
  Initial states map to initial states and every step of NesBus to a step of
  NesEager or to a stutter.
* *CountersTimely*: from `IrqInv`: what is left until an interrupt is due is
  what the counter's registers say, MMC5's line is one more than its counter,
  and the line is the or of both sources.
* *BoardsMapRom* (BoardMapsRom), for every size of ROM that BoardSizes allows
  and all bytes.  `BoardOk`: besides what is promised, the boards that do not
  set their nametables or windows have them as power on left them (`TablesFit`,
  `StillFits`), which a reset relies on; mapper 9's PRG register, its latches
  and MMC5's modes are in range (`RegsFit`).  `WritesGo` goes board by board.
  `ResetSame`: two boards with the same cartridge are equal after a reset,
  whatever their slots, windows and registers were; as a power on is the reset
  of a blank board, `BoardInv` follows.  Sizes are whole 16K units of PRG and
  whole 8K units of CHR; boards 1, 5, 7 and 66 are powered on only with whole
  32K units (`WholeOnly`), since the code takes the second half of a pair or the
  rest of a window without reducing it, and mapper 9 only with 128K or more,
  since the code does not reduce its bank number.

Only checked by TLC, and why:
* liveness (ThreadsEnd, RequestServed, SessionsEnd): fairness and ENABLED are
  out of the provers' reach;
* MonitorSeesBus: the module has no constants, and the run goes through all
  machine builds, latches and decoder edges of it: the check is of the whole
  state space already.

A recursive function needs no induction theorem when only one property of it is
wanted: ApuRun, which runs the sound chip n cycles, is shown to respect the
bound of quiet cycles by taking the least counterexample (`RunSteps`).

## 5. Not modelled, and why

Results of arithmetic instructions, audio, CRT and VGA rendering (arithmetic
over wide data, no sequences of events that a model checker would help with);
SDL, GTK, curses and caca glue (library calls); option parsing and ROM loading
apart from `-drive` (sequential); cJSON (third party); tests, data, tools,
packaging.  Within modelled parts: VNC encodings and authentication, JSON, line
editing, sector contents, sense bytes, seek times, sendkey, absolute pointer
input, the xterm variant of the terminal.  Of single modules, as their headers
say:
* Vt100: the underline at the cursor.  MonitorView: reads through faulty
  cartridge contacts (machine_nes.c:1207).
* I2kDrives: out of memory for a reply.
* Ia64Rse: alloc's copy of ar.pfs and sor.  Ia64Step: cr.lrr0.m, taken as clear.
  Ia64Mmu: the firmware's windows, the instruction side searched for data, the
  alias of memory in region 7.  Ia64Spec: floating-point arithmetic.  Ia32: what
  changes registers only (INC, DEC, LOOP, scalar IN and OUT), OUTS, #DE.
* NesBus: the repeated reads of a halted register access, conflicts of the
  register bus, reset.  NesIrq: reset.  NesVideo: the late blank of the Dendy.
  NesDisk: lengths beyond the side, timer and sound.

## 6. Plan

Done: monitor queue; media; drive images and table; VNC; breakpoints; run
loops; memory views; terminal; the 5150's chips; the Merced core's register
stack, interrupts, translations, speculation and IA-32 instructions; the
interrupt logic of the small cores; the i2000's input, drives and flash; the
NES.

Next:

1. The start and end of the machines (set-up, failure half way, release), the
   menu model and key holds, snapshots, the GMP session.
2. The 8237, 8253, 6532 and 6821; i82559 command and receive lists; cartridge
   banks of the Atari 2600.
3. With each of these, its invariant and proofs; of the modules there are now,
   every safety property a run checks is proved but MonitorSeesBus (section 4).
