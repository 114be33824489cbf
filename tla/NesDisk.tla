------------------------------- MODULE NesDisk -------------------------------
(***************************************************************************)
(* The Famicom Disk System's drive: the walk of the program over the       *)
(* blocks of a side through the registers, the interrupt for each byte,    *)
(* the changes of disk and side, and the file that keeps what was written. *)
(*                                                                         *)
(* A side is a volume block, a count, a header whose last byte is the      *)
(* length of the data that follow, and the data; each block is shorter     *)
(* than the real one, and the lengths a program writes stay within the     *)
(* side, which the code does not check.  The timer and the sound generator *)
(* are left out.                                                           *)
(***************************************************************************)
EXTENDS Integers

CONSTANTS Disks,       \* images a disk can be loaded from
          SidesOf,     \* [Disks -> sides]
          NameOf,      \* [Disks -> base name of the image's file]
          NoDisk,
          PerByte,     \* cycles from byte to byte, 150
          ChangeTime   \* cycles a flipped disk is not seen, 500000

ASSUME DiskConstants == NoDisk \notin Disks /\ SidesOf \in [Disks -> Nat \ {0}]

VARIABLES powered, hle, held, raw, disk_dirty, side, walk, ctl, flag, byte_due, change,
          saves, kept, spoilt

walkVars == <<side, walk, ctl, flag, byte_due, change>>
fileVars == <<saves, kept, spoilt>>
diskVars == <<powered, hle, held, raw, disk_dirty, walkVars, fileVars>>

SideLen == 6
Image(d) == [i \in 0 .. SidesOf[d] * SideLen - 1 |-> IF i % SideLen = 3 THEN 1 ELSE 0]
NoSave  == [n |-> 0, sides |-> 0, data |-> <<>>]

\* Length of a block; the header's last byte is at 1.
BlkLen(type, size) == CASE type \in {1, 2} -> 1 [] type = 3 -> 2 [] type = 4 -> 1 + size [] OTHER -> 0

BlkReset(w)   == [w EXCEPT !.type = 0, !.start = 0, !.len = 0, !.addr = 0, !.access = FALSE]
BlkAdvance(w) ==
  LET next == IF w.type = 4 THEN 3 ELSE w.type + 1
  IN  [w EXCEPT !.type = next, !.start = @ + w.addr, !.len = BlkLen(next, w.size),
                !.addr = 0, !.access = FALSE]

NoWalk == [type |-> 0, start |-> 0, len |-> 0, addr |-> 0, access |-> FALSE, size |-> 0]
NoCtl  == [irq |-> FALSE, step |-> FALSE, read |-> FALSE]

\* What the drive shows of a disk: its image, over which the bytes of a save
\* with the same number of sides are read, as many as there are.
MOverlay(files, d) == Image(d)

Overlay(files, d) ==
  LET s == files[NameOf[d]]
  IN  [i \in DOMAIN Image(d) |-> IF s.sides = SidesOf[d] /\ i < s.n THEN s.data[i] ELSE Image(d)[i]]

\* The state of a machine that has just been started.
PowerUp(d) ==
  /\ hle' \in BOOLEAN
  /\ held' = d /\ raw' = IF d = NoDisk THEN <<>> ELSE Overlay(saves, d)
  /\ disk_dirty' = FALSE /\ side' = 0 /\ walk' = NoWalk /\ ctl' = NoCtl
  /\ flag' = FALSE /\ byte_due' = (IF d = NoDisk THEN 0 ELSE -1) /\ change' = 0

DiskInit ==
  /\ powered = FALSE /\ hle = FALSE /\ held = NoDisk /\ raw = <<>> /\ disk_dirty = FALSE
  /\ side = 0 /\ walk = NoWalk /\ ctl = NoCtl /\ flag = FALSE /\ byte_due = -1 /\ change = 0
  /\ saves = [x \in {NameOf[d] : d \in Disks} |-> NoSave]
  /\ kept = [d \in Disks |-> Image(d)] /\ spoilt = {}

----------------------------------------------------------------------------
\* A cycle: c, w and f are the change, byte_due and flag that it finds.
TickFrom(c, w, f, irq) ==
  LET left == IF c > 0 THEN c - 1 ELSE 0
      runs == held # NoDisk /\ left = 0 /\ w >= 0
  IN  /\ change' = left
      /\ byte_due' = IF ~runs THEN w ELSE IF w <= 1 THEN -1 ELSE w - 1
      /\ flag' = (f \/ (runs /\ w <= 1 /\ irq))

Quiet == UNCHANGED <<powered, hle, held, side, fileVars>>

DiskCycle == powered /\ TickFrom(change, byte_due, flag, ctl.irq) /\ Quiet /\ UNCHANGED <<raw, disk_dirty, walk, ctl>>

\* An access to a register also passes a cycle.

\* $4030, and $4023 when it disables the drive.
DiskStatus == powered /\ TickFrom(change, byte_due, FALSE, ctl.irq) /\ Quiet /\ UNCHANGED <<raw, disk_dirty, walk, ctl>>

Here   == side * SideLen + walk.start + walk.addr
InBlock == walk.type > 0 /\ walk.addr < walk.len
Within  == InBlock => walk.start + walk.addr < SideLen
Sized(value) == IF walk.type = 3 /\ walk.addr = 1 THEN value ELSE walk.size

\* $4031.
DiskRead ==
  /\ powered /\ Within
  /\ IF held = NoDisk \/ ~ctl.read
       THEN TickFrom(change, byte_due, flag, ctl.irq) /\ UNCHANGED walk
       ELSE /\ TickFrom(change, IF hle THEN byte_due ELSE PerByte, FALSE, ctl.irq)
            /\ walk' = IF InBlock THEN [walk EXCEPT !.addr = @ + 1, !.size = Sized(raw[Here])] ELSE walk
  /\ Quiet /\ UNCHANGED <<raw, disk_dirty, ctl>>

\* $4024: the first byte after a change of block is not stored.
DiskWrite ==
  /\ powered /\ Within
  /\ TickFrom(change, byte_due, flag, ctl.irq)
  /\ \E value \in 0 .. 1 :
       LET stores == held # NoDisk /\ ~ctl.read /\ walk.access /\ InBlock
       IN  /\ raw' = IF stores THEN [raw EXCEPT ![Here] = value] ELSE raw
           /\ disk_dirty' = (disk_dirty \/ stores)
           /\ walk' = IF held = NoDisk \/ ctl.read THEN walk
                      ELSE IF ~walk.access THEN [walk EXCEPT !.access = TRUE]
                      ELSE IF stores THEN [walk EXCEPT !.addr = @ + 1, !.size = Sized(value)]
                      ELSE walk
  /\ Quiet /\ UNCHANGED ctl

\* $4025: a rising step goes to the next block, a reset to before the first.
DiskControl ==
  /\ powered
  /\ \E irq, step, read, reset \in BOOLEAN :
       LET advances == held # NoDisk /\ step /\ ~ctl.step
           resets   == held # NoDisk /\ reset
           stepped  == IF advances THEN BlkAdvance(walk) ELSE walk
       IN  /\ walk' = IF resets THEN BlkReset(stepped) ELSE stepped
           /\ ctl' = [irq |-> irq, step |-> step, read |-> read]
           /\ TickFrom(change, IF advances \/ resets \/ (held # NoDisk /\ step) THEN PerByte ELSE byte_due, FALSE, irq)
  /\ Quiet /\ UNCHANGED <<raw, disk_dirty>>

----------------------------------------------------------------------------
\* The save file is written over: it may not be opened, and it is torn when a
\* write fails, or when closing it does, which the code does not look at: then
\* the disk counts as saved.  kept is what each disk held when it was last saved, spoilt the
\* disks whose file is torn or holds another disk of their name.

Namesakes(d) == {e \in Disks : NameOf[e] = NameOf[d]}

TornSave(n) ==
  /\ saves' = [saves EXCEPT ![NameOf[held]] = [n |-> n, sides |-> SidesOf[held], data |-> raw]]
  /\ spoilt' = spoilt \cup Namesakes(held)
  /\ UNCHANGED kept

Unreadable == saves' = [saves EXCEPT ![NameOf[held]] = NoSave] /\ spoilt' = spoilt \cup Namesakes(held) /\ UNCHANGED kept

Tears == Unreadable \/ \E n \in 0 .. SidesOf[held] * SideLen - 1 : TornSave(n)

FdsSave(ok) ==
  \/ ~disk_dirty /\ ok /\ UNCHANGED fileVars
  \/ disk_dirty /\ ~ok /\ UNCHANGED fileVars
  \/ disk_dirty /\ Tears
  \/ /\ disk_dirty /\ ok
     /\ saves' = [saves EXCEPT ![NameOf[held]] =
                    [n |-> SidesOf[held] * SideLen, sides |-> SidesOf[held], data |-> raw]]
     /\ kept' = [kept EXCEPT ![held] = raw]
     /\ spoilt' = (spoilt \ {held}) \cup (Namesakes(held) \ {held})

\* What is inserted in place of the disk: nothing if it cannot be loaded.
Replaced(d) ==
  /\ held' = d
  /\ raw' = IF d = NoDisk THEN <<>> ELSE Overlay(saves', d)
  /\ disk_dirty' = FALSE /\ walk' = BlkReset(walk)
  /\ side' = IF d = NoDisk THEN side ELSE 0
  /\ flag' = FALSE /\ byte_due' = (IF d = NoDisk THEN PerByte ELSE -1) /\ change' = 0
  /\ UNCHANGED <<powered, hle, ctl>>

FdsChange ==
  /\ powered
  /\ \E d \in Disks \cup {NoDisk}, ok \in BOOLEAN : FdsSave(ok) /\ Replaced(d)

FdsFlip ==
  /\ powered /\ held # NoDisk /\ SidesOf[held] >= 2
  /\ side' = (side + 1) % SidesOf[held]
  /\ walk' = BlkReset(walk) /\ flag' = FALSE /\ byte_due' = PerByte /\ change' = ChangeTime
  /\ UNCHANGED <<powered, hle, held, raw, disk_dirty, ctl, fileVars>>

\* The machine's reset saves and leaves the drive as it is.
FdsReset ==
  /\ powered
  /\ \E ok \in BOOLEAN : FdsSave(ok) /\ disk_dirty' = (disk_dirty /\ ~ok)
  /\ UNCHANGED <<powered, hle, held, raw, walkVars>>

Stopped == powered' = FALSE /\ held' = NoDisk /\ raw' = <<>> /\ disk_dirty' = FALSE /\ UNCHANGED <<hle, walkVars>>

FdsQuit  == powered /\ (\E ok \in BOOLEAN : FdsSave(ok)) /\ Stopped
FdsCrash == powered /\ (UNCHANGED fileVars \/ (disk_dirty /\ Tears)) /\ Stopped

FdsStart ==
  /\ ~powered /\ powered' = TRUE
  /\ \E d \in Disks \cup {NoDisk} : PowerUp(d)
  /\ UNCHANGED fileVars

DiskNext ==
  \/ DiskCycle \/ DiskStatus \/ DiskRead \/ DiskWrite \/ DiskControl
  \/ FdsChange \/ FdsFlip \/ FdsReset \/ FdsQuit \/ FdsCrash \/ FdsStart

DiskSpec == DiskInit /\ [][DiskNext]_diskVars

----------------------------------------------------------------------------
DiskTypeOK ==
  /\ held \in Disks \cup {NoDisk}
  /\ walk.type \in 0 .. 4 /\ walk.addr <= walk.len
  /\ byte_due \in -1 .. PerByte /\ change \in 0 .. ChangeTime

\* A disk in the drive holds what it held when it was last saved, over exchanges,
\* restarts and crashes, until the program writes to it: unless its save file was
\* torn or is that of another disk of its name.
DiskRemembers == held # NoDisk /\ ~disk_dirty /\ held \notin spoilt => raw = kept[held]
=============================================================================
