----------------------------- MODULE DriveImage -----------------------------
(***************************************************************************)
(* The image I/O of one drive (core/src/drive.c): opening and closing a    *)
(* medium, write protection, and the copy-on-write overlay of snapshot=on. *)
(*                                                                         *)
(* An image is a row of cells; SNAP_CHUNK is ChunkSize cells.  The chunks  *)
(* that have been copied are in copied, and mem holds the cells of those   *)
(* chunks.  gemu_drive_read changes nothing: View is what it returns.      *)
(* Every call runs to completion on the emulator thread, so it is one      *)
(* action; a call that fails half way has done the first half.             *)
(***************************************************************************)
EXTENDS Integers

CONSTANTS
    Size,        \* cells of an image
    ChunkSize,   \* cells of a copy-on-write chunk
    Images,       \* image files
    NoImage,      \* no medium
    Values,      \* contents of a cell
    Zero,        \* the cell of a chunk fresh from calloc
    Unknown,     \* the guest cannot know what is there
    Faults       \* the failures to explore: "file", "memory", "copy"

ASSUME SizeAssumption == Size \in Nat /\ ChunkSize \in Nat \ {0}
ASSUME ValuesAssumption == Zero \in Values /\ Unknown \notin Values
ASSUME ImagesAssumption == NoImage \notin Images
ASSUME FaultsAssumption == Faults \subseteq {"file", "memory", "copy"}

VARIABLES
    kind, readonly, snapshot,   \* the configuration of the drive
    booted,      \* the command line has been read, the machine runs
    image,        \* the medium in the drive
    medium_ro,   \* this medium may not be written
    copied,      \* chunks of the overlay that exist
    mem,         \* their cells
    disk,        \* the contents of the image files
    expect       \* history: what the guest expects of each image now

config  == <<kind, readonly, snapshot>>
overlay == <<copied, mem>>
imageVars == <<kind, readonly, snapshot, booted, image, medium_ro, copied, mem,
          disk, expect>>

Cells  == 0..Size - 1
Chunk(i) == i \div ChunkSize
Chunks == {Chunk(i) : i \in Cells}

ImageTypeOK ==
    /\ kind \in {"disk", "cdrom", "floppy"}
    /\ readonly \in BOOLEAN /\ snapshot \in BOOLEAN
    /\ booted \in BOOLEAN /\ medium_ro \in BOOLEAN
    /\ image \in Images \cup {NoImage}
    /\ copied \in SUBSET Chunks
    /\ mem \in [Cells -> Values]
    /\ disk \in [Images -> [Cells -> Values]]
    /\ expect \in [Images -> [Cells -> Values \cup {Unknown}]]

\* gemu_drive_add has made the drive; only a removable one may be empty.
ImageInit ==
    /\ kind \in {"disk", "cdrom", "floppy"}
    /\ readonly \in BOOLEAN /\ snapshot \in BOOLEAN
    /\ kind = "cdrom" => readonly
    /\ booted = FALSE
    /\ image \in Images \cup {NoImage}
    /\ kind = "disk" => image # NoImage
    /\ medium_ro \in BOOLEAN
    /\ medium_ro => kind = "floppy" /\ image # NoImage /\ ~readonly /\ ~snapshot
    /\ copied = {} /\ mem = [i \in Cells |-> Zero]
    /\ \E v \in Values : disk = [f \in Images |-> [i \in Cells |-> v]]
    /\ expect = disk

\* gemu_drive_read of one cell
View(i) == IF snapshot /\ Chunk(i) \in copied THEN mem[i] ELSE disk[image][i]

-----------------------------------------------------------------------------
\* close_medium frees the overlay.  (A faulty variant precedes each definition
\* that the properties are tested on.)
OverlayFreed == copied' = {} /\ mem' = [i \in Cells |-> Zero]

\* The guest of a snapshot drive sees the image itself again.
Reverted == IF snapshot /\ image # NoImage
            THEN [expect EXCEPT ![image] = disk[image]] ELSE expect

\* open_medium: the old medium is closed first.  A floppy image that may not
\* be written is inserted write-protected; on any failure the drive is empty.
OpenMedium(f) ==
    /\ OverlayFreed
    /\ expect' = Reverted
    /\ \/ image' = f /\ medium_ro' = FALSE
       \/ /\ kind = "floppy" /\ ~readonly /\ ~snapshot
          /\ image' = f /\ medium_ro' = TRUE
       \/ image' = NoImage /\ medium_ro' = FALSE

\* removable
RemovableKind == kind \in {"cdrom", "floppy"}

\* gemu_drive_insert
Insert(f) ==
    /\ booted /\ RemovableKind
    /\ OpenMedium(f)
    /\ UNCHANGED <<config, booted, disk>>

\* gemu_drive_eject
ImageEject ==
    /\ booted /\ RemovableKind
    /\ OverlayFreed
    /\ expect' = Reverted
    /\ image' = NoImage /\ medium_ro' = FALSE
    /\ UNCHANGED <<config, booted, disk>>

\* -snapshot after -drive on the command line: the image is opened again.
SnapshotAll ==
    /\ ~booted /\ ~snapshot
    /\ snapshot' = TRUE
    /\ IF image = NoImage
       THEN UNCHANGED <<image, medium_ro, overlay>>
       ELSE /\ OverlayFreed
            /\ image' \in {image, NoImage} /\ medium_ro' = FALSE
    /\ UNCHANGED <<kind, readonly, booted, disk, expect>>

Boot ==
    /\ ~booted
    /\ booted' = TRUE
    /\ UNCHANGED <<config, image, medium_ro, overlay, disk, expect>>

-----------------------------------------------------------------------------
\* gemu_drive_write

WritableMedium == ~medium_ro
Writable == ~readonly /\ ~medium_ro

\* The cells from off on, len of them.
Span(off, len) == off..off + len - 1

\* g with v in the cells of w
Filled(g, w, v) == [i \in Cells |-> IF i \in w THEN v ELSE g[i]]

\* The guest has written v to the cells of w, or has been told that it failed.
Noted(w, v) == expect' = [expect EXCEPT ![image] = Filled(@, w, v)]

\* Without an overlay: fwrite and fflush.
WriteFile(off, len, v) ==
    /\ booted /\ image # NoImage /\ Writable /\ ~snapshot
    /\ disk' = [disk EXCEPT ![image] = Filled(@, Span(off, len), v)]
    /\ Noted(Span(off, len), v)
    /\ UNCHANGED <<config, booted, image, medium_ro, overlay>>

\* fwrite or fflush fails after the first n cells.
WriteFileFails(off, len, v, n) ==
    /\ "file" \in Faults
    /\ booted /\ image # NoImage /\ Writable /\ ~snapshot
    /\ disk' = [disk EXCEPT ![image] = Filled(@, Span(off, n), v)]
    /\ Noted(Span(off, len), Unknown)
    /\ UNCHANGED <<config, booted, image, medium_ro, overlay>>

\* The chunks in c that are copied by this write start as the image has them.
NotCopied(c) == mem
Copied(c) == [i \in Cells |-> IF Chunk(i) \in c \ copied THEN disk[image][i]
                              ELSE mem[i]]

\* With an overlay: every chunk is copied before its first write.
WriteSnapshot(off, len, v) ==
    LET w == Span(off, len)
        c == {Chunk(i) : i \in w}
    IN  /\ booted /\ image # NoImage /\ Writable /\ snapshot
        /\ copied' = copied \cup c
        /\ mem' = Filled(Copied(c), w, v)
        /\ Noted(w, v)
        /\ UNCHANGED <<config, booted, image, medium_ro, disk>>

\* The first write to chunk k fails: there is no memory for it, or the image
\* cannot be read.  The chunks before k have been written.  After a failed
\* read the zeroed chunk is already in place.
WriteSnapshotFails(off, len, v, k) ==
    LET w == {i \in Span(off, len) : Chunk(i) < k}
        c == {Chunk(i) : i \in w}
        before == Filled(Copied(c), w, v)
    IN  /\ booted /\ image # NoImage /\ Writable /\ snapshot
        /\ k \in {Chunk(i) : i \in Span(off, len)} \ copied
        /\ \/ /\ "memory" \in Faults
              /\ copied' = copied \cup c
              /\ mem' = before
           \/ /\ "copy" \in Faults
              /\ copied' = copied \cup c \cup {k}
              /\ mem' = [i \in Cells |-> IF Chunk(i) = k THEN Zero
                                         ELSE before[i]]
        /\ Noted(Span(off, len), Unknown)
        /\ UNCHANGED <<config, booted, image, medium_ro, disk>>

\* An empty or write-protected drive refuses the write.
WriteRefused ==
    /\ booted
    /\ image = NoImage \/ ~Writable
    /\ UNCHANGED imageVars

WriteSome ==
    \E off \in Cells, v \in Values : \E len \in 1..Size - off :
        \/ WriteFile(off, len, v)
        \/ \E n \in 0..len : WriteFileFails(off, len, v, n)
        \/ WriteSnapshot(off, len, v)
        \/ \E k \in Chunks : WriteSnapshotFails(off, len, v, k)

ImageNext ==
    \/ \E f \in Images : Insert(f)
    \/ ImageEject \/ SnapshotAll \/ Boot \/ WriteSome \/ WriteRefused

ImageSpec == ImageInit /\ [][ImageNext]_imageVars

-----------------------------------------------------------------------------
(***************************************************************************)
(* Properties.                                                             *)
(***************************************************************************)

\* The guest reads back what it wrote, and what it did not write reads as the
\* image had it, whatever the order of writes, failures and media changes.
\* Only the cells of a write that failed are uncertain.
ReadBack ==
    image # NoImage =>
        \A i \in Cells : expect[image][i] \in {Unknown, View(i)}

\* docs/drive.md: "snapshot=on keeps every write in memory", and "readonly=on
\* makes writes fail as on write-protected media": the images of such drives
\* never change once the machine runs.
ImageUntouched ==
    [][(snapshot \/ readonly \/ medium_ro) => disk' = disk]_imageVars
=============================================================================
