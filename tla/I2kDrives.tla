----------------------------- MODULE I2kDrives -----------------------------
(***************************************************************************)
(* The i2000 machine's two IDE channels: the ATAPI CD-ROM, whose replies   *)
(* go out in phases of at most the byte limit with an interrupt for each,  *)
(* and the polled ATA disk.  Bytes are counted, their values left out;     *)
(* the disk's unit of transfer is a sector.  `seen' says whether the guest *)
(* has acknowledged an interrupt since the phase began; it is "void" from  *)
(* a reset of the machine, or an access to the data port that the drive    *)
(* did not ask for, to the next command.  `dir' is what the guest's last   *)
(* disk command asked it to do with the data port, and it does no other.   *)
(***************************************************************************)
EXTENDS Integers, FiniteSets, FiniteSetsExt

CONSTANTS AtapiLens,     \* lengths of replies, in bytes
          AtapiLimits,   \* byte limits the guest sets; 0 is 65536
          PacketWords,   \* words of a packet (6)
          HdSectors      \* sectors of the disk

ASSUME DriveSizes ==
  AtapiLens \subseteq Nat /\ AtapiLimits \subseteq Nat /\ PacketWords \in Nat /\ HdSectors \in Nat

VARIABLES at, seen, medium, hd, disk, dir

atapiVars == <<at, seen, medium>>
ataVars == <<hd, disk, dir>>
drivesVars == <<at, seen, medium, hd, disk, dir>>

NoData == [len |-> 0, pos |-> 0, end |-> 0]
AtIdle == [slave |-> FALSE, st |-> "idle", pkt |-> 0, limit |-> 0, data |-> NoData,
           ready |-> "none", irq |-> FALSE]

DrivesInit ==
  /\ at = AtIdle /\ seen = "no" /\ medium = TRUE
  /\ hd = [st |-> "idle", isWrite |-> FALSE, lba |-> 0, len |-> 0, pos |-> 0]
  /\ disk = [s \in 0..HdSectors - 1 |-> 0] /\ dir = "none"

----------------------------------------------------------------------------
\* ATAPI: phases.

Phase(limit, rest) ==
  LET p == IF limit = 0 THEN rest ELSE Min({limit, rest})
  IN  IF p > 1 /\ p % 2 = 1 /\ p < rest THEN p - 1 ELSE p

MAtapiBeginDataPhase(a, d) ==
  [a EXCEPT !.data = [d EXCEPT !.end = d.pos + Phase(a.limit, d.len - d.pos)], !.st = "data"]

AtapiBeginDataPhase(a, d) ==
  [a EXCEPT !.data = [d EXCEPT !.end = d.pos + Phase(a.limit, d.len - d.pos)],
            !.st = "data", !.irq = TRUE]

AtapiSetData(a, n) ==
  IF n > 0 THEN AtapiBeginDataPhase(a, [NoData EXCEPT !.len = n])
  ELSE [a EXCEPT !.data = NoData, !.st = "idle", !.irq = TRUE]

AtapiNoMedium(a) == [a EXCEPT !.data = NoData, !.st = "error", !.irq = TRUE]
AtapiError(a) == [a EXCEPT !.st = "error", !.irq = TRUE]
AtapiNoMemory(a) == [a EXCEPT !.data = NoData, !.st = "error"]
\* Busy for a while, then a.st; with an interrupt except for a packet.
AtapiDeferReady(a) == [a EXCEPT !.ready = a.st, !.st = "busy", !.irq = FALSE]

\* atapi_reply: commands with data of the medium, without, and unknown ones.
Replies(a) ==
  {AtapiSetData(a, n) : n \in AtapiLens} \cup {AtapiError(a), AtapiNoMemory(a)}
     \cup (IF medium THEN {} ELSE {AtapiNoMedium(a)})

\* What the guest knows of the phase when the drive answers.
Answered == IF seen = "void" THEN "void" ELSE "no"

\* The port takes a word whatever the drive's status, and its device.
AtapiPacketWrite ==
  /\ at.pkt < PacketWords
  /\ LET a == [at EXCEPT !.pkt = @ + 1]
     IN  IF a.pkt < PacketWords THEN at' = a /\ UNCHANGED seen
         ELSE /\ at' \in Replies(a)
              /\ seen' = IF at.st = "packet" THEN Answered ELSE "void"
  /\ UNCHANGED <<medium, ataVars>>

\* A read of the data port, of one to four bytes: it takes what is left of the
\* phase, and ends the phase only of a drive that requests the transfer.
AtapiDataRead(size) ==
  /\ ~at.slave
  /\ LET d == [at.data EXCEPT !.pos = IF @ < at.data.end THEN Min({@ + size, at.data.end}) ELSE @]
         over == at.st = "data" /\ d.pos >= d.end
     IN  \/ /\ ~over /\ at' = [at EXCEPT !.data = d]
            /\ seen' = IF at.st # "data" /\ d # at.data THEN "void" ELSE seen
         \/ over /\ d.pos < d.len /\ at' = AtapiBeginDataPhase(at, d) /\ seen' = Answered
         \/ /\ over /\ d.pos >= d.len /\ seen' = Answered
            /\ at' = [at EXCEPT !.data = d, !.st = "idle", !.irq = TRUE]
  /\ UNCHANGED <<medium, ataVars>>

AtapiCommand ==
  /\ ~at.slave /\ seen' = "no"
  /\ LET a == [at EXCEPT !.irq = FALSE, !.ready = "none"]
     IN  \/ \E l \in AtapiLimits :
              at' = AtapiDeferReady([a EXCEPT !.limit = l, !.pkt = 0, !.st = "packet"])
         \/ \E n \in AtapiLens \ {0} :
              \/ at' = AtapiDeferReady(AtapiSetData([a EXCEPT !.limit = n], n))
              \/ at' = AtapiDeferReady(AtapiNoMemory([a EXCEPT !.limit = n]))
         \/ at' = [a EXCEPT !.st = "idle"]
         \/ at' = AtapiError(a)
  /\ UNCHANGED <<medium, ataVars>>

AtapiSelect ==
  /\ at' = [at EXCEPT !.slave = ~@, !.irq = FALSE, !.ready = "none",
                      !.st = IF at.slave THEN "idle" ELSE @]
  /\ UNCHANGED <<seen, medium, ataVars>>

AtapiControl ==
  /\ \E on \in BOOLEAN :
        at' = [at EXCEPT !.irq = FALSE, !.ready = "none", !.st = IF on THEN "busy" ELSE "idle"]
  /\ UNCHANGED <<seen, medium, ataVars>>

AtapiPoll ==
  /\ at.ready # "none"
  /\ at' = [at EXCEPT !.ready = "none", !.st = at.ready, !.irq = @ \/ at.ready # "packet"]
  /\ UNCHANGED <<seen, medium, ataVars>>

AtapiAcknowledge ==
  /\ at.irq /\ at' = [at EXCEPT !.irq = FALSE]
  /\ seen' = IF seen = "void" THEN "void" ELSE "yes"
  /\ UNCHANGED <<medium, ataVars>>

AtapiMedium == medium' = ~medium /\ UNCHANGED <<at, seen, ataVars>>

\* i2000_reset clears the end of the phase, the limit and what is pending, but
\* not the status, the packet, the reply and how much of it was taken.
AtapiReset ==
  /\ at' = [at EXCEPT !.data = [@ EXCEPT !.end = 0], !.limit = 0, !.ready = "none", !.irq = FALSE]
  /\ seen' = "void" /\ UNCHANGED <<medium, ataVars>>

AtapiNext ==
  \/ AtapiPacketWrite \/ AtapiCommand \/ AtapiSelect \/ AtapiControl
  \/ AtapiPoll \/ AtapiAcknowledge \/ AtapiMedium \/ AtapiReset
  \/ \E size \in {1, 2, 4} : AtapiDataRead(size)

----------------------------------------------------------------------------
\* The disk.

AtaSetData(h, n) == [h EXCEPT !.len = n, !.pos = 0, !.st = "data"]
AtaNoMemory(h) == [h EXCEPT !.len = 0, !.pos = 0, !.st = "error"]

AtaRead(lba, n) ==
  /\ \/ lba + n <= HdSectors /\ hd' \in {AtaSetData(hd, n), AtaNoMemory(hd)}
     \/ hd' = [hd EXCEPT !.st = "error"]      \* the read fails
  /\ dir' = "read"

AtaWrite(lba, n) ==
  /\ LET h == [hd EXCEPT !.lba = lba, !.isWrite = TRUE]
     IN  hd' \in {AtaSetData(h, n), AtaNoMemory(h)}
  /\ dir' = "write"

AtaCommand ==
  /\ \/ \E lba \in 0..HdSectors - 1, n \in 1..2 : AtaRead(lba, n) \/ AtaWrite(lba, n)
     \/ hd' \in {AtaSetData(hd, 1), AtaNoMemory(hd)} /\ dir' = "read"
     \/ \E s \in {"idle", "error"} : hd' = [hd EXCEPT !.st = s] /\ dir' = "none"
  /\ UNCHANGED <<atapiVars, disk>>

AtaControl ==
  /\ hd' = [hd EXCEPT !.st = "idle"] /\ dir' = "none" /\ UNCHANGED <<atapiVars, disk>>

AtaDataRead ==
  /\ dir = "read" /\ hd.st = "data"
  /\ LET p == Min({hd.pos + 1, hd.len})
     IN  hd' = [hd EXCEPT !.pos = p,
                          !.st = IF ~hd.isWrite /\ p = hd.len THEN "idle" ELSE @]
  /\ UNCHANGED <<atapiVars, disk, dir>>

\* The last word writes the buffer; the drive may refuse it.
AtaDataWrite ==
  /\ dir = "write" /\ hd.st = "data"
  /\ LET p == Min({hd.pos + 1, hd.len})
     IN  \/ /\ hd.isWrite /\ p = hd.len
            /\ \/ /\ hd.lba + hd.len <= HdSectors
                  /\ disk' = [s \in DOMAIN disk |->
                                IF s \in hd.lba .. hd.lba + hd.len - 1 THEN 1 - disk[s] ELSE disk[s]]
                  /\ hd' = [hd EXCEPT !.pos = p, !.st = "idle", !.isWrite = FALSE]
               \/ hd' = [hd EXCEPT !.pos = p, !.st = "error", !.isWrite = FALSE] /\ UNCHANGED disk
         \/ ~(hd.isWrite /\ p = hd.len) /\ hd' = [hd EXCEPT !.pos = p] /\ UNCHANGED disk
  /\ UNCHANGED <<atapiVars, dir>>

AtaNext == AtaCommand \/ AtaControl \/ AtaDataRead \/ AtaDataWrite

DrivesNext == AtapiNext \/ AtaNext

DrivesSpec == DrivesInit /\ [][DrivesNext]_drivesVars

----------------------------------------------------------------------------
\* While the CD-ROM requests a data transfer there is something left of the
\* phase, and the guest has been or will be interrupted for this phase: a
\* driver that sleeps between phases neither hangs nor takes too many bytes.
\* A reset of the machine takes the end of the phase away and leaves the
\* request standing (the guest resets the drive, or commands it, before it uses
\* it again).  The disk's request is backed by its buffer too, unless a write
\* before the command was given up half way.
RequestedDataIsThere ==
  /\ at.st = "data" /\ ~at.slave /\ seen # "void" =>
       /\ at.data.pos < at.data.end /\ at.data.end <= at.data.len
       /\ at.irq \/ seen = "yes"
  /\ hd.st = "data" /\ (hd.isWrite => dir = "write") => hd.pos < hd.len
=============================================================================
