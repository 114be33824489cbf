--------------------------- MODULE MCMonitorTables ---------------------------
(***************************************************************************)
(* The tables the monitor and the machines share, each on its own: nodes   *)
(* and trays (MonitorBlock), one drive's image (DriveImage), the drives of *)
(* the command line (DriveTable) and the breakpoints (Breakpoints).        *)
(* `unit' is the table this behaviour is of; no other one changes.         *)
(*                                                                         *)
(* MonitorBlock has a drive of drive.c, a cartridge slot that keeps its    *)
(* medium when a change fails, and a hard disk.  DriveImage has images of  *)
(* three cells, one full chunk and half of another.  DriveTable has the    *)
(* IBM 5150 (four diskette drives, the first a default drive) and the      *)
(* i2000 (a disk and a CD-ROM).  Of the three addresses of Breakpoints two *)
(* are the same to the machine, as $F000 and $1000 are to an Atari 2600.   *)
(***************************************************************************)
EXTENDS MonitorBlock, DriveImage, DriveTable, Breakpoints, TLC

CONSTANTS node1, node2, file1, file2, image1, image2

VARIABLE unit

Symmetry == Permutations({node1, node2}) \cup Permutations({file1, file2})
              \cup Permutations({image1, image2})

MCMaxDevs == [if \in Interfaces |-> IF if = "ide" THEN 2 ELSE 0]

Floppy(u) == [iface |-> "floppy", bus |-> 0, unit |-> u, media |-> {"disk"}]
Ide(b, media) == [iface |-> "ide", bus |-> b, unit |-> 0, media |-> {media}]

PC == [positions |-> <<Floppy(0), Floppy(1), Floppy(2), Floppy(3)>>,
       default |-> "floppy"]
I2000 == [positions |-> <<Ide(0, "disk"), Ide(1, "cdrom")>>,
          default |-> NoDefault]

MCMachines == {PC, I2000}

\* An id that is the default name of a drive.
MCIds == {<<"floppy", 1>>}
MCSpelling == [id \in MCIds |-> id]

TablesInit ==
  /\ Init /\ ImageInit /\ TableInit /\ BpInit
  /\ unit \in {"block", "image", "table", "breakpoints"}
  /\ unit # "image" => kind = "floppy" /\ ~readonly /\ ~snapshot /\ ~medium_ro
                       /\ image = NoImage /\ \A f \in Images : disk[f][0] = Zero
  /\ unit # "block" => \A d \in Devices, e \in Devices : loaded[d] = loaded[e]

TablesNext ==
  /\ UNCHANGED unit
  /\ \/ unit = "block" /\ Next /\ UNCHANGED <<imageVars, tableVars, bpVars>>
     \/ unit = "image" /\ ImageNext /\ UNCHANGED <<vars, tableVars, bpVars>>
     \/ unit = "table" /\ TableNext /\ UNCHANGED <<vars, imageVars, bpVars>>
     \/ unit = "breakpoints" /\ BpNext /\ UNCHANGED <<vars, imageVars, tableVars>>

TablesSpec == TablesInit /\ [][TablesNext]_<<unit, vars, imageVars, tableVars, bpVars>>
=============================================================================
