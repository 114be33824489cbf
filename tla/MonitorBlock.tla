---------------------------- MODULE MonitorBlock ----------------------------
(***************************************************************************)
(* Removable media: the trays and block nodes behind the GMP blockdev-*    *)
(* commands (core/src/monitor_block.c), the text commands change and eject *)
(* (core/src/monitor_cmds.c) and what the devices do when a medium is      *)
(* inserted or ejected (core/src/drive.c and the machines' own slots).     *)
(*                                                                         *)
(* All of it runs on the emulator thread, one queue entry at a time, so    *)
(* every command is one action.  Commands that only report an error leave  *)
(* the state alone and are not listed.  A file is a model value; whether   *)
(* it can be opened is decided each time it is tried.                      *)
(***************************************************************************)
EXTENDS Naturals, FiniteSets

CONSTANTS
    Devices,    \* the monitor's media devices
    Fixed,      \* those without change and eject (hard disks)
    Empties,    \* those that a failed change leaves empty (drives, FDS, NES)
    Tells,      \* those that keep the monitor's file name current (drives)
    Late,       \* those that load a medium after they are registered (VIP tape)
    Names,      \* node names
    Slots,      \* the node table, BLOCK_NODE_MAX entries
    Files,      \* image files
    NoFile,     \* ""
    NoDevice,   \* attached = 0
    NoSlot      \* node = 0

ASSUME DevicesAssumption ==
    /\ Fixed \subseteq Devices /\ Empties \subseteq Devices
    /\ Tells \subseteq Devices /\ Late \subseteq Devices
    /\ NoDevice \notin Devices
ASSUME FilesAssumption == NoFile \notin Files
ASSUME SlotsAssumption == NoSlot \notin Slots

VARIABLES
    file,     \* mon->media[d].file: the monitor's idea of the medium
    loaded,   \* the medium the machine sees in the device
    tray,     \* mon->tray[d]
    nodes     \* mon->nodes[s]

vars == <<file, loaded, tray, nodes>>

Media == Files \cup {NoFile}

\* MonTray
Trays == [open : BOOLEAN, file : Media, node : Slots \cup {NoSlot}]

\* MonBlockNode (read_only is stored and never read again)
Nodes == [used : BOOLEAN, name : Names, file : Media,
          attached : Devices \cup {NoDevice}]

TypeOK ==
    /\ file \in [Devices -> Media]
    /\ loaded \in [Devices -> Media]
    /\ tray \in [Devices -> Trays]
    /\ nodes \in [Slots -> Nodes]

-----------------------------------------------------------------------------
\* Devices are registered with what they hold, except those that load their
\* medium later; nothing is in the trays and there are no nodes.
Init ==
    /\ loaded \in [Devices -> Media]
    /\ file = [d \in Devices |-> IF d \in Late THEN NoFile ELSE loaded[d]]
    /\ tray = [d \in Devices |->
                 [open |-> FALSE, file |-> NoFile, node |-> NoSlot]]
    /\ \E n \in Names :
          nodes = [s \in Slots |-> [used |-> FALSE, name |-> n,
                                    file |-> NoFile, attached |-> NoDevice]]

Removable(d) == d \notin Fixed

\* find_node
NodeNamed(n) == {s \in Slots : nodes[s].used /\ nodes[s].name = n}

-----------------------------------------------------------------------------
\* What the device does.

\* dev->eject: the device is empty; a drive tells the monitor (notify).
Eject(d) ==
    /\ loaded' = [loaded EXCEPT ![d] = NoFile]
    /\ file' = [file EXCEPT ![d] = NoFile]

\* dev->change that worked: the device holds f; its caller or the device
\* itself records f with the monitor.
Load(d, f) ==
    /\ loaded' = [loaded EXCEPT ![d] = f]
    /\ file' = [file EXCEPT ![d] = f]

\* A failed change that nobody reports to the monitor.
LoadFailsUntold(d) ==
    /\ loaded' = [loaded EXCEPT ![d] = IF d \in Empties THEN NoFile ELSE @]
    /\ UNCHANGED file

\* dev->change that failed: the old medium was closed before the new one was
\* opened, or kept; only a drive tells the monitor that it is now empty.
LoadFails(d) ==
    /\ loaded' = [loaded EXCEPT ![d] = IF d \in Empties THEN NoFile ELSE @]
    /\ file' = [file EXCEPT ![d] =
                  IF d \in Empties \cap Tells THEN NoFile ELSE @]

-----------------------------------------------------------------------------
\* The node that backs the medium of d is free again.  (A faulty variant
\* precedes each definition that the properties are tested on.)
Freed(d) ==
    [s \in Slots |-> IF s = tray[d].node
                     THEN [nodes[s] EXCEPT !.attached = NoDevice]
                     ELSE nodes[s]]

\* detach_node: the drive no longer holds the node that backed its medium.
DetachNode(d) ==
    /\ nodes' = Freed(d)
    /\ tray' = [tray EXCEPT ![d].node = NoSlot]

\* remove_medium, leaving the tray open or closed
RemoveMediumAnd(d, is_open) ==
    /\ nodes' = Freed(d)
    /\ tray' = [tray EXCEPT ![d] = [open |-> is_open, file |-> NoFile,
                                    node |-> NoSlot]]

\* blockdev-add: a new node in a free slot (the first; no property depends on
\* which).  The image must exist when the node is made.
Add(n, f) ==
    /\ NodeNamed(n) = {}
    /\ \E s \in Slots :
          /\ ~nodes[s].used
          /\ nodes' = [nodes EXCEPT ![s] = [used |-> TRUE, name |-> n,
                                            file |-> f,
                                            attached |-> NoDevice]]
    /\ UNCHANGED <<file, loaded, tray>>

\* A node can be deleted.
AlwaysDeletable(s) == TRUE
Deletable(s) == nodes[s].attached = NoDevice

\* blockdev-del
Del(n) ==
    /\ \E s \in NodeNamed(n) :
          /\ Deletable(s)
          /\ nodes' = [nodes EXCEPT ![s].used = FALSE]
    /\ UNCHANGED <<file, loaded, tray>>

\* blockdev-open-tray without the eject
OpenTrayOnly(d) ==
    /\ Removable(d) /\ ~tray[d].open
    /\ tray' = [tray EXCEPT ![d].open = TRUE, ![d].file = file[d]]
    /\ UNCHANGED <<file, loaded, nodes>>

\* blockdev-open-tray: the device is emptied, the medium lies in the tray.
OpenTray(d) ==
    /\ Removable(d) /\ ~tray[d].open
    /\ IF file[d] # NoFile
       THEN /\ Eject(d)
            /\ tray' = [tray EXCEPT ![d].open = TRUE, ![d].file = file[d]]
       ELSE /\ tray' = [tray EXCEPT ![d].open = TRUE]
            /\ UNCHANGED <<file, loaded>>
    /\ UNCHANGED nodes

\* close_tray with f in the tray; if f cannot be loaded the tray stays open.
CloseTray(d, ok) ==
    /\ Removable(d) /\ tray[d].open
    /\ LET f == tray[d].file
       IN  IF f = NoFile
           THEN /\ tray' = [tray EXCEPT ![d].open = FALSE]
                /\ UNCHANGED <<file, loaded>>
           ELSE IF ok
                THEN /\ Load(d, f)
                     /\ tray' = [tray EXCEPT ![d].open = FALSE,
                                             ![d].file = NoFile]
                ELSE /\ LoadFails(d)
                     /\ UNCHANGED tray
    /\ UNCHANGED nodes

\* blockdev-remove-medium
RemoveMedium(d) ==
    /\ Removable(d) /\ tray[d].open
    /\ RemoveMediumAnd(d, TRUE)
    /\ UNCHANGED <<file, loaded>>

\* The tray takes a node's medium only when it is empty and the node is free.
CanInsert(d, s) == nodes[s].attached = NoDevice /\ tray[d].file = NoFile

\* blockdev-insert-medium
InsertMedium(d, n) ==
    /\ Removable(d) /\ tray[d].open
    /\ \E s \in NodeNamed(n) :
          /\ CanInsert(d, s)
          /\ tray' = [tray EXCEPT ![d].file = nodes[s].file, ![d].node = s]
          /\ nodes' = [nodes EXCEPT ![s].attached = d]
    /\ UNCHANGED <<file, loaded>>

\* blockdev-change-medium: an open tray is emptied, given f and closed; a
\* closed one is changed in one step.
ChangeMedium(d, f, ok) ==
    /\ Removable(d)
    /\ IF ok THEN Load(d, f) ELSE LoadFails(d)
    /\ IF tray[d].open THEN RemoveMediumAnd(d, ~ok)
       ELSE IF ok THEN DetachNode(d) ELSE UNCHANGED <<tray, nodes>>

\* The text commands: eject leaves the tray open, change closes it
\* (mon_block_media_changed).
CmdEject(d) ==
    /\ Removable(d)
    /\ Eject(d)
    /\ RemoveMediumAnd(d, TRUE)

CmdChange(d, f, ok) ==
    /\ Removable(d)
    /\ IF ok THEN Load(d, f) /\ RemoveMediumAnd(d, FALSE)
       ELSE LoadFails(d) /\ UNCHANGED <<tray, nodes>>

Next ==
    \/ \E n \in Names, f \in Files : Add(n, f)
    \/ \E n \in Names : Del(n)
    \/ \E d \in Devices :
          \/ OpenTray(d) \/ RemoveMedium(d) \/ CmdEject(d)
          \/ \E ok \in BOOLEAN : CloseTray(d, ok)
          \/ \E n \in Names : InsertMedium(d, n)
          \/ \E f \in Files, ok \in BOOLEAN : ChangeMedium(d, f, ok)
          \/ \E f \in Files, ok \in BOOLEAN : CmdChange(d, f, ok)

Spec == Init /\ [][Next]_vars

-----------------------------------------------------------------------------
(***************************************************************************)
(* Properties.                                                             *)
(***************************************************************************)

\* The node a drive refers to exists and refers back to the drive: no node is
\* deleted or put into a second drive while a drive still holds it
\* (blockdev-del, blockdev-insert-medium, detach_node).
NodeLinked ==
    \A d \in Devices : tray[d].node # NoSlot =>
        /\ nodes[tray[d].node].used
        /\ nodes[tray[d].node].attached = d

\* A medium is either in the device or in its open tray, never in both: the
\* machine sees an empty drive while the tray is open.
MediumInOnePlace ==
    \A d \in Devices \ Late :
        /\ tray[d].open => loaded[d] = NoFile
        /\ tray[d].file # NoFile => tray[d].open

\* The monitor's file name is the medium in the device, for every device but
\* those that lose their medium without telling the monitor.
FileCurrent ==
    \A d \in Devices \ (Late \cup (Empties \ Tells)) : file[d] = loaded[d]

\* docs/monitor.md of blockdev-del: "delete a node that isn't in a drive".  A
\* node that is refused is in the device it is attached to.
RefusedNodeIsInDrive ==
    \A s \in Slots : nodes[s].used /\ nodes[s].attached # NoDevice =>
        LET d == nodes[s].attached
        IN  nodes[s].file \in {tray[d].file, loaded[d]}
=============================================================================
