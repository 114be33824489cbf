----------------------------- MODULE DriveTable -----------------------------
(***************************************************************************)
(* The drive table (core/src/drive.c): how -drive options become drives    *)
(* with a bus, a unit and a name, how a machine claims them and adds its   *)
(* default drives, and which monitor entry each drive keeps current.       *)
(*                                                                         *)
(* An option that was not given is -1, as in gemu_drive_add.  A name is    *)
(* the tuple it is printed from, so two names are equal exactly when their *)
(* strings are; id= may spell any of them, and differ from another name in *)
(* its capitals only.  Options that are rejected leave the table alone and *)
(* end the program.                                                        *)
(***************************************************************************)
EXTENDS Integers, Sequences

CONSTANTS
    Interfaces,   \* if= names
    MaxDevs,      \* units per bus of each interface; 0: one bus, no limit
    MaxDrives,    \* MAX_DRIVES
    Buses, Units, Indexes,   \* the numbers given on the command line
    Ids,          \* the names given with id=
    Spelling,     \* what find_media takes them for, which ignores case
    NoId,         \* no id= given
    Machines,     \* the machines, see Machine below
    Wants,        \* floppies=N: the numbers N
    NoDefault     \* the machine has no default drive

ASSUME MaxDevsAssumption == MaxDevs \in [Interfaces -> Nat]
ASSUME MaxDrivesAssumption == MaxDrives \in Nat
ASSUME NumbersAssumption == Buses \cup Units \cup Indexes \subseteq Nat
ASSUME NoIdAssumption == NoId \notin Ids /\ DOMAIN Spelling = Ids
ASSUME WantsAssumption == Wants \subseteq Nat

\* A machine asks for positions that its interfaces have, and has a device for
\* its default drive and for the diskettes that it adds.
ASSUME MachinesAssumption ==
    \A m \in Machines :
        /\ m.positions \in Seq([iface : Interfaces, bus : Nat, unit : Nat,
                                media : SUBSET {"disk", "cdrom"}])
        /\ \A k \in DOMAIN m.positions :
              LET p == m.positions[k]
              IN  /\ IF MaxDevs[p.iface] = 0 THEN p.bus = 0 ELSE p.unit < MaxDevs[p.iface]
                  /\ p.iface = "floppy" => p.bus = 0 /\ "disk" \in p.media
        /\ m.default # NoDefault =>
              \E k \in DOMAIN m.positions :
                 LET p == m.positions[k]
                 IN  p.iface = m.default /\ p.bus = 0 /\ p.unit = 0 /\ "disk" \in p.media

VARIABLES
    machine,   \* the machine that is made
    no_defaults,   \* -nodefaults was given
    want,      \* floppies=N: the machine adds empty drives up to N
    phase,     \* "options", "claim", "attach", then "run" or "refused"
    drives,    \* the table, in the order the drives were added
    pos,       \* the machine's position that is next
    entries,   \* the monitor's media entries: the drive behind each one
    mon_dev    \* for each attached drive, the entry it keeps current

tableVars == <<machine, no_defaults, want, phase, drives, pos, entries, mon_dev>>

\* A machine has positions, in the order it asks for them, each an interface,
\* a bus, a unit and the media it takes there, and an interface on which it
\* adds a default drive.
Machine == machine.positions
Default == machine.default

Given(S) == S \cup {-1}

-----------------------------------------------------------------------------
\* find: the drives at a position
At(if, bus, unit) ==
    {i \in DOMAIN drives : /\ drives[i].iface = if
                           /\ drives[i].bus = bus
                           /\ drives[i].unit = unit}

\* The position that is n units after unit 0 of the bus.
Place(if, bus, n) ==
    IF MaxDevs[if] = 0 THEN [bus |-> bus, unit |-> n]
    ELSE [bus |-> bus + n \div MaxDevs[if], unit |-> n % MaxDevs[if]]

\* The n-th position from unit 0 of the bus is free.
Free(if, bus, n) == At(if, Place(if, bus, n).bus, Place(if, bus, n).unit) = {}

\* The first free position from unit 0 of the bus on; the table is finite, so
\* one of the first Len(drives) + 1 positions is free.
FirstFree(if, bus) ==
    Place(if, bus, CHOOSE n \in 0..Len(drives) :
                     Free(if, bus, n) /\ \A m \in 0..n - 1 : ~Free(if, bus, m))

\* The next unit on the same bus, whatever the bus can hold.
NextUnit(if, bus, unit, index) ==
    IF index >= 0 THEN Place(if, 0, index)
    ELSE [bus |-> IF bus < 0 THEN 0 ELSE bus,
          unit |-> IF unit >= 0 THEN unit ELSE Len(drives)]

\* index / bus / unit, as gemu_drive_add resolves them
Resolve(if, bus, unit, index) ==
    IF index >= 0 THEN Place(if, 0, index)
    ELSE LET b == IF bus < 0 THEN 0 ELSE bus
         IN  IF unit >= 0 THEN [bus |-> b, unit |-> unit] ELSE FirstFree(if, b)

\* default_name
DefaultName(if, media, p) ==
    IF MaxDevs[if] = 0 THEN <<if, p.unit>>
    ELSE <<if, p.bus, IF media = "cdrom" THEN "cd" ELSE "hd", p.unit>>

\* The checks of a resolved position; a drive that is already there is an error.
OccupiedIgnored(if, p) == MaxDevs[if] # 0 => p.unit < MaxDevs[if]
PlaceOk(if, p) ==
    /\ MaxDevs[if] # 0 => p.unit < MaxDevs[if]
    /\ At(if, p.bus, p.unit) = {}

NameNotCompared(name) == FALSE
NameTaken(name) == \E i \in DOMAIN drives : drives[i].name = name

\* The table has room for one more drive.
TableRoom == Len(drives) < MaxDrives

\* gemu_drive_add: the table with one more drive, when the options are good.
AddOk(if, bus, unit, index, id) ==
    /\ index >= 0 => bus < 0 /\ unit < 0
    /\ PlaceOk(if, Resolve(if, bus, unit, index))
    /\ TableRoom
    /\ id # NoId => ~NameTaken(id)

Added(if, media, bus, unit, index, id, claimed) ==
    LET p == Resolve(if, bus, unit, index)
    IN  Append(drives,
          [iface |-> if, media |-> media, bus |-> p.bus, unit |-> p.unit,
           index |-> p.bus * MaxDevs[if] + p.unit,
           auto |-> bus < 0 /\ unit < 0 /\ index < 0,
           name |-> IF id # NoId THEN id ELSE DefaultName(if, media, p),
           claimed |-> claimed])

AddDrive ==
    /\ phase = "options"
    /\ \E if \in Interfaces, media \in {"disk", "cdrom"}, id \in Ids \cup {NoId},
          bus \in Given(Buses), unit \in Given(Units), index \in Given(Indexes) :
             /\ if = "floppy" => media = "disk"
             /\ AddOk(if, bus, unit, index, id)
             /\ drives' = Added(if, media, bus, unit, index, id, FALSE)
    /\ UNCHANGED <<machine, no_defaults, want, phase, pos, entries, mon_dev>>

\* Options that are not good, or an image that cannot be opened, end the program.
AddRefused ==
    /\ phase = "options"
    /\ phase' = "refused"
    /\ UNCHANGED <<machine, no_defaults, want, drives, pos, entries, mon_dev>>

\* The options have been read: the machine is made.
Create ==
    /\ phase = "options"
    /\ phase' = "claim"
    /\ machine' \in Machines /\ no_defaults' \in BOOLEAN /\ want' \in Wants
    /\ UNCHANGED <<drives, pos, entries, mon_dev>>

Here == At(Machine[pos].iface, Machine[pos].bus, Machine[pos].unit)

\* gemu_drive_get at the machine's next position.  A medium the machine does
\* not take there is an error; a drive that floppies=N counts is added.
Claim ==
    /\ phase = "claim" /\ pos <= Len(Machine)
    /\ LET m == Machine[pos]
           adds == m.iface = "floppy" /\ m.unit < want /\ AddOk(m.iface, -1, -1, m.unit, NoId)
       IN  /\ drives' = IF Here = {} /\ adds
                        THEN Added(m.iface, "disk", -1, -1, m.unit, NoId, TRUE)
                        ELSE [i \in DOMAIN drives |->
                               [drives[i] EXCEPT !.claimed = @ \/ i \in Here]]
           /\ phase' = IF \A i \in Here : drives[i].media \in m.media
                       THEN "claim" ELSE "refused"
    /\ pos' = pos + 1
    /\ UNCHANGED <<machine, no_defaults, want, entries, mon_dev>>

\* gemu_drive_add_default: a machine that found no drive on the interface
\* adds an empty one at unit 0, unless -nodefaults.
AddsDefault ==
    /\ Default # NoDefault /\ ~no_defaults
    /\ \A i \in DOMAIN drives : ~(drives[i].iface = Default /\ drives[i].claimed)
    /\ At(Default, 0, 0) = {}
    /\ AddOk(Default, -1, -1, 0, NoId)

Claimed ==
    /\ phase = "claim" /\ pos > Len(Machine)
    /\ phase' = "attach" /\ pos' = 1
    /\ drives' = IF AddsDefault THEN Added(Default, "disk", -1, -1, 0, NoId, TRUE)
                 ELSE drives
    /\ UNCHANGED <<machine, no_defaults, want, entries, mon_dev>>

\* What find_media compares.
Spelt(i) == IF drives[i].name \in Ids THEN Spelling[drives[i].name] ELSE drives[i].name

\* gemu_monitor_find_media: the first entry under the name of drive i
EntryOf(i, es) ==
    CHOOSE e \in DOMAIN es :
        /\ Spelt(es[e]) = Spelt(i)
        /\ \A f \in 1..e - 1 : Spelt(es[f]) # Spelt(i)

\* gemu_drive_attach_monitor: an entry is registered for the drive at the next
\* position, and the drive remembers the entry found under its name.
Attach ==
    /\ phase = "attach" /\ pos <= Len(Machine)
    /\ \/ Here = {} /\ UNCHANGED <<entries, mon_dev>>
       \/ \E i \in Here :
             /\ entries' = Append(entries, i)
             /\ mon_dev' = [j \in DOMAIN mon_dev \cup {i} |->
                              IF j = i THEN EntryOf(i, entries') ELSE mon_dev[j]]
    /\ pos' = pos + 1
    /\ UNCHANGED <<machine, no_defaults, want, phase, drives>>

\* The last drive of the table is not looked at.
UnclaimedButLast == \E i \in 1..Len(drives) - 1 : ~drives[i].claimed
Unclaimed == \E i \in DOMAIN drives : ~drives[i].claimed

\* gemu_drive_check_unclaimed: a drive the machine did not ask for is an error.
CheckUnclaimed ==
    /\ phase = "attach" /\ pos > Len(Machine)
    /\ phase' = IF Unclaimed THEN "refused" ELSE "run"
    /\ UNCHANGED <<machine, no_defaults, want, drives, pos, entries, mon_dev>>

Over == phase \in {"run", "refused"} /\ UNCHANGED tableVars

\* The machine and its options are set by Create.
TableInit ==
    /\ machine = CHOOSE m \in Machines : TRUE
    /\ no_defaults = FALSE /\ want = 0
    /\ phase = "options" /\ drives = <<>> /\ pos = 1
    /\ entries = <<>> /\ mon_dev = <<>>

TableNext == \/ AddDrive \/ AddRefused \/ Create \/ Claim \/ Claimed
        \/ Attach \/ CheckUnclaimed \/ Over

TableSpec == TableInit /\ [][TableNext]_tableVars

-----------------------------------------------------------------------------
(***************************************************************************)
(* Properties.                                                             *)
(***************************************************************************)

\* The table never holds more than MAX_DRIVES drives, a name is in the table,
\* and every monitor entry stands for a drive of the table.
TableTypeOK ==
    /\ machine \in Machines /\ no_defaults \in BOOLEAN /\ want \in Wants
    /\ phase \in {"options", "claim", "attach", "run", "refused"}
    /\ Len(drives) <= MaxDrives
    /\ pos \in 1..Len(Machine) + 1
    /\ \A e \in DOMAIN entries : entries[e] \in DOMAIN drives
    /\ DOMAIN mon_dev \subseteq DOMAIN drives
    /\ \A i \in DOMAIN mon_dev : mon_dev[i] \in DOMAIN entries

\* Two drives never share a position, however their options were mixed, and
\* a unit fits on its bus, so that a position is one index and back.
PositionsUnique ==
    \A i, j \in DOMAIN drives :
        /\ i # j => \/ drives[i].iface # drives[j].iface
                    \/ drives[i].bus # drives[j].bus
                    \/ drives[i].unit # drives[j].unit
        /\ MaxDevs[drives[i].iface] # 0 =>
              /\ drives[i].unit < MaxDevs[drives[i].iface]
              /\ drives[i].index \div MaxDevs[drives[i].iface] = drives[i].bus

\* docs/drive.md: "Without index, bus or unit, a drive takes the next free
\* unit": when it was added, every position before its own was taken, and
\* none of those is ever given up.
NextFreeUnit ==
    \A i \in DOMAIN drives : drives[i].auto =>
        \A n \in 0..drives[i].index - 1 :
            \E j \in 1..i - 1 :
                /\ drives[j].iface = drives[i].iface
                /\ [bus |-> drives[j].bus, unit |-> drives[j].unit]
                      = Place(drives[i].iface, 0, n)

\* A machine runs only with drives it has a device for, each with a medium it
\* takes, and each has a monitor entry of its own (docs/drive.md: "A drive the
\* machine has no device for is an error").
AllClaimed ==
    phase = "run" => \A i \in DOMAIN drives :
        /\ \E k \in DOMAIN Machine :
              /\ i \in At(Machine[k].iface, Machine[k].bus, Machine[k].unit)
              /\ drives[i].media \in Machine[k].media
        /\ \E e \in DOMAIN entries : entries[e] = i

\* id= is compared with the names before it as it is spelt (drive.c, "Duplicate
\* ID '%s' for drive"): it may still be the default name of a drive that
\* follows, or another name in capitals.
Confused(i) ==
    \E j \in DOMAIN drives \ {i} :
        Spelt(i) = Spelt(j) /\ (drives[i].name \in Ids \/ drives[j].name \in Ids)

\* A drive keeps its own monitor entry current (notify), not that of another
\* drive, unless an id= confuses the two.
OwnEntry == \A i \in DOMAIN mon_dev : entries[mon_dev[i]] = i \/ Confused(i)

\* However the options were mixed, every drive ends at a position of its own,
\* the next free one where it named none, with a device that takes it and a
\* monitor entry that tells of it alone.
DrivesPlaced == PositionsUnique /\ NextFreeUnit /\ AllClaimed /\ OwnEntry
=============================================================================
