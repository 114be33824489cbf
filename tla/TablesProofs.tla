---------------------------- MODULE TablesProofs ----------------------------
(***************************************************************************)
(* Proofs about the monitor's tables: the block nodes, for every set of    *)
(* devices, nodes and files; the breakpoints, for every table size,        *)
(* address space and guest program; a drive's image, for images and        *)
(* chunks of every size; and the table of drives, for every machine and    *)
(* every limit.                                                            *)
(***************************************************************************)
EXTENDS MonitorBlock, DriveImage, Breakpoints, DriveTable, FiniteSets,
        FiniteSetTheorems, SequenceTheorems, WellFoundedInduction, TLAPS

\* Freeing a node keeps the node table well formed.
LEMMA FreedType ==
    ASSUME TypeOK, NEW d \in Devices
    PROVE  Freed(d) \in [Slots -> Nodes]
<1> SUFFICES ASSUME NEW s \in Slots
             PROVE  Freed(d)[s] \in Nodes
  BY Zenon DEF Freed
<1>1. nodes[s] \in Nodes
  BY DEF TypeOK
<1>2. [nodes[s] EXCEPT !.attached = NoDevice] \in Nodes
  BY <1>1 DEF Nodes
<1> QED
  BY <1>1, <1>2 DEF Freed

\* The helpers of the actions keep the types.
LEMMA HelperTypes ==
    ASSUME TypeOK, NEW d \in Devices
    PROVE  /\ Eject(d) => file' \in [Devices -> Media] /\ loaded' \in [Devices -> Media]
           /\ \A f \in Files : Load(d, f)
                => file' \in [Devices -> Media] /\ loaded' \in [Devices -> Media]
           /\ LoadFails(d) => file' \in [Devices -> Media] /\ loaded' \in [Devices -> Media]
           /\ DetachNode(d) => tray' \in [Devices -> Trays] /\ nodes' \in [Slots -> Nodes]
           /\ \A o \in BOOLEAN : RemoveMediumAnd(d, o)
                => tray' \in [Devices -> Trays] /\ nodes' \in [Slots -> Nodes]
<1>1. Eject(d) => file' \in [Devices -> Media] /\ loaded' \in [Devices -> Media]
  BY DEF TypeOK, Eject, Media
<1>2. ASSUME NEW f \in Files, Load(d, f)
      PROVE  file' \in [Devices -> Media] /\ loaded' \in [Devices -> Media]
  BY <1>2 DEF TypeOK, Load, Media
<1>3. LoadFails(d) => file' \in [Devices -> Media] /\ loaded' \in [Devices -> Media]
  BY DEF TypeOK, LoadFails, Media
<1>4. ASSUME DetachNode(d)
      PROVE  tray' \in [Devices -> Trays] /\ nodes' \in [Slots -> Nodes]
  <2>1. [tray[d] EXCEPT !.node = NoSlot] \in Trays
    BY DEF TypeOK, Trays
  <2> QED
    BY <1>4, <2>1, FreedType DEF TypeOK, DetachNode
<1>5. ASSUME NEW o \in BOOLEAN, RemoveMediumAnd(d, o)
      PROVE  tray' \in [Devices -> Trays] /\ nodes' \in [Slots -> Nodes]
  <2>1. [open |-> o, file |-> NoFile, node |-> NoSlot] \in Trays
    BY DEF Trays, Media
  <2> QED
    BY <1>5, <2>1, FreedType DEF TypeOK, RemoveMediumAnd
<1> QED
  BY <1>1, <1>2, <1>3, <1>4, <1>5

\* One step keeps the types.
LEMMA TypeStep == TypeOK /\ [Next]_vars => TypeOK'
<1> SUFFICES ASSUME TypeOK, [Next]_vars
             PROVE  TypeOK'
  OBVIOUS
<1>1. ASSUME NEW n \in Names, NEW f \in Files, Add(n, f)
      PROVE  TypeOK'
  <2>1. [used |-> TRUE, name |-> n, file |-> f, attached |-> NoDevice] \in Nodes
    BY DEF Nodes, Media
  <2> QED
    BY <1>1, <2>1 DEF Add, TypeOK
<1>2. ASSUME NEW n \in Names, Del(n)
      PROVE  TypeOK'
  <2>1. PICK s \in Slots : nodes' = [nodes EXCEPT ![s].used = FALSE]
    BY <1>2 DEF Del, NodeNamed
  <2>2. [nodes[s] EXCEPT !.used = FALSE] \in Nodes
    BY DEF TypeOK, Nodes
  <2> QED
    BY <1>2, <2>1, <2>2 DEF Del, TypeOK
<1>3. ASSUME NEW d \in Devices, OpenTray(d)
      PROVE  TypeOK'
  <2>1. /\ [tray[d] EXCEPT !.open = TRUE] \in Trays
        /\ [tray[d] EXCEPT !.open = TRUE, !.file = file[d]] \in Trays
    BY DEF TypeOK, Trays
  <2>2. tray' \in [Devices -> Trays]
    BY <1>3, <2>1 DEF OpenTray, TypeOK
  <2> QED
    BY <1>3, <2>2, HelperTypes DEF OpenTray, TypeOK
<1>4. ASSUME NEW d \in Devices, RemoveMedium(d)
      PROVE  TypeOK'
  BY <1>4, HelperTypes DEF RemoveMedium, TypeOK
<1>5. ASSUME NEW d \in Devices, CmdEject(d)
      PROVE  TypeOK'
  BY <1>5, HelperTypes DEF CmdEject, TypeOK
<1>6. ASSUME NEW d \in Devices, NEW ok \in BOOLEAN, CloseTray(d, ok)
      PROVE  TypeOK'
  <2>1. /\ [tray[d] EXCEPT !.open = FALSE] \in Trays
        /\ [tray[d] EXCEPT !.open = FALSE, !.file = NoFile] \in Trays
    BY DEF TypeOK, Trays, Media
  <2>2. tray' \in [Devices -> Trays]
    BY <1>6, <2>1 DEF CloseTray, TypeOK
  <2>3. tray[d].file # NoFile => tray[d].file \in Files
    BY DEF TypeOK, Trays, Media
  <2>4. file' \in [Devices -> Media] /\ loaded' \in [Devices -> Media]
    BY <1>6, <2>3, HelperTypes DEF CloseTray, TypeOK
  <2> QED
    BY <1>6, <2>2, <2>4 DEF CloseTray, TypeOK
<1>7. ASSUME NEW d \in Devices, NEW n \in Names, InsertMedium(d, n)
      PROVE  TypeOK'
  <2>1. PICK s \in Slots :
           /\ tray' = [tray EXCEPT ![d].file = nodes[s].file, ![d].node = s]
           /\ nodes' = [nodes EXCEPT ![s].attached = d]
    BY <1>7 DEF InsertMedium, NodeNamed
  <2>2. nodes[s].file \in Media
    BY DEF TypeOK, Nodes
  <2>3. [tray[d] EXCEPT !.file = nodes[s].file, !.node = s] \in Trays
    BY <2>2 DEF TypeOK, Trays
  <2>4. [nodes[s] EXCEPT !.attached = d] \in Nodes
    BY DEF TypeOK, Nodes
  <2> QED
    BY <1>7, <2>1, <2>3, <2>4 DEF InsertMedium, TypeOK
<1>8. ASSUME NEW d \in Devices, NEW f \in Files, NEW ok \in BOOLEAN,
             ChangeMedium(d, f, ok)
      PROVE  TypeOK'
  <2>1. file' \in [Devices -> Media] /\ loaded' \in [Devices -> Media]
    BY <1>8, HelperTypes DEF ChangeMedium
  <2>2. tray' \in [Devices -> Trays] /\ nodes' \in [Slots -> Nodes]
    BY <1>8, HelperTypes DEF ChangeMedium, TypeOK
  <2> QED
    BY <2>1, <2>2 DEF TypeOK
<1>9. ASSUME NEW d \in Devices, NEW f \in Files, NEW ok \in BOOLEAN,
             CmdChange(d, f, ok)
      PROVE  TypeOK'
  BY <1>9, HelperTypes DEF CmdChange, TypeOK
<1>10. CASE UNCHANGED vars
  BY <1>10 DEF vars, TypeOK
<1> QED
  BY <1>1, <1>2, <1>3, <1>4, <1>5, <1>6, <1>7, <1>8, <1>9, <1>10 DEF Next

LEMMA TypeInit == Init => TypeOK
<1> SUFFICES ASSUME Init
             PROVE  TypeOK
  OBVIOUS
<1>1. [open |-> FALSE, file |-> NoFile, node |-> NoSlot] \in Trays
  BY DEF Trays, Media
<1>2. \A n \in Names : [used |-> FALSE, name |-> n, file |-> NoFile,
                        attached |-> NoDevice] \in Nodes
  BY DEF Nodes, Media
<1> QED
  BY <1>1, <1>2 DEF Init, TypeOK, Media

\* Type correctness of the trays, the nodes and the devices.
THEOREM TypeCorrect == Spec => []TypeOK
  BY TypeInit, TypeStep, PTL DEF Spec

-----------------------------------------------------------------------------
\* Freeing the node of one drive does not touch the node of another.
LEMMA FreedLinks ==
    ASSUME TypeOK, NodeLinked, NEW d \in Devices,
           nodes' = Freed(d), tray' \in [Devices -> Trays],
           tray'[d].node = NoSlot,
           \A e \in Devices : e # d => tray'[e] = tray[e]
    PROVE  NodeLinked'
<1> SUFFICES ASSUME NEW e \in Devices, tray'[e].node # NoSlot
             PROVE  nodes'[tray'[e].node].used /\ nodes'[tray'[e].node].attached = e
  BY DEF NodeLinked
<1>1. e # d /\ tray'[e] = tray[e]
  OBVIOUS
<1>2. tray[e].node \in Slots
  BY <1>1, SlotsAssumption DEF TypeOK, Trays
<1>3. nodes[tray[e].node].used /\ nodes[tray[e].node].attached = e
  BY <1>1 DEF NodeLinked
<1>4. tray[e].node # tray[d].node
  BY <1>1, <1>2, <1>3, SlotsAssumption DEF NodeLinked
<1> QED
  BY <1>1, <1>2, <1>3, <1>4 DEF Freed

\* The two ways of letting a node go.
LEMMA DetachLinks ==
    ASSUME TypeOK, NodeLinked, NEW d \in Devices
    PROVE  /\ DetachNode(d) => NodeLinked'
           /\ \A o \in BOOLEAN : RemoveMediumAnd(d, o) => NodeLinked'
<1>1. ASSUME DetachNode(d)
      PROVE  NodeLinked'
  <2>1. tray' \in [Devices -> Trays]
    BY <1>1, HelperTypes
  <2>2. tray'[d].node = NoSlot /\ \A e \in Devices : e # d => tray'[e] = tray[e]
    BY <1>1 DEF DetachNode, TypeOK, Trays
  <2> QED
    BY <1>1, <2>1, <2>2, FreedLinks DEF DetachNode
<1>2. ASSUME NEW o \in BOOLEAN, RemoveMediumAnd(d, o)
      PROVE  NodeLinked'
  <2>1. tray' \in [Devices -> Trays]
    BY <1>2, HelperTypes
  <2>2. tray'[d].node = NoSlot /\ \A e \in Devices : e # d => tray'[e] = tray[e]
    BY <1>2 DEF RemoveMediumAnd, TypeOK
  <2> QED
    BY <1>2, <2>1, <2>2, FreedLinks DEF RemoveMediumAnd
<1> QED
  BY <1>1, <1>2

\* Steps that leave the nodes and the drives' references to them alone.
LEMMA SameLinks ==
    ASSUME TypeOK, NodeLinked, nodes' = nodes,
           \A e \in Devices : tray'[e].node = tray[e].node
    PROVE  NodeLinked'
  BY DEF NodeLinked

\* One step keeps every reference to a node valid.
LEMMA LinkStep == TypeOK /\ NodeLinked /\ [Next]_vars => NodeLinked'
<1> SUFFICES ASSUME TypeOK, NodeLinked, [Next]_vars
             PROVE  NodeLinked'
  OBVIOUS
<1> USE SlotsAssumption, DevicesAssumption
<1>0. \A e \in Devices : tray[e].node # NoSlot => tray[e].node \in Slots
  BY DEF TypeOK, Trays
<1>1. ASSUME NEW n \in Names, NEW f \in Files, Add(n, f)
      PROVE  NodeLinked'
  <2>1. PICK s \in Slots :
           /\ ~nodes[s].used
           /\ nodes' = [nodes EXCEPT ![s] = [used |-> TRUE, name |-> n,
                                             file |-> f,
                                             attached |-> NoDevice]]
    BY <1>1 DEF Add
  <2>2. tray' = tray
    BY <1>1 DEF Add
  <2>3. \A e \in Devices : tray[e].node # s
    BY <2>1 DEF NodeLinked
  <2>4. \A t \in Slots : t # s => nodes'[t] = nodes[t]
    BY <2>1 DEF TypeOK
  <2> QED
    BY <1>0, <2>2, <2>3, <2>4 DEF NodeLinked
<1>2. ASSUME NEW n \in Names, Del(n)
      PROVE  NodeLinked'
  <2>1. PICK s \in Slots : /\ nodes[s].attached = NoDevice
                          /\ nodes' = [nodes EXCEPT ![s].used = FALSE]
    BY <1>2 DEF Del, NodeNamed, Deletable
  <2>2. tray' = tray
    BY <1>2 DEF Del
  <2>3. \A e \in Devices : tray[e].node # s
    BY <2>1 DEF NodeLinked
  <2>4. \A t \in Slots : t # s => nodes'[t] = nodes[t]
    BY <2>1 DEF TypeOK
  <2> QED
    BY <1>0, <2>2, <2>3, <2>4 DEF NodeLinked
<1>3. ASSUME NEW d \in Devices, OpenTray(d)
      PROVE  NodeLinked'
  <2>1. nodes' = nodes /\ \A e \in Devices : tray'[e].node = tray[e].node
    BY <1>3 DEF OpenTray, TypeOK, Trays
  <2> QED
    BY <2>1, SameLinks
<1>4. ASSUME NEW d \in Devices, RemoveMedium(d)
      PROVE  NodeLinked'
  BY <1>4, DetachLinks DEF RemoveMedium
<1>5. ASSUME NEW d \in Devices, CmdEject(d)
      PROVE  NodeLinked'
  BY <1>5, DetachLinks DEF CmdEject
<1>6. ASSUME NEW d \in Devices, NEW ok \in BOOLEAN, CloseTray(d, ok)
      PROVE  NodeLinked'
  <2>1. nodes' = nodes /\ \A e \in Devices : tray'[e].node = tray[e].node
    BY <1>6 DEF CloseTray, TypeOK, Trays
  <2> QED
    BY <2>1, SameLinks
<1>7. ASSUME NEW d \in Devices, NEW n \in Names, InsertMedium(d, n)
      PROVE  NodeLinked'
  <2>1. PICK s \in Slots :
           /\ nodes[s].used /\ nodes[s].attached = NoDevice
           /\ tray' = [tray EXCEPT ![d].file = nodes[s].file, ![d].node = s]
           /\ nodes' = [nodes EXCEPT ![s].attached = d]
    BY <1>7 DEF InsertMedium, NodeNamed, CanInsert
  <2>2. \A e \in Devices : tray[e].node # s
    BY <2>1 DEF NodeLinked
  <2>3. \A t \in Slots : t # s => nodes'[t] = nodes[t]
    BY <2>1 DEF TypeOK
  <2>4. nodes'[s].used /\ nodes'[s].attached = d
    BY <2>1 DEF TypeOK, Nodes
  <2>5. tray'[d].node = s
    BY <2>1 DEF TypeOK, Trays
  <2>6. \A e \in Devices : e # d => tray'[e] = tray[e]
    BY <2>1 DEF TypeOK
  <2> QED
    BY <1>0, <2>2, <2>3, <2>4, <2>5, <2>6 DEF NodeLinked
<1>8. ASSUME NEW d \in Devices, NEW f \in Files, NEW ok \in BOOLEAN,
             ChangeMedium(d, f, ok)
      PROVE  NodeLinked'
  BY <1>8, DetachLinks, SameLinks DEF ChangeMedium
<1>9. ASSUME NEW d \in Devices, NEW f \in Files, NEW ok \in BOOLEAN,
             CmdChange(d, f, ok)
      PROVE  NodeLinked'
  BY <1>9, DetachLinks, SameLinks DEF CmdChange
<1>10. CASE UNCHANGED vars
  BY <1>10 DEF vars, NodeLinked
<1> QED
  BY <1>1, <1>2, <1>3, <1>4, <1>5, <1>6, <1>7, <1>8, <1>9, <1>10 DEF Next

\* No drive ever refers to a deleted node or to one another drive holds.
THEOREM NodesLinked == Spec => []NodeLinked
<1>1. Init => NodeLinked
  BY DEF Init, NodeLinked
<1> QED
  BY <1>1, TypeInit, TypeStep, LinkStep, PTL DEF Spec

-----------------------------------------------------------------------------
\* What makes MediumInOnePlace inductive: the monitor knows every medium a
\* device holds, so that opening the tray takes it out.
MediumKnown == \A d \in Devices \ Late : loaded[d] \in {NoFile, file[d]}

MediumInv == MediumInOnePlace /\ MediumKnown /\ FileCurrent

\* One step keeps media in one place and known to the monitor.
LEMMA MediumStep == TypeOK /\ MediumInv /\ [Next]_vars => MediumInv'
<1> SUFFICES ASSUME TypeOK, MediumInv, [Next]_vars
             PROVE  MediumInv'
  OBVIOUS
<1> USE DEF MediumInv, MediumInOnePlace, MediumKnown, FileCurrent
<1>1. ASSUME NEW n \in Names, NEW f \in Files, Add(n, f)
      PROVE  MediumInv'
  BY <1>1 DEF Add
<1>2. ASSUME NEW n \in Names, Del(n)
      PROVE  MediumInv'
  BY <1>2 DEF Del
<1>3. ASSUME NEW d \in Devices, OpenTray(d)
      PROVE  MediumInv'
  BY <1>3 DEF OpenTray, Eject, TypeOK, Trays
<1>4. ASSUME NEW d \in Devices, RemoveMedium(d)
      PROVE  MediumInv'
  BY <1>4 DEF RemoveMedium, RemoveMediumAnd, TypeOK
<1>5. ASSUME NEW d \in Devices, CmdEject(d)
      PROVE  MediumInv'
  BY <1>5 DEF CmdEject, Eject, RemoveMediumAnd, TypeOK
<1>6. ASSUME NEW d \in Devices, NEW ok \in BOOLEAN, CloseTray(d, ok)
      PROVE  MediumInv'
  BY <1>6 DEF CloseTray, Load, LoadFails, TypeOK, Trays
<1>7. ASSUME NEW d \in Devices, NEW n \in Names, InsertMedium(d, n)
      PROVE  MediumInv'
  BY <1>7 DEF InsertMedium, TypeOK, Trays
<1>8. ASSUME NEW d \in Devices, NEW f \in Files, NEW ok \in BOOLEAN,
             ChangeMedium(d, f, ok)
      PROVE  MediumInv'
  <2>1. CASE tray[d].open
    <3>1. CASE ok
      <4>1. /\ loaded' = [loaded EXCEPT ![d] = f]
            /\ file' = [file EXCEPT ![d] = f]
        BY <1>8, <3>1 DEF ChangeMedium, Load
      <4>2. tray' = [tray EXCEPT ![d] = [open |-> FALSE, file |-> NoFile,
                                         node |-> NoSlot]]
        BY <1>8, <2>1, <3>1 DEF ChangeMedium, RemoveMediumAnd
      <4> QED
        BY <4>1, <4>2 DEF TypeOK
    <3>2. CASE ~ok
      BY <1>8, <2>1, <3>2 DEF ChangeMedium, RemoveMediumAnd, LoadFails, TypeOK
    <3> QED
      BY <3>1, <3>2
  <2>2. CASE ~tray[d].open
    BY <1>8, <2>2 DEF ChangeMedium, DetachNode, Load, LoadFails, TypeOK, Trays
  <2> QED
    BY <2>1, <2>2
<1>9. ASSUME NEW d \in Devices, NEW f \in Files, NEW ok \in BOOLEAN,
             CmdChange(d, f, ok)
      PROVE  MediumInv'
  BY <1>9 DEF CmdChange, RemoveMediumAnd, Load, LoadFails, TypeOK
<1>10. CASE UNCHANGED vars
  BY <1>10 DEF vars
<1> QED
  BY <1>1, <1>2, <1>3, <1>4, <1>5, <1>6, <1>7, <1>8, <1>9, <1>10 DEF Next

LEMMA MediumInit == Init => MediumInv
  BY DEF Init, MediumInv, MediumInOnePlace, MediumKnown, FileCurrent

\* The machine sees an empty device while its tray is open, and no medium
\* lies in a closed tray, for every device registered with its medium.
THEOREM MediaInOnePlace == Spec => []MediumInOnePlace
<1>1. MediumInv => MediumInOnePlace
  BY DEF MediumInv
<1> QED
  BY <1>1, MediumInit, TypeInit, TypeStep, MediumStep, PTL DEF Spec

\* The monitor's file names stay current, for every device that reports the
\* media it loses.
THEOREM FilesCurrent == Spec => []FileCurrent
<1>1. MediumInv => FileCurrent
  BY DEF MediumInv
<1> QED
  BY <1>1, MediumInit, TypeInit, TypeStep, MediumStep, PTL DEF Spec

-----------------------------------------------------------------------------
-----------------------------------------------------------------------------
(***************************************************************************)
(* What the memmove of cmd_delete leaves: the entries in front of the      *)
(* deleted one stay, the ones behind it move up one place.                 *)
(***************************************************************************)
Without(s, i) == SubSeq(s, 1, i - 1) \o SubSeq(s, i + 1, Len(s))

LEMMA WithoutEntry ==
    ASSUME NEW S, NEW s \in Seq(S), NEW i \in 1..Len(s)
    PROVE  /\ Without(s, i) \in Seq(S)
           /\ Len(Without(s, i)) = Len(s) - 1
           /\ \A j \in 1..(Len(s) - 1) :
                 Without(s, i)[j] = IF j < i THEN s[j] ELSE s[j + 1]
<1> DEFINE a == SubSeq(s, 1, i - 1)
           b == SubSeq(s, i + 1, Len(s))
<1>1. Len(s) \in Nat
  OBVIOUS
<1>2. a \in Seq(S) /\ Len(a) = i - 1 /\ \A j \in 1..(i - 1) : a[j] = s[j]
  BY <1>1
<1>3. b \in Seq(S) /\ Len(b) = Len(s) - i
        /\ \A j \in 1..(Len(s) - i) : b[j] = s[i + j]
  BY <1>1
<1> HIDE DEF a, b
<1>4. a \o b \in Seq(S) /\ Len(a \o b) = Len(s) - 1
  <2>1. a \o b \in Seq(S) /\ Len(a \o b) = Len(a) + Len(b)
    BY <1>2, <1>3, ConcatProperties
  <2> QED
    BY <1>1, <1>2, <1>3, <2>1
<1>5. ASSUME NEW j \in 1..(Len(s) - 1)
      PROVE  (a \o b)[j] = IF j < i THEN s[j] ELSE s[j + 1]
  <2>1. CASE j < i
    BY <1>1, <1>2, <1>3, <2>1
  <2>2. CASE ~(j < i)
    <3>1. (a \o b)[j] = b[j - (i - 1)]
      BY <1>1, <1>2, <1>3, <2>2
    <3>2. b[j - (i - 1)] = s[i + (j - (i - 1))]
      BY <1>1, <1>3, <2>2
    <3> QED
      BY <1>1, <2>2, <3>1, <3>2
  <2> QED
    BY <2>1, <2>2
<1> QED
  BY <1>4, <1>5 DEF a, b, Without

(***************************************************************************)
(* The breakpoint table keeps its types and its size, and ids are unique   *)
(* and in order, for any number of breakpoints set and deleted.            *)
(***************************************************************************)
THEOREM TableCorrect == BpSpec => [](BpTypeOK /\ IdsAscend)
<1> USE BpAssumption
<1>1. BpInit => BpTypeOK /\ IdsAscend
  <2> SUFFICES ASSUME BpInit PROVE BpTypeOK /\ IdsAscend
    OBVIOUS
  <2>1. bps \in Seq(Entries) /\ Len(bps) = 0 /\ DOMAIN bps = {}
    BY EmptySeq DEF BpInit
  <2>2. BpTypeOK
    <3>1. Len(bps) <= BP_MAX
      BY <2>1
    <3>2. nextId = 0 /\ Vector \in Addr /\ 0 \in 0..MaxId
      BY DEF BpInit
    <3> QED
      BY <2>1, <3>1, <3>2 DEF BpInit, BpTypeOK
  <2>3. IdsAscend
    BY <2>1 DEF IdsAscend
  <2> QED
    BY <2>2, <2>3
<1>2. BpTypeOK /\ IdsAscend /\ [BpNext]_bpVars => BpTypeOK' /\ IdsAscend'
  <2> SUFFICES ASSUME BpTypeOK, IdsAscend, [BpNext]_bpVars PROVE BpTypeOK' /\ IdsAscend'
    OBVIOUS
  <2> DEFINE Rest == /\ hasExec' \in BOOLEAN /\ hasMem' \in BOOLEAN
                     /\ skip' \in BOOLEAN /\ skipAddr' \in Addr
                     /\ paused' \in BOOLEAN /\ pc' \in Addr
                     /\ inFrame' \in BOOLEAN /\ stoppedOn' \in BOOLEAN
                     /\ passed' \in BOOLEAN /\ running' \in BOOLEAN
  <2>1. ASSUME NEW type \in Types, NEW x \in Addr, AddBp(type, x)
        PROVE  BpTypeOK' /\ IdsAscend'
    <3> DEFINE e == [id |-> nextId + 1, type |-> type, addr |-> x]
    <3>1. e \in Entries
      BY <2>1 DEF AddBp, Entries, BpTypeOK
    <3>2. bps' = Append(bps, e) /\ nextId' = nextId + 1 /\ Rest
      BY <2>1 DEF AddBp, SetTable, FreshId, BpTypeOK, ExecIn, MemIn
    <3>3. Len(bps) \in Nat /\ Len(bps) < BP_MAX /\ nextId < MaxId
      BY <2>1 DEF AddBp, Room, BpTypeOK
    <3>4. e.id = nextId + 1
      OBVIOUS
    <3> HIDE DEF e
    <3>5. /\ bps' \in Seq(Entries) /\ Len(bps') = Len(bps) + 1
          /\ \A i \in 1..Len(bps) : bps'[i] = bps[i]
          /\ bps'[Len(bps) + 1] = e
      BY <3>1, <3>2 DEF BpTypeOK
    <3>6. BpTypeOK'
      BY <3>2, <3>3, <3>5 DEF BpTypeOK
    <3>7. \A i \in 1..Len(bps) : bps[i].id <= nextId /\ bps[i].id \in Nat
      <4>1. \A k \in 1..Len(bps) : bps[k] \in Entries
        BY DEF BpTypeOK
      <4>2. \A y \in Entries : y.id \in Nat
        BY DEF Entries
      <4> QED
        BY <4>1, <4>2 DEF IdsAscend, BpTypeOK
    <3>8. IdsAscend'
      BY <3>2, <3>3, <3>4, <3>5, <3>7 DEF IdsAscend, BpTypeOK
    <3> QED
      BY <3>6, <3>8
  <2>2. CASE DeleteAll
    <3>1. bps' = <<>> /\ nextId' = nextId /\ Rest
      BY <2>2 DEF DeleteAll, SetTable, BpTypeOK, ExecIn, MemIn
    <3> QED
      BY <3>1 DEF BpTypeOK, IdsAscend
  <2>3. ASSUME NEW n \in 1..MaxId, Delete(n) PROVE BpTypeOK' /\ IdsAscend'
    <3>1. PICK i \in DOMAIN bps : SetTable(Without(bps, i))
      BY <2>3 DEF Delete, Without
    <3>2. bps' = Without(bps, i) /\ nextId' = nextId /\ Rest
      BY <2>3, <3>1 DEF Delete, SetTable, BpTypeOK, ExecIn, MemIn
    <3>3. i \in 1..Len(bps) /\ Len(bps) \in Nat
      BY DEF BpTypeOK
    <3>4. /\ bps' \in Seq(Entries) /\ Len(bps') = Len(bps) - 1
          /\ \A j \in 1..(Len(bps) - 1) :
                bps'[j] = IF j < i THEN bps[j] ELSE bps[j + 1]
      BY <3>2, <3>3, WithoutEntry DEF BpTypeOK
    <3>5. BpTypeOK'
      BY <3>2, <3>3, <3>4 DEF BpTypeOK
    <3>6. \A j \in 1..Len(bps) : bps[j].id \in Nat /\ bps[j].id <= nextId
      <4>1. \A k \in 1..Len(bps) : bps[k] \in Entries
        BY DEF BpTypeOK
      <4>2. \A x \in Entries : x.id \in Nat
        BY DEF Entries
      <4> QED
        BY <4>1, <4>2 DEF IdsAscend, BpTypeOK
    <3>7. IdsAscend'
      <4>1. ASSUME NEW j \in DOMAIN bps' PROVE bps'[j].id <= nextId'
        BY <3>2, <3>3, <3>4, <3>6
      <4>2. ASSUME NEW j \in DOMAIN bps', NEW k \in DOMAIN bps', j < k
            PROVE  bps'[j].id < bps'[k].id
        <5>1. j \in 1..(Len(bps) - 1) /\ k \in 1..(Len(bps) - 1)
          BY <3>4
        <5>2. PICK p, q \in 1..Len(bps) :
                p < q /\ bps'[j] = bps[p] /\ bps'[k] = bps[q]
          <6>1. CASE k < i
            BY <3>3, <3>4, <4>2, <5>1, <6>1
          <6>2. CASE j < i /\ ~(k < i)
            BY <3>3, <3>4, <4>2, <5>1, <6>2
          <6>3. CASE ~(j < i)
            BY <3>3, <3>4, <4>2, <5>1, <6>3
          <6> QED
            BY <3>3, <4>2, <5>1, <6>1, <6>2, <6>3
        <5> QED
          BY <5>2 DEF IdsAscend, BpTypeOK
      <4> QED
        BY <4>1, <4>2 DEF IdsAscend
    <3> QED
      BY <3>5, <3>7
  <2>4. ASSUME UNCHANGED table, Rest PROVE BpTypeOK' /\ IdsAscend'
    BY <2>4 DEF table, BpTypeOK, IdsAscend
  <2>5. CASE Cont \/ Stop \/ StartFrame \/ EndFrame \/ UNCHANGED bpVars
    <3>1. UNCHANGED table /\ Rest
      BY <2>5 DEF Cont, Stop, StartFrame, EndFrame, bpVars, table, BpTypeOK
    <3> QED
      BY <2>4, <3>1
  <2>6. CASE (\E a \in Addr : Step(a)) \/ (\E r \in SUBSET Addr : Reset(r))
    <3>1. UNCHANGED table /\ Rest
      BY <2>6 DEF Step, Reset, table, BpTypeOK, Watched
    <3> QED
      BY <2>4, <3>1
  <2>7. CASE HitExec
    <3>1. UNCHANGED table /\ Rest
      BY <2>7 DEF HitExec, table, BpTypeOK
    <3> QED
      BY <2>4, <3>1
  <2>8. CASE Runs
    <3>1. UNCHANGED table /\ Rest
      BY <2>8 DEF Runs, Instruction, SkipAfter, Leaves, Watched, Hits, table, BpTypeOK
    <3> QED
      BY <2>4, <3>1
  <2> QED
    BY <2>1, <2>2, <2>3, <2>5, <2>6, <2>7, <2>8 DEF BpNext
<1> QED
  BY <1>1, <1>2, PTL DEF BpSpec

-----------------------------------------------------------------------------
(***************************************************************************)
(* The flags that let the run loop skip the table agree with it after any  *)
(* sequence of break, watch and delete.                                    *)
(***************************************************************************)
THEOREM FlagsAgree == BpSpec => []FlagsMatch
<1>1. BpInit => FlagsMatch
  <2> SUFFICES ASSUME BpInit PROVE FlagsMatch
    OBVIOUS
  <2>1. DOMAIN bps = {}
    BY DEF BpInit
  <2>2. ~ExecIn(bps) /\ ~MemIn(bps)
    BY <2>1 DEF ExecIn, MemIn
  <2> QED
    BY <2>2 DEF BpInit, FlagsMatch
<1>2. FlagsMatch /\ [BpNext]_bpVars => FlagsMatch'
  <2> SUFFICES ASSUME FlagsMatch, [BpNext]_bpVars PROVE FlagsMatch'
    OBVIOUS
  <2>1. ASSUME NEW s, SetTable(s) PROVE FlagsMatch'
    BY <2>1 DEF SetTable, FlagsMatch, ExecIn, MemIn
  <2>2. CASE UNCHANGED table
    BY <2>2 DEF table, FlagsMatch, ExecIn, MemIn
  <2>3. CASE \E type \in Types, a \in Addr : AddBp(type, a)
    BY <2>1, <2>3 DEF AddBp
  <2>4. CASE DeleteAll
    BY <2>1, <2>4 DEF DeleteAll
  <2>5. CASE \E n \in 1..MaxId : Delete(n)
    BY <2>1, <2>5 DEF Delete
  <2> QED
    BY <2>2, <2>3, <2>4, <2>5
    DEF BpNext, bpVars, table, Cont, Stop, Reset, Step, StartFrame, HitExec, Runs,
        Instruction, EndFrame
<1> QED
  BY <1>1, <1>2, PTL DEF BpSpec

-----------------------------------------------------------------------------
(***************************************************************************)
(* The run loop runs no instruction while the machine is paused.           *)
(***************************************************************************)
THEOREM PausedIsStill == BpSpec => []PausedRunsNothing
<1>1. BpInit => PausedRunsNothing
  BY DEF BpInit, PausedRunsNothing
<1>2. PausedRunsNothing /\ [BpNext]_bpVars => PausedRunsNothing'
  BY DEF PausedRunsNothing, BpNext, bpVars, AddBp, DeleteAll, Delete, Cont, Stop,
         Reset, Step, StartFrame, HitExec, Runs, Instruction, Leaves, EndFrame,
         Polling
<1> QED
  BY <1>1, <1>2, PTL DEF BpSpec

-----------------------------------------------------------------------------
(***************************************************************************)
(* What the skip of check_exec stands for: a stop that was not resumed     *)
(* leaves a skip for its address, and a breakpointed instruction that ran  *)
(* has used the skip up.                                                   *)
(***************************************************************************)
SkipInv ==
    /\ stoppedOn => skip /\ skipAddr = pc
    /\ passed => ~skip

AddOrDelete ==
    \/ \E type \in Types, a \in Addr : AddBp(type, a)
    \/ DeleteAll
    \/ \E n \in 1..MaxId : Delete(n)

LEMMA SkipInvariant == BpSpec => [](FlagsMatch /\ SkipInv)
<1>1. BpInit => SkipInv
  BY DEF BpInit, SkipInv
<1>2. FlagsMatch /\ SkipInv /\ [BpNext]_bpVars => SkipInv'
  <2> SUFFICES ASSUME FlagsMatch, SkipInv, [BpNext]_bpVars PROVE SkipInv'
    OBVIOUS
  <2>1. CASE HitExec
    BY <2>1 DEF HitExec, SkipInv
  <2>2. CASE Runs
    <3>1. PICK reads, writes \in SUBSET Addr, next \in Addr :
             Instruction(reads, writes, next)
      BY <2>2 DEF Runs
    <3>2. CASE Hits("exec", pc)
      <4>1. hasExec
        BY <3>2 DEF FlagsMatch, Hits, ExecIn
      <4> QED
        BY <3>1, <4>1 DEF Instruction, SkipAfter, SkipInv
    <3>3. CASE ~Hits("exec", pc)
      BY <3>1, <3>3 DEF Instruction, SkipAfter, SkipInv
    <3> QED
      BY <3>2, <3>3
  <2>3. CASE (\E a \in Addr : Step(a)) \/ (\E r \in SUBSET Addr : Reset(r))
    <3>1. stoppedOn' = FALSE /\ UNCHANGED <<skip, passed>>
      BY <2>3 DEF Step, Reset
    <3> QED
      BY <3>1 DEF SkipInv
  <2>4. CASE UNCHANGED <<skip, skipAddr, pc, stoppedOn, passed>>
    BY <2>4 DEF SkipInv
  <2>5. ASSUME AddOrDelete PROVE UNCHANGED <<skip, skipAddr, pc, stoppedOn, passed>>
    BY <2>5 DEF AddOrDelete, AddBp, DeleteAll, Delete
  <2> QED
    BY <2>1, <2>2, <2>3, <2>4, <2>5
    DEF BpNext, AddOrDelete, bpVars, Cont, Stop, StartFrame, EndFrame
<1> QED
  BY <1>1, <1>2, FlagsAgree, PTL DEF BpSpec

(***************************************************************************)
(* A machine stopped at a breakpoint and continued runs the instruction it *)
(* was stopped on: it is not stopped on it again.                          *)
(***************************************************************************)
THEOREM ResumedRuns == BpSpec => ResumeRuns
<1>1. SkipInv /\ [BpNext]_bpVars => [HitExec => ~stoppedOn]_bpVars
  BY DEF SkipInv, HitExec, Resuming
<1> QED
  BY <1>1, SkipInvariant, PTL DEF BpSpec, ResumeRuns

(***************************************************************************)
(* Between two stops at most one breakpointed instruction runs.            *)
(***************************************************************************)
THEOREM AtMostOnePass == BpSpec => OnePass
<1>1. FlagsMatch /\ SkipInv /\ [BpNext]_bpVars
        => [passed /\ Hits("exec", pc) => ~Runs]_bpVars
  <2> SUFFICES ASSUME FlagsMatch, SkipInv, passed, Hits("exec", pc), Runs
               PROVE FALSE
    OBVIOUS
  <2>1. hasExec
    BY DEF FlagsMatch, Hits, ExecIn
  <2> QED
    BY <2>1 DEF Runs, Instruction, Resuming, SkipInv
<1> QED
  BY <1>1, SkipInvariant, PTL DEF BpSpec, OnePass

(***************************************************************************)
(* Both: the skip of a continued machine is used for the instruction it    *)
(* was stopped on, and for no other.                                       *)
(***************************************************************************)
THEOREM StopsOnce == BpSpec => StopsOncePerVisit
BY ResumedRuns, AtMostOnePass DEF StopsOncePerVisit

-----------------------------------------------------------------------------
(***************************************************************************)
(* The image of a drive.                                                   *)
(***************************************************************************)


\* The parts of the type invariant, by the prover that handles them.
ImageFlags == /\ readonly \in BOOLEAN /\ snapshot \in BOOLEAN
         /\ booted \in BOOLEAN /\ medium_ro \in BOOLEAN

ImageContents ==
    /\ kind \in {"disk", "cdrom", "floppy"}
    /\ image \in Images \cup {NoImage}
    /\ copied \in SUBSET Chunks
    /\ mem \in [Cells -> Values]
    /\ disk \in [Images -> [Cells -> Values]]
    /\ expect \in [Images -> [Cells -> Values \cup {Unknown}]]

LEMMA ImageParts == ImageTypeOK <=> ImageFlags /\ ImageContents
  BY Zenon DEF ImageTypeOK, ImageFlags, ImageContents

\* Filling cells with a value keeps a row of cells a row of cells.
LEMMA FilledType ==
    ASSUME NEW S, NEW g \in [Cells -> S], NEW w, NEW v \in S
    PROVE  Filled(g, w, v) \in [Cells -> S]
  BY DEF Filled

\* Copying chunks from the image gives values.
LEMMA CopiedType ==
    ASSUME ImageTypeOK, image \in Images, NEW c
    PROVE  Copied(c) \in [Cells -> Values]
<1>1. disk[image] \in [Cells -> Values] /\ mem \in [Cells -> Values]
  BY DEF ImageTypeOK
<1> QED
  BY <1>1 DEF Copied

\* Recording a write keeps the history variables' type.
LEMMA NotedType ==
    ASSUME ImageTypeOK, image \in Images, NEW w, NEW v \in Values \cup {Unknown},
           Noted(w, v)
    PROVE  /\ expect' \in [Images -> [Cells -> Values \cup {Unknown}]]
<1>1. /\ expect[image] \in [Cells -> Values \cup {Unknown}]
  BY DEF ImageTypeOK
<1>2. /\ Filled(expect[image], w, v) \in [Cells -> Values \cup {Unknown}]
  BY <1>1, FilledType
<1> QED
  BY <1>2 DEF Noted, ImageTypeOK

\* The chunks of a span are chunks of the image.
LEMMA SpanChunks ==
    ASSUME NEW off \in Cells, NEW len \in 1..Size - off
    PROVE  /\ Span(off, len) \subseteq Cells
           /\ {Chunk(i) : i \in Span(off, len)} \subseteq Chunks
<1>1. Span(off, len) \subseteq Cells
  BY SizeAssumption DEF Span, Cells
<1> QED
  BY <1>1 DEF Chunks

\* The overlay is empty after a medium is closed.
LEMMA FreedCells ==
    OverlayFreed => copied' \in SUBSET Chunks /\ mem' \in [Cells -> Values]
  BY ValuesAssumption DEF OverlayFreed

LEMMA RevertedType ==
    ImageTypeOK => Reverted \in [Images -> [Cells -> Values \cup {Unknown}]]
<1> SUFFICES ASSUME ImageTypeOK
             PROVE  Reverted \in [Images -> [Cells -> Values \cup {Unknown}]]
  OBVIOUS
<1>1. image # NoImage => disk[image] \in [Cells -> Values \cup {Unknown}]
  BY DEF ImageTypeOK
<1> QED
  BY <1>1 DEF Reverted, ImageTypeOK

\* One step keeps the types.
LEMMA ImageTypeStep == ImageTypeOK /\ [ImageNext]_imageVars => ImageTypeOK'
<1> SUFFICES ASSUME ImageTypeOK, [ImageNext]_imageVars
             PROVE  ImageTypeOK'
  OBVIOUS
<1> USE ImageParts
<1>0. image # NoImage => image \in Images
  BY DEF ImageContents
<1>1. ASSUME NEW f \in Images, Insert(f)
      PROVE  ImageTypeOK'
  <2>1. ImageFlags'
    BY <1>1, Zenon DEF Insert, OpenMedium, ImageFlags, config
  <2>2. ImageContents'
    BY <1>1, FreedCells, RevertedType DEF Insert, OpenMedium, ImageContents, config
  <2> QED
    BY <2>1, <2>2, Zenon DEF ImageTypeOK, ImageFlags, ImageContents
<1>2. ASSUME ImageEject
      PROVE  ImageTypeOK'
  <2>1. ImageFlags'
    BY <1>2, Zenon DEF ImageEject, ImageFlags, config
  <2>2. ImageContents'
    BY <1>2, FreedCells, RevertedType DEF ImageEject, ImageContents, config
  <2> QED
    BY <2>1, <2>2, Zenon DEF ImageTypeOK, ImageFlags, ImageContents
<1>3. ASSUME SnapshotAll
      PROVE  ImageTypeOK'
  <2>1. ImageFlags'
    BY <1>3, Zenon DEF SnapshotAll, ImageFlags
  <2>2. ImageContents'
    BY <1>3, FreedCells DEF SnapshotAll, ImageContents, overlay
  <2> QED
    BY <2>1, <2>2, Zenon DEF ImageTypeOK, ImageFlags, ImageContents
<1>4. ASSUME Boot
      PROVE  ImageTypeOK'
  <2>1. ImageFlags'
    BY <1>4, Zenon DEF Boot, ImageFlags, config
  <2>2. ImageContents'
    BY <1>4 DEF Boot, ImageContents, config, overlay
  <2> QED
    BY <2>1, <2>2, Zenon DEF ImageTypeOK, ImageFlags, ImageContents
<1>5. ASSUME NEW off \in Cells, NEW v \in Values, NEW len \in 1..Size - off,
             WriteFile(off, len, v)
      PROVE  ImageTypeOK'
  <2>1. ImageFlags'
    BY <1>5, Zenon DEF WriteFile, ImageFlags, config
  <2>2. image \in Images /\ disk[image] \in [Cells -> Values]
    BY <1>0, <1>5 DEF WriteFile, ImageContents
  <2>3. disk' \in [Images -> [Cells -> Values]]
    BY <1>5, <2>2, FilledType DEF WriteFile, ImageContents
  <2>4. /\ expect' \in [Images -> [Cells -> Values \cup {Unknown}]]
    BY <1>5, <2>2, NotedType DEF WriteFile
  <2>5. ImageContents'
    BY <1>5, <2>3, <2>4 DEF WriteFile, ImageContents, config, overlay
  <2> QED
    BY <2>1, <2>5, Zenon DEF ImageTypeOK, ImageFlags, ImageContents
<1>6. ASSUME NEW off \in Cells, NEW v \in Values, NEW len \in 1..Size - off,
             NEW n \in 0..len, WriteFileFails(off, len, v, n)
      PROVE  ImageTypeOK'
  <2>1. ImageFlags'
    BY <1>6, Zenon DEF WriteFileFails, ImageFlags, config
  <2>2. image \in Images /\ disk[image] \in [Cells -> Values]
    BY <1>0, <1>6 DEF WriteFileFails, ImageContents
  <2>3. disk' \in [Images -> [Cells -> Values]]
    BY <1>6, <2>2, FilledType DEF WriteFileFails, ImageContents
  <2>4. /\ expect' \in [Images -> [Cells -> Values \cup {Unknown}]]
    BY <1>6, <2>2, NotedType DEF WriteFileFails
  <2>5. ImageContents'
    BY <1>6, <2>3, <2>4 DEF WriteFileFails, ImageContents, config, overlay
  <2> QED
    BY <2>1, <2>5, Zenon DEF ImageTypeOK, ImageFlags, ImageContents
<1>7. ASSUME NEW off \in Cells, NEW v \in Values, NEW len \in 1..Size - off,
             WriteSnapshot(off, len, v)
      PROVE  ImageTypeOK'
  <2>1. ImageFlags'
    BY <1>7, Zenon DEF WriteSnapshot, ImageFlags, config
  <2>2. image \in Images
    BY <1>0, <1>7 DEF WriteSnapshot
  <2>3. mem' \in [Cells -> Values]
    BY <1>7, <2>2, CopiedType, FilledType DEF WriteSnapshot
  <2>4. copied' \in SUBSET Chunks
    BY <1>7, SpanChunks DEF WriteSnapshot, ImageContents
  <2>5. /\ expect' \in [Images -> [Cells -> Values \cup {Unknown}]]
    BY <1>7, <2>2, NotedType DEF WriteSnapshot
  <2>6. ImageContents'
    BY <1>7, <2>3, <2>4, <2>5 DEF WriteSnapshot, ImageContents, config
  <2> QED
    BY <2>1, <2>6, Zenon DEF ImageTypeOK, ImageFlags, ImageContents
<1>8. ASSUME NEW off \in Cells, NEW v \in Values, NEW len \in 1..Size - off,
             NEW k \in Chunks, WriteSnapshotFails(off, len, v, k)
      PROVE  ImageTypeOK'
  <2> DEFINE w == {i \in Span(off, len) : Chunk(i) < k}
             c == {Chunk(i) : i \in w}
             before == Filled(Copied(c), w, v)
  <2>1. ImageFlags'
    BY <1>8, Zenon DEF WriteSnapshotFails, ImageFlags, config
  <2>2. image \in Images
    BY <1>0, <1>8 DEF WriteSnapshotFails
  <2>3. before \in [Cells -> Values]
    BY <2>2, CopiedType, FilledType
  <2>4. mem' = before \/ mem' = [i \in Cells |-> IF Chunk(i) = k THEN Zero
                                                ELSE before[i]]
    BY <1>8 DEF WriteSnapshotFails
  <2>5. mem' \in [Cells -> Values]
    <3> HIDE DEF before
    <3> QED BY <2>3, <2>4, ValuesAssumption
  <2>6. c \subseteq Chunks
    BY SpanChunks
  <2>7. copied' \in SUBSET Chunks
    <3>1. copied' = copied \cup c \/ copied' = copied \cup c \cup {k}
      BY <1>8 DEF WriteSnapshotFails
    <3> HIDE DEF c
    <3> QED BY <2>6, <3>1 DEF ImageContents
  <2>8. /\ expect' \in [Images -> [Cells -> Values \cup {Unknown}]]
    BY <1>8, <2>2, NotedType DEF WriteSnapshotFails
  <2>9. ImageContents'
    BY <1>8, <2>5, <2>7, <2>8 DEF WriteSnapshotFails, ImageContents, config
  <2> QED
    BY <2>1, <2>9, Zenon DEF ImageTypeOK, ImageFlags, ImageContents
<1>9. CASE WriteRefused \/ UNCHANGED imageVars
  <2>1. ImageFlags'
    BY <1>9, Zenon DEF WriteRefused, imageVars, ImageFlags
  <2>2. ImageContents'
    BY <1>9, Zenon DEF WriteRefused, imageVars, ImageContents
  <2> QED
    BY <2>1, <2>2, Zenon DEF ImageTypeOK, ImageFlags, ImageContents
<1> QED
  BY <1>1, <1>2, <1>3, <1>4, <1>5, <1>6, <1>7, <1>8, <1>9 DEF ImageNext, WriteSome

LEMMA ImageTypeInit == ImageInit => ImageTypeOK
<1> SUFFICES ASSUME ImageInit
             PROVE  ImageTypeOK
  OBVIOUS
<1>1. ImageFlags
  BY Zenon DEF ImageInit, ImageFlags
<1>2. ImageContents
  BY ValuesAssumption DEF ImageInit, ImageContents
<1> QED
  BY <1>1, <1>2, ImageParts

\* Type correctness of the drive, its overlay and the images.
THEOREM ImageTyped == ImageSpec => []ImageTypeOK
  BY ImageTypeInit, ImageTypeStep, PTL DEF ImageSpec

-----------------------------------------------------------------------------
\* What a cell of an image holds for the guest, in the drive or out of it.
Content(f, i) == IF f = image /\ snapshot /\ Chunk(i) \in copied
                 THEN mem[i] ELSE disk[f][i]

\* ReadBack for every image, in the drive or not: this is inductive, because
\* an image that leaves the drive may come back.
AllReadBack ==
    \A f \in Images, i \in Cells : expect[f][i] \in {Unknown, Content(f, i)}

\* Reverted gives every image the contents of its file.
LEMMA RevertedContent ==
    ASSUME ImageTypeOK, AllReadBack, NEW f \in Images, NEW i \in Cells
    PROVE  Reverted[f][i] \in {Unknown, disk[f][i]}
<1>1. expect[f][i] \in {Unknown, Content(f, i)}
  BY DEF AllReadBack
<1>2. CASE snapshot /\ f = image
  BY <1>2, ImagesAssumption DEF Reverted, ImageTypeOK
<1>3. CASE ~snapshot \/ f # image
  <2>1. Reverted[f] = expect[f]
    BY <1>3 DEF Reverted, ImageTypeOK
  <2>2. Content(f, i) = disk[f][i]
    BY <1>3 DEF Content
  <2> QED
    BY <1>1, <2>1, <2>2
<1> QED
  BY <1>2, <1>3

\* A step that notes a write of v (or Unknown, if it failed) to the cells of w,
\* where the medium then holds v in w and is as before elsewhere.
LEMMA NotedContent ==
    ASSUME ImageTypeOK, AllReadBack, image \in Images, image' = image,
           NEW w \in SUBSET Cells, NEW v \in Values \cup {Unknown}, Noted(w, v),
           \A f \in Images, i \in Cells :
              IF f = image /\ i \in w THEN v \in {Unknown, Content(f, i)'}
              ELSE Content(f, i)' = Content(f, i)
    PROVE  AllReadBack'
<1> SUFFICES ASSUME NEW f \in Images, NEW i \in Cells
             PROVE  expect'[f][i] \in {Unknown, Content(f, i)'}
  BY DEF AllReadBack
<1>1. expect[f][i] \in {Unknown, Content(f, i)}
  BY DEF AllReadBack
<1>2. expect'[f][i] = IF f = image /\ i \in w THEN v ELSE expect[f][i]
  BY DEF Noted, Filled, ImageTypeOK
<1> QED
  BY <1>1, <1>2

\* One step keeps what the guest expects, unless copying a chunk can fail.
LEMMA ReadBackStep ==
    ASSUME "copy" \notin Faults, ImageTypeOK, AllReadBack, [ImageNext]_imageVars
    PROVE  AllReadBack'
<1>0. image # NoImage => image \in Images
  BY DEF ImageTypeOK
<1>1. ASSUME copied' = {}, disk' = disk, expect' = Reverted
      PROVE  AllReadBack'
  <2> SUFFICES ASSUME NEW f \in Images, NEW i \in Cells
               PROVE  expect'[f][i] \in {Unknown, Content(f, i)'}
    BY DEF AllReadBack
  <2>1. Content(f, i)' = disk[f][i]
    BY <1>1 DEF Content
  <2> QED
    BY <1>1, <2>1, RevertedContent
<1>2. ASSUME NEW f \in Images, Insert(f)
      PROVE  AllReadBack'
  BY <1>1, <1>2 DEF Insert, OpenMedium, OverlayFreed
<1>3. ASSUME ImageEject
      PROVE  AllReadBack'
  BY <1>1, <1>3 DEF ImageEject, OverlayFreed
<1>4. ASSUME SnapshotAll
      PROVE  AllReadBack'
  <2> SUFFICES ASSUME NEW f \in Images, NEW i \in Cells
               PROVE  expect'[f][i] \in {Unknown, Content(f, i)'}
    BY DEF AllReadBack
  <2>1. ~snapshot /\ disk' = disk /\ expect' = expect
    BY <1>4 DEF SnapshotAll
  <2>2. Content(f, i) = disk[f][i]
    BY <2>1 DEF Content
  <2>3. Content(f, i)' = disk[f][i]
    BY <1>4, <2>1, ImagesAssumption DEF SnapshotAll, OverlayFreed, Content
  <2> QED
    BY <2>1, <2>2, <2>3 DEF AllReadBack
<1>5. ASSUME Boot
      PROVE  AllReadBack'
  BY <1>5 DEF Boot, AllReadBack, Content, config, overlay
<1>6. ASSUME NEW off \in Cells, NEW v \in Values, NEW len \in 1..Size - off,
             WriteFile(off, len, v)
      PROVE  AllReadBack'
  <2> DEFINE w == Span(off, len)
  <2>1. image \in Images /\ ~snapshot /\ image' = image /\ snapshot' = snapshot
    BY <1>0, <1>6 DEF WriteFile, config
  <2>2. w \in SUBSET Cells
    BY SpanChunks
  <2>3. disk' = [disk EXCEPT ![image] = Filled(@, w, v)] /\ Noted(w, v)
    BY <1>6 DEF WriteFile
  <2>4. ASSUME NEW f \in Images, NEW i \in Cells
        PROVE  Content(f, i)' = IF f = image /\ i \in w THEN v ELSE Content(f, i)
    <3> HIDE DEF w
    <3> QED BY <2>1, <2>3 DEF Content, Filled, ImageTypeOK
  <2> HIDE DEF w
  <2> QED
    BY <2>1, <2>2, <2>3, <2>4, NotedContent
<1>7. ASSUME NEW off \in Cells, NEW v \in Values, NEW len \in 1..Size - off,
             NEW n \in 0..len, WriteFileFails(off, len, v, n)
      PROVE  AllReadBack'
  <2> DEFINE w == Span(off, len)
             u == Span(off, n)
  <2>1. image \in Images /\ ~snapshot /\ image' = image /\ snapshot' = snapshot
    BY <1>0, <1>7 DEF WriteFileFails, config
  <2>2. w \in SUBSET Cells /\ u \subseteq w
    <3>1. w \in SUBSET Cells
      BY SpanChunks
    <3>2. u \subseteq w
      BY DEF Span, Cells
    <3> QED BY <3>1, <3>2
  <2>3. disk' = [disk EXCEPT ![image] = Filled(@, u, v)] /\ Noted(w, Unknown)
    BY <1>7 DEF WriteFileFails
  <2> HIDE DEF w, u
  <2>4. ASSUME NEW f \in Images, NEW i \in Cells, ~(f = image /\ i \in w)
        PROVE  Content(f, i)' = Content(f, i)
    BY <2>1, <2>2, <2>3, <2>4 DEF Content, Filled, ImageTypeOK
  <2> QED
    BY <2>1, <2>2, <2>3, <2>4, NotedContent
<1>8. ASSUME NEW off \in Cells, NEW v \in Values, NEW len \in 1..Size - off,
             WriteSnapshot(off, len, v)
      PROVE  AllReadBack'
  <2> DEFINE w == Span(off, len)
             c == {Chunk(i) : i \in w}
  <2>1. image \in Images /\ snapshot /\ image' = image /\ snapshot' = snapshot
        /\ disk' = disk
    BY <1>0, <1>8 DEF WriteSnapshot, config
  <2>2. w \in SUBSET Cells
    BY SpanChunks
  <2>3. copied' = copied \cup c /\ mem' = Filled(Copied(c), w, v) /\ Noted(w, v)
    BY <1>8 DEF WriteSnapshot
  <2>4. \A i \in w : Chunk(i) \in c
    OBVIOUS
  <2> HIDE DEF w, c
  <2>5. ASSUME NEW f \in Images, NEW i \in Cells
        PROVE  Content(f, i)' = IF f = image /\ i \in w THEN v ELSE Content(f, i)
    BY <2>1, <2>3, <2>4 DEF Content, Filled, Copied
  <2> QED
    BY <2>1, <2>2, <2>3, <2>5, NotedContent
<1>9. ASSUME NEW off \in Cells, NEW v \in Values, NEW len \in 1..Size - off,
             NEW k \in Chunks, WriteSnapshotFails(off, len, v, k)
      PROVE  AllReadBack'
  <2> DEFINE s == Span(off, len)
             w == {i \in s : Chunk(i) < k}
             c == {Chunk(i) : i \in w}
  <2>1. image \in Images /\ snapshot /\ image' = image /\ snapshot' = snapshot
        /\ disk' = disk
    BY <1>0, <1>9 DEF WriteSnapshotFails, config
  <2>2. s \in SUBSET Cells /\ w \subseteq s
    BY SpanChunks
  <2>3. copied' = copied \cup c /\ mem' = Filled(Copied(c), w, v)
        /\ Noted(s, Unknown)
    BY <1>9 DEF WriteSnapshotFails
  <2>4. \A i \in w : Chunk(i) \in c
    OBVIOUS
  <2> HIDE DEF s, w, c
  <2>5. ASSUME NEW f \in Images, NEW i \in Cells, ~(f = image /\ i \in s)
        PROVE  Content(f, i)' = Content(f, i)
    BY <2>1, <2>2, <2>3, <2>4, <2>5 DEF Content, Filled, Copied
  <2> QED
    BY <2>1, <2>2, <2>3, <2>5, NotedContent
<1>10. CASE WriteRefused \/ UNCHANGED imageVars
  BY <1>10 DEF WriteRefused, imageVars, AllReadBack, Content
<1> QED
  BY <1>2, <1>3, <1>4, <1>5, <1>6, <1>7, <1>8, <1>9, <1>10 DEF ImageNext, WriteSome

LEMMA ReadBackInit == ImageInit => AllReadBack
  BY DEF ImageInit, AllReadBack, Content

\* As long as a chunk, once its memory is there, can be read from the image,
\* the guest reads back what it wrote and nothing else changes, in drives of
\* every kind and with chunks of every size.
THEOREM ReadsBack == ASSUME "copy" \notin Faults PROVE ImageSpec => []ReadBack
<1>1. ImageTypeOK /\ AllReadBack /\ [ImageNext]_imageVars => AllReadBack'
  BY ReadBackStep
<1>2. ImageTypeOK /\ AllReadBack => ReadBack
  BY ImagesAssumption DEF ImageTypeOK, AllReadBack, ReadBack, Content, View
<1> QED
  BY <1>1, <1>2, ImageTypeInit, ImageTypeStep, ReadBackInit, PTL DEF ImageSpec

\* No step writes to the image of a snapshot, read-only or protected medium.
THEOREM ImagesUntouched == ImageSpec => ImageUntouched
<1>1. ASSUME [ImageNext]_imageVars, snapshot \/ readonly \/ medium_ro PROVE disk' = disk
  <2>1. CASE \E f \in Images : Insert(f)
    BY <2>1 DEF Insert
  <2>2. CASE ImageEject
    BY <2>2 DEF ImageEject
  <2>3. CASE SnapshotAll
    BY <2>3 DEF SnapshotAll
  <2>4. CASE Boot
    BY <2>4 DEF Boot
  <2>5. CASE WriteRefused \/ UNCHANGED imageVars
    BY <2>5 DEF WriteRefused, imageVars
  <2>6. CASE WriteSome
    <3>0. PICK off \in Cells, v \in Values : \E len \in 1..Size - off :
             \/ WriteFile(off, len, v)
             \/ \E n \in 0..len : WriteFileFails(off, len, v, n)
             \/ WriteSnapshot(off, len, v)
             \/ \E k \in Chunks : WriteSnapshotFails(off, len, v, k)
      BY <2>6, Zenon DEF WriteSome
    <3>1. PICK len \in 1..Size - off :
             \/ WriteFile(off, len, v)
             \/ \E n \in 0..len : WriteFileFails(off, len, v, n)
             \/ WriteSnapshot(off, len, v)
             \/ \E k \in Chunks : WriteSnapshotFails(off, len, v, k)
      BY <3>0, Zenon
    <3>2. CASE WriteFile(off, len, v)
      BY <1>1, <3>2, Zenon DEF WriteFile, Writable
    <3>3. CASE \E n \in 0..len : WriteFileFails(off, len, v, n)
      BY <1>1, <3>3, Zenon DEF WriteFileFails, Writable
    <3>4. CASE WriteSnapshot(off, len, v)
      BY <3>4 DEF WriteSnapshot
    <3>5. CASE \E k \in Chunks : WriteSnapshotFails(off, len, v, k)
      BY <3>5 DEF WriteSnapshotFails
    <3> QED
      BY <3>1, <3>2, <3>3, <3>4, <3>5, Zenon
  <2> QED
    BY <1>1, <2>1, <2>2, <2>3, <2>4, <2>5, <2>6, Zenon DEF ImageNext
<1>2. [ImageNext]_imageVars => [(snapshot \/ readonly \/ medium_ro) => disk' = disk]_imageVars
  BY <1>1, Zenon
<1> QED
  BY <1>2, PTL DEF ImageSpec, ImageUntouched

-----------------------------------------------------------------------------
\* A set of natural numbers has a least one.
LEMMA LeastBy ==
    ASSUME NEW S \in SUBSET Nat, S # {}, NEW R, IsWellFoundedOn(R, Nat),
           \A x, y \in S : (<<y, x>> \in R) <=> y < x
    PROVE  \E m \in S : \A k \in S : m <= k
<1>1. \E x \in S : \A y \in S : ~ (<<y, x>> \in R)
  BY WFMin
<1>2. PICK m \in S : \A y \in S : ~ (<<y, m>> \in R)
  BY <1>1
<1>3. \A y \in S : ~ (y < m)
  BY <1>2, Zenon
<1>4. \A y \in S : m <= y
  BY <1>3
<1> QED
  BY <1>4

LEMMA LeastNatural ==
    ASSUME NEW S \in SUBSET Nat, S # {}
    PROVE  \E m \in S : \A k \in S : m <= k
<1>1. \A x, y \in S : (<<y, x>> \in OpToRel(<, Nat)) <=> y < x
  BY DEF OpToRel
<1> QED
  BY <1>1, NatLessThanWellFounded, LeastBy, Zenon

-----------------------------------------------------------------------------
(***************************************************************************)
(* The table of drives.                                                    *)
(***************************************************************************)

LEMMA DivOfSum ==
    ASSUME NEW b \in Nat, NEW u \in Nat, NEW m \in Nat \ {0}, u < m
    PROVE  (b * m + u) \div m = b /\ (b * m + u) % m = u
<1>1. b * m \in Nat
  OBVIOUS
<1> QED
  BY <1>1

LEMMA SumOfDiv ==
    ASSUME NEW n \in Nat, NEW m \in Nat \ {0}
    PROVE  /\ (n \div m) * m + (n % m) = n
           /\ (n % m) < m /\ (n % m) \in Nat /\ n \div m \in Nat
OBVIOUS

\* A place is a bus and a unit of it, and no two counts have the same.
LEMMA PlaceTyped ==
    ASSUME NEW if \in Interfaces, NEW b \in Nat, NEW n \in Nat
    PROVE  /\ Place(if, b, n) \in [bus : Nat, unit : Nat]
           /\ MaxDevs[if] # 0 => Place(if, b, n).unit < MaxDevs[if]
<1>1. MaxDevs[if] \in Nat
  BY MaxDevsAssumption
<1> QED
  BY <1>1, SumOfDiv DEF Place

LEMMA PlaceOnce ==
    ASSUME NEW if \in Interfaces, NEW b \in Nat, NEW m \in Nat, NEW n \in Nat,
           Place(if, b, m) = Place(if, b, n)
    PROVE  m = n
<1>1. MaxDevs[if] \in Nat
  BY MaxDevsAssumption
<1>2. CASE MaxDevs[if] = 0
  BY <1>2 DEF Place
<1>3. CASE MaxDevs[if] # 0
  <2>1. m \div MaxDevs[if] = n \div MaxDevs[if] /\ m % MaxDevs[if] = n % MaxDevs[if]
    <3>1. m \div MaxDevs[if] \in Nat /\ n \div MaxDevs[if] \in Nat
      BY <1>1, <1>3, SumOfDiv
    <3> QED
      BY <1>3, <3>1 DEF Place
  <2> QED
    BY <1>1, <1>3, <2>1, SumOfDiv
<1> QED
  BY <1>2, <1>3

DriveNames == Ids \cup {DefaultName(if, media, [bus |-> b, unit |-> u]) :
                          if \in Interfaces, media \in {"disk", "cdrom"}, b \in Nat, u \in Nat}

DriveRecs == [iface : Interfaces, media : {"disk", "cdrom"}, bus : Nat, unit : Nat,
              index : Nat, auto : BOOLEAN, name : DriveNames, claimed : BOOLEAN]

\* One of the first places is free, and FirstFree finds the first that is.
LEMMA FirstIsFree ==
    ASSUME drives \in Seq(DriveRecs), NEW if \in Interfaces, NEW b \in Nat
    PROVE  \E n \in 0..Len(drives) :
             /\ FirstFree(if, b) = Place(if, b, n)
             /\ Free(if, b, n)
             /\ \A m \in 0..n - 1 : ~Free(if, b, m)
<1> DEFINE L == Len(drives)
           Taken(n) == At(if, Place(if, b, n).bus, Place(if, b, n).unit)
           f == [n \in 0..L |-> CHOOSE i \in Taken(n) : TRUE]
           F == {n \in 0..L : Free(if, b, n)}
<1>1. L \in Nat /\ DOMAIN drives = 1..L
  BY LenProperties
<1>2. F # {}
  <2>1. SUFFICES ASSUME \A n \in 0..L : Taken(n) # {} PROVE FALSE
    BY DEF Free
  <2>2. \A n \in 0..L : f[n] \in Taken(n)
    BY <2>1
  <2>3. \A n \in 0..L : Taken(n) \subseteq 1..L
    BY <1>1 DEF At
  <2>4. f \in [0..L -> 1..L]
    <3>1. \A n \in 0..L : f[n] \in 1..L
      BY <2>2, <2>3, Zenon
    <3> QED
      BY <3>1, Zenon
  <2> HIDE DEF f, L
  <2>a. IsFiniteSet(0..L) /\ Cardinality(0..L) = IF 0 > L THEN 0 ELSE L - 0 + 1
    BY <1>1, FS_Interval
  <2>b. IsFiniteSet(1..L) /\ Cardinality(1..L) = IF 1 > L THEN 0 ELSE L - 1 + 1
    BY <1>1, FS_Interval
  <2>5. IsFiniteSet(0..L) /\ Cardinality(0..L) = L + 1 /\ IsFiniteSet(1..L) /\ Cardinality(1..L) = L
    BY <1>1, <2>a, <2>b
  <2>6. Cardinality(1..L) < Cardinality(0..L)
    BY <1>1, <2>5
  <2>7. PICK x \in 0..L, y \in 0..L : x # y /\ f[x] = f[y]
    BY <2>4, <2>5, <2>6, FS_PigeonHole
  <2>8. x \in Nat /\ y \in Nat
    BY <1>1
  <2>9. f[x] \in Taken(x) /\ f[x] \in Taken(y)
    BY <2>2, <2>7
  <2>10. Place(if, b, x) \in [bus : Nat, unit : Nat] /\ Place(if, b, y) \in [bus : Nat, unit : Nat]
    BY <2>8, PlaceTyped
  <2>11. Place(if, b, x).bus = Place(if, b, y).bus /\ Place(if, b, x).unit = Place(if, b, y).unit
    BY <2>9 DEF At
  <2>12. Place(if, b, x) = Place(if, b, y)
    BY <2>10, <2>11
  <2> QED
    BY <2>7, <2>8, <2>12, PlaceOnce
<1>3. F \in SUBSET Nat
  BY <1>1
<1>4. PICK n \in F : \A k \in F : n <= k
  BY <1>2, <1>3, LeastNatural
<1>5. n \in 0..L /\ Free(if, b, n) /\ \A m \in 0..n - 1 : ~Free(if, b, m)
  BY <1>1, <1>4
<1> DEFINE c == CHOOSE m \in 0..Len(drives) :
                  Free(if, b, m) /\ \A k \in 0..m - 1 : ~Free(if, b, k)
<1>6. c \in 0..Len(drives) /\ Free(if, b, c) /\ \A k \in 0..c - 1 : ~Free(if, b, k)
  BY <1>5, Zenon
<1>7. FirstFree(if, b) = Place(if, b, c)
  BY Zenon DEF FirstFree
<1> QED
  BY <1>6, <1>7, Zenon

\* A drive's own fields, and its place among the drives before it.
Fits(d) ==
    /\ MaxDevs[d.iface] # 0 => d.unit < MaxDevs[d.iface] /\ d.index \div MaxDevs[d.iface] = d.bus
    /\ d.name \in Ids \/ d.name = DefaultName(d.iface, d.media, [bus |-> d.bus, unit |-> d.unit])

SamePlace(d, e) == d.iface = e.iface /\ d.bus = e.bus /\ d.unit = e.unit

TakesNext(s, i) ==
    s[i].auto => \A n \in 0..s[i].index - 1 : \E j \in 1..i - 1 :
                    /\ s[j].iface = s[i].iface
                    /\ [bus |-> s[j].bus, unit |-> s[j].unit] = Place(s[i].iface, 0, n)

Placed(s) ==
    \A i \in DOMAIN s : /\ Fits(s[i]) /\ TakesNext(s, i)
                        /\ \A j \in DOMAIN s : i # j => ~SamePlace(s[i], s[j])

Numbers == Nat \cup {-1}

LEMMA ResolveTyped ==
    ASSUME drives \in Seq(DriveRecs), NEW if \in Interfaces,
           NEW bus \in Numbers, NEW unit \in Numbers, NEW index \in Numbers
    PROVE  Resolve(if, bus, unit, index) \in [bus : Nat, unit : Nat]
<1>1. CASE index >= 0
  <2>1. index \in Nat
    BY <1>1 DEF Numbers
  <2>2. Resolve(if, bus, unit, index) = Place(if, 0, index)
    BY <1>1, Zenon DEF Resolve
  <2> QED
    BY <2>1, <2>2, PlaceTyped
<1>2. CASE ~(index >= 0)
  <2> DEFINE b == IF bus < 0 THEN 0 ELSE bus
  <2>1. b \in Nat
    BY DEF Numbers
  <2>2. CASE unit >= 0
    BY <1>2, <2>1, <2>2 DEF Resolve, Numbers
  <2>3. CASE ~(unit >= 0)
    <3>1. Resolve(if, bus, unit, index) = FirstFree(if, b)
      BY <1>2, <2>3 DEF Resolve
    <3>2. PICK n \in 0..Len(drives) : FirstFree(if, b) = Place(if, b, n)
      BY <2>1, FirstIsFree
    <3>3. n \in Nat
      BY LenProperties
    <3> HIDE DEF b
    <3> QED
      BY <2>1, <3>1, <3>2, <3>3, PlaceTyped
  <2> QED
    BY <2>2, <2>3
<1> QED
  BY <1>1, <1>2

\* The table with one more drive, on the interface at place p.
Gains(s, if, media, p, claimed) ==
    LET n == Len(drives) + 1
    IN  /\ s \in Seq(DriveRecs) /\ Placed(s)
        /\ DOMAIN s = DOMAIN drives \cup {n}
        /\ \A i \in DOMAIN drives : s[i] = drives[i]
        /\ s[n].claimed = claimed /\ s[n].iface = if /\ s[n].media = media
        /\ s[n].bus = p.bus /\ s[n].unit = p.unit

\* A drive that is added takes the place its options name, or the next one.
LEMMA AddedPlaced ==
    ASSUME drives \in Seq(DriveRecs), Placed(drives), NEW if \in Interfaces,
           NEW media \in {"disk", "cdrom"}, NEW bus \in Numbers, NEW unit \in Numbers,
           NEW index \in Numbers, NEW id \in Ids \cup {NoId}, NEW claimed \in BOOLEAN,
           AddOk(if, bus, unit, index, id)
    PROVE  Gains(Added(if, media, bus, unit, index, id, claimed), if, media,
                 Resolve(if, bus, unit, index), claimed)
<1> DEFINE p == Resolve(if, bus, unit, index)
           d == [iface |-> if, media |-> media, bus |-> p.bus, unit |-> p.unit,
                 index |-> p.bus * MaxDevs[if] + p.unit,
                 auto |-> bus < 0 /\ unit < 0 /\ index < 0,
                 name |-> IF id # NoId THEN id ELSE DefaultName(if, media, p),
                 claimed |-> claimed]
           s == Append(drives, d)
           n == Len(drives) + 1
<1>1. Added(if, media, bus, unit, index, id, claimed) = s
  BY DEF Added
<1>2. p \in [bus : Nat, unit : Nat] /\ MaxDevs[if] \in Nat
  BY ResolveTyped, MaxDevsAssumption
<1>3. p = [bus |-> p.bus, unit |-> p.unit]
  BY <1>2
<1>4. (MaxDevs[if] # 0 => p.unit < MaxDevs[if]) /\ At(if, p.bus, p.unit) = {}
  BY DEF AddOk, PlaceOk
<1>5. p.bus * MaxDevs[if] + p.unit \in Nat
  BY <1>2
<1>6. d.name \in DriveNames /\ (d.name \in Ids \/ d.name = DefaultName(if, media, p))
  BY <1>2, <1>3 DEF DriveNames
<1>7. d \in DriveRecs
  BY <1>2, <1>5, <1>6 DEF DriveRecs
<1>8. Fits(d)
  <2>1. d.iface = if /\ d.media = media /\ d.bus = p.bus /\ d.unit = p.unit
        /\ d.index = p.bus * MaxDevs[if] + p.unit
    OBVIOUS
  <2>2. MaxDevs[if] # 0 => d.index \div MaxDevs[if] = p.bus
    BY <1>2, <1>4, <2>1, DivOfSum
  <2> HIDE DEF d, p
  <2> QED
    BY <1>3, <1>4, <1>6, <2>1, <2>2 DEF Fits
<1>9. Len(drives) \in Nat /\ DOMAIN drives = 1..Len(drives)
  BY LenProperties
<1>10. /\ s \in Seq(DriveRecs) /\ DOMAIN s = DOMAIN drives \cup {n} /\ s[n] = d
       /\ \A i \in DOMAIN drives : s[i] = drives[i]
  <2> HIDE DEF d
  <2> QED
    BY <1>7, <1>9, AppendProperties
<1>11. d.auto => \A m \in 0..d.index - 1 : \E j \in DOMAIN drives :
                    /\ drives[j].iface = if
                    /\ [bus |-> drives[j].bus, unit |-> drives[j].unit] = Place(if, 0, m)
  <2> SUFFICES ASSUME d.auto, NEW m \in 0..d.index - 1
               PROVE  \E j \in DOMAIN drives :
                         /\ drives[j].iface = if
                         /\ [bus |-> drives[j].bus, unit |-> drives[j].unit] = Place(if, 0, m)
    OBVIOUS
  <2>a. d.auto <=> (bus < 0 /\ unit < 0 /\ index < 0)
    OBVIOUS
  <2>0. bus < 0 /\ ~(unit >= 0) /\ ~(index >= 0)
    <3> HIDE DEF d
    <3> QED
      BY <2>a DEF Numbers
  <2>1. p = FirstFree(if, 0)
    BY <2>0, Zenon DEF Resolve
  <2>2. PICK k \in 0..Len(drives) : /\ FirstFree(if, 0) = Place(if, 0, k)
                                    /\ \A l \in 0..k - 1 : ~Free(if, 0, l)
    BY FirstIsFree
  <2>3. d.index = k
    <3>1. d.index = p.bus * MaxDevs[if] + p.unit
      OBVIOUS
    <3>2. CASE MaxDevs[if] = 0
      BY <1>9, <2>1, <2>2, <3>1, <3>2 DEF Place
    <3>3. CASE MaxDevs[if] # 0
      <4>1. k \in Nat
        BY <1>9
      <4>2. p.bus = k \div MaxDevs[if] /\ p.unit = k % MaxDevs[if]
        BY <1>2, <2>1, <2>2, <3>3, <4>1, SumOfDiv DEF Place
      <4> QED
        BY <1>2, <3>1, <3>3, <4>1, <4>2, SumOfDiv
    <3> QED
      BY <3>2, <3>3
  <2>4. m \in 0..k - 1 /\ m \in Nat
    BY <1>9, <2>3
  <2>5. At(if, Place(if, 0, m).bus, Place(if, 0, m).unit) # {}
    BY <2>2, <2>4, Zenon DEF Free
  <2>6. PICK j \in DOMAIN drives : /\ drives[j].iface = if
                                   /\ drives[j].bus = Place(if, 0, m).bus
                                   /\ drives[j].unit = Place(if, 0, m).unit
    BY <2>5 DEF At
  <2>7. Place(if, 0, m) \in [bus : Nat, unit : Nat]
    BY <2>4, PlaceTyped
  <2> QED
    BY <2>6, <2>7
<1>12. \A i \in DOMAIN drives : ~SamePlace(drives[i], d) /\ ~SamePlace(d, drives[i])
  BY <1>4 DEF At, SamePlace
<1>13. d.claimed = claimed /\ d.iface = if /\ d.media = media /\ d.bus = p.bus /\ d.unit = p.unit
  OBVIOUS
<1> HIDE DEF d, p, s
<1>14. \A i \in DOMAIN drives : TakesNext(s, i)
  <2> SUFFICES ASSUME NEW i \in DOMAIN drives PROVE TakesNext(s, i)
    OBVIOUS
  <2>1. TakesNext(drives, i)
    BY DEF Placed
  <2>2. \A j \in 1..i - 1 : s[j] = drives[j]
    BY <1>9, <1>10
  <2> QED
    BY <1>10, <2>1, <2>2 DEF TakesNext
<1>15. TakesNext(s, n)
  BY <1>9, <1>10, <1>11, <1>13 DEF TakesNext
<1>16. Placed(s)
  <2> SUFFICES ASSUME NEW i \in DOMAIN s
               PROVE  /\ Fits(s[i]) /\ TakesNext(s, i)
                      /\ \A j \in DOMAIN s : i # j => ~SamePlace(s[i], s[j])
    BY DEF Placed
  <2>1. CASE i \in DOMAIN drives
    BY <1>10, <1>12, <1>14, <2>1 DEF Placed
  <2>2. CASE i = n
    BY <1>8, <1>10, <1>12, <1>15, <2>2
  <2> QED
    BY <1>10, <2>1, <2>2
<1> QED
  BY <1>1, <1>10, <1>13, <1>16 DEF p, Gains

-----------------------------------------------------------------------------
\* The machine has a device at position k for the drive.
Seats(m, k, d) ==
    /\ d.iface = m.positions[k].iface /\ d.bus = m.positions[k].bus
    /\ d.unit = m.positions[k].unit

Claims(m, d) == \E k \in DOMAIN m.positions :
                   Seats(m, k, d) /\ d.media \in m.positions[k].media

SpeltName(name) == IF name \in Ids THEN Spelling[name] ELSE name

\* An interface without a limit has one bus.
OneBus(d) == MaxDevs[d.iface] = 0 => d.bus = 0

\* The monitor's entries stand for drives of the table, and a drive remembers
\* one that is spelt as it is.
Entered(ds, es, md) ==
    /\ es \in Seq(DOMAIN ds)
    /\ \A e \in DOMAIN es : OneBus(ds[es[e]])
    /\ \A i \in DOMAIN md :
          /\ i \in DOMAIN ds /\ md[i] \in DOMAIN es /\ OneBus(ds[i])
          /\ SpeltName(ds[es[md[i]]].name) = SpeltName(ds[i].name)

\* The drives at the first positions have entries.
EnteredTo(m, ds, es, n) ==
    \A k \in 1..n, i \in DOMAIN ds :
        k \in DOMAIN m.positions /\ Seats(m, k, ds[i]) => \E e \in DOMAIN es : es[e] = i

TableTyped ==
    /\ phase \in {"options", "claim", "attach", "run", "refused"}
    /\ phase \in {"claim", "attach", "run"} => machine \in Machines /\ want \in Wants
    /\ pos \in Nat \ {0} /\ drives \in Seq(DriveRecs)

TableStage ==
    /\ phase = "options" => pos = 1 /\ \A i \in DOMAIN drives : ~drives[i].claimed
    /\ phase \in {"options", "claim"} => entries = <<>> /\ mon_dev = <<>>
    /\ phase \in {"claim", "attach", "run"} =>
          \A i \in DOMAIN drives : drives[i].claimed => Claims(machine, drives[i])
    /\ phase = "attach" => EnteredTo(machine, drives, entries, pos - 1)
    /\ phase = "run" => /\ \A i \in DOMAIN drives : drives[i].claimed
                        /\ EnteredTo(machine, drives, entries, Len(machine.positions))

TableInv == /\ TableTyped /\ Placed(drives) /\ TableStage
            /\ Entered(drives, entries, mon_dev)

LEMMA NothingEntered ==
    ASSUME NEW ds PROVE Entered(ds, <<>>, <<>>)
BY DEF Entered

LEMMA TableStart == TableInit => TableInv
<1> SUFFICES ASSUME TableInit PROVE TableInv
  OBVIOUS
<1> USE DEF TableInit
<1>1. drives \in Seq(DriveRecs) /\ DOMAIN drives = {}
  OBVIOUS
<1>2. TableTyped
  BY <1>1 DEF TableTyped
<1>3. Placed(drives)
  BY <1>1 DEF Placed
<1>4. TableStage
  BY <1>1 DEF TableStage
<1>5. Entered(drives, entries, mon_dev)
  BY NothingEntered
<1> QED
  BY <1>2, <1>3, <1>4, <1>5 DEF TableInv

\* Where a machine's positions are.
LEMMA MachineTyped ==
    ASSUME NEW m \in Machines
    PROVE  /\ Len(m.positions) \in Nat /\ DOMAIN m.positions = 1..Len(m.positions)
           /\ \A k \in DOMAIN m.positions :
                 LET p == m.positions[k]
                 IN  /\ p.iface \in Interfaces /\ p.bus \in Nat /\ p.unit \in Nat
                     /\ IF MaxDevs[p.iface] = 0 THEN p.bus = 0 ELSE p.unit < MaxDevs[p.iface]
                     /\ p.iface = "floppy" => p.bus = 0 /\ "disk" \in p.media
<1>1. m.positions \in Seq([iface : Interfaces, bus : Nat, unit : Nat, media : SUBSET {"disk", "cdrom"}])
  BY MachinesAssumption
<1>2. Len(m.positions) \in Nat /\ DOMAIN m.positions = 1..Len(m.positions)
  BY <1>1, LenProperties
<1>3. \A k \in DOMAIN m.positions :
         m.positions[k] \in [iface : Interfaces, bus : Nat, unit : Nat, media : SUBSET {"disk", "cdrom"}]
  BY <1>1, <1>2, ElementOfSeq
<1> QED
  BY <1>2, <1>3, MachinesAssumption

\* A position of the machine as an index of its own interface.
LEMMA PositionIndex ==
    ASSUME drives \in Seq(DriveRecs), NEW m \in Machines, NEW k \in DOMAIN m.positions,
           m.positions[k].iface = "floppy"
    PROVE  Resolve("floppy", -1, -1, m.positions[k].unit) =
             [bus |-> m.positions[k].bus, unit |-> m.positions[k].unit]
<1> DEFINE p == m.positions[k]
<1>1. "floppy" \in Interfaces /\ p.bus = 0 /\ p.unit \in Nat /\ MaxDevs["floppy"] \in Nat
      /\ (MaxDevs["floppy"] # 0 => p.unit < MaxDevs["floppy"])
  BY MachineTyped, MaxDevsAssumption
<1> HIDE DEF p
<1>2. MaxDevs["floppy"] # 0 => p.unit \div MaxDevs["floppy"] = 0 /\ p.unit % MaxDevs["floppy"] = p.unit
  BY <1>1
<1>3. Resolve("floppy", -1, -1, p.unit) = Place("floppy", 0, p.unit)
  BY <1>1 DEF Resolve
<1>4. Place("floppy", 0, p.unit) = [bus |-> 0, unit |-> p.unit]
  BY <1>1, <1>2 DEF Place
<1> QED
  BY <1>1, <1>3, <1>4 DEF p

LEMMA ClaimStep == TableInv /\ Claim => TableInv'
<1> SUFFICES ASSUME TableInv, Claim PROVE TableInv'
  OBVIOUS
<1> DEFINE m == Machine[pos]
<1>1. /\ phase = "claim" /\ pos \in DOMAIN machine.positions /\ pos' = pos + 1
      /\ machine \in Machines /\ want \in Wants /\ drives \in Seq(DriveRecs) /\ Placed(drives)
      /\ pos \in Nat \ {0} /\ entries = <<>> /\ mon_dev = <<>>
      /\ machine' = machine /\ want' = want /\ entries' = entries /\ mon_dev' = mon_dev
      /\ m = machine.positions[pos]
  <2>1. phase = "claim" /\ pos <= Len(machine.positions)
    BY DEF Claim, Machine
  <2>2. machine \in Machines /\ pos \in Nat \ {0}
    BY <2>1 DEF TableInv, TableTyped
  <2> QED
    BY <2>1, <2>2, MachineTyped DEF TableInv, TableTyped, TableStage, Claim, Machine
<1>2. \A i \in DOMAIN drives : drives[i].claimed => Claims(machine, drives[i])
  BY <1>1 DEF TableInv, TableStage
<1> DEFINE adds == m.iface = "floppy" /\ m.unit < want /\ AddOk(m.iface, -1, -1, m.unit, NoId)
<1>3. phase' = IF \A i \in Here : drives[i].media \in m.media THEN "claim" ELSE "refused"
  BY DEF Claim
<1>4. CASE Here = {} /\ adds
  <2>1. drives' = Added(m.iface, "disk", -1, -1, m.unit, NoId, TRUE)
    BY <1>4 DEF Claim
  <2>2. /\ m.iface = "floppy" /\ m.iface \in Interfaces /\ m.unit \in Numbers /\ "disk" \in m.media
    BY <1>1, <1>4, MachineTyped DEF Numbers
  <2>3. Resolve(m.iface, -1, -1, m.unit) = [bus |-> m.bus, unit |-> m.unit]
    BY <1>1, <2>2, PositionIndex
  <2> DEFINE n == Len(drives) + 1
  <2>4. /\ drives' \in Seq(DriveRecs) /\ Placed(drives') /\ DOMAIN drives' = DOMAIN drives \cup {n}
        /\ \A i \in DOMAIN drives : drives'[i] = drives[i]
        /\ drives'[n].claimed /\ drives'[n].iface = m.iface /\ drives'[n].media = "disk"
        /\ drives'[n].bus = m.bus /\ drives'[n].unit = m.unit
    <3> HIDE DEF m
    <3>1. AddOk(m.iface, -1, -1, m.unit, NoId) /\ -1 \in Numbers
      BY <1>4 DEF Numbers
    <3>a. "disk" \in {"disk", "cdrom"} /\ NoId \in Ids \cup {NoId} /\ TRUE \in BOOLEAN
      OBVIOUS
    <3>b. drives \in Seq(DriveRecs) /\ Placed(drives)
      BY <1>1
    <3>2. Gains(Added(m.iface, "disk", -1, -1, m.unit, NoId, TRUE), m.iface, "disk",
                Resolve(m.iface, -1, -1, m.unit), TRUE)
      BY <2>2, <3>1, <3>a, <3>b, AddedPlaced, Zenon
    <3>3. Gains(drives', m.iface, "disk", [bus |-> m.bus, unit |-> m.unit], TRUE)
      BY <2>1, <2>3, <3>2, Zenon
    <3> QED
      BY <3>3 DEF Gains
  <2>5. Claims(machine, drives'[n])
    BY <1>1, <2>2, <2>4 DEF Claims, Seats
  <2>6. \A i \in DOMAIN drives' : drives'[i].claimed => Claims(machine, drives'[i])
    BY <1>2, <2>4, <2>5
  <2>7. phase' = "claim"
    BY <1>3, <1>4
  <2>8. TableTyped'
    BY <1>1, <2>4, <2>7 DEF TableTyped
  <2>9. TableStage'
    BY <1>1, <2>6, <2>7 DEF TableStage
  <2> QED
    BY <1>1, <2>4, <2>8, <2>9, NothingEntered DEF TableInv
<1>5. CASE ~(Here = {} /\ adds)
  <2>1. drives' = [i \in DOMAIN drives |-> [drives[i] EXCEPT !.claimed = @ \/ i \in Here]]
    BY <1>5 DEF Claim
  <2>2. \A i \in DOMAIN drives : drives[i] \in DriveRecs
    BY <1>1, ElementOfSeq, LenProperties
  <2>3. \A i \in DOMAIN drives :
          /\ drives'[i] \in DriveRecs
          /\ drives'[i].claimed = (drives[i].claimed \/ i \in Here)
          /\ drives'[i].iface = drives[i].iface /\ drives'[i].media = drives[i].media
          /\ drives'[i].bus = drives[i].bus /\ drives'[i].unit = drives[i].unit
          /\ drives'[i].index = drives[i].index /\ drives'[i].auto = drives[i].auto
          /\ drives'[i].name = drives[i].name
    BY <2>1, <2>2 DEF DriveRecs
  <2>4. drives' \in Seq(DriveRecs) /\ DOMAIN drives' = DOMAIN drives
    <3>1. DOMAIN drives' = DOMAIN drives
      BY <2>1
    <3>2. Len(drives) \in Nat /\ DOMAIN drives = 1..Len(drives)
      BY <1>1, LenProperties
    <3>3. drives' \in [1..Len(drives) -> DriveRecs]
      BY <2>1, <2>3, <3>2
    <3> QED
      BY <3>1, <3>2, <3>3, SeqDef
  <2>5. Placed(drives')
    <3> SUFFICES ASSUME NEW i \in DOMAIN drives
                 PROVE  /\ Fits(drives'[i]) /\ TakesNext(drives', i)
                        /\ \A j \in DOMAIN drives : i # j => ~SamePlace(drives'[i], drives'[j])
      BY <2>4 DEF Placed
    <3>1. /\ Fits(drives[i]) /\ TakesNext(drives, i)
          /\ \A j \in DOMAIN drives : i # j => ~SamePlace(drives[i], drives[j])
      BY <1>1 DEF Placed
    <3>2. Fits(drives'[i])
      BY <2>3, <3>1 DEF Fits
    <3>3. TakesNext(drives', i)
      <4>1. \A j \in 1..i - 1 : j \in DOMAIN drives
        BY <1>1, LenProperties
      <4>2. \A j \in 1..i - 1 : /\ drives'[j].iface = drives[j].iface
                               /\ drives'[j].bus = drives[j].bus /\ drives'[j].unit = drives[j].unit
        BY <2>3, <4>1
      <4>3. /\ drives'[i].auto = drives[i].auto /\ drives'[i].index = drives[i].index
            /\ drives'[i].iface = drives[i].iface
        BY <2>3
      <4> QED
        BY <3>1, <4>2, <4>3, Zenon DEF TakesNext
    <3>4. \A j \in DOMAIN drives : i # j => ~SamePlace(drives'[i], drives'[j])
      BY <2>3, <3>1 DEF SamePlace
    <3> QED
      BY <3>2, <3>3, <3>4
  <2>6. phase' = "claim" => \A i \in DOMAIN drives' : drives'[i].claimed => Claims(machine, drives'[i])
    <3> SUFFICES ASSUME phase' = "claim", NEW i \in DOMAIN drives, drives'[i].claimed
                 PROVE  Claims(machine, drives'[i])
      BY <2>4
    <3>1. CASE drives[i].claimed
      BY <1>2, <2>3, <3>1 DEF Claims, Seats
    <3>2. CASE i \in Here
      <4>1. drives[i].media \in m.media
        BY <1>3, <3>2
      <4>2. Seats(machine, pos, drives[i])
        BY <3>2 DEF Here, At, Seats, Machine
      <4> QED
        BY <1>1, <2>3, <4>1, <4>2 DEF Claims, Seats
    <3> QED
      BY <2>3, <3>1, <3>2
  <2>7. phase' \in {"claim", "refused"}
    BY <1>3
  <2>8. TableTyped'
    BY <1>1, <2>4, <2>7 DEF TableTyped
  <2>9. TableStage'
    BY <1>1, <2>6, <2>7 DEF TableStage
  <2> QED
    BY <1>1, <2>5, <2>8, <2>9, NothingEntered DEF TableInv
<1> QED
  BY <1>4, <1>5

LEMMA AddStep == TableInv /\ AddDrive => TableInv'
<1> SUFFICES ASSUME TableInv, AddDrive PROVE TableInv'
  OBVIOUS
<1>1. PICK if \in Interfaces, media \in {"disk", "cdrom"}, id \in Ids \cup {NoId},
           bus \in Given(Buses), unit \in Given(Units), index \in Given(Indexes) :
             /\ AddOk(if, bus, unit, index, id)
             /\ drives' = Added(if, media, bus, unit, index, id, FALSE)
  BY DEF AddDrive
<1>2. bus \in Numbers /\ unit \in Numbers /\ index \in Numbers /\ FALSE \in BOOLEAN
  BY NumbersAssumption DEF Given, Numbers
<1>3. drives \in Seq(DriveRecs) /\ Placed(drives)
  BY DEF TableInv, TableTyped
<1>4. Gains(drives', if, media, Resolve(if, bus, unit, index), FALSE)
  <2>1. Gains(Added(if, media, bus, unit, index, id, FALSE), if, media,
              Resolve(if, bus, unit, index), FALSE)
    BY <1>1, <1>2, <1>3, AddedPlaced, Zenon
  <2> QED
    BY <1>1, <2>1, Zenon
<1>5. /\ drives' \in Seq(DriveRecs) /\ Placed(drives')
      /\ \A i \in DOMAIN drives' : i \in DOMAIN drives \/ drives'[i].claimed = FALSE
      /\ \A i \in DOMAIN drives : drives'[i] = drives[i]
  BY <1>4 DEF Gains
<1>6. phase = "options" /\ phase' = phase /\ pos' = pos /\ entries' = entries /\ mon_dev' = mon_dev
  BY DEF AddDrive
<1>7. pos = 1 /\ (\A i \in DOMAIN drives : ~drives[i].claimed) /\ entries = <<>> /\ mon_dev = <<>>
  BY <1>6 DEF TableInv, TableStage
<1>8. TableTyped'
  BY <1>5, <1>6, <1>7 DEF TableTyped
<1>9. TableStage'
  BY <1>5, <1>6, <1>7 DEF TableStage
<1> QED
  BY <1>5, <1>6, <1>7, <1>8, <1>9, NothingEntered DEF TableInv

LEMMA CreateStep == TableInv /\ Create => TableInv'
<1> SUFFICES ASSUME TableInv, Create PROVE TableInv'
  OBVIOUS
<1>1. /\ phase = "options" /\ phase' = "claim" /\ drives' = drives /\ pos' = pos
      /\ entries' = entries /\ mon_dev' = mon_dev /\ machine' \in Machines /\ want' \in Wants
  BY DEF Create
<1>2. pos = 1 /\ (\A i \in DOMAIN drives : ~drives[i].claimed) /\ entries = <<>> /\ mon_dev = <<>>
  BY <1>1 DEF TableInv, TableStage
<1>3. drives \in Seq(DriveRecs) /\ Placed(drives)
  BY DEF TableInv, TableTyped
<1>4. TableTyped'
  BY <1>1, <1>2, <1>3 DEF TableTyped
<1>5. TableStage'
  BY <1>1, <1>2 DEF TableStage
<1> QED
  BY <1>1, <1>2, <1>3, <1>4, <1>5, NothingEntered DEF TableInv

\* The table stays as it is: what is entered and placed stays so.
LEMMA RestStep ==
    TableInv /\ (AddRefused \/ CheckUnclaimed \/ Over \/ UNCHANGED tableVars) => TableInv'
<1>1. CASE AddRefused
  <2> SUFFICES ASSUME TableInv PROVE TableInv'
    BY <1>1
  <2>1. /\ phase' = "refused" /\ drives' = drives /\ pos' = pos /\ machine' = machine
        /\ entries' = entries /\ mon_dev' = mon_dev
    BY <1>1 DEF AddRefused
  <2> QED
    BY <2>1 DEF TableInv, TableTyped, TableStage
<1>2. CASE CheckUnclaimed
  <2> SUFFICES ASSUME TableInv PROVE TableInv'
    BY <1>2
  <2>1. /\ phase = "attach" /\ pos > Len(machine.positions)
        /\ phase' = IF Unclaimed THEN "refused" ELSE "run"
        /\ drives' = drives /\ pos' = pos /\ machine' = machine /\ want' = want
        /\ entries' = entries /\ mon_dev' = mon_dev
    BY <1>2 DEF CheckUnclaimed, Machine
  <2>2. machine \in Machines /\ want \in Wants /\ pos \in Nat \ {0}
    BY <2>1 DEF TableInv, TableTyped
  <2>3. EnteredTo(machine, drives, entries, Len(machine.positions))
    <3>1. EnteredTo(machine, drives, entries, pos - 1)
      BY <2>1 DEF TableInv, TableStage
    <3>2. Len(machine.positions) \in Nat
      BY <2>2, MachineTyped
    <3>3. \A k \in 1..Len(machine.positions) : k \in 1..pos - 1
      BY <2>1, <2>2, <3>2
    <3> QED
      BY <3>1, <3>3 DEF EnteredTo
  <2>4. phase' = "run" => \A i \in DOMAIN drives : drives[i].claimed
    BY <2>1 DEF Unclaimed
  <2>5. phase' \in {"refused", "run"}
    BY <2>1
  <2>6. TableTyped'
    BY <2>1, <2>2, <2>5 DEF TableInv, TableTyped
  <2>7. TableStage'
    BY <2>1, <2>3, <2>4, <2>5 DEF TableInv, TableStage
  <2> QED
    BY <2>1, <2>6, <2>7 DEF TableInv
<1>3. CASE Over \/ UNCHANGED tableVars
  <2> SUFFICES ASSUME TableInv PROVE TableInv'
    BY <1>3
  <2>1. /\ phase' = phase /\ drives' = drives /\ pos' = pos /\ machine' = machine
        /\ want' = want /\ entries' = entries /\ mon_dev' = mon_dev
    BY <1>3 DEF Over, tableVars
  <2> QED
    BY <2>1 DEF TableInv, TableTyped, TableStage
<1> QED
  BY <1>1, <1>2, <1>3

\* A machine's default drive is at unit 0, where it has a device for it.
LEMMA DefaultStep == TableInv /\ Claimed => TableInv'
<1> SUFFICES ASSUME TableInv, Claimed PROVE TableInv'
  OBVIOUS
<1>1. /\ phase = "claim" /\ phase' = "attach" /\ pos' = 1 /\ machine' = machine /\ want' = want
      /\ entries' = entries /\ mon_dev' = mon_dev
  BY DEF Claimed
<1>2. /\ machine \in Machines /\ want \in Wants /\ drives \in Seq(DriveRecs) /\ Placed(drives)
      /\ entries = <<>> /\ mon_dev = <<>>
  BY <1>1 DEF TableInv, TableTyped, TableStage
<1>3. \A i \in DOMAIN drives : drives[i].claimed => Claims(machine, drives[i])
  BY <1>1 DEF TableInv, TableStage
<1>4. /\ drives' \in Seq(DriveRecs) /\ Placed(drives')
      /\ \A i \in DOMAIN drives' : drives'[i].claimed => Claims(machine, drives'[i])
  <2>1. CASE ~AddsDefault
    <3>1. drives' = drives
      BY <2>1 DEF Claimed
    <3> QED
      BY <1>2, <1>3, <3>1
  <2>2. CASE AddsDefault
    <3> DEFINE D == machine.default
    <3>1. D # NoDefault /\ AddOk(D, -1, -1, 0, NoId)
      BY <2>2 DEF AddsDefault, Default
    <3>2. drives' = Added(D, "disk", -1, -1, 0, NoId, TRUE)
      BY <2>2 DEF Claimed, Default
    <3>3. PICK k \in DOMAIN machine.positions :
             LET p == machine.positions[k]
             IN  p.iface = D /\ p.bus = 0 /\ p.unit = 0 /\ "disk" \in p.media
      BY <1>2, <3>1, MachinesAssumption
    <3>4. D \in Interfaces
      BY <1>2, <3>3, MachineTyped
    <3>5. MaxDevs[D] \in Nat
      BY <3>4, MaxDevsAssumption
    <3>6. Resolve(D, -1, -1, 0) = [bus |-> 0, unit |-> 0]
      <4>1. Resolve(D, -1, -1, 0) = Place(D, 0, 0)
        BY DEF Resolve
      <4>2. MaxDevs[D] # 0 => 0 \div MaxDevs[D] = 0 /\ 0 % MaxDevs[D] = 0
        BY <3>5
      <4> QED
        BY <3>5, <4>1, <4>2 DEF Place
    <3> HIDE DEF D
    <3>7. /\ "disk" \in {"disk", "cdrom"} /\ NoId \in Ids \cup {NoId} /\ TRUE \in BOOLEAN
          /\ -1 \in Numbers /\ 0 \in Numbers
      BY DEF Numbers
    <3>8. Gains(Added(D, "disk", -1, -1, 0, NoId, TRUE), D, "disk", Resolve(D, -1, -1, 0), TRUE)
      BY <1>2, <3>1, <3>4, <3>7, AddedPlaced, Zenon
    <3>9. Gains(drives', D, "disk", [bus |-> 0, unit |-> 0], TRUE)
      BY <3>2, <3>6, <3>8, Zenon
    <3> DEFINE n == Len(drives) + 1
    <3>10. /\ drives' \in Seq(DriveRecs) /\ Placed(drives') /\ DOMAIN drives' = DOMAIN drives \cup {n}
           /\ \A i \in DOMAIN drives : drives'[i] = drives[i]
           /\ drives'[n].iface = D /\ drives'[n].media = "disk"
           /\ drives'[n].bus = 0 /\ drives'[n].unit = 0
      BY <3>9 DEF Gains
    <3>11. Claims(machine, drives'[n])
      BY <3>3, <3>10 DEF Claims, Seats
    <3> HIDE DEF n
    <3> QED
      BY <1>3, <3>10, <3>11
  <2> QED
    BY <2>1, <2>2
<1>5. TableTyped'
  BY <1>1, <1>2, <1>4 DEF TableTyped
<1>6. EnteredTo(machine, drives', entries, 0)
  BY DEF EnteredTo
<1>7. TableStage'
  BY <1>1, <1>4, <1>6 DEF TableStage
<1> QED
  BY <1>1, <1>2, <1>4, <1>5, <1>7, NothingEntered DEF TableInv

\* An entry is found under the name of a drive that has one.
LEMMA EntryFound ==
    ASSUME NEW es \in Seq(DOMAIN drives), NEW i, NEW x \in DOMAIN es, es[x] = i
    PROVE  EntryOf(i, es) \in DOMAIN es /\ Spelt(es[EntryOf(i, es)]) = Spelt(i)
<1> DEFINE S == {e \in DOMAIN es : Spelt(es[e]) = Spelt(i)}
<1>1. Len(es) \in Nat /\ DOMAIN es = 1..Len(es)
  BY LenProperties
<1>2. S \in SUBSET Nat /\ S # {}
  BY <1>1
<1>3. PICK n \in S : \A k \in S : n <= k
  BY <1>2, LeastNatural
<1>4. \A f \in 1..n - 1 : Spelt(es[f]) # Spelt(i)
  <2> SUFFICES ASSUME NEW f \in 1..n - 1, Spelt(es[f]) = Spelt(i) PROVE FALSE
    OBVIOUS
  <2>1. f \in DOMAIN es
    BY <1>1
  <2>2. f \in S
    BY <2>1
  <2> QED
    BY <1>1, <1>3, <2>2
<1>5. n \in DOMAIN es /\ Spelt(es[n]) = Spelt(i)
  OBVIOUS
<1> DEFINE c == CHOOSE e \in DOMAIN es : /\ Spelt(es[e]) = Spelt(i)
                                        /\ \A f \in 1..e - 1 : Spelt(es[f]) # Spelt(i)
<1>6. c \in DOMAIN es /\ Spelt(es[c]) = Spelt(i)
  BY <1>4, <1>5, Zenon
<1>7. EntryOf(i, es) = c
  BY Zenon DEF EntryOf
<1> QED
  BY <1>6, <1>7, Zenon

LEMMA AttachStep == TableInv /\ Attach => TableInv'
<1> SUFFICES ASSUME TableInv, Attach PROVE TableInv'
  OBVIOUS
<1>1. /\ phase = "attach" /\ pos <= Len(machine.positions) /\ phase' = phase /\ pos' = pos + 1
      /\ machine' = machine /\ want' = want /\ drives' = drives
  BY DEF Attach, Machine
<1>2. /\ machine \in Machines /\ want \in Wants /\ drives \in Seq(DriveRecs) /\ Placed(drives)
      /\ pos \in Nat \ {0} /\ Entered(drives, entries, mon_dev)
  BY <1>1 DEF TableInv, TableTyped
<1>3. /\ \A i \in DOMAIN drives : drives[i].claimed => Claims(machine, drives[i])
      /\ EnteredTo(machine, drives, entries, pos - 1)
  BY <1>1 DEF TableInv, TableStage
<1>4. pos \in DOMAIN machine.positions
  BY <1>1, <1>2, MachineTyped
<1>5. \A i \in DOMAIN drives : i \in Here <=> Seats(machine, pos, drives[i])
  BY DEF Here, At, Seats, Machine
<1>6. Here \subseteq DOMAIN drives
  BY DEF Here, At
<1>7. Entered(drives, entries', mon_dev') /\ EnteredTo(machine, drives, entries', pos)
  <2>1. CASE Here = {} /\ UNCHANGED <<entries, mon_dev>>
    <3>1. \A k \in 1..pos : k = pos \/ k \in 1..pos - 1
      BY <1>2
    <3>2. EnteredTo(machine, drives, entries, pos)
      BY <1>3, <1>5, <2>1, <3>1 DEF EnteredTo
    <3> QED
      BY <1>2, <2>1, <3>2
  <2>2. CASE \E i \in Here :
              /\ entries' = Append(entries, i)
              /\ mon_dev' = [j \in DOMAIN mon_dev \cup {i} |->
                               IF j = i THEN EntryOf(i, entries') ELSE mon_dev[j]]
    <3>1. PICK i \in Here :
              /\ entries' = Append(entries, i)
              /\ mon_dev' = [j \in DOMAIN mon_dev \cup {i} |->
                               IF j = i THEN EntryOf(i, entries') ELSE mon_dev[j]]
      BY <2>2
    <3>2. i \in DOMAIN drives /\ Seats(machine, pos, drives[i])
      BY <1>5, <1>6
    <3>3. entries \in Seq(DOMAIN drives)
      BY <1>2 DEF Entered
    <3>4. /\ entries' \in Seq(DOMAIN drives) /\ Len(entries) \in Nat
          /\ Len(entries') = Len(entries) + 1 /\ entries'[Len(entries) + 1] = i
          /\ \A e \in DOMAIN entries : entries'[e] = entries[e]
          /\ DOMAIN entries' = DOMAIN entries \cup {Len(entries) + 1}
      <4>1. Len(entries) \in Nat /\ DOMAIN entries = 1..Len(entries)
        BY <3>3, LenProperties
      <4> QED
        BY <3>1, <3>2, <3>3, <4>1, AppendProperties
    <3>5. EntryOf(i, entries') \in DOMAIN entries' /\ Spelt(entries'[EntryOf(i, entries')]) = Spelt(i)
      <4>1. Len(entries) + 1 \in DOMAIN entries'
        BY <3>4
      <4> QED
        BY <3>4, <4>1, EntryFound
    <3>6. OneBus(drives[i])
      BY <1>2, <1>4, <3>2, MachineTyped DEF OneBus, Seats
    <3>7. \A e \in DOMAIN entries' : OneBus(drives[entries'[e]])
      BY <1>2, <3>4, <3>6 DEF Entered
    <3>8. \A j \in DOMAIN mon_dev' :
            /\ j \in DOMAIN drives /\ mon_dev'[j] \in DOMAIN entries' /\ OneBus(drives[j])
            /\ SpeltName(drives[entries'[mon_dev'[j]]].name) = SpeltName(drives[j].name)
      <4> SUFFICES ASSUME NEW j \in DOMAIN mon_dev'
                   PROVE  /\ j \in DOMAIN drives /\ mon_dev'[j] \in DOMAIN entries' /\ OneBus(drives[j])
                          /\ SpeltName(drives[entries'[mon_dev'[j]]].name) = SpeltName(drives[j].name)
        OBVIOUS
      <4>1. CASE j = i
        <5>1. mon_dev'[j] = EntryOf(i, entries')
          BY <3>1, <4>1
        <5> QED
          BY <3>2, <3>5, <3>6, <4>1, <5>1 DEF Spelt, SpeltName
      <4>2. CASE j # i
        <5>1. j \in DOMAIN mon_dev /\ mon_dev'[j] = mon_dev[j]
          BY <3>1, <4>2
        <5> QED
          BY <1>2, <3>4, <5>1 DEF Entered
      <4> QED
        BY <4>1, <4>2
    <3>9. EnteredTo(machine, drives, entries', pos)
      <4> SUFFICES ASSUME NEW k \in 1..pos, NEW j \in DOMAIN drives,
                          k \in DOMAIN machine.positions, Seats(machine, k, drives[j])
                   PROVE  \E e \in DOMAIN entries' : entries'[e] = j
        BY DEF EnteredTo
      <4>1. CASE k = pos
        <5>1. SamePlace(drives[i], drives[j])
          BY <3>2, <4>1 DEF Seats, SamePlace
        <5>2. j = i
          BY <1>2, <3>2, <5>1 DEF Placed
        <5> QED
          BY <3>4, <5>2
      <4>2. CASE k # pos
        <5>1. k \in 1..pos - 1
          BY <1>2, <4>2
        <5>2. PICK e \in DOMAIN entries : entries[e] = j
          BY <1>3, <5>1 DEF EnteredTo
        <5> QED
          BY <3>4, <5>2
      <4> QED
        BY <4>1, <4>2
    <3> QED
      BY <3>4, <3>7, <3>8, <3>9 DEF Entered
  <2>3. \/ Here = {} /\ UNCHANGED <<entries, mon_dev>>
        \/ \E i \in Here :
              /\ entries' = Append(entries, i)
              /\ mon_dev' = [j \in DOMAIN mon_dev \cup {i} |->
                               IF j = i THEN EntryOf(i, entries') ELSE mon_dev[j]]
    BY DEF Attach
  <2> QED
    BY <2>1, <2>2, <2>3
<1>8. TableTyped'
  BY <1>1, <1>2 DEF TableTyped
<1>9. pos' - 1 = pos
  BY <1>1, <1>2
<1>10. TableStage'
  BY <1>1, <1>3, <1>7, <1>9 DEF TableStage
<1> QED
  BY <1>1, <1>2, <1>7, <1>8, <1>10 DEF TableInv

LEMMA TableSafe == TableInv => DrivesPlaced
<1> SUFFICES ASSUME TableInv PROVE DrivesPlaced
  OBVIOUS
<1>1. drives \in Seq(DriveRecs) /\ Placed(drives) /\ Entered(drives, entries, mon_dev)
  BY DEF TableInv, TableTyped
<1>2. PositionsUnique
  BY <1>1 DEF Placed, Fits, SamePlace, PositionsUnique
<1>3. NextFreeUnit
  BY <1>1 DEF Placed, TakesNext, NextFreeUnit
<1>4. AllClaimed
  <2> SUFFICES ASSUME phase = "run", NEW i \in DOMAIN drives
               PROVE  /\ \E k \in DOMAIN Machine :
                            /\ i \in At(Machine[k].iface, Machine[k].bus, Machine[k].unit)
                            /\ drives[i].media \in Machine[k].media
                      /\ \E e \in DOMAIN entries : entries[e] = i
    BY DEF AllClaimed
  <2>1. /\ Claims(machine, drives[i]) /\ EnteredTo(machine, drives, entries, Len(machine.positions))
        /\ machine \in Machines
    BY DEF TableInv, TableStage, TableTyped
  <2>2. PICK k \in DOMAIN machine.positions :
           Seats(machine, k, drives[i]) /\ drives[i].media \in machine.positions[k].media
    BY <2>1 DEF Claims
  <2>3. k \in 1..Len(machine.positions)
    BY <2>1, MachineTyped
  <2>4. \E e \in DOMAIN entries : entries[e] = i
    BY <2>1, <2>2, <2>3 DEF EnteredTo
  <2> QED
    BY <2>2, <2>4 DEF At, Seats, Machine
<1>5. OwnEntry
  <2> SUFFICES ASSUME NEW i \in DOMAIN mon_dev, ~Confused(i), entries[mon_dev[i]] # i
               PROVE  FALSE
    BY DEF OwnEntry
  <2> DEFINE j == entries[mon_dev[i]]
  <2>1. /\ i \in DOMAIN drives /\ mon_dev[i] \in DOMAIN entries /\ OneBus(drives[i])
        /\ SpeltName(drives[j].name) = SpeltName(drives[i].name) /\ OneBus(drives[j])
    BY <1>1 DEF Entered
  <2>2. j \in DOMAIN drives
    BY <1>1, <2>1, ElementOfSeq, LenProperties DEF Entered
  <2>3. Spelt(i) = Spelt(j)
    BY <2>1 DEF Spelt, SpeltName
  <2>4. drives[i].name \notin Ids /\ drives[j].name \notin Ids
    BY <2>1, <2>2, <2>3 DEF Confused
  <2> HIDE DEF j
  <2>5. drives[i] \in DriveRecs /\ drives[j] \in DriveRecs
    BY <1>1, <2>1, <2>2, ElementOfSeq, LenProperties
  <2>6. /\ drives[i].name = DefaultName(drives[i].iface, drives[i].media,
                                       [bus |-> drives[i].bus, unit |-> drives[i].unit])
        /\ drives[j].name = DefaultName(drives[j].iface, drives[j].media,
                                       [bus |-> drives[j].bus, unit |-> drives[j].unit])
    BY <1>1, <2>1, <2>2, <2>4 DEF Placed, Fits
  <2>7. drives[i].name = drives[j].name
    BY <2>3, <2>4 DEF Spelt
  <2>8. drives[i].iface = drives[j].iface /\ drives[i].unit = drives[j].unit
        /\ (MaxDevs[drives[i].iface] # 0 => drives[i].bus = drives[j].bus)
    BY <2>6, <2>7 DEF DefaultName
  <2>9. SamePlace(drives[i], drives[j])
    BY <2>1, <2>8 DEF OneBus, SamePlace
  <2>10. i # j
    BY DEF j
  <2> QED
    BY <1>1, <2>1, <2>2, <2>9, <2>10 DEF Placed
<1> QED
  BY <1>2, <1>3, <1>4, <1>5 DEF DrivesPlaced

\* gemu_drive_add, gemu_drive_get, gemu_drive_add_default and
\* gemu_drive_check_unclaimed: however the options were mixed, every drive ends
\* at a position of its own, the next free one where it named none, a machine
\* runs only with drives it has devices for, and a drive keeps the entry of
\* another drive current only when an id= is spelt as another name.
THEOREM DrivesInPlace == TableSpec => []DrivesPlaced
<1>1. TableInv /\ [TableNext]_tableVars => TableInv'
  BY AddStep, CreateStep, ClaimStep, DefaultStep, AttachStep, RestStep DEF TableNext
<1> QED
  BY <1>1, TableStart, TableSafe, PTL DEF TableSpec
=============================================================================
