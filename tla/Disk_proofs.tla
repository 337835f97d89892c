------------------------------ MODULE Disk_proofs ------------------------------
(***************************************************************************)
(* Files reach what handles them: for any pins, files, clusters and        *)
(* contents, wherever the host puts a file and whether it sends a file's   *)
(* directory or its data first.  The host sends all that is dirty before   *)
(* it starts on the next file, so at most one file is under way, and the   *)
(* clusters that the firmware keeps are those of the directory entries.    *)
(***************************************************************************)
EXTENDS Disk, FiniteSetTheorems, TLAPS

(***************************************************************************)
(* The habits a theorem depends on.  A cluster is kept for a pin file that *)
(* was deleted, and for a device file that was deleted or emptied.         *)
(***************************************************************************)
HandledStay == Pins \cap Deleted = {} /\ Device \notin Emptied \cup Deleted
PinsRegistered == "unplug" \notin Host \/ Pins \cap Emptied = {}
TimesDiffer == "sametime" \notin Host
InOrder == "dirfirst" \notin Host /\ RunFile \notin Emptied \cup Deleted

\* The type invariant, and where a cluster is read.
TypeInv ==
    /\ TypeOK
    /\ runfile_triggered => runfile_cluster \in Clusters
    /\ \A f \in Files : Data(f) \in dirty => AllocatedTo(f)

Readable(f) == f = Device => devdir
\* At most one file is under way; the entries of all others are on the card.
UnderWay(f) ==
    /\ dirty \subseteq {Data(f), Block(Dir(f))}
    /\ \A g \in Files : (g # f \/ Block(Dir(f)) \notin dirty) /\ Readable(g)
                        => entry[g] = file[g].cluster
InTurn == \E f \in Files : UnderWay(f)

Distinct ==
    \A f, g \in Files : AllocatedTo(f) /\ f # g => file[f].cluster # file[g].cluster

\* What the firmware keeps are the clusters of the entries.
PinsFollowed == \A i \in DOMAIN pins : pins[i].cluster = entry[pins[i].id]
PinsStay == \A p \in Pins : file[p].cluster # Gone /\ entry[p] # Gone
RunfileFollowed == entry[RunFile] \in Clusters => runfile_cluster = entry[RunFile]
DeviceFollowed ==
    IF Block("dev") \in dirty THEN AllocatedTo(Device)
    ELSE device \in {Empty, Gone, file[Device].cluster}

\* What was sent is stored, unless a pin's handler took it.
SentStored ==
    \A f \in Files \ {Device} :
        /\ AllocatedTo(f) /\ Data(f) \notin dirty
        /\ f \in Pins => entry[f] # file[f].cluster
        => stored[file[f].cluster] = file[f].value

FilesInv ==
    /\ TypeInv /\ InTurn /\ Distinct
    /\ PinsFollowed /\ PinsStay /\ RunfileFollowed /\ DeviceFollowed
    /\ SentStored

\* Every pin has a place in pin_values, and did what its file asks for when that came.
Registration == \A p \in Pins : \E i \in DOMAIN pins : pins[i].id = p
NeverBlank ==
    Pins \cap Emptied = {} => \A p \in Pins : AllocatedTo(p) /\ entry[p] \in Clusters
Driven ==
    \A p \in Pins \cap asked :
        AllocatedTo(p) /\ Data(p) \notin dirty /\ entry[p] = file[p].cluster
        => driven[p] = Parse(file[p].value)

\* The directory of a new RUN.LIO has a time that no run was triggered for.
NewTimes ==
    /\ runfile_mod <= mod
    /\ Block("io") \in dirty /\ AllocatedTo(RunFile) => runfile_mod < mod
Evaluated ==
    /\ RunFile \in asked /\ AllocatedTo(RunFile)
    /\ Block("io") \notin dirty /\ ~runfile_triggered
    => script = file[RunFile].value

\* A device file is delivered where its handler has it, or found by its directory.
DeviceFound ==
    Data(Device) \in dirty /\ Block("dev") \notin dirty /\ device # Gone
    => device = file[Device].cluster
Delivered ==
    Device \in asked /\ AllocatedTo(Device) /\ device # Gone /\ Data(Device) \notin dirty
    => IF device = file[Device].cluster THEN delivered = file[Device].value
       ELSE Block("dev") \in dirty /\ stored[file[Device].cluster] = file[Device].value

-----------------------------------------------------------------------------
\* Names of dirty blocks, and of directories.

LEMMA Blocks ==
    /\ \A f, g \in Files : Data(f) = Data(g) => f = g
    /\ \A d, e \in Dirs : Block(d) = Block(e) => d = e
    /\ \A f \in Files, d \in Dirs : Data(f) # Block(d)
  BY DEF Data, Block

LEMMA DirOf ==
    ASSUME NEW f \in Files
    PROVE  /\ Dir(f) \in Dirs
           /\ Dir(f) = "pins" <=> f \in Pins
           /\ Dir(f) = "io" <=> f = RunFile
           /\ Dir(f) = "dev" <=> f = Device
  BY FilesAssumption DEF Dir, Dirs, Files

-----------------------------------------------------------------------------
\* The places of pin_values.

Slot == [id : Pins, cluster : Clusters \cup {Empty}]

LEMMA Placed ==
    ASSUME NEW ids \in SUBSET Pins, NEW list \in Listings(ids),
           NEW e \in [Files -> Clusters \cup {Empty, Gone}],
           \A p \in ids : e[p] \in Clusters
    PROVE  /\ Registered(list, e) \in Seq(Slot)
           /\ \A i \in DOMAIN Registered(list, e) :
                 /\ Registered(list, e)[i].id \in ids
                 /\ Registered(list, e)[i].cluster = e[Registered(list, e)[i].id]
           /\ \A p \in ids : \E i \in DOMAIN Registered(list, e) :
                 Registered(list, e)[i].id = p
<1> DEFINE n == Cardinality(ids)
           placed == Registered(list, e)
<1>1. IsFiniteSet(ids)
  BY FilesAssumption, FS_Subset
<1>2. n \in Nat
  BY <1>1, FS_CardinalityType
<1>3. list \in [1..n -> ids] /\ \A p \in ids : \E i \in 1..n : list[i] = p
  BY DEF Listings, Bijection, Injection, Surjection
<1> HIDE DEF n
<1>4. placed = [i \in 1..n |-> [id |-> list[i], cluster |-> e[list[i]]]]
  BY <1>3 DEF Registered
<1>5. \A i \in 1..n : placed[i] \in Slot
  BY <1>3, <1>4 DEF Slot
<1>6. placed \in Seq(Slot)
  BY <1>2, <1>4, <1>5
<1>7. DOMAIN placed = 1..n /\ \A i \in 1..n : placed[i] = [id |-> list[i], cluster |-> e[list[i]]]
  BY <1>4
<1> HIDE DEF placed
<1>8. \A i \in DOMAIN placed : placed[i].id \in ids /\ placed[i].cluster = e[placed[i].id]
  BY <1>3, <1>7
<1>9. \A p \in ids : \E i \in DOMAIN placed : placed[i].id = p
  BY <1>3, <1>7
<1> QED BY <1>6, <1>8, <1>9 DEF placed

LEMMA Places ==
    ASSUME TypeOK, WritePinsDir, entry' \in [Files -> Clusters \cup {Empty, Gone}]
    PROVE  /\ pins' \in Seq(Slot)
           /\ \A i \in DOMAIN pins' :
                 \/ i \in DOMAIN pins /\ pins'[i] = Follow(i, entry'[pins[i].id])
                 \/ pins'[i].id \in NotEmpty(entry') /\ pins'[i].cluster = entry'[pins'[i].id]
           /\ \A i \in DOMAIN pins : i \in DOMAIN pins' /\ pins'[i].id = pins[i].id
<1> DEFINE followed == [i \in DOMAIN pins |-> Follow(i, entry'[pins[i].id])]
<1>1. PICK list \in Listings(Unregistered(entry')) :
          pins' = followed \o Registered(list, entry')
  BY DEF WritePinsDir
<1> DEFINE added == Registered(list, entry')
<1>2. Unregistered(entry') \subseteq NotEmpty(entry') /\ NotEmpty(entry') \subseteq Pins
  BY DEF Unregistered, NotEmpty
<1>3. \A p \in Unregistered(entry') : entry'[p] \in Clusters
  BY <1>2 DEF NotEmpty
<1>4. /\ added \in Seq(Slot)
      /\ \A i \in DOMAIN added : /\ added[i].id \in Unregistered(entry')
                                 /\ added[i].cluster = entry'[added[i].id]
  <2>1. Unregistered(entry') \in SUBSET Pins
    BY <1>2
  <2> QED BY <1>1, <1>3, <2>1, Placed
<1>5. pins \in Seq(Slot)
  BY DEF TypeOK, Slot
<1>6. \A i \in DOMAIN pins : Follow(i, entry'[pins[i].id]) \in Slot
                             /\ Follow(i, entry'[pins[i].id]).id = pins[i].id
  <2> TAKE i \in DOMAIN pins
  <2>1. pins[i] \in Slot
    BY <1>5
  <2>2. entry'[pins[i].id] \in Clusters \cup {Empty, Gone}
    BY <2>1 DEF Slot, Files
  <2> QED BY <2>1, <2>2 DEF Follow, Slot
<1>7. DOMAIN pins = 1..Len(pins) /\ Len(pins) \in Nat
  BY <1>5
<1>8. followed \in Seq(Slot) /\ Len(followed) = Len(pins)
  BY <1>6, <1>7
<1>9. \A i \in DOMAIN pins : followed[i] = Follow(i, entry'[pins[i].id])
  OBVIOUS
<1> HIDE DEF followed, added
<1>a. pins' = followed \o added
  BY <1>1 DEF added
<1>b. pins' \in Seq(Slot)
  BY <1>a, <1>4, <1>8
<1>c. DOMAIN added = 1..Len(added) /\ Len(added) \in Nat
  BY <1>4
<1>d. Len(pins') = Len(pins) + Len(added) /\ DOMAIN pins' = 1..Len(pins')
  <2>1. Len(followed \o added) = Len(followed) + Len(added)
    BY <1>4, <1>8
  <2>2. DOMAIN pins' = 1..Len(pins')
    BY <1>b
  <2> QED BY <1>a, <1>8, <2>1, <2>2
<1>10. \A i \in 1..Len(pins') :
          pins'[i] = IF i <= Len(pins) THEN followed[i] ELSE added[i - Len(pins)]
  BY <1>a, <1>c, <1>d, <1>4, <1>7, <1>8
<1>11. \A i \in DOMAIN pins : i \in DOMAIN pins' /\ pins'[i] = followed[i]
  BY <1>7, <1>10, <1>c, <1>d
<1>12. ASSUME NEW i \in DOMAIN pins', i \notin DOMAIN pins
       PROVE  pins'[i].id \in NotEmpty(entry') /\ pins'[i].cluster = entry'[pins'[i].id]
  <2>1. i - Len(pins) \in DOMAIN added /\ pins'[i] = added[i - Len(pins)]
    BY <1>7, <1>10, <1>c, <1>d, <1>12
  <2> QED BY <2>1, <1>4, <1>2
<1> QED BY <1>6, <1>9, <1>b, <1>11, <1>12

LEMMA PowerUpPlaces ==
    ASSUME NEW e \in [Files -> Clusters \cup {Empty, Gone}], NEW s, NEW readable,
           PowerUp(e, s, readable)
    PROVE  /\ pins' \in Seq(Slot)
           /\ \A i \in DOMAIN pins' : /\ pins'[i].id \in NotEmpty(e)
                                      /\ pins'[i].cluster = e[pins'[i].id]
           /\ \A p \in NotEmpty(e) : \E i \in DOMAIN pins' : pins'[i].id = p
<1>1. PICK list \in Listings(NotEmpty(e)) : pins' = Registered(list, e)
  BY DEF PowerUp
<1>2. NotEmpty(e) \in SUBSET Pins /\ \A p \in NotEmpty(e) : e[p] \in Clusters
  BY DEF NotEmpty
<1> QED BY <1>1, <1>2, Placed

-----------------------------------------------------------------------------
(***************************************************************************)
(* Types                                                                   *)
(***************************************************************************)
Cards == Clusters \cup {Empty, Gone}
USE DEF Cards

LEMMA ParseIsNumber == \A v : Parse(v) \in Numbers
  BY ValuesAssumption DEF Parse

LEMMA FoundType == \A c : Found(c) \in Clusters \cup {Empty}
  BY DEF Found

LEMMA InitTypes == Init => TypeInv
<1> SUFFICES ASSUME Init PROVE TypeInv
  OBVIOUS
<1>1. PICK blank \in Texts :
          /\ stored = [c \in Clusters |-> blank]
          /\ file = [f \in Files |-> [cluster |-> entry[f], value |-> blank]]
          /\ script = blank
  BY DEF Init
<1>2. entry \in [Files -> Clusters] /\ entry \in [Files -> Cards] /\ Files # {}
  BY DEF Init, Files
<1>3. file \in [Files -> [cluster : Cards, value : Values]] /\ stored \in [Clusters -> Values]
      /\ script \in Values
  BY <1>1, <1>2 DEF Values
<1>4. pins \in Seq(Slot)
  <2>1. PICK list \in Listings(Pins) : pins = Registered(list, entry)
    BY DEF Init
  <2>2. \A p \in Pins : entry[p] \in Clusters
    BY <1>2 DEF Files
  <2> QED BY <2>1, <2>2, <1>2, Placed
<1>5. /\ device \in Cards /\ runfile_cluster \in Clusters \cup {Empty}
  BY <1>2 DEF Init, Files
<1>6. /\ mod \in 1..Mods /\ entryMod \in 1..Mods /\ runfile_mod \in 0..Mods
      /\ devdir \in BOOLEAN /\ runfile_triggered = FALSE /\ dirty = {} /\ asked = {}
  BY HostAssumption DEF Init
<1>7. delivered \in Values /\ driven \in [Pins -> Numbers]
  BY ValuesAssumption DEF Init, Values
<1> QED BY <1>2, <1>3, <1>4, <1>5, <1>6, <1>7 DEF TypeInv, TypeOK, Slot

LEMMA SaveTypes == ASSUME TypeInv, NEW f \in Files, Save(f) PROVE TypeInv'
<1>1. PICK v \in Values, c \in Free \cup ({file[f].cluster} \cap Clusters) :
          /\ file' = [file EXCEPT ![f] = [cluster |-> c, value |-> v]]
          /\ dirty' = dirty \cup {Data(f), Block(Dir(f))}
  BY DEF Save
<1>2. c \in Clusters /\ dirty = {}
  BY DEF Free, Save, Settled
<1>3. file' \in [Files -> [cluster : Cards, value : Values]] /\ file'[f].cluster \in Clusters
  BY <1>1, <1>2 DEF TypeInv, TypeOK
<1>4. dirty' \subseteq [data : Files] \cup [dir : Dirs]
      /\ \A g \in Files : Data(g) \in dirty' => g = f
  BY <1>1, <1>2, Blocks, DirOf DEF Data, Block
<1>5. mod' \in 1..Mods
  BY HostAssumption DEF Save, TypeInv, TypeOK
<1>6. asked' \subseteq Files
  BY DEF Save, TypeInv, TypeOK
<1>7. UNCHANGED <<card, pins, device, delivered, driven, runfile>>
  BY DEF Save
<1> QED BY <1>3, <1>4, <1>5, <1>6, <1>7
        DEF TypeInv, TypeOK, card, runfile, AllocatedTo

LEMMA ReleaseTypes ==
    ASSUME TypeInv, NEW f \in Files, NEW c \in {Empty, Gone}, Release(f, c) PROVE TypeInv'
<1>1. /\ file' = [file EXCEPT ![f] = [cluster |-> c, value |-> Zero]]
      /\ dirty' = {Block(Dir(f))}
      /\ UNCHANGED <<mod, card, pins, device, delivered, driven, runfile, asked>>
  BY DEF Release, Settled
<1>2. file' \in [Files -> [cluster : Cards, value : Values]]
  BY <1>1, ValuesAssumption DEF TypeInv, TypeOK, Values
<1>3. dirty' \subseteq [data : Files] \cup [dir : Dirs] /\ \A g \in Files : Data(g) \notin dirty'
  BY <1>1, Blocks, DirOf DEF Block
<1> QED BY <1>1, <1>2, <1>3 DEF TypeInv, TypeOK, card, runfile

\* The files that the host finds on the card.
OnCard == [f \in Files |-> IF f = Device /\ ~devdir THEN Gone ELSE entry[f]]

LEMMA UnplugTypes == ASSUME TypeInv, Unplug PROVE TypeInv'
<1>1. /\ file' = [f \in Files |->
                     [cluster |-> OnCard[f],
                      value |-> IF OnCard[f] \in Clusters THEN stored[OnCard[f]] ELSE Zero]]
      /\ mod' = entryMod /\ PowerUp(OnCard, stored, devdir)
      /\ UNCHANGED <<dirty, card>> /\ dirty = {}
  BY DEF Unplug, OnCard, Settled
<1>2. OnCard \in [Files -> Cards]
  BY DEF OnCard, TypeInv, TypeOK
<1>3. \A c \in Clusters : stored[c] \in Values
  BY DEF TypeInv, TypeOK
<1>4. file' \in [Files -> [cluster : Cards, value : Values]]
  BY <1>1, <1>2, <1>3, ValuesAssumption DEF Values
<1>5. pins' \in Seq(Slot)
  BY <1>1, <1>2, PowerUpPlaces
<1>6. /\ driven' \in [Pins -> Numbers] /\ runfile_cluster' \in Clusters \cup {Empty}
      /\ runfile_mod' \in 0..Mods /\ runfile_triggered' = FALSE /\ asked' = {}
      /\ device' \in Cards
  BY <1>1, FoundType, ValuesAssumption, HostAssumption DEF PowerUp, FindDevice
<1>7. script' \in Values /\ delivered' \in Values
  BY <1>1, <1>3, ValuesAssumption DEF PowerUp, Values
<1>8. mod' \in 1..Mods
  BY <1>1 DEF TypeInv, TypeOK
<1> QED BY <1>1, <1>4, <1>5, <1>6, <1>7, <1>8 DEF TypeInv, TypeOK, card, Slot

LEMMA WriteDataTypes == ASSUME TypeInv, NEW f \in Files, WriteData(f) PROVE TypeInv'
<1>1. /\ file[f].cluster \in Clusters /\ file[f].value \in Values
      /\ dirty' = dirty \ {Data(f)}
      /\ UNCHANGED <<file, mod, entry, entryMod, devdir, pins, device, runfile, asked>>
  BY DEF WriteData, TypeInv, TypeOK, AllocatedTo
<1>2. driven' \in [Pins -> Numbers] /\ delivered' \in Values
  BY <1>1, ParseIsNumber DEF WriteData, TypeInv, TypeOK
<1>3. stored' \in [Clusters -> Values]
  BY <1>1 DEF WriteData, TypeInv, TypeOK
<1> QED BY <1>1, <1>2, <1>3 DEF TypeInv, TypeOK, runfile, AllocatedTo

LEMMA EntriesType ==
    ASSUME TypeOK, NEW d
    PROVE  /\ Entries(d) \in [Files -> Cards]
           /\ \A f \in Files : Entries(d)[f] = IF Dir(f) = d THEN file[f].cluster ELSE entry[f]
<1>1. \A f \in Files : file[f].cluster \in Cards
  BY DEF TypeOK
<1> QED BY <1>1 DEF Entries, TypeOK

LEMMA WritePinsDirTypes == ASSUME TypeInv, WritePinsDir PROVE TypeInv'
<1>1. /\ entry' = Entries("pins") /\ dirty' \subseteq dirty
      /\ UNCHANGED <<file, mod, asked, entryMod, devdir, stored, device, delivered, runfile>>
  BY DEF WritePinsDir, SendDir
<1>2. TypeOK /\ entry' \in [Files -> Cards]
  BY <1>1, EntriesType DEF TypeInv
<1>3. pins' \in Seq(Slot)
  BY <1>2, Places
<1>4. driven' \in [Pins -> Numbers]
  BY <1>2, ParseIsNumber DEF WritePinsDir, TypeOK
<1> QED BY <1>1, <1>2, <1>3, <1>4 DEF TypeInv, TypeOK, runfile, AllocatedTo, Slot

LEMMA WriteIoDirTypes == ASSUME TypeInv, WriteIoDir PROVE TypeInv'
<1>1. /\ entry' = Entries("io") /\ entryMod' = mod /\ dirty' \subseteq dirty
      /\ UNCHANGED <<file, mod, asked, devdir, stored, pins, device, delivered, driven, script>>
  BY DEF WriteIoDir, SendDir
<1>2. TypeOK /\ entry' \in [Files -> Cards]
  BY <1>1, EntriesType DEF TypeInv
<1>3. /\ runfile_cluster' \in Clusters \cup {Empty} /\ runfile_mod' \in 0..Mods
      /\ runfile_triggered' \in BOOLEAN
      /\ runfile_triggered' => runfile_cluster' \in Clusters
  <2>1. CASE RunfileNew(entry'[RunFile])
    <3>1. mod \in 0..Mods
      BY HostAssumption DEF TypeInv, TypeOK
    <3>2. entry'[RunFile] \in Clusters
      BY <2>1 DEF RunfileNew
    <3>3. runfile_cluster' = entry'[RunFile] /\ runfile_mod' = mod /\ runfile_triggered'
      BY <2>1 DEF WriteIoDir
    <3>4. runfile_triggered' \in BOOLEAN
      BY <2>1 DEF WriteIoDir
    <3> QED BY <3>1, <3>2, <3>3, <3>4
  <2>2. CASE ~RunfileNew(entry'[RunFile])
    BY <2>2 DEF WriteIoDir, TypeInv, TypeOK
  <2> QED BY <2>1, <2>2
<1> QED BY <1>1, <1>2, <1>3 DEF TypeInv, TypeOK, AllocatedTo

LEMMA WriteDevDirTypes == ASSUME TypeInv, WriteDevDir PROVE TypeInv'
<1>1. /\ dirty' \subseteq dirty
      /\ UNCHANGED <<file, mod, asked, entryMod, stored, pins, driven, runfile>>
  BY DEF WriteDevDir, SendDir
<1>2. TypeOK /\ Entries("dev") \in [Files -> Cards]
  BY EntriesType DEF TypeInv
<1>3. /\ entry' \in [Files -> Cards] /\ devdir' \in BOOLEAN
      /\ device' \in Cards /\ delivered' \in Values
  BY <1>2 DEF WriteDevDir, DeviceMoved, TypeOK
<1> QED BY <1>1, <1>2, <1>3 DEF TypeInv, TypeOK, runfile, AllocatedTo

LEMMA WriteOtherDirTypes == ASSUME TypeInv, WriteOtherDir PROVE TypeInv'
<1>1. /\ entry' = Entries("rest") /\ dirty' \subseteq dirty
      /\ UNCHANGED <<file, mod, asked, entryMod, devdir, stored, pins, device, delivered,
                     driven, runfile>>
  BY DEF WriteOtherDir, SendDir
<1>2. TypeOK /\ entry' \in [Files -> Cards]
  BY <1>1, EntriesType DEF TypeInv
<1> QED BY <1>1, <1>2 DEF TypeInv, TypeOK, runfile, AllocatedTo

LEMMA CheckTypes == ASSUME TypeInv, CheckRunfileChanged PROVE TypeInv'
<1>1. /\ runfile_triggered /\ runfile_triggered' = FALSE
      /\ script' = stored[runfile_cluster] /\ device' = FindDevice(entry, devdir)
      /\ asked' = asked \ {Device}
      /\ UNCHANGED <<host, card, pins, delivered, driven, runfile_cluster, runfile_mod>>
  BY DEF CheckRunfileChanged
<1>2. script' \in Values
  BY <1>1 DEF TypeInv, TypeOK
<1>3. device' \in Cards
  BY <1>1, FoundType DEF FindDevice
<1> QED BY <1>1, <1>2, <1>3 DEF TypeInv, TypeOK, host, card, AllocatedTo

\* The cases of Next, for the proofs that a step keeps an invariant.
LEMMA Steps ==
    ASSUME [Next]_vars
    PROVE  \/ \E f \in Files : Save(f)
           \/ \E f \in Emptied : Release(f, Empty)
           \/ \E f \in Deleted : Release(f, Gone)
           \/ Unplug
           \/ \E f \in Files : WriteData(f)
           \/ WritePinsDir \/ WriteIoDir \/ WriteDevDir \/ WriteOtherDir
           \/ CheckRunfileChanged
           \/ UNCHANGED vars
  BY FilesAssumption DEF Next, HostStep, FirmwareStep, Truncate, Delete

LEMMA TypesStep == TypeInv /\ [Next]_vars => TypeInv'
<1> SUFFICES ASSUME TypeInv, [Next]_vars PROVE TypeInv'
  OBVIOUS
<1>1. CASE UNCHANGED vars
  BY <1>1 DEF TypeInv, TypeOK, vars, host, card, runfile, AllocatedTo
<1>2. CASE \E f \in Files : Save(f)
  BY <1>2, SaveTypes
<1>3. CASE \E f \in Emptied : Release(f, Empty)
  BY <1>3, ReleaseTypes, FilesAssumption
<1>4. CASE \E f \in Deleted : Release(f, Gone)
  BY <1>4, ReleaseTypes, FilesAssumption
<1>5. CASE \E f \in Files : WriteData(f)
  BY <1>5, WriteDataTypes
<1> QED
  BY Steps, <1>1, <1>2, <1>3, <1>4, <1>5, UnplugTypes, WritePinsDirTypes, WriteIoDirTypes,
     WriteDevDirTypes, WriteOtherDirTypes, CheckTypes

\* Every variable of the block layer keeps its type, and a run is only pending for a
\* RUN.LIO that has a cluster to be read from (has_watcher, check_runfile_changed).
THEOREM DiskTypes == Spec => []TypeOK
<1>1. Spec => []TypeInv
  BY InitTypes, TypesStep, PTL DEF Spec
<1> QED BY <1>1, PTL DEF TypeInv

-----------------------------------------------------------------------------
(***************************************************************************)
(* Where the files are                                                     *)
(***************************************************************************)
LEMMA Turn ==
    ASSUME InTurn, NEW f \in Files, Data(f) \in dirty
    PROVE  UnderWay(f)
<1>1. PICK g \in Files : UnderWay(g)
  BY DEF InTurn
<1>2. Data(f) \in {Data(g), Block(Dir(g))}
  BY <1>1 DEF UnderWay
<1>3. f = g
  BY <1>2, Blocks, DirOf
<1> QED BY <1>1, <1>3

LEMMA TurnOfDir ==
    ASSUME InTurn, NEW d \in Dirs, Block(d) \in dirty
    PROVE  \E f \in Files : Dir(f) = d /\ UnderWay(f)
<1>1. PICK g \in Files : UnderWay(g)
  BY DEF InTurn
<1>2. Block(d) \in {Data(g), Block(Dir(g))}
  BY <1>1 DEF UnderWay
<1>3. Dir(g) = d
  BY <1>2, Blocks, DirOf
<1> QED BY <1>1, <1>3

LEMMA Sent ==
    ASSUME InTurn, NEW f \in Files, Block(Dir(f)) \notin dirty, Readable(f)
    PROVE  entry[f] = file[f].cluster
  BY DEF InTurn, UnderWay

LEMMA FileNames ==
    /\ RunFile \in Files /\ Device \in Files /\ Pins \subseteq Files
    /\ RunFile \notin Pins /\ Device \notin Pins /\ RunFile # Device
    /\ {"pins", "io", "dev", "rest"} \subseteq Dirs
  BY FilesAssumption DEF Files, Dirs

LEMMA SlotType == ASSUME TypeOK, NEW i \in DOMAIN pins PROVE pins[i] \in Slot
<1>1. pins \in Seq(Slot)
  BY DEF TypeOK, Slot
<1> QED BY <1>1

LEMMA InitFiles == Init => FilesInv
<1> SUFFICES ASSUME Init PROVE FilesInv
  OBVIOUS
<1>1. TypeInv /\ RunFile \in Files /\ dirty = {}
  BY InitTypes, FileNames DEF Init
<1>2. PICK blank \in Texts : /\ stored = [c \in Clusters |-> blank]
                             /\ file = [f \in Files |-> [cluster |-> entry[f], value |-> blank]]
  BY DEF Init
<1>3. \A f \in Files : file[f].cluster = entry[f] /\ entry[f] \in Clusters
                       /\ file[f].value = stored[entry[f]]
  BY <1>2 DEF Init
<1>4. InTurn
  BY <1>1, <1>3 DEF InTurn, UnderWay
<1>5. Distinct
  BY <1>3 DEF Init, Distinct
<1>6. PinsFollowed
  <2>1. PICK list \in Listings(Pins) : pins = Registered(list, entry)
    BY DEF Init
  <2>2. entry \in [Files -> Cards] /\ \A p \in Pins : entry[p] \in Clusters
    BY <1>3, FileNames DEF Init
  <2> QED BY <2>1, <2>2, Placed DEF PinsFollowed
<1>7. PinsStay
  BY <1>3, FileNames, ClustersAssumption DEF PinsStay
<1>8. RunfileFollowed /\ DeviceFollowed
  BY <1>1, <1>3, FileNames DEF Init, RunfileFollowed, DeviceFollowed
<1>9. SentStored
  BY <1>3 DEF SentStored
<1> QED BY <1>1, <1>4, <1>5, <1>6, <1>7, <1>8, <1>9 DEF FilesInv

LEMMA SaveFiles == ASSUME FilesInv, NEW f \in Files, Save(f) PROVE FilesInv'
<1>1. PICK v \in Values, c \in Free \cup ({file[f].cluster} \cap Clusters) :
          /\ file' = [file EXCEPT ![f] = [cluster |-> c, value |-> v]]
          /\ dirty' = dirty \cup {Data(f), Block(Dir(f))}
  BY DEF Save
<1>2. dirty = {} /\ dirty' = {Data(f), Block(Dir(f))}
  BY <1>1 DEF Save, Settled
<1>3. UNCHANGED <<entry, devdir, stored, pins, device, runfile_cluster>>
  BY DEF Save, card, runfile
<1>4. TypeInv' /\ file \in [Files -> [cluster : Cards, value : Values]]
  BY SaveTypes DEF FilesInv, TypeInv, TypeOK
<1>5. /\ file'[f].cluster = c /\ c \in Clusters
      /\ \A g \in Files \ {f} : file'[g] = file[g] /\ file[g].cluster # c
  BY <1>1, <1>4 DEF Free, FilesInv, Distinct, AllocatedTo
<1>6. InTurn'
  <2>1. \A g \in Files : Readable(g) => entry[g] = file[g].cluster
    BY <1>2, Sent DEF FilesInv
  <2>2. UnderWay(f)'
    BY <1>2, <1>3, <1>5, <2>1 DEF UnderWay, Readable
  <2> QED BY <2>2 DEF InTurn
<1>7. Distinct'
  BY <1>5 DEF FilesInv, Distinct, AllocatedTo
<1>8. PinsFollowed' /\ RunfileFollowed'
  BY <1>3 DEF FilesInv, PinsFollowed, RunfileFollowed
<1>9. PinsStay'
  BY <1>3, <1>5, ClustersAssumption, FileNames DEF FilesInv, PinsStay
<1>10. DeviceFollowed'
  BY <1>2, <1>3, <1>5, Blocks, DirOf, FileNames DEF FilesInv, DeviceFollowed, AllocatedTo
<1>11. SentStored'
  BY <1>2, <1>3, <1>5 DEF FilesInv, SentStored, AllocatedTo
<1> QED BY <1>4, <1>6, <1>7, <1>8, <1>9, <1>10, <1>11 DEF FilesInv

LEMMA ReleaseFiles ==
    ASSUME FilesInv, NEW f \in Files \ {Device}, NEW c \in {Empty, Gone},
           c = Gone => f \notin Pins, Release(f, c)
    PROVE  FilesInv'
<1>1. /\ file' = [file EXCEPT ![f] = [cluster |-> c, value |-> Zero]]
      /\ dirty = {} /\ dirty' = {Block(Dir(f))}
  BY DEF Release, Settled
<1>2. UNCHANGED <<entry, devdir, stored, pins, device, runfile_cluster>>
  BY DEF Release, card, runfile
<1>3. TypeInv' /\ file \in [Files -> [cluster : Cards, value : Values]]
  <2>1. TypeInv'
    BY ReleaseTypes DEF FilesInv
  <2> QED BY <2>1 DEF FilesInv, TypeInv, TypeOK
<1>4. /\ file'[f].cluster = c /\ c \notin Clusters
      /\ \A g \in Files \ {f} : file'[g] = file[g]
  BY <1>1, <1>3, ClustersAssumption
<1>5. InTurn'
  <2>1. \A g \in Files : Readable(g) => entry[g] = file[g].cluster
    BY <1>1, Sent DEF FilesInv
  <2>2. UnderWay(f)'
    BY <1>1, <1>2, <1>4, <2>1 DEF UnderWay, Readable
  <2> QED BY <2>2 DEF InTurn
<1>6. Distinct'
  BY <1>4 DEF FilesInv, Distinct, AllocatedTo
<1>7. PinsFollowed' /\ RunfileFollowed'
  BY <1>2 DEF FilesInv, PinsFollowed, RunfileFollowed
<1>8. PinsStay'
  BY <1>2, <1>4, ClustersAssumption, FileNames DEF FilesInv, PinsStay
<1>9. DeviceFollowed'
  BY <1>1, <1>2, <1>4, Blocks, DirOf, FileNames DEF FilesInv, DeviceFollowed, AllocatedTo
<1>10. SentStored'
  BY <1>1, <1>2, <1>4 DEF FilesInv, SentStored, AllocatedTo
<1> QED BY <1>3, <1>5, <1>6, <1>7, <1>8, <1>9, <1>10 DEF FilesInv

LEMMA UnplugFiles == ASSUME FilesInv, Unplug PROVE FilesInv'
<1>1. /\ file' = [f \in Files |->
                     [cluster |-> OnCard[f],
                      value |-> IF OnCard[f] \in Clusters THEN stored[OnCard[f]] ELSE Zero]]
      /\ PowerUp(OnCard, stored, devdir) /\ dirty = {}
      /\ UNCHANGED <<dirty, entry, devdir, stored>>
  BY DEF Unplug, OnCard, Settled, card
<1>2. TypeInv' /\ OnCard \in [Files -> Cards]
  BY UnplugTypes DEF OnCard, FilesInv, TypeInv, TypeOK
<1>3. /\ \A f \in Files : OnCard[f] = IF f = Device /\ ~devdir THEN Gone ELSE entry[f]
      /\ \A f \in Files : file'[f].cluster = OnCard[f]
      /\ \A f \in Files : file'[f].cluster \in Clusters => file'[f].value = stored[OnCard[f]]
  BY <1>1 DEF OnCard
<1>4. \A f \in Files : Readable(f) => entry[f] = file[f].cluster
  BY <1>1, Sent DEF FilesInv
<1>5. InTurn'
  BY <1>1, <1>3, FileNames DEF InTurn, UnderWay, Readable
<1>6. Distinct'
  BY <1>3, <1>4, ClustersAssumption DEF FilesInv, Distinct, AllocatedTo, Readable
<1>7. PinsFollowed'
  <2>1. \A i \in DOMAIN pins' : pins'[i].id \in Pins /\ pins'[i].cluster = OnCard[pins'[i].id]
    BY <1>1, <1>2, PowerUpPlaces DEF NotEmpty
  <2> QED BY <1>1, <1>3, <2>1, FileNames DEF PinsFollowed
<1>8. PinsStay'
  BY <1>1, <1>3, FileNames DEF FilesInv, PinsStay
<1>9. RunfileFollowed'
  BY <1>1, <1>3, FileNames DEF PowerUp, Found, RunfileFollowed
<1>10. DeviceFollowed'
  BY <1>1, <1>3, FileNames DEF PowerUp, FindDevice, Found, DeviceFollowed
<1>11. SentStored'
  BY <1>1, <1>3 DEF SentStored, AllocatedTo
<1> QED BY <1>2, <1>5, <1>6, <1>7, <1>8, <1>9, <1>10, <1>11 DEF FilesInv

(***************************************************************************)
(* The handler that a data block finds is that of its own file: no other   *)
(* place has its cluster.                                                  *)
(***************************************************************************)
LEMMA Handled ==
    ASSUME FilesInv, NEW f \in Files, Data(f) \in dirty
    PROVE  /\ AllocatedTo(f)
           /\ \A i \in DOMAIN pins :
                 pins[i].cluster = file[f].cluster => pins[i].id = f /\ f \in Pins
           /\ f \in Pins /\ entry[f] # file[f].cluster => SlotsAt(file[f].cluster) = {}
           /\ f # Device => device # file[f].cluster
<1>1. AllocatedTo(f) /\ UnderWay(f)
  BY Turn DEF FilesInv, TypeInv
<1>2. ASSUME NEW i \in DOMAIN pins, pins[i].cluster = file[f].cluster
      PROVE  pins[i].id = f /\ f \in Pins
  <2> DEFINE p == pins[i].id
  <2>1. p \in Pins /\ p \in Files /\ entry[p] = file[f].cluster
    <3>1. pins[i] \in Slot
      BY SlotType DEF FilesInv, TypeInv
    <3> QED BY <1>2, <3>1, FileNames DEF FilesInv, PinsFollowed, Slot
  <2> HIDE DEF p
  <2>2. ASSUME p # f PROVE FALSE
    <3>1. entry[p] = file[p].cluster
      BY <1>1, <2>1, <2>2, FileNames DEF UnderWay, Readable
    <3> QED BY <1>1, <2>1, <2>2, <3>1 DEF FilesInv, Distinct
  <2> QED BY <2>1, <2>2 DEF p
<1>3. ASSUME f \in Pins, entry[f] # file[f].cluster PROVE SlotsAt(file[f].cluster) = {}
  BY <1>2, <1>3 DEF SlotsAt, FilesInv, PinsFollowed
<1>4. ASSUME f # Device PROVE device # file[f].cluster
  <2>1. Block("dev") \notin dirty
    BY <1>1, <1>4, Blocks, DirOf, FileNames DEF UnderWay
  <2>2. file[Device].cluster # file[f].cluster /\ file[f].cluster \notin {Empty, Gone}
    BY <1>1, <1>4, FileNames, ClustersAssumption DEF FilesInv, Distinct, AllocatedTo
  <2> QED BY <2>1, <2>2 DEF FilesInv, DeviceFollowed
<1> QED BY <1>1, <1>2, <1>3, <1>4

LEMMA WriteDataFiles == ASSUME FilesInv, NEW f \in Files, WriteData(f) PROVE FilesInv'
<1>1. /\ Data(f) \in dirty /\ dirty' = dirty \ {Data(f)}
      /\ UNCHANGED <<file, entry, devdir, pins, device, runfile_cluster>>
  BY DEF WriteData, runfile
<1>2. TypeInv'
  BY WriteDataTypes DEF FilesInv
<1>3. AllocatedTo(f) /\ UnderWay(f)
  BY <1>1, Handled, Turn DEF FilesInv
<1>4. InTurn'
  BY <1>1, <1>3, Blocks, DirOf DEF InTurn, UnderWay, Readable
<1>5. Distinct' /\ PinsFollowed' /\ PinsStay' /\ RunfileFollowed'
  BY <1>1 DEF FilesInv, Distinct, PinsFollowed, PinsStay, RunfileFollowed, AllocatedTo
<1>6. DeviceFollowed'
  BY <1>1, Blocks, FileNames DEF FilesInv, DeviceFollowed, AllocatedTo
<1>7. ASSUME NEW g \in Files \ {Device}, AllocatedTo(g), Data(g) \notin dirty',
             g \in Pins => entry[g] # file[g].cluster
      PROVE  stored'[file[g].cluster] = file[g].value
  <2>1. stored \in [Clusters -> Values]
    BY DEF FilesInv, TypeInv, TypeOK
  <2>2. CASE g = f
    <3>1. SlotsAt(file[f].cluster) = {}
      BY <1>1, <1>7, <2>2, Handled DEF SlotsAt
    <3>2. file[f].cluster # device
      BY <1>1, <1>7, <2>2, Handled
    <3>3. stored' = [stored EXCEPT ![file[f].cluster] = file[f].value]
      BY <3>1, <3>2 DEF WriteData, First
    <3> QED BY <1>3, <2>1, <2>2, <3>3 DEF AllocatedTo
  <2>3. CASE g # f
    <3>1. stored[file[g].cluster] = file[g].value
      BY <1>1, <1>7, <2>3, Blocks DEF FilesInv, SentStored
    <3>2. file[g].cluster # file[f].cluster
      BY <1>7, <2>3 DEF FilesInv, Distinct
    <3>3. stored' = stored \/ stored' = [stored EXCEPT ![file[f].cluster] = file[f].value]
      BY DEF WriteData
    <3> QED BY <1>7, <2>1, <3>1, <3>2, <3>3 DEF AllocatedTo
  <2> QED BY <2>2, <2>3
<1>8. SentStored'
  BY <1>1, <1>7 DEF SentStored, AllocatedTo
<1> QED BY <1>2, <1>4, <1>5, <1>6, <1>8 DEF FilesInv

\* What sending a directory does for the files in it, and not for others.
LEMMA DirSent ==
    ASSUME FilesInv, NEW d \in Dirs, SendDir(d), entry' = Entries(d),
           devdir' = devdir \/ d = "dev"
    PROVE  /\ InTurn'
           /\ \A f \in Files : entry'[f] = IF Dir(f) = d THEN file[f].cluster ELSE entry[f]
<1>1. Block(d) \in dirty /\ dirty' = dirty \ {Block(d)} /\ file' = file
  BY DEF SendDir
<1>2. \A f \in Files : entry'[f] = IF Dir(f) = d THEN file[f].cluster ELSE entry[f]
  BY EntriesType DEF FilesInv, TypeInv
<1>3. PICK f \in Files : Dir(f) = d /\ UnderWay(f)
  BY <1>1, TurnOfDir DEF FilesInv
<1>4. UnderWay(f)'
  <2>1. dirty' \subseteq {Data(f), Block(Dir(f))}
    BY <1>1, <1>3 DEF UnderWay
  <2>2. ASSUME NEW g \in Files, Readable(g)' PROVE entry'[g] = file'[g].cluster
    <3>1. CASE Dir(g) = d
      BY <1>1, <1>2, <3>1
    <3>2. CASE Dir(g) # d
      <4>1. g # f /\ Readable(g)
        BY <1>3, <2>2, <3>2, DirOf DEF Readable
      <4> QED BY <1>1, <1>2, <1>3, <3>2, <4>1 DEF UnderWay
    <3> QED BY <3>1, <3>2
  <2> QED BY <2>1, <2>2 DEF UnderWay
<1> QED BY <1>2, <1>4 DEF InTurn

LEMMA WritePinsDirFiles == ASSUME FilesInv, WritePinsDir PROVE FilesInv'
<1>1. /\ SendDir("pins") /\ entry' = Entries("pins") /\ dirty' = dirty \ {Block("pins")}
      /\ UNCHANGED <<file, devdir, stored, device, runfile_cluster>>
  BY DEF WritePinsDir, SendDir, runfile
<1>2. TypeInv' /\ TypeOK /\ TypeOK'
  BY WritePinsDirTypes DEF FilesInv, TypeInv
<1>3. /\ InTurn'
      /\ \A f \in Files : entry'[f] = IF f \in Pins THEN file[f].cluster ELSE entry[f]
  BY <1>1, DirSent, DirOf, FileNames
<1>4. Distinct' /\ RunfileFollowed'
  BY <1>1, <1>3, FileNames DEF FilesInv, Distinct, RunfileFollowed, AllocatedTo
<1>5. PinsStay'
  BY <1>1, <1>3, FileNames DEF FilesInv, PinsStay
<1>6. PinsFollowed'
  <2>1. entry' \in [Files -> Cards]
    BY <1>2 DEF TypeOK
  <2>2. ASSUME NEW i \in DOMAIN pins', i \in DOMAIN pins,
               pins'[i] = Follow(i, entry'[pins[i].id])
        PROVE  pins'[i].cluster = entry'[pins'[i].id]
    <3>1. pins[i] \in Slot
      BY <1>2, <2>2, SlotType
    <3>2. entry'[pins[i].id] # Gone
      BY <3>1, <1>5 DEF PinsStay, Slot
    <3>3. pins'[i] = [pins[i] EXCEPT !.cluster = entry'[pins[i].id]]
      BY <2>2, <3>2 DEF Follow
    <3> QED BY <3>1, <3>3 DEF Slot
  <2> QED BY <1>2, <2>1, <2>2, Places DEF PinsFollowed
<1>7. DeviceFollowed'
  BY <1>1, Blocks, FileNames DEF FilesInv, DeviceFollowed, AllocatedTo
<1>8. SentStored'
  BY <1>1, <1>3, Blocks, FileNames DEF FilesInv, SentStored, AllocatedTo
<1> QED BY <1>2, <1>3, <1>4, <1>5, <1>6, <1>7, <1>8 DEF FilesInv

LEMMA WriteIoDirFiles == ASSUME FilesInv, WriteIoDir PROVE FilesInv'
<1>1. /\ SendDir("io") /\ entry' = Entries("io") /\ dirty' = dirty \ {Block("io")}
      /\ UNCHANGED <<file, devdir, stored, pins, device>>
  BY DEF WriteIoDir, SendDir
<1>2. TypeInv'
  BY WriteIoDirTypes DEF FilesInv
<1>3. /\ InTurn'
      /\ \A f \in Files : entry'[f] = IF f = RunFile THEN file[f].cluster ELSE entry[f]
  BY <1>1, DirSent, DirOf, FileNames
<1>4. \A p \in Pins : entry'[p] = entry[p]
  BY <1>3, FileNames
<1>5. Distinct' /\ PinsStay'
  BY <1>1, <1>4 DEF FilesInv, Distinct, PinsStay, AllocatedTo
<1>6. PinsFollowed'
  <2>1. \A i \in DOMAIN pins : pins[i].id \in Pins
    BY SlotType DEF FilesInv, TypeInv, Slot
  <2> QED BY <1>1, <1>4, <2>1 DEF FilesInv, PinsFollowed
<1>7. RunfileFollowed'
  BY DEF WriteIoDir, RunfileNew, RunfileFollowed
<1>8. DeviceFollowed'
  BY <1>1, Blocks, FileNames DEF FilesInv, DeviceFollowed, AllocatedTo
<1>9. SentStored'
  BY <1>1, <1>4, Blocks, FileNames DEF FilesInv, SentStored, AllocatedTo
<1> QED BY <1>2, <1>3, <1>5, <1>6, <1>7, <1>8, <1>9 DEF FilesInv

LEMMA WriteDevDirFiles == ASSUME FilesInv, WriteDevDir PROVE FilesInv'
<1> DEFINE c == file[Device].cluster
<1>1. /\ SendDir("dev") /\ Block("dev") \in dirty /\ dirty' = dirty \ {Block("dev")}
      /\ UNCHANGED <<file, stored, pins, runfile_cluster>>
  BY DEF WriteDevDir, SendDir, runfile
<1>2. TypeInv' /\ c \in Clusters
  BY <1>1, WriteDevDirTypes DEF FilesInv, DeviceFollowed, AllocatedTo
<1>3. \/ /\ DeviceMoved(c) /\ device' = c /\ ~devdir' /\ entry' = entry
      \/ /\ ~DeviceMoved(c) /\ device' = device /\ devdir' /\ entry' = Entries("dev")
  BY DEF WriteDevDir
<1>4. InTurn' /\ \A f \in Files \ {Device} : entry'[f] = entry[f]
  <2>1. CASE DeviceMoved(c)
    <3>1. PICK f \in Files : Dir(f) = "dev" /\ UnderWay(f)
      BY <1>1, TurnOfDir, FileNames DEF FilesInv
    <3>2. f = Device /\ entry' = entry /\ ~devdir'
      BY <1>3, <2>1, <3>1, DirOf
    <3>3. UnderWay(f)'
      BY <1>1, <3>1, <3>2 DEF UnderWay, Readable
    <3> QED BY <3>2, <3>3 DEF InTurn
  <2>2. CASE ~DeviceMoved(c)
    <3>1. entry' = Entries("dev") /\ devdir' = TRUE
      BY <2>2 DEF WriteDevDir
    <3>2. /\ InTurn'
          /\ \A f \in Files : entry'[f] = IF Dir(f) = "dev" THEN file[f].cluster ELSE entry[f]
      BY <1>1, <3>1, DirSent, FileNames
    <3> QED BY <3>2, DirOf
  <2> QED BY <2>1, <2>2
<1>5. \A p \in Pins : entry'[p] = entry[p]
  BY <1>4, FileNames
<1>6. Distinct' /\ PinsStay'
  BY <1>1, <1>5 DEF FilesInv, Distinct, PinsStay, AllocatedTo
<1>7. PinsFollowed'
  <2>1. \A i \in DOMAIN pins : pins[i].id \in Pins
    BY SlotType DEF FilesInv, TypeInv, Slot
  <2> QED BY <1>1, <1>5, <2>1 DEF FilesInv, PinsFollowed
<1>8. RunfileFollowed'
  BY <1>1, <1>4, FileNames DEF FilesInv, RunfileFollowed
<1>9. DeviceFollowed'
  BY <1>1, <1>2, <1>3 DEF DeviceMoved, DeviceFollowed, AllocatedTo
<1>10. SentStored'
  BY <1>1, <1>4, Blocks, FileNames DEF FilesInv, SentStored, AllocatedTo
<1> QED BY <1>2, <1>4, <1>6, <1>7, <1>8, <1>9, <1>10 DEF FilesInv

LEMMA WriteOtherDirFiles == ASSUME FilesInv, WriteOtherDir PROVE FilesInv'
<1>1. /\ SendDir("rest") /\ entry' = Entries("rest") /\ dirty' = dirty \ {Block("rest")}
      /\ UNCHANGED <<file, devdir, stored, pins, device, runfile_cluster>>
  BY DEF WriteOtherDir, SendDir, runfile
<1>2. TypeInv'
  BY WriteOtherDirTypes DEF FilesInv
<1>3. /\ InTurn'
      /\ \A f \in Files : entry'[f] = IF Dir(f) = "rest" THEN file[f].cluster ELSE entry[f]
  BY <1>1, DirSent, FileNames
<1>4. (\A p \in Pins : entry'[p] = entry[p]) /\ entry'[RunFile] = entry[RunFile]
  BY <1>3, DirOf, FileNames
<1>5. Distinct' /\ PinsStay' /\ RunfileFollowed'
  BY <1>1, <1>4 DEF FilesInv, Distinct, PinsStay, RunfileFollowed, AllocatedTo
<1>6. PinsFollowed'
  <2>1. \A i \in DOMAIN pins : pins[i].id \in Pins
    BY SlotType DEF FilesInv, TypeInv, Slot
  <2> QED BY <1>1, <1>4, <2>1 DEF FilesInv, PinsFollowed
<1>7. DeviceFollowed'
  BY <1>1, Blocks, FileNames DEF FilesInv, DeviceFollowed, AllocatedTo
<1>8. SentStored'
  BY <1>1, <1>4, Blocks, FileNames DEF FilesInv, SentStored, AllocatedTo
<1> QED BY <1>2, <1>3, <1>5, <1>6, <1>7, <1>8 DEF FilesInv

LEMMA CheckFiles == ASSUME FilesInv, CheckRunfileChanged PROVE FilesInv'
<1>1. /\ dirty = {} /\ device' = FindDevice(entry, devdir)
      /\ UNCHANGED <<file, dirty, entry, devdir, stored, pins, runfile_cluster>>
  BY DEF CheckRunfileChanged, Quiet, Settled, host, card
<1>2. TypeInv'
  BY CheckTypes DEF FilesInv
<1>3. InTurn' /\ Distinct' /\ PinsFollowed' /\ PinsStay' /\ RunfileFollowed' /\ SentStored'
  BY <1>1 DEF FilesInv, InTurn, UnderWay, Readable, Distinct, PinsFollowed, PinsStay,
              RunfileFollowed, SentStored, AllocatedTo
<1>4. DeviceFollowed'
  <2>1. devdir => entry[Device] = file[Device].cluster
    BY <1>1, Sent, FileNames DEF FilesInv, Readable
  <2> QED BY <1>1, <2>1 DEF FindDevice, Found, DeviceFollowed
<1> QED BY <1>2, <1>3, <1>4 DEF FilesInv

LEMMA FilesStep == HandledStay /\ FilesInv /\ [Next]_vars => FilesInv'
<1> SUFFICES ASSUME HandledStay, FilesInv, [Next]_vars PROVE FilesInv'
  OBVIOUS
<1>1. CASE UNCHANGED vars
  <2>1. TypeInv'
    BY TypesStep DEF FilesInv
  <2>2. UNCHANGED <<file, dirty, entry, devdir, stored, pins, device, runfile_cluster>>
    BY <1>1 DEF vars, host, card, runfile
  <2> QED
    BY <2>1, <2>2 DEF FilesInv, InTurn, UnderWay, Readable, Distinct, PinsFollowed, PinsStay,
       RunfileFollowed, DeviceFollowed, SentStored, AllocatedTo
<1>2. CASE \E f \in Files : Save(f)
  BY <1>2, SaveFiles
<1>3. CASE \E f \in Emptied : Release(f, Empty)
  BY <1>3, ReleaseFiles, FilesAssumption, ClustersAssumption DEF HandledStay
<1>4. CASE \E f \in Deleted : Release(f, Gone)
  BY <1>4, ReleaseFiles, FilesAssumption DEF HandledStay
<1>5. CASE \E f \in Files : WriteData(f)
  BY <1>5, WriteDataFiles
<1> QED
  BY Steps, <1>1, <1>2, <1>3, <1>4, <1>5, UnplugFiles, WritePinsDirFiles, WriteIoDirFiles,
     WriteDevDirFiles, WriteOtherDirFiles, CheckFiles

LEMMA FilesKept == HandledStay => (Spec => []FilesInv)
<1> SUFFICES ASSUME HandledStay PROVE Spec => []FilesInv
  OBVIOUS
<1>1. FilesInv /\ [Next]_vars => FilesInv'
  BY FilesStep
<1> QED BY <1>1, InitFiles, PTL DEF Spec

\* While no pin's file is deleted, and the device file neither deleted nor emptied, no
\* handler takes a block of another file: what the host wrote to it is on the card
\* (has_handler compares clusters, changed_iodir_block and changed_devdir_block keep them).
THEOREM OtherFilesStored == HandledStay => (Spec => []OthersStored)
<1>1. FilesInv => OthersStored
  <2> SUFFICES ASSUME FilesInv, Settled, NEW f \in Others \cup {RunFile}, AllocatedTo(f)
               PROVE  stored[file[f].cluster] = file[f].value
    BY DEF OthersStored
  <2>1. f \in Files \ {Device} /\ f \notin Pins
    BY FilesAssumption DEF Files
  <2> QED BY <2>1 DEF FilesInv, SentStored, Settled
<1> QED BY <1>1, FilesKept, PTL

-----------------------------------------------------------------------------
(***************************************************************************)
(* Pins                                                                    *)
(***************************************************************************)
PinsInv == FilesInv /\ Registration /\ NeverBlank /\ Driven

LEMMA InitPins == Init => PinsInv
<1> SUFFICES ASSUME Init PROVE PinsInv
  OBVIOUS
<1>1. FilesInv /\ entry \in [Files -> Clusters] /\ asked = {}
  BY InitFiles DEF Init
<1>2. \A p \in Pins : entry[p] \in Clusters /\ file[p].cluster = entry[p]
  BY FileNames DEF Init
<1>3. Registration
  <2>1. PICK list \in Listings(Pins) : pins = Registered(list, entry)
    BY DEF Init
  <2>2. entry \in [Files -> Cards]
    BY <1>1
  <2> QED BY <1>2, <2>1, <2>2, Placed DEF Registration
<1> QED BY <1>1, <1>2, <1>3 DEF PinsInv, NeverBlank, Driven, AllocatedTo

LEMMA SavePins == ASSUME PinsInv, NEW f \in Files, Save(f) PROVE PinsInv'
<1>1. PICK v \in Values, c \in Free \cup ({file[f].cluster} \cap Clusters) :
          /\ file' = [file EXCEPT ![f] = [cluster |-> c, value |-> v]]
          /\ dirty' = dirty \cup {Data(f), Block(Dir(f))}
  BY DEF Save
<1>2. FilesInv' /\ asked' = asked \cup {f} /\ UNCHANGED <<entry, pins, driven>>
  BY SaveFiles DEF PinsInv, Save, card
<1>3. file \in [Files -> [cluster : Cards, value : Values]]
  BY DEF PinsInv, FilesInv, TypeInv, TypeOK
<1>4. file'[f].cluster \in Clusters /\ \A g \in Files \ {f} : file'[g] = file[g]
  BY <1>1, <1>3 DEF Free
<1>5. Registration'
  BY <1>2 DEF PinsInv, Registration
<1>6. NeverBlank'
  BY <1>2, <1>4, FileNames DEF PinsInv, NeverBlank, AllocatedTo
<1>7. Driven'
  BY <1>1, <1>2, <1>4, FileNames DEF PinsInv, Driven, AllocatedTo
<1> QED BY <1>2, <1>5, <1>6, <1>7 DEF PinsInv

LEMMA ReleasePins ==
    ASSUME PinsInv, NEW f \in Files, NEW c \in {Empty, Gone}, Release(f, c), FilesInv',
           f \in Pins => f \in Emptied
    PROVE  PinsInv'
<1>1. /\ file' = [file EXCEPT ![f] = [cluster |-> c, value |-> Zero]]
      /\ dirty = {} /\ UNCHANGED <<entry, pins, driven, asked>>
  BY DEF Release, Settled, card
<1>2. file \in [Files -> [cluster : Cards, value : Values]]
  BY DEF PinsInv, FilesInv, TypeInv, TypeOK
<1>3. file'[f].cluster \notin Clusters /\ \A g \in Files \ {f} : file'[g] = file[g]
  BY <1>1, <1>2, ClustersAssumption
<1>4. Registration'
  BY <1>1 DEF PinsInv, Registration
<1>5. NeverBlank'
  BY <1>1, <1>3, FileNames DEF PinsInv, NeverBlank, AllocatedTo
<1>6. Driven'
  BY <1>1, <1>3, FileNames DEF PinsInv, Driven, AllocatedTo
<1> QED BY <1>4, <1>5, <1>6 DEF PinsInv

LEMMA UnplugPins == ASSUME PinsInv, PinsRegistered, Unplug PROVE PinsInv'
<1>1. /\ \A f \in Files : file'[f].cluster = OnCard[f]
      /\ PowerUp(OnCard, stored, devdir) /\ UNCHANGED entry /\ asked' = {}
  BY DEF Unplug, OnCard, card, PowerUp
<1>2. OnCard \in [Files -> Cards] /\ \A p \in Pins : OnCard[p] = entry[p]
  BY FileNames DEF OnCard, PinsInv, FilesInv, TypeInv, TypeOK
<1>3. Pins \cap Emptied = {}
  BY DEF PinsRegistered, Unplug
<1>4. NeverBlank' /\ NotEmpty(OnCard) = Pins
  BY <1>1, <1>2, <1>3, FileNames DEF PinsInv, NeverBlank, AllocatedTo, NotEmpty
<1>5. Registration'
  BY <1>1, <1>2, <1>4, PowerUpPlaces DEF Registration
<1>6. Driven'
  BY <1>1 DEF Driven
<1> QED BY <1>4, <1>5, <1>6, UnplugFiles DEF PinsInv

\* What a data block does: the pin of a pin file is set if its place has the file's
\* cluster, and no other pin is.
LEMMA DataDrives ==
    ASSUME FilesInv, NEW f \in Files, WriteData(f)
    PROVE  \/ driven' = driven
           \/ f \in Pins /\ driven' = [driven EXCEPT ![f] = Parse(file[f].value)]
<1>1. Data(f) \in dirty
  BY DEF WriteData
<1>2. ASSUME NEW i \in First(SlotsAt(file[f].cluster)) PROVE pins[i].id = f /\ f \in Pins
  BY <1>1, Handled DEF First, SlotsAt
<1> QED BY <1>2 DEF WriteData

LEMMA WriteDataPins == ASSUME PinsInv, NEW f \in Files, WriteData(f) PROVE PinsInv'
<1> DEFINE c == file[f].cluster
<1>1. /\ Data(f) \in dirty /\ dirty' = dirty \ {Data(f)}
      /\ UNCHANGED <<file, entry, pins, asked>>
  BY DEF WriteData
<1>2. FilesInv /\ FilesInv'
  BY WriteDataFiles DEF PinsInv
<1>3. Registration' /\ NeverBlank'
  BY <1>1 DEF PinsInv, Registration, NeverBlank, AllocatedTo
<1>4. ASSUME f \in Pins, entry[f] = c
      PROVE  driven' = [driven EXCEPT ![f] = Parse(file[f].value)]
  <2>1. PICK i \in DOMAIN pins : pins[i].id = f
    BY <1>4 DEF PinsInv, Registration
  <2>2. i \in SlotsAt(c)
    BY <1>2, <1>4, <2>1 DEF SlotsAt, FilesInv, PinsFollowed
  <2>3. PICK j \in First(SlotsAt(c)) :
            driven' = [driven EXCEPT ![pins[j].id] = Parse(file[f].value)]
    BY <2>2 DEF WriteData
  <2>4. pins[j].id = f
    BY <1>1, <1>2, <2>3, Handled DEF First, SlotsAt
  <2> QED BY <2>3, <2>4
<1>5. ASSUME NEW p \in Pins \cap asked, AllocatedTo(p), Data(p) \notin dirty',
             entry[p] = file[p].cluster
      PROVE  driven'[p] = Parse(file[p].value)
  <2>1. driven \in [Pins -> Numbers]
    BY <1>2 DEF FilesInv, TypeInv, TypeOK
  <2>2. CASE p = f
    BY <1>4, <1>5, <2>1, <2>2
  <2>3. CASE p # f
    <3>1. driven[p] = Parse(file[p].value)
      BY <1>1, <1>5, <2>3, Blocks, FileNames DEF PinsInv, Driven
    <3> QED BY <1>2, <2>1, <2>3, <3>1, DataDrives
  <2> QED BY <2>2, <2>3
<1>6. Driven'
  BY <1>1, <1>5 DEF Driven, AllocatedTo
<1> QED BY <1>2, <1>3, <1>6 DEF PinsInv

LEMMA WritePinsDirPins == ASSUME PinsInv, WritePinsDir PROVE PinsInv'
<1>1. /\ entry' = Entries("pins") /\ dirty' = dirty \ {Block("pins")}
      /\ UNCHANGED <<file, stored, asked>>
      /\ driven' = [p \in Pins |->
                       IF \E i \in DOMAIN pins : pins[i].id = p /\ Moved(i, entry'[p])
                       THEN Parse(stored[entry'[p]]) ELSE driven[p]]
  BY DEF WritePinsDir, SendDir
<1>2. FilesInv /\ FilesInv'
  BY WritePinsDirFiles DEF PinsInv
<1>3. \A p \in Pins : entry'[p] = file[p].cluster
  BY <1>1, <1>2, EntriesType, DirOf, FileNames DEF FilesInv, TypeInv
<1>4. Registration'
  <2>1. TypeOK /\ entry' \in [Files -> Cards]
    BY <1>2 DEF FilesInv, TypeInv, TypeOK
  <2> QED BY <2>1, Places DEF PinsInv, Registration
<1>5. NeverBlank'
  BY <1>1, <1>3 DEF PinsInv, NeverBlank, AllocatedTo
<1>6. ASSUME NEW p \in Pins \cap asked, AllocatedTo(p), Data(p) \notin dirty'
      PROVE  driven'[p] = Parse(file[p].value)
  <2>1. Data(p) \notin dirty /\ p \in Files \ {Device}
    BY <1>1, <1>6, Blocks, FileNames
  <2>2. PICK i \in DOMAIN pins : pins[i].id = p
    BY DEF PinsInv, Registration
  <2>3. \A j \in DOMAIN pins : pins[j].id = p =>
            (Moved(j, entry'[p]) <=> file[p].cluster # entry[p])
    BY <1>2, <1>3, <1>6 DEF Moved, FilesInv, PinsFollowed, AllocatedTo
  <2>4. CASE entry[p] = file[p].cluster
    <3>1. driven[p] = Parse(file[p].value)
      BY <1>6, <2>1, <2>4 DEF PinsInv, Driven
    <3> QED BY <1>1, <2>3, <2>4, <3>1
  <2>5. CASE entry[p] # file[p].cluster
    <3>1. stored[file[p].cluster] = file[p].value
      BY <1>2, <1>6, <2>1, <2>5 DEF FilesInv, SentStored
    <3> QED BY <1>1, <1>3, <2>2, <2>3, <2>5, <3>1
  <2> QED BY <2>4, <2>5
<1>7. Driven'
  BY <1>1, <1>6 DEF Driven, AllocatedTo
<1> QED BY <1>2, <1>4, <1>5, <1>7 DEF PinsInv

\* The other directories and a run of the script leave the pins' files alone.
LEMMA OtherStepsPins ==
    ASSUME PinsInv, FilesInv', UNCHANGED <<file, pins, driven>>, asked' \subseteq asked,
           \A p \in Pins : entry'[p] = entry[p] /\ (Data(p) \in dirty => Data(p) \in dirty')
    PROVE  PinsInv'
<1>1. Registration' /\ NeverBlank'
  BY DEF PinsInv, Registration, NeverBlank, AllocatedTo
<1>2. Driven'
  BY DEF PinsInv, Driven, AllocatedTo
<1> QED BY <1>1, <1>2 DEF PinsInv

LEMMA OtherDirPins ==
    ASSUME FilesInv, NEW d \in {"io", "dev", "rest"}, SendDir(d),
           entry' = Entries(d) \/ entry' = entry
    PROVE  \A p \in Pins : entry'[p] = entry[p] /\ (Data(p) \in dirty => Data(p) \in dirty')
<1>1. \A p \in Pins : p \in Files /\ Dir(p) # d
  BY DirOf, FileNames
<1>2. \A p \in Pins : entry'[p] = entry[p]
  BY <1>1, EntriesType DEF FilesInv, TypeInv
<1>3. \A p \in Pins : Data(p) \in dirty => Data(p) \in dirty'
  BY <1>1, Blocks, FileNames DEF SendDir
<1> QED BY <1>2, <1>3

LEMMA PinsStep == HandledStay /\ PinsRegistered /\ PinsInv /\ [Next]_vars => PinsInv'
<1> SUFFICES ASSUME HandledStay, PinsRegistered, PinsInv, [Next]_vars PROVE PinsInv'
  OBVIOUS
<1>0. FilesInv /\ FilesInv'
  BY FilesStep DEF PinsInv
<1>1. CASE UNCHANGED vars
  BY <1>0, <1>1, OtherStepsPins DEF vars, host, card
<1>2. CASE \E f \in Files : Save(f)
  BY <1>2, SavePins
<1>3. CASE \E f \in Emptied : Release(f, Empty)
  BY <1>0, <1>3, ReleasePins, FilesAssumption
<1>4. CASE \E f \in Deleted : Release(f, Gone)
  BY <1>0, <1>4, ReleasePins, FilesAssumption DEF HandledStay
<1>5. CASE \E f \in Files : WriteData(f)
  BY <1>5, WriteDataPins
<1>6. CASE WriteIoDir
  <2>1. SendDir("io") /\ entry' = Entries("io") /\ UNCHANGED <<file, pins, driven, asked>>
    BY <1>6 DEF WriteIoDir, SendDir
  <2> QED BY <1>0, <2>1, OtherDirPins, OtherStepsPins
<1>7. CASE WriteDevDir
  <2>1. /\ SendDir("dev") /\ (entry' = Entries("dev") \/ entry' = entry)
        /\ UNCHANGED <<file, pins, driven, asked>>
    BY <1>7 DEF WriteDevDir, SendDir
  <2> QED BY <1>0, <2>1, OtherDirPins, OtherStepsPins
<1>8. CASE WriteOtherDir
  <2>1. SendDir("rest") /\ entry' = Entries("rest") /\ UNCHANGED <<file, pins, driven, asked>>
    BY <1>8 DEF WriteOtherDir, SendDir
  <2> QED BY <1>0, <2>1, OtherDirPins, OtherStepsPins
<1>9. CASE CheckRunfileChanged
  BY <1>0, <1>9, OtherStepsPins DEF CheckRunfileChanged, host, card
<1> QED
  BY Steps, <1>1, <1>2, <1>3, <1>4, <1>5, <1>6, <1>7, <1>8, <1>9, UnplugPins, WritePinsDirPins

\* While no pin's file is deleted, the device file neither deleted nor emptied, and no pin's
\* file empty at a power-up: whenever all that the host wrote was sent, each pin file it
\* saved has set its pin, whether the save moved the file or not and whether its data or
\* its directory came first (has_handler, changed_iodir_block).
THEOREM SavedPinsSettle == HandledStay /\ PinsRegistered => (Spec => []PinSettles)
<1> SUFFICES ASSUME HandledStay, PinsRegistered PROVE Spec => []PinSettles
  OBVIOUS
<1>1. PinsInv /\ [Next]_vars => PinsInv'
  BY PinsStep
<1>2. PinsInv => PinSettles
  <2> SUFFICES ASSUME PinsInv, Settled, NEW p \in Pins \cap asked, AllocatedTo(p)
               PROVE  driven[p] = Parse(file[p].value)
    BY DEF PinSettles
  <2>1. entry[p] = file[p].cluster /\ Data(p) \notin dirty
    BY Sent, FileNames DEF PinsInv, FilesInv, Settled, Readable
  <2> QED BY <2>1 DEF PinsInv, Driven
<1> QED BY <1>1, <1>2, InitPins, PTL DEF Spec

-----------------------------------------------------------------------------
(***************************************************************************)
(* RUN.LIO                                                                 *)
(***************************************************************************)
RunfileInv == FilesInv /\ NewTimes /\ Evaluated

LEMMA RunfileStep == HandledStay /\ TimesDiffer /\ RunfileInv /\ [Next]_vars => RunfileInv'
<1> SUFFICES ASSUME HandledStay, TimesDiffer, RunfileInv, [Next]_vars PROVE RunfileInv'
  OBVIOUS
<1>0. /\ FilesInv /\ FilesInv' /\ RunFile \in Files
      /\ mod \in Nat /\ mod' \in Nat /\ runfile_mod \in Nat /\ runfile_mod' \in Nat
  <2>1. FilesInv /\ FilesInv'
    BY FilesStep DEF RunfileInv
  <2> QED BY <2>1, FileNames, HostAssumption DEF FilesInv, TypeInv, TypeOK
<1> USE DEF NewTimes, Evaluated, AllocatedTo
<1>a. file \in [Files -> [cluster : Cards, value : Values]]
  BY <1>0 DEF FilesInv, TypeInv, TypeOK
<1>1. CASE UNCHANGED vars
  BY <1>0, <1>1 DEF RunfileInv, vars, host, card, runfile
<1>2. ASSUME NEW f \in Files, Save(f) PROVE RunfileInv'
  <2>1. /\ dirty = {} /\ dirty' = {Data(f), Block(Dir(f))}
        /\ asked' = asked \cup {f} /\ UNCHANGED runfile
        /\ \A g \in Files \ {f} : file'[g] = file[g]
        /\ mod' = IF f = RunFile THEN mod + 1 ELSE mod
    BY <1>a, <1>2 DEF Save, Settled, TimesDiffer
  <2>2. Block("io") \in dirty' <=> f = RunFile
    BY <2>1, Blocks, DirOf, FileNames
  <2>3. CASE f = RunFile
    BY <1>0, <2>1, <2>2, <2>3 DEF RunfileInv, runfile
  <2>4. CASE f # RunFile
    BY <1>0, <2>1, <2>2, <2>4 DEF RunfileInv, runfile
  <2> QED BY <2>3, <2>4
<1>3. ASSUME NEW f \in Files, NEW c \in {Empty, Gone}, Release(f, c) PROVE RunfileInv'
  <2>1. /\ dirty = {} /\ dirty' = {Block(Dir(f))}
        /\ UNCHANGED <<mod, asked, runfile>>
        /\ \A g \in Files \ {f} : file'[g] = file[g]
        /\ file'[f].cluster \notin Clusters
    BY <1>a, <1>3, ClustersAssumption DEF Release, Settled
  <2>2. Block("io") \in dirty' <=> f = RunFile
    BY <2>1, Blocks, DirOf, FileNames
  <2> QED BY <1>0, <2>1, <2>2 DEF RunfileInv, runfile
<1>4. CASE Unplug
  <2>1. dirty' = {} /\ asked' = {} /\ runfile_mod' = 0
    BY <1>4 DEF Unplug, PowerUp, Settled
  <2> QED BY <1>0, <2>1 DEF RunfileInv
<1>5. ASSUME UNCHANGED <<file, mod, runfile>>, asked' \subseteq asked,
             Block("io") \in dirty' <=> Block("io") \in dirty
      PROVE  RunfileInv'
  BY <1>0, <1>5 DEF RunfileInv, runfile
<1>6. ASSUME NEW f \in Files, WriteData(f) PROVE RunfileInv'
  BY <1>5, <1>6, Blocks, FileNames DEF WriteData
<1>7. ASSUME NEW d \in {"pins", "dev", "rest"}, SendDir(d), UNCHANGED runfile
      PROVE  RunfileInv'
  BY <1>5, <1>7, Blocks, FileNames DEF SendDir
<1>8. CASE WritePinsDir \/ WriteDevDir \/ WriteOtherDir
  BY <1>7, <1>8 DEF WritePinsDir, WriteDevDir, WriteOtherDir
<1>9. CASE WriteIoDir
  <2>1. /\ Block("io") \in dirty /\ Block("io") \notin dirty'
        /\ UNCHANGED <<file, mod, asked, script>>
    BY <1>9 DEF WriteIoDir, SendDir
  <2>2. entry'[RunFile] = file[RunFile].cluster
    BY <1>0, <1>9, EntriesType, DirOf DEF WriteIoDir, FilesInv, TypeInv
  <2>3. CASE RunfileNew(entry'[RunFile])
    <3>1. runfile_mod' = mod /\ runfile_triggered'
      BY <1>9, <2>3 DEF WriteIoDir
    <3> QED BY <1>0, <2>1, <3>1 DEF RunfileInv
  <2>4. CASE ~RunfileNew(entry'[RunFile])
    <3>1. file[RunFile].cluster \notin Clusters /\ runfile_mod' = runfile_mod
      BY <1>0, <1>9, <2>1, <2>2, <2>4 DEF WriteIoDir, RunfileNew, RunfileInv
    <3> QED BY <1>0, <2>1, <3>1 DEF RunfileInv
  <2> QED BY <2>3, <2>4
<1>10. CASE CheckRunfileChanged
  <2>1. /\ dirty = {} /\ runfile_triggered /\ script' = stored[runfile_cluster]
        /\ asked' = asked \ {Device}
        /\ UNCHANGED <<file, mod, dirty, runfile_mod>>
    BY <1>10 DEF CheckRunfileChanged, Quiet, Settled, host
  <2>2. ASSUME file[RunFile].cluster \in Clusters PROVE script' = file[RunFile].value
    <3>1. entry[RunFile] = file[RunFile].cluster
      BY <1>0, <2>1, Sent, FileNames DEF FilesInv, Readable
    <3>2. runfile_cluster = file[RunFile].cluster
      BY <1>0, <2>2, <3>1 DEF FilesInv, RunfileFollowed
    <3>3. stored[file[RunFile].cluster] = file[RunFile].value
      BY <1>0, <2>1, <2>2, FileNames DEF FilesInv, SentStored
    <3> QED BY <2>1, <3>2, <3>3
  <2> QED BY <1>0, <2>1, <2>2 DEF RunfileInv
<1> QED
  BY Steps, FilesAssumption, <1>1, <1>2, <1>3, <1>4, <1>6, <1>8, <1>9, <1>10

\* While the host never saves RUN.LIO twice with one time stamp, the last RUN.LIO that it
\* saved is the one evaluated, once all is sent and no run pending: wherever the save put
\* it, and whatever was written in the 100 ms before the run (has_watcher,
\* check_runfile_changed).
THEOREM SavedRunfileSettles == HandledStay /\ TimesDiffer => (Spec => []RunfileSettles)
<1> SUFFICES ASSUME HandledStay, TimesDiffer PROVE Spec => []RunfileSettles
  OBVIOUS
<1>1. Init => RunfileInv
  BY InitFiles DEF Init, RunfileInv, NewTimes, Evaluated
<1>2. RunfileInv /\ [Next]_vars => RunfileInv'
  BY RunfileStep
<1>3. RunfileInv => RunfileSettles
  BY DEF RunfileInv, Evaluated, RunfileSettles, Settled
<1> QED BY <1>1, <1>2, <1>3, PTL DEF Spec

-----------------------------------------------------------------------------
(***************************************************************************)
(* The device file                                                         *)
(***************************************************************************)
DeviceInv == FilesInv /\ DeviceFound /\ Delivered

LEMMA DeviceStep == HandledStay /\ DeviceInv /\ [Next]_vars => DeviceInv'
<1> SUFFICES ASSUME HandledStay, DeviceInv, [Next]_vars PROVE DeviceInv'
  OBVIOUS
<1>0. FilesInv /\ FilesInv' /\ Device \in Files
  BY FilesStep, FileNames DEF DeviceInv
<1> USE DEF DeviceFound, Delivered, AllocatedTo
<1>a. file \in [Files -> [cluster : Cards, value : Values]]
  BY <1>0 DEF FilesInv, TypeInv, TypeOK
<1>1. CASE UNCHANGED vars
  BY <1>0, <1>1 DEF DeviceInv, vars, host, card
<1>2. ASSUME NEW f \in Files, Save(f) PROVE DeviceInv'
  <2>1. /\ dirty = {} /\ dirty' = {Data(f), Block(Dir(f))}
        /\ asked' = asked \cup {f} /\ UNCHANGED <<stored, device, delivered>>
        /\ \A g \in Files \ {f} : file'[g] = file[g]
    BY <1>a, <1>2 DEF Save, Settled, card
  <2>2. CASE f = Device
    BY <1>0, <2>1, <2>2, Blocks, DirOf DEF DeviceInv
  <2>3. CASE f # Device
    BY <1>0, <2>1, <2>3, Blocks, DirOf, FileNames DEF DeviceInv
  <2> QED BY <2>2, <2>3
<1>3. ASSUME NEW f \in Files \ {Device}, NEW c \in {Empty, Gone}, Release(f, c)
      PROVE  DeviceInv'
  <2>1. /\ dirty = {} /\ dirty' = {Block(Dir(f))}
        /\ UNCHANGED <<stored, device, delivered, asked>>
        /\ \A g \in Files \ {f} : file'[g] = file[g]
    BY <1>a, <1>3 DEF Release, Settled, card
  <2> QED BY <1>0, <2>1, Blocks, DirOf, FileNames DEF DeviceInv
<1>4. CASE Unplug
  <2>1. dirty' = {} /\ asked' = {}
    BY <1>4 DEF Unplug, PowerUp, Settled
  <2> QED BY <1>0, <2>1 DEF DeviceInv
<1>5. ASSUME NEW f \in Files, WriteData(f) PROVE DeviceInv'
  <2> DEFINE c == file[f].cluster
  <2>1. /\ Data(f) \in dirty /\ dirty' = dirty \ {Data(f)}
        /\ UNCHANGED <<file, entry, pins, device, asked>>
    BY <1>5 DEF WriteData
  <2>2. /\ Block("dev") \in dirty' <=> Block("dev") \in dirty
        /\ \A g \in Files \ {f} : Data(g) \in dirty' <=> Data(g) \in dirty
        /\ Data(f) \notin dirty'
    BY <2>1, Blocks, FileNames
  <2>3. stored \in [Clusters -> Values] /\ c \in Clusters
    BY <1>0, <2>1, Handled DEF FilesInv, TypeInv, TypeOK
  <2>4. CASE f = Device
    <3>1. SlotsAt(c) = {}
      BY <1>0, <2>1, <2>4, Handled, FileNames DEF SlotsAt
    <3>2. IF device = c THEN delivered' = file[f].value
          ELSE stored' = [stored EXCEPT ![c] = file[f].value]
      BY <1>5, <3>1 DEF WriteData, First
    <3>3. device # c /\ device # Gone => Block("dev") \in dirty
      BY <2>1, <2>4 DEF DeviceInv
    <3> QED BY <1>0, <2>1, <2>2, <2>3, <2>4, <3>2, <3>3 DEF DeviceInv
  <2>5. CASE f # Device
    <3>1. device # c
      BY <1>0, <2>1, <2>5, Handled
    <3>2. delivered' = delivered
      BY <1>5, <3>1 DEF WriteData
    <3>3. c # file[Device].cluster
      BY <1>0, <2>3, <2>5 DEF FilesInv, Distinct
    <3>4. stored' = stored \/ stored' = [stored EXCEPT ![c] = file[f].value]
      BY <1>5 DEF WriteData
    <3>5. file[Device].cluster \in Clusters
          => stored'[file[Device].cluster] = stored[file[Device].cluster]
      BY <2>3, <3>3, <3>4
    <3> QED BY <1>0, <2>1, <2>2, <2>5, <3>2, <3>5 DEF DeviceInv
  <2> QED BY <2>4, <2>5
<1>6. ASSUME NEW d \in {"pins", "io", "rest"}, SendDir(d),
             UNCHANGED <<stored, device, delivered>>
      PROVE  DeviceInv'
  <2>1. /\ UNCHANGED <<file, asked>>
        /\ Block("dev") \in dirty' <=> Block("dev") \in dirty
        /\ Data(Device) \in dirty' <=> Data(Device) \in dirty
    BY <1>6, Blocks, FileNames DEF SendDir
  <2> QED BY <1>0, <1>6, <2>1 DEF DeviceInv
<1>7. CASE WritePinsDir \/ WriteIoDir \/ WriteOtherDir
  BY <1>6, <1>7 DEF WritePinsDir, WriteIoDir, WriteOtherDir
<1>8. CASE WriteDevDir
  <2> DEFINE c == file[Device].cluster
  <2>1. /\ Block("dev") \in dirty /\ Block("dev") \notin dirty'
        /\ Data(Device) \in dirty' <=> Data(Device) \in dirty
        /\ UNCHANGED <<file, asked, stored>>
    BY <1>8, Blocks, FileNames DEF WriteDevDir, SendDir
  <2>2. c \in Clusters
    BY <1>0, <2>1 DEF FilesInv, DeviceFollowed
  <2>3. CASE DeviceMoved(c)
    <3>1. device' = c /\ delivered' = stored[c] /\ device # c /\ device # Gone
      BY <1>8, <2>3 DEF WriteDevDir, DeviceMoved
    <3> QED BY <1>0, <2>1, <2>2, <3>1 DEF DeviceInv
  <2>4. CASE ~DeviceMoved(c)
    <3>1. UNCHANGED <<device, delivered>> /\ (device = Gone \/ device = c)
      BY <1>8, <2>2, <2>4 DEF WriteDevDir, DeviceMoved
    <3> QED BY <1>0, <2>1, <2>2, <3>1 DEF DeviceInv
  <2> QED BY <2>3, <2>4
<1>9. CASE CheckRunfileChanged
  <2>1. dirty' = {} /\ Device \notin asked'
    BY <1>9 DEF CheckRunfileChanged, Quiet, Settled, host
  <2> QED BY <1>0, <2>1 DEF DeviceInv
<1>10. CASE \E f \in Emptied : Release(f, Empty)
  BY <1>3, <1>10, FilesAssumption DEF HandledStay
<1>11. CASE \E f \in Deleted : Release(f, Gone)
  BY <1>3, <1>11, FilesAssumption DEF HandledStay
<1> QED
  BY Steps, <1>1, <1>2, <1>4, <1>5, <1>7, <1>8, <1>9, <1>10, <1>11

\* While a (driver) is attached and its file is neither deleted nor emptied: once all is
\* sent, the content that the host saved last has been given to the driver's handler, from
\* its data block or, if the save moved the file, from the card when the directory came
\* (has_handler, changed_devdir_block).
THEOREM SavedDeviceSettles == HandledStay => (Spec => []DeviceSettles)
<1> SUFFICES ASSUME HandledStay PROVE Spec => []DeviceSettles
  OBVIOUS
<1>1. Init => DeviceInv
  BY InitFiles DEF Init, DeviceInv, DeviceFound, Delivered
<1>2. DeviceInv /\ [Next]_vars => DeviceInv'
  BY DeviceStep
<1>3. DeviceInv => DeviceSettles
  BY DEF DeviceInv, Delivered, DeviceSettles, Settled
<1> QED BY <1>1, <1>2, <1>3, PTL DEF Spec

-----------------------------------------------------------------------------
(***************************************************************************)
(* The block layer implements FileIO                                       *)
(***************************************************************************)
Asks == [p \in Pins |-> IF AllocatedTo(p) THEN Parse(file[p].value) ELSE Zero]
Text == IF AllocatedTo(RunFile) THEN file[RunFile].value ELSE Zero

RunfileStays == AllocatedTo(RunFile) /\ entry[RunFile] \in Clusters
PromiseInv == FilesInv /\ RunfileStays

LEMMA PromiseTypes ==
    ASSUME TypeInv
    PROVE  Asks \in [Pins -> Numbers] /\ Text \in Values /\ driven \in [Pins -> Numbers]
  BY ParseIsNumber, FileNames, ValuesAssumption
     DEF Asks, Text, AllocatedTo, TypeInv, TypeOK, Values

LEMMA RunfileStaysStep ==
    ASSUME InOrder, PromiseInv, [Next]_vars PROVE RunfileStays'
<1> USE DEF PromiseInv, RunfileStays, AllocatedTo
<1>a. file \in [Files -> [cluster : Cards, value : Values]] /\ RunFile \in Files
  BY FileNames DEF FilesInv, TypeInv, TypeOK
<1>1. CASE UNCHANGED vars
  BY <1>1 DEF vars, host, card
<1>2. CASE \E f \in Files : Save(f)
  <2>1. PICK f \in Files, v \in Values, c \in Clusters :
            file' = [file EXCEPT ![f] = [cluster |-> c, value |-> v]]
    BY <1>2 DEF Save, Free
  <2>2. entry' = entry
    BY <1>2 DEF Save, card
  <2> QED BY <1>a, <2>1, <2>2
<1>3. ASSUME NEW f \in Files, NEW c, f # RunFile, Release(f, c) PROVE RunfileStays'
  BY <1>a, <1>3 DEF Release, card
<1>4. CASE Unplug
  <2>1. file'[RunFile].cluster = entry[RunFile] /\ entry' = entry
    BY <1>4, FileNames DEF Unplug, card
  <2> QED BY <2>1
<1>5. CASE \E f \in Files : WriteData(f)
  BY <1>5 DEF WriteData
<1>6. ASSUME NEW d, SendDir(d), entry' = Entries(d) \/ entry' = entry PROVE RunfileStays'
  BY <1>a, <1>6, EntriesType DEF SendDir, FilesInv, TypeInv
<1>7. CASE WritePinsDir \/ WriteIoDir \/ WriteDevDir \/ WriteOtherDir
  BY <1>6, <1>7 DEF WritePinsDir, WriteIoDir, WriteDevDir, WriteOtherDir
<1>8. CASE CheckRunfileChanged
  BY <1>8 DEF CheckRunfileChanged, host, card
<1> QED
  BY Steps, FilesAssumption, <1>1, <1>2, <1>3, <1>4, <1>5, <1>7, <1>8 DEF InOrder

LEMMA InitPromise == Init => Promise!Init
<1> SUFFICES ASSUME Init PROVE Promise!Init
  OBVIOUS
<1>1. TypeInv /\ AllocatedTo(RunFile)
  BY InitTypes, FileNames DEF Init, AllocatedTo
<1>2. Asks \in [Pins -> Numbers] /\ Text \in Values
  BY <1>1, PromiseTypes
<1>3. script = file[RunFile].value /\ driven = [p \in Pins |-> Zero]
  BY FileNames DEF Init
<1> QED BY <1>1, <1>2, <1>3 DEF Promise!Init, Asks, Text

\* Steps of the mapping: FileIO's variables are Asks, driven, Text and script.
LEMMA PromiseStutters ==
    ASSUME UNCHANGED <<Asks, driven, Text, script>> PROVE UNCHANGED Promise!vars
  BY DEF Asks, Text, Promise!vars

LEMMA SavePromise ==
    ASSUME PromiseInv, NEW f \in Files, Save(f) PROVE [Promise!Next]_Promise!vars
<1>1. PICK v \in Values, c \in Clusters :
          file' = [file EXCEPT ![f] = [cluster |-> c, value |-> v]]
  BY DEF Save, Free
<1>2. UNCHANGED <<driven, script>> /\ TypeInv /\ TypeInv'
  BY SaveTypes DEF Save, runfile, PromiseInv, FilesInv
<1>3. /\ file'[f] = [cluster |-> c, value |-> v]
      /\ \A g \in Files \ {f} : file'[g] = file[g]
  BY <1>1, <1>2 DEF TypeInv, TypeOK
<1>4. CASE f \in Pins
  <2>1. Asks' = [Asks EXCEPT ![f] = Parse(v)]
    <3>1. AllocatedTo(f)' /\ file'[f].value = v
      BY <1>3 DEF AllocatedTo
    <3>2. \A p \in Pins \ {f} : AllocatedTo(p)' = AllocatedTo(p) /\ file'[p] = file[p]
      BY <1>3, FileNames DEF AllocatedTo
    <3> QED BY <1>4, <3>1, <3>2 DEF Asks
  <2>a. Text' = Text
    BY <1>3, <1>4, FileNames DEF Text, AllocatedTo
  <2>2. Promise!Write(f)
    BY <1>2, <2>1, <2>a, ParseIsNumber DEF Asks, Text, Promise!Write
  <2> QED BY <1>4, <2>2 DEF Promise!Next
<1>5. CASE f \notin Pins
  <2>1. Asks' = Asks
    BY <1>3, <1>5, FileNames DEF Asks, AllocatedTo
  <2>2. Text' \in Values
    BY <1>2, FileNames, ValuesAssumption DEF Text, TypeInv, TypeOK, Values
  <2>3. Promise!Edit
    BY <1>2, <2>1, <2>2 DEF Asks, Text, Promise!Edit
  <2> QED BY <2>3 DEF Promise!Next
<1> QED BY <1>4, <1>5

LEMMA ReleasePromise ==
    ASSUME PromiseInv, NEW f \in Files, f # RunFile, NEW c \in {Empty, Gone}, Release(f, c)
    PROVE  [Promise!Next]_Promise!vars
<1>1. /\ file' = [file EXCEPT ![f] = [cluster |-> c, value |-> Zero]]
      /\ UNCHANGED <<driven, script>>
  BY DEF Release, runfile
<1>2. file'[f].cluster \notin Clusters /\ \A g \in Files \ {f} : file'[g] = file[g]
  BY <1>1, ClustersAssumption DEF PromiseInv, FilesInv, TypeInv, TypeOK
<1>3. Text' = Text
  BY <1>2, FileNames DEF Text, AllocatedTo
<1>4. CASE f \in Pins
  <2>1. Asks' = [Asks EXCEPT ![f] = Zero]
    BY <1>2, <1>4, FileNames DEF Asks, AllocatedTo
  <2>2. Promise!Write(f)
    BY <1>1, <1>3, <2>1, ValuesAssumption DEF Asks, Text, Promise!Write
  <2> QED BY <1>4, <2>2 DEF Promise!Next
<1>5. CASE f \notin Pins
  <2>1. Asks' = Asks
    BY <1>2, <1>5, FileNames DEF Asks, AllocatedTo
  <2> QED BY <1>1, <1>3, <2>1, PromiseStutters
<1> QED BY <1>4, <1>5

LEMMA UnplugPromise == ASSUME PromiseInv, Unplug PROVE [Promise!Next]_Promise!vars
<1>1. /\ file' = [f \in Files |->
                     [cluster |-> OnCard[f],
                      value |-> IF OnCard[f] \in Clusters THEN stored[OnCard[f]] ELSE Zero]]
      /\ PowerUp(OnCard, stored, devdir) /\ OnCard[RunFile] = entry[RunFile]
  BY FileNames DEF Unplug, OnCard
<1>2. Asks' \in [Pins -> Numbers] /\ Text' \in Values
  <2>1. TypeInv'
    BY UnplugTypes DEF PromiseInv, FilesInv
  <2>2. \A f \in Files : file'[f].value \in Values
    BY <2>1 DEF TypeInv, TypeOK
  <2> QED BY <2>2, ParseIsNumber, ValuesAssumption, FileNames DEF Asks, Text, Values
<1>3. script' = stored[entry[RunFile]] /\ driven' = [p \in Pins |-> Zero]
  BY <1>1 DEF PowerUp, PromiseInv, RunfileStays
<1>4. Text' = stored[entry[RunFile]]
  BY <1>1, FileNames DEF PromiseInv, RunfileStays, Text, AllocatedTo
<1>5. Promise!PowerUp
  BY <1>2, <1>3, <1>4 DEF Asks, Text, Promise!PowerUp
<1> QED BY <1>5 DEF Promise!Next

LEMMA WriteDataPromise ==
    ASSUME PromiseInv, NEW f \in Files, WriteData(f) PROVE [Promise!Next]_Promise!vars
<1>1. UNCHANGED <<file, script>> /\ Data(f) \in dirty /\ FilesInv
  BY DEF WriteData, runfile, PromiseInv
<1>2. Asks' = Asks /\ Text' = Text
  BY <1>1 DEF Asks, Text, AllocatedTo
<1>3. CASE driven' = driven
  BY <1>1, <1>2, <1>3, PromiseStutters
<1>4. CASE f \in Pins /\ driven' = [driven EXCEPT ![f] = Parse(file[f].value)]
  <2>1. Asks[f] = Parse(file[f].value)
    BY <1>1, <1>4, Handled DEF Asks
  <2>2. Promise!SetPin(f)
    BY <1>1, <1>2, <1>4, <2>1 DEF Asks, Text, Promise!SetPin
  <2> QED BY <1>4, <2>2 DEF Promise!Next
<1> QED BY <1>1, <1>3, <1>4, DataDrives

LEMMA WritePinsDirPromise ==
    ASSUME InOrder, PromiseInv, WritePinsDir PROVE [Promise!Next]_Promise!vars
<1>1. /\ Block("pins") \in dirty /\ entry' = Entries("pins") /\ UNCHANGED <<file, script>>
      /\ driven' = [p \in Pins |->
                       IF \E i \in DOMAIN pins : pins[i].id = p /\ Moved(i, entry'[p])
                       THEN Parse(stored[entry'[p]]) ELSE driven[p]]
  BY DEF WritePinsDir, SendDir, runfile
<1>2. FilesInv /\ driven \in [Pins -> Numbers]
  BY DEF PromiseInv, FilesInv, TypeInv, TypeOK
<1>3. Asks' = Asks /\ Text' = Text
  BY <1>1 DEF Asks, Text, AllocatedTo
<1>4. PICK f \in Files : Dir(f) = "pins" /\ UnderWay(f)
  BY <1>1, <1>2, TurnOfDir, FileNames DEF FilesInv
<1>5. f \in Pins /\ Data(f) \notin dirty
  BY <1>4, DirOf DEF WritePinsDir, SendDir, InOrder
<1>6. \A p \in Pins : entry'[p] = file[p].cluster
  BY <1>1, <1>2, EntriesType, DirOf, FileNames DEF FilesInv, TypeInv
<1>7. ASSUME NEW i \in DOMAIN pins, NEW p \in Pins, pins[i].id = p, Moved(i, entry'[p])
      PROVE  p = f /\ AllocatedTo(f) /\ entry[f] # file[f].cluster
  <2>1. entry[p] # file[p].cluster /\ file[p].cluster \in Clusters
    BY <1>2, <1>6, <1>7 DEF Moved, FilesInv, PinsFollowed
  <2>2. p = f
    BY <1>4, <2>1, FileNames DEF UnderWay, Readable
  <2> QED BY <2>1, <2>2 DEF AllocatedTo
<1>8. CASE \E i \in DOMAIN pins : pins[i].id = f /\ Moved(i, entry'[f])
  <2>1. AllocatedTo(f) /\ stored[file[f].cluster] = file[f].value
    BY <1>2, <1>5, <1>7, <1>8, FileNames DEF FilesInv, SentStored
  <2>2. driven'[f] = Asks[f]
    BY <1>1, <1>5, <1>6, <1>8, <2>1 DEF Asks
  <2>3. \A p \in Pins \ {f} : driven'[p] = driven[p]
    BY <1>1, <1>7
  <2>4. driven' = [driven EXCEPT ![f] = Asks[f]]
    BY <1>1, <1>2, <1>5, <2>2, <2>3
  <2>5. Promise!SetPin(f)
    BY <1>1, <1>3, <2>4 DEF Asks, Text, Promise!SetPin
  <2> QED BY <1>5, <2>5 DEF Promise!Next
<1>9. CASE ~\E i \in DOMAIN pins : pins[i].id = f /\ Moved(i, entry'[f])
  <2>1. \A p \in Pins : driven'[p] = driven[p]
    BY <1>1, <1>7, <1>9
  <2>2. driven' = driven
    BY <1>1, <1>2, <2>1
  <2> QED BY <1>1, <1>3, <2>2, PromiseStutters
<1> QED BY <1>8, <1>9

LEMMA CheckPromise ==
    ASSUME PromiseInv, CheckRunfileChanged PROVE [Promise!Next]_Promise!vars
<1>1. /\ dirty = {} /\ script' = stored[runfile_cluster] /\ UNCHANGED <<file, driven>>
  BY DEF CheckRunfileChanged, Quiet, Settled, host
<1>2. Asks' = Asks /\ Text' = Text
  BY <1>1 DEF Asks, Text, AllocatedTo
<1>3. entry[RunFile] = file[RunFile].cluster /\ runfile_cluster = entry[RunFile]
  BY <1>1, Sent, FileNames DEF PromiseInv, RunfileStays, FilesInv, RunfileFollowed, Readable
<1>4. stored[file[RunFile].cluster] = file[RunFile].value
  BY <1>1, FileNames DEF PromiseInv, RunfileStays, FilesInv, SentStored
<1>5. script' = Text
  BY <1>1, <1>3, <1>4 DEF PromiseInv, RunfileStays, Text
<1>6. Promise!Run
  BY <1>1, <1>2, <1>5 DEF Asks, Text, Promise!Run
<1> QED BY <1>6 DEF Promise!Next

\* While the host sends a file's data before its directory, deletes no pin's file, and
\* neither deletes nor empties RUN.LIO or the device file: whatever is saved, moved or
\* unplugged, a pin is only ever set to what its file says at that moment, and the script
\* that is evaluated is the one in RUN.LIO.
THEOREM FilesKeepPromise == HandledStay /\ InOrder => (Spec => KeepsPromise)
<1> SUFFICES ASSUME HandledStay, InOrder PROVE Spec => KeepsPromise
  OBVIOUS
<1>1. Init => PromiseInv
  BY InitFiles, FileNames DEF Init, PromiseInv, RunfileStays, AllocatedTo
<1>2. PromiseInv /\ [Next]_vars => PromiseInv'
  BY FilesStep, RunfileStaysStep DEF PromiseInv
<1>3. PromiseInv /\ [Next]_vars => [Promise!Next]_Promise!vars
  <2> SUFFICES ASSUME PromiseInv, [Next]_vars PROVE [Promise!Next]_Promise!vars
    OBVIOUS
  <2>1. ASSUME UNCHANGED <<file, driven, script>> PROVE UNCHANGED Promise!vars
    BY <2>1, PromiseStutters DEF Asks, Text, AllocatedTo
  <2>2. CASE UNCHANGED vars \/ WriteIoDir \/ WriteDevDir \/ WriteOtherDir
    <3>1. UNCHANGED <<file, driven, script>>
      BY <2>2 DEF vars, host, runfile, WriteIoDir, WriteDevDir, WriteOtherDir, SendDir
    <3> QED BY <2>1, <3>1
  <2>3. CASE \E f \in Files : Save(f)
    BY <2>3, SavePromise
  <2>4. CASE \E f \in Emptied : Release(f, Empty)
    BY <2>4, ReleasePromise, FilesAssumption DEF InOrder
  <2>5. CASE \E f \in Deleted : Release(f, Gone)
    BY <2>5, ReleasePromise, FilesAssumption DEF InOrder
  <2>6. CASE \E f \in Files : WriteData(f)
    BY <2>6, WriteDataPromise
  <2> QED
    BY Steps, <2>2, <2>3, <2>4, <2>5, <2>6, UnplugPromise, WritePinsDirPromise, CheckPromise
<1> QED BY <1>1, <1>2, <1>3, InitPromise, PTL DEF Spec, KeepsPromise, Promise!Spec
=============================================================================
