--------------------------------- MODULE Disk ---------------------------------
(***************************************************************************)
(* disk.c: the block layer between the host's FAT file system and the SD   *)
(* card.  The host sees files; the firmware sees blocks, and tells from    *)
(* the cluster numbers it keeps for some of them which file a block is of. *)
(* A data block of a pin or device file is handled and not stored; a       *)
(* block of a watched directory is stored and then looked at, for a file   *)
(* that has moved to another cluster or, for RUN.LIO, has a new time.      *)
(*                                                                         *)
(* The host is external to the program.  It caches: an operation on a file *)
(* leaves its data and its directory dirty, and the dirty blocks are sent  *)
(* to the device later, in an order of its own.                            *)
(***************************************************************************)
EXTENDS Naturals, Sequences, FiniteSets, Functions

CONSTANTS
    Pins,           \* the files of io/pins
    RunFile,        \* io/RUN.LIO
    Device,         \* io/dev/..., the device file the script has a (driver) for
    Others,         \* files of no special directory
    Clusters,       \* data clusters; a file has one of them
    Empty, Gone,    \* "cluster" of an empty file (0 in its entry), of no entry
    Numbers,        \* contents that parse_number reads
    Texts,          \* contents that it does not
    Zero,           \* what parse_number leaves when it reads nothing
    Mods,           \* bound on the times of RUN.LIO: 1..Mods
    Saved,          \* bound on the files the host writes to
    Emptied,        \* bound on the files it empties
    Deleted,        \* bound on the files it deletes
    Host            \* what the host does: subset of Habits

(***************************************************************************)
(*   relocate   saves a device file to a new cluster                       *)
(*   dirfirst   sends a directory before the data of the files in it       *)
(*   sametime   saves RUN.LIO twice within the 2 s of a FAT time stamp     *)
(*   unplug     unplugs the device when nothing is dirty                   *)
(***************************************************************************)
Habits == {"relocate", "dirfirst", "sametime", "unplug"}

Files == Pins \cup {RunFile, Device} \cup Others
Values == Numbers \cup Texts

ASSUME FilesAssumption ==
    /\ IsFiniteSet(Pins)
    /\ RunFile \notin Pins \cup Others \cup {Device}
    /\ Device \notin Pins \cup Others
    /\ Pins \cap Others = {}
    /\ Saved \subseteq Files /\ Emptied \subseteq Files /\ Deleted \subseteq Files
ASSUME ClustersAssumption == Empty \notin Clusters /\ Gone \notin Clusters /\ Empty # Gone
ASSUME ValuesAssumption == Zero \in Numbers /\ Numbers \cap Texts = {}
ASSUME HostAssumption == Host \subseteq Habits /\ Mods \in Nat \ {0}

VARIABLES
    file,           \* the host's view: file -> [cluster, value]
    mod,            \* and its time stamp of RUN.LIO
    dirty,          \* the files whose data, and the directories, still to be sent
    entry,          \* the card: file -> cluster in its directory entry
    entryMod,       \* the time in the entry of RUN.LIO
    devdir,         \* FALSE when the block of io/dev is not a directory any more
    stored,         \* cluster -> content
    pins,           \* pin_values: [id, cluster] in the order of registration
    device,         \* device->cluster; Gone when there is no (driver)
    delivered,      \* the content that the device's handler ran on last
    driven,         \* pin -> the argument of the last set_pin_value
    runfile_cluster, runfile_mod, runfile_triggered,
    script,         \* the content of RUN.LIO that was evaluated last
    asked           \* history: the files saved since power-up, the device file
                    \* since its (driver) was attached

host == <<file, mod, dirty>>
card == <<entry, entryMod, devdir, stored>>
runfile == <<runfile_cluster, runfile_mod, runfile_triggered, script>>
vars == <<host, card, pins, device, delivered, driven, runfile, asked>>

Dirs == {"pins", "io", "dev", "rest"}
Dir(f) == IF f \in Pins THEN "pins" ELSE IF f = RunFile THEN "io"
          ELSE IF f = Device THEN "dev" ELSE "rest"

TypeOK ==
    /\ file \in [Files -> [cluster : Clusters \cup {Empty, Gone}, value : Values]]
    /\ mod \in 1..Mods /\ entryMod \in 1..Mods /\ runfile_mod \in 0..Mods
    /\ dirty \subseteq [data : Files] \cup [dir : Dirs]
    /\ entry \in [Files -> Clusters \cup {Empty, Gone}]
    /\ devdir \in BOOLEAN /\ runfile_triggered \in BOOLEAN
    /\ stored \in [Clusters -> Values]
    /\ pins \in Seq([id : Pins, cluster : Clusters \cup {Empty}])
    /\ device \in Clusters \cup {Empty, Gone} /\ runfile_cluster \in Clusters \cup {Empty}
    /\ delivered \in Values /\ driven \in [Pins -> Numbers] /\ script \in Values
    /\ asked \subseteq Files

Data(f) == [data |-> f]
Block(d) == [dir |-> d]
AllocatedTo(f) == file[f].cluster \in Clusters
Free == Clusters \ {file[f].cluster : f \in Files}
Parse(v) == IF v \in Numbers THEN v ELSE Zero

-----------------------------------------------------------------------------
(***************************************************************************)
(* Power-up: iodir_init registers the pin files that are not empty and     *)
(* finds RUN.LIO, execute_runfile runs it, and find_device_files finds the *)
(* device file of the (driver) that the script has.                        *)
(***************************************************************************)
NotEmpty(e) == {p \in Pins : e[p] \in Clusters}
\* in the order in which the host has put them into the directory
Listings(ids) == Bijection(1..Cardinality(ids), ids)
Registered(list, e) == [i \in DOMAIN list |-> [id |-> list[i], cluster |-> e[list[i]]]]
Found(c) == IF c \in Clusters THEN c ELSE Empty
FindDevice(e, readable) == IF readable THEN Found(e[Device]) ELSE Empty

\* the contents of the card at power-up: e the entries, s the clusters
PowerUp(e, s, readable) ==
    /\ \E list \in Listings(NotEmpty(e)) : pins' = Registered(list, e)
    /\ driven' = [p \in Pins |-> Zero]
    /\ runfile_cluster' = Found(e[RunFile])
    /\ runfile_mod' = 0 /\ runfile_triggered' = FALSE
    /\ script' = IF e[RunFile] \in Clusters THEN s[e[RunFile]] ELSE Zero
    /\ device' = IF e[RunFile] \in Clusters THEN FindDevice(e, readable) ELSE Gone
    /\ delivered' = Zero
    /\ asked' = {}

\* make_fs gives every pin file a cluster of its own
Init ==
    /\ entry \in [Files -> Clusters]
    /\ \A f, g \in Files : f # g => entry[f] # entry[g]
    /\ \E blank \in Texts :
          /\ stored = [c \in Clusters |-> blank]
          /\ file = [f \in Files |-> [cluster |-> entry[f], value |-> blank]]
          /\ script = blank
    /\ devdir = TRUE
    /\ mod = 1 /\ entryMod = 1 /\ dirty = {}
    /\ \E list \in Listings(Pins) : pins = Registered(list, entry)
    /\ driven = [p \in Pins |-> Zero]
    /\ runfile_cluster = entry[RunFile] /\ runfile_mod = 0 /\ runfile_triggered = FALSE
    /\ device = entry[Device] /\ delivered = Zero /\ asked = {}

-----------------------------------------------------------------------------
(***************************************************************************)
(* The host                                                                *)
(***************************************************************************)
\* the host sends all that is dirty before it starts on the next file
Settled == dirty = {}

\* new content, in the file's cluster or in a free one
Save(f) ==
    /\ Settled
    /\ \E v \in Values, c \in Free \cup ({file[f].cluster} \cap Clusters) :
          /\ f = Device => c = file[f].cluster \/ "relocate" \in Host
          /\ file' = [file EXCEPT ![f] = [cluster |-> c, value |-> v]]
          /\ dirty' = dirty \cup {Data(f), Block(Dir(f))}
    /\ IF f = RunFile
       THEN \/ mod < Mods /\ mod' = mod + 1
            \/ "sametime" \in Host /\ mod' = mod
       ELSE mod' = mod
    /\ asked' = asked \cup {f}
    /\ UNCHANGED <<card, pins, device, delivered, driven, runfile>>

\* the file loses its cluster: its data need not be sent any more
Release(f, c) ==
    /\ Settled /\ AllocatedTo(f)
    /\ file' = [file EXCEPT ![f] = [cluster |-> c, value |-> Zero]]
    /\ dirty' = (dirty \ {Data(f)}) \cup {Block(Dir(f))}
    /\ UNCHANGED <<mod, card, pins, device, delivered, driven, runfile, asked>>
Truncate(f) == Release(f, Empty)
Delete(f) == Release(f, Gone)

\* nothing is dirty: the host's next look at the files is at what the card has
Unplug ==
    /\ "unplug" \in Host /\ Settled
    /\ LET e == [f \in Files |-> IF f = Device /\ ~devdir THEN Gone ELSE entry[f]]
       IN  /\ file' = [f \in Files |->
                          [cluster |-> e[f],
                           value |-> IF e[f] \in Clusters THEN stored[e[f]] ELSE Zero]]
           /\ mod' = entryMod
           /\ PowerUp(e, stored, devdir)
    /\ UNCHANGED <<dirty, card>>

HostStep == \/ \E f \in Saved : Save(f)
            \/ \E f \in Emptied : Truncate(f)
            \/ \E f \in Deleted : Delete(f)
            \/ Unplug
-----------------------------------------------------------------------------
(***************************************************************************)
(* write_blocks: one block of the host                                     *)
(***************************************************************************)
SlotsAt(c) == {i \in DOMAIN pins : pins[i].cluster = c}
First(S) == {i \in S : \A j \in S : i <= j}

\* has_handler for a data block: the first pin of that cluster, or the device, takes
\* the content; only a block that nothing handles is stored
WriteData(f) ==
    /\ Data(f) \in dirty
    /\ LET c == file[f].cluster
           v == file[f].value
       IN  \/ \E i \in First(SlotsAt(c)) :
                 /\ driven' = [driven EXCEPT ![pins[i].id] = Parse(v)]
                 /\ UNCHANGED <<delivered, stored>>
           \/ /\ SlotsAt(c) = {} /\ c = device
              /\ delivered' = v
              /\ UNCHANGED <<driven, stored>>
           \/ /\ SlotsAt(c) = {} /\ c # device
              /\ stored' = [stored EXCEPT ![c] = v]
              /\ UNCHANGED <<driven, delivered>>
    /\ dirty' = dirty \ {Data(f)}
    /\ UNCHANGED <<file, mod, entry, entryMod, devdir, pins, device, runfile, asked>>

\* the host sends the directory d, whose data it may have to send first
SendDir(d) ==
    /\ Block(d) \in dirty
    /\ "dirfirst" \in Host \/ \A f \in Files : Dir(f) = d => Data(f) \notin dirty
    /\ dirty' = dirty \ {Block(d)}
    /\ UNCHANGED <<file, mod, asked>>
Entries(d) == [f \in Files |-> IF Dir(f) = d THEN file[f].cluster ELSE entry[f]]

(***************************************************************************)
(* changed_iodir_block: a pin file in a new cluster gets what is stored    *)
(* there, an empty one is remembered as such, a missing one is not looked  *)
(* at; a file whose id is new is registered, without a call of its handler *)
(***************************************************************************)
Unregistered(e) ==
    {p \in NotEmpty(e) : \A i \in DOMAIN pins : pins[i].id # p}
NeverMoved(i, c) == FALSE   \* mutant: the handler of a moved file is not called
Moved(i, c) == c \in Clusters /\ c # pins[i].cluster
\* mutant: an empty file is passed over, as changed_devdir_block does
FollowNonEmpty(i, c) == IF c \in Clusters THEN [pins[i] EXCEPT !.cluster = c] ELSE pins[i]
Follow(i, c) == IF c = Gone THEN pins[i] ELSE [pins[i] EXCEPT !.cluster = c]

WritePinsDir ==
    /\ SendDir("pins")
    /\ entry' = Entries("pins")
    /\ driven' = [p \in Pins |->
                     IF \E i \in DOMAIN pins : pins[i].id = p /\ Moved(i, entry'[p])
                     THEN Parse(stored[entry'[p]]) ELSE driven[p]]
    /\ \E list \in Listings(Unregistered(entry')) :
          pins' = [i \in DOMAIN pins |-> Follow(i, entry'[pins[i].id])]
                  \o Registered(list, entry')
    /\ UNCHANGED <<entryMod, devdir, stored, device, delivered, runfile>>

\* has_watcher: RUN.LIO has another time or cluster than when it was last triggered
RunfileMoved(c) == c \in Clusters /\ c # runfile_cluster   \* mutant: the time is not read
RunfileNew(c) == c \in Clusters /\ (mod # runfile_mod \/ c # runfile_cluster)

WriteIoDir ==
    /\ SendDir("io")
    /\ entry' = Entries("io") /\ entryMod' = mod
    /\ IF RunfileNew(entry'[RunFile])
       THEN /\ runfile_cluster' = entry'[RunFile]
            /\ runfile_mod' = mod
            /\ runfile_triggered' = TRUE
       ELSE UNCHANGED <<runfile_cluster, runfile_mod, runfile_triggered>>
    /\ UNCHANGED <<devdir, stored, pins, device, delivered, driven, script>>

NeverFollowed(c) == FALSE   \* mutant: only the entries of the pins are followed
DeviceMoved(c) == c \in Clusters /\ device # Gone /\ c # device

\* has_handler, changed_devdir_block: the content of a device file that has moved is
\* read into the buffer that holds the directory block, which is then stored
WriteDevDir ==
    /\ SendDir("dev")
    /\ LET c == file[Device].cluster
       IN  IF DeviceMoved(c)
           THEN /\ device' = c
                /\ delivered' = stored[c]
                /\ devdir' = FALSE /\ entry' = entry
           ELSE /\ devdir' = TRUE /\ entry' = Entries("dev")
                /\ UNCHANGED <<device, delivered>>
    /\ UNCHANGED <<entryMod, stored, pins, driven, runfile>>

WriteOtherDir ==
    /\ SendDir("rest")
    /\ entry' = Entries("rest")
    /\ UNCHANGED <<entryMod, devdir, stored, pins, device, delivered, driven, runfile>>

NotQuiet == TRUE   \* mutant: the 100 ms are not waited for
Quiet == Settled

\* check_runfile_changed, 100 ms after the last block: runfile_changed evaluates the
\* file, attaches the (driver) and finds the device file
CheckRunfileChanged ==
    /\ runfile_triggered /\ Quiet
    /\ runfile_triggered' = FALSE
    /\ script' = stored[runfile_cluster]
    /\ device' = FindDevice(entry, devdir)
    /\ asked' = asked \ {Device}
    /\ UNCHANGED <<host, card, pins, delivered, driven, runfile_cluster, runfile_mod>>

FirmwareStep == (\E f \in Files : WriteData(f)) \/ WritePinsDir \/ WriteIoDir
                \/ WriteDevDir \/ WriteOtherDir \/ CheckRunfileChanged

Next == HostStep \/ FirmwareStep

Spec == Init /\ [][Next]_vars

-----------------------------------------------------------------------------
(***************************************************************************)
(* Properties                                                              *)
(***************************************************************************)
\* "read or set a pin's value": when the host has sent all that it had written, each
\* pin file that it saved has set its pin, wherever the save has put the file.
PinSettles ==
    Settled => \A p \in Pins \cap asked : AllocatedTo(p) => driven[p] = Parse(file[p].value)

\* "presents a FAT filesystem": when the host has sent all, the other files are on the
\* card: no handler has taken a block of theirs.
OthersStored ==
    Settled => \A f \in Others \cup {RunFile} :
                  AllocatedTo(f) => stored[file[f].cluster] = file[f].value

\* "re-runs it whenever it changes": when the host has sent all and no run is pending,
\* the RUN.LIO that was evaluated last is the one that the host sees.
RunfileSettles ==
    Settled /\ ~runfile_triggered /\ RunFile \in asked /\ AllocatedTo(RunFile)
    => script = file[RunFile].value

\* A saved device file has been given to its handler.
DeviceSettles ==
    Settled /\ Device \in asked /\ AllocatedTo(Device) /\ device # Gone
    => delivered = file[Device].value

\* What README.md promises of the files: see FileIO.
Promise == INSTANCE FileIO WITH
    Contents <- Values,
    asks <- [p \in Pins |-> IF AllocatedTo(p) THEN Parse(file[p].value) ELSE Zero],
    value <- driven,
    text <- IF AllocatedTo(RunFile) THEN file[RunFile].value ELSE Zero,
    ran <- script
KeepsPromise == Promise!Spec
=============================================================================
