---------------------------------- MODULE Fat ----------------------------------
(***************************************************************************)
(* The FAT16 file system as fat_impl.c finds its way in it.  A volume is   *)
(* a function from pairs of a block and a place in it to what has been     *)
(* stored there: characters of files, entries of directories, numbers of   *)
(* the FAT and, by their offsets, of the boot records.  The rest is 0.     *)
(***************************************************************************)
EXTENDS Integers, Sequences, SequencesExt

CONSTANTS
    BlockChars,     \* 512: characters in a block
    BlockEntries,   \* 16: directory entries
    BlockFat        \* 256: entries of the FAT

ASSUME FatAssumption == {BlockChars, BlockEntries, BlockFat} \subseteq Nat \ {0}

EOC == 65535
NumberCell(n) == [number |-> n]
CharCell(c) == [char |-> c]
NUL == <<>>
EntryCell(name, attributes, cluster, size) ==
    [name |-> name, attributes |-> attributes, cluster |-> cluster, size |-> size]
NoEntry == EntryCell(<<>>, {}, 0, 0)

Stored(image, at, kind) == at \in DOMAIN image /\ kind \in DOMAIN image[at]
NumberAt(image, block, i) ==
    IF Stored(image, <<block, i>>, "number") THEN image[<<block, i>>].number ELSE 0
CharAt(image, block, i) ==
    IF Stored(image, <<block, i>>, "char") THEN image[<<block, i>>].char ELSE NUL
EntryAt(image, block, i) ==
    IF Stored(image, <<block, i>>, "attributes") THEN image[<<block, i>>] ELSE NoEntry

\* attributes; a part of a long name has those of a volume, which no file has
FAT_FILE_DIR == {"dir"}
FAT_FILE_VOLUME == {"volume"}
LFN == {"readonly", "hidden", "system", "volume"}
Mask == {"volume", "dir"}     \* 0xD8; its two other bits are not used

-----------------------------------------------------------------------------
\* disk_init: the places of the FAT, the root directory and the data, from the boot records
PARTITION_TYPE == 446 + 4
P1_BLOCK == 446 + 8
P1_SIZE == 446 + 12
SIGNATURE == 510
RESERVED_BLOCKS == 14
FATS == 16
ROOT_ENTRIES == 17
TOTAL_BLOCKS == 19
FAT_BLOCKS == 22

NoDisk == [fat_start |-> 0, root_dir |-> 0, data_start |-> 0, p_size |-> 0]
DiskInit(image) ==
    LET pstart == NumberAt(image, 0, P1_BLOCK)
        fat    == pstart + NumberAt(image, pstart, RESERVED_BLOCKS)
        root   == fat + NumberAt(image, pstart, FATS) * NumberAt(image, pstart, FAT_BLOCKS)
    IN  IF /\ NumberAt(image, 0, SIGNATURE) = 43605      \* 0xAA55
           /\ NumberAt(image, 0, PARTITION_TYPE) = 4 /\ pstart # 0
        THEN [fat_start |-> fat, root_dir |-> root,
              data_start |-> root + NumberAt(image, pstart, ROOT_ENTRIES) \div BlockEntries,
              p_size |-> NumberAt(image, pstart, TOTAL_BLOCKS)]
        ELSE NoDisk

\* the root directory has the clusters -1, -2, ...
ClusterToBlock(sd, cluster) ==
    IF cluster < 0 THEN sd.root_dir - cluster - 1 ELSE sd.data_start + cluster - 2

GetNextCluster(image, sd, cluster) ==
    LET next == NumberAt(image, sd.fat_start + cluster \div BlockFat, cluster % BlockFat)
    IN  IF cluster < 0
        THEN (IF ClusterToBlock(sd, cluster - 1) >= sd.data_start THEN 0 ELSE cluster - 1)
        ELSE (IF next > 2 /\ next < 65519 THEN next ELSE 0)      \* 0xFFEF

\* find_sfn_entry, or -1
FindSfnEntry(image, block, name, wanted) ==
    LET at == {i \in 0..(BlockEntries - 1) :
                   LET e == EntryAt(image, block, i)
                   IN  e.attributes \cap Mask = wanted /\ e.name = name}
    IN  IF at = {} THEN -1 ELSE CHOOSE i \in at : \A j \in at : i <= j

FindSfnFile(image, sd, from, name, directory) ==
    LET Found(cluster) ==
            FindSfnEntry(image, ClusterToBlock(sd, cluster), name,
                         IF directory THEN FAT_FILE_DIR ELSE {})
        look[cluster \in Int] ==
            IF cluster = 0 THEN 0
            ELSE IF Found(cluster) # -1
            THEN EntryAt(image, ClusterToBlock(sd, cluster), Found(cluster)).cluster
            ELSE look[GetNextCluster(image, sd, cluster)]
    IN  look[from]

-----------------------------------------------------------------------------
\* fat_sfn: the short name, of 11 characters
Spell(s) == [i \in 1..Len(s) |-> SubSeq(s, i, i)]
Lower == Spell("abcdefghijklmnopqrstuvwxyz")
Upper == Spell("ABCDEFGHIJKLMNOPQRSTUVWXYZ")
Valid == ToSet(Upper) \cup ToSet(Spell("0123456789$%'-_@~!()"))

SafeChar(c) ==
    CASE c \in {" ", "."} -> <<>>
      [] c \in ToSet(Lower) -> <<Upper[SelectInSeq(Lower, LAMBDA l : l = c)]>>
      [] c \in Valid -> <<c>>
      [] OTHER -> <<"_">>
Safe(s) == FlattenSeq([i \in DOMAIN s |-> SafeChar(s[i])])
CutTo(s, n) == SubSeq(s, 1, IF Len(s) < n THEN Len(s) ELSE n)
Filled(s, n) == CutTo(s \o [i \in 1..n |-> " "], n)

FatSfn(lfn) ==
    LET dots == {i \in 2..(Len(lfn) - 1) : lfn[i] = "." /\ lfn[i + 1] # "."}
        last == IF dots = {} THEN Len(lfn) + 1
                ELSE CHOOSE i \in dots : \A j \in dots : j <= i
        base == Safe(SubSeq(lfn, 1, last - 1))
    IN  (IF Len(base) > 8 THEN CutTo(base, 6) \o <<"~", "1">> ELSE Filled(base, 8))
            \o Filled(Safe(SubSeq(lfn, last + 1, Len(lfn))), 3)

\* the names of the first two entries of a directory
DotName == Filled(<<".">>, 11)
DotsName == Filled(<<".", ".">>, 11)

FindLfnFile(image, sd, cluster, name, directory) ==
    FindSfnFile(image, sd, cluster, FatSfn(name), directory)
=============================================================================
