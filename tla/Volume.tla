-------------------------------- MODULE Volume --------------------------------
(***************************************************************************)
(* The volume that make_fs writes, one action per call of its main, and    *)
(* what the device then finds and reads of it: disk_init, the files of the *)
(* io directory, the characters of a script (file_char_source.c) and those *)
(* of the files it imports (lio_file.c).                                   *)
(***************************************************************************)
EXTENDS Fat

CONSTANTS
    Calls,              \* the calls of main: [op, dir, name, ...]; dir is a call, or 0
    PARTITION_START, PARTITION_SIZE, ROOT_DIR_SECTORS,
    LfnChars,           \* 13: characters of a name in an entry for long names
    RunFile,            \* the call that makes run.lio
    Libraries,          \* calls that make files to import, and 0 for one that is not there
    MaxImports

ASSUME GeometryAssumption ==
    /\ PARTITION_START \in Nat \ {0} /\ PARTITION_SIZE \in Nat
    /\ ROOT_DIR_SECTORS \in Nat \ {0} /\ LfnChars \in Nat \ {0} /\ MaxImports \in Nat

\* What main calls: directories are made before what is in them; a content is no longer
\* than the length it is given.
ASSUME CallsAssumption ==
    /\ Calls \in Seq(ToSet(Calls))
    /\ \A k \in DOMAIN Calls : LET c == Calls[k] IN
           /\ c.dir \in 0..(k - 1) /\ (c.dir # 0 => Calls[c.dir].op = "directory")
           /\ c.op \in {"file", "directory"} /\ c.name \in Seq(ToSet(c.name))
           /\ c.op = "directory" => c.size \in Nat \ {0}
           /\ c.op = "file" => /\ c.length \in Nat /\ Len(c.content) <= c.length
                               /\ c.content \in Seq(ToSet(c.content) \ {NUL})
                               /\ c.attributes \cap Mask = {}

\* No two files of a directory have the same short name, nor two directories.
ASSUME NamesAssumption ==
    \A k \in DOMAIN Calls :
        /\ FatSfn(Calls[k].name) \notin {NoEntry.name, DotName, DotsName}
        /\ \A j \in DOMAIN Calls \ {k} :
               Calls[j].dir = Calls[k].dir /\ Calls[j].op = Calls[k].op =>
                   FatSfn(Calls[j].name) # FatSfn(Calls[k].name)

\* What is read has text: an empty file has no cluster of its own.
ASSUME ReadAssumption ==
    \A k \in (Libraries \ {0}) \cup {RunFile} :
        k \in DOMAIN Calls /\ Calls[k].op = "file" /\ Calls[k].length > 0

VARIABLES
    image,              \* buffer
    free_cluster,
    made,               \* calls made
    entries,            \* by directory: where its next entry goes
    first,              \* history: by call, the cluster that it began with
    sd,                 \* what disk_init has found
    buf,                \* the block that is in sd->buf
    file_cluster, buf_index,
    saved,              \* the imports that are under way: [file, n, index, cluster]
    reading,            \* the file that is read and how many characters of it: history
    given,              \* history: the last character, and which one was due
    stopped             \* lio_stopped

making == <<image, free_cluster, made, entries, first, sd>>
source == <<buf, file_cluster, buf_index, saved, reading, given, stopped>>
vars == <<image, free_cluster, made, entries, first, sd, buf, file_cluster, buf_index,
          saved, reading, given, stopped>>

FAT_SECTORS == (PARTITION_SIZE + 2 + BlockFat - 1) \div BlockFat
FAT_START == PARTITION_START + 1
ROOT_DIR_START == FAT_START + FAT_SECTORS
DATA_START == ROOT_DIR_START + ROOT_DIR_SECTORS

-----------------------------------------------------------------------------
\* make_fs: stores to the image
At(block, i, cell) == [at |-> <<block, i>>, cell |-> cell]
Put(im, stores) ==
    [p \in DOMAIN im \cup {s.at : s \in stores} |->
         IF \E s \in stores : s.at = p THEN (CHOOSE s \in stores : s.at = p).cell ELSE im[p]]

CreateMbr ==
    {At(0, PARTITION_TYPE, NumberCell(4)), At(0, P1_BLOCK, NumberCell(PARTITION_START)),
     At(0, P1_SIZE, NumberCell(PARTITION_SIZE)), At(0, SIGNATURE, NumberCell(43605))}
CreateRootBlock ==
    {At(PARTITION_START, RESERVED_BLOCKS, NumberCell(1)),
     At(PARTITION_START, FATS, NumberCell(1)),
     At(PARTITION_START, ROOT_ENTRIES, NumberCell(ROOT_DIR_SECTORS * BlockEntries)),
     At(PARTITION_START, TOTAL_BLOCKS, NumberCell(PARTITION_SIZE)),
     At(PARTITION_START, FAT_BLOCKS, NumberCell(FAT_SECTORS)),
     At(PARTITION_START, SIGNATURE, NumberCell(43605))}

FatBlock(cluster) == FAT_START + cluster \div BlockFat
FatEntry(cluster, next) == At(FatBlock(cluster), cluster % BlockFat, NumberCell(next))
FatHeader == {FatEntry(0, 65520), FatEntry(1, 4095)}

BufferForCluster(cluster) == DATA_START + cluster - 2

\* entries go on from one block to the next, also behind the end of their directory
PutEntries(place, new) ==
    {At((place + k - 1) \div BlockEntries, (place + k - 1) % BlockEntries, new[k]) :
        k \in DOMAIN new}
FirstPlace(cluster) == BufferForCluster(cluster) * BlockEntries
RootPlace == ROOT_DIR_START * BlockEntries

\* create_directory_entry: the parts of the long name, and the short one
NewEntries(name, attributes, cluster, size) ==
    [i \in 1..(Len(name) \div LfnChars + 1) |-> EntryCell(name, LFN, 0, 0)]
        \o <<EntryCell(FatSfn(name), attributes, cluster, size)>>

\* the cluster behind one of a file: i characters are before it
NextOfFileLate(cluster, i, length) ==     \* mutant: >=
    IF length - i >= BlockChars THEN cluster + 1 ELSE EOC
NextOfFile(cluster, i, length) == IF length - i > BlockChars THEN cluster + 1 ELSE EOC

\* strncpy: the rest of the block is NULs
CharOf(content, n) == IF n <= Len(content) THEN content[n] ELSE NUL
WriteBlock(cluster, content, i) ==
    {At(BufferForCluster(cluster), k, CharCell(CharOf(content, i + k + 1))) :
        k \in 0..(BlockChars - 1)}

ClustersForMore(length) == length \div BlockChars + 1     \* mutant: one behind a full block
ClustersFor(length) == (length + BlockChars - 1) \div BlockChars
FileFat(free, length) ==
    {FatEntry(free + j, NextOfFile(free + j, j * BlockChars, length)) :
        j \in 0..(ClustersFor(length) - 1)}
FileText(free, content, length) ==
    UNION {WriteBlock(free + j, content, j * BlockChars) : j \in 0..(ClustersFor(length) - 1)}

CreateFile(c) ==
    LET new == NewEntries(c.name, c.attributes, free_cluster, c.length)
    IN  /\ image' = Put(Put(Put(image, PutEntries(entries[c.dir], new)),
                            FileFat(free_cluster, c.length)),
                        FileText(free_cluster, c.content, c.length))
        /\ entries' = [entries EXCEPT ![c.dir] = @ + Len(new)]
        /\ free_cluster' = free_cluster + ClustersFor(c.length)

\* its two first entries: itself, and the cluster that main says
Dots(cluster, parent) ==
    <<EntryCell(DotName, FAT_FILE_DIR, cluster, 0), EntryCell(DotsName, FAT_FILE_DIR, parent, 0)>>
DirectoryFat(free, size) ==
    {FatEntry(free + j, IF j = size - 1 THEN EOC ELSE free + j + 1) : j \in 0..(size - 1)}

CreateDirectory(c) ==
    LET new == NewEntries(c.name, FAT_FILE_DIR, free_cluster, 0)
    IN  /\ image' = Put(Put(Put(image, DirectoryFat(free_cluster, c.size)),
                            PutEntries(entries[c.dir], new)),
                        PutEntries(FirstPlace(free_cluster), Dots(free_cluster, c.parent)))
        /\ entries' = [entries EXCEPT ![c.dir] = @ + Len(new),
                                      ![made + 1] = FirstPlace(free_cluster) + 2]
        /\ free_cluster' = free_cluster + c.size

Label == EntryCell(Spell("PHATIO     "), FAT_FILE_VOLUME, 0, 0)

Init ==
    /\ image = Put([p \in {} |-> NUL],
                   CreateMbr \cup CreateRootBlock \cup FatHeader
                   \cup PutEntries(RootPlace, <<Label>>))
    /\ free_cluster = 2 /\ made = 0 /\ first = <<>>
    /\ entries = [c \in 0..Len(Calls) |-> IF c = 0 THEN RootPlace + 1 ELSE 0]
    /\ sd = NoDisk /\ buf = 0 /\ file_cluster = 0 /\ buf_index = -1
    /\ saved = <<>> /\ stopped = FALSE
    /\ reading = [file |-> 0, n |-> 0] /\ given = [file |-> 0, n |-> 0, char |-> NUL]

Make ==
    /\ made < Len(Calls)
    /\ \/ Calls[made + 1].op = "file" /\ CreateFile(Calls[made + 1])
       \/ Calls[made + 1].op = "directory" /\ CreateDirectory(Calls[made + 1])
    /\ made' = made + 1 /\ first' = Append(first, free_cluster)
    /\ UNCHANGED <<sd, source>>

Mount ==
    /\ made = Len(Calls) /\ sd = NoDisk
    /\ sd' = DiskInit(image)
    /\ UNCHANGED <<image, free_cluster, made, entries, first, source>>

-----------------------------------------------------------------------------
\* a file by the names on its way; iodir_init and import look for them
Find[k \in 0..Len(Calls)] ==
    IF k = 0 THEN -1
    ELSE FindLfnFile(image, sd, Find[Calls[k].dir], Calls[k].name, Calls[k].op = "directory")

\* file_source, of no cluster: lio stops
FileSource(cluster) ==
    /\ file_cluster' = cluster
    /\ buf_index' = IF cluster = 0 THEN -1 ELSE 0
    /\ stopped' = (stopped \/ cluster = 0)
    /\ buf' = IF cluster = 0 THEN buf ELSE ClusterToBlock(sd, cluster)

\* runfile_changed
Run ==
    /\ sd # NoDisk /\ reading.file = 0
    /\ file_cluster' = Find[RunFile] /\ buf_index' = IF Find[RunFile] = 0 THEN -1 ELSE 0
    /\ stopped' = (Find[RunFile] = 0)
    /\ buf' = IF Find[RunFile] = 0 THEN buf ELSE ClusterToBlock(sd, Find[RunFile])
    /\ reading' = [file |-> RunFile, n |-> 0]
    /\ given' = [file |-> 0, n |-> 0, char |-> NUL]
    /\ UNCHANGED <<making, saved>>

\* file_reader, from the block that is in sd->buf
Take(block, index) ==
    LET c == CharAt(image, block, index)
    IN  /\ buf_index' = IF c = NUL THEN -1 ELSE index + 1
        /\ given' = [file |-> reading.file, n |-> reading.n + 1, char |-> c]
        /\ reading' = [reading EXCEPT !.n = IF c = NUL THEN @ ELSE @ + 1]

Read ==
    /\ reading.file # 0 /\ ~stopped /\ buf_index \in 0..(BlockChars - 1)
    /\ Take(buf, buf_index) /\ UNCHANGED <<making, buf, file_cluster, saved, stopped>>

\* at the end of a block: the next one of the chain
ReadNextBlock ==
    /\ reading.file # 0 /\ ~stopped /\ buf_index = BlockChars
    /\ LET next == GetNextCluster(image, sd, file_cluster)
       IN  /\ file_cluster' = next
           /\ \/ /\ next # 0 /\ buf' = ClusterToBlock(sd, next)
                 /\ Take(ClusterToBlock(sd, next), 0) /\ UNCHANGED stopped
              \/ /\ next = 0 /\ buf' = sd.fat_start + file_cluster \div BlockFat
                 /\ buf_index' = -1 /\ stopped' = TRUE
                 /\ given' = [file |-> reading.file, n |-> reading.n + 1, char |-> NUL]
                 /\ UNCHANGED reading
    /\ UNCHANGED <<making, saved>>

\* next_token puts back the character that it has read last
Putback ==
    /\ reading.file # 0 /\ ~stopped /\ given.char # NUL
    /\ given.file = reading.file /\ given.n = reading.n
    /\ buf_index' = buf_index - 1
    /\ reading' = [reading EXCEPT !.n = @ - 1]
    /\ given' = [file |-> 0, n |-> 0, char |-> NUL]
    /\ UNCHANGED <<making, buf, file_cluster, saved, stopped>>

\* import, up to eval_text; the lookup leaves another block in sd->buf
Import(k) ==
    /\ reading.file # 0 /\ ~stopped /\ buf_index # -1 /\ reading.n > 0 /\ Len(saved) < MaxImports
    /\ saved' = <<[index |-> buf_index, cluster |-> file_cluster, reading |-> reading]>> \o saved
    /\ FileSource(IF k = 0 THEN 0 ELSE Find[k])
    /\ reading' = [file |-> k, n |-> 0]
    /\ given' = [file |-> 0, n |-> 0, char |-> NUL]
    /\ UNCHANGED making

\* the end of an eval_text: import reads the block before again
BlockStale == buf     \* mutant: it does not
BlockAgain == ClusterToBlock(sd, saved[1].cluster)

Return ==
    /\ sd # NoDisk /\ (buf_index = -1 \/ stopped)
    /\ \/ /\ saved # <<>>
          /\ buf' = BlockAgain /\ buf_index' = saved[1].index
          /\ file_cluster' = saved[1].cluster
          /\ reading' = saved[1].reading /\ saved' = Tail(saved)
       \/ /\ saved = <<>> /\ reading.file # 0
          /\ reading' = [file |-> 0, n |-> 0] /\ UNCHANGED <<buf, buf_index, file_cluster, saved>>
    /\ given' = [file |-> 0, n |-> 0, char |-> NUL]
    /\ UNCHANGED <<making, stopped>>

Next ==
    \/ Make \/ Mount \/ Run \/ Read \/ ReadNextBlock \/ Putback \/ Return
    \/ \E k \in Libraries : Import(k)

Spec == Init /\ [][Next]_vars

-----------------------------------------------------------------------------
Clusters(c) == IF c.op = "file" THEN ClustersFor(c.length) ELSE c.size
CharDue(k, n) == CharOf(Calls[k].content, n)

(***************************************************************************)
(* The device finds each file and directory that make_fs has made, by the  *)
(* names on its way, where it was put, and of the same length; directories *)
(* lie in a row, which the handlers of pin files rely on.  A file without  *)
(* text has no cluster of its own.                                         *)
(***************************************************************************)
InARow(cluster, n) ==
    \A j \in 0..(n - 1) :
        GetNextCluster(image, sd, cluster + j) = IF j = n - 1 THEN 0 ELSE cluster + j + 1
HasText(cluster, k) ==
    \A j \in 0..(Clusters(Calls[k]) - 1), i \in 0..(BlockChars - 1) :
        CharAt(image, ClusterToBlock(sd, cluster + j), i) = CharDue(k, j * BlockChars + i + 1)
FoundAsMade ==
    sd # NoDisk /\ reading.file = 0 => \A k \in DOMAIN Calls :
        Clusters(Calls[k]) > 0 =>
            /\ Find[k] = first[k] /\ InARow(first[k], Clusters(Calls[k]))
            /\ Calls[k].op = "file" => HasText(first[k], k)

(***************************************************************************)
(* No call of make_fs looks whether there is room: the clusters end within *)
(* the partition and the numbers of an int16_t, and the entries of each    *)
(* directory within its clusters.                                          *)
(***************************************************************************)
Room ==
    /\ BufferForCluster(free_cluster) <= PARTITION_START + PARTITION_SIZE
    /\ free_cluster <= 32768 /\ entries[0] <= DATA_START * BlockEntries
    /\ \A d \in 1..made : Calls[d].op = "directory" =>
           entries[d] <= FirstPlace(first[d] + Calls[d].size)

(***************************************************************************)
(* A script gets the characters of its file one by one, from block to      *)
(* block, after a putback at the start of a block and after an import in   *)
(* the middle of one, and its end when all are read; it is stopped at the  *)
(* end of a file that leaves no room for the NUL in its last block.        *)
(***************************************************************************)
TextDelivered ==
    given.file # 0 =>
        /\ given.char = CharDue(given.file, given.n)
        /\ stopped => given.n = Len(Calls[given.file].content) + 1
=============================================================================
