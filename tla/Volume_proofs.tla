----------------------------- MODULE Volume_proofs -----------------------------
(***************************************************************************)
(* Image and firmware agree, for every list of calls that has room on the  *)
(* volume and any sizes of blocks: each file is found by its names, where  *)
(* it was put and with its text, and a script gets that text.              *)
(***************************************************************************)
EXTENDS Volume, WellFoundedInduction, SequenceTheorems, TLAPS

-----------------------------------------------------------------------------
\* Places: blocks and what is in them are numbered by division with rest.

LEMMA Least ==
    ASSUME NEW T \in SUBSET Nat, T # {} PROVE \E x \in T : \A y \in T : x <= y
<1> DEFINE R == OpToRel(<, Nat)
<1>1. IsWellFoundedOn(R, Nat)
  BY NatLessThanWellFounded, Zenon
<1>2. \A x, y \in Nat : y < x => <<y, x>> \in R
  BY DEF OpToRel
<1> HIDE DEF R
<1>3. PICK x \in T : \A y \in T : ~ (<<y, x>> \in R)
  BY <1>1, WFMin
<1>4. \A y \in T : ~(y < x)
  BY <1>2, <1>3
<1>5. x \in Nat /\ \A y \in T : y \in Nat
  OBVIOUS
<1> QED BY <1>4, <1>5

LEMMA DivideAndRest ==
    ASSUME NEW a \in Nat, NEW d \in Nat \ {0}
    PROVE  a = (a \div d) * d + (a % d) /\ a % d \in 0..(d - 1) /\ a \div d \in Nat
  OBVIOUS

LEMMA DivideSum ==
    ASSUME NEW a \in Nat, NEW d \in Nat \ {0}, NEW i \in 0..(d - 1)
    PROVE  (a * d + i) \div d = a /\ (a * d + i) % d = i
  OBVIOUS

LEMMA PlaceOrder ==
    ASSUME NEW a \in Nat, NEW b \in Nat, NEW d \in Nat \ {0}, NEW i \in 0..(d - 1)
    PROVE  a * d + i < b * d <=> a < b
<1>1. a < b => a * d + i < b * d
  <2> SUFFICES ASSUME a < b PROVE a * d + i < b * d
    OBVIOUS
  <2>1. PICK e \in Nat : b = a + 1 + e
    <3>1. b - a - 1 \in Nat /\ b = a + 1 + (b - a - 1)
      OBVIOUS
    <3> QED BY <3>1
  <2>2. b * d = a * d + d + e * d /\ e * d >= 0
    BY <2>1
  <2> QED BY <2>2
<1>2. a * d + i < b * d => a < b
  OBVIOUS
<1> QED BY <1>1, <1>2

\* ClustersFor rounds up.
LEMMA ClustersRound ==
    ASSUME NEW a \in Nat, NEW d \in Nat \ {0}, NEW n, n = (a + d - 1) \div d
    PROVE  n \in Nat /\ n * d >= a /\ n * d < a + d
<1>1. a + d - 1 \in Nat
  OBVIOUS
<1>2. a + d - 1 = n * d + ((a + d - 1) % d) /\ (a + d - 1) % d \in 0..(d - 1) /\ n \in Nat
  BY <1>1, DivideAndRest
<1>3. n * d \in Nat
  BY <1>2
<1> QED BY <1>2, <1>3

LEMMA LastOfFile ==
    ASSUME NEW a \in Nat, NEW d \in Nat \ {0}, NEW n, n = (a + d - 1) \div d,
           NEW j \in 0..(n - 1)
    PROVE  a - j * d > d <=> j # n - 1
<1>1. n \in Nat /\ n * d >= a /\ n * d < a + d
  BY ClustersRound
<1>2. CASE j = n - 1
  <2>1. j * d = n * d - d
    BY <1>1, <1>2
  <2>2. j * d \in Int
    BY <1>1
  <2> QED BY <1>1, <1>2, <2>1, <2>2
<1>3. CASE j # n - 1
  <2>1. PICK e \in Nat : n = j + 2 + e
    <3>1. n - j - 2 \in Nat /\ n = j + 2 + (n - j - 2)
      BY <1>1, <1>3
    <3> QED BY <3>1
  <2>2. n * d = j * d + 2 * d + e * d /\ e * d >= 0 /\ j * d \in Int
    BY <2>1
  <2> QED BY <1>1, <1>3, <2>2
<1> QED BY <1>2, <1>3

-----------------------------------------------------------------------------
\* What is stored by Put.

Placed(stores, p, cell) == \E s \in stores : s.at = p /\ s.cell = cell
Missed(stores, p) == \A s \in stores : s.at # p

LEMMA PutCases ==
    ASSUME NEW im, NEW stores
    PROVE  /\ \A p \in DOMAIN Put(im, stores) :
                  \/ Placed(stores, p, Put(im, stores)[p])
                  \/ p \in DOMAIN im /\ Put(im, stores)[p] = im[p] /\ Missed(stores, p)
           /\ \A p \in DOMAIN im : p \in DOMAIN Put(im, stores)
           /\ \A s \in stores : s.at \in DOMAIN Put(im, stores)
  BY DEF Put, Placed, Missed

LEMMA PutThree ==
    ASSUME NEW im, NEW a, NEW b, NEW c, NEW new, new = Put(Put(Put(im, a), b), c)
    PROVE  /\ \A p \in DOMAIN new :
                  \/ Placed(a, p, new[p]) \/ Placed(b, p, new[p]) \/ Placed(c, p, new[p])
                  \/ /\ p \in DOMAIN im /\ new[p] = im[p]
                     /\ Missed(a, p) /\ Missed(b, p) /\ Missed(c, p)
           /\ \A p \in DOMAIN im : p \in DOMAIN new
           /\ \A s \in a \cup b \cup c : s.at \in DOMAIN new
<1> DEFINE one == Put(im, a)
<1> DEFINE two == Put(one, b)
<1>1. /\ \A p \in DOMAIN one :
             \/ Placed(a, p, one[p])
             \/ p \in DOMAIN im /\ one[p] = im[p] /\ Missed(a, p)
      /\ \A p \in DOMAIN im : p \in DOMAIN one
      /\ \A s \in a : s.at \in DOMAIN one
  BY PutCases
<1>2. /\ \A p \in DOMAIN two :
             \/ Placed(b, p, two[p])
             \/ p \in DOMAIN one /\ two[p] = one[p] /\ Missed(b, p)
      /\ \A p \in DOMAIN one : p \in DOMAIN two
      /\ \A s \in b : s.at \in DOMAIN two
  <2> HIDE DEF one
  <2> QED BY PutCases
<1>3. /\ \A p \in DOMAIN new :
             \/ Placed(c, p, new[p])
             \/ p \in DOMAIN two /\ new[p] = two[p] /\ Missed(c, p)
      /\ \A p \in DOMAIN two : p \in DOMAIN new
      /\ \A s \in c : s.at \in DOMAIN new
  <2>1. new = Put(two, c)
    OBVIOUS
  <2> HIDE DEF two
  <2> QED BY <2>1, PutCases
<1> HIDE DEF one, two
<1>4. ASSUME NEW p \in DOMAIN new
      PROVE  \/ Placed(a, p, new[p]) \/ Placed(b, p, new[p]) \/ Placed(c, p, new[p])
             \/ /\ p \in DOMAIN im /\ new[p] = im[p]
                /\ Missed(a, p) /\ Missed(b, p) /\ Missed(c, p)
  BY <1>1, <1>2, <1>3, Zenon
<1> QED BY <1>1, <1>2, <1>3, <1>4

-----------------------------------------------------------------------------
\* The calls, and the places of the parts of the volume.

LEMMA SizesAre == {BlockChars, BlockEntries, BlockFat} \subseteq Nat \ {0}
  BY FatAssumption

LEMMA CallsAre ==
    /\ Len(Calls) \in Nat /\ DOMAIN Calls = 1..Len(Calls)
    /\ \A k \in 1..Len(Calls) :
           /\ Calls[k].op = "directory" <=> Calls[k].op # "file"
           /\ Calls[k].dir \in 0..(k - 1)
           /\ Calls[k].dir # 0 => Calls[Calls[k].dir].op = "directory"
           /\ Clusters(Calls[k]) \in Nat
           /\ Calls[k].op = "directory" => /\ Clusters(Calls[k]) = Calls[k].size
                                          /\ Calls[k].size \in Nat \ {0}
           /\ Calls[k].op = "file" =>
                  /\ Calls[k].length \in Nat
                  /\ Clusters(Calls[k]) = (Calls[k].length + BlockChars - 1) \div BlockChars
<1>1. Calls \in Seq(ToSet(Calls))
  BY CallsAssumption
<1>2. Len(Calls) \in Nat /\ DOMAIN Calls = 1..Len(Calls)
  BY <1>1
<1>3. ASSUME NEW k \in 1..Len(Calls), Calls[k].op = "file"
      PROVE  /\ Calls[k].length \in Nat /\ Clusters(Calls[k]) \in Nat
             /\ Clusters(Calls[k]) = (Calls[k].length + BlockChars - 1) \div BlockChars
  <2>1. Calls[k].length \in Nat
    BY <1>2, <1>3, CallsAssumption
  <2>2. Clusters(Calls[k]) = (Calls[k].length + BlockChars - 1) \div BlockChars
    BY <1>3 DEF Clusters, ClustersFor
  <2> QED BY <2>1, <2>2, SizesAre, ClustersRound
<1>4. ASSUME NEW k \in 1..Len(Calls)
      PROVE  /\ Calls[k].op \in {"file", "directory"} /\ Calls[k].dir \in 0..(k - 1)
             /\ Calls[k].dir # 0 => Calls[Calls[k].dir].op = "directory"
             /\ Calls[k].op = "directory" => Calls[k].size \in Nat \ {0}
  <2>1. k \in DOMAIN Calls
    BY <1>2
  <2> QED BY <2>1, CallsAssumption, Zenon
<1>5. ASSUME NEW k \in 1..Len(Calls), Calls[k].op = "directory"
      PROVE  Clusters(Calls[k]) = Calls[k].size
  BY <1>5 DEF Clusters
<1>6. "file" # "directory"
  OBVIOUS
<1> QED BY <1>2, <1>3, <1>4, <1>5, <1>6

LEMMA PartsInOrder ==
    /\ FAT_SECTORS \in Nat /\ FAT_SECTORS * BlockFat >= PARTITION_SIZE + 2
    /\ FAT_START \in Nat /\ FAT_START = PARTITION_START + 1 /\ PARTITION_START > 0
    /\ ROOT_DIR_START \in Nat /\ ROOT_DIR_START = FAT_START + FAT_SECTORS
    /\ DATA_START \in Nat /\ DATA_START = ROOT_DIR_START + ROOT_DIR_SECTORS
    /\ ROOT_DIR_SECTORS > 0
<1>1. PARTITION_SIZE + 2 \in Nat /\ BlockFat \in Nat \ {0}
  BY GeometryAssumption, SizesAre
<1>2. FAT_SECTORS \in Nat /\ FAT_SECTORS * BlockFat >= PARTITION_SIZE + 2
  BY <1>1, ClustersRound DEF FAT_SECTORS
<1> QED BY <1>2, GeometryAssumption DEF FAT_START, ROOT_DIR_START, DATA_START

LEMMA Buffers ==
    /\ \A x \in Nat : x >= 2 => BufferForCluster(x) \in Nat /\ BufferForCluster(x) >= DATA_START
    /\ \A x, y \in Nat : /\ x < y <=> BufferForCluster(x) < BufferForCluster(y)
                         /\ x <= y <=> BufferForCluster(x) <= BufferForCluster(y)
                         /\ BufferForCluster(x + y) = BufferForCluster(x) + y
                         /\ BufferForCluster(x) \in Int
  BY PartsInOrder DEF BufferForCluster

\* Clusters have their own places in the FAT, and the clusters of a partition all fit.
LEMMA FatPlaces ==
    ASSUME NEW x \in Nat, NEW y \in Nat
    PROVE  /\ FatBlock(x) \in Nat /\ FatBlock(x) >= FAT_START
           /\ x % BlockFat \in Nat
           /\ <<FatBlock(x), x % BlockFat>> = <<FatBlock(y), y % BlockFat>> => x = y
           /\ x < PARTITION_SIZE + 2 => FatBlock(x) < ROOT_DIR_START
<1>1. /\ x = (x \div BlockFat) * BlockFat + (x % BlockFat) /\ x % BlockFat \in 0..(BlockFat - 1)
      /\ y = (y \div BlockFat) * BlockFat + (y % BlockFat) /\ y % BlockFat \in 0..(BlockFat - 1)
      /\ x \div BlockFat \in Nat /\ y \div BlockFat \in Nat /\ BlockFat \in Nat \ {0}
  BY SizesAre, DivideAndRest
<1>2. ASSUME x < PARTITION_SIZE + 2 PROVE x \div BlockFat < FAT_SECTORS
  <2>1. (x \div BlockFat) * BlockFat + (x % BlockFat) < FAT_SECTORS * BlockFat
    <3>1. PARTITION_SIZE \in Nat /\ FAT_SECTORS * BlockFat \in Nat
      BY PartsInOrder, GeometryAssumption, <1>1
    <3> QED BY <1>1, <1>2, <3>1, PartsInOrder
  <2> QED BY <1>1, <2>1, PlaceOrder, PartsInOrder
<1>3. FatBlock(x) = FAT_START + x \div BlockFat /\ FatBlock(y) = FAT_START + y \div BlockFat
  BY DEF FatBlock
<1>4. <<FatBlock(x), x % BlockFat>> = <<FatBlock(y), y % BlockFat>> => x = y
  <2> SUFFICES ASSUME FatBlock(x) = FatBlock(y), x % BlockFat = y % BlockFat PROVE x = y
    OBVIOUS
  <2>1. FAT_START + x \div BlockFat = FAT_START + y \div BlockFat
    BY <1>3
  <2>2. FAT_START \in Nat
    BY PartsInOrder
  <2>3. \A a, b, f \in Nat : f + a = f + b => a = b
    OBVIOUS
  <2>4. x \div BlockFat = y \div BlockFat
    BY <1>1, <2>1, <2>2, <2>3
  <2> QED BY <1>1, <2>4
<1>5. FatBlock(x) \in Nat /\ FatBlock(x) >= FAT_START /\ x % BlockFat \in Nat
  BY <1>1, <1>3, PartsInOrder
<1>6. x < PARTITION_SIZE + 2 => FatBlock(x) < ROOT_DIR_START
  BY <1>1, <1>2, <1>3, PartsInOrder
<1> QED BY <1>4, <1>5, <1>6

-----------------------------------------------------------------------------
(***************************************************************************)
(* What is true of the volume after each call of make_fs.                  *)
(***************************************************************************)
Dirs == {0} \cup {d \in 1..made : Calls[d].op = "directory"}
DirBlock(d) == IF d = 0 THEN ROOT_DIR_START ELSE BufferForCluster(first[d])
DirSize(d) == IF d = 0 THEN ROOT_DIR_SECTORS ELSE Calls[d].size
InDir(d, b) == b \in Int /\ DirBlock(d) <= b /\ b < DirBlock(d) + DirSize(d)

AttributesOf(c) == IF c.op = "file" THEN c.attributes ELSE FAT_FILE_DIR
\* the entries of a call: those of its long name, and the one with its cluster
LongEntry(c) == EntryCell(c.name, LFN, 0, 0)
OwnEntry(c, f) ==
    EntryCell(FatSfn(c.name), AttributesOf(c), f, IF c.op = "file" THEN c.length ELSE 0)
EntryOf(k) == OwnEntry(Calls[k], first[k])
Listed(d, e) ==
    \/ e.attributes \cap Mask = {"volume"}
    \/ e.name \in {DotName, DotsName}
    \/ \E k \in 1..made : Calls[k].dir = d /\ e = EntryOf(k)
NextOf(n, j, cluster) == IF j = n - 1 THEN EOC ELSE cluster + j + 1
FatAt(cluster) == NumberAt(image, FatBlock(cluster), cluster % BlockFat)

Progress ==
    /\ made \in 0..Len(Calls) /\ free_cluster \in Nat /\ free_cluster >= 2
    /\ first \in Seq(Nat) /\ Len(first) = made
    /\ entries \in [0..Len(Calls) -> Nat]
Extents ==
    \A k \in 1..made :
        /\ first[k] >= 2 /\ first[k] + Clusters(Calls[k]) <= free_cluster
        /\ \A j \in 1..(k - 1) : first[j] + Clusters(Calls[j]) <= first[k]
Boots ==
    /\ NumberAt(image, 0, PARTITION_TYPE) = 4
    /\ NumberAt(image, 0, P1_BLOCK) = PARTITION_START
    /\ NumberAt(image, 0, SIGNATURE) = 43605
    /\ NumberAt(image, PARTITION_START, RESERVED_BLOCKS) = 1
    /\ NumberAt(image, PARTITION_START, FATS) = 1
    /\ NumberAt(image, PARTITION_START, ROOT_ENTRIES) = ROOT_DIR_SECTORS * BlockEntries
    /\ NumberAt(image, PARTITION_START, TOTAL_BLOCKS) = PARTITION_SIZE
    /\ NumberAt(image, PARTITION_START, FAT_BLOCKS) = FAT_SECTORS
Chains ==
    \A k \in 1..made : \A j \in 0..(Clusters(Calls[k]) - 1) :
        FatAt(first[k] + j) = NextOf(Clusters(Calls[k]), j, first[k])
Texts ==
    \A k \in 1..made : Calls[k].op = "file" =>
        \A j \in 0..(Clusters(Calls[k]) - 1), i \in 0..(BlockChars - 1) :
            CharAt(image, BufferForCluster(first[k] + j), i) = CharDue(k, j * BlockChars + i + 1)
Listings ==
    \A d \in Dirs, p \in DOMAIN image :
        InDir(d, p[1]) /\ "attributes" \in DOMAIN image[p] => Listed(d, image[p])
Present ==
    \A k \in 1..made : \E b \in Nat, i \in 0..(BlockEntries - 1) :
        /\ InDir(Calls[k].dir, b) /\ b * BlockEntries + i < entries[Calls[k].dir]
        /\ <<b, i>> \in DOMAIN image /\ image[<<b, i>>] = EntryOf(k)
Places == \A d \in Dirs : entries[d] >= DirBlock(d) * BlockEntries
Fresh ==
    \A p \in DOMAIN image :
        /\ p[1] \in Nat /\ p[1] < BufferForCluster(free_cluster)
        /\ "number" \in DOMAIN image[p] => image[p].number \in Nat

Extended == Progress /\ Extents /\ Places /\ Fresh
Written == Boots /\ Chains /\ Texts /\ Listings /\ Present

-----------------------------------------------------------------------------
\* Directories, and what each call stores.

LEMMA DirRegion ==
    ASSUME Progress, Extents
    PROVE  \A d \in Dirs :
             /\ d \in 0..made /\ DirBlock(d) \in Nat /\ DirSize(d) \in Nat \ {0}
             /\ DirBlock(d) >= ROOT_DIR_START
             /\ DirBlock(d) + DirSize(d) <= BufferForCluster(free_cluster)
             /\ d = 0 => DirBlock(d) + DirSize(d) = DATA_START
             /\ d # 0 => /\ DirBlock(d) >= DATA_START
                         /\ DirBlock(d) + DirSize(d) = BufferForCluster(first[d] + Calls[d].size)
<1>1. ASSUME NEW d \in Dirs, d # 0
      PROVE  /\ d \in 1..made /\ first[d] \in Nat /\ first[d] >= 2
             /\ Calls[d].size \in Nat \ {0} /\ first[d] + Calls[d].size <= free_cluster
  <2>1. d \in 1..made /\ Calls[d].op = "directory"
    BY <1>1 DEF Dirs
  <2>2. d \in 1..Len(Calls)
    BY <2>1, CallsAre DEF Progress
  <2>3. Clusters(Calls[d]) = Calls[d].size /\ Calls[d].size \in Nat \ {0}
    BY <2>1, <2>2, CallsAre
  <2> QED BY <2>1, <2>3 DEF Progress, Extents
<1>2. 0 \in 0..made /\ free_cluster \in Nat /\ free_cluster >= 2 /\ made \in Nat
  BY CallsAre DEF Progress
<1>3. ROOT_DIR_SECTORS \in Nat \ {0}
  BY GeometryAssumption
<1> QED BY <1>1, <1>2, <1>3, PartsInOrder DEF DirBlock, DirSize, BufferForCluster

LEMMA DirsApart ==
    ASSUME Progress, Extents, NEW a \in Dirs, NEW b \in Dirs, NEW x, InDir(a, x), InDir(b, x)
    PROVE  a = b
<1>1. SUFFICES ASSUME a # b PROVE FALSE
  OBVIOUS
<1>2. ASSUME NEW d \in Dirs, d # 0
      PROVE  /\ d \in 1..made /\ first[d] \in Nat /\ first[d] >= 2
             /\ Clusters(Calls[d]) = Calls[d].size /\ Calls[d].size \in Nat
             /\ DirBlock(d) = DATA_START + first[d] - 2 /\ DirSize(d) = Calls[d].size
  <2>1. d \in 1..made /\ Calls[d].op = "directory"
    BY <1>2 DEF Dirs
  <2>2. d \in 1..Len(Calls)
    BY <2>1, CallsAre DEF Progress
  <2>3. Clusters(Calls[d]) = Calls[d].size /\ Calls[d].size \in Nat \ {0}
    BY <2>1, <2>2, CallsAre
  <2> QED BY <1>2, <2>1, <2>3 DEF Progress, Extents, DirBlock, DirSize, BufferForCluster
<1>3. ASSUME NEW u \in Dirs, NEW v \in Dirs, u # 0, v # 0, u < v, InDir(u, x), InDir(v, x)
      PROVE  FALSE
  <2>1. first[u] + Calls[u].size <= first[v]
    <3>1. u \in 1..(v - 1) /\ v \in 1..made
      BY <1>2, <1>3
    <3> QED BY <1>2, <1>3, <3>1 DEF Extents
  <2> QED BY <1>2, <1>3, <2>1, PartsInOrder DEF InDir
<1>4. ASSUME NEW v \in Dirs, v # 0, InDir(0, x), InDir(v, x) PROVE FALSE
  BY <1>2, <1>4, PartsInOrder, GeometryAssumption DEF InDir, DirBlock, DirSize
<1>5. a = 0 \/ b = 0 \/ a < b \/ b < a
  BY <1>1, <1>2
<1> QED BY <1>1, <1>3, <1>4, <1>5

LEMMA NewEntriesAre ==
    ASSUME NEW name, Len(name) \in Nat, NEW attributes, NEW cluster, NEW size,
           NEW new, new = NewEntries(name, attributes, cluster, size)
    PROVE  /\ Len(new) \in Nat \ {0} /\ DOMAIN new = 1..Len(new)
           /\ \A i \in 1..Len(new) :
                  \/ i < Len(new) /\ new[i] = EntryCell(name, LFN, 0, 0)
                  \/ i = Len(new) /\ new[i] = EntryCell(FatSfn(name), attributes, cluster, size)
<1>1. LfnChars \in Nat \ {0}
  BY GeometryAssumption
<1>2. Len(name) \div LfnChars \in Nat
  BY <1>1, DivideAndRest
<1> DEFINE m == Len(name) \div LfnChars + 1
<1> DEFINE parts == [i \in 1..m |-> EntryCell(name, LFN, 0, 0)]
<1> DEFINE short == EntryCell(FatSfn(name), attributes, cluster, size)
<1>3. new = parts \o <<short>>
  BY DEF NewEntries
<1>4. m \in Nat \ {0}
  BY <1>2
<1> HIDE DEF m, short
<1>5. /\ Len(new) = m + 1 /\ DOMAIN new = 1..(m + 1)
      /\ \A i \in 1..m : new[i] = EntryCell(name, LFN, 0, 0)
      /\ new[m + 1] = short
  <2> HIDE DEF parts
  <2>1. parts \in Seq({EntryCell(name, LFN, 0, 0)}) /\ Len(parts) = m
    BY <1>4 DEF parts
  <2>2. \A i \in 1..m : parts[i] = EntryCell(name, LFN, 0, 0)
    BY DEF parts
  <2> QED BY <1>3, <1>4, <2>1, <2>2
<1> QED BY <1>4, <1>5 DEF short

FatStores(c, f) == IF c.op = "file" THEN FileFat(f, c.length) ELSE DirectoryFat(f, c.size)
NewOf(c, f) == NewEntries(c.name, AttributesOf(c), f, IF c.op = "file" THEN c.length ELSE 0)
EntryStores(c, f, e) == PutEntries(e, NewOf(c, f))
OwnStores(c, f) ==
    IF c.op = "file" THEN FileText(f, c.content, c.length)
    ELSE PutEntries(FirstPlace(f), Dots(f, c.parent))

LEMMA FatStoresAre ==
    ASSUME NEW k \in 1..Len(Calls), NEW f \in Nat
    PROVE  FatStores(Calls[k], f) =
             {FatEntry(f + j, NextOf(Clusters(Calls[k]), j, f)) : j \in 0..(Clusters(Calls[k]) - 1)}
<1> DEFINE c == Calls[k]
<1>1. CASE c.op = "file"
  <2>1. /\ c.length \in Nat /\ BlockChars \in Nat \ {0}
        /\ Clusters(c) = ClustersFor(c.length)
        /\ Clusters(c) = (c.length + BlockChars - 1) \div BlockChars
    BY <1>1, CallsAre, SizesAre DEF ClustersFor
  <2>2. ASSUME NEW j \in 0..(Clusters(c) - 1)
        PROVE  NextOfFile(f + j, j * BlockChars, c.length) = NextOf(Clusters(c), j, f)
    <3>1. c.length - j * BlockChars > BlockChars <=> j # Clusters(c) - 1
      <4>1. PICK a, m : a = c.length /\ m = Clusters(c)
        OBVIOUS
      <4>2. /\ a \in Nat /\ BlockChars \in Nat \ {0} /\ m = (a + BlockChars - 1) \div BlockChars
            /\ j \in 0..(m - 1)
        BY <2>1, <2>2, <4>1
      <4>3. a - j * BlockChars > BlockChars <=> j # m - 1
        BY <4>2, LastOfFile
      <4> QED BY <4>1, <4>3
    <3> QED BY <3>1 DEF NextOfFile, NextOf
  <2> HIDE DEF c
  <2>3. FileFat(f, c.length) = {FatEntry(f + j, NextOf(Clusters(c), j, f)) : j \in 0..(Clusters(c) - 1)}
    BY <2>1, <2>2 DEF FileFat
  <2> QED BY <1>1, <2>3 DEF FatStores, c
<1>2. CASE c.op # "file"
  <2>1. Clusters(c) = c.size
    BY <1>2, CallsAre
  <2> QED BY <1>2, <2>1 DEF FatStores, DirectoryFat, NextOf
<1> QED BY <1>1, <1>2

\* A call stores its clusters in the FAT, its entries in its directory and its own blocks.
LEMMA MakeStores ==
    ASSUME Progress, Make, NEW k, k = made + 1, NEW c, c = Calls[k],
           NEW f, f = free_cluster, NEW e, e = entries[c.dir]
    PROVE  /\ k \in 1..Len(Calls) /\ k # c.dir /\ c.dir \in 0..made
           /\ made' = k /\ first' = Append(first, f) /\ free_cluster' = f + Clusters(c)
           /\ entries' = [x \in 0..Len(Calls) |->
                 IF x = c.dir THEN e + Len(NewOf(c, f))
                 ELSE IF x = k /\ c.op = "directory" THEN FirstPlace(f) + 2 ELSE entries[x]]
           /\ UNCHANGED <<sd, source>>
           /\ \A p \in DOMAIN image' :
                 \/ Placed(FatStores(c, f), p, image'[p])
                 \/ Placed(EntryStores(c, f, e), p, image'[p])
                 \/ Placed(OwnStores(c, f), p, image'[p])
                 \/ /\ p \in DOMAIN image /\ image'[p] = image[p]
                    /\ Missed(FatStores(c, f), p) /\ Missed(EntryStores(c, f, e), p)
                    /\ Missed(OwnStores(c, f), p)
           /\ \A p \in DOMAIN image : p \in DOMAIN image'
           /\ \A s \in FatStores(c, f) \cup EntryStores(c, f, e) \cup OwnStores(c, f) :
                 s.at \in DOMAIN image'
<1>1. /\ k \in 1..Len(Calls) /\ made' = k /\ first' = Append(first, f) /\ UNCHANGED <<sd, source>>
      /\ \/ c.op = "file" /\ CreateFile(c)
         \/ c.op = "directory" /\ CreateDirectory(c)
  <2>1. made \in 0..Len(Calls) /\ Len(Calls) \in Nat
    BY CallsAre DEF Progress
  <2> QED BY <2>1 DEF Make
<1>2. c.dir \in 0..made /\ k # c.dir
  BY <1>1, CallsAre DEF Progress
<1>3. CASE c.op = "file" /\ CreateFile(c)
  <2>1. c.op # "directory"
    BY <1>1, <1>3, CallsAre
  <2>2. free_cluster' = f + Clusters(c)
    BY <1>3 DEF CreateFile, Clusters
  <2>3. /\ AttributesOf(c) = c.attributes
        /\ NewOf(c, f) = NewEntries(c.name, c.attributes, f, c.length)
    BY <1>3 DEF NewOf, AttributesOf
  <2>4. entries' = [entries EXCEPT ![c.dir] = @ + Len(NewOf(c, f))]
    BY <1>3, <2>3 DEF CreateFile
  <2>5. entries' = [x \in 0..Len(Calls) |->
                 IF x = c.dir THEN e + Len(NewOf(c, f))
                 ELSE IF x = k /\ c.op = "directory" THEN FirstPlace(f) + 2 ELSE entries[x]]
    BY <2>1, <2>4 DEF Progress
  <2>6. image' = Put(Put(Put(image, EntryStores(c, f, e)), FatStores(c, f)), OwnStores(c, f))
    BY <1>3, <2>3 DEF CreateFile, EntryStores, FatStores, OwnStores
  <2> HIDE <1>3
  <2> DEFINE E == EntryStores(c, f, e)
  <2> DEFINE F == FatStores(c, f)
  <2> DEFINE O == OwnStores(c, f)
  <2> HIDE DEF E, F, O
  <2>7. /\ \A p \in DOMAIN image' :
              \/ Placed(E, p, image'[p]) \/ Placed(F, p, image'[p]) \/ Placed(O, p, image'[p])
              \/ /\ p \in DOMAIN image /\ image'[p] = image[p]
                 /\ Missed(E, p) /\ Missed(F, p) /\ Missed(O, p)
        /\ \A p \in DOMAIN image : p \in DOMAIN image'
        /\ \A s \in E \cup F \cup O : s.at \in DOMAIN image'
    <3>1. image' = Put(Put(Put(image, E), F), O)
      BY <2>6 DEF E, F, O
    <3> QED BY <3>1, PutThree
  <2>8. \A s \in F \cup E \cup O : s.at \in DOMAIN image'
    BY <2>7
  <2>9. \A p \in DOMAIN image' :
             \/ Placed(F, p, image'[p]) \/ Placed(E, p, image'[p]) \/ Placed(O, p, image'[p])
             \/ /\ p \in DOMAIN image /\ image'[p] = image[p]
                /\ Missed(F, p) /\ Missed(E, p) /\ Missed(O, p)
    BY <2>7, Zenon
  <2> QED BY <1>1, <1>2, <2>2, <2>5, <2>7, <2>8, <2>9 DEF E, F, O
<1>4. CASE c.op = "directory" /\ CreateDirectory(c)
  <2>1. c.op # "file"
    BY <1>1, <1>4, CallsAre
  <2>2. free_cluster' = f + Clusters(c)
    BY <1>4, <2>1 DEF CreateDirectory, Clusters
  <2>3. NewOf(c, f) = NewEntries(c.name, FAT_FILE_DIR, f, 0)
    BY <2>1 DEF NewOf, AttributesOf
  <2>4. entries' = [entries EXCEPT ![c.dir] = @ + Len(NewOf(c, f)), ![k] = FirstPlace(f) + 2]
    BY <1>4, <2>3 DEF CreateDirectory
  <2>5. entries' = [x \in 0..Len(Calls) |->
                 IF x = c.dir THEN e + Len(NewOf(c, f))
                 ELSE IF x = k /\ c.op = "directory" THEN FirstPlace(f) + 2 ELSE entries[x]]
    BY <1>2, <1>4, <2>4 DEF Progress
  <2>6. image' = Put(Put(Put(image, FatStores(c, f)), EntryStores(c, f, e)), OwnStores(c, f))
    BY <1>4, <2>1, <2>3 DEF CreateDirectory, EntryStores, FatStores, OwnStores
  <2> HIDE <1>4
  <2> QED BY <1>1, <1>2, <2>2, <2>5, <2>6, PutThree
<1> QED BY <1>1, <1>3, <1>4

\* Where these stores go: three parts of the volume that have nothing in common.

LEMMA PlaceWithin ==
    ASSUME NEW q \in Nat, NEW lo \in Nat, NEW hi \in Nat,
           lo * BlockEntries <= q, q < hi * BlockEntries
    PROVE  /\ q \div BlockEntries \in Nat /\ q % BlockEntries \in 0..(BlockEntries - 1)
           /\ q = (q \div BlockEntries) * BlockEntries + (q % BlockEntries)
           /\ lo <= q \div BlockEntries /\ q \div BlockEntries < hi
<1>1. BlockEntries \in Nat \ {0}
  BY SizesAre
<1>2. /\ q = (q \div BlockEntries) * BlockEntries + (q % BlockEntries)
      /\ q % BlockEntries \in 0..(BlockEntries - 1) /\ q \div BlockEntries \in Nat
  BY <1>1, DivideAndRest
<1> DEFINE b == q \div BlockEntries
<1> DEFINE r == q % BlockEntries
<1> HIDE DEF b, r
<1>3. q = b * BlockEntries + r /\ r \in 0..(BlockEntries - 1) /\ b \in Nat
  BY <1>2 DEF b, r
<1>4. /\ b * BlockEntries + r < hi * BlockEntries <=> b < hi
      /\ b * BlockEntries + r < lo * BlockEntries <=> b < lo
  BY <1>1, <1>3, PlaceOrder
<1>5. lo * BlockEntries \in Nat /\ hi * BlockEntries \in Nat
  BY <1>1
<1>6. lo <= b /\ b < hi
  BY <1>3, <1>4, <1>5
<1> QED BY <1>2, <1>6 DEF b, r

LEMMA FatRegion ==
    ASSUME Progress, Make, Room', NEW k, k = made + 1, NEW c, c = Calls[k],
           NEW f, f = free_cluster, NEW s \in FatStores(c, f)
    PROVE  \E j \in 0..(Clusters(c) - 1) :
               /\ s.at = <<FatBlock(f + j), (f + j) % BlockFat>>
               /\ s.cell = NumberCell(NextOf(Clusters(c), j, f))
               /\ f + j \in Nat /\ f + j < PARTITION_SIZE + 2
               /\ FatBlock(f + j) \in Nat /\ (f + j) % BlockFat \in Nat
               /\ FAT_START <= FatBlock(f + j) /\ FatBlock(f + j) < ROOT_DIR_START
<1>1. /\ k \in 1..Len(Calls) /\ free_cluster' = f + Clusters(c) /\ Clusters(c) \in Nat
      /\ f \in Nat
  BY MakeStores, CallsAre DEF Progress
<1>2. PICK j \in 0..(Clusters(c) - 1) : s = FatEntry(f + j, NextOf(Clusters(c), j, f))
  <2>1. FatStores(c, f) = {FatEntry(f + j, NextOf(Clusters(c), j, f)) : j \in 0..(Clusters(c) - 1)}
    BY <1>1, FatStoresAre
  <2> QED BY <2>1
<1>3. /\ s.at = <<FatBlock(f + j), (f + j) % BlockFat>>
      /\ s.cell = NumberCell(NextOf(Clusters(c), j, f))
  BY <1>2 DEF FatEntry, At
<1>4. DATA_START + (f + Clusters(c)) - 2 <= PARTITION_START + PARTITION_SIZE
  BY <1>1 DEF Room, BufferForCluster
<1>5. f + j \in Nat /\ f + j < PARTITION_SIZE + 2
  BY <1>1, <1>4, PartsInOrder, GeometryAssumption, SMTT(20)
<1>6. /\ FatBlock(f + j) \in Nat /\ (f + j) % BlockFat \in Nat
      /\ FAT_START <= FatBlock(f + j) /\ FatBlock(f + j) < ROOT_DIR_START
  BY <1>5, FatPlaces
<1> QED BY <1>3, <1>5, <1>6

LEMMA EntryRegion ==
    ASSUME Progress, Extents, Places, Make, Room', NEW k, k = made + 1, NEW c, c = Calls[k],
           NEW f, f = free_cluster, NEW e, e = entries[c.dir]
    PROVE  /\ c.dir \in Dirs /\ e \in Nat /\ Len(NewOf(c, f)) \in Nat \ {0}
           /\ \A i \in 1..Len(NewOf(c, f)) :
               LET b == (e + i - 1) \div BlockEntries
                   r == (e + i - 1) % BlockEntries
               IN  /\ At(b, r, NewOf(c, f)[i]) \in EntryStores(c, f, e)
                   /\ b \in Nat /\ r \in 0..(BlockEntries - 1) /\ InDir(c.dir, b)
                   /\ b * BlockEntries + r = e + i - 1
           /\ \A s \in EntryStores(c, f, e) :
                 \E i \in 1..Len(NewOf(c, f)) :
                     s = At((e + i - 1) \div BlockEntries, (e + i - 1) % BlockEntries,
                            NewOf(c, f)[i])
           /\ \A i \in 1..Len(NewOf(c, f)) :
                 \/ i < Len(NewOf(c, f)) /\ NewOf(c, f)[i] = LongEntry(c)
                 \/ /\ i = Len(NewOf(c, f))
                    /\ NewOf(c, f)[i] = OwnEntry(c, f)
<1> DEFINE new == NewOf(c, f)
<1> DEFINE n == Len(new)
<1>1. /\ k \in 1..Len(Calls) /\ made' = k /\ c.dir \in 0..made /\ made \in Nat /\ k # c.dir
      /\ first' = Append(first, f)
      /\ entries' = [x \in 0..Len(Calls) |->
                 IF x = c.dir THEN e + n
                 ELSE IF x = k /\ c.op = "directory" THEN FirstPlace(f) + 2 ELSE entries[x]]
  <2>1. /\ k \in 1..Len(Calls) /\ made' = k /\ c.dir \in 0..made /\ k # c.dir
        /\ first' = Append(first, f)
        /\ entries' = [x \in 0..Len(Calls) |->
                   IF x = c.dir THEN e + n
                   ELSE IF x = k /\ c.op = "directory" THEN FirstPlace(f) + 2 ELSE entries[x]]
    BY MakeStores
  <2>2. made \in Nat
    BY CallsAre DEF Progress
  <2> QED BY <2>1, <2>2
<1>2. c.dir \in Dirs
  BY <1>1, CallsAre DEF Dirs
<1>3. Len(c.name) \in Nat
  <2>1. k \in DOMAIN Calls
    BY <1>1, CallsAre
  <2>2. c.name \in Seq(ToSet(c.name))
    BY <2>1, CallsAssumption
  <2> QED BY <2>2
<1>4. /\ n \in Nat \ {0} /\ DOMAIN new = 1..n
      /\ \A i \in 1..n :
             \/ i < n /\ new[i] = LongEntry(c)
             \/ /\ i = n
                /\ new[i] = OwnEntry(c, f)
  BY <1>3, NewEntriesAre DEF NewOf, LongEntry, OwnEntry
<1> HIDE DEF n, new
<1>5. /\ DirBlock(c.dir) \in Nat /\ DirSize(c.dir) \in Nat \ {0} /\ e \in Nat
      /\ DirBlock(c.dir) * BlockEntries <= e
  <2>1. e \in Nat
    BY <1>1 DEF Progress
  <2> QED BY <1>2, <2>1, DirRegion DEF Places
<1>6. e + n <= (DirBlock(c.dir) + DirSize(c.dir)) * BlockEntries
  <2>1. entries'[c.dir] = e + n
    BY <1>1 DEF Progress
  <2>2. CASE c.dir = 0
    BY <1>2, <2>1, <2>2, DirRegion DEF Room
  <2>3. CASE c.dir # 0
    <3>1. c.dir \in 1..made' /\ Calls[c.dir].op = "directory" /\ first'[c.dir] = first[c.dir]
      BY <1>1, <1>2, <2>3 DEF Dirs, Progress
    <3>2. entries'[c.dir] <= FirstPlace(first[c.dir] + Calls[c.dir].size)
      BY <3>1 DEF Room
    <3> QED BY <1>2, <2>1, <2>3, <3>2, DirRegion DEF FirstPlace
  <2> QED BY <2>2, <2>3
<1> DEFINE B(i) == (e + i - 1) \div BlockEntries
<1> DEFINE R(i) == (e + i - 1) % BlockEntries
<1>7. ASSUME NEW i \in 1..n
      PROVE  /\ B(i) \in Nat /\ R(i) \in 0..(BlockEntries - 1) /\ InDir(c.dir, B(i))
             /\ B(i) * BlockEntries + R(i) = e + i - 1
  <2>1. /\ e + i - 1 \in Nat /\ DirBlock(c.dir) * BlockEntries <= e + i - 1
        /\ e + i - 1 < (DirBlock(c.dir) + DirSize(c.dir)) * BlockEntries
        /\ DirBlock(c.dir) + DirSize(c.dir) \in Nat
    <3>1. /\ DirBlock(c.dir) * BlockEntries \in Int
          /\ (DirBlock(c.dir) + DirSize(c.dir)) * BlockEntries \in Int
      BY <1>5, SizesAre
    <3>2. /\ e \in Nat /\ i \in Nat /\ i >= 1 /\ i <= n /\ n \in Nat
          /\ DirBlock(c.dir) \in Nat /\ DirSize(c.dir) \in Nat
      BY <1>4, <1>5
    <3> DEFINE top == (DirBlock(c.dir) + DirSize(c.dir)) * BlockEntries
    <3> DEFINE low == DirBlock(c.dir) * BlockEntries
    <3>3. low \in Int /\ top \in Int /\ low <= e /\ e + n <= top
      BY <1>5, <1>6, <3>1
    <3> HIDE DEF low, top
    <3>4. e + i - 1 \in Nat /\ low <= e + i - 1 /\ e + i - 1 < top
      BY <3>2, <3>3
    <3> QED BY <3>2, <3>4 DEF low, top
  <2>2. /\ B(i) \in Nat /\ R(i) \in 0..(BlockEntries - 1)
        /\ e + i - 1 = B(i) * BlockEntries + R(i)
        /\ DirBlock(c.dir) <= B(i) /\ B(i) < DirBlock(c.dir) + DirSize(c.dir)
    <3> DEFINE q == e + i - 1
    <3> DEFINE lo == DirBlock(c.dir)
    <3> DEFINE hi == DirBlock(c.dir) + DirSize(c.dir)
    <3>1. q \in Nat /\ lo \in Nat /\ hi \in Nat /\ lo * BlockEntries <= q /\ q < hi * BlockEntries
      BY <1>5, <2>1
    <3> HIDE DEF q, lo, hi
    <3>2. /\ q \div BlockEntries \in Nat /\ q % BlockEntries \in 0..(BlockEntries - 1)
          /\ q = (q \div BlockEntries) * BlockEntries + (q % BlockEntries)
          /\ lo <= q \div BlockEntries /\ q \div BlockEntries < hi
      BY <3>1, PlaceWithin
    <3> QED BY <3>2 DEF q, lo, hi
  <2> QED BY <2>2 DEF InDir
<1>8. EntryStores(c, f, e) = {At(B(i), R(i), new[i]) : i \in 1..n}
  BY <1>4 DEF EntryStores, PutEntries, new
<1> HIDE DEF B, R
<1>9. /\ \A i \in 1..n : At(B(i), R(i), new[i]) \in EntryStores(c, f, e)
      /\ \A s \in EntryStores(c, f, e) : \E i \in 1..n : s = At(B(i), R(i), new[i])
  BY <1>8
<1>10. /\ c.dir \in Dirs /\ e \in Nat /\ n \in Nat \ {0}
  BY <1>2, <1>4, <1>5
<1> QED BY <1>4, <1>7, <1>9, <1>10, SMTT(30) DEF new, n, B, R

LEMMA OwnRegion ==
    ASSUME Progress, Make, Room', NEW k, k = made + 1, NEW c, c = Calls[k],
           NEW f, f = free_cluster, NEW s \in OwnStores(c, f)
    PROVE  /\ s.at[1] \in Nat /\ s.at[2] \in Nat
           /\ BufferForCluster(f) <= s.at[1] /\ s.at[1] < BufferForCluster(f + Clusters(c))
           /\ c.op = "file" =>
                 \E j \in 0..(Clusters(c) - 1), i \in 0..(BlockChars - 1) :
                     s = At(BufferForCluster(f + j), i, CharCell(CharOf(c.content, j * BlockChars + i + 1)))
           /\ c.op = "directory" => "name" \in DOMAIN s.cell /\ s.cell.name \in {DotName, DotsName}
                                    /\ "number" \notin DOMAIN s.cell
<1>1. /\ k \in 1..Len(Calls) /\ made' = k /\ k # c.dir /\ c.dir \in 0..made /\ made \in Nat
      /\ first' = Append(first, f) /\ first'[k] = f
      /\ entries' = [x \in 0..Len(Calls) |->
                 IF x = c.dir THEN entries[c.dir] + Len(NewOf(c, f))
                 ELSE IF x = k /\ c.op = "directory" THEN FirstPlace(f) + 2 ELSE entries[x]]
      /\ f \in Nat /\ f >= 2 /\ Clusters(c) \in Nat
  BY MakeStores, CallsAre DEF Progress
<1>2. CASE c.op = "file"
  <2>1. c.op # "directory" /\ Clusters(c) = ClustersFor(c.length)
    BY <1>1, <1>2, CallsAre DEF ClustersFor
  <2>2. s \in FileText(f, c.content, c.length)
    BY <1>2 DEF OwnStores
  <2>3. PICK j \in 0..(Clusters(c) - 1), i \in 0..(BlockChars - 1) :
            s = At(BufferForCluster(f + j), i, CharCell(CharOf(c.content, j * BlockChars + i + 1)))
    BY <2>1, <2>2 DEF FileText, WriteBlock
  <2>4. s.at[1] = BufferForCluster(f + j) /\ s.at[2] = i
    BY <2>3 DEF At
  <2>5. /\ BufferForCluster(f + j) \in Nat /\ BufferForCluster(f) <= BufferForCluster(f + j)
        /\ BufferForCluster(f + j) < BufferForCluster(f + Clusters(c)) /\ i \in Nat
    <3>1. j \in Nat /\ j < Clusters(c) /\ i \in Nat
      BY <1>1, SizesAre
    <3>2. /\ f + j \in Nat /\ f + j >= 2 /\ f <= f + j /\ f + Clusters(c) \in Nat
          /\ f + j < f + Clusters(c)
      BY <1>1, <3>1
    <3> QED BY <1>1, <3>1, <3>2, Buffers
  <2> QED BY <2>1, <2>3, <2>4, <2>5
<1>3. CASE c.op # "file"
  <2>1. c.op = "directory" /\ Clusters(c) = c.size /\ c.size \in Nat \ {0}
    BY <1>1, <1>3, CallsAre
  <2>2. FirstPlace(f) + 2 <= FirstPlace(f + c.size)
    <3>1. entries'[k] = FirstPlace(f) + 2
      BY <1>1, <2>1
    <3>2. entries'[k] <= FirstPlace(first'[k] + Calls[k].size)
      <4>1. k \in 1..made' /\ Calls[k].op = "directory"
        BY <1>1, <2>1, CallsAre
      <4> QED BY <4>1 DEF Room
    <3> QED BY <1>1, <3>1, <3>2
  <2>3. PICK i \in 1..2 :
            s = At((FirstPlace(f) + i - 1) \div BlockEntries, (FirstPlace(f) + i - 1) % BlockEntries,
                   Dots(f, c.parent)[i])
    BY <1>3 DEF OwnStores, PutEntries, Dots
  <2>4. /\ BufferForCluster(f) \in Nat /\ BufferForCluster(f + c.size) \in Nat
        /\ FirstPlace(f) \in Nat /\ FirstPlace(f + c.size) \in Nat
    <3>1. BufferForCluster(f) \in Nat /\ BufferForCluster(f + c.size) \in Nat
      <4>1. f \in Nat /\ f >= 2 /\ f + c.size \in Nat /\ f + c.size >= 2
        BY <1>1, <2>1
      <4> QED BY <4>1, Buffers
    <3>2. \A x \in Nat : x * BlockEntries \in Nat
      BY SizesAre
    <3> QED BY <3>1, <3>2 DEF FirstPlace
  <2>5. /\ FirstPlace(f) + i - 1 \in Nat /\ BufferForCluster(f) * BlockEntries <= FirstPlace(f) + i - 1
        /\ FirstPlace(f) + i - 1 < BufferForCluster(f + c.size) * BlockEntries
    BY <2>2, <2>4 DEF FirstPlace
  <2>6. /\ (FirstPlace(f) + i - 1) \div BlockEntries \in Nat
        /\ (FirstPlace(f) + i - 1) % BlockEntries \in 0..(BlockEntries - 1)
        /\ BufferForCluster(f) <= (FirstPlace(f) + i - 1) \div BlockEntries
        /\ (FirstPlace(f) + i - 1) \div BlockEntries < BufferForCluster(f + c.size)
    BY <2>4, <2>5, PlaceWithin
  <2>7. s.cell = Dots(f, c.parent)[i]
    BY <2>3 DEF At
  <2>8. /\ "name" \in DOMAIN s.cell /\ s.cell.name \in {DotName, DotsName}
        /\ "number" \notin DOMAIN s.cell
    BY <2>7 DEF Dots, EntryCell
  <2>9. /\ s.at[1] = (FirstPlace(f) + i - 1) \div BlockEntries
        /\ s.at[2] = (FirstPlace(f) + i - 1) % BlockEntries
    BY <2>3 DEF At
  <2>10. (FirstPlace(f) + i - 1) % BlockEntries \in Nat
    BY <2>6, SizesAre
  <2> QED BY <1>3, <2>1, <2>6, <2>8, <2>9, <2>10
<1> QED BY <1>2, <1>3

-----------------------------------------------------------------------------
\* What a call leaves as it was, and what is there afterwards.

LEMMA MakeImage ==
    ASSUME Progress, Extents, Places, Make, Room', NEW k, k = made + 1, NEW c, c = Calls[k],
           NEW f, f = free_cluster, NEW e, e = entries[c.dir]
    PROVE  \A p \in DOMAIN image' :
             \/ \E j \in 0..(Clusters(c) - 1) :
                    /\ p = <<FatBlock(f + j), (f + j) % BlockFat>> /\ f + j \in Nat
                    /\ image'[p] = NumberCell(NextOf(Clusters(c), j, f))
                    /\ FAT_START <= p[1] /\ p[1] < ROOT_DIR_START /\ p[1] \in Nat
             \/ \E i \in 1..Len(NewOf(c, f)) :
                    /\ p[1] \in Nat /\ InDir(c.dir, p[1]) /\ p[1] * BlockEntries + p[2] = e + i - 1
                    /\ p[2] \in 0..(BlockEntries - 1) /\ image'[p] = NewOf(c, f)[i]
             \/ /\ p[1] \in Nat /\ BufferForCluster(f) <= p[1]
                /\ p[1] < BufferForCluster(f + Clusters(c))
                /\ c.op = "file" =>
                      \E j \in 0..(Clusters(c) - 1), i \in 0..(BlockChars - 1) :
                          /\ p = <<BufferForCluster(f + j), i>>
                          /\ image'[p] = CharCell(CharOf(c.content, j * BlockChars + i + 1))
                /\ c.op = "directory" =>
                      "name" \in DOMAIN image'[p] /\ image'[p].name \in {DotName, DotsName}
                      /\ "number" \notin DOMAIN image'[p]
             \/ /\ p \in DOMAIN image /\ image'[p] = image[p]
                /\ Missed(FatStores(c, f), p) /\ Missed(EntryStores(c, f, e), p)
                /\ Missed(OwnStores(c, f), p)
<1> TAKE p \in DOMAIN image'
<1>1. \/ Placed(FatStores(c, f), p, image'[p])
      \/ Placed(EntryStores(c, f, e), p, image'[p])
      \/ Placed(OwnStores(c, f), p, image'[p])
      \/ /\ p \in DOMAIN image /\ image'[p] = image[p]
         /\ Missed(FatStores(c, f), p) /\ Missed(EntryStores(c, f, e), p)
         /\ Missed(OwnStores(c, f), p)
  BY MakeStores
<1>2. CASE Placed(FatStores(c, f), p, image'[p])
  <2>1. PICK s \in FatStores(c, f) : s.at = p /\ s.cell = image'[p]
    BY <1>2 DEF Placed
  <2>2. PICK j \in 0..(Clusters(c) - 1) :
               /\ s.at = <<FatBlock(f + j), (f + j) % BlockFat>>
               /\ s.cell = NumberCell(NextOf(Clusters(c), j, f))
               /\ f + j \in Nat /\ FatBlock(f + j) \in Nat
               /\ FAT_START <= FatBlock(f + j) /\ FatBlock(f + j) < ROOT_DIR_START
    BY FatRegion, Zenon
  <2> QED BY <2>1, <2>2
<1>3. CASE Placed(EntryStores(c, f, e), p, image'[p])
  <2>1. PICK s \in EntryStores(c, f, e) : s.at = p /\ s.cell = image'[p]
    BY <1>3 DEF Placed
  <2>2. PICK i \in 1..Len(NewOf(c, f)) :
          s = At((e + i - 1) \div BlockEntries, (e + i - 1) % BlockEntries, NewOf(c, f)[i])
    BY EntryRegion
  <2>3. /\ (e + i - 1) \div BlockEntries \in Nat
        /\ (e + i - 1) % BlockEntries \in 0..(BlockEntries - 1)
        /\ InDir(c.dir, (e + i - 1) \div BlockEntries)
        /\ ((e + i - 1) \div BlockEntries) * BlockEntries + ((e + i - 1) % BlockEntries) = e + i - 1
    BY EntryRegion
  <2>4. /\ p[1] = (e + i - 1) \div BlockEntries /\ p[2] = (e + i - 1) % BlockEntries
        /\ image'[p] = NewOf(c, f)[i]
    BY <2>1, <2>2 DEF At
  <2>5. p[1] \in Nat /\ InDir(c.dir, p[1]) /\ p[1] * BlockEntries + p[2] = e + i - 1
        /\ p[2] \in 0..(BlockEntries - 1)
    BY <2>3, <2>4, Zenon
  <2> QED BY <2>4, <2>5
<1>4. CASE Placed(OwnStores(c, f), p, image'[p])
  <2>1. PICK s \in OwnStores(c, f) : s.at = p /\ s.cell = image'[p]
    BY <1>4 DEF Placed
  <2>2. /\ s.at[1] \in Nat
        /\ BufferForCluster(f) <= s.at[1] /\ s.at[1] < BufferForCluster(f + Clusters(c))
        /\ c.op = "file" =>
                 \E j \in 0..(Clusters(c) - 1), i \in 0..(BlockChars - 1) :
                     s = At(BufferForCluster(f + j), i, CharCell(CharOf(c.content, j * BlockChars + i + 1)))
        /\ c.op = "directory" => "name" \in DOMAIN s.cell /\ s.cell.name \in {DotName, DotsName}
                                 /\ "number" \notin DOMAIN s.cell
    BY OwnRegion
  <2>3. c.op = "file" =>
           \E j \in 0..(Clusters(c) - 1), i \in 0..(BlockChars - 1) :
               /\ p = <<BufferForCluster(f + j), i>>
               /\ image'[p] = CharCell(CharOf(c.content, j * BlockChars + i + 1))
    BY <2>1, <2>2 DEF At
  <2> QED BY <2>1, <2>2, <2>3
<1> QED BY <1>1, <1>2, <1>3, <1>4

LEMMA MakeKeeps ==
    ASSUME Progress, Extents, Places, Make, Room', NEW k, k = made + 1, NEW c, c = Calls[k],
           NEW f, f = free_cluster, NEW e, e = entries[c.dir], NEW b, b \in Int, NEW i,
           NEW p, p = <<b, i>>,
           \/ b < FAT_START
           \/ \E x \in Nat : x < f /\ b = FatBlock(x) /\ i = x % BlockFat
           \/ ROOT_DIR_START <= b /\ b < BufferForCluster(f) /\ ~InDir(c.dir, b)
           \/ InDir(c.dir, b) /\ i \in 0..(BlockEntries - 1) /\ b * BlockEntries + i < e
    PROVE  /\ p \in DOMAIN image <=> p \in DOMAIN image'
           /\ p \in DOMAIN image => image'[p] = image[p]
<1>1. /\ k \in 1..Len(Calls) /\ f \in Nat /\ f >= 2 /\ Clusters(c) \in Nat
      /\ free_cluster' = f + Clusters(c)
      /\ \A q \in DOMAIN image : q \in DOMAIN image'
  BY MakeStores, CallsAre DEF Progress
<1>2. c.dir \in Dirs /\ e \in Nat
  BY EntryRegion
<1>3. /\ DirBlock(c.dir) \in Nat /\ DirSize(c.dir) \in Nat \ {0}
      /\ DirBlock(c.dir) >= ROOT_DIR_START
      /\ DirBlock(c.dir) + DirSize(c.dir) <= BufferForCluster(f)
  BY <1>2, DirRegion
<1>4. f <= PARTITION_SIZE + 2
  <2>1. DATA_START + (f + Clusters(c)) - 2 <= PARTITION_START + PARTITION_SIZE
    BY <1>1 DEF Room, BufferForCluster
  <2> QED BY <1>1, <2>1, PartsInOrder, GeometryAssumption, SMTT(20)
<1>5. BufferForCluster(f) \in Nat /\ BufferForCluster(f) >= DATA_START
  BY <1>1, Buffers
<1>6. /\ FAT_START \in Nat /\ ROOT_DIR_START \in Nat /\ FAT_START <= ROOT_DIR_START
      /\ ROOT_DIR_START < DATA_START /\ DATA_START \in Nat
  BY PartsInOrder, GeometryAssumption
<1>7. SUFFICES ASSUME p \in DOMAIN image' PROVE p \in DOMAIN image /\ image'[p] = image[p]
  BY <1>1
<1>8. p[1] = b /\ p[2] = i
  OBVIOUS
<1>9. \A x \in Nat : x < f => FatBlock(x) < ROOT_DIR_START /\ FAT_START <= FatBlock(x)
  <2> TAKE x \in Nat
  <2>1. PARTITION_SIZE \in Nat
    BY GeometryAssumption
  <2>2. x < f => x < PARTITION_SIZE + 2
    BY <1>1, <1>4, <2>1
  <2> QED BY <2>2, FatPlaces
<1>10. ASSUME NEW j \in 0..(Clusters(c) - 1), p = <<FatBlock(f + j), (f + j) % BlockFat>>,
              f + j \in Nat, FAT_START <= b, b < ROOT_DIR_START
       PROVE  FALSE
  <2>1. ~(b < FAT_START) /\ ~(ROOT_DIR_START <= b) /\ ~InDir(c.dir, b)
    BY <1>3, <1>6, <1>10 DEF InDir
  <2>2. PICK x \in Nat : x < f /\ b = FatBlock(x) /\ i = x % BlockFat
    BY <2>1
  <2>3. x = f + j
    BY <1>10, <2>2, FatPlaces
  <2>4. j \in Nat
    BY <1>1
  <2> QED BY <1>1, <2>2, <2>3, <2>4
<1>11. ASSUME NEW q \in 1..Len(NewOf(c, f)), InDir(c.dir, b), b * BlockEntries + i = e + q - 1,
              i \in 0..(BlockEntries - 1)
       PROVE  FALSE
  <2>1. ROOT_DIR_START <= b
    BY <1>3, <1>6, <1>11 DEF InDir
  <2>2. ~(b < FAT_START) /\ \A x \in Nat : ~(x < f /\ b = FatBlock(x))
    BY <1>6, <1>9, <2>1
  <2>3. b * BlockEntries + i < e
    BY <1>11, <2>2
  <2>4. q \in Nat /\ q >= 1
    BY EntryRegion
  <2> QED BY <1>2, <1>11, <2>3, <2>4
<1>12. ASSUME BufferForCluster(f) <= b PROVE FALSE
  <2>1. ~InDir(c.dir, b)
    BY <1>3, <1>5, <1>12 DEF InDir
  <2>2. ~(b < FAT_START) /\ \A x \in Nat : ~(x < f /\ b = FatBlock(x))
    BY <1>5, <1>6, <1>9, <1>12
  <2> QED BY <1>5, <1>12, <2>1, <2>2
<1>13. \/ \E j \in 0..(Clusters(c) - 1) :
                    /\ p = <<FatBlock(f + j), (f + j) % BlockFat>> /\ f + j \in Nat
                    /\ FAT_START <= p[1] /\ p[1] < ROOT_DIR_START
       \/ \E q \in 1..Len(NewOf(c, f)) :
                    /\ InDir(c.dir, p[1]) /\ p[1] * BlockEntries + p[2] = e + q - 1
                    /\ p[2] \in 0..(BlockEntries - 1)
       \/ BufferForCluster(f) <= p[1]
       \/ p \in DOMAIN image /\ image'[p] = image[p]
  BY <1>7, MakeImage
<1> QED BY <1>8, <1>10, <1>11, <1>12, <1>13, Zenon

LEMMA MakePuts ==
    ASSUME Progress, Extents, Places, Make, Room', NEW k, k = made + 1, NEW c, c = Calls[k],
           NEW f, f = free_cluster, NEW e, e = entries[c.dir]
    PROVE  /\ \A j \in 0..(Clusters(c) - 1) :
                 /\ <<FatBlock(f + j), (f + j) % BlockFat>> \in DOMAIN image'
                 /\ image'[<<FatBlock(f + j), (f + j) % BlockFat>>] = NumberCell(NextOf(Clusters(c), j, f))
           /\ \E b \in Nat, i \in 0..(BlockEntries - 1) :
                 /\ InDir(c.dir, b) /\ b * BlockEntries + i = e + Len(NewOf(c, f)) - 1
                 /\ <<b, i>> \in DOMAIN image'
                 /\ image'[<<b, i>>] = OwnEntry(c, f)
           /\ c.op = "file" => \A j \in 0..(Clusters(c) - 1), i \in 0..(BlockChars - 1) :
                 /\ <<BufferForCluster(f + j), i>> \in DOMAIN image'
                 /\ image'[<<BufferForCluster(f + j), i>>]
                        = CharCell(CharOf(c.content, j * BlockChars + i + 1))
<1>1. /\ k \in 1..Len(Calls) /\ f \in Nat /\ f >= 2 /\ Clusters(c) \in Nat
      /\ free_cluster' = f + Clusters(c)
      /\ \A s \in FatStores(c, f) \cup EntryStores(c, f, e) \cup OwnStores(c, f) :
             s.at \in DOMAIN image'
  BY MakeStores, CallsAre DEF Progress
<1>2. c.dir \in Dirs /\ e \in Nat /\ Len(NewOf(c, f)) \in Nat \ {0}
  BY EntryRegion
<1>3. /\ DirBlock(c.dir) \in Nat /\ DirSize(c.dir) \in Nat \ {0}
      /\ DirBlock(c.dir) >= ROOT_DIR_START
      /\ DirBlock(c.dir) + DirSize(c.dir) <= BufferForCluster(f)
  BY <1>2, DirRegion
<1>4. BufferForCluster(f) \in Nat /\ BufferForCluster(f) >= DATA_START
  BY <1>1, Buffers
<1>5. ROOT_DIR_START \in Nat /\ ROOT_DIR_START < DATA_START /\ DATA_START \in Nat
  BY PartsInOrder, GeometryAssumption
<1>6. ASSUME NEW b, InDir(c.dir, b)
      PROVE  ROOT_DIR_START <= b /\ b < BufferForCluster(f) /\ b \in Int
  BY <1>3, <1>4, <1>5, <1>6 DEF InDir
<1>7. ASSUME NEW j \in 0..(Clusters(c) - 1)
      PROVE  /\ <<FatBlock(f + j), (f + j) % BlockFat>> \in DOMAIN image'
             /\ image'[<<FatBlock(f + j), (f + j) % BlockFat>>] = NumberCell(NextOf(Clusters(c), j, f))
  <2> DEFINE p == <<FatBlock(f + j), (f + j) % BlockFat>>
  <2>1. PICK s \in FatStores(c, f) : s = FatEntry(f + j, NextOf(Clusters(c), j, f))
    <3>1. FatStores(c, f) = {FatEntry(f + x, NextOf(Clusters(c), x, f)) : x \in 0..(Clusters(c) - 1)}
      BY <1>1, FatStoresAre, SMTT(20)
    <3> QED BY <3>1
  <2>2. s.at = p
    BY <2>1 DEF FatEntry, At
  <2>3. p \in DOMAIN image' /\ ~Missed(FatStores(c, f), p)
    BY <1>1, <2>2 DEF Missed
  <2>4. FatBlock(f + j) < ROOT_DIR_START /\ p[1] = FatBlock(f + j) /\ FatBlock(f + j) \in Nat
        /\ f + j \in Nat
    <3>1. \E x \in 0..(Clusters(c) - 1) :
               /\ s.at = <<FatBlock(f + x), (f + x) % BlockFat>>
               /\ FatBlock(f + x) \in Nat /\ FatBlock(f + x) < ROOT_DIR_START
      BY FatRegion
    <3> QED BY <1>1, <2>2, <3>1
  <2>5. ~InDir(c.dir, p[1]) /\ ~(BufferForCluster(f) <= p[1])
    BY <1>4, <1>5, <1>6, <2>4
  <2>6. PICK x \in 0..(Clusters(c) - 1) :
          /\ p = <<FatBlock(f + x), (f + x) % BlockFat>> /\ f + x \in Nat
          /\ image'[p] = NumberCell(NextOf(Clusters(c), x, f))
    <3> HIDE DEF p
    <3> QED BY <2>3, <2>5, MakeImage
  <2>7. f + x = f + j
    BY <2>4, <2>6, FatPlaces
  <2>8. x = j
    BY <1>1, <2>7
  <2> QED BY <2>3, <2>6, <2>8
<1>8. ASSUME NEW x \in 1..Len(NewOf(c, f))
       PROVE  /\ At((e + x - 1) \div BlockEntries, (e + x - 1) % BlockEntries, NewOf(c, f)[x])
                      \in EntryStores(c, f, e)
              /\ (e + x - 1) \div BlockEntries \in Nat
              /\ (e + x - 1) % BlockEntries \in 0..(BlockEntries - 1)
              /\ InDir(c.dir, (e + x - 1) \div BlockEntries)
              /\ ((e + x - 1) \div BlockEntries) * BlockEntries + ((e + x - 1) % BlockEntries) = e + x - 1
  <2>1. /\ (e + x - 1) \div BlockEntries \in Nat
        /\ (e + x - 1) % BlockEntries \in 0..(BlockEntries - 1)
        /\ InDir(c.dir, (e + x - 1) \div BlockEntries)
    BY EntryRegion, SMTT(20)
  <2>2. ((e + x - 1) \div BlockEntries) * BlockEntries + ((e + x - 1) % BlockEntries) = e + x - 1
    BY EntryRegion
  <2>3. At((e + x - 1) \div BlockEntries, (e + x - 1) % BlockEntries, NewOf(c, f)[x])
                      \in EntryStores(c, f, e)
    BY EntryRegion
  <2> QED BY <2>1, <2>2, <2>3
<1>9. \E b \in Nat, i \in 0..(BlockEntries - 1) :
                 /\ InDir(c.dir, b) /\ b * BlockEntries + i = e + Len(NewOf(c, f)) - 1
                 /\ <<b, i>> \in DOMAIN image'
                 /\ image'[<<b, i>>] = OwnEntry(c, f)
  <2> DEFINE n == Len(NewOf(c, f))
  <2> HIDE DEF n
  <2>1. n \in 1..n /\ n \in Nat \ {0}
    BY <1>2 DEF n
  <2>2. PICK b, i : b = (e + n - 1) \div BlockEntries /\ i = (e + n - 1) % BlockEntries
    OBVIOUS
  <2>3. /\ At(b, i, NewOf(c, f)[n]) \in EntryStores(c, f, e)
        /\ b \in Nat /\ i \in 0..(BlockEntries - 1) /\ InDir(c.dir, b)
        /\ b * BlockEntries + i = e + n - 1
        /\ \A x \in 1..n :
                 \/ x < n /\ NewOf(c, f)[x] = LongEntry(c)
                 \/ /\ x = n
                    /\ NewOf(c, f)[x] = OwnEntry(c, f)
    <3>1. /\ At((e + n - 1) \div BlockEntries, (e + n - 1) % BlockEntries, NewOf(c, f)[n])
                 \in EntryStores(c, f, e)
          /\ (e + n - 1) \div BlockEntries \in Nat
          /\ (e + n - 1) % BlockEntries \in 0..(BlockEntries - 1)
          /\ InDir(c.dir, (e + n - 1) \div BlockEntries)
          /\ ((e + n - 1) \div BlockEntries) * BlockEntries + ((e + n - 1) % BlockEntries) = e + n - 1
      BY <1>8, <2>1 DEF n
    <3>2. \A x \in 1..n :
                 \/ x < n /\ NewOf(c, f)[x] = LongEntry(c)
                 \/ /\ x = n
                    /\ NewOf(c, f)[x] = OwnEntry(c, f)
      BY EntryRegion DEF n
    <3> QED BY <2>2, <3>1, <3>2, Zenon
  <2>4. NewOf(c, f)[n] = OwnEntry(c, f)
    BY <2>1, <2>3
  <2> DEFINE p == <<b, i>>
  <2>5. p \in DOMAIN image' /\ ~Missed(EntryStores(c, f, e), p)
    <3>1. PICK s \in EntryStores(c, f, e) : s = At(b, i, NewOf(c, f)[n])
      BY <2>3
    <3>2. s.at = p
      BY <3>1 DEF At
    <3> QED BY <1>1, <3>2 DEF Missed
  <2>6. p[1] = b /\ p[2] = i /\ ROOT_DIR_START <= b /\ b < BufferForCluster(f)
    BY <1>6, <2>3
  <2>7. PICK x \in 1..n : p[1] * BlockEntries + p[2] = e + x - 1 /\ image'[p] = NewOf(c, f)[x]
    <3>1. ~(p[1] < ROOT_DIR_START) /\ ~(BufferForCluster(f) <= p[1])
      BY <1>4, <1>5, <2>3, <2>6
    <3> HIDE DEF p
    <3> QED BY <2>5, <3>1, MakeImage DEF n
  <2>8. x = n
    BY <1>2, <2>1, <2>3, <2>6, <2>7
  <2>9. image'[p] = OwnEntry(c, f)
    BY <2>4, <2>7, <2>8
  <2>10. /\ InDir(c.dir, b) /\ b * BlockEntries + i = e + Len(NewOf(c, f)) - 1
         /\ <<b, i>> \in DOMAIN image' /\ image'[<<b, i>>] = OwnEntry(c, f)
    BY <2>3, <2>5, <2>9 DEF n
  <2> QED BY <2>3, <2>10
<1>10. ASSUME c.op = "file", NEW j \in 0..(Clusters(c) - 1), NEW i \in 0..(BlockChars - 1)
      PROVE  /\ <<BufferForCluster(f + j), i>> \in DOMAIN image'
             /\ image'[<<BufferForCluster(f + j), i>>]
                    = CharCell(CharOf(c.content, j * BlockChars + i + 1))
  <2> DEFINE p == <<BufferForCluster(f + j), i>>
  <2> DEFINE s == At(BufferForCluster(f + j), i, CharCell(CharOf(c.content, j * BlockChars + i + 1)))
  <2>1. s \in OwnStores(c, f)
    <3>1. Clusters(c) = ClustersFor(c.length)
      BY <1>10 DEF Clusters
    <3> QED BY <1>10, <3>1 DEF OwnStores, FileText, WriteBlock
  <2>2. p \in DOMAIN image' /\ ~Missed(OwnStores(c, f), p)
    BY <1>1, <2>1 DEF Missed, At
  <2>3. /\ p[1] = BufferForCluster(f + j) /\ p[1] \in Int /\ BufferForCluster(f) <= p[1]
        /\ f + j \in Nat /\ j \in Nat
    <3>1. f + j \in Nat /\ f <= f + j /\ j \in Nat
      BY <1>1
    <3> QED BY <1>1, <3>1, Buffers
  <2>4. ~InDir(c.dir, p[1]) /\ ~(p[1] < ROOT_DIR_START)
    BY <1>4, <1>5, <1>6, <2>3
  <2>5. PICK x \in 0..(Clusters(c) - 1), y \in 0..(BlockChars - 1) :
            /\ p = <<BufferForCluster(f + x), y>>
            /\ image'[p] = CharCell(CharOf(c.content, x * BlockChars + y + 1))
    <3> HIDE DEF p
    <3> QED BY <1>10, <2>2, <2>4, MakeImage
  <2>6. x = j /\ y = i
    <3>1. x \in Nat /\ f + x \in Nat
      BY <1>1
    <3>2. BufferForCluster(f + x) = BufferForCluster(f + j) /\ y = i
      BY <2>5
    <3>3. BufferForCluster(f + x) = BufferForCluster(f) + x
          /\ BufferForCluster(f + j) = BufferForCluster(f) + j
      BY <1>1, <2>3, <3>1, Buffers
    <3>4. BufferForCluster(f) \in Nat
      BY <1>4
    <3> QED BY <2>3, <3>1, <3>2, <3>3, <3>4
  <2> QED BY <2>2, <2>5, <2>6
<1> QED BY <1>7, <1>9, <1>10

\* Each part of the invariant after a call.

LEMMA MakeExtended ==
    ASSUME Extended, Make, Room' PROVE Extended'
<1> DEFINE k == made + 1
<1> DEFINE c == Calls[k]
<1> DEFINE f == free_cluster
<1> DEFINE e == entries[c.dir]
<1>1. /\ k \in 1..Len(Calls) /\ k # c.dir /\ c.dir \in 0..made
      /\ made' = k /\ first' = Append(first, f) /\ free_cluster' = f + Clusters(c)
      /\ entries' = [x \in 0..Len(Calls) |->
                 IF x = c.dir THEN e + Len(NewOf(c, f))
                 ELSE IF x = k /\ c.op = "directory" THEN FirstPlace(f) + 2 ELSE entries[x]]
  BY MakeStores DEF Extended
<1>2. /\ f \in Nat /\ f >= 2 /\ Clusters(c) \in Nat /\ made \in Nat /\ Len(Calls) \in Nat
      /\ first \in Seq(Nat) /\ Len(first) = made /\ entries \in [0..Len(Calls) -> Nat]
  BY <1>1, CallsAre DEF Extended, Progress
<1>3. c.dir \in Dirs /\ e \in Nat /\ Len(NewOf(c, f)) \in Nat \ {0}
  BY EntryRegion DEF Extended
<1> HIDE DEF c, f, e
<1>4. BufferForCluster(f) \in Nat /\ FirstPlace(f) \in Nat
  <2>1. BufferForCluster(f) \in Nat
    BY <1>2, Buffers
  <2>2. \A x \in Nat : x * BlockEntries \in Nat
    BY SizesAre
  <2> QED BY <2>1, <2>2 DEF FirstPlace
<1>5. Progress'
  <2>1. entries' \in [0..Len(Calls) -> Nat]
    <3>1. e + Len(NewOf(c, f)) \in Nat /\ FirstPlace(f) + 2 \in Nat
      BY <1>3, <1>4
    <3>2. \A x \in 0..Len(Calls) : entries[x] \in Nat
      BY <1>2
    <3> QED BY <1>1, <3>1, <3>2
  <2>2. first' \in Seq(Nat) /\ Len(first') = k
    BY <1>1, <1>2, AppendProperties
  <2> QED BY <1>1, <1>2, <2>1, <2>2 DEF Progress
<1>6. /\ \A j \in 1..made : first'[j] = first[j]
      /\ first'[k] = f
  BY <1>1, <1>2, AppendProperties
<1>7. Extents'
  <2>1. ASSUME NEW m \in 1..made
        PROVE  /\ first'[m] >= 2 /\ first'[m] + Clusters(Calls[m]) <= f + Clusters(c)
               /\ first'[m] + Clusters(Calls[m]) <= f /\ first'[m] \in Nat
               /\ \A j \in 1..(m - 1) : first'[j] + Clusters(Calls[j]) <= first'[m]
    <3>1. /\ first[m] >= 2 /\ first[m] + Clusters(Calls[m]) <= f
          /\ \A j \in 1..(m - 1) : first[j] + Clusters(Calls[j]) <= first[m]
      BY <2>1 DEF Extended, Extents, f
    <3>2. m \in 1..Len(Calls) /\ Clusters(Calls[m]) \in Nat /\ first[m] \in Nat
      <4>1. m \in 1..Len(Calls)
        BY <1>1, <1>2
      <4>2. Clusters(Calls[m]) \in Nat
        BY <4>1, CallsAre
      <4> QED BY <1>2, <4>1, <4>2
    <3>3. \A j \in 1..(m - 1) : first'[j] = first[j]
      BY <1>2, <1>6
    <3> QED BY <1>2, <1>6, <3>1, <3>2, <3>3
  <2>2. ASSUME NEW m \in 1..k
        PROVE  /\ first'[m] >= 2 /\ first'[m] + Clusters(Calls[m]) <= free_cluster'
               /\ \A j \in 1..(m - 1) : first'[j] + Clusters(Calls[j]) <= first'[m]
    <3>1. CASE m = k
      <4>1. \A j \in 1..(m - 1) : j \in 1..made
        BY <1>2, <3>1
      <4>2. Calls[m] = c
        BY <3>1 DEF c
      <4> QED BY <1>1, <1>2, <1>6, <2>1, <3>1, <4>1, <4>2
    <3>2. CASE m # k
      <4>1. m \in 1..made
        BY <1>2, <3>2
      <4> QED BY <1>1, <2>1, <4>1
    <3> QED BY <3>1, <3>2
  <2> QED BY <1>1, <2>2 DEF Extents
<1>8. Places'
  <2>1. ASSUME NEW d \in Dirs' PROVE entries'[d] >= DirBlock(d)' * BlockEntries
    <3>1. d \in 0..k /\ d \in 0..Len(Calls) /\ (d # 0 => Calls[d].op = "directory")
      BY <1>1, <1>2, <2>1 DEF Dirs
    <3>2. CASE d = k
      <4>1. DirBlock(d)' = BufferForCluster(f)
        BY <1>1, <1>6, <3>2 DEF DirBlock
      <4>2. entries'[d] = FirstPlace(f) + 2
        BY <1>1, <3>1, <3>2 DEF c
      <4> QED BY <1>4, <4>1, <4>2 DEF FirstPlace
    <3>3. CASE d # k
      <4>1. d \in Dirs
        BY <1>1, <1>2, <3>1, <3>3 DEF Dirs
      <4>2. DirBlock(d)' = DirBlock(d)
        BY <1>1, <1>2, <1>6, <3>1, <3>3 DEF DirBlock
      <4>3. entries[d] >= DirBlock(d) * BlockEntries
        BY <4>1 DEF Extended, Places
      <4>4. DirBlock(d) \in Nat
        BY <4>1, DirRegion DEF Extended
      <4>5. entries'[d] = entries[d] \/ (d = c.dir /\ entries'[d] = e + Len(NewOf(c, f)))
        BY <1>1, <3>1, <3>3
      <4>6. entries[d] \in Nat /\ DirBlock(d) * BlockEntries \in Int
        BY <1>2, <3>1, <4>4, SizesAre
      <4> QED BY <1>3, <4>2, <4>3, <4>5, <4>6 DEF e
    <3> QED BY <3>2, <3>3
  <2> QED BY <2>1 DEF Places
<1>9. Fresh'
  <2>1. BufferForCluster(f) \in Nat /\ BufferForCluster(free_cluster') \in Nat
        /\ BufferForCluster(f) <= BufferForCluster(free_cluster') /\ DATA_START <= BufferForCluster(f)
    <3>1. free_cluster' \in Nat /\ f <= free_cluster' /\ free_cluster' >= 2
      BY <1>1, <1>2
    <3> QED BY <1>2, <3>1, Buffers
  <2>2. ROOT_DIR_START \in Nat /\ DATA_START \in Nat /\ ROOT_DIR_START < DATA_START
    BY PartsInOrder, GeometryAssumption
  <2>3. /\ DirBlock(c.dir) \in Nat /\ DirSize(c.dir) \in Nat
        /\ DirBlock(c.dir) + DirSize(c.dir) <= BufferForCluster(f)
    BY <1>3, DirRegion DEF Extended, f
  <2>4. ASSUME NEW p \in DOMAIN image'
        PROVE  /\ p[1] \in Nat /\ p[1] < BufferForCluster(free_cluster')
               /\ "number" \in DOMAIN image'[p] => image'[p].number \in Nat
    <3>1. CASE \E j \in 0..(Clusters(c) - 1) :
                    /\ p = <<FatBlock(f + j), (f + j) % BlockFat>> /\ f + j \in Nat
                    /\ image'[p] = NumberCell(NextOf(Clusters(c), j, f))
                    /\ FAT_START <= p[1] /\ p[1] < ROOT_DIR_START /\ p[1] \in Nat
      <4>1. PICK j \in 0..(Clusters(c) - 1) : image'[p] = NumberCell(NextOf(Clusters(c), j, f))
        BY <3>1
      <4>2. NextOf(Clusters(c), j, f) \in Nat
        BY <1>2 DEF NextOf, EOC
      <4>3. image'[p].number \in Nat
        BY <4>1, <4>2 DEF NumberCell
      <4> QED BY <2>1, <2>2, <3>1, <4>3
    <3>2. CASE \E i \in 1..Len(NewOf(c, f)) :
                    /\ p[1] \in Nat /\ InDir(c.dir, p[1]) /\ image'[p] = NewOf(c, f)[i]
      <4>1. PICK i \in 1..Len(NewOf(c, f)) : image'[p] = NewOf(c, f)[i]
        BY <3>2
      <4>2. \/ NewOf(c, f)[i] = LongEntry(c)
            \/ NewOf(c, f)[i] = OwnEntry(c, f)
        BY EntryRegion DEF Extended, c, f
      <4>3. "number" \notin DOMAIN image'[p]
        BY <4>1, <4>2 DEF EntryCell, LongEntry, OwnEntry
      <4>4. p[1] < BufferForCluster(f)
        BY <2>1, <2>3, <3>2 DEF InDir
      <4> QED BY <2>1, <3>2, <4>3, <4>4
    <3>3. CASE /\ p[1] \in Nat /\ p[1] < BufferForCluster(f + Clusters(c))
               /\ c.op = "file" =>
                      \E j \in 0..(Clusters(c) - 1), i \in 0..(BlockChars - 1) :
                          image'[p] = CharCell(CharOf(c.content, j * BlockChars + i + 1))
               /\ c.op = "directory" => "number" \notin DOMAIN image'[p]
      <4>1. c.op = "file" \/ c.op = "directory"
        BY <1>1, CallsAre DEF c
      <4>2. "number" \notin DOMAIN image'[p]
        BY <3>3, <4>1 DEF CharCell
      <4> QED BY <1>1, <3>3, <4>2
    <3>4. CASE p \in DOMAIN image /\ image'[p] = image[p]
      <4>1. /\ p[1] \in Nat /\ p[1] < BufferForCluster(f)
            /\ "number" \in DOMAIN image[p] => image[p].number \in Nat
        BY <3>4 DEF Extended, Fresh, f
      <4> QED BY <2>1, <3>4, <4>1
    <3>5. /\ c = Calls[made + 1] /\ f = free_cluster /\ e = entries[c.dir]
      BY DEF c, f, e
    <3> QED BY <3>1, <3>2, <3>3, <3>4, <3>5, MakeImage DEF Extended
  <2> QED BY <2>4 DEF Fresh
<1> QED BY <1>5, <1>7, <1>8, <1>9 DEF Extended

LEMMA MakeWritten ==
    ASSUME Extended, Written, Make, Room' PROVE Written'
<1>4. PICK k, c, f, e : k = made + 1 /\ c = Calls[k] /\ f = free_cluster /\ e = entries[c.dir]
  OBVIOUS
<1>1. /\ k \in 1..Len(Calls) /\ k # c.dir /\ c.dir \in 0..made
      /\ made' = k /\ first' = Append(first, f) /\ free_cluster' = f + Clusters(c)
      /\ entries' = [x \in 0..Len(Calls) |->
                 IF x = c.dir THEN e + Len(NewOf(c, f))
                 ELSE IF x = k /\ c.op = "directory" THEN FirstPlace(f) + 2 ELSE entries[x]]
  BY <1>4, MakeStores DEF Extended
<1>2. /\ f \in Nat /\ f >= 2 /\ Clusters(c) \in Nat /\ made \in Nat /\ Len(Calls) \in Nat
      /\ k = made + 1 /\ k \in Nat
      /\ first \in Seq(Nat) /\ Len(first) = made /\ entries \in [0..Len(Calls) -> Nat]
  BY <1>1, <1>4, CallsAre DEF Extended, Progress
<1>3. c.dir \in Dirs /\ e \in Nat /\ Len(NewOf(c, f)) \in Nat \ {0}
  BY <1>4, EntryRegion DEF Extended
<1>5. /\ BufferForCluster(f) \in Nat /\ DATA_START <= BufferForCluster(f) /\ DATA_START \in Nat
      /\ ROOT_DIR_START \in Nat /\ ROOT_DIR_START < DATA_START /\ FAT_START < DATA_START
      /\ FAT_START \in Nat
  <2>1. BufferForCluster(f) \in Nat /\ DATA_START <= BufferForCluster(f)
    BY <1>2, Buffers
  <2> QED BY <2>1, PartsInOrder, GeometryAssumption
<1>6. /\ \A j \in 1..made : first'[j] = first[j]
      /\ first'[k] = f
  BY <1>1, <1>2, AppendProperties
<1>7. ASSUME NEW m \in 1..made
      PROVE  /\ m \in 1..Len(Calls) /\ Clusters(Calls[m]) \in Nat /\ first[m] \in Nat
             /\ first[m] >= 2 /\ first[m] + Clusters(Calls[m]) <= f
             /\ Calls[m].dir \in Dirs /\ Calls[m].dir # k /\ m # k
             /\ EntryOf(m)' = EntryOf(m)
  <2>1. m \in 1..Len(Calls)
    BY <1>1, <1>2
  <2>2. /\ Clusters(Calls[m]) \in Nat /\ first[m] \in Nat /\ first[m] >= 2
        /\ first[m] + Clusters(Calls[m]) <= f
    <3>1. Clusters(Calls[m]) \in Nat
      BY <2>1, CallsAre
    <3>2. first[m] \in Nat
      BY <1>2
    <3>3. Extents
      BY DEF Extended
    <3> QED BY <1>4, <3>1, <3>2, <3>3 DEF Extents
  <2>3. Calls[m].dir \in Dirs /\ Calls[m].dir # k
    <3>1. Calls[m].dir \in 0..(m - 1) /\ (Calls[m].dir # 0 => Calls[Calls[m].dir].op = "directory")
      BY <2>1, CallsAre
    <3>2. /\ Calls[m].dir \in 0..made /\ Calls[m].dir # k
          /\ Calls[m].dir # 0 => Calls[m].dir \in 1..made
      BY <1>2, <3>1
    <3> QED BY <3>1, <3>2 DEF Dirs
  <2> QED BY <1>2, <1>6, <2>1, <2>2, <2>3 DEF EntryOf
<1>8. ASSUME NEW d \in Dirs
      PROVE  /\ d # k /\ d \in 0..made /\ \A b : InDir(d, b)' <=> InDir(d, b)
             /\ DirBlock(d) \in Nat /\ DirSize(d) \in Nat /\ DirBlock(d) >= ROOT_DIR_START
             /\ DirBlock(d) + DirSize(d) <= BufferForCluster(f)
  <2>1. /\ d \in 0..made /\ d # k /\ DirBlock(d) \in Nat /\ DirSize(d) \in Nat
        /\ DirBlock(d) >= ROOT_DIR_START /\ DirBlock(d) + DirSize(d) <= BufferForCluster(f)
    BY <1>2, <1>4, DirRegion DEF Extended
  <2>2. DirBlock(d)' = DirBlock(d) /\ DirSize(d)' = DirSize(d)
    BY <1>2, <1>6, <2>1 DEF DirBlock, DirSize
  <2> QED BY <2>1, <2>2 DEF InDir
<1>9. ASSUME NEW b \in Int, NEW i,
             \/ b < FAT_START
             \/ \E x \in Nat : x < f /\ b = FatBlock(x) /\ i = x % BlockFat
             \/ ROOT_DIR_START <= b /\ b < BufferForCluster(f) /\ ~InDir(c.dir, b)
      PROVE  /\ NumberAt(image', b, i) = NumberAt(image, b, i)
             /\ CharAt(image', b, i) = CharAt(image, b, i)
  <2>1. /\ <<b, i>> \in DOMAIN image <=> <<b, i>> \in DOMAIN image'
        /\ <<b, i>> \in DOMAIN image => image'[<<b, i>>] = image[<<b, i>>]
    <3>1. Progress /\ Extents /\ Places
      BY DEF Extended
    <3>2. PICK p : p = <<b, i>>
      OBVIOUS
    <3>3. /\ p \in DOMAIN image <=> p \in DOMAIN image'
          /\ p \in DOMAIN image => image'[p] = image[p]
      BY <1>4, <1>9, <3>1, <3>2, MakeKeeps
    <3> QED BY <3>2, <3>3
  <2> QED BY <2>1 DEF NumberAt, CharAt, Stored
<1>10. Boots'
  <2>1. PARTITION_START < FAT_START /\ 0 < FAT_START /\ PARTITION_START \in Int /\ 0 \in Int
    BY PartsInOrder, GeometryAssumption
  <2>2. \A i : NumberAt(image', 0, i) = NumberAt(image, 0, i)
    BY <1>9, <2>1
  <2>3. \A i : NumberAt(image', PARTITION_START, i) = NumberAt(image, PARTITION_START, i)
    BY <1>9, <2>1
  <2>4. Boots
    BY DEF Written
  <2> QED BY <2>2, <2>3, <2>4 DEF Boots
<1>11. Chains'
  <2>1. ASSUME NEW m \in 1..k, NEW j \in 0..(Clusters(Calls[m]) - 1)
        PROVE  NumberAt(image', FatBlock(first'[m] + j), (first'[m] + j) % BlockFat)
                   = NextOf(Clusters(Calls[m]), j, first'[m])
    <3>1. CASE m = k
      <4>1. /\ <<FatBlock(f + j), (f + j) % BlockFat>> \in DOMAIN image'
            /\ image'[<<FatBlock(f + j), (f + j) % BlockFat>>] = NumberCell(NextOf(Clusters(c), j, f))
        BY <1>4, <2>1, <3>1, MakePuts DEF Extended
      <4>2. NumberAt(image', FatBlock(f + j), (f + j) % BlockFat) = NextOf(Clusters(c), j, f)
        BY <4>1 DEF NumberAt, Stored, NumberCell
      <4> QED BY <1>4, <1>6, <3>1, <4>2
    <3>2. CASE m # k
      <4>1. m \in 1..made
        BY <1>2, <3>2
      <4>2. first[m] + j \in Nat /\ first[m] + j < f /\ FatBlock(first[m] + j) \in Int
        <5>1. first[m] + j \in Nat /\ first[m] + j < f
          <6>1. /\ Clusters(Calls[m]) \in Nat /\ first[m] \in Nat
                /\ first[m] + Clusters(Calls[m]) <= f
            BY <1>7, <4>1
          <6>2. j \in Nat /\ j < Clusters(Calls[m]) /\ f \in Nat
            BY <1>2, <2>1, <6>1
          <6>3. \A x, n, g, y \in Nat : x + n <= g /\ y < n => x + y \in Nat /\ x + y < g
            OBVIOUS
          <6> QED BY <6>1, <6>2, <6>3
        <5> QED BY <5>1, FatPlaces
      <4>3. NumberAt(image', FatBlock(first[m] + j), (first[m] + j) % BlockFat) = FatAt(first[m] + j)
        BY <1>9, <4>2 DEF FatAt
      <4>4. FatAt(first[m] + j) = NextOf(Clusters(Calls[m]), j, first[m])
        BY <2>1, <4>1 DEF Written, Chains
      <4> QED BY <1>6, <4>1, <4>3, <4>4
    <3> QED BY <3>1, <3>2
  <2> QED BY <1>1, <2>1 DEF Chains, FatAt
<1>12. Texts'
  <2>1. ASSUME NEW m \in 1..k, Calls[m].op = "file",
               NEW j \in 0..(Clusters(Calls[m]) - 1), NEW i \in 0..(BlockChars - 1)
        PROVE  CharAt(image', BufferForCluster(first'[m] + j), i) = CharDue(m, j * BlockChars + i + 1)
    <3>1. CASE m = k
      <4>1. /\ <<BufferForCluster(f + j), i>> \in DOMAIN image'
            /\ image'[<<BufferForCluster(f + j), i>>]
                   = CharCell(CharOf(c.content, j * BlockChars + i + 1))
        BY <1>4, <2>1, <3>1, MakePuts DEF Extended
      <4> QED BY <1>4, <1>6, <3>1, <4>1 DEF CharAt, Stored, CharCell, CharDue
    <3>2. CASE m # k
      <4>1. m \in 1..made
        BY <1>2, <3>2
      <4>2. /\ first[m] + j \in Nat /\ first[m] + j < f /\ first[m] + j >= 2
            /\ first[m] <= first[m] + j /\ first[m] + j < first[m] + Clusters(Calls[m])
        <5>1. /\ Clusters(Calls[m]) \in Nat /\ first[m] \in Nat /\ first[m] >= 2
              /\ first[m] + Clusters(Calls[m]) <= f
          BY <1>7, <4>1
        <5>2. j \in Nat /\ j < Clusters(Calls[m])
          BY <2>1, <5>1
        <5>3. f \in Nat
          BY <1>2
        <5>4. \A x, n, g, y \in Nat : x >= 2 /\ x + n <= g /\ y < n =>
                  /\ x + y \in Nat /\ x + y < g /\ x + y >= 2 /\ x <= x + y /\ x + y < x + n
          OBVIOUS
        <5> QED BY <5>1, <5>2, <5>3, <5>4
      <4> DEFINE b == BufferForCluster(first[m] + j)
      <4>3. b \in Nat /\ DATA_START <= b /\ b < BufferForCluster(f)
        BY <1>2, <4>2, Buffers
      <4>4. ~InDir(c.dir, b)
        <5>1. SUFFICES ASSUME InDir(c.dir, b) PROVE FALSE
          OBVIOUS
        <5>2. c.dir # 0
          <6>1. c.dir = 0 => DirBlock(c.dir) + DirSize(c.dir) = DATA_START
            BY <1>3, DirRegion DEF Extended
          <6> QED BY <1>5, <4>3, <5>1, <6>1 DEF InDir
        <5>3. c.dir \in 1..made /\ Calls[c.dir].op = "directory"
          BY <1>3, <5>2 DEF Dirs
        <5>4. c.dir # m /\ Clusters(Calls[c.dir]) = Calls[c.dir].size
          <6>1. c.dir \in 1..Len(Calls)
            BY <1>7, <5>3
          <6>2. Clusters(Calls[c.dir]) = Calls[c.dir].size /\ Calls[c.dir].op # "file"
            BY <5>3, <6>1, CallsAre
          <6> QED BY <2>1, <6>2
        <5>5. /\ first[c.dir] <= first[m] + j /\ first[m] + j < first[c.dir] + Calls[c.dir].size
          <6>1. /\ BufferForCluster(first[c.dir]) <= BufferForCluster(first[m] + j)
                /\ BufferForCluster(first[m] + j) < BufferForCluster(first[c.dir]) + Calls[c.dir].size
            BY <5>1, <5>2 DEF InDir, DirBlock, DirSize
          <6>2. first[c.dir] \in Nat /\ Calls[c.dir].size \in Nat
                /\ first[c.dir] + Calls[c.dir].size \in Nat
            BY <1>7, <5>3, <5>4
          <6>3. BufferForCluster(first[c.dir] + Calls[c.dir].size)
                   = BufferForCluster(first[c.dir]) + Calls[c.dir].size
            BY <6>2, Buffers
          <6>4. /\ BufferForCluster(first[m] + j) < BufferForCluster(first[c.dir] + Calls[c.dir].size)
                /\ first[m] + j \in Nat
            BY <4>2, <6>1, <6>3
          <6>5. first[c.dir] <= first[m] + j
            BY <6>1, <6>2, <6>4, Buffers
          <6>6. first[m] + j < first[c.dir] + Calls[c.dir].size
            BY <6>2, <6>4, Buffers
          <6> QED BY <6>5, <6>6
        <5>6. \/ first[c.dir] + Calls[c.dir].size <= first[m]
              \/ first[m] + Clusters(Calls[m]) <= first[c.dir]
          <6>1. m \in 1..(c.dir - 1) \/ c.dir \in 1..(m - 1)
            BY <1>2, <4>1, <5>3, <5>4
          <6> QED BY <4>1, <5>3, <5>4, <6>1 DEF Extended, Extents
        <5>7. first[c.dir] \in Nat /\ Calls[c.dir].size \in Nat /\ first[m] \in Nat
              /\ Clusters(Calls[m]) \in Nat /\ first[m] + j \in Nat
          BY <1>7, <4>1, <4>2, <5>3, <5>4
        <5> QED BY <4>2, <5>5, <5>6, <5>7
      <4>5. CharAt(image', b, i) = CharAt(image, b, i)
        <5>1. b \in Int /\ ROOT_DIR_START <= b
          BY <1>5, <4>3
        <5> HIDE DEF b
        <5> QED BY <1>9, <4>3, <4>4, <5>1
      <4>6. CharAt(image, b, i) = CharDue(m, j * BlockChars + i + 1)
        BY <2>1, <4>1 DEF Written, Texts
      <4> QED BY <1>6, <4>1, <4>5, <4>6
    <3> QED BY <3>1, <3>2
  <2> QED BY <1>1, <2>1 DEF Texts, CharDue
<1>13. EntryOf(k)' = OwnEntry(c, f)
  BY <1>4, <1>6 DEF EntryOf
<1>14. Listings'
  <2>1. SUFFICES ASSUME NEW d \in Dirs', NEW p \in DOMAIN image', InDir(d, p[1])',
                        "attributes" \in DOMAIN image'[p]
                 PROVE  Listed(d, image[p])'
    BY DEF Listings
  <2>2. d = k \/ d \in Dirs
    BY <1>1, <1>2 DEF Dirs
  <2>3. ASSUME d = k PROVE Calls[d].op = "directory" /\ BufferForCluster(f) <= p[1]
    <3>1. Calls[d].op = "directory" /\ d # 0
      BY <1>1, <2>1, <2>3 DEF Dirs
    <3>2. DirBlock(d)' = BufferForCluster(f)
      BY <1>6, <2>3, <3>1 DEF DirBlock
    <3> QED BY <2>1, <3>1, <3>2 DEF InDir
  <2>4. ASSUME NEW i \in 1..Len(NewOf(c, f)), InDir(c.dir, p[1]), image'[p] = NewOf(c, f)[i]
        PROVE  Listed(d, image[p])'
    <3>1. p[1] < BufferForCluster(f) /\ p[1] \in Int
      BY <1>3, <1>5, <1>8, <2>4 DEF InDir
    <3>2. d \in Dirs
      BY <1>5, <2>2, <2>3, <3>1
    <3>3. InDir(d, p[1])
      BY <1>8, <2>1, <3>2
    <3>4. d = c.dir
      BY <1>3, <2>4, <3>2, <3>3, DirsApart DEF Extended
    <3>5. \/ NewOf(c, f)[i] = LongEntry(c)
          \/ NewOf(c, f)[i] = OwnEntry(c, f)
      <4>1. \A x \in 1..Len(NewOf(c, f)) :
                 \/ x < Len(NewOf(c, f)) /\ NewOf(c, f)[x] = LongEntry(c)
                 \/ /\ x = Len(NewOf(c, f))
                    /\ NewOf(c, f)[x] = OwnEntry(c, f)
        BY <1>4, EntryRegion DEF Extended
      <4> QED BY <4>1
    <3>6. CASE image'[p] = LongEntry(c)
      BY <3>6 DEF Listed, LongEntry, EntryCell, LFN, Mask
    <3>7. CASE image'[p] = OwnEntry(c, f)
      <4>1. image'[p] = EntryOf(k)' /\ Calls[k].dir = d /\ k \in 1..made'
        BY <1>1, <1>2, <1>4, <1>13, <3>4, <3>7
      <4> QED BY <4>1 DEF Listed
    <3> QED BY <2>4, <3>5, <3>6, <3>7
  <2>5. ASSUME p \in DOMAIN image, image'[p] = image[p]
        PROVE  Listed(d, image[p])'
    <3>1. p[1] \in Nat /\ p[1] < BufferForCluster(f)
      BY <1>4, <2>5 DEF Extended, Fresh
    <3>2. d \in Dirs
      BY <1>5, <2>2, <2>3, <3>1
    <3>3. InDir(d, p[1])
      BY <1>8, <2>1, <3>2
    <3>4. Listed(d, image[p])
      BY <2>1, <2>5, <3>2, <3>3 DEF Written, Listings
    <3>5. ASSUME NEW m \in 1..made, Calls[m].dir = d, image[p] = EntryOf(m)
          PROVE  m \in 1..made' /\ image[p] = EntryOf(m)'
      BY <1>1, <1>2, <1>7, <3>5
    <3> QED BY <2>5, <3>4, <3>5 DEF Listed
  <2>6. ASSUME c.op = "file" =>
                  \E j \in 0..(Clusters(c) - 1), i \in 0..(BlockChars - 1) :
                      image'[p] = CharCell(CharOf(c.content, j * BlockChars + i + 1)),
               c.op = "directory" => image'[p].name \in {DotName, DotsName}
        PROVE  Listed(d, image[p])'
    <3>1. c.op = "file" \/ c.op = "directory"
      BY <1>1, <1>4, CallsAre
    <3>2. c.op # "file"
      BY <2>1, <2>6 DEF CharCell
    <3> QED BY <2>6, <3>1, <3>2 DEF Listed
  <2>7. ASSUME NEW j, image'[p] = NumberCell(NextOf(Clusters(c), j, f)) PROVE FALSE
    BY <2>1, <2>7 DEF NumberCell
  <2>8. \/ \E j \in 0..(Clusters(c) - 1) : image'[p] = NumberCell(NextOf(Clusters(c), j, f))
        \/ \E i \in 1..Len(NewOf(c, f)) :
               InDir(c.dir, p[1]) /\ image'[p] = NewOf(c, f)[i]
        \/ /\ c.op = "file" =>
                  \E j \in 0..(Clusters(c) - 1), i \in 0..(BlockChars - 1) :
                      image'[p] = CharCell(CharOf(c.content, j * BlockChars + i + 1))
           /\ c.op = "directory" => image'[p].name \in {DotName, DotsName}
        \/ p \in DOMAIN image /\ image'[p] = image[p]
    BY <1>4, <2>1, MakeImage DEF Extended
  <2> QED BY <2>4, <2>5, <2>6, <2>7, <2>8, Zenon
<1>15. Present'
  <2>1. ASSUME NEW m \in 1..k
        PROVE  \E b \in Nat, i \in 0..(BlockEntries - 1) :
                   /\ InDir(Calls[m].dir, b)' /\ b * BlockEntries + i < entries'[Calls[m].dir]
                   /\ <<b, i>> \in DOMAIN image' /\ image'[<<b, i>>] = EntryOf(m)'
    <3>1. CASE m = k
      <4>1. PICK b \in Nat, i \in 0..(BlockEntries - 1) :
                 /\ InDir(c.dir, b) /\ b * BlockEntries + i = e + Len(NewOf(c, f)) - 1
                 /\ <<b, i>> \in DOMAIN image'
                 /\ image'[<<b, i>>] = OwnEntry(c, f)
        BY <1>4, MakePuts DEF Extended
      <4>2. b * BlockEntries + i < e + Len(NewOf(c, f))
        BY <1>3, <4>1
      <4>3. entries'[c.dir] = e + Len(NewOf(c, f))
        BY <1>1, <1>2
      <4>4. InDir(c.dir, b)'
        BY <1>3, <1>8, <4>1
      <4>5. image'[<<b, i>>] = EntryOf(m)'
        BY <1>13, <3>1, <4>1
      <4>6. Calls[m].dir = c.dir
        BY <1>4, <3>1
      <4> QED BY <4>1, <4>2, <4>3, <4>4, <4>5, <4>6
    <3>2. CASE m # k
      <4>1. m \in 1..made
        BY <1>2, <3>2
      <4> DEFINE d == Calls[m].dir
      <4>2. PICK b \in Nat, i \in 0..(BlockEntries - 1) :
                 /\ InDir(d, b) /\ b * BlockEntries + i < entries[d]
                 /\ <<b, i>> \in DOMAIN image /\ image[<<b, i>>] = EntryOf(m)
        BY <4>1 DEF Written, Present
      <4>3. d \in Dirs /\ d # k /\ EntryOf(m)' = EntryOf(m)
        BY <1>7, <4>1
      <4> HIDE DEF d
      <4>4. ROOT_DIR_START <= b /\ b < BufferForCluster(f) /\ b \in Int
        BY <1>5, <1>8, <4>2, <4>3 DEF InDir
      <4>5. InDir(c.dir, b) => b * BlockEntries + i < e
        <5>1. InDir(c.dir, b) => d = c.dir
          BY <1>3, <4>2, <4>3, DirsApart DEF Extended
        <5> QED BY <1>4, <4>2, <5>1
      <4>6. <<b, i>> \in DOMAIN image' /\ image'[<<b, i>>] = image[<<b, i>>]
        <5>1. Progress /\ Extents /\ Places
          BY DEF Extended
        <5>2. PICK p : p = <<b, i>>
          OBVIOUS
        <5>3. /\ p \in DOMAIN image <=> p \in DOMAIN image'
              /\ p \in DOMAIN image => image'[p] = image[p]
          BY <1>4, <4>2, <4>4, <4>5, <5>1, <5>2, MakeKeeps
        <5> QED BY <4>2, <5>2, <5>3
      <4>7. entries'[d] >= entries[d] /\ entries[d] \in Nat /\ entries'[d] \in Nat
        <5>1. d \in 0..Len(Calls)
          BY <1>1, <1>2, <1>8, <4>3
        <5>2. entries'[d] = entries[d] \/ (d = c.dir /\ entries'[d] = e + Len(NewOf(c, f)))
          BY <1>1, <4>3, <5>1
        <5>3. entries[d] \in Nat /\ e + Len(NewOf(c, f)) \in Nat /\ e + Len(NewOf(c, f)) >= e
          BY <1>2, <1>3, <5>1
        <5> QED BY <1>4, <5>2, <5>3
      <4>8. b * BlockEntries + i < entries'[d]
        <5>1. b * BlockEntries + i \in Int
          BY <4>2, SizesAre
        <5> QED BY <4>2, <4>7, <5>1
      <4>9. InDir(d, b)'
        BY <1>8, <4>2, <4>3
      <4> QED BY <4>2, <4>3, <4>6, <4>8, <4>9 DEF d
    <3> QED BY <3>1, <3>2
  <2> QED BY <1>1, <2>1 DEF Present
<1> QED BY <1>10, <1>11, <1>12, <1>14, <1>15 DEF Written

\* The volume before the first call.

LEMMA PutOne ==
    ASSUME NEW im, NEW stores, NEW s \in stores, \A t \in stores : t.at = s.at => t.cell = s.cell
    PROVE  s.at \in DOMAIN Put(im, stores) /\ Put(im, stores)[s.at] = s.cell
  BY DEF Put

LEMMA InitStores ==
    ASSUME NEW stores, stores = CreateMbr \cup CreateRootBlock \cup FatHeader
                                \cup PutEntries(RootPlace, <<Label>>)
    PROVE  /\ \A s \in stores :
                 /\ s.at[1] \in Nat /\ s.at[1] < DATA_START
                 /\ "number" \in DOMAIN s.cell => s.cell.number \in Nat
                 /\ "attributes" \in DOMAIN s.cell => s.cell = Label
           /\ \A s \in CreateMbr \cup CreateRootBlock, t \in stores :
                 t.at = s.at => t.cell = s.cell
<1>1. /\ PARTITION_START \in Nat \ {0} /\ PARTITION_SIZE \in Nat /\ BlockEntries \in Nat \ {0}
      /\ ROOT_DIR_SECTORS \in Nat \ {0} /\ BlockFat \in Nat \ {0}
  BY GeometryAssumption, SizesAre
<1>2. /\ FAT_SECTORS \in Nat /\ FAT_START = PARTITION_START + 1 /\ FAT_START \in Nat
      /\ ROOT_DIR_START \in Nat /\ FAT_START <= ROOT_DIR_START
      /\ ROOT_DIR_START < DATA_START /\ DATA_START \in Nat
  BY PartsInOrder, GeometryAssumption
<1>3. ASSUME NEW s \in CreateMbr
      PROVE  s.at[1] = 0 /\ s.cell.number \in Nat /\ "attributes" \notin DOMAIN s.cell
  BY <1>1, <1>3 DEF CreateMbr, At, NumberCell
<1>4. ASSUME NEW s \in CreateRootBlock
      PROVE  /\ s.at[1] = PARTITION_START /\ s.cell.number \in Nat
             /\ "attributes" \notin DOMAIN s.cell
  <2>1. ROOT_DIR_SECTORS * BlockEntries \in Nat
    BY <1>1
  <2> QED BY <1>1, <1>2, <1>4, <2>1 DEF CreateRootBlock, At, NumberCell
<1>5. ASSUME NEW s \in FatHeader
      PROVE  /\ s.at[1] \in Nat /\ FAT_START <= s.at[1] /\ s.at[1] < ROOT_DIR_START
             /\ s.cell.number \in Nat /\ "attributes" \notin DOMAIN s.cell
  <2>1. \A x \in {0, 1} : /\ FatBlock(x) \in Nat /\ FAT_START <= FatBlock(x)
                          /\ FatBlock(x) < ROOT_DIR_START
    BY <1>1, FatPlaces
  <2> QED BY <1>5, <2>1 DEF FatHeader, FatEntry, At, NumberCell
<1>6. ASSUME NEW s \in PutEntries(RootPlace, <<Label>>)
      PROVE  s.at[1] = ROOT_DIR_START /\ s.cell = Label /\ "number" \notin DOMAIN s.cell
  <2>1. s = At((RootPlace + 1 - 1) \div BlockEntries, (RootPlace + 1 - 1) % BlockEntries, Label)
    BY <1>6 DEF PutEntries
  <2>2. RootPlace + 1 - 1 = ROOT_DIR_START * BlockEntries + 0
    BY <1>1, <1>2 DEF RootPlace
  <2>3. (ROOT_DIR_START * BlockEntries + 0) \div BlockEntries = ROOT_DIR_START
    BY <1>1, <1>2, DivideSum
  <2> QED BY <2>1, <2>2, <2>3 DEF At, Label, EntryCell
<1>7. \A s \in stores : /\ s.at[1] \in Nat /\ s.at[1] < DATA_START
                        /\ "number" \in DOMAIN s.cell => s.cell.number \in Nat
                        /\ "attributes" \in DOMAIN s.cell => s.cell = Label
  BY <1>1, <1>2, <1>3, <1>4, <1>5, <1>6
<1>8. ASSUME NEW s \in CreateMbr, NEW t \in stores, t.at = s.at PROVE t.cell = s.cell
  <2>1. t \in CreateMbr
    BY <1>1, <1>2, <1>3, <1>4, <1>5, <1>6, <1>8
  <2> QED BY <1>8, <2>1 DEF CreateMbr, At, PARTITION_TYPE, P1_BLOCK, P1_SIZE, SIGNATURE
<1>9. ASSUME NEW s \in CreateRootBlock, NEW t \in stores, t.at = s.at PROVE t.cell = s.cell
  <2>1. t \in CreateRootBlock
    BY <1>1, <1>2, <1>3, <1>4, <1>5, <1>6, <1>9
  <2> QED BY <1>9, <2>1 DEF CreateRootBlock, At, RESERVED_BLOCKS, FATS, ROOT_ENTRIES, TOTAL_BLOCKS,
                            FAT_BLOCKS, SIGNATURE
<1> QED BY <1>7, <1>8, <1>9

LEMMA InitVolume ==
    ASSUME Init PROVE Extended /\ Written
<1> DEFINE stores == CreateMbr \cup CreateRootBlock \cup FatHeader \cup PutEntries(RootPlace, <<Label>>)
<1>1. image = Put([p \in {} |-> NUL], stores)
  BY DEF Init
<1>2. /\ free_cluster = 2 /\ made = 0 /\ first = <<>>
      /\ entries = [c \in 0..Len(Calls) |-> IF c = 0 THEN RootPlace + 1 ELSE 0]
  BY DEF Init
<1>3. /\ \A s \in stores :
              /\ s.at[1] \in Nat /\ s.at[1] < DATA_START
              /\ "number" \in DOMAIN s.cell => s.cell.number \in Nat
              /\ "attributes" \in DOMAIN s.cell => s.cell = Label
      /\ \A s \in CreateMbr \cup CreateRootBlock, t \in stores : t.at = s.at => t.cell = s.cell
  BY InitStores
<1>4. \A s \in CreateMbr \cup CreateRootBlock : s.at \in DOMAIN image /\ image[s.at] = s.cell
  <2> SUFFICES ASSUME NEW s \in CreateMbr \cup CreateRootBlock
               PROVE  s.at \in DOMAIN image /\ image[s.at] = s.cell
    OBVIOUS
  <2>1. s \in stores /\ \A t \in stores : t.at = s.at => t.cell = s.cell
    BY <1>3
  <2> HIDE DEF stores
  <2> QED BY <1>1, <2>1, PutOne
<1> HIDE DEF stores
<1>5. \A p \in DOMAIN image : \E s \in stores : s.at = p /\ image[p] = s.cell
  BY <1>1, PutCases DEF Placed
<1>6. ROOT_DIR_START \in Nat /\ DATA_START \in Nat /\ BlockEntries \in Nat \ {0}
      /\ RootPlace \in Nat
  <2>1. ROOT_DIR_START \in Nat /\ DATA_START \in Nat /\ BlockEntries \in Nat \ {0}
    BY PartsInOrder, SizesAre
  <2>2. ROOT_DIR_START * BlockEntries \in Nat
    BY <2>1
  <2> QED BY <2>1, <2>2 DEF RootPlace
<1>7. Progress /\ Extents
  <2>1. Len(Calls) \in Nat
    BY CallsAre
  <2>2. entries \in [0..Len(Calls) -> Nat]
    BY <1>2, <1>6
  <2> QED BY <1>2, <2>1, <2>2 DEF Progress, Extents
<1>8. Dirs = {0}
  BY <1>2 DEF Dirs
<1>9. Places
  <2>1. entries[0] = RootPlace + 1
    BY <1>2, CallsAre
  <2> QED BY <1>6, <1>8, <2>1 DEF Places, DirBlock, RootPlace
<1>10. Fresh
  <2>1. BufferForCluster(free_cluster) = DATA_START
    BY <1>2, <1>6 DEF BufferForCluster
  <2> QED BY <1>3, <1>5, <2>1 DEF Fresh
<1>11. Listings
  <2> SUFFICES ASSUME NEW d \in Dirs, NEW p \in DOMAIN image, "attributes" \in DOMAIN image[p]
               PROVE  Listed(d, image[p])
    BY DEF Listings
  <2>1. image[p] = Label
    BY <1>3, <1>5
  <2>2. Label.attributes = {"volume"}
    BY DEF Label, EntryCell, FAT_FILE_VOLUME
  <2>3. {"volume"} \cap {"volume", "dir"} = {"volume"}
    OBVIOUS
  <2> QED BY <2>1, <2>2, <2>3 DEF Listed, Mask
<1>12. Boots
  <2>1. ASSUME NEW block, NEW i, NEW n, At(block, i, NumberCell(n)) \in CreateMbr \cup CreateRootBlock
        PROVE  NumberAt(image, block, i) = n
    <3>1. <<block, i>> \in DOMAIN image /\ image[<<block, i>>] = NumberCell(n)
      BY <1>4, <2>1 DEF At
    <3> QED BY <3>1 DEF NumberAt, Stored, NumberCell
  <2>2. /\ At(0, PARTITION_TYPE, NumberCell(4)) \in CreateMbr
        /\ At(0, P1_BLOCK, NumberCell(PARTITION_START)) \in CreateMbr
        /\ At(0, SIGNATURE, NumberCell(43605)) \in CreateMbr
    BY DEF CreateMbr
  <2>3. /\ At(PARTITION_START, RESERVED_BLOCKS, NumberCell(1)) \in CreateRootBlock
        /\ At(PARTITION_START, FATS, NumberCell(1)) \in CreateRootBlock
        /\ At(PARTITION_START, ROOT_ENTRIES, NumberCell(ROOT_DIR_SECTORS * BlockEntries))
               \in CreateRootBlock
        /\ At(PARTITION_START, TOTAL_BLOCKS, NumberCell(PARTITION_SIZE)) \in CreateRootBlock
        /\ At(PARTITION_START, FAT_BLOCKS, NumberCell(FAT_SECTORS)) \in CreateRootBlock
    BY DEF CreateRootBlock
  <2> QED BY <2>1, <2>2, <2>3 DEF Boots
<1>13. Chains /\ Texts /\ Present
  BY <1>2 DEF Chains, Texts, Present
<1> QED BY <1>7, <1>9, <1>10, <1>11, <1>12, <1>13 DEF Extended, Written

\* disk_init finds the parts of the volume where make_fs has put them.
Geometry ==
    [fat_start |-> FAT_START, root_dir |-> ROOT_DIR_START, data_start |-> DATA_START,
     p_size |-> PARTITION_SIZE]

LEMMA Mounted ==
    ASSUME Boots PROVE DiskInit(image) = Geometry
<1>1. /\ PARTITION_START \in Nat \ {0} /\ ROOT_DIR_SECTORS \in Nat /\ BlockEntries \in Nat \ {0}
      /\ FAT_SECTORS \in Nat
  BY GeometryAssumption, SizesAre, PartsInOrder
<1>2. (ROOT_DIR_SECTORS * BlockEntries + 0) \div BlockEntries = ROOT_DIR_SECTORS
  BY <1>1, DivideSum
<1>3. ROOT_DIR_SECTORS * BlockEntries + 0 = ROOT_DIR_SECTORS * BlockEntries
  BY <1>1
<1>4. 1 * FAT_SECTORS = FAT_SECTORS
  BY <1>1
<1> QED BY <1>1, <1>2, <1>3, <1>4
        DEF Boots, DiskInit, Geometry, FAT_START, ROOT_DIR_START, DATA_START

-----------------------------------------------------------------------------
(***************************************************************************)
(* The lookup: find_sfn_file goes along the clusters of a directory.  Its  *)
(* recursive definition has a value also where no end is in sight, for     *)
(* clusters that are never asked for: what is reached from a cluster is    *)
(* the smallest set that has it and is closed under next.                  *)
(***************************************************************************)
IsWalk(f, next, stop, value) ==
    /\ f = [c \in Int |-> f[c]]
    /\ \A c \in Int : f[c] = IF c \in stop THEN value[c] ELSE f[next[c]]

LEMMA WalkExists ==
    ASSUME NEW next \in [Int -> Int], NEW stop \in SUBSET Int, NEW value
    PROVE  \E f : IsWalk(f, next, stop, value)
<1> DEFINE Closed(S) == \A x \in S : x \notin stop => next[x] \in S
<1> DEFINE Ends(c) == {d \in stop : \A S \in SUBSET Int : c \in S /\ Closed(S) => d \in S}
<1> DEFINE f == [c \in Int |-> IF Ends(c) = {} THEN 0 ELSE value[CHOOSE d \in Ends(c) : TRUE]]
<1>1. ASSUME NEW c \in stop PROVE Ends(c) = {c}
  <2>1. c \in Ends(c)
    OBVIOUS
  <2>2. ASSUME NEW d \in Ends(c) PROVE d = c
    <3>1. {c} \in SUBSET Int /\ c \in {c} /\ Closed({c})
      OBVIOUS
    <3> QED BY <2>2, <3>1
  <2> HIDE DEF Ends
  <2> QED BY <2>1, <2>2
<1>2. ASSUME NEW c \in Int, c \notin stop PROVE Ends(c) = Ends(next[c])
  <2>1. ASSUME NEW d \in Ends(c), NEW S \in SUBSET Int, next[c] \in S, Closed(S) PROVE d \in S
    <3>1. S \cup {c} \in SUBSET Int /\ Closed(S \cup {c}) /\ c \in S \cup {c}
      BY <2>1
    <3>2. d \in S \cup {c} /\ d \in stop
      BY <2>1, <3>1
    <3> QED BY <1>2, <3>2
  <2>2. ASSUME NEW d \in Ends(next[c]), NEW S \in SUBSET Int, c \in S, Closed(S) PROVE d \in S
    <3>1. next[c] \in S
      BY <1>2, <2>2
    <3> QED BY <2>2, <3>1
  <2>3. \A d \in Ends(c) : d \in Ends(next[c])
    BY <2>1
  <2>4. \A d \in Ends(next[c]) : d \in Ends(c)
    BY <2>2
  <2> HIDE DEF Ends
  <2> QED BY <2>3, <2>4
<1>3. \A c \in Int : next[c] \in Int
  OBVIOUS
<1> HIDE DEF Ends
<1>4. ASSUME NEW c \in Int PROVE f[c] = IF c \in stop THEN value[c] ELSE f[next[c]]
  <2>1. CASE c \in stop
    <3>1. (CHOOSE d \in {c} : TRUE) = c
      OBVIOUS
    <3>2. f[c] = IF Ends(c) = {} THEN 0 ELSE value[CHOOSE d \in Ends(c) : TRUE]
      OBVIOUS
    <3>3. Ends(c) = {c} /\ Ends(c) # {}
      BY <1>1, <2>1
    <3> QED BY <2>1, <3>1, <3>2, <3>3
  <2>2. CASE c \notin stop
    BY <1>2, <1>3, <2>2
  <2> QED BY <2>1, <2>2
<1>5. f = [c \in Int |-> f[c]]
  OBVIOUS
<1> HIDE DEF f
<1> QED BY <1>4, <1>5 DEF IsWalk

Hit(im, disk, cluster, name, directory) ==
    FindSfnEntry(im, ClusterToBlock(disk, cluster), name, IF directory THEN FAT_FILE_DIR ELSE {})

IsLook(f, im, disk, name, directory) ==
    \A c \in Int :
        f[c] = IF c = 0 THEN 0
               ELSE IF Hit(im, disk, c, name, directory) # -1
               THEN EntryAt(im, ClusterToBlock(disk, c),
                            Hit(im, disk, c, name, directory)).cluster
               ELSE f[GetNextCluster(im, disk, c)]

LEMMA LookIs ==
    ASSUME NEW im, NEW disk, NEW from, NEW name, NEW directory,
           \A c \in Int : GetNextCluster(im, disk, c) \in Int
    PROVE  \E f : /\ FindSfnFile(im, disk, from, name, directory) = f[from]
                  /\ IsLook(f, im, disk, name, directory)
<1> DEFINE Step(f) ==
        [cluster \in Int |->
            IF cluster = 0 THEN 0
            ELSE IF FindSfnEntry(im, ClusterToBlock(disk, cluster), name,
                                 IF directory THEN FAT_FILE_DIR ELSE {}) # -1
            THEN EntryAt(im, ClusterToBlock(disk, cluster),
                         FindSfnEntry(im, ClusterToBlock(disk, cluster), name,
                                      IF directory THEN FAT_FILE_DIR ELSE {})).cluster
            ELSE f[GetNextCluster(im, disk, cluster)]]
<1> DEFINE look == CHOOSE f : f = Step(f)
<1>1. FindSfnFile(im, disk, from, name, directory) = look[from]
  BY DEF FindSfnFile
<1>2. \E f : f = Step(f)
  <2> DEFINE next == [c \in Int |-> GetNextCluster(im, disk, c)]
  <2> DEFINE stop == {c \in Int : c = 0 \/ Hit(im, disk, c, name, directory) # -1}
  <2> DEFINE value == [c \in Int |-> IF c = 0 THEN 0
                           ELSE EntryAt(im, ClusterToBlock(disk, c),
                                        Hit(im, disk, c, name, directory)).cluster]
  <2>1. next \in [Int -> Int] /\ stop \in SUBSET Int
    OBVIOUS
  <2> HIDE DEF next, stop, value
  <2>2. PICK f : IsWalk(f, next, stop, value)
    BY <2>1, WalkExists, Zenon
  <2>3. \A c \in Int : f[c] = Step(f)[c]
    BY <2>2 DEF next, stop, value, Hit, IsWalk
  <2>4. f = Step(f)
    BY <2>2, <2>3 DEF IsWalk
  <2> QED BY <2>4
<1> HIDE DEF Step
<1>3. look = Step(look)
  BY <1>2
<1> HIDE DEF look
<1>4. IsLook(look, im, disk, name, directory)
  BY <1>3 DEF Step, Hit, IsLook
<1> QED BY <1>1, <1>4

\* The clusters of a directory, one after the other.
ChainAt(d, j) == IF d = 0 THEN -1 - j ELSE first[d] + j

LEMMA NextInRow ==
    ASSUME Extended, Written, Room, sd = Geometry, NEW k \in 1..made,
           NEW j \in 0..(Clusters(Calls[k]) - 1)
    PROVE  /\ GetNextCluster(image, sd, first[k] + j)
                  = IF j = Clusters(Calls[k]) - 1 THEN 0 ELSE first[k] + j + 1
           /\ ClusterToBlock(sd, first[k] + j) = BufferForCluster(first[k] + j)
<1> DEFINE n == Clusters(Calls[k])
<1> DEFINE x == first[k] + j
<1>1. n \in Nat /\ first[k] \in Nat /\ first[k] >= 2 /\ first[k] + n <= free_cluster
      /\ free_cluster \in Nat /\ free_cluster <= 32768
  <2>1. k \in 1..Len(Calls)
    BY CallsAre DEF Extended, Progress
  <2>2. n \in Nat
    BY <2>1, CallsAre
  <2> QED BY <2>2 DEF Extended, Progress, Extents, Room
<1>2. j \in Nat /\ j < n
  BY <1>1
<1> HIDE DEF n
<1>3. x \in Nat /\ x >= 2 /\ x + 1 >= 3 /\ x < 32768
  BY <1>1, <1>2
<1>4. NumberAt(image, sd.fat_start + x \div BlockFat, x % BlockFat) = NextOf(n, j, first[k])
  <2>1. FatAt(x) = NextOf(n, j, first[k])
    BY DEF Written, Chains, n
  <2> QED BY <2>1 DEF FatAt, FatBlock, Geometry
<1>5. NextOf(n, j, first[k]) = IF j = n - 1 THEN 65535 ELSE x + 1
  BY <1>1, <1>2 DEF NextOf, EOC
<1>6. ClusterToBlock(sd, x) = BufferForCluster(x)
  <2>1. ~(x < 0)
    BY <1>3
  <2> HIDE DEF x
  <2> QED BY <2>1 DEF ClusterToBlock, BufferForCluster, Geometry
<1> HIDE DEF x
<1>7. GetNextCluster(image, sd, x) = IF j = n - 1 THEN 0 ELSE x + 1
  BY <1>3, <1>4, <1>5 DEF GetNextCluster
<1>8. x + 1 = first[k] + j + 1
  BY DEF x
<1> QED BY <1>6, <1>7, <1>8 DEF x, n

LEMMA DirChain ==
    ASSUME Extended, Written, Room, sd = Geometry, NEW d \in Dirs, NEW j \in 0..(DirSize(d) - 1)
    PROVE  /\ ChainAt(d, j) \in Int /\ ChainAt(d, j) # 0
           /\ ClusterToBlock(sd, ChainAt(d, j)) = DirBlock(d) + j
           /\ j # DirSize(d) - 1 => GetNextCluster(image, sd, ChainAt(d, j)) = ChainAt(d, j + 1)
<1>1. /\ DirBlock(d) \in Nat /\ DirSize(d) \in Nat \ {0} /\ d \in 0..made /\ made \in Nat
      /\ d = 0 => DirBlock(d) + DirSize(d) = DATA_START
  BY DirRegion, CallsAre DEF Extended, Progress
<1>2. j \in Nat /\ j < DirSize(d)
  BY <1>1
<1>3. ROOT_DIR_START \in Nat /\ DATA_START \in Nat
  BY PartsInOrder
<1>4. CASE d = 0
  <2>1. ChainAt(d, j) = -1 - j /\ ChainAt(d, j + 1) = -1 - (j + 1) /\ DirBlock(d) = ROOT_DIR_START
    BY <1>4 DEF ChainAt, DirBlock
  <2>2. -1 - j \in Int /\ -1 - j < 0 /\ -1 - j # 0
    BY <1>2
  <2>3. ClusterToBlock(sd, -1 - j) = ROOT_DIR_START - (-1 - j) - 1
    BY <2>2 DEF ClusterToBlock, Geometry
  <2>4. ClusterToBlock(sd, (-1 - j) - 1) = ROOT_DIR_START - ((-1 - j) - 1) - 1
    <3>1. (-1 - j) - 1 < 0
      BY <1>2
    <3> QED BY <3>1 DEF ClusterToBlock, Geometry
  <2>5. /\ ROOT_DIR_START - (-1 - j) - 1 = ROOT_DIR_START + j
        /\ ROOT_DIR_START - ((-1 - j) - 1) - 1 = ROOT_DIR_START + j + 1
        /\ (-1 - j) - 1 = -1 - (j + 1)
    BY <1>2, <1>3
  <2>6. j # DirSize(d) - 1 => ~(ROOT_DIR_START + j + 1 >= DATA_START)
    BY <1>1, <1>2, <1>3, <1>4, <2>1
  <2>7. sd.data_start = DATA_START
    BY DEF Geometry
  <2>8. j # DirSize(d) - 1 => GetNextCluster(image, sd, -1 - j) = -1 - (j + 1)
    BY <2>2, <2>4, <2>5, <2>6, <2>7 DEF GetNextCluster
  <2> QED BY <2>1, <2>2, <2>3, <2>5, <2>8
<1>5. CASE d # 0
  <2>1. d \in 1..made /\ Calls[d].op = "directory"
    BY <1>5 DEF Dirs
  <2>2. /\ first[d] \in Nat /\ first[d] >= 2 /\ Clusters(Calls[d]) = Calls[d].size
        /\ DirSize(d) = Calls[d].size /\ DirBlock(d) = BufferForCluster(first[d])
    <3>1. d \in 1..Len(Calls)
      BY <2>1, CallsAre DEF Extended, Progress
    <3>2. first[d] \in Nat
      BY <2>1 DEF Extended, Progress
    <3>3. first[d] >= 2
      BY <2>1 DEF Extended, Extents
    <3>4. Clusters(Calls[d]) = Calls[d].size
      BY <2>1, <3>1, CallsAre
    <3>5. DirSize(d) = Calls[d].size /\ DirBlock(d) = BufferForCluster(first[d])
      BY <1>5 DEF DirSize, DirBlock
    <3> QED BY <3>2, <3>3, <3>4, <3>5
  <2>3. j \in 0..(Clusters(Calls[d]) - 1)
    BY <2>2
  <2>4. /\ GetNextCluster(image, sd, first[d] + j)
               = IF j = Clusters(Calls[d]) - 1 THEN 0 ELSE first[d] + j + 1
        /\ ClusterToBlock(sd, first[d] + j) = BufferForCluster(first[d] + j)
    BY <2>1, <2>3, NextInRow
  <2>5. BufferForCluster(first[d] + j) = BufferForCluster(first[d]) + j
    BY <1>2, <2>2, Buffers
  <2>6. /\ ChainAt(d, j) = first[d] + j /\ ChainAt(d, j + 1) = first[d] + (j + 1)
        /\ first[d] + (j + 1) = first[d] + j + 1 /\ first[d] + j \in Nat /\ first[d] + j # 0
    BY <1>2, <1>5, <2>2 DEF ChainAt
  <2> QED BY <2>2, <2>4, <2>5, <2>6
<1> QED BY <1>4, <1>5

LEMMA HitIs ==
    ASSUME NEW im, NEW block, NEW name, NEW wanted, NEW hit,
           hit = FindSfnEntry(im, block, name, wanted)
    PROVE  /\ hit # -1 => /\ hit \in 0..(BlockEntries - 1)
                          /\ EntryAt(im, block, hit).attributes \cap Mask = wanted
                          /\ EntryAt(im, block, hit).name = name
           /\ hit = -1 => \A i \in 0..(BlockEntries - 1) :
                  ~ /\ EntryAt(im, block, i).attributes \cap Mask = wanted
                    /\ EntryAt(im, block, i).name = name
<1> DEFINE at == {i \in 0..(BlockEntries - 1) :
                      /\ EntryAt(im, block, i).attributes \cap Mask = wanted
                      /\ EntryAt(im, block, i).name = name}
<1>1. hit = IF at = {} THEN -1 ELSE CHOOSE i \in at : \A j \in at : i <= j
  BY DEF FindSfnEntry
<1>2. at \in SUBSET Nat
  BY SizesAre
<1>3. CASE at = {}
  BY <1>1, <1>3
<1>4. CASE at # {}
  <2>1. \E i \in at : \A j \in at : i <= j
    BY <1>2, <1>4, Least
  <2>2. hit \in at
    BY <1>1, <1>4, <2>1
  <2>3. hit # -1
    BY <1>2, <2>2
  <2> QED BY <2>2, <2>3
<1> QED BY <1>3, <1>4

\* Entries of one directory with a name, and of one kind, are one.
LEMMA EntryIsOne ==
    ASSUME Extended, Written, NEW k \in 1..made, NEW e, Listed(Calls[k].dir, e) \/ e = NoEntry,
           NEW wanted, wanted = IF Calls[k].op = "directory" THEN FAT_FILE_DIR ELSE {},
           e.attributes \cap Mask = wanted, e.name = FatSfn(Calls[k].name)
    PROVE  e.cluster = first[k]
<1>1. /\ k \in DOMAIN Calls /\ made \in Nat /\ 1..made \subseteq DOMAIN Calls
      /\ DOMAIN Calls = 1..Len(Calls)
  BY CallsAre DEF Extended, Progress
<1>2. FatSfn(Calls[k].name) \notin {NoEntry.name, DotName, DotsName}
  BY <1>1, NamesAssumption
<1>3. e # NoEntry /\ e.name \notin {DotName, DotsName}
  BY <1>2
<1>4. wanted # {"volume"}
  BY DEF FAT_FILE_DIR
<1>5. PICK m \in 1..made : Calls[m].dir = Calls[k].dir /\ e = EntryOf(m)
  BY <1>3, <1>4 DEF Listed
<1>6. /\ e.name = FatSfn(Calls[m].name) /\ e.attributes = AttributesOf(Calls[m])
      /\ e.cluster = first[m]
  BY <1>5 DEF EntryOf, OwnEntry, EntryCell
<1>7. \A x \in 1..made : AttributesOf(Calls[x]) \cap Mask
                             = IF Calls[x].op = "directory" THEN FAT_FILE_DIR ELSE {}
  <2> TAKE x \in 1..made
  <2>1. x \in DOMAIN Calls /\ (Calls[x].op = "directory" <=> Calls[x].op # "file")
    BY <1>1, CallsAre
  <2>2. CASE Calls[x].op = "file"
    <3>1. Calls[x].attributes \cap Mask = {}
      BY <2>1, <2>2, CallsAssumption
    <3> QED BY <2>1, <2>2, <3>1 DEF AttributesOf
  <2>3. CASE Calls[x].op = "directory"
    <3>1. {"dir"} \cap {"volume", "dir"} = {"dir"}
      OBVIOUS
    <3> QED BY <2>1, <2>3, <3>1 DEF AttributesOf, FAT_FILE_DIR, Mask
  <2> QED BY <2>1, <2>2, <2>3
<1>8. Calls[m].op = Calls[k].op
  <2>1. Calls[m].op = "directory" <=> Calls[k].op = "directory"
    BY <1>6, <1>7 DEF FAT_FILE_DIR
  <2>2. /\ Calls[m].op \in {"file", "directory"} /\ Calls[k].op \in {"file", "directory"}
    BY <1>1, CallsAssumption
  <2> QED BY <2>1, <2>2
<1>9. m = k
  <2>1. m # k => FatSfn(Calls[m].name) # FatSfn(Calls[k].name)
    BY <1>1, <1>5, <1>8, NamesAssumption
  <2> QED BY <1>6, <2>1
<1> QED BY <1>6, <1>9

LEMMA EntryFound ==
    ASSUME Extended, Written, Room, sd = Geometry, NEW k \in 1..made,
           NEW d, d = Calls[k].dir
    PROVE  FindLfnFile(image, sd, ChainAt(d, 0), Calls[k].name, Calls[k].op = "directory") = first[k]
<1> DEFINE directory == Calls[k].op = "directory"
<1> DEFINE wanted == IF directory THEN FAT_FILE_DIR ELSE {}
<1> DEFINE name == FatSfn(Calls[k].name)
<1> DEFINE n == DirSize(d)
<1> DEFINE H(c) == Hit(image, sd, c, name, directory)
<1>1. /\ made \in Nat /\ k \in 1..Len(Calls) /\ d \in Dirs /\ d \in 0..made
      /\ DirBlock(d) \in Nat /\ n \in Nat \ {0}
  <2>1. made \in Nat /\ made <= Len(Calls) /\ Len(Calls) \in Nat
    BY CallsAre DEF Extended, Progress
  <2>2. k \in 1..Len(Calls)
    BY <2>1
  <2>3. d \in 0..(k - 1) /\ (d # 0 => Calls[d].op = "directory")
    BY <2>2, CallsAre
  <2>4. d \in Dirs
    BY <2>1, <2>3 DEF Dirs
  <2> QED BY <2>1, <2>2, <2>4, DirRegion DEF Extended
<1>2. \A c \in Int : GetNextCluster(image, sd, c) \in Int
  <2> TAKE c \in Int
  <2>1. \A b, i : NumberAt(image, b, i) \in Nat
    BY DEF Extended, Fresh, NumberAt, Stored
  <2>2. c - 1 \in Int /\ 0 \in Int
    OBVIOUS
  <2> QED BY <2>1, <2>2 DEF GetNextCluster
<1>3. PICK f : /\ FindSfnFile(image, sd, ChainAt(d, 0), name, directory) = f[ChainAt(d, 0)]
               /\ \A c \in Int :
                     f[c] = IF c = 0 THEN 0
                            ELSE IF H(c) # -1 THEN EntryAt(image, ClusterToBlock(sd, c), H(c)).cluster
                            ELSE f[GetNextCluster(image, sd, c)]
  <2>1. PICK f : /\ FindSfnFile(image, sd, ChainAt(d, 0), name, directory) = f[ChainAt(d, 0)]
                 /\ IsLook(f, image, sd, name, directory)
    <3> HIDE DEF directory, name
    <3> QED BY <1>2, LookIs, Zenon
  <2> QED BY <2>1 DEF IsLook
<1>4. \A j \in 0..(n - 1) :
          /\ ChainAt(d, j) \in Int /\ ChainAt(d, j) # 0
          /\ ClusterToBlock(sd, ChainAt(d, j)) = DirBlock(d) + j
          /\ j # n - 1 => GetNextCluster(image, sd, ChainAt(d, j)) = ChainAt(d, j + 1)
  BY <1>1, DirChain
<1> DEFINE Here(j) == H(ChainAt(d, j)) # -1
<1>5. ASSUME NEW j \in 0..(n - 1), Here(j) PROVE f[ChainAt(d, j)] = first[k]
  <2> DEFINE block == ClusterToBlock(sd, ChainAt(d, j))
  <2> DEFINE hit == H(ChainAt(d, j))
  <2>1. hit = FindSfnEntry(image, block, name, wanted) /\ hit # -1
    BY <1>5 DEF Hit
  <2> HIDE DEF hit, block, name, wanted
  <2>2. /\ hit \in 0..(BlockEntries - 1)
        /\ EntryAt(image, block, hit).attributes \cap Mask = wanted
        /\ EntryAt(image, block, hit).name = name
    BY <2>1, HitIs
  <2> DEFINE e == EntryAt(image, block, hit)
  <2>3. Listed(d, e) \/ e = NoEntry
    <3>1. CASE Stored(image, <<block, hit>>, "attributes")
      <4>1. <<block, hit>> \in DOMAIN image /\ "attributes" \in DOMAIN image[<<block, hit>>]
            /\ e = image[<<block, hit>>]
        BY <3>1 DEF Stored, EntryAt
      <4>2. InDir(d, <<block, hit>>[1])
        <5>1. block = DirBlock(d) + j /\ j \in Nat /\ j < n
          BY <1>1, <1>4 DEF block
        <5> QED BY <1>1, <5>1 DEF InDir
      <4>3. Listings
        BY DEF Written
      <4> QED BY <1>1, <4>1, <4>2, <4>3 DEF Listings
    <3>2. CASE ~Stored(image, <<block, hit>>, "attributes")
      BY <3>2 DEF EntryAt
    <3> QED BY <3>1, <3>2
  <2>4. e.cluster = first[k]
    <3> HIDE DEF e
    <3>1. Listed(Calls[k].dir, e) \/ e = NoEntry
      BY <2>3
    <3>2. /\ wanted = IF Calls[k].op = "directory" THEN FAT_FILE_DIR ELSE {}
          /\ e.attributes \cap Mask = wanted /\ e.name = FatSfn(Calls[k].name)
      BY <2>2 DEF e, wanted, name
    <3> QED BY <3>1, <3>2, EntryIsOne
  <2>5. f[ChainAt(d, j)] = e.cluster
    BY <1>3, <1>4, <2>1 DEF hit, block
  <2> QED BY <2>4, <2>5
<1>6. PICK t \in 0..(n - 1) : Here(t)
  <2>1. PICK b \in Nat, i \in 0..(BlockEntries - 1) :
               /\ InDir(d, b) /\ <<b, i>> \in DOMAIN image /\ image[<<b, i>>] = EntryOf(k)
    BY DEF Written, Present
  <2>2. PICK j \in 0..(n - 1) : b = DirBlock(d) + j
    <3>1. b - DirBlock(d) \in 0..(n - 1) /\ b = DirBlock(d) + (b - DirBlock(d))
      BY <1>1, <2>1 DEF InDir
    <3> QED BY <3>1
  <2>3. ClusterToBlock(sd, ChainAt(d, j)) = b
    <3>1. ClusterToBlock(sd, ChainAt(d, j)) = DirBlock(d) + j
      BY <1>4
    <3> QED BY <2>2, <3>1
  <2>4. EntryAt(image, b, i) = EntryOf(k)
    BY <2>1 DEF EntryAt, Stored, EntryOf, OwnEntry, EntryCell
  <2>5. EntryOf(k).name = name /\ EntryOf(k).attributes = AttributesOf(Calls[k])
    BY DEF EntryOf, OwnEntry, EntryCell
  <2>6. AttributesOf(Calls[k]) \cap Mask = wanted
    <3>1. k \in DOMAIN Calls /\ (Calls[k].op = "directory" <=> Calls[k].op # "file")
      BY <1>1, CallsAre
    <3>2. CASE Calls[k].op = "file"
      <4>1. Calls[k].attributes \cap Mask = {}
        BY <3>1, <3>2, CallsAssumption
      <4> QED BY <3>1, <3>2, <4>1 DEF AttributesOf
    <3>3. CASE Calls[k].op = "directory"
      <4>1. {"dir"} \cap {"volume", "dir"} = {"dir"}
        OBVIOUS
      <4> QED BY <3>1, <3>3, <4>1 DEF AttributesOf, FAT_FILE_DIR, Mask
    <3> QED BY <3>1, <3>2, <3>3
  <2> DEFINE hit == H(ChainAt(d, j))
  <2>7. hit = FindSfnEntry(image, b, name, wanted)
    BY <2>3 DEF Hit
  <2> HIDE DEF hit, name, wanted
  <2>8. hit # -1
    BY <2>1, <2>4, <2>5, <2>6, <2>7, HitIs
  <2> QED BY <2>8 DEF hit
<1>7. \A s \in 0..t : f[ChainAt(d, t - s)] = first[k]
  <2> SUFFICES ASSUME NEW w \in 0..t, f[ChainAt(d, t - w)] # first[k] PROVE FALSE
    OBVIOUS
  <2> DEFINE T == {s \in 0..t : f[ChainAt(d, t - s)] # first[k]}
  <2>1. T \in SUBSET Nat /\ T # {}
    OBVIOUS
  <2>2. PICK s \in T : \A y \in T : s <= y
    BY <2>1, Least
  <2>3. s \in Nat /\ s <= t /\ t \in Nat /\ t < n /\ f[ChainAt(d, t - s)] # first[k]
    BY <1>1
  <2>4. s # 0
    <3>1. s = 0 => t - s = t
      BY <2>3
    <3> QED BY <1>5, <1>6, <2>3, <3>1
  <2>5. s - 1 \in 0..t /\ ~(s <= s - 1)
    BY <2>3, <2>4
  <2>6. f[ChainAt(d, t - (s - 1))] = first[k]
    BY <2>2, <2>5
  <2>7. t - s \in 0..(n - 1) /\ t - s # n - 1 /\ t - (s - 1) = (t - s) + 1
    BY <1>1, <2>3, <2>4, SMTT(20)
  <2>8. ~Here(t - s)
    <3>1. t - s \in 0..(n - 1)
      BY <2>7
    <3> QED BY <1>5, <2>3, <3>1
  <2>9. /\ ChainAt(d, t - s) \in Int /\ ChainAt(d, t - s) # 0
        /\ GetNextCluster(image, sd, ChainAt(d, t - s)) = ChainAt(d, (t - s) + 1)
    BY <1>4, <2>7
  <2>10. f[ChainAt(d, t - s)] = f[ChainAt(d, (t - s) + 1)]
    BY <1>3, <2>8, <2>9
  <2> QED BY <2>3, <2>6, <2>7, <2>10
<1>8. f[ChainAt(d, 0)] = first[k]
  <2>1. t \in 0..t /\ t - t = 0
    BY <1>1
  <2> QED BY <1>7, <2>1
<1> QED BY <1>3, <1>8 DEF FindLfnFile

\* Files by their names, the directories on their way first.
LEMMA FilesAreFound ==
    ASSUME Extended, Written, Room, sd = Geometry, made = Len(Calls)
    PROVE  \A k \in 1..Len(Calls) : Find[k] = first[k]
<1> DEFINE Step(f) ==
        [k \in 0..Len(Calls) |->
            IF k = 0 THEN -1
            ELSE FindLfnFile(image, sd, f[Calls[k].dir], Calls[k].name, Calls[k].op = "directory")]
<1> DEFINE found == [k \in 0..Len(Calls) |-> IF k = 0 THEN -1 ELSE first[k]]
<1>1. Find = CHOOSE f : f = Step(f)
  BY DEF Find
<1>2. ASSUME NEW k \in 1..Len(Calls)
      PROVE  /\ Calls[k].dir \in 0..(k - 1) /\ found[Calls[k].dir] = ChainAt(Calls[k].dir, 0)
             /\ FindLfnFile(image, sd, found[Calls[k].dir], Calls[k].name, Calls[k].op = "directory")
                    = first[k]
  <2>1. Len(Calls) \in Nat /\ Calls[k].dir \in 0..(k - 1)
    BY CallsAre
  <2>2. Calls[k].dir # 0 => first[Calls[k].dir] \in Nat
    <3>1. Calls[k].dir # 0 => Calls[k].dir \in 1..made
      BY <2>1
    <3> QED BY <3>1 DEF Extended, Progress
  <2>3. found[Calls[k].dir] = ChainAt(Calls[k].dir, 0)
    BY <2>1, <2>2 DEF ChainAt
  <2> HIDE DEF found
  <2>4. FindLfnFile(image, sd, ChainAt(Calls[k].dir, 0), Calls[k].name, Calls[k].op = "directory")
            = first[k]
    BY EntryFound
  <2> QED BY <2>1, <2>3, <2>4
<1>3. \E f : f = Step(f)
  <2>1. \A k \in 0..Len(Calls) : found[k] = Step(found)[k]
    <3> TAKE k \in 0..Len(Calls)
    <3>1. CASE k = 0
      BY <3>1
    <3>2. CASE k # 0
      <4>1. k \in 1..Len(Calls)
        BY <3>2, CallsAre
      <4>2. found[k] = first[k]
        BY <3>2
      <4>3. Step(found)[k] = FindLfnFile(image, sd, found[Calls[k].dir], Calls[k].name,
                                         Calls[k].op = "directory")
        BY <3>2
      <4> QED BY <1>2, <4>1, <4>2, <4>3
    <3> QED BY <3>1, <3>2
  <2>2. found = [k \in 0..Len(Calls) |-> found[k]]
    OBVIOUS
  <2>3. Step(found) = [k \in 0..Len(Calls) |-> Step(found)[k]]
    OBVIOUS
  <2> HIDE DEF found, Step
  <2>4. found = Step(found)
    BY <2>1, <2>2, <2>3
  <2> QED BY <2>4
<1> HIDE DEF Step
<1>4. Find = Step(Find)
  BY <1>1, <1>3
<1>5. /\ Find[0] = -1
      /\ \A k \in 1..Len(Calls) :
             Find[k] = FindLfnFile(image, sd, Find[Calls[k].dir], Calls[k].name,
                                   Calls[k].op = "directory")
  <2>1. 0 \in 0..Len(Calls) /\ \A k \in 1..Len(Calls) : k \in 0..Len(Calls) /\ k # 0
    BY CallsAre
  <2> QED BY <1>4, <2>1 DEF Step
<1>6. \A k \in 0..Len(Calls) : Find[k] = found[k]
  <2> SUFFICES ASSUME NEW w \in 0..Len(Calls), Find[w] # found[w] PROVE FALSE
    OBVIOUS
  <2> DEFINE T == {k \in 0..Len(Calls) : Find[k] # found[k]}
  <2>1. T \in SUBSET Nat /\ T # {}
    OBVIOUS
  <2>2. PICK k \in T : \A y \in T : k <= y
    BY <2>1, Least
  <2>3. k # 0
    BY <1>5
  <2>4. k \in 1..Len(Calls) /\ Find[k] # found[k] /\ k \in Nat /\ found[k] = first[k]
    BY <2>3, CallsAre
  <2>5. Calls[k].dir \in 0..(k - 1)
    BY <1>2, <2>4
  <2>6. Calls[k].dir \in 0..Len(Calls) /\ ~(k <= Calls[k].dir)
    BY <2>4, <2>5, CallsAre
  <2>7. Find[Calls[k].dir] = found[Calls[k].dir]
    BY <2>2, <2>6
  <2> HIDE DEF found, T
  <2> QED BY <1>2, <1>5, <2>4, <2>7
<1>7. \A k \in 1..Len(Calls) : k \in 0..Len(Calls) /\ k # 0
  BY CallsAre
<1> QED BY <1>6, <1>7

-----------------------------------------------------------------------------
(***************************************************************************)
(* The first theorem: the device finds all files, as they were made.       *)
(***************************************************************************)
VolumeInv ==
    /\ Extended /\ Written
    /\ sd # NoDisk => sd = Geometry /\ made = Len(Calls)

LEMMA VolumeInit == Init => VolumeInv
  BY InitVolume DEF VolumeInv, Init

LEMMA VolumeSame ==
    ASSUME Extended, Written, UNCHANGED <<image, free_cluster, made, entries, first>>
    PROVE  Extended' /\ Written'
<1>1. Extended'
  BY DEF Extended, Progress, Extents, Places, Fresh, Dirs, DirBlock
<1>2. (Boots /\ Chains /\ Texts)'
  BY DEF Written, Boots, Chains, Texts, FatAt
<1>3. Listings'
  BY DEF Written, Listings, Dirs, InDir, DirBlock, DirSize, Listed, EntryOf
<1>4. Present'
  BY DEF Written, Present, InDir, DirBlock, DirSize, EntryOf
<1> QED BY <1>1, <1>2, <1>3, <1>4 DEF Written

LEMMA VolumeStep ==
    ASSUME VolumeInv, Room', [Next]_vars PROVE VolumeInv'
<1>1. CASE Make
  <2>1. Extended' /\ Written'
    BY <1>1, MakeExtended, MakeWritten DEF VolumeInv
  <2>2. sd' = NoDisk
    <3>1. made < Len(Calls) /\ made \in Int /\ Len(Calls) \in Int
      <4>1. made < Len(Calls)
        BY <1>1 DEF Make
      <4>2. Len(Calls) \in Nat
        BY CallsAre
      <4>3. made \in 0..Len(Calls)
        BY DEF VolumeInv, Extended, Progress
      <4> QED BY <4>1, <4>2, <4>3
    <3>2. made # Len(Calls) /\ sd' = sd
      BY <1>1, <3>1 DEF Make
    <3> QED BY <3>2 DEF VolumeInv
  <2> QED BY <2>1, <2>2 DEF VolumeInv
<1>2. CASE Mount
  <2>1. DiskInit(image) = Geometry
    BY Mounted DEF VolumeInv, Written
  <2>2. sd' = Geometry /\ made' = Len(Calls)
    BY <1>2, <2>1 DEF Mount
  <2>3. Extended' /\ Written'
    BY <1>2, VolumeSame DEF Mount, VolumeInv
  <2> QED BY <2>2, <2>3 DEF VolumeInv
<1>3. CASE UNCHANGED making
  <2>1. Extended' /\ Written'
    BY <1>3, VolumeSame DEF VolumeInv, making
  <2> QED BY <1>3, <2>1 DEF VolumeInv, making
<1>4. Make \/ Mount \/ UNCHANGED making
  BY DEF Next, Run, Read, ReadNextBlock, Putback, Return, Import, vars, making
<1> QED BY <1>1, <1>2, <1>3, <1>4

LEMMA FoundThere ==
    ASSUME VolumeInv, Room, sd # NoDisk
    PROVE  /\ DOMAIN Calls = 1..Len(Calls) /\ sd = Geometry
           /\ \A k \in DOMAIN Calls :
                 /\ Find[k] = first[k] /\ first[k] \in Nat /\ first[k] >= 2
                 /\ InARow(first[k], Clusters(Calls[k]))
                 /\ Calls[k].op = "file" => HasText(first[k], k)
<1>1. /\ Extended /\ Written /\ sd = Geometry /\ made = Len(Calls)
      /\ DOMAIN Calls = 1..Len(Calls)
  BY CallsAre DEF VolumeInv
<1>2. \A k \in 1..Len(Calls) : Find[k] = first[k] /\ first[k] \in Nat /\ first[k] >= 2
  BY <1>1, FilesAreFound DEF Extended, Progress, Extents
<1>3. ASSUME NEW k \in 1..Len(Calls) PROVE InARow(first[k], Clusters(Calls[k]))
  BY <1>1, NextInRow DEF InARow
<1>4. ASSUME NEW k \in 1..Len(Calls), Calls[k].op = "file" PROVE HasText(first[k], k)
  <2> SUFFICES ASSUME NEW j \in 0..(Clusters(Calls[k]) - 1), NEW i \in 0..(BlockChars - 1)
               PROVE  CharAt(image, ClusterToBlock(sd, first[k] + j), i)
                          = CharDue(k, j * BlockChars + i + 1)
    BY DEF HasText
  <2>1. ClusterToBlock(sd, first[k] + j) = BufferForCluster(first[k] + j)
    BY <1>1, NextInRow
  <2>2. CharAt(image, BufferForCluster(first[k] + j), i) = CharDue(k, j * BlockChars + i + 1)
    BY <1>1, <1>4 DEF Written, Texts
  <2> QED BY <2>1, <2>2
<1> QED BY <1>1, <1>2, <1>3, <1>4

\* Every file and directory of every list of calls that the volume has room for is found
\* by the names on its way: where make_fs put it, in a row, with its text.
THEOREM FilesFound == Spec /\ []Room => []FoundAsMade
<1>1. VolumeInv /\ Room => FoundAsMade
  BY FoundThere DEF FoundAsMade
<1> QED BY <1>1, VolumeInit, VolumeStep, PTL DEF Spec

-----------------------------------------------------------------------------
(***************************************************************************)
(* The second theorem: a script gets the text of its file.                 *)
(***************************************************************************)
Readable == {k \in DOMAIN Calls : Calls[k].op = "file" /\ Calls[k].length > 0}
Readings == [file : {0} \cup Readable, n : Nat]

\* n characters of a file are read, up to a place in one of its blocks
InText(r, index, cluster) ==
    /\ r.file # 0 /\ r.n <= Len(Calls[r.file].content) /\ index \in 0..BlockChars
    /\ \E j \in 0..(Clusters(Calls[r.file]) - 1) :
           cluster = first[r.file] + j /\ r.n = j * BlockChars + index
Frames ==
    {frame \in [index : Int, cluster : Int, reading : Readings] :
         InText(frame.reading, frame.index, frame.cluster)}

ReadInv ==
    /\ reading \in Readings /\ stopped \in BOOLEAN /\ saved \in Seq(Frames)
    /\ sd = NoDisk => reading.file = 0 /\ saved = <<>> /\ given.file = 0
    /\ reading.file # 0 /\ ~stopped /\ buf_index # -1 =>
           /\ InText(reading, buf_index, file_cluster)
           /\ buf = ClusterToBlock(sd, file_cluster)
    /\ given.file # 0 =>
           /\ given.char = CharDue(given.file, given.n)
           /\ stopped => given.n = Len(Calls[given.file].content) + 1
           /\ given.char # NUL => buf_index \in Nat \ {0}

LEMMA TextIs ==
    ASSUME NEW k \in Readable
    PROVE  /\ k \in 1..Len(Calls) /\ k \in DOMAIN Calls /\ k # 0 /\ Calls[k].op = "file"
           /\ Clusters(Calls[k]) \in Nat \ {0} /\ Len(Calls[k].content) \in Nat
           /\ Len(Calls[k].content) <= Clusters(Calls[k]) * BlockChars
           /\ \A n \in Nat \ {0} : CharDue(k, n) = NUL <=> n > Len(Calls[k].content)
<1>1. /\ k \in 1..Len(Calls) /\ k \in DOMAIN Calls /\ k # 0 /\ Calls[k].op = "file"
      /\ Calls[k].length > 0 /\ BlockChars \in Nat \ {0}
  BY CallsAre, SizesAre DEF Readable
<1>2. /\ Calls[k].length \in Nat /\ Len(Calls[k].content) <= Calls[k].length
      /\ Calls[k].content \in Seq(ToSet(Calls[k].content) \ {NUL})
  BY <1>1, CallsAssumption
<1> DEFINE n == Clusters(Calls[k])
<1>3. n = (Calls[k].length + BlockChars - 1) \div BlockChars
  BY <1>1, CallsAre
<1> HIDE DEF n
<1>4. n \in Nat /\ n * BlockChars >= Calls[k].length
  BY <1>1, <1>2, <1>3, ClustersRound
<1>5. n # 0
  <2>1. n = 0 => n * BlockChars = 0
    BY <1>1
  <2> QED BY <1>1, <1>2, <1>4, <2>1
<1>6. Len(Calls[k].content) \in Nat
  BY <1>2
<1>7. Len(Calls[k].content) <= n * BlockChars
  <2>1. n * BlockChars \in Nat
    BY <1>1, <1>4
  <2> QED BY <1>2, <1>4, <1>6, <2>1
<1>8. \A m \in Nat \ {0} : CharDue(k, m) = NUL <=> m > Len(Calls[k].content)
  <2>1. \A m \in 1..Len(Calls[k].content) : Calls[k].content[m] # NUL
    BY <1>2
  <2> QED BY <1>6, <2>1 DEF CharDue, CharOf
<1> QED BY <1>1, <1>4, <1>5, <1>6, <1>7, <1>8 DEF n

\* The character at a place of a text is the next one that is due.
LEMMA CharThere ==
    ASSUME VolumeInv, Room, sd # NoDisk, NEW r \in Readings, NEW index, NEW cluster,
           InText(r, index, cluster), index # BlockChars
    PROVE  /\ CharAt(image, ClusterToBlock(sd, cluster), index) = CharDue(r.file, r.n + 1)
           /\ index \in Nat
<1>1. r.file \in Readable /\ r.n \in Nat
  BY DEF InText, Readings
<1>2. PICK j \in 0..(Clusters(Calls[r.file]) - 1) :
          cluster = first[r.file] + j /\ r.n = j * BlockChars + index
  BY DEF InText
<1>3. index \in 0..(BlockChars - 1) /\ index \in Nat
  BY SizesAre DEF InText
<1>4. HasText(first[r.file], r.file)
  BY <1>1, TextIs, FoundThere
<1>5. CharAt(image, ClusterToBlock(sd, cluster), index) = CharDue(r.file, j * BlockChars + index + 1)
  BY <1>2, <1>3, <1>4 DEF HasText
<1> QED BY <1>2, <1>3, <1>5

LEMMA TextGoesOn ==
    ASSUME NEW r \in Readings, NEW index, NEW cluster, NEW char, NEW new,
           InText(r, index, cluster), index # BlockChars, char = CharDue(r.file, r.n + 1),
           new = [r EXCEPT !.n = IF char = NUL THEN @ ELSE @ + 1]
    PROVE  /\ new \in Readings /\ new.file = r.file /\ index + 1 \in Nat \ {0}
           /\ char # NUL => InText(new, index + 1, cluster)
<1>1. r.file \in Readable /\ r.n \in Nat /\ r.file \in {0} \cup Readable
  BY DEF InText, Readings
<1>2. new \in Readings /\ new.file = r.file
  BY <1>1 DEF Readings
<1>3. index \in 0..BlockChars /\ index \in Nat /\ BlockChars \in Nat
  BY SizesAre DEF InText
<1>4. ASSUME char # NUL PROVE InText(new, index + 1, cluster)
  <2>1. new.n = r.n + 1
    BY <1>1, <1>4 DEF Readings
  <2>2. r.n + 1 <= Len(Calls[r.file].content)
    <3>1. CharDue(r.file, r.n + 1) = NUL <=> r.n + 1 > Len(Calls[r.file].content)
      BY <1>1, TextIs
    <3>2. Len(Calls[r.file].content) \in Nat
      BY <1>1, TextIs
    <3> QED BY <1>1, <1>4, <3>1, <3>2
  <2>3. index + 1 \in 0..BlockChars
    BY <1>3
  <2>4. PICK j \in 0..(Clusters(Calls[r.file]) - 1) :
            cluster = first[r.file] + j /\ r.n = j * BlockChars + index
    BY DEF InText
  <2>5. r.n + 1 = j * BlockChars + (index + 1)
    <3>1. Clusters(Calls[r.file]) \in Nat
      BY <1>1, TextIs
    <3>2. j \in Nat
      BY <3>1
    <3>3. j * BlockChars \in Nat
      BY <1>3, <3>2
    <3> QED BY <1>3, <2>4, <3>3
  <2>6. new.file # 0
    BY <1>2 DEF InText
  <2> QED BY <1>2, <2>1, <2>2, <2>3, <2>4, <2>5, <2>6 DEF InText
<1> QED BY <1>2, <1>3, <1>4

LEMMA TextStarts ==
    ASSUME VolumeInv, Room, sd # NoDisk, NEW k \in Readable
    PROVE  /\ Find[k] = first[k] /\ Find[k] # 0 /\ [file |-> k, n |-> 0] \in Readings
           /\ InText([file |-> k, n |-> 0], 0, Find[k])
<1>1. /\ k \in DOMAIN Calls /\ k # 0 /\ Clusters(Calls[k]) \in Nat \ {0}
      /\ Len(Calls[k].content) \in Nat
  BY TextIs
<1>2. Find[k] = first[k] /\ first[k] \in Nat /\ first[k] >= 2
  BY <1>1, FoundThere
<1>3. 0 \in 0..(Clusters(Calls[k]) - 1) /\ 0 \in 0..BlockChars /\ 0 = 0 * BlockChars + 0
      /\ first[k] = first[k] + 0
  BY <1>1, <1>2, SizesAre
<1> QED BY <1>1, <1>2, <1>3 DEF InText, Readings

LEMMA ReadInit == Init => ReadInv
<1> SUFFICES ASSUME Init PROVE ReadInv
  OBVIOUS
<1>1. reading = [file |-> 0, n |-> 0] /\ saved = <<>> /\ given.file = 0 /\ stopped = FALSE
  BY DEF Init
<1>2. reading \in Readings /\ reading.file = 0 /\ saved \in Seq(Frames)
  BY <1>1 DEF Readings
<1> QED BY <1>1, <1>2 DEF ReadInv

LEMMA MakingSteps ==
    ASSUME ReadInv, VolumeInv, Make \/ Mount \/ UNCHANGED vars PROVE ReadInv'
<1>1. CASE Make \/ Mount
  <2>1. sd = NoDisk
    <3>1. CASE Mount
      BY <3>1 DEF Mount
    <3>2. CASE Make
      <4>1. made < Len(Calls)
        BY <3>2 DEF Make
      <4>2. Len(Calls) \in Nat
        BY CallsAre
      <4>3. made \in 0..Len(Calls)
        BY DEF VolumeInv, Extended, Progress
      <4>4. made # Len(Calls)
        BY <4>1, <4>2, <4>3
      <4> QED BY <4>4 DEF VolumeInv
    <3> QED BY <1>1, <3>1, <3>2
  <2>2. UNCHANGED source
    BY <1>1 DEF Make, Mount
  <2>3. reading' = reading /\ reading.file = 0 /\ saved' = <<>> /\ given'.file = 0
        /\ reading \in Readings /\ stopped' \in BOOLEAN
    BY <2>1, <2>2 DEF ReadInv, source
  <2>4. saved' \in Seq(Frames')
    BY <2>3
  <2> QED BY <2>3, <2>4 DEF ReadInv, Readings, Readable
<1>2. CASE UNCHANGED vars
  BY <1>2 DEF ReadInv, vars, Frames, InText
<1> QED BY <1>1, <1>2

LEMMA RunStep ==
    ASSUME ReadInv, VolumeInv, Room, Run PROVE ReadInv'
<1>1. /\ sd # NoDisk /\ reading.file = 0 /\ reading' = [file |-> RunFile, n |-> 0]
      /\ file_cluster' = Find[RunFile] /\ buf_index' = IF Find[RunFile] = 0 THEN -1 ELSE 0
      /\ stopped' = (Find[RunFile] = 0)
      /\ buf' = IF Find[RunFile] = 0 THEN buf ELSE ClusterToBlock(sd, Find[RunFile])
      /\ given'.file = 0 /\ saved' = saved /\ sd' = sd /\ first' = first
  BY DEF Run, making
<1>2. RunFile \in Readable
  BY ReadAssumption DEF Readable
<1>3. /\ Find[RunFile] # 0 /\ reading' \in Readings
      /\ InText([file |-> RunFile, n |-> 0], 0, Find[RunFile])
  BY <1>1, <1>2, TextStarts
<1>4. saved' \in Seq(Frames')
  BY <1>1 DEF ReadInv, Frames, InText
<1>5. InText(reading, buf_index, file_cluster)'
  BY <1>1, <1>3 DEF InText
<1> QED BY <1>1, <1>3, <1>4, <1>5 DEF ReadInv, Readings, Readable

LEMMA PlaceInText ==
    ASSUME ReadInv, VolumeInv, reading.file # 0, ~stopped, buf_index # -1
    PROVE  /\ InText(reading, buf_index, file_cluster) /\ buf = ClusterToBlock(sd, file_cluster)
           /\ sd # NoDisk /\ reading \in Readings /\ reading.file \in Readable /\ reading.n \in Nat
           /\ saved \in Seq(Frames) /\ buf_index \in 0..BlockChars /\ BlockChars \in Nat \ {0}
  BY SizesAre DEF ReadInv, InText, Readings

LEMMA ReadStep ==
    ASSUME ReadInv, VolumeInv, Room, Read PROVE ReadInv'
<1> DEFINE c == CharAt(image, buf, buf_index)
<1>1. /\ reading.file # 0 /\ ~stopped /\ buf_index \in 0..(BlockChars - 1)
      /\ buf_index' = IF c = NUL THEN -1 ELSE buf_index + 1
      /\ given' = [file |-> reading.file, n |-> reading.n + 1, char |-> c]
      /\ reading' = [reading EXCEPT !.n = IF c = NUL THEN @ ELSE @ + 1]
      /\ sd' = sd /\ first' = first /\ buf' = buf /\ file_cluster' = file_cluster
      /\ saved' = saved /\ stopped' = stopped
  BY DEF Read, Take, making
<1>2. buf_index # -1 /\ buf_index # BlockChars
  BY <1>1, SizesAre
<1>3. /\ InText(reading, buf_index, file_cluster) /\ buf = ClusterToBlock(sd, file_cluster)
      /\ sd # NoDisk /\ reading \in Readings /\ saved \in Seq(Frames)
  BY <1>1, <1>2, PlaceInText
<1>4. c = CharDue(reading.file, reading.n + 1)
  BY <1>2, <1>3, CharThere
<1> HIDE DEF c
<1>5. /\ reading' \in Readings /\ reading'.file = reading.file /\ buf_index + 1 \in Nat \ {0}
      /\ c # NUL => InText(reading', buf_index + 1, file_cluster)
  <2>1. PICK new : new = [reading EXCEPT !.n = IF c = NUL THEN @ ELSE @ + 1]
    OBVIOUS
  <2>2. /\ new \in Readings /\ new.file = reading.file /\ buf_index + 1 \in Nat \ {0}
        /\ c # NUL => InText(new, buf_index + 1, file_cluster)
    BY <1>2, <1>3, <1>4, <2>1, TextGoesOn
  <2> QED BY <1>1, <2>1, <2>2
<1>6. saved' \in Seq(Frames')
  BY <1>1, <1>3 DEF Frames, InText
<1>7. buf_index' # -1 => InText(reading, buf_index, file_cluster)'
  BY <1>1, <1>5 DEF InText
<1>8. given'.file = reading.file /\ given'.n = reading.n + 1 /\ given'.char = c
  BY <1>1
<1>9. given'.char = CharDue(given'.file, given'.n)
  BY <1>4, <1>8
<1> QED BY <1>1, <1>3, <1>5, <1>6, <1>7, <1>8, <1>9 DEF ReadInv, Readings, Readable, CharDue

LEMMA ReadNextBlockStep ==
    ASSUME ReadInv, VolumeInv, Room, ReadNextBlock PROVE ReadInv'
<1> DEFINE next == GetNextCluster(image, sd, file_cluster)
<1> DEFINE c == CharAt(image, ClusterToBlock(sd, next), 0)
<1>1. /\ reading.file # 0 /\ ~stopped /\ buf_index = BlockChars /\ file_cluster' = next
      /\ sd' = sd /\ first' = first /\ saved' = saved
      /\ \/ /\ next # 0 /\ buf' = ClusterToBlock(sd, next) /\ stopped' = stopped
            /\ buf_index' = IF c = NUL THEN -1 ELSE 0 + 1
            /\ given' = [file |-> reading.file, n |-> reading.n + 1, char |-> c]
            /\ reading' = [reading EXCEPT !.n = IF c = NUL THEN @ ELSE @ + 1]
         \/ /\ next = 0 /\ buf_index' = -1 /\ stopped' = TRUE
            /\ given' = [file |-> reading.file, n |-> reading.n + 1, char |-> NUL]
            /\ reading' = reading
  BY DEF ReadNextBlock, Take, making
<1>2. buf_index # -1
  BY <1>1, SizesAre
<1>3. /\ InText(reading, buf_index, file_cluster)
      /\ sd # NoDisk /\ reading \in Readings /\ reading.file \in Readable /\ reading.n \in Nat
      /\ saved \in Seq(Frames) /\ BlockChars \in Nat \ {0}
  BY <1>1, <1>2, PlaceInText
<1> DEFINE k == reading.file
<1> DEFINE n == Clusters(Calls[k])
<1>4. /\ k \in DOMAIN Calls /\ n \in Nat \ {0} /\ Len(Calls[k].content) \in Nat
      /\ Len(Calls[k].content) <= n * BlockChars
      /\ \A m \in Nat \ {0} : CharDue(k, m) = NUL <=> m > Len(Calls[k].content)
  BY <1>3, TextIs
<1> HIDE DEF n
<1>5. PICK j \in 0..(n - 1) : /\ file_cluster = first[k] + j /\ reading.n = j * BlockChars + BlockChars
                              /\ reading.n <= Len(Calls[k].content)
  BY <1>1, <1>3 DEF InText, n
<1>6. first[k] \in Nat /\ first[k] >= 2 /\ InARow(first[k], n)
  BY <1>3, <1>4, FoundThere DEF n
<1>7. next = IF j = n - 1 THEN 0 ELSE first[k] + j + 1
  BY <1>5, <1>6 DEF InARow
<1> HIDE DEF next
<1>8. j \in Nat /\ j < n /\ (j + 1) * BlockChars = j * BlockChars + BlockChars
      /\ j * BlockChars \in Nat
  <2>1. j \in Nat /\ j < n
    BY <1>4
  <2> QED BY <1>3, <2>1
<1>9. saved' \in Seq(Frames')
  BY <1>1, <1>3 DEF Frames, InText
<1>10. CASE next # 0
  <2>1. /\ j + 1 \in 0..(n - 1) /\ next = first[k] + (j + 1)
    BY <1>4, <1>6, <1>7, <1>8, <1>10
  <2>2. InText(reading, 0, next)
    <3>1. 0 \in 0..BlockChars /\ reading.n = (j + 1) * BlockChars + 0
      BY <1>3, <1>5, <1>8
    <3> QED BY <1>1, <1>5, <2>1, <3>1 DEF InText, n
  <2>3. 0 # BlockChars
    BY <1>3
  <2>4. c = CharDue(k, reading.n + 1)
    BY <1>3, <2>2, <2>3, CharThere
  <2> HIDE DEF c
  <2>5. reading' = [reading EXCEPT !.n = IF c = NUL THEN @ ELSE @ + 1]
    BY <1>1, <1>10
  <2>6. /\ reading' \in Readings /\ reading'.file = k
        /\ c # NUL => InText(reading', 0 + 1, next)
    <3>1. PICK new : new = [reading EXCEPT !.n = IF c = NUL THEN @ ELSE @ + 1]
      OBVIOUS
    <3>2. /\ new \in Readings /\ new.file = k
          /\ c # NUL => InText(new, 0 + 1, next)
      <4>1. PICK index : index = 0
        OBVIOUS
      <4>2. InText(reading, index, next) /\ index # BlockChars /\ reading \in Readings
        BY <1>3, <2>2, <2>3, <4>1
      <4>3. /\ new \in Readings /\ new.file = reading.file
            /\ c # NUL => InText(new, index + 1, next)
        BY <2>4, <3>1, <4>2, TextGoesOn
      <4> QED BY <4>1, <4>3
    <3> QED BY <2>5, <3>1, <3>2
  <2>7. buf_index' # -1 => InText(reading, buf_index, file_cluster)'
    BY <1>1, <1>10, <2>6 DEF InText
  <2>8. given'.file = k /\ given'.n = reading.n + 1 /\ given'.char = c
    BY <1>1, <1>10
  <2>9. given'.char = CharDue(given'.file, given'.n)
    BY <2>4, <2>8
  <2>10. given'.char # NUL => buf_index' \in Nat \ {0}
    BY <1>1, <1>10, <2>8
  <2>11. buf' = ClusterToBlock(sd, file_cluster') /\ stopped' = FALSE
    BY <1>1, <1>10 DEF ReadInv
  <2> QED BY <1>1, <1>3, <1>9, <2>6, <2>7, <2>9, <2>10, <2>11 DEF ReadInv, Readings, Readable, CharDue
<1>11. CASE next = 0
  <2>1. /\ stopped' = TRUE /\ reading' = reading /\ buf_index' = -1
        /\ given'.file = k /\ given'.n = reading.n + 1 /\ given'.char = NUL
    BY <1>1, <1>11
  <2>2. j = n - 1
    BY <1>6, <1>7, <1>8, <1>11
  <2>3. reading.n = Len(Calls[k].content)
    <3>1. reading.n = n * BlockChars
      <4>1. n = j + 1
        BY <1>4, <2>2
      <4> QED BY <1>5, <1>8, <4>1
    <3> QED BY <1>3, <1>4, <1>5, <3>1
  <2>4. CharDue(k, reading.n + 1) = NUL
    <3>1. PICK m : m = reading.n + 1
      OBVIOUS
    <3>2. m \in Nat \ {0} /\ m > Len(Calls[k].content)
      BY <1>3, <2>3, <3>1
    <3>3. CharDue(k, m) = NUL
      BY <1>4, <3>2
    <3> QED BY <3>1, <3>3
  <2> QED BY <1>1, <1>3, <1>9, <2>1, <2>3, <2>4 DEF ReadInv, Readings, Readable, CharDue
<1> QED BY <1>10, <1>11

LEMMA PutbackStep ==
    ASSUME ReadInv, VolumeInv, Putback PROVE ReadInv'
<1>1. /\ reading.file # 0 /\ ~stopped /\ given.char # NUL /\ given.file = reading.file
      /\ buf_index' = buf_index - 1 /\ reading' = [reading EXCEPT !.n = @ - 1]
      /\ given'.file = 0 /\ sd' = sd /\ first' = first /\ buf' = buf
      /\ file_cluster' = file_cluster /\ saved' = saved /\ stopped' = stopped
  BY DEF Putback, making
<1>2. buf_index \in Nat \ {0} /\ buf_index # -1
  BY <1>1 DEF ReadInv
<1>3. /\ InText(reading, buf_index, file_cluster) /\ buf = ClusterToBlock(sd, file_cluster)
      /\ sd # NoDisk /\ reading \in Readings /\ reading.file \in Readable /\ reading.n \in Nat
      /\ saved \in Seq(Frames) /\ buf_index \in 0..BlockChars /\ BlockChars \in Nat \ {0}
  BY <1>1, <1>2, PlaceInText
<1>4. PICK j \in 0..(Clusters(Calls[reading.file]) - 1) :
          file_cluster = first[reading.file] + j /\ reading.n = j * BlockChars + buf_index
  BY <1>3 DEF InText
<1>5. reading.n - 1 \in Nat /\ reading.n - 1 = j * BlockChars + (buf_index - 1)
      /\ buf_index - 1 \in 0..BlockChars /\ reading.n - 1 <= Len(Calls[reading.file].content)
  <2>1. Clusters(Calls[reading.file]) \in Nat /\ Len(Calls[reading.file].content) \in Nat
    BY <1>3, TextIs
  <2>2. j \in Nat
    BY <2>1
  <2>3. j * BlockChars \in Nat
    BY <1>3, <2>2
  <2>4. reading.n <= Len(Calls[reading.file].content)
    BY <1>3 DEF InText
  <2> QED BY <1>2, <1>3, <1>4, <2>1, <2>3, <2>4
<1>6. reading'.file = reading.file /\ reading'.n = reading.n - 1 /\ reading' \in Readings
  BY <1>1, <1>3, <1>5 DEF Readings
<1>7. InText(reading', buf_index', file_cluster)
  BY <1>1, <1>4, <1>5, <1>6 DEF InText
<1>8. saved' \in Seq(Frames')
  BY <1>1, <1>3 DEF Frames, InText
<1>9. InText(reading, buf_index, file_cluster)'
  BY <1>1, <1>7 DEF InText
<1> QED BY <1>1, <1>3, <1>6, <1>8, <1>9 DEF ReadInv, Readings, Readable

LEMMA ImportStep ==
    ASSUME ReadInv, VolumeInv, Room, NEW k \in Libraries, Import(k) PROVE ReadInv'
<1> DEFINE frame == [index |-> buf_index, cluster |-> file_cluster, reading |-> reading]
<1> DEFINE cluster == IF k = 0 THEN 0 ELSE Find[k]
<1>1. /\ reading.file # 0 /\ ~stopped /\ buf_index # -1
      /\ saved' = <<frame>> \o saved /\ file_cluster' = cluster
      /\ buf_index' = IF cluster = 0 THEN -1 ELSE 0
      /\ stopped' = (stopped \/ cluster = 0)
      /\ buf' = IF cluster = 0 THEN buf ELSE ClusterToBlock(sd, cluster)
      /\ reading' = [file |-> k, n |-> 0] /\ given'.file = 0 /\ sd' = sd /\ first' = first
  BY DEF Import, FileSource, making
<1>2. /\ InText(reading, buf_index, file_cluster) /\ sd # NoDisk /\ reading \in Readings
      /\ reading.file \in Readable /\ saved \in Seq(Frames) /\ buf_index \in 0..BlockChars
      /\ stopped \in BOOLEAN
  BY <1>1, PlaceInText DEF ReadInv
<1>3. frame \in Frames
  <2>1. file_cluster \in Int
    <3>1. first[reading.file] \in Nat
      BY <1>2, TextIs, FoundThere
    <3>2. PICK j \in 0..(Clusters(Calls[reading.file]) - 1) : file_cluster = first[reading.file] + j
      BY <1>2 DEF InText
    <3> QED BY <3>1, <3>2
  <2>2. buf_index \in Int
    BY <1>2, SizesAre
  <2> QED BY <1>2, <2>1, <2>2 DEF Frames
<1>4. saved' \in Seq(Frames)
  <2> HIDE DEF frame
  <2>1. <<frame>> \in Seq(Frames)
    BY <1>3
  <2> QED BY <1>1, <1>2, <2>1, ConcatProperties
<1>5. saved' \in Seq(Frames')
  BY <1>1, <1>4 DEF Frames, InText
<1>6. CASE k = 0
  <2>1. stopped' = TRUE /\ reading' = [file |-> 0, n |-> 0]
    BY <1>1, <1>6
  <2> QED BY <1>1, <1>2, <1>5, <2>1 DEF ReadInv, Readings, Readable
<1>7. CASE k # 0
  <2>1. k \in Readable
    BY <1>7, ReadAssumption DEF Readable
  <2>2. /\ Find[k] # 0 /\ [file |-> k, n |-> 0] \in Readings
        /\ InText([file |-> k, n |-> 0], 0, Find[k])
    BY <1>2, <2>1, TextStarts
  <2>3. InText(reading, buf_index, file_cluster)'
    BY <1>1, <1>7, <2>2 DEF InText
  <2>4. stopped' = stopped /\ buf' = ClusterToBlock(sd, file_cluster')
    BY <1>1, <1>2, <1>7, <2>2
  <2> QED BY <1>1, <1>2, <1>5, <2>2, <2>3, <2>4 DEF ReadInv, Readings, Readable
<1> QED BY <1>6, <1>7

LEMMA ReturnStep ==
    ASSUME ReadInv, VolumeInv, Return PROVE ReadInv'
<1>1. sd # NoDisk /\ given'.file = 0 /\ sd' = sd /\ first' = first /\ stopped' = stopped
      /\ stopped \in BOOLEAN /\ saved \in Seq(Frames)
  BY DEF Return, making, ReadInv
<1>2. CASE /\ saved # <<>> /\ buf' = ClusterToBlock(sd, saved[1].cluster)
           /\ buf_index' = saved[1].index /\ file_cluster' = saved[1].cluster
           /\ reading' = saved[1].reading /\ saved' = Tail(saved)
  <2>1. saved[1] \in Frames /\ saved' \in Seq(Frames)
    BY <1>1, <1>2, HeadTailProperties, ElementOfSeq
  <2>2. /\ saved[1].reading \in Readings
        /\ InText(saved[1].reading, saved[1].index, saved[1].cluster)
    BY <2>1 DEF Frames
  <2>3. saved' \in Seq(Frames')
    BY <1>1, <2>1 DEF Frames, InText
  <2>4. InText(reading, buf_index, file_cluster)'
    BY <1>1, <1>2, <2>2 DEF InText
  <2> QED BY <1>1, <1>2, <2>2, <2>3, <2>4 DEF ReadInv, Readings, Readable
<1>3. CASE saved = <<>> /\ reading' = [file |-> 0, n |-> 0] /\ saved' = saved
  <2>1. saved' \in Seq(Frames') /\ reading' \in Readings /\ reading'.file = 0
    BY <1>3 DEF Readings
  <2> QED BY <1>1, <2>1 DEF ReadInv, Readings, Readable
<1>4. \/ /\ saved # <<>> /\ buf' = ClusterToBlock(sd, saved[1].cluster)
         /\ buf_index' = saved[1].index /\ file_cluster' = saved[1].cluster
         /\ reading' = saved[1].reading /\ saved' = Tail(saved)
      \/ saved = <<>> /\ reading' = [file |-> 0, n |-> 0] /\ saved' = saved
  BY DEF Return, BlockAgain
<1> QED BY <1>2, <1>3, <1>4

LEMMA ReadInvStep ==
    ASSUME ReadInv, VolumeInv, Room, [Next]_vars PROVE ReadInv'
<1>1. CASE Make \/ Mount \/ UNCHANGED vars
  BY <1>1, MakingSteps
<1>2. CASE Run
  BY <1>2, RunStep
<1>3. CASE Read
  BY <1>3, ReadStep
<1>4. CASE ReadNextBlock
  BY <1>4, ReadNextBlockStep
<1>5. CASE Putback
  BY <1>5, PutbackStep
<1>6. CASE Return
  BY <1>6, ReturnStep
<1>7. CASE \E k \in Libraries : Import(k)
  BY <1>7, ImportStep
<1> QED BY <1>1, <1>2, <1>3, <1>4, <1>5, <1>6, <1>7 DEF Next

\* On every volume that has room, a script and what it imports get the characters of
\* their files one after the other, and then their end.
THEOREM TextRead == Spec /\ []Room => []TextDelivered
<1>1. ReadInv => TextDelivered
  BY DEF ReadInv, TextDelivered
<1> QED BY <1>1, VolumeInit, VolumeStep, ReadInit, ReadInvStep, PTL DEF Spec
=============================================================================
