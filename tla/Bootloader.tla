------------------------------ MODULE Bootloader ------------------------------
(***************************************************************************)
(* bootloader.c and bootloader_sdihex.c: at every reset the bootloader     *)
(* looks for a file of io/boot whose name is a version and a CRC.  When    *)
(* the version is not the one in the EEPROM, the file is read once to      *)
(* check its CRC and a second time to program the application, and the     *)
(* version is stored.  Power may go at any point; the card may be missing, *)
(* a block may not be readable, and the user may copy another file.        *)
(***************************************************************************)
EXTENDS Naturals, Sequences

CONSTANTS
    Bytes,          \* characters of a version, as stored in the EEPROM
    Always,          \* 'X': a version that starts with it is always loaded again
    Outside,        \* characters that a name may not have
    Blank,          \* one of them, 0xFF: a byte of an EEPROM that was never written
    Images,         \* the applications
    PagesOf,        \* PagesOf[i]: SPM pages of image i
    NumPages,       \* pages of the application area
    BootFiles       \* files a user may have put in io/boot

(***************************************************************************)
(* A file says what version it is, and holds an image; sound is that the   *)
(* CRC of the data is the one in the name.  A file that is not sound is    *)
(* damaged: its data is not the image's.                                   *)
(***************************************************************************)
Names == Bytes \X Bytes

ASSUME BytesAssumption == Always \in Bytes /\ Outside \subseteq Bytes /\ Blank \in Outside
ASSUME ImagesAssumption ==
    NumPages \in Nat /\ PagesOf \in [Images -> 1..NumPages]
ASSUME BootFilesAssumption ==
    /\ BootFiles \subseteq [version : Names, image : Images, sound : BOOLEAN]
    /\ "none" \notin Images
    /\ \A f, g \in BootFiles : f.version = g.version => f.image = g.image

Pages == 1..NumPages
Part(i, p) == [image |-> i, page |-> p]
Garbage == [image |-> "garbage", page |-> 0]
Erased == [image |-> "erased", page |-> 0]

VARIABLES
    flash,          \* the application area
    eeprom,         \* the version at PHATIO_VERSION_ADDR
    dir,            \* the files of io/boot, in the order of the directory
    pc,             \* where the bootloader is; "app" after its jump to 0
    file,           \* the file it loads
    page,           \* the next page to program
    good,           \* the reads of this pass have succeeded: its CRC is right
    installed,      \* history: the file that was loaded last, or NoFile
    partial,        \* history: a later load has begun and has not finished
    failed          \* find_and_load_bootfile has returned false since the reset

vars == <<flash, eeprom, dir, pc, file, page, good, installed, partial, failed>>

NoFile == [version |-> <<Blank, Blank>>, image |-> "none", sound |-> FALSE]
Points == {"reset", "find", "check", "erase", "write", "record", "app"}

TypeOK ==
    /\ flash \in [Pages -> [image : Images, page : Pages] \cup {Garbage, Erased}]
    /\ eeprom \in Names /\ dir \in Seq(BootFiles)
    /\ pc \in Points /\ file \in BootFiles \cup {NoFile}
    /\ page \in 1..(NumPages + 1) /\ good \in BOOLEAN
    /\ installed \in BootFiles \cup {NoFile}
    /\ partial \in BOOLEAN /\ failed \in BOOLEAN

\* a board that has never loaded a file
Init ==
    /\ flash = [p \in Pages |-> Garbage]
    /\ eeprom = <<Blank, Blank>> /\ dir = <<>>
    /\ pc = "reset" /\ file = NoFile /\ page = 1 /\ good = TRUE
    /\ installed = NoFile /\ partial = TRUE /\ failed = FALSE

-----------------------------------------------------------------------------
\* find_and_load_bootfile: the first file whose name is one
Named(f) == f.version[1] \notin Outside /\ f.version[2] \notin Outside
Candidates == {n \in DOMAIN dir : Named(dir[n])}
First(S) == {n \in S : \A m \in S : n <= m}

CompareShort(f) == eeprom[1] # Always /\ eeprom[1] = f.version[1]   \* mutant: one byte
\* check_bootfile: strncmp(name, version, 4) and version[0] == 'X'
UpToDate(f) == eeprom[1] # Always /\ eeprom = f.version

\* main: sd_init and disk_init, or the application without a card
Start ==
    /\ pc = "reset"
    /\ pc' \in {"find", "app"}
    /\ UNCHANGED <<flash, eeprom, dir, file, page, good, installed, partial, failed>>

Find ==
    /\ pc = "find"
    /\ \/ Candidates = {} /\ pc' = "app" /\ UNCHANGED file
       \/ \E n \in First(Candidates) :
             /\ file' = dir[n]
             /\ pc' = IF UpToDate(dir[n]) THEN "app" ELSE "check"
    /\ UNCHANGED <<flash, eeprom, dir, page, good, installed, partial, failed>>

Unchecked == TRUE   \* mutant: the CRC of the first pass is not looked at
FirstCrc == file.sound

\* load_bootfile(false), and the comparison of its CRC with the name's
Check ==
    /\ pc = "check"
    /\ IF FirstCrc THEN pc' = "erase" /\ UNCHANGED failed
                   ELSE pc' = "app" /\ failed' = TRUE
    /\ UNCHANGED <<flash, eeprom, dir, file, page, good, installed, partial>>
\* a block of the first pass cannot be read
CheckFails ==
    /\ pc = "check" /\ pc' = "app" /\ failed' = TRUE
    /\ UNCHANGED <<flash, eeprom, dir, file, page, good, installed, partial>>

\* load_page: erase, then write what was read
ErasePage ==
    /\ pc = "erase"
    /\ flash' = [flash EXCEPT ![page] = Erased]
    /\ pc' = "write" /\ partial' = TRUE
    /\ UNCHANGED <<eeprom, dir, file, page, good, installed, failed>>

\* a block that cannot be read: the records after it come to the wrong pages
ReadFails ==
    /\ pc = "erase" /\ good' = FALSE
    /\ UNCHANGED <<flash, eeprom, dir, pc, file, page, installed, partial, failed>>

LastPlusOne(i) == page > PagesOf[i]   \* mutant: one page too many
LastPage(i) == page = PagesOf[i]
IgnoreCrc == TRUE   \* mutant: the CRC of the second pass is not looked at
SecondCrc == good

WritePage ==
    /\ pc = "write"
    /\ flash' = [flash EXCEPT ![page] = IF good /\ file.sound THEN Part(file.image, page)
                                                              ELSE Garbage]
    /\ page' = page + 1
    /\ IF ~LastPage(file.image) THEN pc' = "erase" /\ UNCHANGED failed
       ELSE IF SecondCrc THEN pc' = "record" /\ UNCHANGED failed
       ELSE pc' = "app" /\ failed' = TRUE
    /\ UNCHANGED <<eeprom, dir, file, good, installed, partial>>

\* eeprom_update_block: one byte after the other
Record ==
    /\ pc = "record"
    /\ \/ \E i \in 1..2 : /\ eeprom[i] # file.version[i]
                          /\ eeprom' = [eeprom EXCEPT ![i] = file.version[i]]
                          /\ UNCHANGED <<pc, installed, partial>>
       \/ /\ eeprom = file.version
          /\ pc' = "app" /\ installed' = file /\ partial' = FALSE
          /\ UNCHANGED eeprom
    /\ UNCHANGED <<flash, dir, file, page, good, failed>>

BootStep == Start \/ Find \/ Check \/ ErasePage \/ WritePage \/ Record

(***************************************************************************)
(* The surroundings: a reset at any time, and the user who copies files    *)
(* while the application runs.  While a load is unfinished the user does   *)
(* not go back to the version that the EEPROM still names.                 *)
(***************************************************************************)
Reset ==
    /\ pc' = "reset"
    /\ file' = NoFile /\ page' = 1 /\ good' = TRUE /\ failed' = FALSE
    /\ UNCHANGED <<flash, eeprom, dir, installed, partial>>
PowerLoss == pc # "app" /\ Reset
Restart == pc = "app" /\ Reset

Copy ==
    /\ pc = "app"
    /\ \E f \in BootFiles :
          /\ partial => f.version # eeprom
          /\ dir' \in {<<f>>, <<f>> \o dir, dir \o <<f>>}
          /\ Len(dir') <= 2
    /\ UNCHANGED <<flash, eeprom, pc, file, page, good, installed, partial, failed>>

Trouble == PowerLoss \/ CheckFails \/ ReadFails \/ Copy
Next == BootStep \/ Restart \/ Trouble
Spec == Init /\ [][Next]_vars

-----------------------------------------------------------------------------
(***************************************************************************)
(* Properties                                                              *)
(***************************************************************************)
Holds(i) == \A p \in 1..PagesOf[i] : flash[p] = Part(i, p)

\* check_bootfile programs only what load_bootfile(false) has found to have the CRC of
\* its name: a damaged file never changes the application area.
OnlyCheckedCode == [][\A p \in Pages : flash'[p] # flash[p] => file.sound]_vars

\* When find_and_load_bootfile returns true, the application that main jumps to is the
\* one in the file, also when the file was not loaded because of its version; unless a
\* load was interrupted and no later one has finished.
AppIsCardImage ==
    pc = "app" /\ file # NoFile /\ ~failed /\ ~partial => Holds(file.image)

\* The reason for it: outside a load, the EEPROM names the file that was loaded last,
\* and the flash area holds its image; in one, the pages before the next do.
Recorded ==
    ~partial => installed \in BootFiles /\ eeprom = installed.version
                /\ Holds(installed.image)
Loaded ==
    /\ pc \in {"check", "erase", "write", "record"} => file \in BootFiles
    /\ pc \in {"erase", "write", "record"} => file.sound
    /\ pc \in {"erase", "write"} /\ good =>
          \A p \in Pages : p < page => flash[p] = Part(file.image, p)
    /\ pc \in {"erase", "write"} => page <= PagesOf[file.image]
    /\ pc \in {"reset", "find", "check"} => page = 1
    /\ pc \in {"reset", "find"} => file = NoFile
    /\ pc = "write" \/ (pc = "erase" /\ page > 1) => partial
    /\ pc = "record" => partial /\ Holds(file.image)
IInv == TypeOK /\ Recorded /\ Loaded /\ AppIsCardImage

\* check_bootfile stores the version last, so that an interrupted or failed load is
\* done again: once the card can be read and power stays, the board is reset and the
\* application is the one in the file, whatever happened before.
Healed ==
    <>[][~Trouble]_vars /\ []<>(pc = "reset") =>
        <>[](pc = "app" /\ file # NoFile /\ file.sound => Holds(file.image))
=============================================================================
