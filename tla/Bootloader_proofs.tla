--------------------------- MODULE Bootloader_proofs ---------------------------
(***************************************************************************)
(* What the bootloader keeps for every set of files, images and versions.  *)
(***************************************************************************)
EXTENDS Bootloader, SequenceTheorems, TLAPS

\* The invariant holds on a board that has never loaded a file.
LEMMA InitIInv == Init => IInv
<1> SUFFICES ASSUME Init PROVE IInv
  OBVIOUS
<1>1. 1 \in 1..(NumPages + 1) /\ <<Blank, Blank>> \in Names /\ <<>> \in Seq(BootFiles)
  BY BytesAssumption, ImagesAssumption DEF Names
<1>2. TypeOK
  BY <1>1 DEF Init, TypeOK, Points
<1>3. Recorded /\ Loaded /\ AppIsCardImage
  BY DEF Init, Recorded, Loaded, AppIsCardImage
<1> QED BY <1>2, <1>3 DEF IInv

\* Every step of the bootloader and of its surroundings keeps the types.
LEMMA NextTypeOK == IInv /\ [Next]_vars => TypeOK'
<1> SUFFICES ASSUME IInv, [Next]_vars PROVE TypeOK'
  OBVIOUS
<1> USE BytesAssumption, ImagesAssumption, BootFilesAssumption DEF IInv, TypeOK, Points
<1>1. ASSUME Start PROVE TypeOK'
  BY <1>1 DEF Start
<1>2. ASSUME Find PROVE TypeOK'
  BY <1>2 DEF Find, First, Candidates
<1>3. ASSUME Check PROVE TypeOK'
  BY <1>3 DEF Check
<1>4. ASSUME CheckFails PROVE TypeOK'
  BY <1>4 DEF CheckFails
<1>5. ASSUME ErasePage PROVE TypeOK'
  BY <1>5 DEF ErasePage
<1>6. ASSUME ReadFails PROVE TypeOK'
  BY <1>6 DEF ReadFails
<1>7. ASSUME WritePage PROVE TypeOK'
  <2>1. file.image \in Images /\ page \in Pages /\ page + 1 \in 1..(NumPages + 1)
    BY <1>7 DEF WritePage, Loaded, Pages
  <2>2. flash' \in [Pages -> [image : Images, page : Pages] \cup {Garbage, Erased}]
    BY <1>7, <2>1 DEF WritePage, Part
  <2> QED BY <1>7, <2>1, <2>2 DEF WritePage
<1>8. ASSUME Record PROVE TypeOK'
  <2>1. file \in BootFiles
    BY <1>8 DEF Record, Loaded
  <2>2. eeprom' \in Names
    BY <1>8, <2>1 DEF Record, Names
  <2> QED BY <1>8, <2>1, <2>2 DEF Record
<1>9. ASSUME Reset PROVE TypeOK'
  <2>1. 1 \in 1..(NumPages + 1)
    BY ImagesAssumption
  <2> QED BY <1>9, <2>1 DEF Reset
<1>10. ASSUME Copy PROVE TypeOK'
  <2>1. PICK f \in BootFiles : dir' \in {<<f>>, <<f>> \o dir, dir \o <<f>>}
    BY <1>10 DEF Copy
  <2>2. <<f>> \in Seq(BootFiles)
    OBVIOUS
  <2>3. <<f>> \o dir \in Seq(BootFiles) /\ dir \o <<f>> \in Seq(BootFiles)
    BY <2>2, ConcatProperties
  <2> QED BY <1>10, <2>1, <2>2, <2>3 DEF Copy
<1>11. ASSUME UNCHANGED vars PROVE TypeOK'
  BY <1>11 DEF vars
<1> QED
  BY <1>1, <1>2, <1>3, <1>4, <1>5, <1>6, <1>7, <1>8, <1>9, <1>10, <1>11
  DEF Next, BootStep, Trouble, PowerLoss, Restart

\* Programming a page leaves the pages before it, and adds the page itself.
LEMMA WriteKeeps ==
    ASSUME TypeOK, Loaded, WritePage, good
    PROVE  \A p \in Pages : p < page + 1 => flash'[p] = Part(file.image, p)
<1>1. file.sound /\ page \in Nat
  BY DEF TypeOK, Loaded, WritePage
<1>2. flash' = [flash EXCEPT ![page] = Part(file.image, page)]
  BY <1>1 DEF WritePage
<1>3. flash \in [Pages -> [image : Images, page : Pages] \cup {Garbage, Erased}]
  BY DEF TypeOK
<1> SUFFICES ASSUME NEW p \in Pages, p < page + 1 PROVE flash'[p] = Part(file.image, p)
  OBVIOUS
<1>4. CASE p = page
  BY <1>2, <1>3, <1>4
<1>5. CASE p < page
  BY <1>2, <1>3, <1>5 DEF Loaded, WritePage
<1> QED BY <1>1, <1>4, <1>5 DEF Pages

\* Outside a load the EEPROM and the flash area keep agreeing.
LEMMA NextRecorded == IInv /\ [Next]_vars => Recorded'
<1> SUFFICES ASSUME IInv, [Next]_vars, ~partial' PROVE
        installed' \in BootFiles /\ eeprom' = installed'.version /\ Holds(installed.image)'
  BY DEF Recorded
<1> USE DEF IInv, Recorded
<1>1. CASE Record
  <2>1. CASE eeprom = file.version /\ installed' = file
    BY <1>1, <2>1 DEF Record, Loaded, Holds
  <2>2. CASE UNCHANGED partial
    BY <1>1, <2>2 DEF Record, Loaded
  <2> QED BY <1>1, <2>1, <2>2 DEF Record
<1>2. CASE ErasePage
  BY <1>2 DEF ErasePage
<1>3. CASE WritePage
  BY <1>3 DEF WritePage, Loaded
<1>4. CASE UNCHANGED <<flash, eeprom, installed, partial>>
  BY <1>4 DEF Holds
<1> QED
  BY <1>1, <1>2, <1>3, <1>4
  DEF Next, BootStep, Trouble, PowerLoss, Restart, Reset, Copy, ReadFails, CheckFails,
      Check, Find, Start, vars

\* In a load the pages before the next one hold the image.
LEMMA NextLoaded == IInv /\ [Next]_vars => Loaded'
<1> SUFFICES ASSUME IInv, [Next]_vars PROVE Loaded'
  OBVIOUS
<1> USE DEF IInv, Loaded
<1>1. CASE Find
  BY <1>1 DEF Find, First, Candidates, TypeOK
<1>2. CASE Check
  <2>1. pc = "check" /\ page = 1 /\ file \in BootFiles
    BY <1>2 DEF Check
  <2>2. file.image \in Images /\ PagesOf[file.image] >= 1
    BY <2>1, ImagesAssumption, BootFilesAssumption
  <2> QED BY <1>2, <2>1, <2>2 DEF Check, FirstCrc, Pages
<1>3. CASE ErasePage
  <2>1. \A p \in Pages : p < page => flash'[p] = flash[p]
    BY <1>3 DEF ErasePage, TypeOK, Pages
  <2> QED BY <1>3, <2>1 DEF ErasePage
<1>4. CASE ReadFails
  BY <1>4 DEF ReadFails
<1>5. CASE WritePage
  <2>1. file \in BootFiles /\ file.sound /\ partial /\ page \in Nat
        /\ page <= PagesOf[file.image] /\ PagesOf[file.image] \in 1..NumPages
    BY <1>5, ImagesAssumption, BootFilesAssumption DEF WritePage, TypeOK
  <2>2. good => \A p \in Pages : p < page + 1 => flash'[p] = Part(file.image, p)
    BY <1>5, WriteKeeps
  <2>3. CASE ~LastPage(file.image)
    BY <1>5, <2>1, <2>2, <2>3 DEF WritePage, LastPage
  <2>4. CASE LastPage(file.image) /\ good
    <3>1. Holds(file.image)'
      <4>1. \A p \in 1..PagesOf[file.image] : p \in Pages /\ p < page + 1
        BY <2>1, <2>4, ImagesAssumption DEF LastPage, Pages
      <4>2. file' = file
        BY <1>5 DEF WritePage
      <4> QED BY <2>2, <2>4, <4>1, <4>2 DEF Holds
    <3> QED BY <1>5, <2>1, <2>4, <3>1 DEF WritePage, SecondCrc
  <2>5. CASE LastPage(file.image) /\ ~good
    BY <1>5, <2>5 DEF WritePage, SecondCrc
  <2> QED BY <2>3, <2>4, <2>5 DEF TypeOK
<1>6. CASE Record
  BY <1>6 DEF Record, Holds
<1>7. CASE Reset
  BY <1>7 DEF Reset
<1>8. CASE pc' = "app"
  BY <1>8
<1>9. CASE pc = "reset" /\ pc' = "find" /\ UNCHANGED <<page, flash, file, good, partial>>
  BY <1>9
<1>10. CASE UNCHANGED <<flash, pc, file, page, good, partial>>
  BY <1>10 DEF Holds
<1> QED
  BY <1>1, <1>2, <1>3, <1>4, <1>5, <1>6, <1>7, <1>8, <1>9, <1>10
  DEF Next, BootStep, Trouble, PowerLoss, Restart, Copy, CheckFails, Start, vars

\* main jumps to the application of the file.
LEMMA NextApp == IInv /\ [Next]_vars => AppIsCardImage'
<1> SUFFICES ASSUME IInv, [Next]_vars,
                    pc' = "app", file' # NoFile, ~failed', ~partial'
             PROVE  Holds(file.image)'
  BY DEF AppIsCardImage
<1> USE DEF IInv
<1>1. CASE Start
  BY <1>1 DEF Start, Loaded
<1>2. CASE Find
  <2>1. CASE \E n \in First(Candidates) : file' = dir[n] /\ UpToDate(dir[n])
    <3>1. file' \in BootFiles /\ eeprom = file'.version
      BY <2>1 DEF First, Candidates, TypeOK, UpToDate
    <3>2. installed \in BootFiles /\ installed.version = file'.version
          /\ Holds(installed.image)
      BY <1>2, <3>1 DEF Find, Recorded
    <3>3. installed.image = file'.image
      BY <3>1, <3>2, BootFilesAssumption
    <3> QED BY <1>2, <3>2, <3>3 DEF Find, Holds
  <2>2. CASE Candidates = {} /\ UNCHANGED file
    BY <1>2, <2>2 DEF Find, Loaded
  <2> QED BY <1>2, <2>1, <2>2 DEF Find
<1>3. CASE Check \/ CheckFails
  BY <1>3 DEF Check, CheckFails
<1>4. CASE ErasePage \/ Reset
  BY <1>4 DEF ErasePage, Reset
<1>5. CASE WritePage
  BY <1>5 DEF WritePage, SecondCrc
<1>6. CASE Record
  BY <1>6 DEF Record, Loaded, Holds
<1>7. CASE ReadFails
  BY <1>7 DEF ReadFails
<1>8. CASE UNCHANGED <<flash, pc, file, failed, partial>>
  BY <1>8 DEF AppIsCardImage, Holds
<1> QED
  BY <1>1, <1>2, <1>3, <1>4, <1>5, <1>6, <1>7, <1>8
  DEF Next, BootStep, Trouble, PowerLoss, Restart, Copy, vars

\* IInv is an invariant of the bootloader, for every set of files and images.
THEOREM BootInvariance == Spec => []IInv
<1>1. Init => IInv
  BY InitIInv
<1>2. IInv /\ [Next]_vars => IInv'
  BY NextTypeOK, NextRecorded, NextLoaded, NextApp DEF IInv
<1> QED BY <1>1, <1>2, PTL DEF Spec

\* The pages, versions and stages stay what they are declared as.
THEOREM BootTypes == Spec => []TypeOK
BY BootInvariance, PTL DEF IInv

\* find_and_load_bootfile returns true only with the application of the file in flash.
THEOREM AppCorrect == Spec => []AppIsCardImage
BY BootInvariance, PTL DEF IInv

\* A damaged file never changes the application area.
THEOREM DamagedFileIgnored == Spec => OnlyCheckedCode
<1>1. IInv /\ [Next]_vars => [\A p \in Pages : flash'[p] # flash[p] => file.sound]_vars
  BY DEF IInv, Loaded, Next, BootStep, Trouble, PowerLoss, Restart, Reset, Copy, ReadFails,
         CheckFails, Check, Find, Start, ErasePage, WritePage, Record
<1> QED BY BootInvariance, <1>1, PTL DEF Spec, OnlyCheckedCode
================================================================================
