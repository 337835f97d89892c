----------------------------- MODULE Card_proofs -----------------------------
(***************************************************************************)
(* What Card keeps for every size of card, set of file systems, limit of   *)
(* the detection of a rewrite, and number of failures.                     *)
(***************************************************************************)
EXTENDS Card, TLAPS

\* The sizes, as numbers.
LEMMA Limits ==
    /\ Last \in Nat /\ RewriteLimit \in Nat /\ Root \in Nat /\ MaxFailures \in Nat
    /\ MaxCount \in Nat /\ 0 < MaxCount
    /\ 0 < Root /\ Root <= RewriteLimit /\ RewriteLimit < Last
    /\ Blocks = 0..Last /\ Nowhere = Last + 2 /\ First \in Systems
  BY CardsAssumption, LimitsAssumption, SystemsAssumption DEF Blocks, Nowhere

\* The handlers and watchers of a file system are for blocks behind the one that
\* iodir_init begins at.
LEMMA NoticedBehindRoot ==
    ASSUME TypeOK, NEW b \in Blocks, IsHandled(b) \/ IsWatched(b)
    PROVE  index \in Systems /\ b > Root /\ index # "none"
  BY SystemsAssumption DEF TypeOK, IsHandled, IsWatched

\* An error or a flash leaves every LED with a mode.
LEMMA ModesKept ==
    ASSUME LedsTypeOK
    PROVE  /\ \A m \in Modes : Errored(led_state, m) \in [Lamps -> Modes]
           /\ \A l \in Lamps : Flashed(led_state, l) \in [Lamps -> Modes]
           /\ \A l \in Lamps, m \in Modes :
                 Errored(Flashed(led_state, l), m) \in [Lamps -> Modes]
           /\ {"sd", "disk", "iodir", "on", "off", "manual"} \subseteq Modes
           /\ {"red", "green"} = Lamps
  BY DEF LedsTypeOK, Errored, Flashed, Modes, Codes, Lamps

-----------------------------------------------------------------------------
(***************************************************************************)
(* Types, and commands that end at the last block                          *)
(***************************************************************************)
\* Records that are commands.
LEMMA CommandRecord ==
    ASSUME NEW w \in BOOLEAN, NEW n \in 0..(Last + 1), NEW k \in 0..MaxCount,
           NEW d \in BOOLEAN, NEW g \in BOOLEAN
    PROVE  [write |-> w, next |-> n, left |-> k, dd |-> d, gone |-> g] \in Commands
  BY DEF Commands
LEMMA NoCommandType == NoCommand \in Commands
<1>1. 0 \in 0..(Last + 1) /\ 0 \in 0..MaxCount
  BY Limits
<1> QED BY <1>1, CommandRecord, Zenon DEF NoCommand
LEMMA CommandFields ==
    ASSUME NEW c \in Commands
    PROVE  /\ c.write \in BOOLEAN /\ c.dd \in BOOLEAN /\ c.gone \in BOOLEAN
           /\ c.next \in 0..(Last + 1) /\ c.left \in 0..MaxCount
  BY DEF Commands
LEMMA InitType == Init => TypeOK /\ CommandFits
<1> SUFFICES ASSUME Init PROVE TypeOK /\ CommandFits
  OBVIOUS
<1>1. LedsTypeOK
  BY DEF Init, LedsInit, LedsTypeOK, Modes
<1>2. store \in [Blocks -> Contents] /\ sent \in [Blocks -> Contents]
  BY Limits DEF Init, Contents, Data
<1>3. cmd \in Commands
  BY NoCommandType DEF Init
<1>4. request \in Calls /\ port \in [Lamps -> BOOLEAN]
  BY DEF Init, Calls, NoRequest, Lamps
<1>5. pc = "start" /\ pc \in Points
  BY DEF Init, Points
<1>6. fromStart \in BOOLEAN /\ unhealed \in BOOLEAN
  BY DEF Init
<1>7. dd_count \in Blocks /\ failures \in 0..MaxFailures
  BY Limits DEF Init
<1>8. /\ card \in Cards /\ index = "none" /\ sense = "good" /\ system \in Systems
      /\ rewriting = Nowhere /\ lost = {} /\ lastWritten = Nowhere
  BY Limits DEF Init
<1> QED BY <1>1, <1>2, <1>3, <1>4, <1>5, <1>6, <1>7, <1>8 DEF TypeOK, CommandFits

\* A command starts at a block of the card and does not reach past the last one.
LEMMA CommandType ==
    ASSUME TypeOK, NEW write \in BOOLEAN, NEW start \in Nat, NEW n \in 1..MaxCount,
           start + n <= Last + 1 \/ start > Last, ReadWrite(write, start, n)
    PROVE  /\ pc' \in {"idle", "block"} /\ sense' \in {"good", "illegal"} /\ cmd' \in Commands
           /\ pc' = "block" => /\ cmd'.left > 0 /\ cmd'.next \in Blocks
                               /\ cmd'.next + cmd'.left <= Last + 1
                               /\ cmd'.left = n /\ cmd'.next = start
                               /\ cmd'.write = write /\ cmd'.dd = FALSE /\ cmd'.gone = FALSE
           /\ pc' = "idle" => start > Last /\ cmd' = cmd
           /\ pc = "idle"
           /\ UNCHANGED <<card, store, index, dd_count, script, system, sent, history>>
<1>1. Capacity(card) = Last + 1
  BY CardsAssumption DEF TypeOK
<1>2. pc = "idle" /\ cmd \in Commands
  BY DEF ReadWrite, TypeOK
<1>3. UNCHANGED <<card, store, index, dd_count, script, system, sent, history>>
  BY DEF ReadWrite
<1>4. CASE OutOfRange(start)
  <2>1. sense' = "illegal" /\ pc' = pc /\ cmd' = cmd
    BY <1>4 DEF ReadWrite
  <2>2. start > Last
    BY <1>1, <1>4, Limits DEF OutOfRange
  <2> QED BY <1>2, <1>3, <2>1, <2>2
<1>5. CASE ~OutOfRange(start)
  <2>1. start <= Last
    BY <1>1, <1>5, Limits DEF OutOfRange
  <2>2. /\ sense' = "good" /\ pc' = "block"
        /\ cmd' = [write |-> write, next |-> start, left |-> n, dd |-> FALSE, gone |-> FALSE]
    BY <1>5 DEF ReadWrite
  <2>3. start \in 0..(Last + 1) /\ n \in 0..MaxCount /\ start \in Blocks /\ n > 0
        /\ start + n <= Last + 1
    BY <2>1, Limits
  <2>4. cmd' \in Commands
    BY <2>2, <2>3, CommandRecord, Zenon
  <2>5. /\ cmd'.left = n /\ cmd'.next = start /\ cmd'.write = write /\ cmd'.dd = FALSE
        /\ cmd'.gone = FALSE
    BY <2>2
  <2> QED BY <1>2, <1>3, <2>2, <2>3, <2>4, <2>5
<1> QED BY <1>4, <1>5

\* A turn of a loop goes on to the next block of the command, or ends it.
LEMMA TurnType ==
    ASSUME TypeOK, CommandFits, pc = "block", NEW dd \in BOOLEAN, NextTurn(dd)
    PROVE  /\ pc' \in {"idle", "block"} /\ cmd' \in Commands
           /\ pc' = "block" => /\ cmd'.left > 0 /\ cmd'.next \in Blocks
                               /\ cmd'.next + cmd'.left <= Last + 1
                               /\ cmd'.next = cmd.next + 1 /\ cmd'.write = cmd.write
                               /\ cmd'.left = cmd.left - 1 /\ cmd'.dd = dd
                               /\ cmd'.gone = cmd.gone
           /\ pc' = "idle" => cmd' = NoCommand /\ cmd.left = 1
<1>1. /\ cmd.left \in 1..MaxCount /\ cmd.next \in Blocks /\ cmd.next + cmd.left <= Last + 1
      /\ cmd \in Commands
  BY CommandFields DEF TypeOK, CommandFits
<1>2. CASE cmd.left = 1
  <2>1. cmd' = NoCommand /\ pc' = "idle"
    BY <1>2 DEF NextTurn
  <2> QED BY <1>2, <2>1, NoCommandType
<1>3. CASE cmd.left # 1
  <2>1. /\ cmd' = [cmd EXCEPT !.next = cmd.next + 1, !.left = cmd.left - 1, !.dd = dd]
        /\ pc' = pc
    BY <1>3 DEF NextTurn
  <2>2. /\ cmd.next + 1 \in 0..(Last + 1) /\ cmd.left - 1 \in 0..MaxCount
        /\ cmd.left - 1 > 0 /\ cmd.next + 1 \in Blocks
        /\ (cmd.next + 1) + (cmd.left - 1) <= Last + 1
    BY <1>1, <1>3, Limits
  <2>3. /\ cmd' \in Commands /\ cmd'.next = cmd.next + 1 /\ cmd'.left = cmd.left - 1
        /\ cmd'.dd = dd /\ cmd'.write = cmd.write /\ cmd'.gone = cmd.gone
    <3>1. cmd \in Commands
      BY <1>1
    <3>2. cmd' \in Commands
      BY <2>1, <2>2, <3>1 DEF Commands
    <3>3. /\ cmd'.next = cmd.next + 1 /\ cmd'.left = cmd.left - 1 /\ cmd'.dd = dd
          /\ cmd'.write = cmd.write /\ cmd'.gone = cmd.gone
      BY <2>1, <3>1 DEF Commands
    <3> QED BY <3>2, <3>3
  <2> QED BY <2>1, <2>2, <2>3
<1> QED BY <1>2, <1>3

\* The interrupt keeps a LED's mode among the modes.
LEMMA LedTaskType == ASSUME LedsTypeOK, LedTask PROVE LedsTypeOK'
<1>1. PICK flashing \in BOOLEAN, blink \in Blinks :
        /\ led_state' = [l \in Lamps |-> NextMode(l, flashing)]
        /\ lit' = [l \in Lamps |-> NextLit(l, flashing, blink)]
  BY DEF LedTask
<1>2. \A l \in Lamps : NextMode(l, flashing) \in Modes
  BY DEF LedsTypeOK, NextMode, Modes
<1>3. ASSUME NEW l \in Lamps PROVE NextLit(l, flashing, blink) \in BOOLEAN
  <2>1. lit[l] \in BOOLEAN
    BY DEF LedsTypeOK
  <2>2. CASE led_state[l] = "on"
    BY <2>2 DEF NextLit, Codes
  <2>3. CASE led_state[l] = "off"
    BY <2>3 DEF NextLit, Codes
  <2>4. CASE led_state[l] = "flash"
    BY <2>4 DEF NextLit, Codes
  <2>5. CASE led_state[l] = "flash_on"
    BY <2>5 DEF NextLit, Codes
  <2>6. CASE led_state[l] \in Codes
    BY <2>6 DEF NextLit, Codes
  <2>7. CASE led_state[l] \notin {"on", "off", "flash", "flash_on"} \cup Codes
    BY <2>1, <2>7 DEF NextLit
  <2> QED BY <2>2, <2>3, <2>4, <2>5, <2>6, <2>7
<1> QED BY <1>1, <1>2, <1>3 DEF LedsTypeOK

\* An error that is shown keeps the types.
LEMMA ShownType ==
    ASSUME TypeOK, NEW l \in Lamps, ErrorShown(l)
    PROVE  led_state' \in [Lamps -> Modes] /\ unhealed' \in BOOLEAN
<1>1. led_state' \in [Lamps -> Modes]
  BY ModesKept DEF ErrorShown, TypeOK
<1>2. unhealed' \in BOOLEAN
  BY Zenon DEF ErrorShown, TypeOK
<1> QED BY <1>1, <1>2

\* Every step keeps the types.
LEMMA TypeStep == TypeOK /\ CommandFits /\ [Next]_vars => TypeOK' /\ CommandFits'
<1> SUFFICES ASSUME TypeOK, CommandFits, [Next]_vars PROVE TypeOK' /\ CommandFits'
  OBVIOUS
<1>20. LedsTypeOK /\ {"red", "green"} = Lamps
  BY DEF TypeOK, Lamps
<1>1. CASE UNCHANGED vars
  BY <1>1 DEF vars, device, script, host, history, run, leds, TypeOK, CommandFits, LedsTypeOK
<1>2. CASE SdSilent
  <2>1. lit' \in [Lamps -> BOOLEAN] /\ pc' = "wait" /\ pc' \in Points
    BY <1>2, <1>20 DEF SdSilent, LedsTypeOK, Points
  <2> QED BY <1>2, <2>1
    DEF SdSilent, TypeOK, CommandFits, device, host, history, run, LedsTypeOK
<1>3. CASE DiskFound
  <2>1. lit' \in [Lamps -> BOOLEAN]
    <3>1. lit["red"] \in BOOLEAN
      BY <1>20 DEF LedsTypeOK
    <3> QED BY <1>3, <1>20, <3>1 DEF DiskFound, LedsTypeOK
  <2>2. pc' \in {"run", "idle"} /\ pc' \in Points
    BY <1>3 DEF DiskFound, AfterStart, Points
  <2>3. index' \in Systems
    BY <1>3, Limits DEF DiskFound, TypeOK, Contents
  <2> QED BY <1>3, <2>1, <2>2, <2>3
    DEF DiskFound, TypeOK, CommandFits, host, history, run, LedsTypeOK
<1>4. CASE DiskNotFound
  <2>1. led_state' \in [Lamps -> Modes]
    BY <1>4, <1>20, ModesKept DEF DiskNotFound
  <2>2. failures' \in 0..MaxFailures
    BY <1>4, Limits DEF DiskNotFound, TypeOK
  <2> QED BY <1>4, <2>1, <2>2
    DEF DiskNotFound, TypeOK, CommandFits, device, host, run, LedsTypeOK, Points
<1>5. CASE ScriptEnds
  <2>1. led_state' \in [Lamps -> Modes]
    BY <1>5, <1>20, ModesKept DEF ScriptEnds
  <2> QED BY <1>5, <2>1
    DEF ScriptEnds, TypeOK, CommandFits, device, host, run, LedsTypeOK, Points
<1>6. CASE LedMode
  <2>1. PICK r \in Requests :
          /\ request' = r
          /\ led_state' = [led_state EXCEPT ![r.lamp] = ModeAfter(r.value)]
          /\ unhealed' = (unhealed /\ r.lamp # "red")
    BY <1>6 DEF LedMode
  <2>2. r \in Calls /\ ModeAfter(r.value) \in Modes
    BY RequestsAssumption DEF ModeAfter, Modes
  <2>3. led_state' \in [Lamps -> Modes]
    BY <1>20, <2>1, <2>2 DEF LedsTypeOK
  <2>4. unhealed' \in BOOLEAN
    BY <2>1, Zenon DEF TypeOK
  <2> QED BY <1>6, <2>1, <2>2, <2>3, <2>4
    DEF LedMode, TypeOK, CommandFits, device, host, run, LedsTypeOK, Points
<1>7. CASE LedRead
  BY <1>7 DEF LedRead, TypeOK, CommandFits, device, host, history, run, leds, LedsTypeOK, Points
<1>8. CASE LedWrite
  <2>1. lit' \in [Lamps -> BOOLEAN] /\ port' \in [Lamps -> BOOLEAN]
    <3>1. lit' = [port EXCEPT ![request.lamp] = request.value = "high"]
      BY <1>8 DEF LedWrite
    <3>2. port \in [Lamps -> BOOLEAN] /\ (request.value = "high") \in BOOLEAN
      BY DEF TypeOK
    <3> QED BY <1>8, <3>1, <3>2 DEF LedWrite
  <2>2. request' \in Calls
    BY <1>8, <1>20 DEF LedWrite, NoRequest, Calls
  <2> QED BY <1>8, <2>1, <2>2
    DEF LedWrite, TypeOK, CommandFits, device, host, history, run, LedsTypeOK, Points
<1>9. CASE LedInterrupt
  BY <1>9, <1>20, LedTaskType
  DEF LedInterrupt, TypeOK, CommandFits, device, host, history, run
<1>10. CASE OtherCommand
  BY <1>10 DEF OtherCommand, TypeOK, CommandFits, script, leds, host, history, run, LedsTypeOK
<1>11. CASE BeginRewrite
  <2>1. rewriting' \in Blocks /\ system' \in Systems
    BY <1>11, Limits DEF BeginRewrite
  <2> QED BY <1>11, <2>1
    DEF BeginRewrite, TypeOK, CommandFits, device, script, leds, history, run, LedsTypeOK
<1>12. CASE EndRewrite
  BY <1>12
  DEF EndRewrite, TypeOK, CommandFits, device, script, leds, history, run, LedsTypeOK
<1>13. CASE HostGone
  <2>1. cmd \in Commands
    BY DEF TypeOK
  <2>2. cmd' \in Commands /\ cmd'.left = cmd.left /\ cmd'.next = cmd.next
    BY <1>13, <2>1 DEF HostGone, Commands
  <2>3. rewriting' \in Blocks \cup {Nowhere}
    BY <1>13, Limits DEF HostGone, Restarted
  <2>4. failures' \in 0..MaxFailures
    BY <1>13, Limits DEF HostGone, TypeOK
  <2> QED BY <1>13, <2>2, <2>3, <2>4
    DEF HostGone, TypeOK, CommandFits, script, leds, run, LedsTypeOK
<1>21. ASSUME NEW write \in BOOLEAN, NEW start \in Nat, NEW n \in 1..MaxCount,
              start + n <= Last + 1 \/ start > Last, ReadWrite(write, start, n),
              rewriting' \in Blocks \cup {Last + 1, Nowhere}
       PROVE  TypeOK' /\ CommandFits'
  <2>1. /\ pc' \in {"idle", "block"} /\ sense' \in {"good", "illegal"} /\ cmd' \in Commands
        /\ pc' = "block" => /\ cmd'.left > 0 /\ cmd'.next \in Blocks
                            /\ cmd'.next + cmd'.left <= Last + 1
        /\ UNCHANGED <<card, store, index, dd_count, script, system, sent, history>>
    BY <1>21, CommandType
  <2>2. pc' \in Points
    BY <2>1 DEF Points
  <2> QED BY <2>1, <2>2, <1>21 DEF TypeOK, CommandFits, script, leds, history, run, LedsTypeOK
<1>14. CASE Read \/ ReadPastEnd
  <2>1. \E start \in 0..(Last + 1) : ReadWrite(FALSE, start, 1)
    <3>1. CASE Read
      <4>1. PICK start \in Blocks : ReadWrite(FALSE, start, 1)
        BY <3>1 DEF Read
      <4>2. start \in 0..(Last + 1)
        BY Limits
      <4> QED BY <4>1, <4>2
    <3>2. CASE ReadPastEnd
      <4>1. Last + 1 \in 0..(Last + 1)
        BY Limits
      <4> QED BY <3>2, <4>1, Zenon DEF ReadPastEnd
    <3> QED BY <1>14, <3>1, <3>2
  <2>4. PICK start \in 0..(Last + 1) : ReadWrite(FALSE, start, 1)
    BY <2>1
  <2>2. start \in Nat /\ 1 \in 1..MaxCount /\ (start + 1 <= Last + 1 \/ start > Last)
    BY Limits
  <2>3. rewriting' \in Blocks \cup {Last + 1, Nowhere}
    BY <1>14 DEF Read, ReadPastEnd, TypeOK
  <2> QED BY <1>21, <2>4, <2>2, <2>3
<1>15. CASE Write
  <2>1. PICK start \in Blocks : \E n \in Counts(start) : ReadWrite(TRUE, start, n)
    BY <1>15 DEF Write
  <2>2. PICK n \in Counts(start) : ReadWrite(TRUE, start, n)
    BY <2>1
  <2>3. start \in Nat /\ n \in 1..MaxCount /\ start + n <= Last + 1
    BY Limits DEF Counts
  <2>4. rewriting' \in Blocks \cup {Last + 1, Nowhere}
    BY <1>15 DEF Write, TypeOK
  <2> QED BY <1>21, <2>2, <2>3, <2>4
<1>16. CASE RewriteNext
  <2>1. PICK n \in Counts(rewriting) :
          ReadWrite(TRUE, rewriting, n) /\ rewriting' = rewriting + n
    BY <1>16 DEF RewriteNext
  <2>2. rewriting \in Blocks /\ rewriting \in Nat /\ n \in 1..MaxCount
        /\ rewriting + n <= Last + 1
    BY <1>16, Limits DEF RewriteNext, Counts
  <2>3. rewriting' \in Blocks \cup {Last + 1, Nowhere}
    BY <2>1, <2>2, Limits
  <2> QED BY <1>21, <2>1, <2>2, <2>3
<1>22. ASSUME pc = "block", NEW dd \in BOOLEAN, NextTurn(dd)
       PROVE  CommandFits' /\ pc' \in Points /\ cmd' \in Commands
              /\ (pc' = "block" => cmd'.left > 0 /\ cmd'.next \in Blocks)
  BY <1>22, TurnType DEF CommandFits, Points
<1>17. CASE ReadBlock \/ ReadFails
  <2>1. pc = "block" /\ NextTurn(FALSE)
    BY <1>17 DEF ReadBlock, ReadFails, ReadTurn
  <2>2. led_state' \in [Lamps -> Modes] /\ unhealed' \in BOOLEAN
    BY <1>17, <1>20, ModesKept, ShownType DEF ReadBlock, ReadFails, TypeOK, history
  <2>3. failures' \in 0..MaxFailures
    BY <1>17, Limits DEF ReadBlock, ReadFails, Fails, TypeOK, history
  <2> QED BY <1>17, <1>22, <2>1, <2>2, <2>3
    DEF ReadBlock, ReadFails, TypeOK, LedsTypeOK, host, run, history
<1>18. CASE HandleBlock \/ StoreBlock \/ StoreFails
  <2>1. pc = "block" /\ NextTurn(Bypassed) /\ WriteTurn /\ Bypassed \in BOOLEAN
    BY <1>18 DEF HandleBlock, StoreBlock, StoreFails, StoreTurn, WriteTurn, Bypassed
  <2>2. led_state' \in [Lamps -> Modes] /\ unhealed' \in BOOLEAN
    BY <1>18, <1>20, ModesKept, ShownType
    DEF HandleBlock, StoreBlock, StoreFails, TypeOK, history
  <2>3. failures' \in 0..MaxFailures
    BY <1>18, Limits DEF HandleBlock, StoreBlock, StoreFails, Fails, TypeOK, history
  <2>4. cmd.next \in Blocks /\ Received \in Contents
    <3>1. cmd.next \in Blocks
      BY <2>1 DEF TypeOK
    <3>2. Data(system, cmd.next) \in Contents /\ Junk \in Contents
      BY <3>1 DEF Data, Contents, TypeOK
    <3> QED BY <3>1, <3>2 DEF Received
  <2>5. store' \in [Blocks -> Contents]
    BY <1>18, <2>4 DEF HandleBlock, StoreBlock, StoreFails, TypeOK
  <2>6. sent' \in [Blocks -> Contents] /\ lost' \subseteq Blocks
    BY <1>18, <2>4 DEF HandleBlock, StoreBlock, StoreFails, TypeOK, host
  <2>7. dd_count' \in Blocks /\ lastWritten' \in Blocks
    BY <2>1, <2>4, Limits DEF WriteTurn, Counted, Tracked
  <2>8. fromStart' \in BOOLEAN
    <3>1. fromStart' = IF cmd.next = lastWritten + 1 THEN fromStart ELSE cmd.next <= 2
      BY <2>1 DEF WriteTurn, Tracked
    <3>2. CASE cmd.next = lastWritten + 1
      BY <3>1, <3>2, Zenon DEF TypeOK
    <3>3. CASE cmd.next # lastWritten + 1
      <4>1. fromStart' = (cmd.next <= 2)
        BY <3>1, <3>3, Zenon
      <4> QED BY <4>1
    <3> QED BY <3>2, <3>3
  <2>9. UNCHANGED <<card, index, sense, request, port, lit, system, rewriting>>
    BY <1>18 DEF HandleBlock, StoreBlock, StoreFails, host
  <2> QED BY <1>22, <2>1, <2>2, <2>3, <2>5, <2>6, <2>7, <2>8, <2>9 DEF TypeOK, LedsTypeOK
<1>19. CASE AssumeRewritten
  <2>1. led_state' \in [Lamps -> Modes]
    BY <1>19, <1>20, ModesKept DEF AssumeRewritten
  <2> QED BY <1>19, <2>1
    DEF AssumeRewritten, TypeOK, CommandFits, device, host, history, run, LedsTypeOK, Points
<1>23. CASE Watchdog \/ PowerCycle
  <2>1. Reset
    BY <1>23 DEF Watchdog, PowerCycle
  <2>2. LedsTypeOK' /\ port' \in [Lamps -> BOOLEAN]
    BY <2>1 DEF Reset, Booted, LedsTypeOK, Modes
  <2>3. request' \in Calls
    BY <2>1, <1>20 DEF Reset, Booted, NoRequest, Calls
  <2>4. cmd' \in Commands
    BY <2>1, NoCommandType DEF Reset, Booted
  <2>5. rewriting' \in Blocks \cup {Nowhere} /\ dd_count' \in Blocks
    BY <2>1, Limits DEF Reset, Booted, Restarted
  <2>6. fromStart' \in BOOLEAN /\ unhealed' \in BOOLEAN
    BY <2>1 DEF Reset, Booted
  <2>7. pc' = "start" /\ pc' \in Points
    BY <2>1 DEF Reset, Booted, Points
  <2> QED BY <2>1, <2>2, <2>3, <2>4, <2>5, <2>6, <2>7
    DEF Reset, Booted, TypeOK, CommandFits
<1> QED
  BY <1>1, <1>2, <1>3, <1>4, <1>5, <1>6, <1>7, <1>8, <1>9, <1>10, <1>11, <1>12, <1>13, <1>14,
     <1>15, <1>16, <1>17, <1>18, <1>19, <1>23
  DEF Next

\* Every reachable state has the types of Card.tla, and a command in progress ends at
\* the card's last block: write_blocks and read_blocks leave no block outside it.
THEOREM Types == Spec => [](TypeOK /\ CommandFits)
<1> QED BY InitType, TypeStep, PTL DEF Spec

-----------------------------------------------------------------------------
(***************************************************************************)
(* The count of write_blocks and the blocks that were written              *)
(***************************************************************************)
\* Only a turn of write_blocks counts, and only it sets dd.
LEMMA StepKinds ==
    ASSUME TypeOK, CommandFits, [Next]_vars
    PROVE  \/ WriteTurn
           \/ Reset
           \/ /\ dd_count' = dd_count /\ lastWritten' = lastWritten /\ fromStart' = fromStart
              /\ \/ pc' # "block"
                 \/ cmd'.dd = FALSE
                 \/ cmd'.write = FALSE
                 \/ /\ pc' = pc /\ cmd'.write = cmd.write /\ cmd'.dd = cmd.dd
                    /\ cmd'.next = cmd.next
<1>1. CASE UNCHANGED vars
  BY <1>1 DEF vars, device, history, run
<1>2. CASE \/ SdSilent \/ DiskFound \/ DiskNotFound \/ ScriptEnds \/ LedMode \/ LedRead \/ LedWrite
           \/ OtherCommand \/ BeginRewrite \/ EndRewrite \/ AssumeRewritten
  BY <1>2 DEF SdSilent, DiskFound, AfterStart, DiskNotFound, ScriptEnds, LedMode, LedRead,
    LedWrite, OtherCommand, BeginRewrite, EndRewrite, AssumeRewritten, device, history, run
<1>3. CASE LedInterrupt
  BY <1>3 DEF LedInterrupt, device, history, run
<1>4. CASE HostGone
  <2>1. cmd \in Commands
    BY DEF TypeOK
  <2> QED BY <1>4, <2>1 DEF HostGone, run, Commands
<1>5. ASSUME NEW write \in BOOLEAN, NEW start, NEW n, ReadWrite(write, start, n)
      PROVE  /\ dd_count' = dd_count /\ lastWritten' = lastWritten /\ fromStart' = fromStart
             /\ pc' # "block" \/ cmd'.dd = FALSE
  BY <1>5 DEF ReadWrite, history, run
<1>6. CASE Read \/ ReadPastEnd \/ Write \/ RewriteNext
  <2>1. \E write \in BOOLEAN : \E start : \E n : ReadWrite(write, start, n)
    BY <1>6, Zenon DEF Read, ReadPastEnd, Write, RewriteNext
  <2>3. PICK write \in BOOLEAN : \E start : \E n : ReadWrite(write, start, n)
    BY <2>1
  <2>2. PICK start, n : ReadWrite(write, start, n)
    BY <2>3
  <2> QED BY <1>5, <2>2
<1>7. CASE ReadBlock \/ ReadFails
  <2>1. pc = "block" /\ NextTurn(FALSE) /\ FALSE \in BOOLEAN
    BY <1>7 DEF ReadBlock, ReadFails, ReadTurn
  <2>2. pc' = "block" => cmd'.dd = FALSE
    BY <2>1, TurnType
  <2> QED BY <1>7, <2>2 DEF ReadBlock, ReadFails, history, run
<1>8. CASE HandleBlock \/ StoreBlock \/ StoreFails
  BY <1>8 DEF HandleBlock, StoreBlock, StoreFails, StoreTurn
<1>9. CASE Watchdog \/ PowerCycle
  BY <1>9 DEF Watchdog, PowerCycle
<1> QED BY <1>1, <1>2, <1>3, <1>4, <1>6, <1>7, <1>8, <1>9 DEF Next

\* What a turn of write_blocks does to the count and to the history of its blocks.
LEMMA WriteTurnFacts ==
    ASSUME TypeOK, CommandFits, WriteTurn
    PROVE  /\ pc = "block" /\ cmd.next \in 0..Last /\ cmd.next \in Nat
           /\ dd_count \in Nat /\ lastWritten \in Nat
           /\ lastWritten' = cmd.next /\ dd_count' = Counted
           /\ cmd.next = lastWritten + 1 => fromStart' = fromStart
           /\ cmd.next # lastWritten + 1 => fromStart' = (cmd.next <= 2)
           /\ pc' \in {"idle", "block"}
           /\ pc' = "block" => /\ cmd'.next = cmd.next + 1 /\ cmd'.write = cmd.write
                               /\ cmd'.dd = Bypassed /\ cmd'.gone = cmd.gone
                               /\ cmd'.left = cmd.left - 1
           /\ pc' = "idle" => cmd.left = 1
<1>1. pc = "block" /\ NextTurn(Bypassed) /\ Tracked /\ dd_count' = Counted
  BY DEF WriteTurn
<1>2. cmd.next \in 0..Last /\ cmd.next \in Nat /\ dd_count \in Nat /\ lastWritten \in Nat
  BY <1>1, Limits DEF TypeOK
<1>3. Bypassed \in BOOLEAN
  BY DEF Bypassed
<1>4. /\ cmd.next = lastWritten + 1 => fromStart' = fromStart
      /\ cmd.next # lastWritten + 1 => fromStart' = (cmd.next <= 2)
      /\ lastWritten' = cmd.next
  BY <1>1, Zenon DEF Tracked
<1>5. /\ pc' \in {"idle", "block"}
      /\ pc' = "block" => /\ cmd'.next = cmd.next + 1 /\ cmd'.write = cmd.write
                          /\ cmd'.dd = Bypassed /\ cmd'.gone = cmd.gone
                          /\ cmd'.left = cmd.left - 1
      /\ pc' = "idle" => cmd.left = 1
  BY <1>1, <1>3, TurnType
<1> QED BY <1>1, <1>2, <1>4, <1>5

\* A block among the first three begins a run or goes on with one.
LEMMA EarlyRun ==
    ASSUME TypeOK, CommandFits, RunTracked, WriteTurn, cmd.next <= 2 PROVE fromStart'
<1>1. CASE cmd.next = lastWritten + 1
  <2>1. lastWritten \in 0..2
    BY <1>1, WriteTurnFacts
  <2> QED BY <1>1, <2>1, WriteTurnFacts, Zenon DEF RunTracked
<1>2. CASE cmd.next # lastWritten + 1
  BY <1>2, WriteTurnFacts, Zenon
<1> QED BY <1>1, <1>2

\* So does a block that neither a handler nor a watcher is asked about.
LEMMA BypassedRun ==
    ASSUME TypeOK, CommandFits, RunTracked, WriteTurn, Bypassed PROVE fromStart'
<1>1. CASE cmd.dd
  <2>1. fromStart /\ lastWritten = cmd.next - 1
    BY <1>1, Zenon DEF RunTracked, WriteTurn
  <2>2. cmd.next = lastWritten + 1
    BY <2>1, WriteTurnFacts
  <2> QED BY <2>1, <2>2, WriteTurnFacts, Zenon
<1>2. CASE InRun /\ cmd.next <= 2
  BY <1>2, EarlyRun
<1>3. CASE InRun /\ cmd.next > 2
  <2>1. dd_count >= 2 /\ dd_count = cmd.next - 1
    BY <1>3, WriteTurnFacts DEF InRun
  <2>2. fromStart /\ lastWritten = dd_count
    BY <2>1, Zenon DEF RunTracked
  <2>3. cmd.next = lastWritten + 1
    BY <2>1, <2>2, WriteTurnFacts
  <2> QED BY <2>2, <2>3, WriteTurnFacts, Zenon
<1>4. cmd.next <= 2 \/ cmd.next > 2
  BY WriteTurnFacts
<1> QED BY <1>1, <1>2, <1>3, <1>4, Zenon DEF Bypassed

LEMMA InitRun == Init => RunTracked
<1> SUFFICES ASSUME Init PROVE RunTracked
  OBVIOUS
<1>1. lastWritten \notin 0..2 /\ ~(dd_count >= 2) /\ pc # "block"
  BY Limits DEF Init
<1> QED BY <1>1, Zenon DEF RunTracked

\* Every step keeps the count and the history of the blocks together.
LEMMA RunStep == TypeOK /\ CommandFits /\ RunTracked /\ [Next]_vars => RunTracked'
<1> SUFFICES ASSUME TypeOK, CommandFits, RunTracked, [Next]_vars PROVE RunTracked'
  OBVIOUS
<1>1. CASE WriteTurn
  <2>1. lastWritten' \in 0..2 => fromStart'
    <3> SUFFICES ASSUME lastWritten' \in 0..2 PROVE fromStart'
      OBVIOUS
    <3>1. cmd.next <= 2
      BY <1>1, WriteTurnFacts
    <3> QED BY <1>1, <3>1, EarlyRun
  <2>2. dd_count' >= 2 => fromStart' /\ lastWritten' = dd_count'
    <3> SUFFICES ASSUME dd_count' >= 2 PROVE fromStart' /\ lastWritten' = dd_count'
      OBVIOUS
    <3>1. InRun /\ dd_count' = cmd.next
      BY <1>1, WriteTurnFacts DEF Counted
    <3>2. Bypassed
      BY <3>1 DEF Bypassed
    <3>3. fromStart'
      BY <1>1, <3>2, BypassedRun
    <3> QED BY <1>1, <3>1, <3>3, WriteTurnFacts, Zenon
  <2>3. pc' = "block" /\ cmd'.write /\ cmd'.dd => fromStart' /\ lastWritten' = cmd'.next - 1
    <3> SUFFICES ASSUME pc' = "block", cmd'.dd
                 PROVE  fromStart' /\ lastWritten' = cmd'.next - 1
      OBVIOUS
    <3>1. Bypassed
      BY <1>1, WriteTurnFacts, Zenon
    <3>2. fromStart'
      BY <1>1, <3>1, BypassedRun
    <3>3. lastWritten' = cmd'.next - 1
      BY <1>1, WriteTurnFacts
    <3> QED BY <3>2, <3>3
  <2> QED BY <2>1, <2>2, <2>3, Zenon DEF RunTracked
<1>2. CASE Reset
  <2>1. lastWritten' = Nowhere /\ dd_count' = 0 /\ pc' = "start"
    BY <1>2 DEF Reset, Booted
  <2>2. lastWritten' \notin 0..2 /\ ~(dd_count' >= 2) /\ pc' # "block"
    BY <2>1, Limits
  <2> QED BY <2>2, Zenon DEF RunTracked
<1>3. CASE /\ dd_count' = dd_count /\ lastWritten' = lastWritten /\ fromStart' = fromStart
           /\ \/ pc' # "block"
              \/ cmd'.dd = FALSE
              \/ cmd'.write = FALSE
              \/ /\ pc' = pc /\ cmd'.write = cmd.write /\ cmd'.dd = cmd.dd
                 /\ cmd'.next = cmd.next
  BY <1>3, Zenon DEF RunTracked
<1> QED BY <1>1, <1>2, <1>3, StepKinds

\* For every limit, size and layout: a block that is a handler's or a watcher's is given
\* to it, unless it goes on with a run of consecutive writes from the first three blocks.
THEOREM OrdinaryWritesReachHandlers == Spec => HandlersReached
<1>1. TypeOK /\ CommandFits /\ RunTracked /\ [Next]_vars
      => [WriteTurn /\ (IsHandled(cmd.next) \/ IsWatched(cmd.next)) =>
            fromStart' \/ Noticed(cmd.next)]_vars
  <2> SUFFICES ASSUME TypeOK, CommandFits, RunTracked, WriteTurn,
                      IsHandled(cmd.next) \/ IsWatched(cmd.next), ~fromStart'
               PROVE  Noticed(cmd.next)
    OBVIOUS
  <2>1. ~Bypassed
    BY BypassedRun
  <2> QED BY <2>1 DEF Noticed
<1> QED BY <1>1, InitType, InitRun, TypeStep, RunStep, PTL DEF Spec, HandlersReached

-----------------------------------------------------------------------------
(***************************************************************************)
(* The LEDs                                                                *)
(***************************************************************************)
\* What an error, a flash and a turn of the interrupt leave.
LEMMA ModesAfter ==
    ASSUME LedsTypeOK, NEW l \in Lamps, NEW m \in Modes
    PROVE  /\ led_state["red"] \in Codes => Flashed(led_state, l)["red"] = led_state["red"]
           /\ led_state["red"] # "manual" => Errored(Flashed(led_state, l), m)["red"] = m
           /\ \A k \in Lamps : led_state[k] = "manual" =>
                 /\ Flashed(led_state, l)[k] = "manual"
                 /\ Errored(led_state, m)[k] = "manual"
                 /\ Errored(Flashed(led_state, l), m)[k] = "manual"
  BY DEF LedsTypeOK, Flashed, Errored, Codes, Modes, Lamps
LEMMA InterruptKeeps ==
    ASSUME LedsTypeOK, LedTask
    PROVE  \A l \in Lamps :
             /\ led_state[l] \in Codes \cup {"off", "manual"} => led_state'[l] = led_state[l]
             /\ led_state'[l] = "manual" => led_state[l] = "manual"
             /\ led_state[l] = "manual" => lit'[l] = lit[l]
<1>1. PICK flashing \in BOOLEAN, blink \in Blinks :
        /\ led_state' = [l \in Lamps |-> NextMode(l, flashing)]
        /\ lit' = [l \in Lamps |-> NextLit(l, flashing, blink)]
  BY DEF LedTask
<1>2. ASSUME NEW l \in Lamps
      PROVE  /\ led_state[l] \in Codes \cup {"off", "manual"} => led_state'[l] = led_state[l]
             /\ led_state'[l] = "manual" => led_state[l] = "manual"
  BY <1>1 DEF NextMode, Codes
<1>3. ASSUME NEW l \in Lamps, led_state[l] = "manual" PROVE lit'[l] = lit[l]
  BY <1>1, <1>3 DEF NextLit, Codes
<1> QED BY <1>2, <1>3

\* The steps that leave the LEDs, the history of failures and what set_out has read.
LEMMA LedsLeft ==
    ASSUME \/ OtherCommand \/ Read \/ ReadPastEnd \/ Write
           \/ BeginRewrite \/ RewriteNext \/ EndRewrite \/ HostGone
    PROVE  /\ UNCHANGED <<led_state, lit, request, port, unhealed>>
           /\ pc \in {"idle", "block"} /\ pc' \in {pc, "block"}
<1>1. CASE OtherCommand \/ BeginRewrite \/ EndRewrite \/ HostGone
  BY <1>1 DEF OtherCommand, BeginRewrite, EndRewrite, HostGone, script, leds, history
<1>2. CASE Read \/ ReadPastEnd \/ Write \/ RewriteNext
  <2>1. \E write \in BOOLEAN : \E start : \E n : ReadWrite(write, start, n)
    BY <1>2, Zenon DEF Read, ReadPastEnd, Write, RewriteNext
  <2>3. PICK write \in BOOLEAN : \E start : \E n : ReadWrite(write, start, n)
    BY <2>1
  <2>2. PICK start, n : ReadWrite(write, start, n)
    BY <2>3
  <2> QED BY <2>2 DEF ReadWrite, script, leds, history
<1> QED BY <1>1, <1>2

\* A turn of a loop stays in it or goes back to the main loop.
LEMMA TurnPoints ==
    ASSUME ReadBlock \/ ReadFails \/ HandleBlock \/ StoreBlock \/ StoreFails
    PROVE  pc = "block" /\ pc' \in {"block", "idle"}
  BY DEF ReadBlock, ReadFails, ReadTurn, HandleBlock, StoreBlock, StoreFails, StoreTurn,
         WriteTurn, NextTurn

LEMMA InitShown == Init => NotStarted /\ FailureShown /\ PortRead
<1> SUFFICES ASSUME Init PROVE NotStarted /\ FailureShown /\ PortRead
  OBVIOUS
<1>1. led_state = [l \in Lamps |-> "off"] /\ ~unhealed /\ pc = "start"
  BY DEF Init, LedsInit
<1> QED BY <1>1, Zenon DEF NotStarted, FailureShown, PortRead

\* Every step keeps the red LED's report of a failure, while no mode is set before main
\* has begun.
LEMMA ShownStep ==
    TypeOK /\ NotStarted /\ FailureShown /\ [Next]_vars => NotStarted' /\ FailureShown'
<1> SUFFICES ASSUME TypeOK, NotStarted, FailureShown, [Next]_vars
             PROVE  NotStarted' /\ FailureShown'
  OBVIOUS
<1>20. LedsTypeOK /\ "red" \in Lamps /\ "green" \in Lamps /\ {"sd", "disk", "iodir"} \subseteq Modes
       /\ "sd" \in Codes
  BY DEF TypeOK, Lamps, Modes, Codes
<1>1. CASE UNCHANGED vars
  BY <1>1 DEF vars, script, leds, history, NotStarted, FailureShown
<1>2. CASE SdSilent
  BY <1>2 DEF SdSilent, history, NotStarted, FailureShown
<1>3. CASE DiskFound
  BY <1>3 DEF DiskFound, AfterStart, history, NotStarted, FailureShown
<1>4. CASE DiskNotFound
  <2>1. ~unhealed' /\ pc' = "idle"
    BY <1>4 DEF DiskNotFound, NotStarted
  <2> QED BY <2>1, Zenon DEF NotStarted, FailureShown
<1>5. CASE ScriptEnds
  <2>1. ~unhealed' /\ pc' = "idle"
    BY <1>5 DEF ScriptEnds
  <2> QED BY <2>1, Zenon DEF NotStarted, FailureShown
<1>6. CASE LedMode
  <2>1. PICK r \in Requests :
          /\ led_state' = [led_state EXCEPT ![r.lamp] = ModeAfter(r.value)]
          /\ unhealed' = (unhealed /\ r.lamp # "red")
    BY <1>6 DEF LedMode
  <2>2. pc' = "led"
    BY <1>6 DEF LedMode
  <2>3. unhealed' => unhealed /\ r.lamp # "red"
    BY <2>1, Zenon
  <2>4. r.lamp # "red" => led_state'["red"] = led_state["red"]
    BY <2>1, <1>20 DEF LedsTypeOK
  <2> QED BY <2>2, <2>3, <2>4, Zenon DEF NotStarted, FailureShown
<1>7. CASE LedRead \/ LedWrite
  BY <1>7 DEF LedRead, LedWrite, leds, history, NotStarted, FailureShown
<1>8. CASE LedInterrupt
  <2>1. unhealed' = unhealed /\ pc' = pc /\ LedTask
    BY <1>8 DEF LedInterrupt, history
  <2>2. pc \in {"start", "wait"} => led_state' = [l \in Lamps |-> "off"]
    <3> SUFFICES ASSUME led_state = [l \in Lamps |-> "off"]
                 PROVE  led_state' = [l \in Lamps |-> "off"]
      BY DEF NotStarted
    <3>1. \A l \in Lamps : led_state'[l] = "off"
      BY <1>20, <2>1, InterruptKeeps
    <3>2. led_state' = [l \in Lamps |-> led_state'[l]]
      BY <1>20, <2>1, LedTaskType DEF LedsTypeOK
    <3> QED BY <3>1, <3>2
  <2>3. led_state["red"] = "sd" => led_state'["red"] = "sd"
    BY <1>20, <2>1, InterruptKeeps
  <2> QED BY <2>1, <2>2, <2>3, Zenon DEF NotStarted, FailureShown
<1>9. CASE \/ OtherCommand \/ Read \/ ReadPastEnd \/ Write
           \/ BeginRewrite \/ RewriteNext \/ EndRewrite \/ HostGone
  BY <1>9, LedsLeft DEF NotStarted, FailureShown
<1>10. CASE ReadBlock \/ HandleBlock \/ StoreBlock
  <2>1. pc' \notin {"start", "wait"}
    BY <1>10, TurnPoints
  <2>2. unhealed' = unhealed
    BY <1>10 DEF ReadBlock, HandleBlock, StoreBlock, history
  <2>3. led_state["red"] = "sd" => led_state'["red"] = "sd"
    BY <1>10, <1>20, ModesAfter DEF ReadBlock, HandleBlock, StoreBlock
  <2> QED BY <2>1, <2>2, <2>3, Zenon DEF NotStarted, FailureShown
<1>11. CASE ReadFails \/ StoreFails
  <2>1. pc' \notin {"start", "wait"}
    BY <1>11, TurnPoints
  <2>2. PICK l \in Lamps : ErrorShown(l)
    BY <1>11, <1>20 DEF ReadFails, StoreFails
  <2>3. unhealed' => led_state["red"] # "manual"
    BY <2>2, Zenon DEF ErrorShown, FailureShown
  <2>4. led_state["red"] # "manual" => led_state'["red"] = "sd"
    BY <2>2, <1>20, ModesAfter DEF ErrorShown
  <2> QED BY <2>1, <2>3, <2>4, Zenon DEF NotStarted, FailureShown
<1>12. CASE AssumeRewritten
  <2>1. pc' = "reboot" /\ unhealed' = unhealed
    BY <1>12 DEF AssumeRewritten, history
  <2>2. led_state["red"] = "sd" => led_state'["red"] = "sd"
    BY <1>12, <1>20, ModesAfter DEF AssumeRewritten
  <2> QED BY <2>1, <2>2, Zenon DEF NotStarted, FailureShown
<1>13. CASE Watchdog \/ PowerCycle
  <2>1. led_state' = [l \in Lamps |-> "off"] /\ unhealed' = FALSE
    BY <1>13 DEF Watchdog, PowerCycle, Reset, Booted
  <2> QED BY <2>1, Zenon DEF NotStarted, FailureShown
<1> QED
  BY <1>1, <1>2, <1>3, <1>4, <1>5, <1>6, <1>7, <1>8, <1>9, <1>10, <1>11, <1>12, <1>13 DEF Next

\* A transfer that the card failed, and that the host was told had succeeded, shows on
\* the red LED until a script ends or takes it: for any number of failures.
THEOREM FailuresAreShown == Spec => []FailureShown
<1> QED BY InitType, InitShown, TypeStep, ShownStep, PTL DEF Spec

\* What may change a LED that a script has set, and its bit of the port.
Untouched(l) ==
    /\ lit'[l] # lit[l] => pc = "out" /\ l = request.lamp
    /\ led_state'[l] # "manual" => pc' = "led"

\* A LED of a script changes with the script alone, when the program does not start anew.
LEMMA ManualStep ==
    ASSUME TypeOK, NotStarted, PortRead, [Next]_vars, pc' # "start",
           NEW l \in Lamps, led_state[l] = "manual"
    PROVE  Untouched(l)
<1>20. LedsTypeOK /\ "red" \in Lamps /\ "green" \in Lamps
       /\ {"sd", "disk", "iodir", "on", "off"} \subseteq Modes
  BY DEF TypeOK, Lamps, Modes, Codes
<1>1. CASE UNCHANGED vars
  BY <1>1 DEF vars, script, leds, Untouched
<1>21. pc \notin {"start", "wait"}
  BY Zenon DEF NotStarted
<1>2. CASE SdSilent \/ DiskFound \/ DiskNotFound
  BY <1>2, <1>21 DEF SdSilent, DiskFound, DiskNotFound
<1>5. CASE ScriptEnds
  <2>1. PICK m \in {"off", "on"} : led_state' = Errored(led_state, m)
    BY <1>5 DEF ScriptEnds
  <2>2. led_state'[l] = "manual"
    BY <1>20, <2>1, ModesAfter
  <2> QED BY <1>5, <2>2 DEF ScriptEnds, Untouched
<1>6. CASE LedMode
  BY <1>6 DEF LedMode, Untouched
<1>7. CASE LedRead
  BY <1>7 DEF LedRead, leds, Untouched
<1>14. CASE LedWrite
  <2>1. /\ lit' = [port EXCEPT ![request.lamp] = request.value = "high"]
        /\ led_state' = led_state /\ pc = "out"
    BY <1>14 DEF LedWrite
  <2>2. port \in [Lamps -> BOOLEAN] /\ port[l] = lit[l]
    BY <2>1, Zenon DEF TypeOK, PortRead
  <2>3. l # request.lamp => lit'[l] = lit[l]
    BY <2>1, <2>2
  <2> QED BY <2>1, <2>3 DEF Untouched
<1>8. CASE LedInterrupt
  <2>1. LedTask
    BY <1>8 DEF LedInterrupt
  <2>2. led_state'[l] = led_state[l] /\ lit'[l] = lit[l]
    BY <1>20, <2>1, InterruptKeeps
  <2> QED BY <2>2 DEF Untouched
<1>9. CASE \/ OtherCommand \/ Read \/ ReadPastEnd \/ Write
           \/ BeginRewrite \/ RewriteNext \/ EndRewrite \/ HostGone
  BY <1>9, LedsLeft DEF Untouched
<1>10. CASE ReadBlock \/ HandleBlock \/ StoreBlock \/ AssumeRewritten
  <2>1. PICK k \in Lamps : led_state' = Flashed(led_state, k)
    BY <1>10, <1>20 DEF ReadBlock, HandleBlock, StoreBlock, AssumeRewritten
  <2>2. led_state'[l] = "manual"
    BY <1>20, <2>1, ModesAfter
  <2>3. lit' = lit
    BY <1>10 DEF ReadBlock, HandleBlock, StoreBlock, AssumeRewritten
  <2> QED BY <2>2, <2>3 DEF Untouched
<1>11. CASE ReadFails \/ StoreFails
  <2>1. PICK k \in Lamps : ErrorShown(k)
    BY <1>11, <1>20 DEF ReadFails, StoreFails
  <2>2. led_state'[l] = "manual"
    BY <1>20, <2>1, ModesAfter DEF ErrorShown
  <2>3. lit' = lit
    BY <1>11 DEF ReadFails, StoreFails
  <2> QED BY <2>2, <2>3 DEF Untouched
<1>13. CASE Watchdog \/ PowerCycle
  BY <1>13 DEF Watchdog, PowerCycle, Reset, Booted
<1> QED BY <1>1, <1>2, <1>5, <1>6, <1>7, <1>8, <1>9, <1>10, <1>11, <1>13, <1>14 DEF Next

\* set_out's two accesses to the port bracket no change of a LED that is manual.
LEMMA PortStep == TypeOK /\ NotStarted /\ PortRead /\ [Next]_vars => PortRead'
<1> SUFFICES ASSUME TypeOK, NotStarted, PortRead, [Next]_vars, pc' = "out",
                    NEW l \in Lamps, led_state'[l] = "manual"
             PROVE  port'[l] = lit'[l]
  BY DEF PortRead
<1>20. LedsTypeOK
  BY DEF TypeOK
<1>1. CASE UNCHANGED vars
  BY <1>1 DEF vars, script, leds, PortRead
<1>2. CASE LedRead
  BY <1>2 DEF LedRead, leds
<1>3. CASE LedInterrupt
  <2>1. LedTask /\ pc = "out" /\ port' = port
    BY <1>3 DEF LedInterrupt
  <2>2. led_state[l] = "manual" /\ lit'[l] = lit[l]
    BY <1>20, <2>1, InterruptKeeps
  <2> QED BY <2>1, <2>2 DEF PortRead
<1>4. CASE SdSilent \/ DiskFound \/ DiskNotFound \/ ScriptEnds \/ LedMode \/ LedWrite
  BY <1>4 DEF SdSilent, DiskFound, AfterStart, DiskNotFound, ScriptEnds, LedMode, LedWrite
<1>5. CASE \/ OtherCommand \/ Read \/ ReadPastEnd \/ Write
           \/ BeginRewrite \/ RewriteNext \/ EndRewrite \/ HostGone
  BY <1>5, LedsLeft
<1>6. CASE ReadBlock \/ ReadFails \/ HandleBlock \/ StoreBlock \/ StoreFails
  BY <1>6, TurnPoints
<1>7. CASE AssumeRewritten \/ Watchdog \/ PowerCycle
  BY <1>7 DEF AssumeRewritten, Watchdog, PowerCycle, Reset, Booted
<1> QED BY <1>1, <1>2, <1>3, <1>4, <1>5, <1>6, <1>7 DEF Next

\* (led) ends with the value it was given on the port.
LEMMA LedSet ==
    ASSUME TypeOK, Next, pc = "out", pc' = "idle"
    PROVE  lit'[request.lamp] = (request.value = "high")
<1>1. CASE LedWrite
  <2>1. lit' = [port EXCEPT ![request.lamp] = request.value = "high"]
    BY <1>1 DEF LedWrite
  <2>2. port \in [Lamps -> BOOLEAN] /\ request.lamp \in Lamps
    BY DEF TypeOK, Calls
  <2> QED BY <2>1, <2>2
<1>2. CASE \/ SdSilent \/ DiskFound \/ DiskNotFound \/ ScriptEnds \/ LedMode \/ LedRead
           \/ LedInterrupt \/ AssumeRewritten \/ Watchdog \/ PowerCycle
  BY <1>2 DEF SdSilent, DiskFound, DiskNotFound, ScriptEnds, LedMode, LedRead, LedInterrupt,
    AssumeRewritten, Watchdog, PowerCycle, Reset, Booted
<1>3. CASE \/ OtherCommand \/ Read \/ ReadPastEnd \/ Write
           \/ BeginRewrite \/ RewriteNext \/ EndRewrite \/ HostGone
  BY <1>3, LedsLeft
<1>4. CASE ReadBlock \/ ReadFails \/ HandleBlock \/ StoreBlock \/ StoreFails
  BY <1>4, TurnPoints
<1> QED BY <1>1, <1>2, <1>3, <1>4 DEF Next

\* A LED that a script has set keeps the script's value, whatever the interrupt, errors
\* and calls for the other LED do between set_out's accesses to the port.
THEOREM ScriptsKeepTheirLeds == Spec => ManualKept
<1>1. TypeOK /\ NotStarted /\ PortRead /\ [Next]_vars =>
        [/\ pc = "out" /\ pc' = "idle" => lit'[request.lamp] = (request.value = "high")
         /\ \A l \in Lamps : led_state[l] = "manual" /\ pc' # "start" =>
              /\ lit'[l] # lit[l] => pc = "out" /\ l = request.lamp
              /\ led_state'[l] # "manual" => pc' = "led"]_vars
  <2> SUFFICES ASSUME TypeOK, NotStarted, PortRead, Next
               PROVE
                 /\ pc = "out" /\ pc' = "idle" => lit'[request.lamp] = (request.value = "high")
                 /\ \A l \in Lamps : led_state[l] = "manual" /\ pc' # "start" =>
                      /\ lit'[l] # lit[l] => pc = "out" /\ l = request.lamp
                      /\ led_state'[l] # "manual" => pc' = "led"
    OBVIOUS
  <2>1. pc = "out" /\ pc' = "idle" => lit'[request.lamp] = (request.value = "high")
    BY LedSet
  <2>2. ASSUME NEW l \in Lamps, led_state[l] = "manual", pc' # "start" PROVE Untouched(l)
    BY <2>2, ManualStep
  <2> QED BY <2>1, <2>2 DEF Untouched
<1> QED BY <1>1, InitType, InitShown, TypeStep, ShownStep, PortStep, PTL DEF Spec, ManualKept

-----------------------------------------------------------------------------
(***************************************************************************)
(* What the card holds                                                     *)
(***************************************************************************)
\* every block has an address that means it
AddressesMatch == \A c \in Cards, b \in Blocks : Reached(c, Address(c, b)) = b

\* Division undoes multiplication, and nothing wraps on a card whose bytes 32 bits address.
LEMMA BlockOfByte ==
    ASSUME NEW b \in Nat, NEW n \in Nat, b < n, NEW s \in Nat \ {0}, NEW w \in Nat \ {0},
           n * s <= w
    PROVE  ((b * s) % w) \div s = b
<1>1. b * s \in Nat /\ n * s \in Nat /\ (b + 1) * s = b * s + s
  OBVIOUS
<1>2. (b + 1) * s <= n * s
  BY SMTT(30)
<1>3. b * s < w
  BY <1>1, <1>2
<1>4. (b * s) % w = b * s
  BY <1>1, <1>3
<1>5. (b * s) \div s = b
  BY SMTT(30)
<1> QED BY <1>4, <1>5

\* sd_init concludes the kind of addresses from the answers of any card that conforms, and
\* the address that sd_read_block and sd_write_block send means the block asked for.
LEMMA AddressesAreRight == ASSUME CardsConform PROVE AddressesMatch
<1> SUFFICES ASSUME NEW c \in Cards, NEW b \in Blocks PROVE Reached(c, Address(c, b)) = b
  BY DEF AddressesMatch
<1>1. /\ c \in CardKinds /\ Conforming(c) /\ Capacity(c) = Last + 1 /\ Last \in Nat
      /\ b \in 0..Last
  BY CardsAssumption DEF CardsConform, Blocks
<1>2. c.blocks \in Nat /\ b \in Nat /\ b < c.blocks
  BY <1>1 DEF CardKinds, Conforming
<1>3. ByteAddressable(c) <=> c.bytes
  BY <1>1 DEF CardKinds, Conforming, ByteAddressable, BlockBit
<1>4. CASE c.bytes
  <2>1. c.blocks * Sector <= Word
    BY <1>1, <1>4 DEF Conforming
  <2>2. ((b * Sector) % Word) \div Sector = b
    BY <1>2, <2>1, BlockOfByte, WidthsAssumption
  <2>3. Address(c, b) = (b * Sector) % Word
    BY <1>3, <1>4 DEF Address
  <2> QED BY <1>2, <1>4, <2>2, <2>3 DEF Reached
<1>5. CASE ~c.bytes
  BY <1>2, <1>3, <1>5 DEF Address, Reached
<1> QED BY <1>4, <1>5

\* The block that a turn of a loop reaches is the one that the command means.
LEMMA TargetIsNext ==
    ASSUME TypeOK, AddressesMatch, pc = "block"
    PROVE  Target = cmd.next /\ cmd.next \in Blocks /\ Refused \notin Blocks
<1>1. card \in Cards /\ cmd.next \in Blocks
  BY DEF TypeOK
<1>2. Refused \notin Blocks
  BY DEF Refused, Blocks
<1> QED BY <1>1, <1>2 DEF AddressesMatch, Target

\* Only a turn that stores a block changes the card, or what the host takes it to hold.
LEMMA ContentsLeft ==
    ASSUME TypeOK, [Next]_vars
    PROVE  StoreBlock \/ StoreFails \/ UNCHANGED <<card, store, sent, lost>>
<1>1. CASE UNCHANGED vars
  BY <1>1 DEF vars, host, history
<1>2. CASE \/ SdSilent \/ DiskFound \/ DiskNotFound \/ ScriptEnds \/ LedMode \/ LedRead \/ LedWrite
           \/ LedInterrupt \/ OtherCommand \/ BeginRewrite \/ EndRewrite \/ HostGone
  BY <1>2 DEF SdSilent, DiskFound, DiskNotFound, ScriptEnds, LedMode, LedRead, LedWrite,
    LedInterrupt, OtherCommand, BeginRewrite, EndRewrite, HostGone, host, history
<1>3. CASE Read \/ ReadPastEnd \/ Write \/ RewriteNext
  <2>1. \E write \in BOOLEAN : \E start : \E n : ReadWrite(write, start, n)
    BY <1>3, Zenon DEF Read, ReadPastEnd, Write, RewriteNext
  <2> QED BY <2>1 DEF ReadWrite, history
<1>4. CASE \/ ReadBlock \/ ReadFails \/ HandleBlock \/ AssumeRewritten \/ Watchdog \/ PowerCycle
  BY <1>4 DEF ReadBlock, ReadFails, HandleBlock, AssumeRewritten, Watchdog, PowerCycle, Reset,
    host, history
<1> QED BY <1>1, <1>2, <1>3, <1>4 DEF Next

LEMMA ReadsBackStep == TypeOK /\ AddressesMatch /\ ReadsBack /\ [Next]_vars => ReadsBack'
<1> SUFFICES ASSUME TypeOK, AddressesMatch, ReadsBack, [Next]_vars PROVE ReadsBack'
  OBVIOUS
<1>1. card \in Cards /\ \A b \in Blocks : Where(b) = b
  BY DEF TypeOK, AddressesMatch, Where
<1>2. card' = card
  BY ContentsLeft DEF StoreBlock, StoreFails
<1>3. \A b \in Blocks : Where(b)' = b
  BY <1>1, <1>2 DEF AddressesMatch, Where
<1>4. SUFFICES ASSUME NEW b \in Blocks, b \notin lost' PROVE store'[b] = sent'[b]
  BY <1>3 DEF ReadsBack
<1>5. b \notin lost => store[b] = sent[b]
  BY <1>1 DEF ReadsBack
<1>6. CASE UNCHANGED <<card, store, sent, lost>>
  BY <1>4, <1>5, <1>6
<1>7. CASE StoreBlock
  <2>1. Target = cmd.next /\ cmd.next \in Blocks
    BY <1>7, TargetIsNext DEF StoreBlock, StoreTurn, WriteTurn
  <2>2. store' = [store EXCEPT ![cmd.next] = Received]
    BY <1>7, <2>1 DEF StoreBlock
  <2>3. CASE cmd.gone
    <3>1. lost' = lost \cup {cmd.next} /\ sent' = sent
      BY <1>7, <2>3, Zenon DEF StoreBlock
    <3> QED BY <1>4, <1>5, <2>1, <2>2, <3>1 DEF TypeOK
  <2>4. CASE ~cmd.gone
    <3>1. lost' = lost \ {cmd.next} /\ sent' = [sent EXCEPT ![cmd.next] = Received]
      BY <1>7, <2>4, Zenon DEF StoreBlock
    <3> QED BY <1>4, <1>5, <2>1, <2>2, <3>1 DEF TypeOK
  <2> QED BY <2>3, <2>4
<1>8. CASE StoreFails
  <2>1. Target = cmd.next /\ cmd.next \in Blocks
    BY <1>8, TargetIsNext DEF StoreFails, StoreTurn, WriteTurn
  <2>2. /\ store' = store \/ store' = [store EXCEPT ![cmd.next] = Received]
        /\ lost' = lost \cup {cmd.next} /\ sent' = sent
    BY <1>8, <2>1 DEF StoreFails, host
  <2> QED BY <1>4, <1>5, <2>1, <2>2 DEF TypeOK
<1> QED BY <1>6, <1>7, <1>8, ContentsLeft

\* On cards of any kind and size that are as the standard has them, sd_init concludes the
\* addresses they take, none of which wraps: each block that the host has written, and
\* that did not fail, is on the card where read_blocks looks for it, and no write of
\* another block, of a handler's, or of a new file system has taken its place.
THEOREM BlocksReadBack == CardsConform => (Spec => []ReadsBack)
<1> SUFFICES ASSUME CardsConform PROVE Spec => []ReadsBack
  OBVIOUS
<1>0. AddressesMatch
  BY AddressesAreRight
<1>1. Init => ReadsBack
  BY <1>0 DEF Init, ReadsBack, AddressesMatch, Where
<1>2. TypeOK /\ ReadsBack /\ [Next]_vars => ReadsBack'
  BY <1>0, ReadsBackStep
<1> QED BY <1>1, <1>2, InitType, TypeStep, PTL DEF Spec

-----------------------------------------------------------------------------
(***************************************************************************)
(* The detection of a file system that is written anew                     *)
(***************************************************************************)
\* What most steps leave: the card, the count and the host; and the transfer, but for
\* one that begins or goes on reading.
Aside ==
    /\ store' = store /\ system' = system /\ rewriting' = rewriting /\ dd_count' = dd_count
    /\ ~cmd.gone => ~cmd'.gone
    /\ index' = index \/ index' = store[Root].system
    /\ pc' = "reboot" \/ (~Writing' /\ ~Writing) \/ UNCHANGED <<pc, cmd>>
    /\ pc # "reboot" \/ pc' = "reboot"

LEMMA AsideKeeps ==
    ASSUME TypeOK, Aside, ~cmd.gone, CountFollows, CountPending,
           rewriting = Nowhere => store[Root].system = system
    PROVE  /\ ~cmd'.gone /\ CountFollows' /\ CountPending'
           /\ rewriting' = Nowhere => store'[Root].system = system'
<1>1. ~cmd'.gone
  BY Zenon DEF Aside
<1>2. rewriting' = Nowhere => store'[Root].system = system'
  BY DEF Aside
<1>3. Nowhere' = Nowhere /\ Root' = Root /\ RewriteLimit' = RewriteLimit
  BY DEF Nowhere
<1>4. CASE pc' = "reboot"
  BY <1>1, <1>2, <1>4 DEF CountFollows, CountPending
<1>5. CASE pc' # "reboot"
  <2>1. pc # "reboot" /\ ((~Writing' /\ ~Writing) \/ UNCHANGED <<pc, cmd>>)
    BY <1>5, Zenon DEF Aside
  <2>2. Writing' <=> Writing
    BY <2>1 DEF Writing
  <2>3. Writing => cmd' = cmd
    BY <2>1, Zenon
  <2>4. Pending' = Pending
    BY <2>2, <2>3 DEF Aside, Pending
  <2>5. Stale' => Stale
    BY DEF Aside, Stale
  <2>6. CountFollows'
    BY <1>5, <2>1, <2>2, <2>3, <2>4, <2>5 DEF Aside, CountFollows
  <2>7. CountPending'
    BY <1>5, <2>1, <2>2, <2>3, <2>5 DEF Aside, CountPending
  <2> QED BY <1>1, <1>2, <2>6, <2>7
<1> QED BY <1>4, <1>5

\* Reading and the calls of the main loop are aside.
LEMMA ReadAside ==
    ASSUME TypeOK, CommandFits, Read \/ ReadPastEnd PROVE Aside
<1>1. PICK start : ReadWrite(FALSE, start, 1)
  BY Zenon DEF Read, ReadPastEnd
<1>2. /\ store' = store /\ system' = system /\ dd_count' = dd_count /\ index' = index
      /\ pc = "idle" /\ pc' \in {"idle", "block"}
      /\ cmd' = cmd \/ (cmd'.write = FALSE /\ cmd'.gone = FALSE)
      /\ pc' = "block" => cmd'.write = FALSE
  <2>1. CASE OutOfRange(start)
    <3>1. pc = "idle" /\ pc' = pc /\ cmd' = cmd /\ UNCHANGED <<store, system, dd_count, index>>
      BY <1>1, <2>1 DEF ReadWrite
    <3> QED BY <3>1
  <2>2. CASE ~OutOfRange(start)
    <3>1. /\ cmd' = [write |-> FALSE, next |-> start, left |-> 1, dd |-> FALSE, gone |-> FALSE]
          /\ pc = "idle" /\ pc' = "block"
          /\ UNCHANGED <<store, system, dd_count, index>>
      BY <1>1, <2>2 DEF ReadWrite
    <3> QED BY <3>1
  <2> QED BY <2>1, <2>2
<1>3. rewriting' = rewriting
  BY DEF Read, ReadPastEnd
<1>4. ~Writing /\ ~Writing'
  BY <1>2 DEF Writing
<1>5. ~cmd.gone => ~cmd'.gone
  BY <1>2, Zenon
<1> QED BY <1>2, <1>3, <1>4, <1>5 DEF Aside

LEMMA ReadTurnAside ==
    ASSUME TypeOK, CommandFits, ReadBlock PROVE Aside
<1>1. pc = "block" /\ NextTurn(FALSE) /\ ~cmd.write
  BY DEF ReadBlock, ReadTurn
<1>2. /\ pc' \in {"idle", "block"}
      /\ pc' = "block" => cmd'.write = cmd.write /\ cmd'.gone = cmd.gone
      /\ pc' = "idle" => cmd' = NoCommand
  BY <1>1, TurnType
<1>3. ~Writing /\ ~Writing'
  BY <1>1, <1>2 DEF Writing
<1>4. ~cmd.gone => ~cmd'.gone
  BY <1>2 DEF NoCommand
<1> QED BY <1>1, <1>2, <1>3, <1>4 DEF ReadBlock, host, Aside

LEMMA MainLoopAside ==
    ASSUME TypeOK,
           \/ SdSilent \/ DiskFound \/ DiskNotFound \/ ScriptEnds \/ LedMode \/ LedRead
           \/ LedWrite \/ LedInterrupt \/ OtherCommand \/ AssumeRewritten
    PROVE  Aside
<1>1. CASE SdSilent \/ DiskNotFound \/ ScriptEnds \/ LedMode \/ LedRead \/ LedWrite \/ OtherCommand
  <2>1. /\ UNCHANGED <<store, cmd, index, dd_count, host>>
        /\ pc # "block" /\ pc' # "block" /\ pc # "reboot" /\ pc' # "reboot"
    BY <1>1 DEF SdSilent, DiskNotFound, ScriptEnds, LedMode, LedRead, LedWrite, OtherCommand,
                device, host
  <2>2. ~Writing /\ ~Writing'
    BY <2>1 DEF Writing
  <2> QED BY <2>1, <2>2 DEF host, Aside
<1>2. CASE DiskFound
  <2>1. pc # "block" /\ pc' # "block" /\ pc # "reboot"
    BY <1>2 DEF DiskFound, AfterStart
  <2>2. ~Writing /\ ~Writing'
    BY <2>1 DEF Writing
  <2> QED BY <1>2, <2>1, <2>2 DEF DiskFound, host, Aside
<1>3. CASE LedInterrupt
  BY <1>3 DEF LedInterrupt, device, host, Aside
<1>4. CASE AssumeRewritten
  <2>1. /\ pc' = "reboot" /\ store' = store /\ index' = index /\ dd_count' = dd_count
        /\ cmd' = cmd /\ system' = system /\ rewriting' = rewriting
    BY <1>4 DEF AssumeRewritten, device, host
  <2> QED BY <2>1, Zenon DEF Aside
<1> QED BY <1>1, <1>2, <1>3, <1>4

\* What holds of the rewrite as long as nothing has failed.
Detecting ==
    /\ ~cmd.gone /\ CountFollows /\ CountPending
    /\ rewriting = Nowhere => store[Root].system = system

\* A host that writes as it likes does not hit the block that starts the count anew
\* while a change is undetected.
LEMMA WriteKeeps ==
    ASSUME TypeOK, CommandFits, RunTracked, ~FatFirst, Detecting, Write
    PROVE  Detecting'
<1>1. rewriting = Nowhere /\ rewriting' = Nowhere
  BY DEF Write
<1>2. PICK start \in Blocks :
        (start = 1 => FatFirst \/ ~JustRewritten)
        /\ \E n \in Counts(start) : ReadWrite(TRUE, start, n)
  BY DEF Write
<1>3. PICK n \in Counts(start) : ReadWrite(TRUE, start, n)
  BY <1>2
<1>4. start \in Nat /\ n \in 1..MaxCount /\ start + n <= Last + 1
  BY Limits DEF Counts
<1>5. /\ pc' \in {"idle", "block"} /\ pc = "idle"
      /\ pc' = "block" => cmd'.next = start /\ cmd'.gone = FALSE
      /\ pc' = "idle" => cmd' = cmd
      /\ UNCHANGED <<store, index, dd_count, system>>
  BY <1>3, <1>4, CommandType
<1>6. ~cmd'.gone
  BY <1>5, Zenon DEF Detecting
<1>7. CountFollows'
  BY <1>1 DEF CountFollows, Nowhere
<1>8. rewriting' = Nowhere => store'[Root].system = system'
  BY <1>1, <1>5 DEF Detecting
<1>9. CountPending'
  <2> SUFFICES ASSUME Stale' PROVE dd_count' > RewriteLimit /\ (Writing' => cmd'.next # 1)
    BY DEF CountPending
  <2>1. Stale /\ pc # "reboot"
    BY <1>5 DEF Stale
  <2>2. dd_count > RewriteLimit
    BY <1>1, <2>1, Zenon DEF Detecting, CountPending
  <2>3. dd_count >= 2
    BY <2>2, Limits DEF TypeOK
  <2>4. fromStart /\ lastWritten = dd_count
    BY <2>3, Zenon DEF RunTracked
  <2>5. JustRewritten
    BY <2>2, <2>4 DEF JustRewritten
  <2>6. start # 1
    BY <1>2, <2>5, Zenon
  <2>7. Writing' => cmd'.next # 1
    BY <1>5, <2>6 DEF Writing
  <2> QED BY <1>5, <2>2, <2>7
<1> QED BY <1>6, <1>7, <1>8, <1>9 DEF Detecting

\* The host begins and ends a rewrite between commands.
LEMMA BeginKeeps == ASSUME TypeOK, Detecting, BeginRewrite PROVE Detecting'
<1>1. /\ rewriting = Nowhere /\ rewriting' \in {0, 1} /\ pc = "idle" /\ pc' = "idle"
      /\ UNCHANGED <<store, index, dd_count, cmd>>
  BY DEF BeginRewrite, device
<1>2. ~Writing' /\ Pending' = rewriting' /\ rewriting' # Nowhere
  BY <1>1, Limits DEF Writing, Pending
<1>3. Stale' => dd_count > RewriteLimit
  BY <1>1 DEF Stale, Detecting, CountPending
<1>4. ~(Pending' >= 2) /\ ~(Pending' > Root)
  BY <1>1, <1>2, Limits
<1>5. CountFollows'
  BY <1>1, <1>2, <1>3, <1>4 DEF CountFollows
<1>6. CountPending' /\ (rewriting' = Nowhere => store'[Root].system = system')
  BY <1>2 DEF CountPending, Nowhere
<1>7. ~cmd'.gone
  BY <1>1, Zenon DEF Detecting
<1> QED BY <1>5, <1>6, <1>7, Zenon DEF Detecting, Nowhere

LEMMA EndKeeps == ASSUME TypeOK, Detecting, EndRewrite PROVE Detecting'
<1>1. /\ rewriting # Nowhere /\ rewriting > RewriteLimit + 1 /\ rewriting' = Nowhere
      /\ pc = "idle" /\ pc' = "idle" /\ UNCHANGED <<store, index, dd_count, cmd, system>>
  BY DEF EndRewrite, device
<1>2. ~Writing /\ ~Writing' /\ Pending = rewriting /\ rewriting \in Nat
  BY <1>1, Limits DEF Writing, Pending, TypeOK
<1>3. Pending >= 2 /\ Pending > Root /\ Pending - 1 > RewriteLimit
  BY <1>1, <1>2, Limits
<1>4. dd_count > RewriteLimit /\ store[Root].system = system
  BY <1>1, <1>3 DEF Detecting, CountFollows
<1>5. ~cmd'.gone
  BY <1>1, Zenon DEF Detecting
<1> QED BY <1>1, <1>2, <1>4, <1>5 DEF Detecting, CountFollows, CountPending, Nowhere

\* A command of the rewrite begins at its next block.
LEMMA NextKeeps == ASSUME TypeOK, CommandFits, Detecting, RewriteNext PROVE Detecting'
<1>1. PICK n \in Counts(rewriting) :
        ReadWrite(TRUE, rewriting, n) /\ rewriting' = rewriting + n
  BY DEF RewriteNext
<1>2. /\ rewriting \in Blocks /\ rewriting \in Nat /\ rewriting <= Last /\ n \in 1..MaxCount
      /\ n \in Nat /\ rewriting + n <= Last + 1 /\ rewriting # Nowhere
  BY Limits DEF RewriteNext, Counts
<1>3. rewriting' # Nowhere
  BY <1>1, <1>2, Limits
<1>4. /\ pc = "idle" /\ pc' = "block" /\ cmd'.next = rewriting /\ cmd'.left = n
      /\ cmd'.gone = FALSE /\ cmd'.write = TRUE
      /\ UNCHANGED <<store, index, dd_count, system>>
  <2>1. TRUE \in BOOLEAN /\ ReadWrite(TRUE, rewriting, n)
    BY <1>1
  <2>2. /\ pc' \in {"idle", "block"} /\ pc = "idle"
        /\ pc' = "block" => /\ cmd'.left = n /\ cmd'.next = rewriting
                            /\ cmd'.write = TRUE /\ cmd'.gone = FALSE
        /\ pc' = "idle" => rewriting > Last
        /\ UNCHANGED <<store, index, dd_count, system>>
    BY <1>2, <2>1, CommandType
  <2>3. ~(rewriting > Last)
    BY <1>2, Limits
  <2> QED BY <2>2, <2>3
<1>5. Writing' /\ Pending' = Pending
  BY <1>4 DEF Writing, Pending
<1>6. cmd'.next + cmd'.left = rewriting'
  BY <1>1, <1>4
<1>7. Stale' = Stale
  BY <1>4 DEF Stale
<1>8. /\ Pending >= 2 => dd_count = Pending - 1
      /\ Pending > Root => store[Root].system = system
      /\ Stale /\ Pending <= 1 => dd_count > RewriteLimit
  BY <1>2, <1>4 DEF Detecting, CountFollows
<1>9. CountFollows'
  BY <1>4, <1>5, <1>6, <1>7, <1>8 DEF CountFollows
<1>10. CountPending' /\ (rewriting' = Nowhere => store'[Root].system = system')
  BY <1>3 DEF CountPending, Nowhere
<1>11. ~cmd'.gone
  BY <1>4, Zenon
<1> QED BY <1>3, <1>9, <1>10, <1>11, Zenon DEF Detecting, Nowhere

\* After a reset the host begins again, and no handler is set up.
LEMMA ResetKeeps == ASSUME TypeOK, Detecting, Reset PROVE Detecting'
<1>1. /\ pc' = "start" /\ index' = "none" /\ cmd' = NoCommand /\ store' = store
      /\ system' = system /\ rewriting' = Restarted
  BY DEF Reset, Booted
<1>2. ~Writing' /\ Pending' = rewriting' /\ ~Stale'
  BY <1>1 DEF Writing, Pending, Stale
<1>3. rewriting' = Nowhere \/ (rewriting' = 0 /\ rewriting # Nowhere)
  BY <1>1 DEF Restarted
<1>4. rewriting' = 0 => ~(Pending' >= 2) /\ ~(Pending' > Root)
  BY <1>2, Limits
<1>5. CountFollows'
  BY <1>2, <1>3, <1>4 DEF CountFollows, Nowhere
<1>6. CountPending'
  BY <1>2 DEF CountPending
<1>7. rewriting' = Nowhere => rewriting = Nowhere
  BY <1>1, Limits DEF Restarted
<1>8. rewriting' = Nowhere => store'[Root].system = system'
  BY <1>1, <1>7 DEF Detecting
<1>9. ~cmd'.gone
  BY <1>1 DEF NoCommand
<1> QED BY <1>5, <1>6, <1>8, <1>9, Zenon DEF Detecting, Nowhere

\* A turn of write_blocks that does not fail makes the file system the host's, or leaves
\* it; it makes it the host's when it stores the block that iodir_init begins at.
LEMMA StoredSystem ==
    ASSUME TypeOK, AddressesMatch, ~cmd.gone, HandleBlock \/ StoreBlock
    PROVE  /\ WriteTurn /\ UNCHANGED <<index, system, rewriting>>
           /\ store'[Root].system \in {store[Root].system, system}
           /\ cmd.next # Root => store'[Root].system = store[Root].system
           /\ cmd.next = Root /\ Bypassed => store'[Root].system = system
<1>1. Root \in Blocks
  BY Limits
<1>2. CASE HandleBlock
  BY <1>2 DEF HandleBlock, host
<1>3. CASE StoreBlock
  <2>1. WriteTurn /\ UNCHANGED <<index, system, rewriting>> /\ pc = "block"
    BY <1>3 DEF StoreBlock, StoreTurn, WriteTurn
  <2>2. Target = cmd.next /\ cmd.next \in Blocks
    BY <2>1, TargetIsNext
  <2>3. Received = Data(system, cmd.next)
    BY Zenon DEF Received
  <2>4. store' = [store EXCEPT ![cmd.next] = Data(system, cmd.next)]
    BY <1>3, <2>2, <2>3 DEF StoreBlock
  <2> QED BY <1>1, <2>1, <2>2, <2>4 DEF TypeOK, Data
<1> QED BY <1>2, <1>3

\* A turn of write_blocks outside a rewrite.
LEMMA LooseTurnKeeps ==
    ASSUME TypeOK, CommandFits, AddressesMatch, Detecting, HandleBlock \/ StoreBlock,
           rewriting = Nowhere
    PROVE  Detecting'
<1>1. ~cmd.gone
  BY Zenon DEF Detecting
<1>2. WriteTurn /\ UNCHANGED <<index, system, rewriting>> /\ pc = "block" /\ cmd.write
  BY <1>1, StoredSystem, Zenon DEF WriteTurn
<1>3. store[Root].system = system /\ store'[Root].system = system
  BY <1>1, StoredSystem DEF Detecting
<1>4. ~cmd'.gone
  <2>1. CASE pc' = "idle"
    BY <1>2, <2>1, TurnType DEF WriteTurn, NextTurn, NoCommand, Bypassed
  <2>2. CASE pc' = "block"
    BY <1>1, <1>2, <2>2, WriteTurnFacts, Zenon
  <2> QED BY <1>2, <2>1, <2>2, WriteTurnFacts
<1>5. CountPending'
  <2> SUFFICES ASSUME Stale' PROVE dd_count' > RewriteLimit /\ (Writing' => cmd'.next # 1)
    BY DEF CountPending
  <2>1. Stale
    BY <1>2, <1>3 DEF Stale
  <2>2. Writing /\ pc # "reboot"
    BY <1>2, Zenon DEF Writing
  <2>3. dd_count > RewriteLimit /\ cmd.next # 1
    BY <2>1, <2>2, Zenon DEF Detecting, CountPending
  <2>4. InRun
    BY <1>2, <2>3 DEF WriteTurn, Rewritten
  <2>5. dd_count' = cmd.next /\ cmd.next = dd_count + 1 /\ cmd.next \in Nat /\ dd_count \in Nat
    BY <1>2, <2>3, <2>4, WriteTurnFacts DEF InRun, Counted
  <2>6. Writing' => cmd'.next = cmd.next + 1
    BY <1>2, WriteTurnFacts, Zenon DEF Writing
  <2> QED BY <2>3, <2>5, <2>6, Limits
<1>6. CountFollows'
  BY <1>2 DEF CountFollows, Nowhere
<1> QED BY <1>2, <1>3, <1>4, <1>5, <1>6, Zenon DEF Detecting, Nowhere

\* A turn of write_blocks with the next block of a new file system.
LEMMA RewriteTurnKeeps ==
    ASSUME TypeOK, CommandFits, AddressesMatch, Detecting, HandleBlock \/ StoreBlock,
           rewriting # Nowhere
    PROVE  Detecting'
<1>1. ~cmd.gone
  BY Zenon DEF Detecting
<1>2. WriteTurn /\ UNCHANGED <<index, system, rewriting>> /\ pc = "block" /\ cmd.write
  BY <1>1, StoredSystem, Zenon DEF WriteTurn
<1>3. ~cmd'.gone
  <2>1. CASE pc' = "idle"
    BY <1>2, <2>1, TurnType DEF WriteTurn, NextTurn, NoCommand, Bypassed
  <2>2. CASE pc' = "block"
    BY <1>1, <1>2, <2>2, WriteTurnFacts, Zenon
  <2> QED BY <1>2, <2>1, <2>2, WriteTurnFacts
<1>4. Writing /\ pc # "reboot" /\ Pending = cmd.next /\ cmd.next \in Nat /\ dd_count \in Nat
  BY <1>2, WriteTurnFacts DEF Writing, Pending
<1>5. /\ cmd.next + cmd.left = rewriting
      /\ cmd.next >= 2 => dd_count = cmd.next - 1
      /\ cmd.next > Root => store[Root].system = system
      /\ Stale /\ cmd.next <= 1 => dd_count > RewriteLimit
  BY <1>4 DEF Detecting, CountFollows
<1>6. cmd.left \in Nat
  BY <1>2, CommandFields DEF TypeOK
<1>7. pc' # "reboot" /\ Pending' = cmd.next + 1 /\ (Writing' => cmd'.next + cmd'.left = rewriting')
  <2>1. CASE pc' = "idle"
    <3>1. cmd.left = 1
      BY <1>2, <2>1, WriteTurnFacts
    <3>2. ~Writing'
      BY <2>1 DEF Writing
    <3> QED BY <1>2, <1>5, <2>1, <3>1, <3>2 DEF Pending
  <2>2. CASE pc' = "block"
    <3>1. /\ cmd'.next = cmd.next + 1 /\ cmd'.write = cmd.write /\ cmd'.left = cmd.left - 1
      BY <1>2, <2>2, WriteTurnFacts
    <3>2. Writing'
      BY <1>2, <2>2, <3>1, Zenon DEF Writing
    <3> QED BY <1>2, <1>4, <1>5, <1>6, <2>2, <3>1, <3>2 DEF Pending
  <2> QED BY <1>2, <2>1, <2>2, WriteTurnFacts
<1>8. cmd.next >= 1 => InRun
  BY <1>4, <1>5 DEF InRun
<1>9. Pending' >= 2 => dd_count' = Pending' - 1
  BY <1>2, <1>4, <1>7, <1>8, WriteTurnFacts DEF Counted
<1>10. Pending' > Root => store'[Root].system = system'
  <2> SUFFICES ASSUME cmd.next >= Root PROVE store'[Root].system = system
    BY <1>2, <1>4, <1>7, Limits
  <2>1. CASE cmd.next = Root
    <3>1. Bypassed
      BY <1>4, <1>8, <2>1, Limits DEF Bypassed
    <3> QED BY <1>1, <2>1, <3>1, StoredSystem
  <2>2. CASE cmd.next > Root
    <3>1. cmd.next # Root
      BY <1>4, <2>2, Limits
    <3> QED BY <1>1, <1>5, <2>2, <3>1, StoredSystem
  <2> QED BY <1>4, <2>1, <2>2, Limits
<1>11. ~(Stale' /\ Pending' <= 1)
  <2> SUFFICES ASSUME Stale', cmd.next = 0 PROVE FALSE
    BY <1>4, <1>7
  <2>1. cmd.next # Root
    BY Limits
  <2>2. Stale
    BY <1>1, <1>2, <2>1, StoredSystem DEF Stale
  <2>3. dd_count > RewriteLimit
    BY <1>5, <2>2
  <2>4. ~InRun
    BY <1>4 DEF InRun
  <2> QED BY <1>2, <2>3, <2>4 DEF WriteTurn, Rewritten
<1>12. CountFollows'
  BY <1>7, <1>9, <1>10, <1>11 DEF CountFollows
<1>13. rewriting' # Nowhere'
  BY <1>2 DEF Nowhere
<1> QED BY <1>3, <1>12, <1>13, Zenon DEF Detecting, CountPending

LEMMA InitRewrite == Init => RewriteTracked
<1> SUFFICES ASSUME Init PROVE RewriteTracked
  OBVIOUS
<1>1. cmd = NoCommand /\ rewriting = Nowhere /\ index = "none" /\ system = First
  BY DEF Init
<1>2. store[Root].system = system
  BY Limits DEF Init, Data
<1>3. ~cmd.gone
  BY <1>1 DEF NoCommand
<1> QED BY <1>1, <1>2, <1>3 DEF RewriteTracked, CountFollows, CountPending, Stale

\* Every step keeps the count and the host's rewrite together, while nothing has failed.
LEMMA RewriteStep ==
    ~FatFirst /\ AddressesMatch /\ TypeOK /\ CommandFits /\ RunTracked /\ RewriteTracked
    /\ [Next]_vars => RewriteTracked'
<1> SUFFICES ASSUME ~FatFirst, AddressesMatch, TypeOK, CommandFits, RunTracked, RewriteTracked,
                    [Next]_vars, failures' = 0
             PROVE  Detecting'
  BY DEF RewriteTracked, Detecting
<1>1. CASE UNCHANGED vars
  <2>1. failures = 0 /\ UNCHANGED <<store, index, dd_count, cmd, pc, system, rewriting>>
    BY <1>1 DEF vars, device, host, history
  <2>2. Detecting
    BY <2>1 DEF RewriteTracked, Detecting
  <2> QED BY <2>1, <2>2
    DEF Detecting, CountFollows, CountPending, Pending, Writing, Stale, Nowhere
<1>2. CASE \/ SdSilent \/ DiskFound \/ ScriptEnds \/ LedMode \/ LedRead \/ LedWrite \/ LedInterrupt
           \/ OtherCommand \/ AssumeRewritten \/ ReadBlock \/ BeginRewrite \/ EndRewrite
           \/ HandleBlock \/ StoreBlock \/ Watchdog \/ PowerCycle
           \/ Read \/ ReadPastEnd \/ Write \/ RewriteNext \/ DiskNotFound
  <2>1. failures = 0
    <3>1. CASE \/ SdSilent \/ DiskFound \/ ScriptEnds \/ LedMode \/ LedRead \/ LedWrite
               \/ LedInterrupt \/ OtherCommand \/ AssumeRewritten \/ ReadBlock
               \/ BeginRewrite \/ EndRewrite \/ HandleBlock \/ StoreBlock
      BY <3>1 DEF SdSilent, DiskFound, ScriptEnds, LedMode, LedRead, LedWrite, LedInterrupt,
        OtherCommand, AssumeRewritten, ReadBlock, BeginRewrite, EndRewrite, HandleBlock,
        StoreBlock, history
    <3>2. CASE Watchdog \/ PowerCycle
      BY <3>2 DEF Watchdog, PowerCycle, Reset
    <3>3. CASE Read \/ ReadPastEnd \/ Write \/ RewriteNext
      <4>1. \E write \in BOOLEAN : \E start : \E n : ReadWrite(write, start, n)
        BY <3>3, Zenon DEF Read, ReadPastEnd, Write, RewriteNext
      <4> QED BY <4>1 DEF ReadWrite, history
    <3>4. CASE DiskNotFound
      BY <3>4, Limits DEF DiskNotFound, TypeOK
    <3> QED BY <1>2, <3>1, <3>2, <3>3, <3>4
  <2>2. Detecting
    BY <2>1 DEF RewriteTracked, Detecting
  <2>3. ASSUME Aside PROVE Detecting'
    BY <2>2, <2>3, AsideKeeps DEF Detecting
  <2>4. CASE \/ SdSilent \/ DiskFound \/ DiskNotFound \/ ScriptEnds \/ LedMode \/ LedRead
             \/ LedWrite \/ LedInterrupt \/ OtherCommand \/ AssumeRewritten
    BY <2>3, <2>4, MainLoopAside
  <2>5. CASE Read \/ ReadPastEnd
    BY <2>3, <2>5, ReadAside
  <2>6. CASE ReadBlock
    BY <2>3, <2>6, ReadTurnAside
  <2>7. CASE Write
    BY <2>2, <2>7, WriteKeeps
  <2>8. CASE BeginRewrite
    BY <2>2, <2>8, BeginKeeps
  <2>9. CASE EndRewrite
    BY <2>2, <2>9, EndKeeps
  <2>10. CASE RewriteNext
    BY <2>2, <2>10, NextKeeps
  <2>11. CASE HandleBlock \/ StoreBlock
    BY <2>2, <2>11, LooseTurnKeeps, RewriteTurnKeeps
  <2>12. CASE Watchdog \/ PowerCycle
    BY <2>2, <2>12, ResetKeeps DEF Watchdog, PowerCycle
  <2> QED BY <1>2, <2>4, <2>5, <2>6, <2>7, <2>8, <2>9, <2>10, <2>11, <2>12
<1>3. CASE HostGone
  BY <1>3, Limits DEF HostGone, TypeOK
<1>4. CASE ReadFails \/ StoreFails
  <2>1. pc = "block" /\ Fails
    BY <1>4, TurnPoints DEF ReadFails, StoreFails
  <2>2. Target # Refused
    BY <2>1, TargetIsNext
  <2>3. failures' = failures + 1 /\ failures \in Nat
    BY <2>1, <2>2, Limits DEF Fails, TypeOK
  <2> QED BY <2>3
<1> QED BY <1>1, <1>2, <1>3, <1>4 DEF Next

\* A host that puts a new file system on the card, in order and not from block 1 right
\* after another one, does not get its blocks to the handlers of the old one: either they
\* are of the file system that iodir_init found, or write_blocks waits for the watchdog.
THEOREM RewritesAreCaught == ~FatFirst /\ CardsConform => (Spec => RewriteCaught)
<1> SUFFICES ASSUME ~FatFirst, CardsConform PROVE Spec => RewriteCaught
  OBVIOUS
<1>0. AddressesMatch
  BY AddressesAreRight
<1>1. TypeOK /\ CommandFits /\ RewriteTracked /\ [Next]_vars =>
        [WriteTurn /\ Noticed(cmd.next) /\ failures = 0 => store[Root].system = index]_vars
  <2> SUFFICES ASSUME TypeOK, CommandFits, RewriteTracked, WriteTurn, Noticed(cmd.next),
                      failures = 0, store[Root].system # index
               PROVE  FALSE
    OBVIOUS
  <2>1. pc = "block" /\ cmd.write /\ cmd.next \in Blocks /\ cmd.next \in Nat
    <3>1. pc = "block" /\ cmd.write
      BY Zenon DEF WriteTurn
    <3>2. cmd.next \in Blocks /\ cmd.next \in Nat
      BY <3>1, Limits DEF TypeOK
    <3> QED BY <3>1, <3>2
  <2>2. ~InRun /\ ~(dd_count > RewriteLimit)
    BY DEF WriteTurn, Noticed, Bypassed, Rewritten
  <2>3. cmd.next > Root /\ Stale
    BY <2>1, NoticedBehindRoot DEF Noticed, Stale
  <2>4. Writing /\ Pending = cmd.next /\ pc # "reboot"
    BY <2>1 DEF Writing, Pending
  <2>5. rewriting # Nowhere
    BY <2>2, <2>3, <2>4, Zenon DEF RewriteTracked, CountPending
  <2>6. cmd.next >= 2
    BY <2>1, <2>3, Limits
  <2>7. dd_count = cmd.next - 1
    BY <2>4, <2>5, <2>6 DEF RewriteTracked, CountFollows
  <2> QED BY <2>2, <2>7 DEF InRun
<1>2. TypeOK /\ CommandFits /\ RunTracked /\ RewriteTracked /\ [Next]_vars => RewriteTracked'
  BY <1>0, RewriteStep
<1> QED BY <1>1, <1>2, InitType, InitRun, InitRewrite, TypeStep, RunStep, PTL
        DEF Spec, RewriteCaught
=============================================================================
