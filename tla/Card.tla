--------------------------------- MODULE Card ---------------------------------
(***************************************************************************)
(* The block device that the host sees: the SCSI commands (scsi_impl.c),   *)
(* read_blocks and write_blocks (disk.c) with their detection of a disk    *)
(* that is written anew, on an SD card that may refuse or fail (sd.c), and *)
(* the LEDs that are the only report of a failure (log.c).                 *)
(*                                                                         *)
(* What a handler or watcher does with its block is in Disk; here it only  *)
(* matters which blocks are theirs, as iodir_init found them in the file    *)
(* system that was on the card when the program started.                   *)
(***************************************************************************)
EXTENDS SdCard, Leds, FiniteSets

CONSTANTS
    Cards,          \* the cards that may be in the slot
    Last,           \* their last block
    Systems,        \* file systems the host may put on the card
    First,          \* the one that is there; the host does not make it again (a bound)
    Handled,        \* Handled[s]: the blocks of pins, of status and of device files
    Watched,        \* Watched[s]: the blocks of the directories that are watched
    Root,           \* the block iodir_init begins at
    RewriteLimit,   \* 450
    FatFirst,       \* the host may begin to use a new file system at block 1
    MaxCount,       \* bound on the blocks of one command
    Requests,       \* the calls of (led) that scripts make
    MaxFailures     \* bound on the failures of the card and of the bus

Blocks == 0..Last
Nowhere == Last + 2

ASSUME CardsAssumption ==
    /\ Cards \subseteq CardKinds
    /\ Last \in Nat /\ \A c \in Cards : Accepted(c) /\ Capacity(c) = Last + 1
ASSUME SystemsAssumption ==
    /\ First \in Systems /\ "none" \notin Systems /\ "junk" \notin Systems
    /\ Handled \in [Systems -> SUBSET Blocks] /\ Watched \in [Systems -> SUBSET Blocks]
    /\ \A s \in Systems : Handled[s] \cap Watched[s] = {}
    /\ \A s \in Systems : \A b \in Handled[s] \cup Watched[s] : b > Root
ASSUME LimitsAssumption ==
    /\ RewriteLimit \in Nat \ {0} /\ RewriteLimit < Last /\ Root \in 1..RewriteLimit
    /\ FatFirst \in BOOLEAN /\ MaxCount \in Nat \ {0} /\ MaxFailures \in Nat

Calls == [lamp : Lamps, value : {"none", "low", "high"}]
NoRequest == [lamp |-> "red", value |-> "none"]
ASSUME RequestsAssumption == Requests \subseteq Calls

Data(s, b) == [system |-> s, block |-> b]
Junk == Data("junk", 0)
Contents == [system : Systems, block : Blocks] \cup {Junk}

VARIABLES
    card,           \* the card in the slot
    store,          \* its blocks
    index,          \* the file system iodir_init found, or "none"
    dd_count,       \* fs_dd_block_count
    pc,             \* where the main loop is
    cmd,            \* READ(10) or WRITE(10) in progress
    sense,          \* error_response: "good" or "illegal" request
    request,        \* (led) in progress: the lamp and its value
    port,           \* the port as set_out has read it
    system,         \* host: the file system it writes
    rewriting,      \* host: the next block of a new file system, or Nowhere
    sent,           \* host: what it has written to each block
    lost,           \* history: blocks whose last write failed
    lastWritten,    \* history: the block of the last write
    fromStart,      \* history: its run of consecutive blocks began in the first three
    unhealed,       \* history: the card has failed and the LED was not set since
    failures

device == <<index, dd_count, cmd, sense>>
script == <<request, port, leds>>
host == <<system, rewriting, sent>>
run == <<lastWritten, fromStart>>
history == <<lost, run, unhealed, failures>>
vars == <<card, store, device, pc, script, host, history>>

Commands ==
    [write : BOOLEAN, next : 0..(Last + 1), left : 0..MaxCount, dd : BOOLEAN, gone : BOOLEAN]
NoCommand == [write |-> FALSE, next |-> 0, left |-> 0, dd |-> FALSE, gone |-> FALSE]
(* start, wait: sd_init, for the first time and after; run:                *)
(* execute_runfile; idle: usb_task and the other calls of the main loop;   *)
(* block: the loop of read_blocks or write_blocks; reboot: for (;;);       *)
(* led, out: in (led), before and after set_out has read the port.         *)
Points == {"start", "wait", "run", "idle", "block", "reboot", "led", "out"}

TypeOK ==
    /\ LedsTypeOK
    /\ card \in Cards /\ store \in [Blocks -> Contents]
    /\ index \in Systems \cup {"none"} /\ dd_count \in Blocks
    /\ pc \in Points
    /\ cmd \in Commands
    /\ pc = "block" => cmd.left > 0 /\ cmd.next \in Blocks
    /\ sense \in {"good", "illegal"}
    /\ request \in Calls /\ port \in [Lamps -> BOOLEAN]
    /\ system \in Systems /\ rewriting \in Blocks \cup {Last + 1, Nowhere}
    /\ sent \in [Blocks -> Contents] /\ lost \subseteq Blocks
    /\ lastWritten \in Blocks \cup {Nowhere} /\ fromStart \in BOOLEAN
    /\ unhealed \in BOOLEAN /\ failures \in 0..MaxFailures

\* RAM at power-up; the static variables are zero
Booted ==
    /\ index' = "none" /\ dd_count' = 0 /\ pc' = "start" /\ cmd' = NoCommand
    /\ sense' = "good" /\ request' = NoRequest
    /\ port' = [l \in Lamps |-> FALSE]
    /\ led_state' = [l \in Lamps |-> "off"] /\ lit' = [l \in Lamps |-> FALSE]
    /\ lastWritten' = Nowhere /\ fromStart' = FALSE /\ unhealed' = FALSE

Init ==
    /\ LedsInit
    /\ card \in Cards /\ system = First
    /\ store = [b \in Blocks |-> Data(First, b)] /\ sent = store
    /\ index = "none" /\ dd_count = 0 /\ pc = "start" /\ cmd = NoCommand
    /\ sense = "good" /\ request = NoRequest
    /\ port = [l \in Lamps |-> FALSE] /\ rewriting = Nowhere
    /\ lost = {} /\ lastWritten = Nowhere /\ fromStart = FALSE
    /\ unhealed = FALSE /\ failures = 0

-----------------------------------------------------------------------------
(***************************************************************************)
(* main: sd_init until a card answers, disk_init and iodir_init            *)
(***************************************************************************)
SdSilent ==
    /\ pc \in {"start", "wait"} /\ pc' = "wait"
    /\ \E on \in BOOLEAN : lit' = [lit EXCEPT !["red"] = on]
    /\ UNCHANGED <<card, store, device, request, port, led_state, host, history>>

\* main: RUN.LIO is only run when the card was there at the first attempt
AfterStart == IF pc = "start" THEN "run" ELSE "idle"

DiskFound ==
    /\ pc \in {"start", "wait"} /\ store[Root] # Junk
    /\ index' = store[Root].system /\ pc' = AfterStart
    /\ lit' = [lit EXCEPT !["red"] = @ \/ pc = "start"]
    /\ UNCHANGED <<card, store, dd_count, cmd, sense, request, port, led_state, host,
                   history>>

DiskNotFound ==
    /\ pc \in {"start", "wait"}
    /\ \/ store[Root] = Junk /\ UNCHANGED failures
       \/ failures < MaxFailures /\ failures' = failures + 1
    /\ \E code \in {"disk", "iodir"} : led_state' = Errored(led_state, code)
    /\ pc' = "idle"
    /\ UNCHANGED <<card, store, device, request, port, lit, host, lost, run, unhealed>>

\* runfile_changed: the LED shows that the script has failed, or nothing; error() of a
\* handler that the main loop performs
ScriptEnds ==
    /\ pc \in {"run", "idle"} /\ pc' = "idle"
    /\ \E mode \in {"off", "on"} : led_state' = Errored(led_state, mode)
    /\ unhealed' = FALSE
    /\ UNCHANGED <<card, store, device, request, port, lit, host, lost, run, failures>>

(***************************************************************************)
(* (led lamp [value]) of a script: led_mode, then set_out, which reads the *)
(* port and writes it back; the timer interrupt may come in between        *)
(***************************************************************************)
ModeAfter(value) == IF value = "none" THEN "off" ELSE "manual"

LedMode ==
    /\ pc = "idle" /\ pc' = "led"
    /\ \E r \in Requests :
          /\ request' = r
          /\ led_state' = [led_state EXCEPT ![r.lamp] = ModeAfter(r.value)]
          /\ unhealed' = (unhealed /\ r.lamp # "red")
    /\ UNCHANGED <<card, store, device, port, lit, host, lost, run, failures>>

LedRead ==
    /\ pc = "led" /\ pc' = "out" /\ port' = lit
    /\ UNCHANGED <<card, store, device, request, leds, host, history>>

LedWrite ==
    /\ pc = "out" /\ pc' = "idle"
    /\ lit' = [port EXCEPT ![request.lamp] = request.value = "high"]
    /\ request' = NoRequest /\ port' = [l \in Lamps |-> FALSE]
    /\ UNCHANGED <<card, store, device, led_state, host, history>>

LedInterrupt == LedTask /\ UNCHANGED <<card, store, device, pc, request, port, host, history>>

-----------------------------------------------------------------------------
(***************************************************************************)
(* scsi_command                                                            *)
(***************************************************************************)
\* what sets the sense data and moves no block: a command that succeeds (REQUEST SENSE
\* and a transfer whose endpoint does not get ready among them), one of an unknown code,
\* INQUIRY with unsupported bits
OtherCommand ==
    /\ pc = "idle" /\ sense' \in {"good", "illegal"}
    /\ UNCHANGED <<card, store, index, dd_count, pc, cmd, script, host, history>>

OutOfRange(start) == start >= Capacity(card)

\* SCSI_Command_ReadWrite_10
ReadWrite(write, start, count) ==
    /\ pc = "idle"
    /\ IF OutOfRange(start)
       THEN sense' = "illegal" /\ UNCHANGED <<pc, cmd>>
       ELSE /\ sense' = "good" /\ pc' = "block"
            /\ cmd' = [write |-> write, next |-> start, left |-> count, dd |-> FALSE,
                       gone |-> FALSE]
    /\ UNCHANGED <<card, store, index, dd_count, script, system, sent, history>>

Counts(start) == {n \in 1..MaxCount : start + n <= Last + 1}

\* the host reads and writes as it likes; it may ask for a block past the end.  The
\* loop of read_blocks keeps nothing from one turn to the next: one block stands for all
Read ==
    /\ \E start \in Blocks : ReadWrite(FALSE, start, 1)
    /\ UNCHANGED rewriting
ReadPastEnd == ReadWrite(FALSE, Last + 1, 1) /\ UNCHANGED rewriting

JustRewritten == fromStart /\ lastWritten > RewriteLimit
Write ==
    /\ rewriting = Nowhere
    /\ \E start \in Blocks :
          /\ start = 1 => FatFirst \/ ~JustRewritten
          /\ \E n \in Counts(start) : ReadWrite(TRUE, start, n)
    /\ UNCHANGED rewriting

(***************************************************************************)
(* A new file system: all blocks in order from 0 or 1, in commands of any  *)
(* length, and more of them than RewriteLimit; nothing else is written     *)
(* until the end.  When the device goes away, from the beginning.          *)
(***************************************************************************)
BeginRewrite ==
    /\ pc = "idle" /\ rewriting = Nowhere
    /\ system' \in Systems \ {First, system} /\ rewriting' \in {0, 1}
    /\ UNCHANGED <<card, store, device, pc, script, sent, history>>

RewriteNext ==
    /\ rewriting \in Blocks
    /\ \E n \in Counts(rewriting) :
          ReadWrite(TRUE, rewriting, n) /\ rewriting' = rewriting + n

EndRewrite ==
    /\ pc = "idle" /\ rewriting # Nowhere /\ rewriting > RewriteLimit + 1
    /\ rewriting' = Nowhere
    /\ UNCHANGED <<card, store, device, pc, script, system, sent, history>>

Restarted == IF rewriting = Nowhere THEN Nowhere ELSE 0

\* the bus is reset while blocks are written: wait_until_OUT_ready gives up, and what
\* is read from the endpoint is not data
HostGone ==
    /\ pc = "block" /\ cmd.write /\ ~cmd.gone /\ failures < MaxFailures
    /\ failures' = failures + 1 /\ cmd' = [cmd EXCEPT !.gone = TRUE]
    /\ rewriting' = Restarted
    /\ UNCHANGED <<card, store, index, dd_count, pc, sense, script, system, sent,
                   lost, run, unhealed>>

-----------------------------------------------------------------------------
(***************************************************************************)
(* One turn of the loop of read_blocks                                     *)
(***************************************************************************)
NextTurn(dd) ==
    IF cmd.left = 1 THEN cmd' = NoCommand /\ pc' = "idle"
    ELSE /\ cmd' = [cmd EXCEPT !.next = @ + 1, !.left = @ - 1, !.dd = dd]
         /\ UNCHANGED pc

IsHandled(b) == index # "none" /\ b \in Handled[index]
IsWatched(b) == index # "none" /\ b \in Watched[index]
Target == Reached(card, Address(card, cmd.next))

ReadTurn == pc = "block" /\ ~cmd.write /\ NextTurn(FALSE)

ReadBlock ==
    /\ ReadTurn
    /\ IsHandled(cmd.next) \/ Target # Refused
    /\ led_state' = Flashed(led_state, "green")
    /\ UNCHANGED <<card, store, index, dd_count, sense, request, port, lit, host, history>>

\* sd_read_block fails: the host gets what the buffer held, and a command that succeeded
Fails ==
    \/ Target = Refused /\ UNCHANGED failures
    \/ failures < MaxFailures /\ failures' = failures + 1
ErrorShown(lamp) ==
    /\ led_state' = Errored(Flashed(led_state, lamp), "sd")
    /\ unhealed' = (unhealed \/ led_state["red"] # "manual")

ReadFails ==
    /\ ReadTurn /\ ~IsHandled(cmd.next) /\ Fails /\ ErrorShown("green")
    /\ UNCHANGED <<card, store, index, dd_count, sense, request, port, lit, host,
                   lost, run>>

(***************************************************************************)
(* and of write_blocks                                                     *)
(***************************************************************************)
InRun == cmd.next = 1 \/ dd_count = cmd.next - 1
Bypassed == cmd.dd \/ InRun
RewrittenLate == ~InRun /\ dd_count > RewriteLimit + 1   \* mutant: off by one
Rewritten == ~InRun /\ dd_count > RewriteLimit
CountedOn == IF InRun THEN cmd.next ELSE dd_count   \* mutant: no reset
Counted == IF InRun THEN cmd.next ELSE 1

\* history: consecutive blocks
Tracked ==
    /\ lastWritten' = cmd.next
    /\ fromStart' = IF cmd.next = lastWritten + 1 THEN fromStart ELSE cmd.next <= 2

Received == IF cmd.gone THEN Junk ELSE Data(system, cmd.next)

WriteTurn ==
    /\ pc = "block" /\ cmd.write /\ ~Rewritten
    /\ NextTurn(Bypassed) /\ Tracked
    /\ dd_count' = Counted

HandleBlock ==
    /\ WriteTurn /\ ~Bypassed /\ IsHandled(cmd.next)
    /\ led_state' = Flashed(led_state, "red")
    /\ UNCHANGED <<card, store, index, sense, request, port, lit, host, lost, unhealed,
                   failures>>

StoreTurn == WriteTurn /\ (Bypassed \/ ~IsHandled(cmd.next))

StoreBlock ==
    /\ StoreTurn /\ Target \in Blocks
    /\ store' = [store EXCEPT ![Target] = Received]
    /\ IF cmd.gone THEN lost' = lost \cup {cmd.next} /\ UNCHANGED sent
       ELSE lost' = lost \ {cmd.next} /\ sent' = [sent EXCEPT ![cmd.next] = Received]
    /\ led_state' = Flashed(led_state, "red")
    /\ UNCHANGED <<card, index, sense, request, port, lit, system, rewriting, unhealed,
                   failures>>

\* sd_write_block fails, before the card has programmed the block or after it
StoreFails ==
    /\ StoreTurn /\ Fails /\ ErrorShown("red")
    /\ \/ UNCHANGED store
       \/ Target \in Blocks /\ store' = [store EXCEPT ![Target] = Received]
    /\ lost' = lost \cup {cmd.next}
    /\ UNCHANGED <<card, index, sense, request, port, lit, host>>

\* the file system has been written anew: wait for the watchdog
AssumeRewritten ==
    /\ pc = "block" /\ cmd.write /\ Rewritten
    /\ pc' = "reboot" /\ led_state' = Flashed(led_state, "red")
    /\ UNCHANGED <<card, store, device, request, port, lit, host, history>>

(***************************************************************************)
(* A reset, by the watchdog or because the power went                      *)
(***************************************************************************)
Reset ==
    /\ Booted /\ rewriting' = Restarted
    /\ UNCHANGED <<card, store, system, sent, lost, failures>>
Watchdog == pc = "reboot" /\ Reset
PowerCycle == pc # "start" /\ Reset

Next ==
    \/ SdSilent \/ DiskFound \/ DiskNotFound \/ ScriptEnds
    \/ LedMode \/ LedRead \/ LedWrite \/ LedInterrupt
    \/ OtherCommand \/ Read \/ ReadPastEnd \/ Write
    \/ BeginRewrite \/ RewriteNext \/ EndRewrite \/ HostGone
    \/ ReadBlock \/ ReadFails \/ HandleBlock \/ StoreBlock \/ StoreFails
    \/ AssumeRewritten \/ Watchdog \/ PowerCycle

Spec == Init /\ [][Next]_vars

-----------------------------------------------------------------------------
(***************************************************************************)
(* Invariants that the properties below rest on                            *)
(***************************************************************************)
CommandFits == pc = "block" => cmd.next + cmd.left <= Last + 1

\* a count of two and more, and dd, are those of a run of blocks that is still going on
RunTracked ==
    /\ lastWritten \in 0..2 => fromStart
    /\ dd_count >= 2 => fromStart /\ lastWritten = dd_count
    /\ pc = "block" /\ cmd.write /\ cmd.dd => fromStart /\ lastWritten = cmd.next - 1

\* the next block of a new file system that has not been written
Writing == pc = "block" /\ cmd.write
Pending == IF Writing THEN cmd.next ELSE rewriting
Stale == index # "none" /\ store[Root].system # index

\* While a new file system is written, the count follows the host; while the handlers
\* are those of another one than the card's, it is one for which the next write that is
\* not the next block reboots.
CountFollows ==
    pc # "reboot" /\ rewriting # Nowhere =>
        /\ Writing => cmd.next + cmd.left = rewriting
        /\ Pending >= 2 => dd_count = Pending - 1
        /\ Pending > Root => store[Root].system = system
        /\ Stale /\ Pending <= 1 => dd_count > RewriteLimit
CountPending ==
    pc # "reboot" /\ rewriting = Nowhere /\ Stale =>
        dd_count > RewriteLimit /\ (Writing => cmd.next # 1)
RewriteTracked ==
    failures = 0 =>
        /\ ~cmd.gone /\ CountFollows /\ CountPending
        /\ rewriting = Nowhere => store[Root].system = system

\* until main has started, no LED has a mode and nothing has failed
NotStarted ==
    pc \in {"start", "wait"} => led_state = [l \in Lamps |-> "off"] /\ ~unhealed

\* what set_out has read of the other LED is still so when it writes, if that is manual
PortRead == pc = "out" => \A l \in Lamps : led_state[l] = "manual" => port[l] = lit[l]

\* the cards are as the standard has them; nothing is said of what sd_init concludes
CardsConform == \A c \in Cards : Conforming(c)

-----------------------------------------------------------------------------
(***************************************************************************)
(* Properties                                                              *)
(***************************************************************************)
Noticed(b) == ~Bypassed /\ (IsHandled(b) \/ IsWatched(b))

\* write_blocks reboots "to catch changes" of a disk that was written anew: what is
\* given to a handler or watcher afterwards is of the file system it was set up for, on
\* a card and a bus that have not failed.
RewriteCaught ==
    [][WriteTurn /\ Noticed(cmd.next) /\ failures = 0 => store[Root].system = index]_vars

\* The detection leaves ordinary writes alone: a block that a handler or watcher is for
\* reaches it, unless it ends a run of consecutive blocks from the first three.
HandlersReached ==
    [][WriteTurn /\ (IsHandled(cmd.next) \/ IsWatched(cmd.next)) =>
          fromStart' \/ Noticed(cmd.next)]_vars

\* Whatever the card's kind and addressing, each block that read_blocks takes from the
\* card is what the host has last had stored there, unless that write has failed.
Where(b) == Reached(card, Address(card, b))
ReadsBack ==
    \A b \in Blocks \ lost : Where(b) \in Blocks /\ store[Where(b)] = sent[b]

\* The host is told that a command succeeded even when the card has failed; the red LED
\* says so until a script has run or has taken it.
FailureShown == unhealed => led_state["red"] = "sd"

\* A LED that a script has set stays as it set it: neither the interrupt, nor errors,
\* nor the other LED's changes undo it.
ManualKept ==
    [][/\ pc = "out" /\ pc' = "idle" => lit'[request.lamp] = (request.value = "high")
       /\ \A l \in Lamps : led_state[l] = "manual" /\ pc' # "start" =>
              /\ lit'[l] # lit[l] => pc = "out" /\ l = request.lamp
              /\ led_state'[l] # "manual" => pc' = "led"]_vars
=============================================================================
