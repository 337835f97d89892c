# A verification of the phatIO firmware

phatIO is a USB board (ATmega32U4 and an SD card) that looks like a flash drive with a
keyboard.  Files of the drive are connected to pins and scripts: writing `io/pins/6` sets
a pin, and `io/RUN.LIO` holds a program in *lio*, a small Lisp that the board evaluates
whenever the file changes.  This directory models the firmware in TLA+, checks the models
with TLC on small instances and proves theorems about them with TLAPS.

Run `tlc -config X.cfg M` for a row of the table of runs below and `tlapm M_proofs.tla`
for the proofs.  `PROJECT.json` lists components, runs, hazards, mutants (a change of a
definition, as a bug would make it, with the property that then fails), theorems, and for
each definition the lines of the source that it stands for.

## 1. The system

There are two threads of control and no operating system: the **main loop** of `phatio.c`
(`usb_task`, `check_runfile_changed`, `perform_triggered_task`) and the **timer
interrupt** of `scheduler.c`, every millisecond.  The USB stack (LUFA) calls back into the
main loop.  At a reset the **bootloader** runs first.  The card keeps the files; EEPROM
keeps the version of the application and some settings; a part of the program flash keeps
the code of the scripts.

| Component (source) | State it keeps | Operations | Calls, and shared state |
|---|---|---|---|
| lio life cycle (`lio_run.c`, `phatio.c`) | `lio_stopped`, `current` (next free page of script code) | `runfile_changed`, `eval_text`, `store_expression`, `lio_stop` | called by the block layer's trigger; clears scheduler, conditions, devices, references |
| Scheduler (`scheduler.c`) | `tasks[]`, `triggered_tasks[]`, the clock | timer interrupt, `scheduler_add`, `scheduler_remove`, `scheduler_clear`, `perform_triggered_task` | tables are written by main and read by the interrupt, and the queue the other way round |
| Evaluator (`lio.c`, `lio_basics.c`) | `time_started`, the reader's position, the return buffer | `next_expression`, `eval`, `safe_eval`, the builtins | calls every driver; `lio_stop` from anywhere |
| Conditions (`lio_conditions.c`, `adc.c`) | list of conditions and their last values | `conditions_check` (in the interrupt), `digital_condition`, `adc_condition`, `read_adc` | the list is written by main and walked by the interrupt; `read_adc` turns interrupts off and on |
| Variables (`lio_references.c`) | list of names and values on the heap | `defvar`, `setvar`, lookup, `references_clear` | |
| Block layer (`disk.c`) | clusters of pin files, device files and RUN.LIO; `last_write`; count of a whole-disk rewrite | `write_blocks`, `read_blocks`, `has_handler`, `has_watcher`, `check_runfile_changed`, `iodir_init` | called by SCSI; calls `set_pin_value`, `safe_evalexpressions`, the card |
| FAT (`fat_impl.c`, `file_char_source.c`) | none; position in a file | `find_sfn_file`, `get_next_cluster`, `file_source` | the card |
| Pins, PWM, ADC (`pins.c`, `iopin.c`, `pwm.c`, `adc.c`) | port registers, mode | `pin_mode`, `set_pin_value`, `get_pin_value` | |
| Keyboard and log (`log.c`, `keyboard.c`) | key buffer and its two positions, status text, LED states | `key_printf`, `log_consume_as_keyboard_report`, `error_P`, `led_task` | HID callback of `usb.c`; `led_task` runs in the interrupt |
| Configuration (`config.c`) | settings in RAM and EEPROM | `config_init`, `config` | |
| Heap (`util.c`) | `free_data` | `data_alloc`, `data_free`, `store_next` | |
| Card (`sd.c`, `spi.c`) | card type and size, one block buffer that all share | `sd_init`, `sd_read_block`, `sd_write_block` | |
| SCSI and USB (`scsi_impl.c`, `usb.c`) | sense data | `scsi_command` | block layer |
| Bootloader (`bootloader.c`, `bootloader_sdihex.c`) | version in EEPROM, the application area | `find_and_load_bootfile`, `check_bootfile`, `load_bootfile` | card, FAT |
| TWI, SPI (`lio_twi.c`, `lio_spi.c`) | state of a transfer | the builtins `twi`, `twi_start`, `twi_stop`, `twi_write`, `spi` | their arguments are evaluated between the bytes |
| Image builder (`support/make_fs.c`) | the image, next free cluster | `create_file`, `create_directory`, the boot records | makes the file system that the FAT code reads; runs on the developer's computer |

What is hard in it, and what makes each part correct:

* **Two threads share pointers that take two instructions to store.**  A handler pointer
  must not be used by the interrupt while it is half written; a queued trigger must not be
  lost; `cli` must be undone.
* **The code of a script lives in flash pages that the next run, and a stop in the middle
  of a builtin, hand out again.**  No handler may point into a page that has been
  programmed since; a run that fails must leave nothing installed.
* **A script is text, then items in a buffer of 255 bytes, then values in 255 bytes of
  memory.**  Each item carries the distance to the next one in a byte, the allocator's
  position is a byte and never reset, results are in three static items and second
  arguments in two static variables.  A program must mean what it says, whatever its
  layout and wherever in memory it starts, or be stopped.
* **Modes, timers and port bits of a pin are set by separate registers**, and a byte on the
  two wire bus may be refused in the middle of a nested call.
* **A script may loop.**  The guard in `continue_evaluating` must stop it.
* **The firmware sees blocks, not files.**  It tells what a block belongs to from cluster
  numbers it has noted, and the host may send data, directory and FAT in any order, move a
  file, empty it or use its cluster for another.  A pin must end up with what its file
  says, and other files must be stored.
* **Image and firmware are two programs** that must agree on a file system: names, chains,
  the ends of files.
* **Power may go at any time.**  A half-programmed application must be replaced at the
  next start.

`PROJECT.json` names these hazards one by one at their lines, with the properties that
cover them, and says of the uncovered ones why.

## 2. Modules

| Module | What it is |
|---|---|
| `Runtime` | life cycle of RUN.LIO, scheduler, timer interrupt, conditions, devices, functions, flash area, run-away guard |
| `Runtime_proofs` | invariance proofs of `Runtime`'s safety properties |
| `MCRuntime` | two bodies, of one and two pages |
| `Disk` | the block layer and a caching host |
| `Disk_proofs` | what was saved settles, and `Disk` implements `FileIO` |
| `FileIO` | the abstract specification that `Disk` implements |
| `MCDisk` | one or two pins, clusters, contents |
| `Bootloader` | check, program, record; resets, bad blocks, new files |
| `Bootloader_proofs` | invariance proofs of `Bootloader`'s safety properties |
| `MCBootloader` | two images, versions that share a byte, a damaged file |
| `Heap` | `data_alloc` with its position of a byte; operators only |
| `References` | variables, constants and functions in that memory: the state, and operators on it |
| `Memory` | extends it: scripts that define, store, are stopped and start, in any order |
| `Buffer` | the layout of items in `next_expression`'s buffer, and its patches of `rest` |
| `Layout` | the abstract specification of it that `Lio` implements: any words that fit into `str_buf`, any lists that `last` has a place for |
| `Memory_proofs` | proofs that blocks, variables and the items in the buffer are apart |
| `Reader` | extends `Buffer`: `next_token` and `next_expression`, from characters to items |
| `Evaluator` | `eval`, typing of items, the builtins that compute; operators only |
| `Meaning` | the reference definition: what scripts mean without buffers and memory |
| `Lio` | `eval_text` and runs: extends `Reader` and, through `Meaning`, all of the above |
| `MCLio` | programs in their layouts, cut off at every place, at the bounds of the buffer |
| `Fat` | `fat_impl.c`: boot records, chains, short names, lookup; operators only |
| `Volume` | `make_fs` call by call, then what the device finds and reads |
| `Volume_proofs` | proofs that the device finds and reads what `make_fs` has written |
| `MCVolume` | the calls of `main` of `make_fs` with fewer pins and shorter texts |
| `Pins` | modes, port bits, timers; `pin_mode`, `set_pin_value`, `pwm` |
| `Board` | extends it: the builtins for pins and for the two wire bus |
| `Board_proofs` | proofs that pins do as asked, bytes go out in order and errors release the bus |
| `MCBoard` | two pins, (twi) with and without nested writes |
| `SdCard` | what `sd_init` concludes of a card, and the blocks its commands reach; operators only |
| `Leds` | the modes of the LEDs, `led_error`, `led_flash`, and `led_task` in the interrupt |
| `Card` | extends both: `scsi_command`, the loops of `read_blocks` and `write_blocks`, the detection of a rewrite, failures, `(led)`, resets |
| `Card_proofs` | invariance proofs of `Card`'s type invariant and five properties |
| `MCCard` | two file systems on five blocks; the other kinds of card as an assumption |
| `Keys` | `map_keys` and `map_extension_block`: the stroke that a text stands for; operators only |
| `Config` | settings in RAM and EEPROM |
| `Keyboard` | extends both: `key_printf`, the buffer, the HID report |
| `Keyboard_proofs` | proofs of the settings, the pace of strokes, and that the host gets what was printed |
| `MCKeyboard` | a key, an escape, a block, and a block that cannot be used |

`Runtime` and `Disk` meet at RUN.LIO: `Disk`'s evaluation of a script is `Runtime`'s
`Runfile...` actions in one step.  `Card` and `Disk` share `write_blocks`: `Disk` has what
a handler or watcher does with its block, `Card` whether it gets it.  `Volume` is the
way to the clusters that `Disk` starts from, and to the characters that `Reader` has as
`text`.  `Runtime` has scripts without values, `Lio` values without interrupts: what they
share is `lio_stop`, which drops the references and the memory, and the flash area is
`Runtime`'s alone.

### Runtime

`pc` is the main loop's position and `isr`, `icond` the interrupt's: 0, or the slot and
the condition it is at.  While `isr > 0` the main loop stands still, as on the chip; the
interrupt may start between any two steps of main when `ie`, the I flag, is set.  The
steps of main are as fine as the tables that the interrupt reads demand: `scheduler_add`
and `scheduler_remove` are three steps (first byte of the pointer, second byte, period),
`new_digital_condition` links the condition before its action is known, `store_expression`
programs its pages in one step as nothing reads them meanwhile.

A script is not parsed.  `NextExpression` starts an expression, and an evaluation then
calls any builtins of the constant `Builtins`, in any order; `Failure` is a `lio_stop` at
any of the points where a builtin, an argument or the reader may call it, **after which
the builtin goes on**, as it does in the code.  So what is checked of scripts holds of all
of them.  Builtins that only compute are not steps.

Abstractions.  A half-written pointer is `Torn`, whatever bytes it has; the interrupt that
calls it sets `wild`.  The two-byte store of a period is one step.  `millis()` is kept
modulo `ClockMod`, and the two spans that matter as counters that saturate (`elapsed`
since `time_started`, `sinceWrite` since the last write, which is only counted while a
run is pending).  `n % 0` is `n` in avr-libgcc, so a period of 0 never is due.  `(every)`
of an unparsable period is `Periods` with 0.  The set of device handlers is a set, as the
list is only searched by name.  Argument expressions may fail and may read the ADC, and do
not import or install.  Conditions are digital ones; `(delete_schedule)` beyond the table
and an allocation that fails in `attach_device_handler` are left out (see the hazards).

### Lio, Reader, Buffer, Layout, Evaluator, References, Memory, Heap, Meaning

A program is a record: its text, the trees of words that are written in it (`trees`),
whether it is well formed (`whole`; if not, the trees are those before the first mistake),
whether it takes more memory than there is (`large`), and whether it has a word or a list that
there is no place for (`beyond`, see below).  `Reader` reads a token in one
step, with the putback of the character that ends a word, escapes in texts and comments.
`Buffer` has `next_expression`'s variables: `buffer` as a function from offsets to headers,
`current`, `depth`, and per depth the enclosing and last items whose `rest` is patched when
the next one comes; `OpenList`, `CloseList`, `AddItem` and `CloseExpression` are what it does
with a token.  `rest` is a byte: `RestOf` wraps, and as in `set_current` it is the wrapped value
that is compared with the end (`Reaches`).  `Layout` is these steps whatever the text is, and
`ReadsInLayout` says that the reader takes no others.

There are two places where the reader writes behind an array.  `next_token` ignores `tmp_len`
(`lio.c:419`), so a word that does not fit into `str_buf` with its NUL goes on behind it; a
quotation that the end of the text ends takes one byte more than others (`QuoteEnd`).  And
a list that is opened when `MAXDEPTH` lists are open writes `last[MAXDEPTH]` (`lio.c:359`), as
depth is compared at the next list only (line 344).  What these writes do to other variables
is undefined in C: `Stray` takes the run to `lost`, where it stays, and nothing is said of it
any more (`GiveUp` in `Layout`).  `RunsAsWritten` says which programs get there, and that no
other does.  Words of 253 characters and more, with which `rest` would wrap, are kept from
the buffer by the size of `str_buf` alone: `BufferAssumption` has that relation, and with a
larger `str_buf` `InBuffer` would be false.

`Evaluate` is one `safe_eval`: `Evaluator`'s operators take the state
of `References` and return an item and the state after it.  The three static items that
builtins return are `held`; `Now` says what a returned one has become when another call has
used it, which is how `second_arg` and the value of a `while` could go wrong.  `Meaning`
evaluates the trees with variables as values, and knows neither.

`Memory` leaves the evaluation open instead: its actions are the steps on `references` that the
builtins of `lio_references.c` are made of (`define_variable`, the stores of `defvar` and
`setvar`, the link, `lio_stop`), for any names, types, lengths and values.  They go on after a
stop, as a stopped evaluation is finished before the next run starts.  So `MemoryApart` speaks
of runs that are not stopped: what is defined while a stopped script is being finished may
lie on what the first blocks of the cleared memory had, and is never looked up.  Stores are
within the length of their variable, as `setvar` does not check the index, and names are
not longer than a header: of a longer one, at the end of the memory, `define_variable`
could return a header although the name had no room.

Sizes are scaled: a byte has 16 values, `data[]` 44 cells with 32 positions, the buffer 72
bytes, `str_buf` 8, `MAXDEPTH` is 4; headers and names keep their structure.  `rest` is scaled
apart from other bytes: `RestValues` is one more than the buffer has bytes, as 256 is to 255.  Not in the model:
`()`, which makes a list that shares the header of its next sibling; a comment glued to a
word; a second definition of an existing name; the index of `setvar`, which the code does
not check; a condition of 256 and more, which `if` truncates to a byte; shifts of a word or
more, undefined in C; names longer than a header.  Of a `while`'s value nothing is said
(see the hazards), and the bodies of functions are kept as items, not as flash addresses.

### Volume, Fat

The image is a function from pairs of a block and a place in it to what was stored there:
numbers in boot records and FAT, directory entries, characters.  `Make` is one call of
`make_fs`'s `main` with all its stores (`first` is a history of the clusters that the calls
began with); `Mount` is `disk_init`; then a script is read character by character
(`Read`, `ReadNextBlock`, `Putback`) and may `Import` others, two levels deep, where `Return`
reads the block of the importing file again.  A lookup or an import that finds nothing is
included.  Blocks are 3 characters, 8 entries, 16 FAT entries, so directories and the FAT go
over several blocks and texts end before, at and behind the end of one.  Short names are
those of `fat_sfn`, computed character by character as lookup depends on them; checksums of
long names are left out, as are the FAT32 variants of `make_fs`, which nothing calls, and
reads that fail within a file.  An empty file has the cluster of the next one, so
`FoundAsMade` speaks of files with text.  What `main` may call is in the named assumptions:
a directory is made before what is in it (`CallsAssumption`), short names differ within a
directory (`NamesAssumption`), and what is read has text (`ReadAssumption`).

### Board, Pins

A pin has a mode, a direction and an output bit, and if it has a timer, the timer's
connection and duty.  The bus is idle or held.  `Twi` evaluates its arguments one by one, so
`LioPinMode`, `LioSetPin` and `NestedWrite` come between its bytes; each byte is
acknowledged, refused or times out as the device likes.  A `twi_start` on a bus that is
held fails, since the status of a repeated start is not the one looked for.
`wrote_from_twi_data` stays set after a nested `twi_write`, so the bytes behind it are
skipped, and the nested write's error is not returned: both are the code's.  `due` has the
bytes that remain to be sent of the script's arguments, the skipped ones left out, and
`BusAsWritten` asks for all of them only of a `twi` without a nested write.  `PortPin` is one pin of a
`port`; bytes have 2 bits, so three pins of a port go past a byte as nine do on the chip,
where `set_out` truncates.  A `lio_stop` within `twi` is not modelled.

### Disk, FileIO

The host is external: it has its own view of each file (`file`), operations that change
it, and a set of dirty blocks that `WriteData` and `Write...Dir` send in any order the
constant `Host` allows.  The entries of a directory come in any order (`Listings`).  A file
has one cluster, which is also one block; a directory is one block per kind of file.  The
firmware's state is what `disk.c` keeps: `pins`, the cluster of the device, cluster, time and
trigger of RUN.LIO.  What is promised is in terms of effects: `driven` (what `set_pin_value` was called with), `delivered` (what the device's
handler ran on), `script` (what was evaluated) and `stored` (what a read would get).

Abstractions.  The host sends all that is dirty before it starts on the next file
(`Settled` in `Save` and `Release`); the 100 ms without a write that `check_runfile_changed`
waits for have passed when nothing is dirty; every script has the `(driver)`; one watched
directory stands for `pins`, `dir`, `pwm`... as they share their code; modes of pins and the
status file are not modelled, and the detection of a whole-disk rewrite is in `Card`; the card
is there at power-up.

`FileIO` has four variables, what the files say and what the device has made of it, and
says that a pin is only ever set to what its file says and that only the present script is
run.  `Promise` in `Disk` maps `asks`, `value`, `text`, `ran` to the host's view of the
files and to `driven` and `script`.

### Bootloader

One action per stage of `check_bootfile` and `load_page`: `Find` compares the version,
`Check` is the first pass, `ErasePage` and `WritePage` alternate in the second, `Record`
is `eeprom_update_block`, byte by byte in any order.  `PowerLoss` may come before any of
them, `CheckFails` and `ReadFails` are blocks that cannot be read, and `Copy` is a user who
puts another file on the drive.  A file is a version, an image and whether the CRC of its
name is its data's; a CRC never matches by chance.  The histories `installed` and
`partial` say what was loaded last and whether a later load is unfinished.  The user is
assumed not to go back to the version that the EEPROM still names after a load that was
interrupted: the bootloader would then run the mixture.

### Card, SdCard, Leds

`pc` is the main loop's position: `SdSilent`, `DiskFound` and `DiskNotFound` are the start of
`main`; `idle` stands for `usb_task` and the other calls of the loop; in `block` one step is
one turn of the loop of `read_blocks` or `write_blocks`.  `cmd` has the loop's variables and
`dd_count` is the static `fs_dd_block_count`.  Blocks have no contents but the file system
that wrote them and their number, so a block of a new file system in an old handler can be
told; `index` is the file system that `iodir_init` went through, whose blocks `Handled` and
`Watched` give.  `Fails` is a card that refuses an address or fails in a command, before or
after it has programmed a block; the host is answered with success all the same, and a read
delivers what the buffer held.  `HostGone` is a bus reset within a command.  `LedInterrupt`
is `led_task`, which may come between the two accesses of `set_out` to the port, and need
not come at all, as with `LIO_NO_LED`.

The host (external) reads and writes as it likes, and may put another file system on the
card: all blocks in order from 0 or 1, more than the limit of 450, nothing else meanwhile, and
from the beginning again after a reset.  It does this once (`First` is not made again).
With `FatFirst` it may then begin with a write to block 1.  Reads are of one block, as the
loop keeps nothing between two.  Sense data is good or illegal.  Cards whose capacity
`sd_init` gets wrong are excluded by `CardsAssumption` (see the hazards), and `RewriteCaught`
speaks of cards and buses that have not failed.

### Keyboard, Keys, Config

`key_printf`, the HID callback and `(config)` all run in the main loop, so each is one step.
The buffer holds symbols: a character, or a word of a block (`%{LeftControl+c}`), as the
mapping tells no more apart; a word outside a block counts as one stroke.  A text is a
sequence of pieces as its writer means them: a key, an escape, or a block of items.
`Spelling` is what is printed for it and `Meaning` the strokes that it stands for, and
neither looks at `MapKeys`, but that the items of a block add up to a report as `InBlock`
adds them; `owed` is the meaning of what is in the buffer.  So `KeysAsTyped` compares the
mapping, the positions of the buffer and the moments of printing with the intention.

`TextsAssumption` is what a text must be for that.  It fits into the empty buffer, ends where
a stroke does, and does not begin with `{` or `}`.  A `\` only comes in escapes.  A `%` before
a `{` begins a block, or something that no block is from its first item on (`%{bad}`).  And
no `}` follows a block: in `%{LeftGUI}}` the loop of `map_extension_block` takes the first
`}` for a key of the block, as it would in `%{LeftGUI}+}`, because a single symbol before a
`}` is a key also right behind a name (line 203).

`AfterInit` is `config_init` on an erased EEPROM; single bytes
of the EEPROM are written whole.  Scripts use the items that `fs/io/etc/config` documents.

## 3. Runs

| Run | Instance | What it shows |
|---|---|---|
| `install` | 3 slots, queue of 1, 3 pages, bodies of 1 and 2 pages, `every`, `condition`, `driver` | `NoStaleHandler`: no installed handler is ever programmed over. `FailedRunHalts`: a failed run leaves nothing installed, although the builtin that failed goes on. `PendingKept`: a trigger leaves the queue only by being evaluated or stopped |
| `script` | 2 slots, queue of 2, 2 pages, one nested `import`; `every`, `delete`, `adc`, `defvar` | `NoStaleHandler` with functions and imported files. `TornOnlyUnshielded`: the interrupt uses a half-written pointer only in handlers, after `read_adc`'s `sei` or after a stop |
| `live` | `condition`, `adc`, `while`, `import`, fairness | `LoopStopped`, `InterruptsReturn`, `RunfileRuns` |
| `loop` | `adc`, `while`, fairness; **violated** | `EveryLoopStopped`: a `(while)` in RUN.LIO is not stopped as the clock stands still under `cli` |
| `disk` | a pin, RUN.LIO, a device file, 4 clusters; directories before data, device files that move | `PinSettles`, `OthersStored`, `RunfileSettles`, `DeviceSettles` |
| `promise` | 2 pins, RUN.LIO, an ordinary file, 6 clusters, power cycles | `KeepsPromise`: `Disk` implements `FileIO` |
| `bootloader` | 2 images on 2 pages, 5 files, at most 2 on the card | `AppIsCardImage`, `OnlyCheckedCode`, `Healed` |
| `card` | 5 blocks, 2 file systems, commands of 1 and 2 blocks, limit 2, one failure, red LED | `RewriteCaught`: old handlers get no block of a new file system. `HandlersReached`: ordinary writes reach theirs. `ReadsBack`, `FailureShown`, `ManualKept` |
| `keyboard` | buffer of 7, texts that fill it in one or two, delays of 1 and 2, power cycles | `KeysAsTyped`, `StrokesApart`, `AllTyped`, `SettingsReturn` |
| `lio` | 3 runs of any of 287 programs | `ReadsAsWritten`: the buffer has the items of the text, without gaps. `Means`: values and variables are those of `Meaning`. `RunsAsWritten`: a program runs to its end, or to its first mistake and is stopped; it leaves what C defines if, and only if, a word does not fit into `str_buf` or a list has no place in `last`. `MemoryApart`: variables and their headers keep to their memory. `InBuffer`: nothing is stored behind the buffer. `ExpressionWellLaid`: at the end of an expression a walk through `first` and `rest` comes by every item once. `ReadsInLayout`: `Lio` implements `Layout` |
| `volume` | 25 files and directories, a script, imports of two files and of one that is missing | `FoundAsMade`: the device finds each file where `make_fs` put it, with its chain and text. `Room`: no call looks whether there is room, and yet the clusters end within the partition and the entries within their directories. `TextDelivered`: a script gets its characters in order, over blocks, putbacks and imports |
| `board` | 2 pins, 4 values, `twi` of up to 4 arguments | `PinsAsAsked`: an input never drives, a timer only in PWM mode, at the last duty. `BusAsWritten`: the bytes acknowledged are a prefix of those written; no error leaves the bus held |

Bounds.  Three slots are the LED task, `conditions_check` or a script's entry, and one
more; a full table and a full queue are reached in every run.  With bodies of one and two
pages and three pages, a body fits, ends exactly at the end of the area, or is refused,
at each position.  One condition and one nested import suffice as the code treats the
others alike.  Periods of one and two ticks make every combination of due tasks.  In
`Disk` a cluster more than there are files is what a move needs, and an emptied file
frees another for its neighbours; three contents tell the number read, another number and
text apart.  `Mods` bounds the time stamps of RUN.LIO.  In `Card` the limit of the detection
is 2 instead of 450 and `Root` below it, so that a rewrite reaches the old handlers' blocks,
goes past the limit, stops before the end of the card or at it; the theorems are for every
limit.  A buffer of 7 symbols is filled exactly, and by one more.
In `Lio` three runs start at three positions of `free_data`, the later ones around the end
of its values, so names, headers and data are split at each place; expressions of all
lengths around the size of the buffer are read; lists to the last place of `last`, and one
deeper, which is lost, or refused where the buffer ends before; words that fill `str_buf`
exactly, and by one more, which are lost, each also where the text ends within them.
`Volume`'s order of calls is fixed, as in `make_fs`: what varies is the reading.  The calls
fill the partition to its last cluster, and the directory `mode` to its last entry; the
theorems are for every list of calls and all sizes.

Fairness (`FairSpec`, used by `live`, `loop` and `keyboard`).  The interrupt is latched in
hardware and taken when `ie` is set (strong fairness of `TimerInterrupt`), its own steps
are weakly fair, and it takes less than the millisecond between two of them, so main gets
on (strong fairness of `Control \/ Install`).  Texts end, so the end of a text and of an
expression is strongly fair per level of import.  Nothing is assumed of the host, of
`Choice` (what scripts do) or of loops: `WhileEnd` is not fair.  `Keyboard`'s `FairSpec` has
weak fairness of `CreateReport`: the host polls the endpoint of the keyboard as long as the
device is there.  The other runs are of safety alone.

The violated run is a finding of `PROJECT.json`: the run-away guard does not stop RUN.LIO.
Other places where the code does not do what one would expect are kept out of the passing
runs by what the host or the scripts may do, and listed as hazards with what then fails:
RUN.LIO saved twice within a FAT time stamp, a new file system that is first used at block
1, the directory block that `changed_devdir_block` overwrites, deleted pin files, the value
of a `while`.

## 4. Proofs

`Runtime_proofs` proves, for every value of the constants, that
`IInv = TypeOK /\ FrameWellFormed /\ HandlersKept /\ Shielded /\ FailedRunHalts /\
NothingAfterFailure` is an invariant, and from it the four safety properties of the runs.
`NoStaleHandler` is not inductive: that the next body does not overwrite an installed one
follows only if every installed one ends below `current`, which is `HandlersKept`.  That
the queue or the running handler carries such a pointer needs `FrameWellFormed` (in which
points the builtin's registers are in use).  `TornOnlyUnshielded` rests on `Shielded`:
under `runfile_changed`, until `read_adc` or `lio_stop`, interrupts are off.
`FailedRunHalts` needs that a failed run leaves no handler that could run before the next
(`NothingAfterFailure`).  One lemma per conjunct and, in it, one step per action.  The
assumptions are the named ones of `Runtime`: sizes of tables, positive page counts, and
that no script body is one of the C handlers.

`Bootloader_proofs` proves `IInv = TypeOK /\ Recorded /\ Loaded /\ AppIsCardImage` and from
it `AppIsCardImage` and `OnlyCheckedCode`.  `Recorded` says that outside a load the EEPROM
names the image in flash; `Loaded` that in one, the pages before the next hold the image.
That the version tells the image (`BootFilesAssumption`) is what lets `Find` skip a load.

`Card_proofs` proves `TypeOK /\ CommandFits` and then one argument per property.
`HandlersReached` rests on `RunTracked`: a count of two or more, and the flag `dd`, belong to
a run of consecutive blocks from the first three that is still going on.  `RewriteCaught` is
not inductive, nor is it with `RunTracked`; `RewriteTracked` adds what the count must be
while the card's file system is not that of the handlers: in a rewrite it follows the host
(`CountFollows`), and after one it stays above the limit until some other write reboots
(`CountPending`), unless that write is to block 1, which `~FatFirst` excludes.
`FailureShown` and `ManualKept` need `NotStarted`, and `ManualKept` also `PortRead`: what
`set_out` has read of a LED that a script holds is still true when it writes.  `ReadsBack` and
`RewriteCaught` are for cards that are as the SD standard has them (`CardsConform`): one that
does not know CMD8 takes byte addresses, and ends within 32 bits of them; one that does says
in its OCR which it takes; and no card has fewer blocks than `sd_init` computes from its CSD
(see the hazards for one with more).  `AddressesAreRight` proves from `sd_init`'s
conclusions and the commands' arguments that such a card is sent the address of the block
that is meant, and that none wraps; `ReadsBackStep` then that no turn of a command, failure or
bus reset stores to another block than the one the host has come to.  `ReadsBack` fails for a
card that does not conform.  TLC evaluates `Conforming` for the cards of `MCCard`.

`Keyboard_proofs` proves `SettingsReturn` from `Stored` (EEPROM is what was made permanent, and
item 0 is not in it) and `StrokesApart` from `Paced` (no stroke is due before its distance).
`KeysAsTyped` and `TypeOK` rest on `KeyInv`: there are pieces, set apart from each other as a
text's are (`Clear`), whose spelling is what the buffer holds from `read_position` to
`write_position`, with a NUL behind it, and whose strokes are those owed.  `PieceRead` says
that `map_keys`, put to the first symbol of such a buffer, gives the stroke of the first
piece and goes as far as its last symbol.  For a block that is `BlockFinds`: the loop's
recursion is solved from the end of the buffer backwards (`BlockSteps`, as every turn goes
forward, `BlockForward`), and finds the items from the last to the first.  So a report drops
the first piece, a text that fits adds its pieces behind the others (`SpellingConcat`,
`ClearConcat`), and one that does not puts its own in their place.  The hypotheses are the
named assumptions; the mapping depends on the texts, the symbols and the buffer only.

`Bootloader_proofs`, `Card_proofs` and `Disk_proofs` also give the type invariants, `BootTypes`,
`Types` and `DiskTypes`; the last two are proved only, no run repeats them.

`Disk_proofs` proves `DiskTypes`, the four invariants of the `disk` run and the refinement of the
`promise` run, for any number of pins, files and clusters and both orders of a file's data
and its directory.  None of them is inductive.  The common invariant is `FilesInv`: at most
one file is under way and the entries of all others are on the card (`InTurn`, which is
what the `Settled` of the host gives); no two files share a cluster; the clusters that the
firmware keeps are those of the entries (`PinsFollowed`, `RunfileFollowed`), for the device
file those of the host's view as soon as its directory was sent (`DeviceFollowed`); and what
was sent is on the card unless a place of `pin_values` had its cluster (`SentStored`).  From
it, `Handled`: the place that a data block finds is that of its own file, which gives
`OtherFilesStored` at once.  On top of it each file that is handled has a part of its own:
`Driven` and `Registration` for pins, `NewTimes` and `Evaluated` for RUN.LIO, `DeviceFound` and
`Delivered` for the device file.  For `FilesKeepPromise`, `InTurn` is what makes the one step
of a directory block, which may call a handler for each entry, at most one `SetPin`.

What the host must not do is a hypothesis of each theorem, and the host of the run meets
it: `HandledStay`, no pin's file is deleted and the device file neither deleted nor emptied,
as their clusters are kept; `PinsRegistered`, no pin's file is empty at a power-up;
`TimesDiffer`, no two saves of RUN.LIO within a time stamp; `InOrder`, data before its
directory, since the other order sets the pin to what the cluster held before, and a
RUN.LIO that stays.  `DiskTypes` needs none of them.

`Memory_proofs` proves three things about the memory of scripts, for every size of it.

Blocks first: a specification of any allocations and stops, in which blocks are apart as
long as a run has taken no more than the position can tell apart (`RunsKeepTheirMemory`).
The invariant `HeapInv` says that there is a start, where the last stop found `free_data`,
from which each block lies as far as had been taken before it, once around the end of the
values at most (`PlacedFrom`); `HeapAssumption`, that `data[]` is less than two rounds, is what
excludes a second time around.

Then the variables: `VariablesKept` is `MemoryApart` for `Memory`, for any names, lengths, values
and number of definitions, in any order.  `MemoryInv` adds to `HeapInv` that each variable has
two blocks of its own, one for its name and one for its header and data (`Home`), that no
block has two owners, and that names and headers are what was defined (`Kept`).  A store keeps it since it stays in the
data of one block, which meets no other (`StoreKeeps`); a definition since the blocks it gets
are new (`DefineIs`, `DefineKeeps`).  A stop drops the claim with the blocks.  Names and values
are infinite sets, so `Memory` is proved about and not run.  That `Evaluator`'s operators are
made of its steps is seen by reading them: for them `MemoryApart` is what the `lio` run checks.

Last, the buffer, for all sizes that `BufferAssumption` allows, words that `str_buf` holds and
lists that `last` has a place for: `BufferKept` is `InBuffer`, from `Bounded`, which says that an
item at `current` was only begun with `Room` for its header.  It needs `RestIs`: as a value is
no longer than `str_buf`, the byte that is compared with the end has not wrapped.
`ExpressionKept` is `ExpressionWellLaid`, which is not inductive, as it is false while lists are
open: the last item of each open list has a `rest` that leads to `current`, where nothing is yet.
`Tree` says what holds then: items lie one behind the other and are stored whole (`Shape`,
`Filled`), the lists that are open are where `enclosing` and `last` say and reach to `current`
(`OpenLists`), and every item but the first is reached in exactly one way (`Ways`).  Opening a
list and adding a word are one argument, that of an item that is added at the end (`Grown...`);
closing patches one `rest` that led to `current` (`EndWays`).  All this holds while there is
`Room` (`TreeInv`), and then no patched `rest` has wrapped (`NotWrapped`): an item that does not
fit may make those of the lists around it wrap, but then the expression is given up.  The hypothesis is `NoEmptyList`:
`()` is a list whose `first` is the item that its own `rest` leads to, so there the property
is false.  `LayoutSpec` is implemented by the reader (`ReadsInLayout`, checked by TLC as the
reader is recursive).

`Board_proofs` proves `PinsAsAsked` from `PinInv`: the types, that each pin's registers fit
its mode and what was asked (`Fits`), and that a `port` in progress only names pins
(`Ported`).  `BusAsWritten` is proved from two invariants.  `BusInv` gives `BusLeft`, the part
about errors: a held bus has no error to report and was taken by a `twi` that is under way
or by a `twi_start`.  `OrderInv` gives the order of bytes: as long as the bus is held, what
was sent, followed by what a nested `twi_write` has left and by what remains of the
arguments, is what is due; once it is released, what was sent is a beginning of that.

`Volume_proofs` proves `FilesFound` and `TextRead` for every list of calls, all sizes of blocks,
of the partition and of directories, and any depth of imports.  Their hypothesis is `[]Room`,
as nothing in `make_fs` sees to it: the `volume` run checks that its calls leave room.  Neither
`FoundAsMade` nor `TextDelivered` says anything while the volume is made.  `VolumeInv` does,
after each call.  `Extended` is how far the calls have come: clusters in the order of the calls
(`Extents`), nothing stored behind `free_cluster` (`Fresh`).  `Written` is what has been stored:
the boot records, the chains, the texts, that each call's entry is in its directory (`Present`)
and that a directory has only volume labels, dots and the entries of its calls (`Listings`).
That a call leaves alone what others have stored is the core of the proof: its stores go to
its clusters' places in the FAT (`FatRegion`), behind the entries of its directory
(`EntryRegion`) and to its own blocks (`OwnRegion`), and with `Room` these never meet what is
there (`MakeKeeps`).  `Mounted` is that `disk_init` computes the parts that `make_fs` uses.

A lookup is recursive, and goes where the FAT says.  The provers may unfold the recursive
function `look` only if there is one: `WalkExists` shows that there is for any steps, also for
those that lead nowhere (what is reached from a cluster is the least set with it that is
closed under next).  `LookIs` unfolds it, `DirChain` shows that it goes through the directory
block by block, and `EntryFound` that it ends at the block of the entry, the only one with its
name (`EntryIsOne`, from `NamesAssumption`).  `FilesAreFound` unfolds `Find` call by call, the
directories on the way first.  For reading, `ReadInv` adds that the place in `sd->buf` is that
of the next character of the file (`InText`), that the saved place of each import is one as
well (`Frames`), and that the last character given was right.

The proofs about sequences in `Board_proofs` and `Keyboard_proofs` use induction over the
natural numbers in the form of `SetInduction`: a set with 0 and every successor has all of
them.  The library's theorem takes a predicate as a parameter, which the provers cannot
instantiate; both modules prove the lemma from the least number that is not in the set, which
there is as < is well founded.

Only model-checked: the liveness properties (out of TLAPS' reach); of `Lio`, `ReadsAsWritten`, `Means`, `RunsAsWritten` and `ReadsInLayout`, as its reader and evaluator are
`RECURSIVE` operators, for which the provers have no definition; and `Room`, which is a fact
about this list of calls.

## 5. Not modelled, and the plan

The SPI builtins write registers only; `(spi_conf)` changes the bus of the SD card as well,
and nothing sets it back.  ADC conditions, whose check enables interrupts inside the interrupt,
are not in `Runtime`.  The status file's text, the `mode`, `dir` and `pwm` directories (which
share the code of `pins` in `Disk`), `peek`, `poke`, `fmt` and `delay_ms` are not modelled.  USB
descriptors, register definitions and LUFA's configuration are data.

1. ADC conditions in `Runtime`: the interrupt nested in itself.
2. `Disk` over `Fat`: files of several clusters, and the FAT's own blocks among the writes.
3. An evaluator without recursion, one step per item with a stack of its own, so that what is
   checked of `Means` can be proved, and that it takes `Memory`'s steps.
