------------------------------- MODULE Keyboard -------------------------------
(***************************************************************************)
(* The keyboard: key_printf of log.c puts text into a buffer, and the      *)
(* callback of usb.c takes a keystroke out of it for each report that is   *)
(* due.  Both run in the main loop.                                        *)
(***************************************************************************)
EXTENDS Keys, Config, SequencesExt

CONSTANTS
    Texts,          \* what is printed
    BufferLen,      \* BUFFER_LEN
    DefaultDelay    \* 20

(***************************************************************************)
(* A text as its writer means it: pieces that each stand for a stroke.     *)
(***************************************************************************)
BlockItems == (Modifiers \cup Hexes \cup Letters \cup Capitals \cup Marks) \ {Close}
Piece == [kind : {"key"}, of : {<<s>> : s \in Symbols \ {Backslash}}]
            \cup [kind : {"escape"}, of : {<<s>> : s \in Letters \cap DOMAIN Escapes}]
            \cup [kind : {"block"}, of : Seq(BlockItems) \ {<<>>}]

Key(s) == [kind |-> "key", of |-> <<s>>]

\* A block is %{item+item...}.
Joined(items) ==
    [i \in 1..(2 * Len(items)) |-> IF i % 2 = 1 THEN items[(i + 1) \div 2]
                                   ELSE IF i = 2 * Len(items) THEN Close ELSE Plus]
Spelled(p) ==
    CASE p.kind = "key" -> p.of
      [] p.kind = "escape" -> <<Backslash>> \o p.of
      [] p.kind = "block" -> <<Percent, Open>> \o Joined(p.of)
Stroke(p) ==
    CASE p.kind = "key" ->
            [mods |-> IF p.of[1] \in Marks \cup Capitals THEN {"LeftShift"} ELSE {},
             keys |-> p.of]
      [] p.kind = "escape" -> [mods |-> {}, keys |-> <<Escapes[p.of[1]]>>]
      [] p.kind = "block" -> Pressed(p.of)

Spelling(pieces) == FlattenSeq([i \in DOMAIN pieces |-> Spelled(pieces[i])])
Meaning(pieces) == [i \in DOMAIN pieces |-> Stroke(pieces[i])]

\* What is not a block does not look like one, and a block does not run on into what
\* follows: %{LeftGUI} takes a } behind it for a key of its own.
Separate(pieces, i) ==
    /\ pieces[i].kind = "block" /\ i < Len(pieces) => pieces[i + 1] # Key(Close)
    /\ pieces[i] = Key(Percent) /\ i < Len(pieces) /\ pieces[i + 1] = Key(Open) =>
           i + 1 < Len(pieces) /\ \E w \in OtherWords : pieces[i + 2] = Key(w)
Clear(pieces) == \A i \in DOMAIN pieces : Separate(pieces, i)

\* Every text fits into the empty buffer (a bound), ends where a stroke ends, and does not
\* begin with what could belong to the text before.
ASSUME TextsAssumption ==
    /\ BufferLen \in Nat \ {0} /\ DefaultDelay \in 1..MaxByte
    /\ \A t \in Texts : /\ t \in Seq(Piece) /\ Len(Spelling(t)) < BufferLen
                        /\ Clear(t)
                        /\ t # <<>> => t[1] \notin {Key(Open), Key(Close)}

VARIABLES
    buffer, write_position, read_position,
    count,          \* reports until the next stroke
    report,         \* the last report that was created
    owed,           \* history: strokes that the host is to get
    apart           \* history: empty reports that must come before the next stroke

keys == <<buffer, write_position, read_position>>
promised == <<owed, apart>>
vars == <<keys, count, report, promised, config>>

TypeOK ==
    /\ ConfigTypeOK
    /\ buffer \in [0..(BufferLen - 1) -> Symbols \cup {Nul}]
    /\ write_position \in 0..(BufferLen - 1) /\ read_position \in 0..write_position
    /\ buffer[write_position] = Nul
    /\ count \in 0..MaxByte /\ apart \in 0..MaxByte
    /\ report \in Strokes /\ Len(report.keys) <= MaxKeys /\ owed \in Seq(Strokes)

Cleared == [i \in 0..(BufferLen - 1) |-> Nul]

Init ==
    /\ ConfigStart
    /\ buffer = Cleared /\ write_position = 0 /\ read_position = 0
    /\ count = 0 /\ report = Empty /\ owed = <<>> /\ apart = 0

-----------------------------------------------------------------------------
\* vsnprintf into what remains of the buffer from a position, with its NUL
Put(b, at, text) ==
    LET end == IF at + Len(text) < BufferLen THEN at + Len(text) ELSE BufferLen - 1
    IN  [i \in DOMAIN b |-> IF i \in at..(end - 1) THEN text[i - at + 1]
                            ELSE IF i = end THEN Nul ELSE b[i]]

FitsWithoutNul(text) == Len(text) <= BufferLen - write_position   \* mutant: off by one
Fits(text) == Len(text) < BufferLen - write_position

ReadKept == read_position   \* mutant: only write_position is reset
ReadAfterReset == 0

\* key_printf: what does not fit is written to the start, and what was there is dropped
KeyPrintf(t) ==
    /\ IF Fits(Spelling(t))
       THEN /\ buffer' = Put(buffer, write_position, Spelling(t))
            /\ write_position' = write_position + Len(Spelling(t))
            /\ owed' = owed \o Meaning(t)
            /\ UNCHANGED read_position
       ELSE /\ buffer' = Put(Put(buffer, write_position, Spelling(t)), 0, Spelling(t))
            /\ write_position' = Len(Spelling(t))
            /\ read_position' = ReadAfterReset
            /\ owed' = Meaning(t)
    /\ UNCHANGED <<count, report, apart, config>>

\* (keyboard text)
TypeText == \E t \in Texts : KeyPrintf(t)

\* lio_stop with a message
TypeError == LIO_PRINT_ERRORS \in bit_config /\ TypeText

Config == SetConfig /\ UNCHANGED <<keys, count, report, promised>>

-----------------------------------------------------------------------------
\* the buffer as map_keys sees it; past the end, nothing that it looks for
Input == [i \in 0..(BufferLen + 1) |-> IF i < BufferLen THEN buffer[i] ELSE Nul]

Waiting == write_position # 0 /\ read_position < write_position

\* log_consume_as_keyboard_report
Consume ==
    IF Waiting
    THEN LET mapped == MapKeys(Input, read_position, BufferLen + 1)
         IN  report' = mapped.report /\ read_position' = read_position + mapped.read
    ELSE report' = Empty /\ UNCHANGED read_position

Delay == IF byte_config = 0 THEN DefaultDelay ELSE byte_config

\* history: a stroke that is reported is no longer owed
Reported ==
    IF report' = Empty
    THEN /\ apart' = IF apart = 0 THEN 0 ELSE apart - 1
         /\ UNCHANGED owed
    ELSE /\ apart' = Delay
         /\ owed' = IF owed = <<>> THEN <<>> ELSE Tail(owed)

NotReloaded == 0   \* mutant: a stroke for each report
Reloaded == Delay

\* CALLBACK_HID_Device_CreateHIDReport, when the host asks
CreateReport ==
    /\ IF count = 0 THEN Consume /\ count' = Reloaded
       ELSE report' = Empty /\ count' = count - 1 /\ UNCHANGED read_position
    /\ Reported
    /\ UNCHANGED <<buffer, write_position, config>>

PowerCycle ==
    /\ ConfigInit
    /\ buffer' = Cleared /\ write_position' = 0 /\ read_position' = 0
    /\ count' = 0 /\ report' = Empty /\ owed' = <<>> /\ apart' = 0

Next == TypeText \/ TypeError \/ Config \/ CreateReport \/ PowerCycle

Spec == Init /\ [][Next]_vars
\* the host asks for reports again and again
FairSpec == Spec /\ WF_vars(CreateReport)

-----------------------------------------------------------------------------
(***************************************************************************)
(* Properties                                                              *)
(***************************************************************************)
\* The host gets the strokes that were printed, in order and once each, whatever is
\* printed between two reports; only a text that does not fit drops those before it.
KeysAsTyped == 
    [][CreateReport /\ report' # Empty => owed # <<>> /\ report' = Head(owed)]_vars

\* Between two strokes come as many empty reports as the delay says, so that the host
\* sees the key go up, also when scripts change the delay.
StrokesApart == [][CreateReport /\ report' # Empty => apart = 0]_vars

\* Every stroke that was printed is reported, unless printing goes on for ever.
AllTyped == []<>(owed = <<>>) \/ []<><<TypeText>>_vars \/ []<><<PowerCycle>>_vars

\* After a reset each setting has the value that was last made permanent, item by item,
\* whatever has been set only until the reset; bits never made permanent are 0, and the
\* delay is 255 until it is.
SettingsReturn ==
    [][PowerCycle => bit_config' = savedBits /\ byte_config' = savedByte]_vars
=============================================================================
