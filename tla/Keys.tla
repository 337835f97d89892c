--------------------------------- MODULE Keys ---------------------------------
(***************************************************************************)
(* keyboard.c: the keystroke that the text at a position of the buffer     *)
(* stands for, and how much of the text it takes.                          *)
(*                                                                         *)
(* A symbol is a character, or one of the words that a block %{...} is     *)
(* made of.  A key code is named by its symbol; capital letters and marks  *)
(* have shift with their key.  Outside a block a word is typed letter by   *)
(* letter, for which one stroke stands here.                               *)
(***************************************************************************)
EXTENDS Integers, Sequences

CONSTANTS
    Letters,        \* typed without shift
    Capitals,       \* A..Z
    Modifiers,      \* LeftControl ... RightGUI
    Hexes,          \* 0x and two digits
    OtherWords      \* anything longer than a character

Percent == "%"
Open == "{"
Close == "}"
Plus == "+"
Backslash == "\\"

\* marks, typed with shift by map_ascii_key
Marks == {Percent, Open, Close, Plus}
Words == Modifiers \cup Hexes \cup OtherWords
Symbols == Letters \cup Capitals \cup Marks \cup Words \cup {Backslash}
Nul == "NUL"

\* escaped_chars, and the keys of escaped_values
Escapes == [n |-> "ENTER", t |-> "TAB", b |-> "BACKSPACE"]
Escaped(s) == s \in DOMAIN Escapes

ASSUME SymbolsAssumption ==
    /\ "LeftShift" \in Modifiers /\ Nul \notin Symbols
    /\ \A s \in Letters : s \notin Capitals \cup Marks \cup Words \cup {Backslash}
    /\ \A s \in Capitals : s \notin Marks \cup Words \cup {Backslash}
    /\ \A s \in Words : s \notin Marks \cup {Backslash}
    /\ \A s \in OtherWords : s \notin Modifiers \cup Hexes

Codes == Letters \cup Capitals \cup Marks \cup Words \cup {"ENTER", "TAB", "BACKSPACE"}
\* a keyboard report: modifiers and up to six keys
MaxKeys == 6
Strokes == [mods : SUBSET Modifiers, keys : Seq(Codes)]
Empty == [mods |-> {}, keys |-> <<>>]

\* add_keycode
AddKeycode(report, key) ==
    IF Len(report.keys) = MaxKeys THEN report
                                  ELSE [report EXCEPT !.keys = Append(@, key)]

\* map_keys of a single symbol; a mark sets the modifiers, a capital adds to them
Typed(report, s) ==
    IF s = Nul \/ s = Backslash THEN report
    ELSE IF s \in Marks
         THEN [AddKeycode(report, s) EXCEPT !.mods = {"LeftShift"}]
    ELSE IF s \in Capitals
         THEN [AddKeycode(report, s) EXCEPT !.mods = @ \cup {"LeftShift"}]
    ELSE AddKeycode(report, s)

\* map_keys without extensions
MapKey(report, input, i) ==
    IF input[i] = Backslash /\ Escaped(input[i + 1])
    THEN [report |-> AddKeycode(report, Escapes[input[i + 1]]), read |-> 2]
    ELSE [report |-> Typed(report, input[i]), read |-> 1]

\* a modifier, a key given in hex, or a character between two signs
InBlock(report, s) ==
    IF s \in Modifiers THEN [report EXCEPT !.mods = @ \cup {s}] ELSE Typed(report, s)
Pressed(items) ==
    LET after[n \in 0..Len(items)] ==
            IF n = 0 THEN Empty ELSE InBlock(after[n - 1], items[n])
    IN  after[Len(items)]

-----------------------------------------------------------------------------
(***************************************************************************)
(* map_extension_block, the loop from position i: what it has found until  *)
(* the end of the block, or until something it cannot use.                 *)
(***************************************************************************)
IsSingle(input, j, found) ==
    /\ input[j] \notin Words
    /\ (~found /\ input[j + 1] = Plus) \/ input[j + 1] = Close

PlusKept(input, k) == k   \* mutant: the sign is not consumed
PastPlus(input, k) == IF input[k] = Plus THEN k + 1 ELSE k

\* An item is a name, a single symbol, or a single symbol right behind a name.
Named(input, i) == input[i] \in Modifiers \cup Hexes
PastName(input, i) == IF Named(input, i) THEN i + 1 ELSE i
Single(input, i) == IsSingle(input, PastName(input, i), Named(input, i))
FoundAt(input, i) ==
    (IF Named(input, i) THEN <<input[i]>> ELSE <<>>)
        \o (IF Single(input, i) THEN <<input[PastName(input, i)]>> ELSE <<>>)
PastItem(input, i) ==
    PastPlus(input, IF Single(input, i) THEN PastName(input, i) + 1 ELSE PastName(input, i))

Block(input, start, last) ==
    LET from[i \in start..last] ==
            IF input[i] \in {Nul, Close} \/ i >= last - 1
            THEN [used |-> TRUE, found |-> <<>>, end |-> i + 1]
            ELSE IF FoundAt(input, i) = <<>>
                 THEN [used |-> FALSE, found |-> <<>>, end |-> i]
                 ELSE LET rest == from[PastItem(input, i)]
                      IN  [used |-> rest.used, found |-> FoundAt(input, i) \o rest.found,
                           end |-> rest.end]
    IN  from[start]

\* a block that cannot be used is text: its first character, in the same report
MapExtensionBlock(input, i, last) ==
    LET block == Block(input, i + 2, last)
        report == Pressed(block.found)
    IN  IF block.used THEN [report |-> report, read |-> block.end - i]
                      ELSE MapKey(report, input, i)

MapKeys(input, i, last) ==
    IF input[i] = Percent /\ input[i + 1] = Open THEN MapExtensionBlock(input, i, last)
                                            ELSE MapKey(Empty, input, i)
=============================================================================
