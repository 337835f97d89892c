--------------------------------- MODULE Board ---------------------------------
(***************************************************************************)
(* The builtins of lio that drive hardware: pins, and devices on the two   *)
(* wire bus (lio_twi.c).  The arguments of (twi address ...) are evaluated *)
(* between the bytes that it writes, and may themselves set pins or write  *)
(* to the bus.  Each byte is acknowledged, refused, or never answered.     *)
(***************************************************************************)
EXTENDS Pins

CONSTANTS
    Calls,          \* arguments of (twi address ...): [kind, bytes], a byte or a (twi_write)
    Writes,         \* arguments of a (twi_write) of its own
    Ports,          \* the pins of a (port)
    MaxBytes

TwiArguments == [kind : {"byte", "write"}, bytes : Seq(Nat)]

ASSUME BoardAssumption ==
    /\ Ports \subseteq Seq(Pin)
    /\ Calls \subseteq Seq(TwiArguments) /\ Writes \subseteq Seq(Nat)

VARIABLES
    call,           \* none, or the builtin that is under way: twi, write, port
    arguments,      \* what is left of its arguments
    nested,         \* what is left of a (twi_write)
    wrote_from_twi_data,
    bus,            \* idle; held, from an address that was acknowledged to a stop
    answer,         \* what the last builtin for the bus has returned
    sent,           \* history: the bytes acknowledged since the address
    due,            \* history: the bytes that were to be written
    opened,         \* history: the address was that of a (twi_start)
    port_value, port_bit

twiVars == <<arguments, nested, wrote_from_twi_data, bus, answer, sent, due, opened>>
portVars == <<port_value, port_bit>>
vars == <<modes, dir, out, timer, duty, asked, call, arguments, nested, wrote_from_twi_data,
          bus, answer, sent, due, opened, port_value, port_bit>>

Statuses == {"acknowledged", "refused", "timeout"}

Init ==
    /\ PinInit
    /\ call = "none" /\ arguments = <<>> /\ nested = <<>> /\ wrote_from_twi_data = FALSE
    /\ bus = "idle" /\ answer = "nothing" /\ sent = <<>> /\ due = <<>> /\ opened = FALSE
    /\ port_value = 0 /\ port_bit = 0

-----------------------------------------------------------------------------
\* return_error sends a stop
ReleasedNever == bus    \* mutant: it does not
Released == "idle"
Failed(status) == bus' = Released /\ answer' = status

\* twi_send_start: the start and the address.  A start on a bus that is held has another
\* status than the one looked for, and fails.
SendStart(status) ==
    /\ bus = "held" => status # "acknowledged"
    /\ IF status = "acknowledged" THEN bus' = "held" /\ answer' = "nothing"
       ELSE Failed(status)

\* (twi_start address), (twi_stop)
TwiStart(status) ==
    /\ call = "none" /\ SendStart(status) /\ opened' = TRUE /\ sent' = <<>> /\ due' = <<>>
    /\ UNCHANGED <<call, arguments, nested, wrote_from_twi_data>>
TwiStop ==
    /\ call = "none" /\ bus' = "idle" /\ answer' = "nothing" /\ opened' = FALSE
    /\ sent' = <<>> /\ due' = <<>>
    /\ UNCHANGED <<call, arguments, nested, wrote_from_twi_data>>

\* The bytes that are left to write; the value of an argument is not one once a (twi_write)
\* was evaluated.
BytesOf(args, i, wrote) ==
    IF args[i].kind = "byte" /\ (wrote \/ \E j \in 1..(i - 1) : args[j].kind = "write")
    THEN <<>> ELSE args[i].bytes
BytesLeft(args, wrote) == FlattenSeq([i \in DOMAIN args |-> BytesOf(args, i, wrote)])

\* (twi address ...): without an answer to the address nothing else is done
Twi(c, status) ==
    /\ call = "none" /\ SendStart(status) /\ opened' = FALSE
    /\ sent' = <<>> /\ due' = BytesLeft(c, FALSE)
    /\ IF status = "acknowledged"
       THEN call' = "twi" /\ arguments' = c /\ wrote_from_twi_data' = FALSE
       ELSE UNCHANGED <<call, arguments, wrote_from_twi_data>>
    /\ UNCHANGED nested

\* an argument of (twi); its value is not written once a (twi_write) was among them
Argument(kind) == call = "twi" /\ nested = <<>> /\ arguments # <<>> /\ arguments[1].kind = kind

SkipByte ==
    /\ Argument("byte") /\ wrote_from_twi_data
    /\ arguments' = Tail(arguments)
    /\ UNCHANGED <<call, nested, wrote_from_twi_data, bus, answer, sent, due, opened>>
WriteByte(status) ==
    /\ Argument("byte") /\ ~wrote_from_twi_data
    /\ IF status = "acknowledged"
       THEN /\ sent' = sent \o arguments[1].bytes /\ arguments' = Tail(arguments)
            /\ UNCHANGED <<call, bus, answer>>
       ELSE Failed(status) /\ call' = "none" /\ arguments' = <<>> /\ UNCHANGED sent
    /\ UNCHANGED <<nested, wrote_from_twi_data, due, opened>>
EndTwi ==
    /\ call = "twi" /\ nested = <<>> /\ arguments = <<>>
    /\ call' = "none" /\ bus' = "idle" /\ answer' = "nothing"
    /\ UNCHANGED <<arguments, nested, wrote_from_twi_data, sent, due, opened>>

\* (twi_write bytes ...), among the arguments of (twi), where nobody looks at its answer, or not
NestedWrite ==
    /\ Argument("write")
    /\ nested' = arguments[1].bytes /\ arguments' = Tail(arguments)
    /\ wrote_from_twi_data' = TRUE
    /\ UNCHANGED <<call, bus, answer, sent, due, opened>>
TwiWrite(bytes) ==
    /\ call = "none" /\ Len(due) + Len(bytes) <= MaxBytes
    /\ call' = "write" /\ nested' = bytes /\ wrote_from_twi_data' = TRUE
    /\ answer' = "nothing" /\ due' = due \o bytes
    /\ UNCHANGED <<arguments, bus, sent, opened>>
\* a bus that is not held answers nothing
WriteNested(status) ==
    /\ nested # <<>> /\ (bus = "held" \/ status # "acknowledged")
    /\ IF status = "acknowledged"
       THEN /\ sent' = Append(sent, nested[1]) /\ nested' = Tail(nested)
            /\ UNCHANGED <<bus, answer>>
       ELSE Failed(status) /\ nested' = <<>> /\ UNCHANGED sent
    /\ UNCHANGED <<call, arguments, wrote_from_twi_data, due, opened>>
EndWrite ==
    /\ call = "write" /\ nested = <<>> /\ call' = "none"
    /\ UNCHANGED twiVars

-----------------------------------------------------------------------------
\* (pin_mode pin mode), (set_pin pin values...), also while (twi) evaluates its arguments
Evaluating == call \in {"none", "twi"} /\ nested = <<>>
LioPinMode(p, mode) == Evaluating /\ PinMode(p, mode)
LioSetPin(p, value) == Evaluating /\ SetPinValue(p, value)

\* (port value pins...): the pins get the bits of the value in turn
Port(value, pins) ==
    /\ call = "none" /\ call' = "port" /\ arguments' = pins
    /\ port_value' = value /\ port_bit' = 0
    /\ UNCHANGED <<nested, wrote_from_twi_data, bus, answer, sent, due, opened>>
BitOf(value, i) == IF (value \div 2^i) % 2 = 1 THEN 2^i ELSE 0
PortPin ==
    /\ call = "port" /\ arguments # <<>>
    /\ SetPinValue(arguments[1], BitOf(port_value, port_bit))
    /\ arguments' = Tail(arguments) /\ port_bit' = port_bit + 1
    /\ UNCHANGED <<call, port_value, nested, wrote_from_twi_data, bus, answer, sent, due, opened>>
EndPort ==
    /\ call = "port" /\ arguments = <<>> /\ call' = "none"
    /\ port_value' = 0 /\ port_bit' = 0 /\ UNCHANGED twiVars

BusStep ==
    \/ \E s \in Statuses : TwiStart(s) \/ WriteByte(s) \/ WriteNested(s)
    \/ \E s \in Statuses, c \in Calls : Twi(c, s)
    \/ \E bytes \in Writes : TwiWrite(bytes)
    \/ TwiStop \/ SkipByte \/ EndTwi \/ NestedWrite \/ EndWrite
PinStep ==
    \E p \in Pin : \/ \E mode \in Modes : LioPinMode(p, mode)
                   \/ \E value \in Levels : LioSetPin(p, value)
Next ==
    \/ BusStep /\ UNCHANGED <<pinVars, portVars>>
    \/ PinStep /\ UNCHANGED <<call, twiVars, portVars>>
    \/ \E value \in Levels, pins \in Ports : Port(value, pins) /\ UNCHANGED pinVars
    \/ PortPin
    \/ EndPort /\ UNCHANGED pinVars

Spec == Init /\ [][Next]_vars

-----------------------------------------------------------------------------
(***************************************************************************)
(* PinAsAsked, for pins whose modes and values are set in any order, one   *)
(* by one, by a (port), or between the bytes of a (twi).                   *)
(***************************************************************************)
PinsAsAsked == \A p \in Pin : PinAsAsked(p)

\* A builtin leaves the bus held only after a (twi_start), until a byte fails; one that
\* returns an error has released it.
BusLeft ==
    /\ bus = "held" /\ call = "none" => opened
    /\ call = "none" /\ answer # "nothing" => bus = "idle"

(***************************************************************************)
(* Whatever the device on the bus answers and when it stops to: the bytes  *)
(* that it has acknowledged are those the script has written, in order and *)
(* from the first on; a (twi) without a nested write that returns nothing, *)
(* and the (twi_write)s on a bus that is still held, have sent all of      *)
(* them; and the bus is left as BusLeft says.                              *)
(***************************************************************************)
BusAsWritten ==
    /\ IsPrefix(sent, due)
    /\ call = "none" /\ bus = "held" => sent = due
    /\ call = "none" /\ answer = "nothing" /\ ~wrote_from_twi_data => sent = due
    /\ BusLeft
=============================================================================
