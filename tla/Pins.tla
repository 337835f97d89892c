---------------------------------- MODULE Pins ----------------------------------
(***************************************************************************)
(* The pins: their modes (pins.c), the direction and level of each on its  *)
(* port (iopin.c), the timers that drive some of them (pwm.c), and the     *)
(* builtins of lio that set them (lio_io.c).                               *)
(***************************************************************************)
EXTENDS Integers, Sequences, SequencesExt

CONSTANTS
    Pin,
    PwmPins,        \* those that a timer can drive
    Levels,         \* values of 16 bits that scripts use, as they are written
    Byte, Word      \* 256 and 65536

ASSUME PinsAssumption == PwmPins \subseteq Pin /\ Levels \subseteq 0..(Word - 1)

VARIABLES
    modes,          \* I, H, A, O, P, or another letter, which has no meaning
    dir, out,       \* the bits of DDR and PORT
    timer, duty,    \* the COM bit and the OCR of the pin
    asked           \* history: what was last asked for in this mode

pinVars == <<modes, dir, out, timer, duty, asked>>

Modes == {"I", "A", "H", "O", "P", "?"}

\* a history: nothing has been asked for since the mode was set
Unasked == -1

\* set_out and set_dir have a value of 8 bits
Bit(value) == IF value % Byte # 0 THEN 1 ELSE 0

\* pwm: the timer, its duty and the pin; a value is signed, and other pins have no timer
Pwm(p, value) ==
    /\ out' = IF p \in PwmPins /\ value = 0 THEN [out EXCEPT ![p] = 0] ELSE out
    /\ IF p \notin PwmPins \/ value >= Word \div 2
       THEN UNCHANGED <<dir, timer, duty>>
       ELSE /\ timer' = [timer EXCEPT ![p] = (value # 0)]
            /\ dir' = IF value = 0 THEN dir ELSE [dir EXCEPT ![p] = 1]
            /\ duty' = IF value = 0 THEN duty
                       ELSE [duty EXCEPT ![p] = IF value > Byte - 1 THEN Byte - 1 ELSE value]

PinInit ==
    /\ modes = [p \in Pin |-> "I"] /\ dir = [p \in Pin |-> 0] /\ out = [p \in Pin |-> 0]
    /\ timer = [p \in Pin |-> FALSE] /\ duty = [p \in Pin |-> 0]
    /\ asked = [p \in Pin |-> Unasked]

\* pin_mode: a pin that was driven by a timer and no longer is goes low first
WasPwmNever(p, mode) == FALSE      \* mutant: the timer goes on
WasPwm(p, mode) == mode # "P" /\ modes[p] = "P" /\ p \in PwmPins

PinMode(p, mode) ==
    /\ modes' = [modes EXCEPT ![p] = mode]
    /\ timer' = IF WasPwm(p, mode) THEN [timer EXCEPT ![p] = FALSE] ELSE timer
    /\ dir' = CASE mode \in {"I", "A", "H"} -> [dir EXCEPT ![p] = 0]
                [] mode \in {"O", "P"} -> [dir EXCEPT ![p] = 1]
                [] OTHER -> dir
    /\ out' = CASE mode \in {"I", "A"} -> [out EXCEPT ![p] = 0]
                [] mode = "H" -> [out EXCEPT ![p] = 1]
                [] OTHER -> IF WasPwm(p, mode) THEN [out EXCEPT ![p] = 0] ELSE out
    /\ asked' = IF mode = modes[p] THEN asked ELSE [asked EXCEPT ![p] = Unasked]
    /\ UNCHANGED duty

\* set_pin_value; (port value pins...) asks each pin for the value of one bit
SetPinValue(p, value) ==
    /\ CASE modes[p] = "O" -> out' = [out EXCEPT ![p] = Bit(value)]
                              /\ UNCHANGED <<dir, timer, duty>>
         [] modes[p] = "P" -> Pwm(p, value)
         [] OTHER -> UNCHANGED <<dir, out, timer, duty>>
    /\ asked' = IF modes[p] \in {"O", "P"} /\ ~(modes[p] = "P" /\ value >= Word \div 2)
                THEN [asked EXCEPT ![p] = value] ELSE asked
    /\ UNCHANGED modes

-----------------------------------------------------------------------------
Drive(p) ==
    CASE dir[p] = 0 -> IF out[p] = 1 THEN "pulled up" ELSE "open"
      [] dir[p] = 1 /\ timer[p] -> "timer"
      [] dir[p] = 1 /\ ~timer[p] -> IF out[p] = 1 THEN "high" ELSE "low"

(***************************************************************************)
(* Through any changes of modes, a pin does what its mode says and what    *)
(* was last asked of it in that mode: an input never drives, a timer only  *)
(* drives a pin whose mode is PWM, at the last duty that was asked for.    *)
(***************************************************************************)
PinAsAsked(p) ==
    /\ modes[p] \in {"I", "A"} => Drive(p) = "open"
    /\ modes[p] = "H" => Drive(p) = "pulled up"
    /\ timer[p] => modes[p] = "P"
    /\ modes[p] = "O" /\ asked[p] # Unasked =>
           Drive(p) = IF Bit(asked[p]) = 1 THEN "high" ELSE "low"
    /\ modes[p] = "P" /\ p \in PwmPins /\ asked[p] # Unasked =>
           IF asked[p] = 0 THEN Drive(p) = "low"
           ELSE Drive(p) = "timer"
                /\ duty[p] = IF asked[p] > Byte - 1 THEN Byte - 1 ELSE asked[p]
=============================================================================
