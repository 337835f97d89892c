--------------------------------- MODULE Leds ---------------------------------
(***************************************************************************)
(* The two LEDs of log.c: modes that the main loop sets, and led_task,     *)
(* which the timer interrupt calls every 10 ms and which makes the port    *)
(* follow the modes.  A script may take a LED over.                        *)
(***************************************************************************)
EXTENDS Naturals

Lamps == {"red", "green"}
\* LEDSTATE_OFF, LEDON, LEDMANUAL, FLASH, FLASH_ON, and the codes that blink
Codes == {"sd", "disk", "iodir"}
Modes == {"off", "on", "manual", "flash", "flash_on"} \cup Codes

VARIABLES
    led_state,      \* lamp -> mode
    lit             \* the bits of the port

leds == <<led_state, lit>>

LedsTypeOK == led_state \in [Lamps -> Modes] /\ lit \in [Lamps -> BOOLEAN]
LedsInit == led_state = [l \in Lamps |-> "off"] /\ lit = [l \in Lamps |-> FALSE]

ErroredAlways(modes, mode) == [modes EXCEPT !["red"] = mode]   \* mutant: takes it back
\* led_error
Errored(modes, mode) == IF modes["red"] = "manual" THEN modes
                                                   ELSE [modes EXCEPT !["red"] = mode]

FlashedAlways(modes, l) == [modes EXCEPT ![l] = "flash"]   \* mutant: over an error
\* led_flash
Flashed(modes, l) == IF modes[l] = "off" THEN [modes EXCEPT ![l] = "flash"] ELSE modes

(***************************************************************************)
(* led_task.  The time enters by the windows it is in: flashing, the first *)
(* quarter of a flash cycle; and for the codes that blink, dark, the first *)
(* half of a blink, or bright, the other half of one that counts, or past. *)
(***************************************************************************)
NextMode(l, flashing) ==
    IF led_state[l] = "flash" /\ flashing THEN "flash_on"
    ELSE IF led_state[l] = "flash_on" /\ ~flashing THEN "off"
    ELSE led_state[l]

NextLit(l, flashing, blink) ==
    CASE led_state[l] = "on" -> TRUE
      [] led_state[l] = "off" -> FALSE
      [] led_state[l] = "flash" -> flashing \/ lit[l]
      [] led_state[l] = "flash_on" -> flashing /\ lit[l]
      [] led_state[l] \in Codes -> blink = "bright" \/ (blink = "past" /\ lit[l])
      [] OTHER -> lit[l]

Blinks == IF led_state["red"] \in Codes THEN {"dark", "bright", "past"} ELSE {"dark"}

LedTask ==
    \E flashing \in BOOLEAN, blink \in Blinks :
        /\ led_state' = [l \in Lamps |-> NextMode(l, flashing)]
        /\ lit' = [l \in Lamps |-> NextLit(l, flashing, blink)]
=============================================================================
