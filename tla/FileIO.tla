-------------------------------- MODULE FileIO --------------------------------
(***************************************************************************)
(* What README.md promises of the files of the drive, without clusters,    *)
(* directories or caches: a pin is only ever set to what its file says,    *)
(* and the script that is run is the one in RUN.LIO.                       *)
(***************************************************************************)
CONSTANTS Pins, Numbers, Contents, Zero

VARIABLES
    asks,           \* what the pins' files say
    value,          \* what the pins were set to
    text,           \* the content of RUN.LIO
    ran             \* the script that was run last

vars == <<asks, value, text, ran>>

Init == /\ asks \in [Pins -> Numbers] /\ value = [p \in Pins |-> Zero]
        /\ text \in Contents /\ ran = text

\* the host changes a file
Write(p) == /\ \E v \in Numbers : asks' = [asks EXCEPT ![p] = v]
            /\ UNCHANGED <<value, text, ran>>
Edit == text' \in Contents /\ UNCHANGED <<asks, value, ran>>

\* the device follows
SetPin(p) == value' = [value EXCEPT ![p] = asks[p]] /\ UNCHANGED <<asks, text, ran>>
Run == ran' = text /\ UNCHANGED <<asks, value, text>>

\* the files may be older after power-up: a handled block is not stored
PowerUp ==
    /\ asks' \in [Pins -> Numbers] /\ text' \in Contents
    /\ value' = [p \in Pins |-> Zero] /\ ran' = text'

Next == (\E p \in Pins : Write(p) \/ SetPin(p)) \/ Edit \/ Run \/ PowerUp
Spec == Init /\ [][Next]_vars
=============================================================================
