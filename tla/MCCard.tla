-------------------------------- MODULE MCCard --------------------------------
(* A card of version 2 that takes byte addresses, of five blocks; a script that *)
(* takes the red LED and gives it back.  Of the other kinds of card, the        *)
(* conclusions of sd_init are checked as an assumption.                         *)
EXTENDS Card
Kind(cmd8, acmd41, ccs, csd, size, bytes, blocks) ==
    [cmd8 |-> cmd8, acmd41 |-> acmd41, cmd1 |-> TRUE, voltage |-> cmd8, pattern |-> cmd8,
     ccs |-> ccs, csd |-> csd, size |-> size, mult |-> 0, bytes |-> bytes,
     blocks |-> blocks]
Standard == Kind(TRUE, TRUE, FALSE, 0, <<0, 1, 1>>, TRUE, 6)
OtherKinds == {Kind(TRUE, TRUE, TRUE, 1, <<0, 0, 0>>, FALSE, 5),
               Kind(FALSE, TRUE, FALSE, 0, <<0, 1, 1>>, TRUE, 6),
               Kind(FALSE, FALSE, FALSE, 2, <<0, 1, 1>>, TRUE, 6)}
ASSUME KindsAssumption ==
    /\ CardsConform
    /\ \A c \in OtherKinds :
        /\ Accepted(c) /\ Conforming(c)
        /\ \A b \in 0..(Capacity(c) - 1) : Reached(c, Address(c, b)) = b
MCCards == {Standard}
MCRequests == {[lamp |-> "red", value |-> v] : v \in {"none", "high"}}
MCHandled == [s \in {"old", "new"} |-> IF s = "old" THEN {3} ELSE {4}]
MCWatched == [s \in {"old", "new"} |-> IF s = "old" THEN {4} ELSE {3}]
=============================================================================
