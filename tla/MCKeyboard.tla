------------------------------ MODULE MCKeyboard ------------------------------
(* The texts of test/test_keyboard.c, shortened: a key, an escape, a block, and *)
(* a block that cannot be used.                                                 *)
EXTENDS Keyboard
MCTexts == {
    <<Key("a")>>,
    <<[kind |-> "escape", of |-> <<"n">>]>>,
    <<[kind |-> "block", of |-> <<"LeftGUI", "B">>]>>,
    <<Key("%"), Key("{"), Key("bad"), Key("}")>>}
=============================================================================
