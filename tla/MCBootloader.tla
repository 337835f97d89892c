----------------------------- MODULE MCBootloader -----------------------------
(* Two applications of one and two pages; versions that share a byte, one that *)
(* is always loaded again, one that is no name, and a damaged file.            *)
EXTENDS Bootloader
CONSTANTS i, j
MCPagesOf == [m \in {i, j} |-> IF m = i THEN 1 ELSE 2]
File(v, m, s) == [version |-> v, image |-> m, sound |-> s]
MCBootFiles == {File(<<"A", "A">>, i, TRUE), File(<<"A", "B">>, j, TRUE),
                File(<<"A", "B">>, j, FALSE), File(<<"X", "A">>, j, TRUE),
                File(<<"B", "Z">>, i, TRUE)}
=============================================================================
