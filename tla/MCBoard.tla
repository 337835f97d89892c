-------------------------------- MODULE MCBoard --------------------------------
(* Two pins, one of them with a timer; bytes of 2 bits, numbers of 4. *)
EXTENDS Board

B(n) == [kind |-> "byte", bytes |-> <<n>>]
W(bytes) == [kind |-> "write", bytes |-> bytes]
MCCalls == {<<B(1), B(2)>>, <<B(1), W(<<2, 3>>)>>, <<W(<<1, 2>>), W(<<3>>)>>,
            <<B(1), W(<<2>>), B(3), W(<<1>>)>>}
MCWrites == {<<1>>, <<2, 3>>}
MCPorts == {<<0, 6, 0>>}
=============================================================================
