-------------------------------- MODULE SdCard --------------------------------
(***************************************************************************)
(* sd.c: what sd_init concludes from a card's answers, and the blocks of   *)
(* the card that the commands it then sends reach.                         *)
(***************************************************************************)
EXTENDS Integers

CONSTANTS
    Sector,         \* bytes of a block (512)
    Byte,           \* values of a byte (256)
    Word,           \* values of an uint32_t
    Unit            \* blocks per unit of C_SIZE of a version 2 CSD (<< 10)

ASSUME WidthsAssumption ==
    Sector \in Nat \ {0} /\ Byte \in Nat \ {0} /\ Word \in Nat \ {0} /\ Unit \in Nat \ {0}

(***************************************************************************)
(* A card (external): the answers it gives, and what it is.                *)
(*   cmd8     it knows CMD8 (version 2)    acmd41, cmd1  it gets ready     *)
(*   voltage, pattern   the two bytes of CMD8's argument come back         *)
(*   ccs      the bit of the OCR           csd  structure of the CSD       *)
(*   size     C_SIZE, as the three bytes of the CSD it is in, high first   *)
(*   mult     C_SIZE_MULT + 2              bytes  it takes byte addresses  *)
(*   blocks   it really has                                                *)
(***************************************************************************)
CardKinds ==
    [cmd8 : BOOLEAN, acmd41 : BOOLEAN, cmd1 : BOOLEAN, voltage : BOOLEAN,
     pattern : BOOLEAN, ccs : BOOLEAN, csd : 0..2, size : Nat \X Nat \X Nat,
     mult : Nat, bytes : BOOLEAN, blocks : Nat]

-----------------------------------------------------------------------------
Assumed(c) == TRUE   \* mutant: the OCR is not looked at
\* sd_init, CMD58
BlockBit(c) == c.ccs

\* sd_init: SD_BYTE_ADDRESSABLE
ByteAddressable(c) == ~c.cmd8 \/ ~BlockBit(c)

\* sd_init, CMD8: of the two bytes that should be 0x01AA, one is enough
Echoed(c) == c.voltage \/ c.pattern

\* sd_init: the answers it returns an error for
Accepted(c) == c.cmd8 => Echoed(c) /\ c.acmd41

\* sd_init: SD_VERSION, after ACMD41, CMD1 and the CSD
Version(c) ==
    IF c.csd = 0 THEN 1
    ELSE IF c.cmd8 THEN 2
    ELSE IF ~c.acmd41 /\ c.cmd1 THEN 0 ELSE 1

\* b << 8 of an uint8_t is an int of 16 bits: above 127 it is negative, and in an
\* uint32_t the bits above are set
Shifted(b) == IF b >= Byte \div 2 THEN Word - (Byte - b) * Byte ELSE b * Byte
\* the OR of the three bytes
Assembled(high, middle, low) ==
    IF middle >= Byte \div 2 THEN Shifted(middle) + low
    ELSE high * Byte * Byte + Shifted(middle) + low

\* sd_init: sd_size
Capacity(c) ==
    IF Version(c) = 2
    THEN ((Assembled(c.size[1], c.size[2], c.size[3]) + 1) * Unit) % Word
    ELSE ((c.size[1] * Byte + c.size[2]) * 4 + c.size[3]) * 2^c.mult

\* sd_read_block, sd_write_start: the argument of CMD17 and CMD24
Address(c, block) == IF ByteAddressable(c) THEN (block * Sector) % Word ELSE block

\* the card: the block that an address means; None for an address it refuses
Refused == -1
Reached(c, address) ==
    LET block == IF c.bytes THEN address \div Sector ELSE address
    IN  IF block < c.blocks THEN block ELSE Refused

(***************************************************************************)
(* What the standard says of a card (external): one that does not know     *)
(* CMD8 takes byte addresses, one that does says so in its OCR; the CSD    *)
(* counts no more blocks than there are, and 32 bits address each byte     *)
(* where bytes are addressed.                                              *)
(***************************************************************************)
Conforming(c) ==
    /\ ~c.cmd8 => c.bytes
    /\ c.cmd8 => (c.bytes <=> ~c.ccs)
    /\ Capacity(c) <= c.blocks
    /\ c.bytes => c.blocks * Sector <= Word
=============================================================================
