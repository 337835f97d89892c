-------------------------------- MODULE Config --------------------------------
(***************************************************************************)
(* config.c: eight settings of a bit and one of a byte, in RAM and, when   *)
(* they are made permanent, in EEPROM.                                     *)
(***************************************************************************)
EXTENDS Naturals

CONSTANTS
    MaxByte,        \* 255
    Delays          \* values that scripts give to LIO_KEYBOARD_DELAY

BoolItems == 0..7
LIO_CONFIG_INITIALIZED == 0
LIO_PRINT_ERRORS == 1
LIO_NO_LED == 2
LIO_KEYBOARD_DELAY == 8
Documented == {LIO_PRINT_ERRORS, LIO_NO_LED}

ASSUME DelaysAssumption == MaxByte \in Nat \ {0} /\ Delays \subseteq 0..MaxByte

VARIABLES
    bit_config, byte_config,        \* RAM
    stored_bits, stored_byte,       \* EEPROM
    savedBits,                      \* history: items last made permanent as 1
    savedByte                       \* history: the delay last made permanent

settings == <<bit_config, byte_config>>
eeprom == <<stored_bits, stored_byte>>
saved == <<savedBits, savedByte>>
config == <<settings, eeprom, saved>>

ConfigTypeOK ==
    /\ bit_config \subseteq BoolItems /\ byte_config \in 0..MaxByte
    /\ stored_bits \subseteq BoolItems /\ stored_byte \in 0..MaxByte
    /\ savedBits \subseteq Documented /\ savedByte \in 0..MaxByte

\* config_init: an erased EEPROM has all bits set
AfterInit(bits) == IF LIO_CONFIG_INITIALIZED \in bits THEN {} ELSE bits

ConfigStart ==
    /\ stored_bits = AfterInit(BoolItems) /\ bit_config = stored_bits
    /\ stored_byte = MaxByte /\ byte_config = MaxByte
    /\ savedBits = {} /\ savedByte = MaxByte

ConfigInit ==
    /\ stored_bits' = AfterInit(stored_bits) /\ bit_config' = stored_bits'
    /\ byte_config' = stored_byte
    /\ UNCHANGED <<stored_byte, saved>>

SetBoolValue(bits, item, value) == IF value THEN bits \cup {item} ELSE bits \ {item}

\* config: what is stored is read from the EEPROM, not from RAM
StoreAll(item, value) == SetBoolValue(bit_config, item, value)   \* mutant: from RAM
StoreItem(item, value) == SetBoolValue(stored_bits, item, value)

SetBool(item, value, permanent) ==
    /\ bit_config' = SetBoolValue(bit_config, item, value)
    /\ IF permanent
       THEN /\ stored_bits' = StoreItem(item, value)
            /\ savedBits' = SetBoolValue(savedBits, item, value)
       ELSE UNCHANGED <<stored_bits, savedBits>>
    /\ UNCHANGED <<byte_config, stored_byte, savedByte>>

SetByte(value, permanent) ==
    /\ byte_config' = value
    /\ IF permanent THEN stored_byte' = value /\ savedByte' = value
                    ELSE UNCHANGED <<stored_byte, savedByte>>
    /\ UNCHANGED <<bit_config, stored_bits, savedBits>>

\* (config item value permanent) of a script, with the items that are documented
SetConfig ==
    \E permanent \in BOOLEAN :
        \/ \E item \in Documented, value \in BOOLEAN : SetBool(item, value, permanent)
        \/ \E value \in Delays : SetByte(value, permanent)
=============================================================================
