CONSTANTS
    Pin = {0, 6}
    PwmPins = {6}
    Levels = {0, 1, 4, 9}
    Byte = 4
    Word = 16
    Calls <- MCCalls
    Writes <- MCWrites
    Ports <- MCPorts
    MaxBytes = 3

SPECIFICATION Spec
INVARIANTS
    PinsAsAsked
    BusAsWritten
