SPECIFICATION FairSpec
CONSTANTS
    Letters = {"a", "n"}
    Capitals = {"B"}
    Modifiers = {"LeftShift", "LeftGUI"}
    Hexes = {}
    OtherWords = {"bad"}
    MaxByte = 2
    Delays = {0}
    Texts <- MCTexts
    BufferLen = 7
    DefaultDelay = 1
INVARIANTS
    TypeOK
PROPERTIES
    KeysAsTyped
    StrokesApart
    AllTyped
    SettingsReturn
