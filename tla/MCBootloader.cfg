SPECIFICATION Spec
CONSTANTS
    i = i
    j = j
    Bytes = {"A", "B", "X", "Z", "-"}
    Always = "X"
    Outside = {"Z", "-"}
    Blank = "-"
    Images = {i, j}
    PagesOf <- MCPagesOf
    NumPages = 2
    BootFiles <- MCBootFiles
INVARIANTS
    TypeOK
    AppIsCardImage
PROPERTIES
    OnlyCheckedCode
    Healed
