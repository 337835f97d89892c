SPECIFICATION Spec
CONSTANTS
    p1 = p1
    p2 = p2
    o = o
    c1 = c1
    c2 = c2
    c3 = c3
    c4 = c4
    c5 = c5
    c6 = c6
    off = off
    on = on
    text = text
    Pins = {p1, p2}
    RunFile = RunFile
    Device = Device
    Others = {o}
    Clusters = {c1, c2, c3, c4, c5, c6}
    Empty = Empty
    Gone = Gone
    Numbers = {off, on}
    Texts = {text}
    Zero = off
    Mods = 2
    Saved = {p1, p2, RunFile, o}
    Emptied = {p1}
    Deleted = {}
    Host = {"unplug"}
SYMMETRY Symmetry
PROPERTIES
    KeepsPromise
