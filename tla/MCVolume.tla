------------------------------- MODULE MCVolume -------------------------------
(* The calls of make_fs, with fewer pins and texts of a few characters. *)
EXTENDS Volume, TLC

Text(n) == [i \in 1..n |-> <<n, i>>]
File(dir, name, attributes, content, length) ==
    [op |-> "file", dir |-> dir, name |-> Spell(name), attributes |-> attributes,
     content |-> content, length |-> length]
Plain(dir, name, content) == File(dir, name, {}, content, Len(content))
System(dir, name, content) == File(dir, name, {"readonly", "system"}, content, Len(content))
Directory(dir, name, parent, size) ==
    [op |-> "directory", dir |-> dir, name |-> Spell(name), parent |-> parent, size |-> size]

io_cluster == 2
MCCalls == <<
    Plain(0, "readme.txt", Text(7)),
    Directory(0, "io", 0, 4),
    Directory(2, "mode", io_cluster, 1),
    Plain(3, "0", Text(4)), Plain(3, "1", Text(4)), Plain(3, "12", Text(4)),
    Directory(2, "pins", io_cluster, 4),
    Plain(7, "0", Text(4)), Plain(7, "1", Text(4)), Plain(7, "12", Text(4)),
    Directory(2, "boot", io_cluster, 4),
    Plain(11, "phatio.hex", Text(10)),
    File(2, "status", {}, Text(2), BlockChars),
    Plain(2, "run.lio", Text(8)),
    Directory(2, "dev", io_cluster, 4),
    Directory(2, "etc", io_cluster, 4),
    Directory(2, "lib", io_cluster, 4),
    Plain(16, "lufa-license.txt", Text(5)),
    Plain(16, "empty", Text(0)),
    Plain(17, "lcd.lio", Text(5)),
    Plain(17, "a rather long.name.lio", Text(6)),
    System(0, ".metadata_never_index", Text(4)),
    System(0, ".Trashes", Text(3)),
    Directory(0, ".fseventsd", 0, 2),
    System(24, "no_log", Text(1))>>
MCLibraries == {0, 20, 21}
=============================================================================
