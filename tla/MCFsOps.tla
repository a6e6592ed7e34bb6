------------------------------- MODULE MCFsOps -------------------------------
(* Two devices, H (with the trash) and E; a directory nobody may write to; *)
(* an archive with an entry that points outside.                           *)
EXTENDS FsOps

Device(p) == p[1]
Trash     == <<"H", "T">>
Disk ==
  LET dirs == {<<"H">>, <<"E">>, Trash, <<"H", "d">>, <<"E", "d">>, <<"H", "L">>}
      files == [p \in {<<"H", "a">>, <<"H", "d", "x">>, <<"H", "d", "a">>, <<"E", "a">>,
                       <<"E", "d", "x">>, <<"E", "q">>, <<"H", "L", "z">>} |-> File(p)]
      zip == [dir |-> FALSE, data |-> {<<<<"d", "x">>, <<"new">>>>, <<<<"..", "e">>, <<"out">>>>}]
  IN  [p \in dirs |-> Dir] @@ files @@ (<<"H", "z">> :> zip)

Ask(kind, paths, dest) ==
  [kind |-> kind, paths |-> paths, dest |-> dest, value |-> <<"new", kind>>]

Eq == <<"E", "q">>
LockedDirs    == {<<"H", "L">>}
Blacklisted   == {Eq}
SystemPaths   == {<<"H">>, <<"E">>}

Ha == <<"H", "a">>
Hd == <<"H", "d">>
Ea == <<"E", "a">>
Ed == <<"E", "d">>
Lz == <<"H", "L", "z">>

InPlaceMove == Ask("move", <<Hd>>, <<"H">>)

Requests == {
  Ask("create_file", <<>>, <<"H", "b">>), Ask("create_dir", <<>>, <<"H", "b", "p">>),
  Ask("write", <<>>, Ha),
  Ask("rename", <<Ha>>, <<"H", "b">>), Ask("rename", <<Hd>>, <<"H", "b">>),
  Ask("move", <<Ha, Hd>>, <<"E">>), Ask("move", <<Ed, Ea>>, <<"H">>),
  Ask("move", <<Ea, Ha>>, Hd), Ask("move", <<Hd>>, Hd), Ask("move", <<Ha, Eq>>, Hd),
  Ask("copy", <<Ha>>, <<"H">>), Ask("copy", <<Ed>>, <<"H">>), Ask("copy", <<Hd>>, Hd),
  Ask("delete", <<Hd, Ea>>, <<>>), Ask("delete", <<Lz>>, <<>>), Ask("delete", <<<<"H">>>>, <<>>),
  Ask("delete_elevated", <<Lz, Ha>>, <<>>), Ask("trash_elevated", <<Lz>>, <<>>),
  Ask("trash", <<Ha, Ea>>, <<>>), Ask("trash", <<Ea, Ed>>, <<>>),
  Ask("compress", <<Ha, Hd>>, <<"E", "z">>), Ask("compress", <<Ea, Ed>>, Ea),
  Ask("decompress", <<<<"H", "z">>>>, <<"H", "b">>),
  Ask("decompress", <<<<"H", "z">>>>, <<"H">>), InPlaceMove }

\* A directory is moved to where it is.
InPlaceRequests == {InPlaceMove}

ASSUME TrashLeftAlone
=============================================================================
