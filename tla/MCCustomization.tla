--------------------------- MODULE MCCustomization ---------------------------
(* A file with a repeated group, a repeated key and comments, one without    *)
(* keys, one with a line that is too long, and none; a desktop.ini and none; *)
(* names with every character that is escaped, with a blank in front and     *)
(* with a line break.                                                        *)
EXTENDS Customization, TLC

CONSTANTS a, b

Mixed == <<Pair(Name, <<b>>), Remark, Header(Desktop), Pair(Name, <<a>>), Pair(Icon, <<a>>), Remark,
           Header(App), Pair(Name, <<b>>), Header(Desktop), Pair(Name, <<b>>), Pair(Comment, <<b>>), Remark>>
Bare  == <<Remark, Header(App), Remark>>
Long  == <<Header(Desktop), Pair(Name, <<a>>), OverLong, Pair(Icon, <<b>>)>>
Dirs  == {Mixed, Bare, Long}

WithShell == <<Header(Shell), Pair(Icon, <<Space, b>>), Pair(Comment, <<b>>), Header(App), Pair(Icon, <<a>>)>>
Inis  == {WithShell}

Op(o, s, k, v) == [op |-> o, section |-> s, key |-> k, value |-> v]
Put(n, i, c)   == [kind |-> "put", name |-> n, icon |-> i, comment |-> c]
Patch(ops)     == [kind |-> "patch", ops |-> ops]
Pin(ns, on)    == [kind |-> "pin", names |-> ns, pinned |-> on]

Odd == <<<<Semi, a>>, <<Esc>>, <<a, Esc, Semi>>>>

Asks == {Put(<<Space, b>>, "keep", <<a>>), Put(<<>>, <<b>>, "keep"), Put(<<a, Break, b>>, "keep", <<>>),
         Patch(<<Op("set", App, Comment, <<a>>), Op("delete", Desktop, Comment, <<>>)>>),
         Patch(<<Op("set", App, Name, <<a>>), Op("other", App, Icon, <<a>>)>>),
         Pin(<<<<a>>, <<Space, b>>>>, TRUE), Pin(Odd, TRUE), Pin(<<<<a>>, <<Esc>>>>, FALSE),
         Pin(<<<<Space, b>>>>, FALSE)}

Slots == Permutations(Slot)
=============================================================================
