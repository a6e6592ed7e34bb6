--------------------------- MODULE MCPluginInstall ---------------------------
(* One plugin in two versions, a package that is refused, a second plugin    *)
(* whose entry has a name that is not served, and a bundled one.             *)
EXTENDS PluginInstall, TLC

CONSTANTS pa, pb, bundled, v1, v2, w

Made(i, e, c, ok) == [id |-> i, entry |-> e, code |-> c, claim |-> v1, valid |-> ok]

Packages == {Made(pa, "client.js", v1, TRUE), Made(pa, "client.js", v2, TRUE),
             Made(pa, "client.js", v2, FALSE), Made(pb, "main.js", w, TRUE),
             Made(bundled, "client.js", v2, TRUE)}
Slots == Permutations(Slot)
=============================================================================
