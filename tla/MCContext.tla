----------------------------- MODULE MCContext -----------------------------
(* Context with two devices that may share a seat, and a ring of two slots. *)
EXTENDS Context, TLC

CONSTANTS n1, n2

MCNodes == {n1, n2}
MCHandles == 1..3
MCEvents == [type : {"added", "pressed", "released", "removed"}, device : MCHandles]

Scene(kind, nodes, calls, handles) ==
  [backend |-> kind, nodes |-> nodes, calls |-> calls, handles |-> handles]

MCScenes ==
  { Scene("udev", 1, {"hold", "disable", "seat"}, 3),
    Scene("path", 1, {"hold", "disable", "seat"}, 3),
    Scene("udev", 2, {"seat"}, 2),
    Scene("path", 2, {"seat"}, 2) }

Alike == Permutations(MCNodes)
=============================================================================
