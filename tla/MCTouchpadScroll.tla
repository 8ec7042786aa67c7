-------------------------- MODULE MCTouchpadScroll --------------------------
(* TouchpadScroll on a pad of 100 by 60 mm: a plain one, a clickpad with       *)
(* thumbs, a laptop's with palms and a switch, one beside a pen and a round    *)
(* one.                                                                        *)
EXTENDS TouchpadScroll

Left   == [x |-> 3, y |-> 20]
Mid    == [x |-> 50, y |-> 20]
Right  == [x |-> 97, y |-> 20]
Bottom == [x |-> 50, y |-> 57]
Corner == [x |-> 97, y |-> 57]
Near   == [x |-> 50, y |-> 52]
Ring   == [x |-> 50, y |-> 5]
Centre == [x |-> 50, y |-> 30]
MCPoints == {Left, Mid, Right, Bottom, Corner, Near, Ring, Centre}

Plain == [touches |-> 2, points |-> {Mid, Right, Corner}, methods |-> {"none", "edge"},
          thumbs |-> FALSE, palms |-> FALSE, areas |-> FALSE, open |-> FALSE, pen |-> FALSE]
Clickpad == [Plain EXCEPT !.thumbs = TRUE, !.points = {Mid, Near, Bottom}, !.methods = {"2fg"}, !.areas = TRUE]
Laptop == [Plain EXCEPT !.points = {Left, Right}, !.palms = TRUE, !.methods = {"edge"}, !.open = TRUE]
Paired == [Plain EXCEPT !.points = {Mid, Right}, !.methods = {"edge"}, !.pen = TRUE]
Round  == [Plain EXCEPT !.points = {Centre, Mid, Ring}, !.methods = {"none", "circular"}]
MCPads == {Plain, Paired, Clickpad, Laptop, Round}
MCRound == {Round}
=============================================================================
