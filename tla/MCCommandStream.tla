-------------------------- MODULE MCCommandStream --------------------------
(* A small room for CommandStream: three cells, one winning line.          *)
EXTENDS CommandStream

CONSTANTS p1, p2, x, y, z

MCJoinOrder == <<p1, p2>>
MCLines == {{x, y}}

Do(kind) == [kind |-> kind, cell |-> x]
Mark(cell) == [kind |-> "move", cell |-> cell]

Scene(begun, first, second, wrong, often) ==
  [begun |-> begun, commands |-> p1 :> first @@ p2 :> second, faults |-> wrong, copies |-> often]

MCScenes ==
  { Scene(TRUE, <<Mark(x), Mark(y)>>, <<Mark(z)>>, 1, 1),
    Scene(TRUE, <<Mark(x)>>, <<>>, 1, 2),
    Scene(FALSE, <<Do("ready")>>, <<Do("ready")>>, 2, 1),
    Scene(TRUE, <<Mark(x), Mark(y)>>, <<Mark(z), Do("leave")>>, 0, 1),
    Scene(FALSE, <<Do("ready"), Do("unready")>>, <<>>, 1, 1),
    Scene(FALSE, <<Do("ready"), Do("cancel")>>, <<Do("ready"), Mark(x)>>, 0, 1) }
=============================================================================
