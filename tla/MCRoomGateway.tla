--------------------------- MODULE MCRoomGateway ---------------------------
(* RoomGateway for TLC: where connections are made, by whom, and the scenes. *)
EXTENDS RoomGateway, TLC

CONSTANTS i1, i2, c1, c2, c3, u1, u2

MCInstanceOf == c1 :> i1 @@ c2 :> i2 @@ c3 :> i2
MCUserOf == c1 :> u1 @@ c2 :> u2 @@ c3 :> u2

Scene(what, at, sockets, steps, losses) ==
  [kind |-> what, owner |-> at, connections |-> sockets, changes |-> steps, faults |-> losses]

(* Two sockets of a lobby, on different instances and on one; a turn game    *)
(* watched from elsewhere; a match watched from either side.                 *)
MCScenes ==
  {Scene("lobby", i1, {c1, c2}, 2, 0), Scene("lobby", i1, {c1, c2}, 1, 1), Scene("lobby", i1, {c2, c3}, 1, 1),
   Scene("turn", i1, {c2}, 3, 1), Scene("match", i1, {c1}, 2, 0)}
    \cup {Scene("match", i, {c1}, 1, 1) : i \in {i1, i2}}
=============================================================================
