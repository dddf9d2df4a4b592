------------------------------ MODULE MCPacman ------------------------------
(* A maze for TLC.  Positions are <<column, row>>.                         *)
EXTENDS Pacman

(* A corridor around a pillar, with a booster near Pacman, an empty tile   *)
(* and a dead end behind it, where one ghost can shut another in.          *)
Corridor == ((1 .. 3) \X (1 .. 3) \ {<<2, 2>>}) \cup {<<4, 1>>}

MCMaze == [p \in (0 .. 5) \X (0 .. 4) |->
             IF p \notin Corridor THEN "#"
             ELSE IF p = <<1, 3>> THEN "*"
             ELSE IF p = <<3, 1>> THEN " " ELSE "."]

MCPacmanSpawn == <<1, 1>>
MCGhostSpawn  == [i \in Ghost |-> IF i = 0 THEN <<3, 2>> ELSE <<2, 3>>]
=============================================================================
