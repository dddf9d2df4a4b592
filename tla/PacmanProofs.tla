---------------------------- MODULE PacmanProofs ----------------------------
(***************************************************************************)
(* The rules of the game keep the walls, the timers and the pellets right  *)
(* in every maze that is walled in, with any number of ghosts and lives.   *)
(* The breadth-first search of a ghost finds a shortest way in every maze  *)
(* of every size, within its array: the second part of the module.  And    *)
(* the console that the game is drawn on lays every text out as Terminal   *)
(* says, whatever the sizes of screen and kernel buffer: the third part.   *)
(***************************************************************************)
EXTENDS Pacman, PathSearch, Console, SequenceTheorems, FiniteSetTheorems,
        WellFoundedInduction, TLAPS

(* The values that a running timer set to T goes through.                  *)
Ticks(T) == {t \in 1 .. T : t % 100 = 0}

(* A timer that runs shows a whole number of frames, at least one: then    *)
(* it reaches 0 and does not pass it.                                      *)
TimersTick ==
    /\ pacman.isBoosted => pacman.boostedTimer \in Ticks(BOOSTED_TIME)
    /\ ~ pacman.isAlive => pacman.respawnTimer \in Ticks(RESPAWN_TIME)
    /\ \A i \in Ghost : ~ ghosts[i].isAlive =>
                           ghosts[i].deadTimer \in Ticks(RESPAWN_TIME)

(* The inductive invariant.                                                *)
IInv == /\ TypeOK
        /\ WallsStand
        /\ TimersTick
        /\ pc = "pacman" => lives > 0

(* One tick of a timer that runs, without the modulo: it expires or goes   *)
(* on with one frame less.                                                 *)
LEMMA Tick ==
  ASSUME NEW T \in 1 .. UINT - 1, T % 100 = 0, NEW t \in Ticks(T)
  PROVE  /\ Less(t) \in 0 .. UINT - 1
         /\ ~ Expired(Less(t)) => Less(t) \in Ticks(T)
<1>1. /\ UINT \in Nat /\ T \in Nat /\ T < UINT
      /\ t \in Nat /\ t >= 1 /\ t <= T /\ t % 100 = 0
  BY NumbersAssumption DEF Ticks
<1>2. t >= 100
  BY <1>1
<1>3. /\ t - 100 \in 0 .. T
      /\ (t - 100) % 100 = 0
  BY <1>1, <1>2
<1>4. (t - 100) % UINT = t - 100
  BY <1>1, <1>2
<1> QED BY <1>1, <1>3, <1>4 DEF Less, Elapsed, Expired, Ticks

(* A square next to one that is no wall is on the board.                   *)
LEMMA StepOnBoard ==
  ASSUME WallsStand, NEW d \in Direction, NEW p \in Point, Maze[p] # "#"
  PROVE  Step(p, d) \in Point
  BY MazeAssumption

(* What a round starts from.                                               *)
LEMMA NewRound ==
  /\ [Maze EXCEPT ![PacmanSpawn] = "C"] \in [Point -> Tile]
  /\ NewPacman \in PacmanType
  /\ \A i \in Ghost : NewGhost(i) \in GhostType
<1>1. UINT \in Nat /\ 0 \in 0 .. UINT - 1
  BY NumbersAssumption
<1>2. [Maze EXCEPT ![PacmanSpawn] = "C"] \in [Point -> Tile]
  BY MazeAssumption DEF Tile
<1>3. NewPacman \in PacmanType
  BY <1>1, MazeAssumption DEF NewPacman, PacmanType
<1>4. \A i \in Ghost : NewGhost(i) \in GhostType
  BY <1>1, MazeAssumption DEF NewGhost, GhostType
<1> QED BY <1>2, <1>3, <1>4

LEMMA TypesOfInit == Init => IInv
<1> SUFFICES ASSUME Init PROVE IInv
  OBVIOUS
<1>1. TypeOK
  BY NewRound, NumbersAssumption DEF Init, TypeOK
<1>2. WallsStand
  BY MazeAssumption DEF Init, WallsStand, NewPacman, NewGhost
<1>3. TimersTick
  BY DEF Init, TimersTick, NewPacman, NewGhost
<1> QED BY <1>1, <1>2, <1>3 DEF IInv, Init

LEMMA RoundKeeps ==
  ASSUME IInv, initializeRound
  PROVE  IInv'
<1>1. TypeOK'
  BY NewRound, NumbersAssumption
  DEF IInv, initializeRound, TypeOK
<1>2. WallsStand'
  BY MazeAssumption DEF initializeRound, WallsStand, NewPacman, NewGhost
<1>3. TimersTick'
  BY DEF initializeRound, TimersTick, NewPacman, NewGhost
<1> QED BY <1>1, <1>2, <1>3, NumbersAssumption DEF IInv, initializeRound

(* Pacman's step: it may move, eat, be eaten or do nothing.                *)
LEMMA PacmanKeeps ==
  ASSUME IInv, NEW d \in Direction, updatePacmanPosition(d)
  PROVE  IInv'
<1> DEFINE to      == Step(pacman.pos, d)
           walks   == MayWalk(to)
           item    == IF to = pacman.pos THEN " " ELSE map[to]
           booster == walks /\ item = "*"
           boosted == pacman.isBoosted \/ booster
           eaten   == IF boosted THEN GhostsAt(to) ELSE {}
           caught  == ~ boosted /\ GhostsAt(to) # {}
<1>1. /\ map' = IF walks THEN [map EXCEPT ![pacman.pos] = " ", ![to] = "C"]
                ELSE map
      /\ ghosts' = [i \in Ghost |->
           IF i \in eaten
           THEN [ghosts[i] EXCEPT !.pos = GhostSpawn[i], !.isAlive = FALSE,
                                  !.deadTimer = RESPAWN_TIME]
           ELSE ghosts[i]]
      /\ pacman' = [pacman EXCEPT
           !.pos = IF caught THEN PacmanSpawn ELSE IF walks THEN to ELSE @,
           !.isBoosted = boosted,
           !.boostedTimer = IF booster THEN BOOSTED_TIME ELSE @,
           !.isAlive = IF caught THEN FALSE ELSE @,
           !.respawnTimer = IF caught THEN RESPAWN_TIME ELSE @]
      /\ behaviour' \in {"STILL", "RUN_AWAY", behaviour}
      /\ lives' = IF caught THEN lives - 1 ELSE lives
      /\ pc = "pacman" /\ pc' = "ghosts" /\ next' = 0
      /\ leaderboardSize' = leaderboardSize
  BY DEF updatePacmanPosition, changeGhostsBehaviour
<1>2. /\ TypeOK /\ WallsStand /\ TimersTick /\ lives > 0
  BY <1>1 DEF IInv
<1>3. /\ pacman \in PacmanType /\ pacman.pos \in Point
      /\ map \in [Point -> Tile] /\ ghosts \in [Ghost -> GhostType]
  BY <1>2 DEF TypeOK, PacmanType
<1>4. to \in Point
  BY <1>2, <1>3, StepOnBoard DEF WallsStand
<1>5. walks => Maze[to] # "#"
  BY <1>2, <1>4 DEF MayWalk, isWall, WallsStand
<1>6. boosted \in BOOLEAN /\ booster \in BOOLEAN /\ caught \in BOOLEAN
  BY <1>3 DEF PacmanType
<1>7. /\ BOOSTED_TIME \in 0 .. UINT - 1 /\ RESPAWN_TIME \in 0 .. UINT - 1
      /\ BOOSTED_TIME \in Ticks(BOOSTED_TIME)
      /\ RESPAWN_TIME \in Ticks(RESPAWN_TIME)
  BY NumbersAssumption DEF Ticks
<1> HIDE DEF to, walks, item, booster, boosted, eaten, caught
<1>8. /\ map' \in [Point -> Tile]
      /\ \A p \in Point : map'[p] = "#" <=> Maze[p] = "#"
  BY <1>1, <1>2, <1>3, <1>4, <1>5 DEF WallsStand, Tile
<1>9. pacman' \in PacmanType
  BY <1>1, <1>3, <1>4, <1>6, <1>7, MazeAssumption DEF PacmanType
<1>10. Maze[pacman'.pos] # "#"
  BY <1>1, <1>2, <1>3, <1>5, MazeAssumption DEF WallsStand, PacmanType
<1>11. /\ pacman'.isBoosted => pacman'.boostedTimer \in Ticks(BOOSTED_TIME)
       /\ ~ pacman'.isAlive => pacman'.respawnTimer \in Ticks(RESPAWN_TIME)
  <2>1. /\ pacman'.isBoosted = boosted
        /\ pacman'.boostedTimer = IF booster THEN BOOSTED_TIME
                                  ELSE pacman.boostedTimer
        /\ pacman'.isAlive = IF caught THEN FALSE ELSE pacman.isAlive
        /\ pacman'.respawnTimer = IF caught THEN RESPAWN_TIME
                                  ELSE pacman.respawnTimer
    BY <1>1, <1>3 DEF PacmanType
  <2>2. boosted => booster \/ pacman.isBoosted
    BY DEF boosted
  <2> QED BY <1>2, <1>7, <2>1, <2>2 DEF TimersTick
<1>12. \A i \in Ghost :
          /\ ghosts'[i] \in GhostType
          /\ Maze[ghosts'[i].pos] # "#"
          /\ ~ ghosts'[i].isAlive => ghosts'[i].deadTimer \in Ticks(RESPAWN_TIME)
  <2> SUFFICES ASSUME NEW i \in Ghost
               PROVE  /\ ghosts'[i] \in GhostType
                      /\ Maze[ghosts'[i].pos] # "#"
                      /\ ~ ghosts'[i].isAlive =>
                            ghosts'[i].deadTimer \in Ticks(RESPAWN_TIME)
    OBVIOUS
  <2>1. GhostSpawn[i] \in Point /\ Maze[GhostSpawn[i]] # "#"
    BY MazeAssumption
  <2>2. CASE i \in eaten
    BY <1>1, <1>3, <1>7, <2>1, <2>2 DEF GhostType
  <2>3. CASE i \notin eaten
    BY <1>1, <1>2, <1>3, <2>3 DEF WallsStand, TimersTick
  <2> QED BY <2>2, <2>3
<1>13. TypeOK'
  <2>1. ghosts' \in [Ghost -> GhostType]
    BY <1>1, <1>12
  <2>2. /\ lives' \in {lives, lives - 1} /\ lives \in 0 .. NUM_LIVES
        /\ next' = 0
    BY <1>1, <1>2 DEF TypeOK
  <2>3. lives' \in 0 .. NUM_LIVES /\ next' \in 0 .. NUM_GHOSTS
    BY <1>2, <2>2, NumbersAssumption
  <2> QED BY <1>1, <1>2, <1>8, <1>9, <2>1, <2>3 DEF TypeOK
<1>14. WallsStand' /\ TimersTick'
  BY <1>8, <1>10, <1>11, <1>12 DEF WallsStand, TimersTick
<1> QED BY <1>1, <1>13, <1>14 DEF IInv

(* A ghost's step: the tile it leaves behind is never a wall.              *)
LEMMA GhostKeeps ==
  ASSUME IInv, moveGhost
  PROVE  IInv'
<1>1. TypeOK /\ WallsStand /\ TimersTick /\ pc = "ghosts" /\ next \in Ghost
  BY NumbersAssumption DEF IInv, moveGhost, TypeOK, Ghost
<1>2. PICK p \in GhostMoves(next) :
        /\ map' = [map EXCEPT ![ghosts[next].pos] = ghosts[next].tile,
                              ![p] = "G"]
        /\ ghosts' = [ghosts EXCEPT ![next].tile = TileUnder(next, p),
                                    ![next].pos = p]
  BY DEF moveGhost
<1>3. /\ next' = next + 1 /\ pc' = pc
      /\ UNCHANGED <<pacman, behaviour, lives, leaderboardSize>>
  BY DEF moveGhost
<1>4. /\ ghosts \in [Ghost -> GhostType] /\ ghosts[next] \in GhostType
      /\ ghosts[next].pos \in Point /\ ghosts[next].tile \in {".", "*", " "}
      /\ map \in [Point -> Tile]
  BY <1>1 DEF TypeOK, GhostType
<1>5. p \in Point /\ Maze[p] # "#"
  <2>1. PICK d \in Direction : p = Step(ghosts[next].pos, d)
    BY DEF GhostMoves
  <2>2. p \in Point
    BY <1>1, <1>4, <2>1, StepOnBoard DEF WallsStand
  <2> QED BY <1>1, <2>2 DEF GhostMoves, isWall, WallsStand
<1>6. TileUnder(next, p) \in {".", "*", " "}
  BY DEF TileUnder
<1>7. /\ map' \in [Point -> Tile]
      /\ \A q \in Point : map'[q] = "#" <=> Maze[q] = "#"
  BY <1>1, <1>2, <1>4, <1>5 DEF WallsStand, Tile
<1>8. ghosts' \in [Ghost -> GhostType]
  BY <1>2, <1>4, <1>5, <1>6 DEF GhostType
<1>9. \A i \in Ghost :
         /\ Maze[ghosts'[i].pos] # "#"
         /\ ghosts'[i].isAlive = ghosts[i].isAlive
         /\ ghosts'[i].deadTimer = ghosts[i].deadTimer
  BY <1>1, <1>2, <1>4, <1>5 DEF WallsStand, GhostType
<1>10. next' \in 0 .. NUM_GHOSTS
  BY <1>1, <1>3, NumbersAssumption DEF Ghost
<1>11. TypeOK'
  BY <1>1, <1>3, <1>7, <1>8, <1>10 DEF TypeOK
<1>12. WallsStand' /\ TimersTick'
  BY <1>1, <1>3, <1>7, <1>9 DEF WallsStand, TimersTick
<1> QED BY <1>1, <1>3, <1>11, <1>12 DEF IInv

(* A tick of the timers.                                                   *)
LEMMA TimersKeep ==
  ASSUME IInv, updateTimerState
  PROVE  IInv'
<1> DEFINE boostEnds == pacman.isBoosted /\ Expired(Less(pacman.boostedTimer))
           respawns  == ~ pacman.isAlive /\ Expired(Less(pacman.respawnTimer))
<1>1. /\ pacman' = [pacman EXCEPT
           !.boostedTimer = IF pacman.isBoosted THEN Less(@) ELSE @,
           !.isBoosted = @ /\ ~ boostEnds,
           !.respawnTimer = IF pacman.isAlive THEN @ ELSE Less(@),
           !.isAlive = @ \/ respawns]
      /\ behaviour' \in {"CHASE", behaviour}
      /\ ghosts' = [i \in Ghost |->
           IF ghosts[i].isAlive THEN ghosts[i]
           ELSE [ghosts[i] EXCEPT
                   !.deadTimer = Less(@),
                   !.isAlive = Expired(Less(ghosts[i].deadTimer))]]
      /\ pc' = "check"
      /\ UNCHANGED <<map, lives, leaderboardSize, next>>
  BY DEF updateTimerState, changeGhostsBehaviour
<1>2. /\ TypeOK /\ WallsStand /\ TimersTick
      /\ pacman \in PacmanType /\ ghosts \in [Ghost -> GhostType]
  BY DEF IInv, TypeOK
<1>3. /\ pacman.isBoosted =>
           /\ Less(pacman.boostedTimer) \in 0 .. UINT - 1
           /\ ~ Expired(Less(pacman.boostedTimer)) =>
                 Less(pacman.boostedTimer) \in Ticks(BOOSTED_TIME)
      /\ ~ pacman.isAlive =>
           /\ Less(pacman.respawnTimer) \in 0 .. UINT - 1
           /\ ~ Expired(Less(pacman.respawnTimer)) =>
                 Less(pacman.respawnTimer) \in Ticks(RESPAWN_TIME)
      /\ \A i \in Ghost : ~ ghosts[i].isAlive =>
           /\ Less(ghosts[i].deadTimer) \in 0 .. UINT - 1
           /\ ~ Expired(Less(ghosts[i].deadTimer)) =>
                 Less(ghosts[i].deadTimer) \in Ticks(RESPAWN_TIME)
  BY <1>2, NumbersAssumption, Tick DEF TimersTick
<1>4. boostEnds \in BOOLEAN /\ respawns \in BOOLEAN
  BY <1>2 DEF PacmanType, Expired
<1>5. /\ pacman' \in PacmanType /\ pacman'.pos = pacman.pos
      /\ pacman'.isBoosted => pacman'.boostedTimer \in Ticks(BOOSTED_TIME)
      /\ ~ pacman'.isAlive => pacman'.respawnTimer \in Ticks(RESPAWN_TIME)
  <2>1. /\ pacman'.pos = pacman.pos
        /\ pacman'.isBoosted = (pacman.isBoosted /\ ~ boostEnds)
        /\ pacman'.boostedTimer = IF pacman.isBoosted
                                  THEN Less(pacman.boostedTimer)
                                  ELSE pacman.boostedTimer
        /\ pacman'.isAlive = (pacman.isAlive \/ respawns)
        /\ pacman'.respawnTimer = IF pacman.isAlive THEN pacman.respawnTimer
                                  ELSE Less(pacman.respawnTimer)
    BY <1>1, <1>2 DEF PacmanType
  <2>2. pacman' \in PacmanType
    BY <1>1, <1>2, <1>3, <1>4 DEF PacmanType
  <2> QED BY <1>2, <1>3, <2>1, <2>2
<1>6. \A i \in Ghost :
         /\ ghosts'[i] \in GhostType /\ ghosts'[i].pos = ghosts[i].pos
         /\ ~ ghosts'[i].isAlive => ghosts'[i].deadTimer \in Ticks(RESPAWN_TIME)
  <2> SUFFICES ASSUME NEW i \in Ghost
               PROVE  /\ ghosts'[i] \in GhostType
                      /\ ghosts'[i].pos = ghosts[i].pos
                      /\ ~ ghosts'[i].isAlive =>
                            ghosts'[i].deadTimer \in Ticks(RESPAWN_TIME)
    OBVIOUS
  <2>0. ghosts[i] \in GhostType
    BY <1>2
  <2>1. CASE ghosts[i].isAlive
    BY <1>1, <2>0, <2>1
  <2>2. CASE ~ ghosts[i].isAlive
    <3>1. ghosts'[i] = [ghosts[i] EXCEPT
                          !.deadTimer = Less(ghosts[i].deadTimer),
                          !.isAlive = Expired(Less(ghosts[i].deadTimer))]
      BY <1>1, <2>2
    <3>2. Expired(Less(ghosts[i].deadTimer)) \in BOOLEAN
      BY DEF Expired
    <3> QED BY <1>3, <2>0, <2>2, <3>1, <3>2 DEF GhostType
  <2> QED BY <2>1, <2>2
<1>7. TypeOK'
  <2>1. ghosts' \in [Ghost -> GhostType]
    BY <1>1, <1>6
  <2> QED BY <1>1, <1>2, <1>5, <2>1 DEF TypeOK
<1>8. WallsStand' /\ TimersTick'
  BY <1>1, <1>2, <1>5, <1>6 DEF WallsStand, TimersTick
<1> QED BY <1>1, <1>7, <1>8 DEF IInv

(* The steps that leave the board alone.                                   *)
LEMMA BoardUntouched ==
  ASSUME IInv, UNCHANGED <<map, pacman, ghosts>>
  PROVE  WallsStand' /\ TimersTick'
  BY DEF IInv, WallsStand, TimersTick

LEMMA NextKeeps == IInv /\ [Next]_vars => IInv'
<1> SUFFICES ASSUME IInv, [Next]_vars PROVE IInv'
  OBVIOUS
<1> USE NumbersAssumption
<1>1. CASE renderGameOver \/ nextFrame
  BY <1>1, BoardUntouched DEF IInv, TypeOK, renderGameOver, nextFrame, game
<1>2. CASE skipGhost \/ endOfGhosts
  BY <1>2, BoardUntouched DEF IInv, TypeOK, skipGhost, endOfGhosts, game
<1>3. CASE playerHasNoLife
  BY <1>3, BoardUntouched DEF IInv, TypeOK, playerHasNoLife, game
<1>4. CASE UNCHANGED vars
  BY <1>4, BoardUntouched DEF IInv, TypeOK, vars, game
<1> QED
  BY <1>1, <1>2, <1>3, <1>4, RoundKeeps, PacmanKeeps, GhostKeeps, TimersKeep
  DEF Next, stuckGhost, over

-----------------------------------------------------------------------------
(* Pellets.                                                                *)

OnMap   == {p \in Point : map[p] = "."}
Covered == {i \in Ghost : ghosts[i].tile = "."}

PelletSum ==
    /\ IsFiniteSet(OnMap) /\ Cardinality(OnMap) \in Nat
    /\ IsFiniteSet(Covered) /\ Cardinality(Covered) \in Nat
    /\ Pellets = Cardinality(OnMap) + Cardinality(Covered)

LEMMA PelletsCount == PelletSum
<1>1. IsFiniteSet(Point) /\ IsFiniteSet(Ghost)
  <2>1. 0 \in Int /\ NUM_GHOSTS - 1 \in Int
    BY NumbersAssumption
  <2>2. IsFiniteSet(Ghost)
    BY <2>1, FS_Interval DEF Ghost
  <2> QED BY <2>2, MazeAssumption
<1>2. IsFiniteSet(OnMap) /\ IsFiniteSet(Covered)
  BY <1>1, FS_Subset DEF OnMap, Covered
<1> QED BY <1>2, FS_CardinalityType DEF OnMap, Covered, Pellets, PelletSum

(* A ghost's step walks a pellet from under it to the map, and one from    *)
(* the map under it.                                                       *)
LEMMA GhostPellets ==
  ASSUME IInv, moveGhost
  PROVE  Pellets' <= Pellets
<1>1. TypeOK /\ next \in Ghost
  BY NumbersAssumption DEF IInv, moveGhost, TypeOK, Ghost
<1>2. PICK p \in GhostMoves(next) :
        /\ map' = [map EXCEPT ![ghosts[next].pos] = ghosts[next].tile,
                              ![p] = "G"]
        /\ ghosts' = [ghosts EXCEPT ![next].tile = TileUnder(next, p),
                                    ![next].pos = p]
  BY DEF moveGhost
<1> DEFINE from == ghosts[next].pos
<1>3. /\ ghosts \in [Ghost -> GhostType] /\ from \in Point
      /\ map \in [Point -> Tile]
  BY <1>1 DEF TypeOK, GhostType
<1>4. p \in Point
  BY <1>1, <1>3, StepOnBoard DEF GhostMoves, WallsStand, IInv
<1>5. p # from
  BY <1>1 DEF GhostMoves, isGhost
<1>6. \A q \in Point : map'[q] = IF q = p THEN "G"
                                 ELSE IF q = from THEN ghosts[next].tile
                                 ELSE map[q]
  BY <1>2, <1>3, <1>4, <1>5
<1>7. \A i \in Ghost : ghosts'[i].tile = IF i = next THEN TileUnder(next, p)
                                         ELSE ghosts[i].tile
  BY <1>1, <1>2, <1>3 DEF GhostType
<1>8. TileUnder(next, p) = "." <=> p \in OnMap
  BY <1>4 DEF TileUnder, OnMap
<1> DEFINE mid == OnMap \ {p}
<1>9. /\ OnMap' \subseteq mid \cup {from}
      /\ next \notin Covered => OnMap' \subseteq mid
  BY <1>3, <1>6, <1>1 DEF OnMap, Covered
<1>10. Covered' = IF p \in OnMap THEN Covered \cup {next}
                  ELSE Covered \ {next}
  BY <1>1, <1>7, <1>8 DEF Covered
<1>11. /\ IsFiniteSet(mid)
       /\ Cardinality(mid) = IF p \in OnMap THEN Cardinality(OnMap) - 1
                             ELSE Cardinality(OnMap)
  BY PelletsCount, FS_RemoveElement DEF PelletSum
<1>12. /\ IsFiniteSet(mid \cup {from})
       /\ Cardinality(mid \cup {from}) \in Nat
       /\ Cardinality(mid \cup {from}) <= Cardinality(mid) + 1
  <2>1. Cardinality(mid) \in Nat
    BY <1>11, FS_CardinalityType
  <2> QED BY <1>11, <2>1, FS_AddElement
<1>13. Cardinality(OnMap') <= Cardinality(mid)
                               + (IF next \in Covered THEN 1 ELSE 0)
  <2>1. Cardinality(OnMap') <= Cardinality(mid \cup {from})
    BY <1>9, <1>12, FS_Subset
  <2>2. next \notin Covered => Cardinality(OnMap') <= Cardinality(mid)
    BY <1>9, <1>11, FS_Subset
  <2>3. Cardinality(OnMap') \in Nat /\ Cardinality(mid) \in Nat
    <3>1. IsFiniteSet(OnMap')
      BY <1>9, <1>12, FS_Subset
    <3> QED BY <3>1, <1>11, FS_CardinalityType
  <2> QED BY <1>12, <2>1, <2>2, <2>3
<1>14. Cardinality(Covered') = Cardinality(Covered)
                               - (IF next \in Covered THEN 1 ELSE 0)
                               + (IF p \in OnMap THEN 1 ELSE 0)
  <2>1. /\ Cardinality(Covered \cup {next}) =
             IF next \in Covered THEN Cardinality(Covered)
             ELSE Cardinality(Covered) + 1
        /\ Cardinality(Covered \ {next}) =
             IF next \in Covered THEN Cardinality(Covered) - 1
             ELSE Cardinality(Covered)
        /\ Cardinality(Covered) \in Nat
    BY PelletsCount, FS_AddElement, FS_RemoveElement DEF PelletSum
  <2> QED BY <1>10, <2>1
<1>15. /\ Pellets = Cardinality(OnMap) + Cardinality(Covered)
       /\ Pellets' = Cardinality(OnMap') + Cardinality(Covered')
       /\ Cardinality(OnMap') \in Nat /\ Cardinality(Covered') \in Nat
  <2>1. PelletSum /\ PelletSum'
    BY PelletsCount, PTL
  <2> QED BY <2>1 DEF PelletSum
<1> QED BY <1>11, <1>13, <1>14, <1>15, PelletsCount DEF PelletSum

(* What the steps do that put nothing back on the map.                     *)
LEMMA NoNewPellets ==
  ASSUME OnMap' \subseteq OnMap, Covered' \subseteq Covered
  PROVE  Pellets' <= Pellets
<1>1. /\ Cardinality(OnMap') <= Cardinality(OnMap)
      /\ Cardinality(Covered') <= Cardinality(Covered)
  BY PelletsCount, FS_Subset DEF PelletSum
<1>2. /\ Pellets' = Cardinality(OnMap') + Cardinality(Covered')
      /\ Cardinality(OnMap') \in Nat /\ Cardinality(Covered') \in Nat
  <2>1. PelletSum'
    BY PelletsCount, PTL
  <2> QED BY <2>1 DEF PelletSum
<1> QED BY <1>1, <1>2, PelletsCount DEF PelletSum

LEMMA PacmanPellets ==
  ASSUME IInv, NEW d \in Direction, updatePacmanPosition(d)
  PROVE  Pellets' <= Pellets
<1>1. TypeOK
  BY DEF IInv
<1>2. OnMap' \subseteq OnMap
  BY <1>1 DEF updatePacmanPosition, OnMap, TypeOK
<1>3. Covered' \subseteq Covered
  BY <1>1 DEF updatePacmanPosition, Covered, TypeOK, GhostType
<1> QED BY <1>2, <1>3, NoNewPellets

LEMMA TimerPellets ==
  ASSUME IInv, updateTimerState
  PROVE  Pellets' <= Pellets
<1>1. TypeOK
  BY DEF IInv
<1>2. OnMap' \subseteq OnMap
  BY DEF updateTimerState, OnMap
<1>3. Covered' \subseteq Covered
  BY <1>1 DEF updateTimerState, Covered, TypeOK, GhostType
<1> QED BY <1>2, <1>3, NoNewPellets

LEMMA PelletStep ==
  ASSUME IInv, Next, ~ initializeRound
  PROVE  Pellets' <= Pellets
<1>1. CASE UNCHANGED <<map, ghosts>>
  <2>1. OnMap' \subseteq OnMap /\ Covered' \subseteq Covered
    BY <1>1 DEF OnMap, Covered
  <2> QED BY <2>1, NoNewPellets
<1> QED
  BY <1>1, PacmanPellets, GhostPellets, TimerPellets
  DEF Next, renderGameOver, stuckGhost, skipGhost, endOfGhosts,
      playerHasNoLife, nextFrame, over, vars, game

-----------------------------------------------------------------------------
LEMMA Inductive == Spec => []IInv
<1>1. Init => IInv
  BY TypesOfInit
<1>2. IInv /\ [Next]_vars => IInv'
  BY NextKeeps
<1> QED BY <1>1, <1>2, PTL DEF Spec

(* Every field of the game state keeps its range: positions on the board,  *)
(* unsigned timers, lives between 0 and NUM_LIVES, a leaderboard that is   *)
(* never written past its end (updateLeaderboard).                         *)
THEOREM PacmanTypes == Spec => []TypeOK
<1>1. IInv => TypeOK
  BY DEF IInv
<1> QED BY <1>1, Inductive, PTL

(* Whatever keys are pressed and directions drawn, no wall is erased or    *)
(* added and nobody stands in one (updatePacmanPosition,                   *)
(* updateGhostsPositions).                                                 *)
THEOREM WallsAlwaysStand == Spec => []WallsStand
<1>1. IInv => WallsStand
  BY DEF IInv
<1> QED BY <1>1, Inductive, PTL

(* No unsigned timer ever passes 0, so every boost ends and every dead     *)
(* ghost's countdown does too (updateTimerState).                          *)
THEOREM TimersNeverWrap == Spec => []TimersDoNotWrap
<1>1. IInv => TimersDoNotWrap
  BY DEF IInv, TimersTick, TimersDoNotWrap, Ticks
<1> QED BY <1>1, Inductive, PTL

(* No step within a round makes a pellet, although ghosts pick tiles up    *)
(* and put them back, die and come back (updateGhostsPositions).           *)
THEOREM PelletsOnlyEaten == Spec => PelletsNeverGrow
<1>1. IInv /\ [Next]_vars => [~ initializeRound => Pellets' <= Pellets]_vars
  BY PelletStep
<1> QED BY <1>1, Inductive, PTL DEF Spec, PelletsNeverGrow

-----------------------------------------------------------------------------
(* Loops: a recursive function over an interval is what its rounds say.    *)

(* Every nonempty set of naturals has a least element: induction, in the   *)
(* form that the provers can use.                                          *)
LEMMA LeastNat ==
  ASSUME NEW T \in SUBSET Nat, T # {}
  PROVE  \E n \in T : \A m \in T : n <= m
<1>1. PICK R : /\ IsWellFoundedOn(R, Nat)
               /\ \A x, y \in Nat : x < y => <<x, y>> \in R
  <2>1. \A x, y \in Nat : x < y => <<x, y>> \in OpToRel(<, Nat)
    BY DEF OpToRel
  <2>2. IsWellFoundedOn(OpToRel(<, Nat), Nat)
    BY NatLessThanWellFounded, Zenon
  <2> QED BY <2>1, <2>2, Zenon
<1>2. T \subseteq Nat
  OBVIOUS
<1>3. \E n \in T : \A m \in T : ~ (<<m, n>> \in R)
  <2>1. IsWellFoundedOn(R, Nat)
    BY <1>1, Zenon
  <2> QED BY <2>1, <1>2, WFMin
<1>4. PICK n \in T : \A m \in T : ~ (<<m, n>> \in R)
  BY <1>3
<1>5. ASSUME NEW m \in T PROVE ~ (m < n)
  BY <1>1, <1>2, <1>4, Zenon
<1>6. ASSUME NEW m \in T PROVE n <= m
  BY <1>2, <1>5
<1> QED BY <1>6

(* A set of rounds that holds the first and is closed under the next holds *)
(* every round.                                                            *)
LEMMA Rounds ==
  ASSUME NEW N \in Nat, NEW T, 0 \in T,
         \A i \in 1 .. N : i - 1 \in T => i \in T
  PROVE  \A i \in 0 .. N : i \in T
<1> DEFINE U == {i \in 0 .. N : i \notin T}
<1> SUFFICES ASSUME U # {} PROVE FALSE
  OBVIOUS
<1>1. U \in SUBSET Nat
  OBVIOUS
<1>2. PICK n \in U : \A m \in U : n <= m
  <2> HIDE DEF U
  <2> QED BY <1>1, LeastNat
<1>3. n \in 1 .. N /\ n - 1 \in 0 .. N /\ ~ (n <= n - 1)
  <2>1. n # 0 /\ n \in 0 .. N
    OBVIOUS
  <2> QED BY <2>1
<1>4. n - 1 \in T
  BY <1>2, <1>3
<1> QED BY <1>3, <1>4

IsLoop(g, N, x, F) ==
    g = [i \in 0 .. N |-> IF i = 0 THEN x ELSE F[i][g[i - 1]]]

(* A function that is defined round by round exists: the loops over task[] *)
(* are what their rounds say.                                              *)
LEMMA Loop ==
  ASSUME NEW S, NEW N \in Nat, NEW x \in S, NEW F \in [1 .. N -> [S -> S]]
  PROVE  \E g \in [0 .. N -> S] : IsLoop(g, N, x, F)
<1> DEFINE T == {n \in Nat : \E g \in [0 .. n -> S] : IsLoop(g, n, x, F)}
<1>1. 0 \in T
  <2> DEFINE g == [i \in 0 .. 0 |-> x]
  <2>1. g \in [0 .. 0 -> S]
    OBVIOUS
  <2>2. \A i \in 0 .. 0 : i = 0
    OBVIOUS
  <2>3. IsLoop(g, 0, x, F)
    BY <2>2 DEF IsLoop
  <2> QED BY <2>1, <2>3
<1>2. ASSUME NEW n \in 1 .. N, n - 1 \in T PROVE n \in T
  <2>1. PICK g \in [0 .. n - 1 -> S] : IsLoop(g, n - 1, x, F)
    BY <1>2
  <2>2. \A i \in 0 .. n - 1 : g[i] = IF i = 0 THEN x ELSE F[i][g[i - 1]]
    BY <2>1 DEF IsLoop
  <2> DEFINE y == F[n][g[n - 1]]
             f == [i \in 0 .. n |-> IF i = n THEN y ELSE g[i]]
  <2>3. F[n] \in [S -> S] /\ n - 1 \in 0 .. n - 1 /\ n \in Nat /\ n # 0
    OBVIOUS
  <2>4. y \in S
    BY <2>3
  <2>5. f \in [0 .. n -> S]
    <3> HIDE DEF y
    <3>1. \A i \in 0 .. n : i # n => i \in 0 .. n - 1
      BY <2>3
    <3> QED BY <2>4, <3>1
  <2>6. ASSUME NEW i \in 0 .. n PROVE f[i] = IF i = 0 THEN x ELSE F[i][f[i - 1]]
    <3>1. CASE i = n
      <4>1. f[i] = y /\ i # 0 /\ i - 1 \in 0 .. n /\ i - 1 # n
        BY <2>3, <3>1
      <4>2. f[i - 1] = g[n - 1]
        BY <3>1, <4>1
      <4> QED BY <3>1, <4>1, <4>2
    <3>2. CASE i # n
      <4>1. i \in 0 .. n - 1 /\ f[i] = g[i]
        BY <2>3, <3>2
      <4>2. CASE i = 0
        BY <2>2, <4>1, <4>2
      <4>3. CASE i # 0
        <5>1. i - 1 \in 0 .. n /\ i - 1 # n
          BY <2>3, <3>2, <4>3
        <5>2. f[i - 1] = g[i - 1]
          BY <5>1
        <5> QED BY <2>2, <4>1, <4>3, <5>2
      <4> QED BY <4>2, <4>3
    <3> QED BY <3>1, <3>2
  <2> HIDE DEF f
  <2>7. IsLoop(f, n, x, F)
    BY <2>5, <2>6 DEF IsLoop
  <2> QED BY <2>3, <2>5, <2>7
<1> HIDE DEF T
<1>3. \A i \in 0 .. N : i \in T
  BY <1>1, <1>2, Rounds
<1>4. N \in T
  BY <1>3
<1> QED BY <1>4 DEF T

-----------------------------------------------------------------------------
(* The moves of a search.                                                  *)

Once(s) == \A i, j \in 1 .. Len(s) : s[i] = s[j] => i = j

(* What is appended, and that nothing is repeated.                         *)
LEMMA ElementsAppend ==
  ASSUME NEW S, NEW s \in Seq(S), NEW x \in S
  PROVE  /\ Append(s, x) \in Seq(S)
         /\ ToSet(Append(s, x)) = ToSet(s) \cup {x}
         /\ Once(s) /\ x \notin ToSet(s) => Once(Append(s, x))
<1>1. /\ Append(s, x) \in Seq(S) /\ Len(Append(s, x)) = Len(s) + 1
      /\ \A i \in 1 .. Len(s) : Append(s, x)[i] = s[i]
      /\ Append(s, x)[Len(s) + 1] = x
  BY AppendProperties
<1>2. /\ Len(s) \in Nat /\ DOMAIN s = 1 .. Len(s)
      /\ DOMAIN Append(s, x) = 1 .. Len(s) + 1
  BY <1>1, LenProperties
<1>3. \A i \in 1 .. Len(s) + 1 : i \in 1 .. Len(s) \/ i = Len(s) + 1
  BY <1>2
<1>4. ToSet(Append(s, x)) = ToSet(s) \cup {x}
  BY <1>1, <1>2, <1>3 DEF ToSet
<1>5. ASSUME Once(s), x \notin ToSet(s) PROVE Once(Append(s, x))
  <2>1. \A i \in 1 .. Len(s) : s[i] # x
    BY <1>2, <1>5 DEF ToSet
  <2> QED BY <1>1, <1>2, <1>3, <1>5, <2>1 DEF Once
<1> QED BY <1>1, <1>4, <1>5

(* The loop over the four moves takes those that are in S, each once.      *)
LEMMA Among ==
  ASSUME NEW p \in Board, NEW S
  PROVE  /\ among(p, S) \in Seq(S) /\ Once(among(p, S))
         /\ ToSet(among(p, S)) = {m \in S : m \in ToSet(moves(p))}
<1> DEFINE taken[i \in 0 .. 4] ==
               IF i = 0 THEN <<>>
               ELSE IF moves(p)[i] \in S THEN Append(taken[i - 1], moves(p)[i])
               ELSE taken[i - 1]
<1>1. among(p, S) = taken[4]
  BY DEF among
<1> DEFINE m == moves(p)
           F == [i \in 1 .. 4 |-> [s \in Seq(S) |->
                   IF m[i] \in S THEN Append(s, m[i]) ELSE s]]
<1>2. taken = [i \in 0 .. 4 |->
               IF i = 0 THEN <<>>
               ELSE IF moves(p)[i] \in S THEN Append(taken[i - 1], moves(p)[i])
               ELSE taken[i - 1]]
  <2>1. F \in [1 .. 4 -> [Seq(S) -> Seq(S)]]
    BY ElementsAppend
  <2>2. <<>> \in Seq(S) /\ 4 \in Nat
    BY EmptySeq
  <2>3. PICK g \in [0 .. 4 -> Seq(S)] : IsLoop(g, 4, <<>>, F)
    <3> HIDE DEF F
    <3> QED BY <2>1, <2>2, Loop
  <2>4. ASSUME NEW i \in 0 .. 4, i # 0
        PROVE  F[i][g[i - 1]] = IF m[i] \in S THEN Append(g[i - 1], m[i]) ELSE g[i - 1]
    <3>1. i \in 1 .. 4 /\ i - 1 \in 0 .. 4
      BY <2>4
    <3> HIDE DEF m
    <3> QED BY <3>1
  <2>5. g = [i \in 0 .. 4 |-> IF i = 0 THEN <<>>
               ELSE IF moves(p)[i] \in S THEN Append(g[i - 1], moves(p)[i])
               ELSE g[i - 1]]
    <3>1. g = [i \in 0 .. 4 |-> IF i = 0 THEN <<>> ELSE F[i][g[i - 1]]]
      BY <2>3 DEF IsLoop
    <3> HIDE DEF F
    <3> QED BY <2>4, <3>1
  <2> QED BY <2>5
<1> HIDE DEF taken
<1>3. \A i \in 0 .. 4 : taken[i] \in Seq(S)
  <2> DEFINE T == {i \in 0 .. 4 : taken[i] \in Seq(S)}
  <2>1. 0 \in T
    BY <1>2, EmptySeq
  <2>2. ASSUME NEW i \in 1 .. 4, i - 1 \in T PROVE i \in T
    <3>1. i \in 0 .. 4 /\ i # 0
      OBVIOUS
    <3>2. taken[i] = IF m[i] \in S THEN Append(taken[i - 1], m[i]) ELSE taken[i - 1]
      BY <1>2, <3>1
    <3>3. taken[i - 1] \in Seq(S)
      BY <2>2
    <3>4. taken[i] \in Seq(S)
      <4> HIDE DEF m, F, T
      <4>1. m[i] \in S => Append(taken[i - 1], m[i]) \in Seq(S)
        BY <3>3, ElementsAppend
      <4> QED BY <3>2, <3>3, <4>1
    <3> QED BY <3>1, <3>4
  <2> HIDE DEF T
  <2>3. \A i \in 0 .. 4 : i \in T
    <3> DEFINE N == 4
    <3>1. N \in Nat /\ \A i \in 1 .. N : i - 1 \in T => i \in T
      BY <2>2
    <3> HIDE DEF N
    <3>2. \A i \in 0 .. N : i \in T
      BY <2>1, <3>1, Rounds
    <3> QED BY <3>2 DEF N
  <2> QED BY <2>3 DEF T
<1>4. ASSUME NEW i \in 1 .. 4
      PROVE  /\ ToSet(taken[i]) = ToSet(taken[i - 1]) \cup (S \cap {m[i]})
             /\ Once(taken[i - 1]) /\ m[i] \notin ToSet(taken[i - 1]) => Once(taken[i])
  <2>1. i \in 0 .. 4 /\ i # 0 /\ i - 1 \in 0 .. 4
    OBVIOUS
  <2>2. taken[i] = IF m[i] \in S THEN Append(taken[i - 1], m[i]) ELSE taken[i - 1]
    BY <1>2, <2>1
  <2>3. taken[i - 1] \in Seq(S)
    BY <1>3, <2>1
  <2> HIDE DEF m
  <2> QED BY <2>2, <2>3, ElementsAppend
<1>5. ToSet(taken[0]) = {} /\ Once(taken[0])
  <2>1. taken[0] = <<>>
    BY <1>2
  <2> QED BY <2>1 DEF ToSet, Once
<1>6. ToSet(taken[4]) = S \cap {m[1], m[2], m[3], m[4]} /\ Once(taken[4])
  <2>1. /\ ToSet(taken[1]) = ToSet(taken[0]) \cup (S \cap {m[1]})
        /\ ToSet(taken[2]) = ToSet(taken[1]) \cup (S \cap {m[2]})
        /\ ToSet(taken[3]) = ToSet(taken[2]) \cup (S \cap {m[3]})
        /\ ToSet(taken[4]) = ToSet(taken[3]) \cup (S \cap {m[4]})
        /\ Once(taken[0]) /\ m[1] \notin ToSet(taken[0]) => Once(taken[1])
        /\ Once(taken[1]) /\ m[2] \notin ToSet(taken[1]) => Once(taken[2])
        /\ Once(taken[2]) /\ m[3] \notin ToSet(taken[2]) => Once(taken[3])
        /\ Once(taken[3]) /\ m[4] \notin ToSet(taken[3]) => Once(taken[4])
    <3>1. /\ 1 \in 1 .. 4 /\ 2 \in 1 .. 4 /\ 3 \in 1 .. 4 /\ 4 \in 1 .. 4
          /\ 1 - 1 = 0 /\ 2 - 1 = 1 /\ 3 - 1 = 2 /\ 4 - 1 = 3
      OBVIOUS
    <3> HIDE DEF m
    <3> QED BY <1>4, <3>1
  <2>2. /\ m[1] # m[2] /\ m[1] # m[3] /\ m[1] # m[4]
        /\ m[2] # m[3] /\ m[2] # m[4] /\ m[3] # m[4]
    <3>1. p[1] \in Int /\ p[2] \in Int
      BY PathSearchAssumption DEF Board
    <3> QED BY <3>1 DEF moves
  <2> HIDE DEF m
  <2>3. ToSet(taken[4]) = S \cap {m[1], m[2], m[3], m[4]}
    BY <1>5, <2>1, Zenon
  <2>4. Once(taken[4])
    BY <1>5, <2>1, <2>2, Zenon
  <2> QED BY <2>3, <2>4
<1>7. ToSet(m) = {m[1], m[2], m[3], m[4]}
  BY DEF ToSet, moves
<1> HIDE DEF m
<1>8. ToSet(taken[4]) = {x \in S : x \in ToSet(m)}
  BY <1>6, <1>7
<1>9. taken[4] \in Seq(S)
  BY <1>3
<1> QED BY <1>1, <1>6, <1>8, <1>9 DEF m

-----------------------------------------------------------------------------
(* Balls and distances, in a maze with the walls w.                        *)

NearIn(w, p) == {q \in Board \ w : q \in ToSet(moves(p))}

Ball(w, a) ==
    LET ball[n \in 0 .. Size] ==
            IF n = 0 THEN {a}
            ELSE LET less == ball[n - 1]
                 IN  less \cup UNION {NearIn(w, q) : q \in less}
    IN  ball

Dist(w, a, b) == LET ball == Ball(w, a)
                 IN  CHOOSE n \in 0 .. Size : /\ b \in ball[n]
                                              /\ \A k \in 0 .. n - 1 :
                                                   b \notin ball[k]

(* The names of PathSearch, before and after a step.                       *)
LEMMA SameBalls ==
  /\ \A p : Near(p) = NearIn(walls, p)
  /\ \A p : Near(p)' = NearIn(walls', p')
  /\ Within(start) = Ball(walls, start)
  /\ Within(start)' = Ball(walls', start')
  /\ \A b : Distance(start, b) = Dist(walls, start, b)
<1>1. \A p : Near(p) = NearIn(walls, p)
  BY DEF Near, NearIn
<1>2. \A a : Within(a) = Ball(walls, a)
  BY DEF Within, Ball, Near, NearIn
<1>3. Within(start)' = Ball(walls', start')
  BY DEF Within, Ball, Near, NearIn
<1>4. \A b : Distance(start, b) = Dist(walls, start, b)
  BY DEF Within, Ball, Near, NearIn, Dist, Distance
<1> QED BY <1>1, <1>2, <1>3, <1>4 DEF Near, NearIn

(* The array of a search has a place.                                      *)
LEMMA SizeNat == Size \in Nat /\ Size >= 1
  BY PathSearchAssumption DEF Size

(* The equations of a ball; all of it is on the board.                     *)
LEMMA BallRounds ==
  ASSUME NEW w, NEW a \in Board
  PROVE  /\ Size \in Nat
         /\ Ball(w, a)[0] = {a}
         /\ \A n \in 1 .. Size : Ball(w, a)[n] = Ball(w, a)[n - 1]
               \cup UNION {NearIn(w, q) : q \in Ball(w, a)[n - 1]}
<1>1. Size \in Nat
  BY PathSearchAssumption DEF Size
<1> DEFINE ball[n \in 0 .. Size] ==
               IF n = 0 THEN {a}
               ELSE ball[n - 1] \cup UNION {NearIn(w, q) : q \in ball[n - 1]}
<1>2. Ball(w, a) = ball
  BY DEF Ball
<1>3. ball = [n \in 0 .. Size |-> IF n = 0 THEN {a}
               ELSE ball[n - 1] \cup UNION {NearIn(w, q) : q \in ball[n - 1]}]
  <2> DEFINE grow(s) == s \cup UNION {NearIn(w, q) : q \in s}
             F == [i \in 1 .. Size |-> [s \in SUBSET Board |-> grow(s)]]
  <2>1. F \in [1 .. Size -> [SUBSET Board -> SUBSET Board]]
    BY DEF NearIn
  <2>2. {a} \in SUBSET Board
    OBVIOUS
  <2>3. PICK g \in [0 .. Size -> SUBSET Board] : IsLoop(g, Size, {a}, F)
    <3> HIDE DEF F
    <3> QED BY <1>1, <2>1, <2>2, Loop
  <2>4. ASSUME NEW i \in 0 .. Size, i # 0 PROVE F[i][g[i - 1]] = grow(g[i - 1])
    <3>1. i \in 1 .. Size /\ i - 1 \in 0 .. Size
      BY <1>1, <2>4
    <3> HIDE DEF grow
    <3> QED BY <3>1
  <2>5. g = [n \in 0 .. Size |-> IF n = 0 THEN {a} ELSE grow(g[n - 1])]
    <3>1. g = [i \in 0 .. Size |-> IF i = 0 THEN {a} ELSE F[i][g[i - 1]]]
      BY <2>3 DEF IsLoop
    <3> HIDE DEF F, grow
    <3> QED BY <2>4, <3>1
  <2> QED BY <2>5
<1> HIDE DEF ball
<1>4. ball[0] = {a}
  BY <1>1, <1>3
<1>5. ASSUME NEW n \in 1 .. Size
      PROVE  ball[n] = ball[n - 1] \cup UNION {NearIn(w, q) : q \in ball[n - 1]}
  <2>1. n \in 0 .. Size /\ n # 0
    BY <1>1
  <2> QED BY <1>3, <2>1
<1> QED BY <1>1, <1>2, <1>4, <1>5

(* A larger ball holds a smaller one.                                      *)
LEMMA BallGrows ==
  ASSUME NEW w, NEW a \in Board, NEW n \in 0 .. Size, NEW m \in 0 .. n
  PROVE  Ball(w, a)[m] \subseteq Ball(w, a)[n]
<1> DEFINE b == Ball(w, a)
           T == {k \in 0 .. n - m : b[m] \subseteq b[m + k]}
<1>1. /\ Size \in Nat
      /\ \A k \in 1 .. Size : b[k - 1] \subseteq b[k]
  <2>1. /\ Size \in Nat
        /\ \A k \in 1 .. Size :
              b[k] = b[k - 1] \cup UNION {NearIn(w, q) : q \in b[k - 1]}
    BY BallRounds
  <2> QED BY <2>1
<1>2. n \in Nat /\ m \in Nat /\ m <= n /\ n <= Size /\ n - m \in Nat
  BY <1>1
<1> HIDE DEF b
<1>3. 0 \in T
  BY <1>2
<1>4. ASSUME NEW k \in 1 .. n - m, k - 1 \in T PROVE k \in T
  <2>1. m + k \in 1 .. Size /\ m + (k - 1) = (m + k) - 1 /\ k \in 0 .. n - m
    BY <1>1, <1>2
  <2>2. b[m] \subseteq b[(m + k) - 1]
    BY <1>4, <2>1
  <2> QED BY <1>1, <2>1, <2>2
<1> HIDE DEF T
<1>5. \A k \in 0 .. n - m : k \in T
  BY <1>2, <1>3, <1>4, Rounds
<1>6. n - m \in 0 .. n - m /\ m + (n - m) = n
  BY <1>2
<1>7. n - m \in T
  BY <1>5, <1>6
<1> QED BY <1>6, <1>7 DEF T, b

(* A point of a ball has a distance, at most the radius.                   *)
LEMMA DistFacts ==
  ASSUME NEW w, NEW a \in Board, NEW n \in 0 .. Size, NEW p \in Ball(w, a)[n]
  PROVE  /\ Dist(w, a, p) \in 0 .. n
         /\ p \in Ball(w, a)[Dist(w, a, p)]
         /\ \A k \in 0 .. Dist(w, a, p) - 1 : p \notin Ball(w, a)[k]
<1> DEFINE b == Ball(w, a)
           T == {k \in 0 .. Size : p \in b[k]}
           d == Dist(w, a, p)
<1>1. Size \in Nat
  BY BallRounds
<1>2. d = CHOOSE k \in 0 .. Size :
             p \in b[k] /\ \A j \in 0 .. k - 1 : p \notin b[j]
  BY DEF Dist
<1> HIDE DEF b, d
<1>3. PICK k \in T : \A j \in T : k <= j
  <2>1. T \in SUBSET Nat /\ n \in T
    BY <1>1 DEF b
  <2> HIDE DEF T
  <2> QED BY <2>1, LeastNat
<1>4. k \in 0 .. Size /\ p \in b[k] /\ \A j \in 0 .. k - 1 : p \notin b[j]
  <2>1. ASSUME NEW j \in 0 .. k - 1 PROVE p \notin b[j]
    <3>1. j \in 0 .. Size /\ ~ (k <= j)
      BY <1>1
    <3> QED BY <1>3, <3>1
  <2> QED BY <2>1
<1>5. d \in 0 .. Size /\ p \in b[d] /\ \A j \in 0 .. d - 1 : p \notin b[j]
  BY <1>2, <1>4
<1>6. d <= n
  <2> SUFFICES ASSUME ~ (d <= n) PROVE FALSE
    OBVIOUS
  <2>1. n \in 0 .. d - 1
    BY <1>1, <1>5
  <2> QED BY <1>5, <2>1 DEF b
<1>7. d \in 0 .. n
  BY <1>1, <1>5, <1>6
<1> QED BY <1>5, <1>7 DEF b, d

(* A neighbour is at most one step farther.                                *)
LEMMA NextBall ==
  ASSUME NEW w, NEW a \in Board, NEW n \in 0 .. Size - 1,
         NEW p \in Ball(w, a)[n], NEW q \in NearIn(w, p)
  PROVE  q \in Ball(w, a)[n + 1] /\ n + 1 \in 0 .. Size
<1> DEFINE b == Ball(w, a)
<1>1. Size \in Nat /\ \A k \in 1 .. Size :
        b[k] = b[k - 1] \cup UNION {NearIn(w, x) : x \in b[k - 1]}
  BY BallRounds
<1> HIDE DEF b
<1>2. n + 1 \in 1 .. Size /\ (n + 1) - 1 = n /\ n + 1 \in 0 .. Size
  BY <1>1
<1>3. b[n + 1] = b[n] \cup UNION {NearIn(w, x) : x \in b[n]}
  BY <1>1, <1>2
<1> QED BY <1>2, <1>3 DEF b

(* What is closed under steps and holds a holds the balls around it.       *)
LEMMA ClosedBall ==
  ASSUME NEW w, NEW a \in Board, NEW V, a \in V, NEW N \in 0 .. Size,
         \A n \in 0 .. N - 1 : \A p \in Ball(w, a)[n] :
            p \in V => NearIn(w, p) \subseteq V
  PROVE  Ball(w, a)[N] \subseteq V
<1> DEFINE b == Ball(w, a)
           T == {n \in 0 .. N : b[n] \subseteq V}
<1>1. Size \in Nat /\ b[0] = {a} /\ \A k \in 1 .. Size :
        b[k] = b[k - 1] \cup UNION {NearIn(w, x) : x \in b[k - 1]}
  BY BallRounds
<1>2. N \in Nat /\ N <= Size
  BY <1>1
<1>3. \A n \in 0 .. N - 1 : \A p \in b[n] : p \in V => NearIn(w, p) \subseteq V
  OBVIOUS
<1> HIDE DEF b
<1>4. 0 \in T
  BY <1>1, <1>2
<1>5. ASSUME NEW n \in 1 .. N, n - 1 \in T PROVE n \in T
  <2>1. n \in 1 .. Size /\ n \in 0 .. N /\ n - 1 \in 0 .. N - 1
    BY <1>1, <1>2
  <2>2. b[n] = b[n - 1] \cup UNION {NearIn(w, x) : x \in b[n - 1]}
    BY <1>1, <2>1
  <2>3. b[n - 1] \subseteq V
    BY <1>5
  <2>4. \A x \in b[n - 1] : NearIn(w, x) \subseteq V
    BY <1>3, <2>1, <2>3
  <2> QED BY <2>1, <2>2, <2>3, <2>4
<1> HIDE DEF T
<1>6. \A n \in 0 .. N : n \in T
  BY <1>2, <1>4, <1>5, Rounds
<1>7. N \in T
  BY <1>2, <1>6
<1> QED BY <1>7 DEF T, b

-----------------------------------------------------------------------------
(* The inductive invariant of bfs: a queue q of which the places before f  *)
(* have been expanded, and what the search from a for t in the maze w has  *)
(* visited and where it came from.                                         *)

Item == [position : Board, priority : {0}]

Far(w, a, q, i) == Dist(w, a, q[i].position)

(* The queue holds what is visited, each point once, and begins with a.    *)
Shape(a, q, f, v) ==
    /\ q \in Seq(Item) /\ Len(q) \in 1 .. Size /\ f \in 1 .. Len(q) + 1
    /\ q[1].position = a
    /\ \A i, j \in 1 .. Len(q) : q[i].position = q[j].position => i = j
    /\ v = {q[i].position : i \in 1 .. Len(q)}

(* What is visited was reached by one step from what is one step nearer.   *)
Tree(w, a, v, prev) ==
    /\ prev \in [Board -> Board \cup {None}] /\ prev[a] = None
    /\ \A x \in v \ {a} : /\ prev[x] \in v /\ x \in NearIn(w, prev[x])
                          /\ Dist(w, a, x) = Dist(w, a, prev[x]) + 1

(* The queue is sorted by distance, and what waits is of two distances.    *)
Levels(w, a, q, f) ==
    /\ \A i \in 1 .. Len(q) : /\ q[i].position \in Ball(w, a)[Size]
                              /\ Far(w, a, q, i) <= i - 1
    /\ \A i, j \in 1 .. Len(q) : i <= j => Far(w, a, q, i) <= Far(w, a, q, j)
    /\ \A i \in f .. Len(q) : Far(w, a, q, i) <= Far(w, a, q, f) + 1

(* All neighbours of what was taken from the queue have been visited.      *)
Expanded(w, t, q, f, v) ==
    \A i \in 1 .. f - 1 : /\ q[i].position # t
                          /\ NearIn(w, q[i].position) \subseteq v

Searching(w, a, t, q, f, v) == Levels(w, a, q, f) /\ Expanded(w, t, q, f, v)

BfsInv ==
    /\ Shape(start, queue, front, visited)
    /\ Tree(walls, start, visited, previous)
    /\ at = "search" => /\ Searching(walls, start, target, queue, front, visited)
                        /\ found = FALSE
    /\ at = "back" => /\ pos \in visited /\ found = TRUE
                      /\ target \in Ball(walls, start)[Size]
                      /\ pos = start => start = target
    /\ at = "done" => (found <=> target \in Ball(walls, start)[Size])

SearchInv ==
    /\ start \in Board /\ target \in Board
    /\ at \in {"search", "back", "done", "wild", "smashed"}
    /\ algorithm = "bfs" => /\ BfsInv
                            /\ at # "smashed"
                            /\ at = "wild" => start = target

-----------------------------------------------------------------------------
(* One iteration of bfs.                                                   *)

(* Distances in the queue are numbers below Size.                          *)
LEMMA FarFacts ==
  ASSUME NEW w, NEW a \in Board, NEW q, NEW f, NEW v,
         Shape(a, q, f, v), Levels(w, a, q, f), NEW i \in 1 .. Len(q)
  PROVE  /\ Far(w, a, q, i) \in 0 .. Size - 1
         /\ q[i].position \in Ball(w, a)[Far(w, a, q, i)]
         /\ q[i].position \in v /\ q[i].position \in Board
         /\ Size \in Nat /\ Len(q) \in Nat
<1>1. /\ Size \in Nat /\ Len(q) \in 1 .. Size /\ q \in Seq(Item)
      /\ v = {q[k].position : k \in 1 .. Len(q)}
  BY BallRounds DEF Shape
<1>2. q[i] \in Item
  BY <1>1, ElementOfSeq
<1>3. q[i].position \in Ball(w, a)[Size] /\ Far(w, a, q, i) <= i - 1
  BY DEF Levels
<1>4. Size \in 0 .. Size
  BY <1>1
<1>5. /\ Far(w, a, q, i) \in 0 .. Size
      /\ q[i].position \in Ball(w, a)[Far(w, a, q, i)]
  BY <1>3, <1>4, DistFacts DEF Far
<1>6. Far(w, a, q, i) \in 0 .. Size - 1
  BY <1>1, <1>3, <1>5
<1> QED BY <1>1, <1>2, <1>5, <1>6 DEF Item

(* What is not farther than the front of the queue has been visited.       *)
LEMMA NearerVisited ==
  ASSUME NEW w, NEW a \in Board, NEW t, NEW q, NEW f, NEW v,
         Shape(a, q, f, v), Searching(w, a, t, q, f, v), f <= Len(q)
  PROVE  Ball(w, a)[Far(w, a, q, f)] \subseteq v
<1> DEFINE N == Far(w, a, q, f)
<1>1. /\ Levels(w, a, q, f) /\ Expanded(w, t, q, f, v)
      /\ \A i, j \in 1 .. Len(q) : i <= j => Far(w, a, q, i) <= Far(w, a, q, j)
      /\ \A i \in 1 .. f - 1 : NearIn(w, q[i].position) \subseteq v
  BY DEF Searching, Levels, Expanded
<1>2. /\ f \in 1 .. Len(q) /\ Len(q) \in Nat /\ Len(q) >= 1
      /\ v = {q[i].position : i \in 1 .. Len(q)} /\ q[1].position = a
  BY LenProperties DEF Shape
<1>3. Size \in Nat /\ N \in 0 .. Size - 1
  BY <1>1, <1>2, FarFacts
<1>4. a \in v
  <2>1. 1 \in 1 .. Len(q)
    BY <1>2
  <2> QED BY <1>2, <2>1
<1>5. N \in 0 .. Size
  BY <1>3
<1> HIDE DEF N
<1>6. ASSUME NEW n \in 0 .. N - 1, NEW p \in Ball(w, a)[n], p \in v
      PROVE  NearIn(w, p) \subseteq v
  <2>1. n \in 0 .. Size
    BY <1>3
  <2>2. Dist(w, a, p) \in 0 .. n
    BY <2>1, DistFacts
  <2>3. PICK i \in 1 .. Len(q) : p = q[i].position
    BY <1>2, <1>6
  <2>4. Far(w, a, q, i) < N
    BY <1>3, <2>2, <2>3 DEF Far
  <2>5. ~ (f <= i)
    <3>1. f <= i => N <= Far(w, a, q, i)
      BY <1>1, <1>2 DEF N
    <3>2. Far(w, a, q, i) \in Int
      BY <2>2, <2>3 DEF Far
    <3> QED BY <1>3, <2>4, <3>1, <3>2
  <2>6. i \in 1 .. f - 1
    BY <1>2, <2>5
  <2> QED BY <1>1, <2>3, <2>6
<1>7. Ball(w, a)[N] \subseteq v
  BY <1>4, <1>5, <1>6, ClosedBall
<1> QED BY <1>7 DEF N

IsFarther(w, a, q, f, x) ==
    /\ x \in Board /\ x \in Ball(w, a)[Size]
    /\ Dist(w, a, x) = Far(w, a, q, f) + 1

(* A new neighbour of the front is one step farther than the front.        *)
LEMMA NewIsFarther ==
  ASSUME NEW w, NEW a \in Board, NEW t, NEW q, NEW f, NEW v,
         Shape(a, q, f, v), Searching(w, a, t, q, f, v), f <= Len(q),
         NEW x \in NearIn(w, q[f].position), x \notin v
  PROVE  IsFarther(w, a, q, f, x)
<1> DEFINE N == Far(w, a, q, f)
<1>1. f \in 1 .. Len(q) /\ Levels(w, a, q, f)
  BY LenProperties DEF Shape, Searching
<1>2. Size \in Nat /\ N \in 0 .. Size - 1 /\ q[f].position \in Ball(w, a)[N]
  BY <1>1, FarFacts
<1>3. x \notin Ball(w, a)[N]
  BY NearerVisited
<1> HIDE DEF N
<1>4. x \in Ball(w, a)[N + 1] /\ N + 1 \in 0 .. Size
  BY <1>2, NextBall
<1>5. /\ Dist(w, a, x) \in 0 .. N + 1
      /\ x \in Ball(w, a)[Dist(w, a, x)]
  BY <1>4, DistFacts
<1>6. Dist(w, a, x) = N + 1
  <2> SUFFICES ASSUME Dist(w, a, x) # N + 1 PROVE FALSE
    OBVIOUS
  <2>1. N \in 0 .. Size /\ Dist(w, a, x) \in 0 .. N
    BY <1>2, <1>5
  <2>2. Ball(w, a)[Dist(w, a, x)] \subseteq Ball(w, a)[N]
    BY <2>1, BallGrows
  <2> QED BY <1>3, <1>5, <2>2
<1>7. Ball(w, a)[N + 1] \subseteq Ball(w, a)[Size]
  <2>1. Size \in 0 .. Size /\ N + 1 \in 0 .. Size
    BY <1>2
  <2> QED BY <2>1, BallGrows
<1> QED BY <1>4, <1>6, <1>7 DEF N, NearIn, IsFarther

(* The places of a concatenation.                                          *)
IsJoined(S, r, s, u) ==
    /\ r \in Seq(S) /\ Len(r) = Len(s) + Len(u)
    /\ Len(s) \in Nat /\ Len(u) \in Nat
    /\ \A i \in 1 .. Len(s) : r[i] = s[i]
    /\ \A i \in 1 .. Len(u) : r[Len(s) + i] = u[i]
    /\ \A i \in Len(s) + 1 .. Len(r) :
         i - Len(s) \in 1 .. Len(u) /\ r[i] = u[i - Len(s)]

(* Each place of s \o u is one of s or one of u.                           *)
LEMMA Joined ==
  ASSUME NEW S, NEW s \in Seq(S), NEW u \in Seq(S)
  PROVE  IsJoined(S, s \o u, s, u)
<1>1. /\ Len(s) \in Nat /\ Len(u) \in Nat
      /\ s \o u \in Seq(S) /\ Len(s \o u) = Len(s) + Len(u)
      /\ \A i \in 1 .. Len(s) + Len(u) :
           (s \o u)[i] = IF i <= Len(s) THEN s[i] ELSE u[i - Len(s)]
  BY ConcatProperties, LenProperties
<1>2. ASSUME NEW i \in 1 .. Len(u) PROVE (s \o u)[Len(s) + i] = u[i]
  <2>1. /\ Len(s) + i \in 1 .. Len(s) + Len(u) /\ ~ (Len(s) + i <= Len(s))
        /\ (Len(s) + i) - Len(s) = i
    BY <1>1
  <2> QED BY <1>1, <2>1
<1>3. ASSUME NEW i \in 1 .. Len(s) PROVE (s \o u)[i] = s[i]
  <2>1. i \in 1 .. Len(s) + Len(u) /\ i <= Len(s)
    BY <1>1
  <2> QED BY <1>1, <2>1
<1>4. ASSUME NEW i \in Len(s) + 1 .. Len(s \o u)
      PROVE  i - Len(s) \in 1 .. Len(u) /\ (s \o u)[i] = u[i - Len(s)]
  <2>1. /\ i \in 1 .. Len(s) + Len(u) /\ ~ (i <= Len(s)) /\ i - Len(s) \in 1 .. Len(u)
    BY <1>1
  <2> QED BY <1>1, <2>1
<1> QED BY <1>1, <1>2, <1>3, <1>4 DEF IsJoined

(* What one iteration puts in the queue, without repetitions.              *)
Enqueues(w, q, f, v, new, r) ==
    /\ new \in Seq(Board) /\ ToSet(new) = NearIn(w, q[f].position) \ v
    /\ Once(new)
    /\ r = q \o [i \in DOMAIN new |-> Node(new[i], 0)]

(* The places of the queue after it: the old ones, and new points.         *)
Places(w, q, f, v, new, r) ==
    /\ r \in Seq(Item) /\ Len(q) \in Nat /\ Len(new) \in Nat
    /\ Len(r) = Len(q) + Len(new)
    /\ \A i \in 1 .. Len(q) : r[i] = q[i] /\ q[i].position \in v
    /\ \A i \in Len(q) + 1 .. Len(r) :
         /\ i - Len(q) \in 1 .. Len(new) /\ r[i].position = new[i - Len(q)]
         /\ r[i].position \in NearIn(w, q[f].position) \ v
    /\ v \cup ToSet(new) = {r[i].position : i \in 1 .. Len(r)}

(* The queue after an iteration has these places.                          *)
LEMMA NewPlaces ==
  ASSUME NEW w, NEW a \in Board, NEW q, NEW f, NEW v, NEW new, NEW r,
         Shape(a, q, f, v), Enqueues(w, q, f, v, new, r)
  PROVE  Places(w, q, f, v, new, r)
<1> DEFINE u == [i \in DOMAIN new |-> Node(new[i], 0)]
<1>1. /\ q \in Seq(Item) /\ new \in Seq(Board)
      /\ ToSet(new) = NearIn(w, q[f].position) \ v /\ r = q \o u
      /\ v = {q[i].position : i \in 1 .. Len(q)}
  BY DEF Shape, Enqueues
<1>2. Len(new) \in Nat /\ DOMAIN new = 1 .. Len(new)
      /\ \A i \in 1 .. Len(new) : new[i] \in Board
  BY <1>1, LenProperties, ElementOfSeq
<1>3. \A i \in 1 .. Len(new) : Node(new[i], 0) \in Item /\ u[i].position = new[i]
  BY <1>2 DEF Node, Item
<1>4. u \in Seq(Item) /\ Len(u) = Len(new)
  <2>1. u \in [1 .. Len(new) -> Item]
    BY <1>2, <1>3
  <2>2. DOMAIN u = 1 .. Len(new)
    BY <1>2
  <2> HIDE DEF u
  <2>3. u \in Seq(Item)
    BY <1>2, <2>1, SeqDef
  <2>4. Len(u) \in Nat /\ DOMAIN u = 1 .. Len(u)
    BY <2>3, LenProperties
  <2>5. Len(u) = Len(new)
    BY <1>2, <2>2, <2>3, LenProperties
  <2> QED BY <2>3, <2>5
<1> HIDE DEF u
<1>5. /\ r \in Seq(Item) /\ Len(q) \in Nat /\ Len(r) = Len(q) + Len(new)
      /\ \A i \in 1 .. Len(q) : r[i] = q[i]
      /\ \A i \in 1 .. Len(new) : r[Len(q) + i] = u[i]
      /\ \A i \in Len(q) + 1 .. Len(r) :
           i - Len(q) \in 1 .. Len(new) /\ r[i] = u[i - Len(q)]
  <2>1. IsJoined(Item, r, q, u)
    BY <1>1, <1>4, Joined, Zenon
  <2> QED BY <1>4, <2>1 DEF IsJoined
<1>6. ASSUME NEW i \in Len(q) + 1 .. Len(r)
      PROVE  /\ i - Len(q) \in 1 .. Len(new) /\ r[i].position = new[i - Len(q)]
             /\ r[i].position \in ToSet(new)
  <2>1. i - Len(q) \in 1 .. Len(new) /\ r[i].position = new[i - Len(q)]
    BY <1>3, <1>5
  <2> QED BY <1>2, <2>1 DEF ToSet
<1>7. v \cup ToSet(new) = {r[i].position : i \in 1 .. Len(r)}
  <2>1. ASSUME NEW x \in v PROVE x \in {r[i].position : i \in 1 .. Len(r)}
    <3>1. PICK i \in 1 .. Len(q) : x = q[i].position
      BY <1>1
    <3>2. i \in 1 .. Len(r)
      BY <1>2, <1>5
    <3> QED BY <1>5, <3>1, <3>2
  <2>2. ASSUME NEW x \in ToSet(new) PROVE x \in {r[i].position : i \in 1 .. Len(r)}
    <3>1. PICK i \in 1 .. Len(new) : x = new[i]
      BY <1>2 DEF ToSet
    <3>2. Len(q) + i \in 1 .. Len(r)
      BY <1>2, <1>5
    <3>3. r[Len(q) + i].position = x
      BY <1>3, <1>5, <3>1
    <3> QED BY <3>2, <3>3
  <2>3. ASSUME NEW i \in 1 .. Len(r) PROVE r[i].position \in v \cup ToSet(new)
    <3>1. i \in 1 .. Len(q) \/ i \in Len(q) + 1 .. Len(r)
      BY <1>2, <1>5
    <3> QED BY <1>1, <1>5, <1>6, <3>1
  <2> QED BY <2>1, <2>2, <2>3
<1> QED BY <1>1, <1>2, <1>5, <1>6, <1>7 DEF Places

(* A queue without repetitions fits in the array.                          *)
LEMMA Fits ==
  ASSUME NEW r \in Seq(Item),
         \A i, j \in 1 .. Len(r) : r[i].position = r[j].position => i = j
  PROVE  Len(r) <= Size
<1> DEFINE g == [i \in 1 .. Len(r) |-> r[i].position]
           X == 0 .. MAP_WIDTH - 1
           Y == 0 .. MAP_HEIGHT - 1
<1>1. Len(r) \in Nat /\ \A i \in 1 .. Len(r) : r[i].position \in Board
  <2>1. \A i \in 1 .. Len(r) : r[i] \in Item
    BY ElementOfSeq
  <2> QED BY <2>1, LenProperties DEF Item
<1>2. g \in Injection(1 .. Len(r), Board)
  BY <1>1 DEF Injection, IsInjective
<1>3. /\ IsFiniteSet(X) /\ Cardinality(X) = MAP_WIDTH
      /\ IsFiniteSet(Y) /\ Cardinality(Y) = MAP_HEIGHT
      /\ IsFiniteSet(1 .. Len(r)) /\ Cardinality(1 .. Len(r)) = Len(r)
  <2>1. MAP_WIDTH \in Nat \ {0} /\ MAP_HEIGHT \in Nat \ {0}
    BY PathSearchAssumption
  <2>2. \A n \in Nat : /\ IsFiniteSet(0 .. n - 1) /\ Cardinality(0 .. n - 1) = n
                       /\ IsFiniteSet(1 .. n) /\ Cardinality(1 .. n) = n
    BY FS_Interval
  <2> QED BY <1>1, <2>1, <2>2
<1> HIDE DEF X, Y, g
<1>4. IsFiniteSet(X \X Y) /\ Cardinality(X \X Y) = MAP_WIDTH * MAP_HEIGHT
  BY <1>3, FS_Product
<1>5. IsFiniteSet(Board) /\ Cardinality(Board) = Size
  BY <1>4 DEF X, Y, Board, Size
<1>6. Cardinality(1 .. Len(r)) <= Cardinality(Board)
  BY <1>2, <1>5, FS_Injection
<1> QED BY <1>3, <1>5, <1>6

(* The queue after an iteration: it fits.                                  *)
LEMMA ShapeKept ==
  ASSUME NEW w, NEW a \in Board, NEW q, NEW f, NEW v, NEW new, NEW r,
         Shape(a, q, f, v), Enqueues(w, q, f, v, new, r),
         f <= Len(q)
  PROVE  Shape(a, r, f + 1, v \cup ToSet(new))
<1>1. /\ r \in Seq(Item) /\ Len(q) \in Nat /\ Len(new) \in Nat
      /\ Len(r) = Len(q) + Len(new)
      /\ \A i \in 1 .. Len(q) : r[i] = q[i] /\ q[i].position \in v
      /\ \A i \in Len(q) + 1 .. Len(r) :
           /\ i - Len(q) \in 1 .. Len(new) /\ r[i].position = new[i - Len(q)]
           /\ r[i].position \notin v
      /\ v \cup ToSet(new) = {r[i].position : i \in 1 .. Len(r)}
  <2>1. Places(w, q, f, v, new, r)
    BY NewPlaces, Zenon
  <2> QED BY <2>1 DEF Places
<1>2. /\ Size \in Nat /\ Len(q) \in 1 .. Size /\ f \in 1 .. Len(q)
      /\ q[1].position = a
      /\ \A i, j \in 1 .. Len(q) : q[i].position = q[j].position => i = j
      /\ \A i, j \in 1 .. Len(new) : new[i] = new[j] => i = j
  BY <1>1, SizeNat DEF Shape, Enqueues, Once
<1>3. ASSUME NEW i \in 1 .. Len(r), NEW j \in 1 .. Len(r),
             r[i].position = r[j].position
      PROVE  i = j
  <2>1. /\ i \in 1 .. Len(q) \/ i \in Len(q) + 1 .. Len(r)
        /\ j \in 1 .. Len(q) \/ j \in Len(q) + 1 .. Len(r)
    BY <1>1
  <2>2. CASE i \in 1 .. Len(q) /\ j \in 1 .. Len(q)
    BY <1>1, <1>2, <1>3, <2>2
  <2>3. CASE i \in Len(q) + 1 .. Len(r) /\ j \in Len(q) + 1 .. Len(r)
    <3>1. i - Len(q) = j - Len(q)
      BY <1>1, <1>2, <1>3, <2>3
    <3> QED BY <1>1, <2>3, <3>1
  <2>4. CASE i \in 1 .. Len(q) /\ j \in Len(q) + 1 .. Len(r)
    BY <1>1, <1>3, <2>4
  <2>5. CASE i \in Len(q) + 1 .. Len(r) /\ j \in 1 .. Len(q)
    BY <1>1, <1>3, <2>5
  <2> QED BY <2>1, <2>2, <2>3, <2>4, <2>5
<1>4. Len(r) \in 1 .. Size /\ f + 1 \in 1 .. Len(r) + 1 /\ 1 \in 1 .. Len(q)
  <2>1. Len(r) <= Size
    BY <1>1, <1>3, Fits
  <2> QED BY <1>1, <1>2, <2>1
<1> QED BY <1>1, <1>2, <1>3, <1>4 DEF Shape

(* The way back from what was visited.                                     *)
LEMMA TreeKept ==
  ASSUME NEW w, NEW a \in Board, NEW t, NEW q, NEW f, NEW v, NEW new, NEW prev,
         Shape(a, q, f, v), Searching(w, a, t, q, f, v), f <= Len(q),
         ToSet(new) = NearIn(w, q[f].position) \ v, Tree(w, a, v, prev)
  PROVE  Tree(w, a, v \cup ToSet(new),
              [x \in Board |-> IF x \in ToSet(new) THEN q[f].position ELSE prev[x]])
<1> DEFINE p == q[f].position
           back == [x \in Board |-> IF x \in ToSet(new) THEN p ELSE prev[x]]
<1>1. /\ prev \in [Board -> Board \cup {None}] /\ prev[a] = None
      /\ \A x \in v \ {a} : /\ prev[x] \in v /\ x \in NearIn(w, prev[x])
                            /\ Dist(w, a, x) = Dist(w, a, prev[x]) + 1
  BY DEF Tree
<1>2. f \in 1 .. Len(q) /\ Levels(w, a, q, f) /\ 1 \in 1 .. Len(q) /\ q[1].position = a
  BY LenProperties DEF Shape, Searching
<1>3. p \in Board /\ p \in v /\ a \in v
  <2>1. p \in Board /\ p \in v
    BY <1>2, FarFacts
  <2>2. q[1].position \in v
    BY <1>2, FarFacts
  <2> QED BY <1>2, <2>1, <2>2
<1>4. ASSUME NEW x \in ToSet(new)
      PROVE  /\ x \in Board /\ x \in NearIn(w, p) /\ Dist(w, a, x) = Dist(w, a, p) + 1
             /\ back[x] = p
  <2>1. x \in NearIn(w, q[f].position) /\ x \notin v
    OBVIOUS
  <2>2. x \in Board /\ Dist(w, a, x) = Far(w, a, q, f) + 1
    <3>1. IsFarther(w, a, q, f, x)
      BY <2>1, NewIsFarther, Zenon
    <3> QED BY <3>1 DEF IsFarther
  <2> QED BY <2>1, <2>2 DEF Far
<1>5. \A x \in v : x \notin ToSet(new)
  OBVIOUS
<1>6. v \subseteq Board
  <2>1. q \in Seq(Item) /\ v = {q[i].position : i \in 1 .. Len(q)}
    BY DEF Shape
  <2>2. \A i \in 1 .. Len(q) : q[i] \in Item
    BY <2>1, ElementOfSeq
  <2> QED BY <2>1, <2>2 DEF Item
<1>7. back \in [Board -> Board \cup {None}] /\ back[a] = None
  BY <1>1, <1>3, <1>5
<1>8. \A x \in v \ {a} : back[x] = prev[x]
  BY <1>5, <1>6
<1> HIDE DEF p, back
<1>9. Tree(w, a, v \cup ToSet(new), back)
  BY <1>1, <1>3, <1>4, <1>7, <1>8 DEF Tree
<1> QED BY <1>9 DEF back, p

(* Distances in the queue, and what has been expanded.                     *)
LEMMA SearchingKept ==
  ASSUME NEW w, NEW a \in Board, NEW t, NEW q, NEW f, NEW v, NEW new, NEW r,
         Shape(a, q, f, v), Searching(w, a, t, q, f, v),
         Enqueues(w, q, f, v, new, r), f <= Len(q), q[f].position # t
  PROVE  Searching(w, a, t, r, f + 1, v \cup ToSet(new))
<1> DEFINE N == Far(w, a, q, f)
<1>1. /\ Len(q) \in Nat /\ Len(new) \in Nat /\ Len(r) = Len(q) + Len(new)
      /\ \A i \in 1 .. Len(q) : r[i] = q[i]
      /\ \A i \in Len(q) + 1 .. Len(r) :
           r[i].position \in NearIn(w, q[f].position) /\ r[i].position \notin v
  <2>1. Places(w, q, f, v, new, r)
    BY NewPlaces, Zenon
  <2> QED BY <2>1 DEF Places
<1>2. /\ Size \in Nat /\ Len(q) \in 1 .. Size /\ f \in 1 .. Len(q)
      /\ Levels(w, a, q, f) /\ Expanded(w, t, q, f, v)
      /\ ToSet(new) = NearIn(w, q[f].position) \ v
  BY <1>1, SizeNat DEF Shape, Searching, Enqueues
<1>3. ASSUME NEW i \in 1 .. Len(q)
      PROVE  /\ Far(w, a, r, i) = Far(w, a, q, i) /\ Far(w, a, q, i) \in Int
             /\ r[i].position \in Ball(w, a)[Size] /\ Far(w, a, r, i) <= i - 1
             /\ i <= f => Far(w, a, r, i) <= N
             /\ f <= i => N <= Far(w, a, r, i)
             /\ Far(w, a, r, i) <= N + 1
  <2>1. Far(w, a, r, i) = Far(w, a, q, i)
    BY <1>1 DEF Far
  <2>2. Far(w, a, q, i) \in Int /\ N \in Int
    <3>1. Far(w, a, q, i) \in 0 .. Size - 1
      BY <1>2, FarFacts
    <3>2. N \in 0 .. Size - 1
      BY <1>2, FarFacts
    <3> HIDE DEF N
    <3> QED BY <1>2, <3>1, <3>2
  <2>3. /\ r[i].position \in Ball(w, a)[Size] /\ Far(w, a, q, i) <= i - 1
        /\ i <= f => Far(w, a, q, i) <= N
        /\ f <= i => N <= Far(w, a, q, i)
        /\ i \in f .. Len(q) => Far(w, a, q, i) <= N + 1
    BY <1>1, <1>2 DEF Levels
  <2>4. i <= f \/ i \in f .. Len(q)
    BY <1>2
  <2> HIDE DEF N
  <2> QED BY <2>1, <2>2, <2>3, <2>4
<1>4. ASSUME NEW i \in Len(q) + 1 .. Len(r)
      PROVE  Far(w, a, r, i) = N + 1 /\ r[i].position \in Ball(w, a)[Size]
  <2>1. r[i].position \in NearIn(w, q[f].position) /\ r[i].position \notin v
    BY <1>1
  <2>2. IsFarther(w, a, q, f, r[i].position)
    BY <2>1, NewIsFarther, Zenon
  <2> QED BY <2>2 DEF IsFarther, Far
<1>5. N \in Int /\ N <= f - 1
  BY <1>2, <1>3
<1>6. \A i \in 1 .. Len(r) : i \in 1 .. Len(q) \/ i \in Len(q) + 1 .. Len(r)
  BY <1>1
<1> HIDE DEF N
<1>7. Levels(w, a, r, f + 1)
  <2>1. ASSUME NEW i \in 1 .. Len(r)
        PROVE  r[i].position \in Ball(w, a)[Size] /\ Far(w, a, r, i) <= i - 1
    <3>1. CASE i \in 1 .. Len(q)
      BY <1>3, <3>1
    <3>2. CASE i \in Len(q) + 1 .. Len(r)
      <4>1. N + 1 <= i - 1
        BY <1>1, <1>2, <1>5, <3>2
      <4> QED BY <1>4, <3>2, <4>1
    <3> QED BY <1>6, <3>1, <3>2
  <2>2. ASSUME NEW i \in 1 .. Len(r), NEW j \in 1 .. Len(r), i <= j
        PROVE  Far(w, a, r, i) <= Far(w, a, r, j)
    <3>1. CASE j \in 1 .. Len(q)
      <4>1. i \in 1 .. Len(q)
        BY <1>1, <2>2, <3>1
      <4>2. Far(w, a, q, i) <= Far(w, a, q, j)
        BY <1>2, <2>2, <3>1, <4>1 DEF Levels
      <4> QED BY <1>3, <3>1, <4>1, <4>2
    <3>2. CASE j \in Len(q) + 1 .. Len(r)
      <4>1. CASE i \in 1 .. Len(q)
        BY <1>3, <1>4, <3>2, <4>1
      <4>2. CASE i \in Len(q) + 1 .. Len(r)
        BY <1>4, <1>5, <3>2, <4>2
      <4> QED BY <1>6, <4>1, <4>2
    <3> QED BY <1>6, <3>1, <3>2
  <2>3. ASSUME NEW i \in f + 1 .. Len(r)
        PROVE  Far(w, a, r, i) <= Far(w, a, r, f + 1) + 1
    <3>1. i \in 1 .. Len(r) /\ f + 1 \in 1 .. Len(r) /\ f <= f + 1
      BY <1>1, <1>2
    <3>2. Far(w, a, r, i) <= N + 1 /\ Far(w, a, r, i) \in Int
      <4>1. CASE i \in 1 .. Len(q)
        BY <1>3, <4>1
      <4>2. CASE i \in Len(q) + 1 .. Len(r)
        BY <1>4, <1>5, <4>2
      <4> QED BY <1>6, <3>1, <4>1, <4>2
    <3>3. N <= Far(w, a, r, f + 1) /\ Far(w, a, r, f + 1) \in Int
      BY <1>3, <1>4, <1>5, <1>6, <3>1
    <3> QED BY <1>5, <3>2, <3>3
  <2> QED BY <2>1, <2>2, <2>3 DEF Levels
<1>8. Expanded(w, t, r, f + 1, v \cup ToSet(new))
  <2>1. ASSUME NEW i \in 1 .. (f + 1) - 1
        PROVE  /\ r[i].position # t
               /\ NearIn(w, r[i].position) \subseteq v \cup ToSet(new)
    <3>1. i \in 1 .. Len(q) /\ r[i] = q[i] /\ (i = f \/ i \in 1 .. f - 1)
      BY <1>1, <1>2
    <3>2. CASE i = f
      BY <1>2, <3>1, <3>2
    <3>3. CASE i \in 1 .. f - 1
      BY <1>2, <3>1, <3>3 DEF Expanded
    <3> QED BY <3>1, <3>2, <3>3
  <2> QED BY <2>1 DEF Expanded
<1> QED BY <1>7, <1>8 DEF Searching

(* An empty queue: all that can be reached was visited, the target not.    *)
LEMMA NothingLeft ==
  ASSUME NEW w, NEW a \in Board, NEW t, NEW q, NEW f, NEW v,
         Shape(a, q, f, v), Searching(w, a, t, q, f, v), ~ (f <= Len(q))
  PROVE  t \notin Ball(w, a)[Size]
<1>1. /\ Len(q) \in Nat /\ f = Len(q) + 1 /\ 1 \in 1 .. Len(q)
      /\ v = {q[i].position : i \in 1 .. Len(q)} /\ q[1].position = a
  <2>1. /\ q \in Seq(Item) /\ Len(q) \in 1 .. Size /\ f \in 1 .. Len(q) + 1
        /\ v = {q[i].position : i \in 1 .. Len(q)} /\ q[1].position = a
    BY DEF Shape
  <2>2. Len(q) \in Nat
    BY <2>1, LenProperties
  <2> QED BY <2>1, <2>2
<1>2. \A i \in 1 .. Len(q) : q[i].position # t /\ NearIn(w, q[i].position) \subseteq v
  <2>1. f - 1 = Len(q)
    BY <1>1
  <2> QED BY <2>1 DEF Searching, Expanded
<1>3. a \in v /\ t \notin v /\ \A p \in v : NearIn(w, p) \subseteq v
  BY <1>1, <1>2
<1>4. Size \in 0 .. Size
  BY SizeNat
<1>5. Ball(w, a)[Size] \subseteq v
  BY <1>3, <1>4, ClosedBall
<1> QED BY <1>3, <1>5

-----------------------------------------------------------------------------
(* The steps.                                                              *)

(* The invariant holds when a search begins.                               *)
LEMMA InvOfInit == SearchInit => SearchInv
<1> SUFFICES ASSUME SearchInit PROVE SearchInv
  OBVIOUS
<1>1. /\ start \in Board /\ target \in Board /\ at = "search" /\ front = 1
      /\ queue = <<Node(start, 0)>> /\ found = FALSE
      /\ previous = [p \in Board |-> None]
      /\ algorithm = "bfs" => visited = {start}
  BY PathSearchAssumption DEF SearchInit
<1>2. ASSUME algorithm = "bfs" PROVE BfsInv
  <2>1. /\ queue \in Seq(Item) /\ Len(queue) = 1 /\ queue[1].position = start
        /\ visited = {start}
    BY <1>1, <1>2 DEF Node, Item
  <2>2. \A i \in 1 .. 1 : i = 1
    OBVIOUS
  <2>3. Shape(start, queue, front, visited)
    BY <1>1, <2>1, <2>2, SizeNat DEF Shape
  <2>4. Tree(walls, start, visited, previous)
    BY <1>1, <2>1 DEF Tree
  <2>5. /\ start \in Ball(walls, start)[Size] /\ Dist(walls, start, start) = 0
    <3>1. start \in Ball(walls, start)[0] /\ 0 \in 0 .. Size /\ Size \in 0 .. Size
      BY <1>1, BallRounds, SizeNat
    <3>2. Ball(walls, start)[0] \subseteq Ball(walls, start)[Size]
      BY <1>1, <3>1, BallGrows
    <3>3. Dist(walls, start, start) \in 0 .. 0
      BY <1>1, <3>1, DistFacts
    <3> QED BY <3>1, <3>2, <3>3
  <2>6. Searching(walls, start, target, queue, front, visited)
    BY <1>1, <2>1, <2>2, <2>5 DEF Searching, Levels, Expanded, Far
  <2> QED BY <1>1, <2>3, <2>4, <2>6 DEF BfsInv
<1> QED BY <1>1, <1>2 DEF SearchInv

(* An iteration of bfs keeps it: the target is met, or the queue grows.    *)
LEMMA BfsKeeps ==
  ASSUME SearchInv, bfs
  PROVE  SearchInv'
<1>1. /\ algorithm = "bfs" /\ at = "search" /\ front <= Len(queue)
      /\ algorithm' = algorithm /\ walls' = walls /\ start' = start /\ target' = target
      /\ front' = front + 1 /\ start \in Board /\ target \in Board
      /\ found = FALSE
      /\ Shape(start, queue, front, visited)
      /\ Tree(walls, start, visited, previous)
      /\ Searching(walls, start, target, queue, front, visited)
  BY DEF bfs, input, SearchInv, BfsInv
<1> DEFINE p   == queue[front].position
           new == among(p, {m \in Board : isValidMove(m) /\ m \notin visited})
           r   == queue \o [i \in DOMAIN new |-> Node(new[i], 0)]
<1>2. \/ arrives(p) /\ UNCHANGED <<queue, dir>>
      \/ /\ p # target /\ goesOn(r) /\ visited' = visited \cup ToSet(new)
         /\ previous' = [q \in Board |-> IF q \in ToSet(new) THEN p ELSE previous[q]]
  BY DEF bfs, Taken, Marked
<1>3. /\ front \in 1 .. Len(queue) /\ p \in Board /\ p \in visited
      /\ p \in Ball(walls, start)[Size]
  <2>1. front \in 1 .. Len(queue) /\ Levels(walls, start, queue, front)
    BY <1>1, LenProperties DEF Shape, Searching
  <2>2. p \in Board /\ p \in visited
    BY <1>1, <2>1, FarFacts
  <2>3. p \in Ball(walls, start)[Size]
    BY <2>1 DEF Levels
  <2> QED BY <2>1, <2>2, <2>3
<1>4. CASE arrives(p) /\ UNCHANGED <<queue, dir>>
  <2>1. /\ p = target /\ at' = "back" /\ pos' = p /\ found' = TRUE
        /\ visited' = visited /\ previous' = previous /\ queue' = queue
    BY <1>4 DEF arrives
  <2>2. Shape(start, queue, front + 1, visited)
    BY <1>1, <1>3, LenProperties DEF Shape
  <2>3. BfsInv'
    BY <1>1, <1>3, <2>1, <2>2 DEF BfsInv
  <2> QED BY <1>1, <2>1, <2>3 DEF SearchInv
<1>5. CASE /\ p # target /\ goesOn(r) /\ visited' = visited \cup ToSet(new)
           /\ previous' = [q \in Board |-> IF q \in ToSet(new) THEN p ELSE previous[q]]
  <2>1. Enqueues(walls, queue, front, visited, new, r)
    <3> DEFINE S == {m \in Board : isValidMove(m) /\ m \notin visited}
    <3>1. /\ new \in Seq(S) /\ Once(new)
          /\ ToSet(new) = {m \in S : m \in ToSet(moves(p))}
      BY <1>3, Among
    <3>2. ToSet(new) = NearIn(walls, p) \ visited
      BY <3>1 DEF NearIn, isValidMove
    <3>3. new \in Seq(Board)
      <4>1. S \subseteq Board
        OBVIOUS
      <4> HIDE DEF S, new
      <4> QED BY <3>1, <4>1, SeqDef
    <3> HIDE DEF new
    <3> QED BY <3>1, <3>2, <3>3 DEF Enqueues
  <2> HIDE DEF new, r
  <2>2. Shape(start, r, front + 1, visited \cup ToSet(new))
    BY <1>1, <2>1, ShapeKept
  <2>3. Searching(walls, start, target, r, front + 1, visited \cup ToSet(new))
    BY <1>1, <1>5, <2>1, SearchingKept DEF p
  <2>4. Tree(walls, start, visited \cup ToSet(new),
             [x \in Board |-> IF x \in ToSet(new) THEN queue[front].position
                              ELSE previous[x]])
    <3>1. ToSet(new) = NearIn(walls, queue[front].position) \ visited
      BY <2>1 DEF Enqueues
    <3> QED BY <1>1, <3>1, TreeKept
  <2>5. Tree(walls', start', visited', previous')
    BY <1>1, <1>5, <2>4 DEF p
  <2>6. /\ at' = "search" /\ queue' = r /\ found' = found
    <3>1. Len(r) \in 1 .. Size
      BY <2>2 DEF Shape
    <3>2. ~ (Len(r) > Size)
      BY <3>1, SizeNat
    <3>3. goesOn(r)
      BY <1>5, Zenon
    <3> QED BY <3>2, <3>3 DEF goesOn
  <2>7. BfsInv'
    BY <1>1, <1>5, <2>2, <2>3, <2>5, <2>6 DEF BfsInv
  <2> QED BY <1>1, <2>6, <2>7 DEF SearchInv
<1> QED BY <1>2, <1>4, <1>5

(* What was visited is on the board.                                       *)
LEMMA VisitedOnBoard ==
  ASSUME NEW a, NEW q, NEW f, NEW v, Shape(a, q, f, v)
  PROVE  v \subseteq Board
<1>1. q \in Seq(Item) /\ v = {q[i].position : i \in 1 .. Len(q)}
  BY DEF Shape
<1>2. \A i \in 1 .. Len(q) : q[i] \in Item
  BY <1>1, ElementOfSeq
<1> QED BY <1>1, <1>2 DEF Item

(* A step of the way back stays in what was visited.                       *)
LEMMA BackKeeps ==
  ASSUME SearchInv, backtrack, algorithm = "bfs"
  PROVE  SearchInv'
<1>1. /\ at = "back" /\ start \in Board /\ target \in Board
      /\ UNCHANGED <<algorithm, walls, start, target, queue, front, visited,
                     previous, found>>
  BY DEF backtrack, input, SearchInv
<1>2. /\ BfsInv /\ pos \in visited /\ found = TRUE
      /\ target \in Ball(walls, start)[Size] /\ (pos = start => start = target)
      /\ Shape(start, queue, front, visited) /\ Tree(walls, start, visited, previous)
  BY <1>1 DEF SearchInv, BfsInv
<1>3. /\ Shape(start', queue', front', visited') /\ Tree(walls', start', visited', previous')
      /\ Ball(walls', start') = Ball(walls, start)
  BY <1>1, <1>2
<1>4. pos # start => previous[pos] \in visited /\ previous[pos] # None
  <2>1. /\ \A x \in visited \ {start} : previous[x] \in visited
        /\ visited \subseteq Board
    BY <1>2, VisitedOnBoard DEF Tree
  <2>2. None \notin Board
    BY PathSearchAssumption DEF None, Board
  <2> QED BY <1>2, <2>1, <2>2
<1>5. CASE previous[pos] = None /\ at' = "wild"
  <2>1. start = target
    BY <1>2, <1>4, <1>5
  <2> QED BY <1>1, <1>2, <1>3, <1>5, <2>1 DEF SearchInv, BfsInv
<1>6. CASE previous[pos] = start /\ at' = "done"
  BY <1>1, <1>2, <1>3, <1>6 DEF SearchInv, BfsInv
<1>7. CASE previous[pos] \notin {None, start} /\ pos' = previous[pos] /\ at' = at
  <2>1. pos # start
    BY <1>2, <1>7 DEF Tree
  <2>2. pos' \in visited /\ pos' # start
    BY <1>4, <1>7, <2>1
  <2> QED BY <1>1, <1>2, <1>3, <1>7, <2>2 DEF SearchInv, BfsInv
<1> QED BY <1>5, <1>6, <1>7 DEF backtrack

(* Giving up is right.                                                     *)
LEMMA GiveUpKeeps ==
  ASSUME SearchInv, algorithm = "bfs", gives_up(front <= Len(queue))
  PROVE  SearchInv'
<1>1. /\ at = "search" /\ at' = "done" /\ ~ (front <= Len(queue))
      /\ UNCHANGED <<algorithm, walls, start, target, queue, front, visited,
                     previous, found>>
  BY DEF gives_up, input
<1>2. /\ start \in Board /\ target \in Board /\ found = FALSE
      /\ Shape(start, queue, front, visited) /\ Tree(walls, start, visited, previous)
      /\ Searching(walls, start, target, queue, front, visited)
  BY <1>1 DEF SearchInv, BfsInv
<1>3. target \notin Ball(walls, start)[Size]
  BY <1>1, <1>2, NothingLeft
<1> QED BY <1>1, <1>2, <1>3 DEF SearchInv, BfsInv

(* Every step keeps the invariant.                                         *)
LEMMA StepKeeps ==
  ASSUME SearchInv, [SearchNext]_searchVars
  PROVE  SearchInv'
<1>1. CASE UNCHANGED searchVars
  BY <1>1 DEF searchVars, input, SearchInv, BfsInv
<1>2. CASE bfs
  BY <1>2, BfsKeeps
<1>3. CASE algorithm = "bfs" /\ backtrack
  BY <1>3, BackKeeps
<1>4. CASE /\ algorithm = "bfs"
           /\ gives_up(IF algorithm = "dfs" THEN queue # <<>> ELSE front <= Len(queue))
  <2>1. gives_up(front <= Len(queue))
    BY <1>4 DEF gives_up
  <2> QED BY <1>4, <2>1, GiveUpKeeps
<1>5. CASE algorithm # "bfs" /\ ~ UNCHANGED searchVars
  <2>1. UNCHANGED input /\ at' \in {"search", "back", "done", "wild", "smashed"}
    <3>1. CASE dfs
      BY <3>1 DEF dfs, arrives, goesOn
    <3>2. CASE dijkstra
      BY <3>2 DEF dijkstra, arrives, goesOn
    <3>3. CASE backtrack
      BY <3>3 DEF backtrack
    <3>4. CASE gives_up(IF algorithm = "dfs" THEN queue # <<>> ELSE front <= Len(queue))
      BY <3>4 DEF gives_up
    <3> QED BY <1>5, <3>1, <3>2, <3>3, <3>4 DEF SearchNext, bfs, returned
  <2> QED BY <1>5, <2>1 DEF SearchInv, input
<1> QED BY <1>1, <1>2, <1>3, <1>4, <1>5 DEF SearchNext, dfs, dijkstra, returned

-----------------------------------------------------------------------------
(* bfs finds the target exactly when there is a way to it, in every maze,  *)
(* and its way back along previous is a shortest one.                      *)
THEOREM BfsAlwaysRight == SearchSpec => []BfsRight
<1>1. SearchInv => BfsRight
  <2> SUFFICES ASSUME SearchInv, algorithm = "bfs" PROVE BfsRight
    BY DEF BfsRight, BfsComplete, BfsShortest
  <2>1. BfsInv
    BY DEF SearchInv
  <2>2. /\ Within(start) = Ball(walls, start) /\ \A p : Near(p) = NearIn(walls, p)
        /\ \A b : Distance(start, b) = Dist(walls, start, b)
    BY SameBalls
  <2>3. BfsComplete
    BY <2>1, <2>2 DEF BfsComplete, Reachable, BfsInv
  <2>4. ASSUME at = "back", previous[pos] # None
        PROVE  /\ pos \in NearIn(walls, previous[pos])
               /\ Dist(walls, start, pos) = Dist(walls, start, previous[pos]) + 1
    BY <2>1, <2>4 DEF BfsInv, Tree
  <2>5. BfsShortest
    BY <2>2, <2>4 DEF BfsShortest
  <2> QED BY <2>3, <2>5 DEF BfsRight
<1> QED BY <1>1, InvOfInit, StepKeeps, PTL DEF SearchSpec

BfsStaysInside ==
    algorithm = "bfs" => at # "smashed" /\ (at = "wild" => start = target)

(* bfs never writes behind its array of MAP_HEIGHT * MAP_WIDTH places, and *)
(* reads an element of previous that was never written only when the       *)
(* search begins at its target.                                            *)
THEOREM BfsAlwaysInside == SearchSpec => []BfsStaysInside
<1>1. SearchInv => BfsStaysInside
  BY DEF SearchInv, BfsStaysInside
<1> QED BY <1>1, InvOfInit, StepKeeps, PTL DEF SearchSpec

-----------------------------------------------------------------------------
(* The screen: rows, columns and cells.                                    *)

Cells == 0 .. SCREEN_ROWS * SCREEN_COLUMNS - 1

(* Cursors on the screen, and a screen with the values V.                  *)
Screens(V) == [x : 0 .. SCREEN_COLUMNS - 1, y : 0 .. SCREEN_ROWS - 1,
               screen : [Cells -> V]]

CellOf(s) == s.y * SCREEN_COLUMNS + s.x

(* A quotient is what its remainder leaves.                                *)
LEMMA Divided ==
  ASSUME NEW n \in Nat, n > 0, NEW q \in Nat, NEW r \in 0 .. n - 1
  PROVE  (q * n + r) \div n = q
<1> DEFINE a == q * n + r
           d == a \div n
<1>1. a \in Nat /\ a >= q * n /\ a < (q + 1) * n
  OBVIOUS
<1>2. d \in Int /\ n * d <= a /\ a < n * d + n
  <2> HIDE DEF a
  <2> QED BY <1>1
<1> HIDE DEF a, d
<1>3. ASSUME d < q PROVE FALSE
  <2>1. (d + 1) * n <= q * n
    BY <1>2, <1>3
  <2> QED BY <1>1, <1>2, <2>1
<1>4. ASSUME d > q PROVE FALSE
  <2>1. (q + 1) * n <= d * n
    BY <1>2, <1>4
  <2> QED BY <1>1, <1>2, <2>1
<1>5. d = q
  BY <1>2, <1>3, <1>4
<1> QED BY <1>5 DEF a, d

(* A cursor on the screen is in a cell, the cells of a row are consecutive *)
(* and the last row is followed by the first.                              *)
LEMMA CellArithmetic ==
  ASSUME NEW w \in Nat, w > 0, NEW h \in Nat, h > 0,
         NEW x \in 0 .. w - 1, NEW y \in 0 .. h - 1
  PROVE  /\ y * w + x \in 0 .. h * w - 1 /\ h * w \in Nat /\ h * w > 0
         /\ (((y * w + x) \div w + 1) * w) % (h * w) = ((y + 1) % h) * w
         /\ x + 1 >= w => (y * w + x + 1) % (h * w) = ((y + 1) % h) * w
         /\ ~ (x + 1 >= w) => (y * w + x + 1) % (h * w) = y * w + (x + 1)
<1>1. h * w \in Nat /\ h * w > 0 /\ y * w \in Nat
  OBVIOUS
<1>2. (y + 1) * w <= h * w
  OBVIOUS
<1>3. (y + 1) * w = y * w + w
  OBVIOUS
<1>4. y * w + x \in 0 .. h * w - 1
  BY <1>1, <1>2, <1>3
<1>5. (y * w + x) \div w = y
  BY Divided
<1>6. ((y + 1) * w) % (h * w) = ((y + 1) % h) * w
  <2>1. CASE y + 1 = h
    <3>1. (y + 1) % h = 0
      BY <2>1
    <3>2. (h * w) % (h * w) = 0
      BY <1>1
    <3> QED BY <2>1, <3>1, <3>2
  <2>2. CASE y + 1 # h
    <3>1. (y + 1) % h = y + 1
      BY <2>2
    <3>2. (y + 2) * w <= h * w /\ (y + 2) * w = (y + 1) * w + w
      BY <2>2
    <3>3. (y + 1) * w \in 0 .. h * w - 1
      BY <1>1, <1>3, <3>2
    <3>4. ((y + 1) * w) % (h * w) = (y + 1) * w
      BY <1>1, <3>3
    <3> QED BY <3>1, <3>4
  <2> QED BY <2>1, <2>2
<1>7. ASSUME x + 1 >= w PROVE (y * w + x + 1) % (h * w) = ((y + 1) % h) * w
  <2>1. y * w + x + 1 = (y + 1) * w
    BY <1>1, <1>3, <1>7
  <2> QED BY <1>6, <2>1
<1>8. ASSUME ~ (x + 1 >= w) PROVE (y * w + x + 1) % (h * w) = y * w + (x + 1)
  <2>1. y * w + x + 1 \in 0 .. h * w - 1
    BY <1>1, <1>2, <1>3, <1>8
  <2> QED BY <1>1, <2>1
<1> QED BY <1>1, <1>4, <1>5, <1>6, <1>7, <1>8

-----------------------------------------------------------------------------
(* Characters and texts.                                                   *)

Colours == <<fg_color, bg_color>>

(* The values of a screen on which the characters C are printed.           *)
Shows(V, C) == \A c \in C : <<c, Colours>> \in V

(* A character leaves the cursor on the screen.                            *)
LEMMA PrintcKeeps ==
  ASSUME NEW V, NEW C, Shows(V, C), NEW s \in Screens(V), NEW c \in C
  PROVE  printc(s, c) \in Screens(V)
<1>1. /\ SCREEN_COLUMNS \in Nat /\ SCREEN_COLUMNS > 0
      /\ SCREEN_ROWS \in Nat /\ SCREEN_ROWS > 0
  BY ConsoleAssumption
<1>2. /\ s.x \in 0 .. SCREEN_COLUMNS - 1 /\ s.y \in 0 .. SCREEN_ROWS - 1
      /\ s.screen \in [Cells -> V] /\ s = [x |-> s.x, y |-> s.y, screen |-> s.screen]
  BY DEF Screens
<1>3. Below(s.y) \in 0 .. SCREEN_ROWS - 1 /\ 0 \in 0 .. SCREEN_COLUMNS - 1
  BY <1>1, <1>2 DEF Below
<1>4. CASE c = NewLine
  <2>1. printc(s, c) = [x |-> 0, y |-> Below(s.y), screen |-> s.screen]
    BY <1>2, <1>4 DEF printc
  <2> QED BY <1>2, <1>3, <2>1 DEF Screens
<1>5. CASE c # NewLine
  <2> DEFINE last == s.x + 1 >= SCREEN_COLUMNS
             u == IF last THEN 0 ELSE s.x + 1
             v == IF last THEN Below(s.y) ELSE s.y
             z == [s.screen EXCEPT ![s.y * SCREEN_COLUMNS + s.x] = <<c, Colours>>]
  <2>1. printc(s, c) = [x |-> u, y |-> v, screen |-> z]
    BY <1>5 DEF printc, Colours
  <2>2. u \in 0 .. SCREEN_COLUMNS - 1 /\ v \in 0 .. SCREEN_ROWS - 1
    BY <1>1, <1>2, <1>3
  <2>3. z \in [Cells -> V]
    BY <1>2 DEF Shows
  <2> HIDE DEF u, v, z
  <2> QED BY <2>1, <2>2, <2>3 DEF Screens
<1> QED BY <1>4, <1>5

(* h[i] is the screen after i characters of b.                             *)
Follows(h, s, b) ==
    h[0] = s /\ \A i \in 1 .. Len(b) : h[i] = printc(h[i - 1], b[i])

Prints(V, h, s, b) ==
    h \in [0 .. Len(b) -> Screens(V)] /\ Follows(h, s, b)

(* Only one sequence of screens is printed.                                *)
LEMMA PrintsOnce ==
  ASSUME NEW s, NEW b, Len(b) \in Nat, NEW g, NEW h,
         Follows(g, s, b), Follows(h, s, b)
  PROVE  g[Len(b)] = h[Len(b)]
<1> DEFINE N == Len(b)
           U == {i \in 0 .. N : g[i] = h[i]}
<1>1. N \in Nat
  OBVIOUS
<1>2. h[0] = s /\ \A i \in 1 .. N : h[i] = printc(h[i - 1], b[i])
  BY DEF Follows
<1>3. g[0] = s /\ \A i \in 1 .. N : g[i] = printc(g[i - 1], b[i])
  BY DEF Follows
<1> HIDE DEF N
<1>4. 0 \in U
  BY <1>1, <1>2, <1>3
<1>5. ASSUME NEW i \in 1 .. N, i - 1 \in U PROVE i \in U
  <2>1. g[i - 1] = h[i - 1]
    BY <1>5
  <2>2. g[i] = printc(g[i - 1], b[i]) /\ h[i] = printc(h[i - 1], b[i])
    BY <1>2, <1>3
  <2>3. g[i] = h[i]
    BY <2>1, <2>2
  <2>4. i \in 0 .. N
    BY <1>1
  <2> QED BY <2>3, <2>4
<1> HIDE DEF U
<1>6. \A i \in 0 .. N : i \in U
  BY <1>1, <1>4, <1>5, Rounds
<1>7. N \in U
  BY <1>1, <1>6
<1> QED BY <1>7 DEF U, N

(* sys_write_console prints a text.                                        *)
LEMMA ConsolePrints ==
  ASSUME NEW V, NEW C, Shows(V, C), NEW s \in Screens(V), NEW b \in Seq(C)
  PROVE  \E h : Prints(V, h, s, b) /\ sys_write_console(s, b) = h[Len(b)]
<1> DEFINE N == Len(b)
           after[i \in 0 .. N] == IF i = 0 THEN s ELSE printc(after[i - 1], b[i])
           F == [i \in 1 .. N |-> [u \in Screens(V) |-> printc(u, b[i])]]
<1>1. N \in Nat /\ \A i \in 1 .. N : b[i] \in C
  BY LenProperties, ElementOfSeq
<1>2. sys_write_console(s, b) = after[N]
  BY DEF sys_write_console
<1>3. F \in [1 .. N -> [Screens(V) -> Screens(V)]]
  <2>1. \A i \in 1 .. N : \A u \in Screens(V) : printc(u, b[i]) \in Screens(V)
    BY <1>1, PrintcKeeps
  <2> HIDE DEF N
  <2> QED BY <2>1
<1>4. PICK h \in [0 .. N -> Screens(V)] : IsLoop(h, N, s, F)
  <2> HIDE DEF N, F
  <2> QED BY <1>1, <1>3, Loop
<1>5. ASSUME NEW i \in 0 .. N, i # 0 PROVE F[i][h[i - 1]] = printc(h[i - 1], b[i])
  <2>1. i \in 1 .. N /\ i - 1 \in 0 .. N
    BY <1>1, <1>5
  <2> HIDE DEF N
  <2> QED BY <2>1
<1>6. h = [i \in 0 .. N |-> IF i = 0 THEN s ELSE printc(h[i - 1], b[i])]
  <2>1. h = [i \in 0 .. N |-> IF i = 0 THEN s ELSE F[i][h[i - 1]]]
    BY <1>4 DEF IsLoop
  <2> HIDE DEF N, F
  <2> QED BY <1>5, <2>1
<1>7. after = [i \in 0 .. N |-> IF i = 0 THEN s ELSE printc(after[i - 1], b[i])]
  <2> HIDE DEF N
  <2> QED BY <1>6
<1> HIDE DEF after, N, F
<1>8. /\ after[0] = s /\ h[0] = s
      /\ \A i \in 1 .. N : /\ after[i] = printc(after[i - 1], b[i])
                           /\ h[i] = printc(h[i - 1], b[i])
  <2>1. \A i \in 1 .. N : i \in 0 .. N /\ i # 0
    BY <1>1
  <2>2. 0 \in 0 .. N
    BY <1>1
  <2> QED BY <1>6, <1>7, <2>1, <2>2
<1>9. Follows(after, s, b) /\ Follows(h, s, b)
  BY <1>8 DEF Follows, N
<1>10. Prints(V, h, s, b)
  BY <1>4, <1>9 DEF Prints, N
<1>11. after[Len(b)] = h[Len(b)]
  BY <1>1, <1>9, PrintsOnce DEF N
<1> QED BY <1>2, <1>10, <1>11 DEF N

(* A part of a text continues where the part before it ended.              *)
LEMMA Segment ==
  ASSUME NEW V, NEW C, Shows(V, C), NEW s \in Screens(V), NEW t \in Seq(C),
         NEW h, Prints(V, h, s, t), NEW a \in 0 .. Len(t), NEW e \in a .. Len(t)
  PROVE  sys_write_console(h[a], SubSeq(t, a + 1, e)) = h[e]
<1> DEFINE b == SubSeq(t, a + 1, e)
           N == Len(t)
           g == [i \in 0 .. e - a |-> h[a + i]]
<1>1. N \in Nat /\ a \in Nat /\ e \in Nat /\ a <= e /\ e <= N
  BY LenProperties
<1>2. /\ h \in [0 .. N -> Screens(V)]
      /\ \A i \in 1 .. N : h[i] = printc(h[i - 1], t[i])
  BY DEF Prints, Follows
<1>3. /\ b \in Seq(C) /\ Len(b) = e - a
      /\ \A i \in 1 .. e - a : b[i] = t[a + i]
  <2>1. \A i \in a + 1 .. e : t[i] \in C
    <3>1. \A i \in a + 1 .. e : i \in 1 .. Len(t)
      BY <1>1
    <3> QED BY <3>1, ElementOfSeq
  <2>2. a + 1 \in Int /\ e \in Int
    BY <1>1
  <2>3. /\ SubSeq(t, a + 1, e) \in Seq(C)
        /\ Len(SubSeq(t, a + 1, e)) = IF a + 1 <= e THEN e - (a + 1) + 1 ELSE 0
        /\ \A i \in 1 .. e - (a + 1) + 1 : SubSeq(t, a + 1, e)[i] = t[(a + 1) + i - 1]
    BY <2>1, <2>2, SubSeqProperties
  <2>4. /\ (IF a + 1 <= e THEN e - (a + 1) + 1 ELSE 0) = e - a /\ e - (a + 1) + 1 = e - a
        /\ \A i \in 1 .. e - a : (a + 1) + i - 1 = a + i
    BY <1>1
  <2> QED BY <2>3, <2>4
<1> HIDE DEF N, b
<1>4. h[a] \in Screens(V)
  BY <1>1, <1>2
<1>5. PICK k : Prints(V, k, h[a], b) /\ sys_write_console(h[a], b) = k[Len(b)]
  BY <1>3, <1>4, ConsolePrints, Zenon
<1>6. g[0] = h[a] /\ g[e - a] = h[e]
  <2>1. 0 \in 0 .. e - a /\ e - a \in 0 .. e - a /\ a + 0 = a /\ a + (e - a) = e
    BY <1>1
  <2> QED BY <2>1
<1>7. ASSUME NEW i \in 1 .. Len(b) PROVE g[i] = printc(g[i - 1], b[i])
  <2>1. /\ i \in 1 .. e - a /\ i \in 0 .. e - a /\ i - 1 \in 0 .. e - a
        /\ a + i \in 1 .. N /\ a + (i - 1) = (a + i) - 1
    BY <1>1, <1>3
  <2>2. h[a + i] = printc(h[(a + i) - 1], t[a + i]) /\ b[i] = t[a + i]
    BY <1>2, <1>3, <2>1
  <2>3. g[i] = h[a + i] /\ g[i - 1] = h[(a + i) - 1]
    BY <2>1
  <2> QED BY <2>2, <2>3
<1> HIDE DEF g
<1>8. Follows(g, h[a], b) /\ Follows(k, h[a], b)
  BY <1>5, <1>6, <1>7 DEF Follows, Prints
<1>9. g[Len(b)] = k[Len(b)]
  <2>1. Len(b) \in Nat
    BY <1>1, <1>3
  <2> QED BY <2>1, <1>8, PrintsOnce
<1> QED BY <1>3, <1>5, <1>6, <1>9 DEF b

(* Where chunk k ends in a text of n characters.                           *)
EndOf(n, k) == IF k * MAX_BUFFER_SIZE <= n THEN k * MAX_BUFFER_SIZE ELSE n

(* A chunk starts where the one before ended and the last ends the text.   *)
LEMMA ChunkEnds ==
  ASSUME NEW n \in Nat
  PROVE  /\ NumChunks(n) \in Nat /\ EndOf(n, 0) = 0 /\ EndOf(n, NumChunks(n)) = n
         /\ \A k \in 1 .. NumChunks(n) :
               /\ EndOf(n, k - 1) = k * MAX_BUFFER_SIZE - MAX_BUFFER_SIZE
               /\ EndOf(n, k - 1) \in 0 .. n /\ EndOf(n, k) \in EndOf(n, k - 1) .. n
<1> DEFINE M == MAX_BUFFER_SIZE
           K == NumChunks(n)
<1>1. M \in Nat /\ M > 0
  BY ConsoleAssumption
<1>2. K \in Nat /\ M * K <= n + M - 1 /\ n + M - 1 < M * K + M
  <2>1. n + M - 1 \in Nat
    BY <1>1
  <2> DEFINE q == (n + M - 1) \div M
  <2>2. q \in Int /\ M * q <= n + M - 1 /\ n + M - 1 < M * q + M
    <3> HIDE DEF M
    <3> QED BY <1>1, <2>1
  <2>3. K = q
    BY DEF NumChunks
  <2>4. ASSUME q < 0 PROVE FALSE
    <3> HIDE DEF q, M
    <3>1. M * (q + 1) <= 0 /\ M * (q + 1) = M * q + M
      BY <1>1, <2>2, <2>4
    <3> QED BY <1>1, <2>1, <2>2, <3>1
  <2> HIDE DEF q, M, K
  <2> QED BY <2>2, <2>3, <2>4
<1>3. \A k : EndOf(n, k) = IF k * M <= n THEN k * M ELSE n
  BY DEF EndOf
<1> HIDE DEF M, K
<1>4. EndOf(n, 0) = 0
  BY <1>1, <1>3
<1>5. EndOf(n, K) = n
  <2>1. K * M >= n
    BY <1>1, <1>2
  <2> QED BY <1>1, <1>2, <1>3, <2>1
<1>6. ASSUME NEW k \in 1 .. K
      PROVE  /\ EndOf(n, k - 1) = k * M - M
             /\ EndOf(n, k - 1) \in 0 .. n /\ EndOf(n, k) \in EndOf(n, k - 1) .. n
  <2>1. /\ (k - 1) * M = k * M - M /\ (k - 1) * M \in Nat /\ k * M \in Nat
    BY <1>1
  <2>2. k * M <= K * M
    BY <1>1, <1>2
  <2>3. (k - 1) * M <= n
    BY <1>1, <1>2, <2>1, <2>2
  <2>4. EndOf(n, k - 1) = k * M - M
    BY <1>3, <2>1, <2>3
  <2> QED BY <1>1, <1>3, <2>1, <2>3, <2>4
<1> QED BY <1>2, <1>4, <1>5, <1>6 DEF M, K

(* The chunks of a text, one after the other, print the text.              *)
LEMMA AllChunks ==
  ASSUME NEW V, NEW C, Shows(V, C), NEW s \in Screens(V), NEW t \in Seq(C),
         NEW h, Prints(V, h, s, t)
  PROVE  write_chunks(s, Chunks(t)) = h[Len(t)]
<1> DEFINE n == Len(t)
           K == NumChunks(n)
           b == Chunks(t)
           after[k \in 0 .. Len(b)] ==
              IF k = 0 THEN s ELSE sys_write_console(after[k - 1], b[k])
           w == [k \in 0 .. K |-> h[EndOf(n, k)]]
           U == {k \in 0 .. K : after[k] = w[k]}
<1>1. n \in Nat
  BY LenProperties
<1>2. /\ K \in Nat /\ EndOf(n, 0) = 0 /\ EndOf(n, K) = n
      /\ \A k \in 1 .. K :
            /\ EndOf(n, k - 1) = k * MAX_BUFFER_SIZE - MAX_BUFFER_SIZE
            /\ EndOf(n, k - 1) \in 0 .. n /\ EndOf(n, k) \in EndOf(n, k - 1) .. n
  <2> HIDE DEF n
  <2> QED BY <1>1, ChunkEnds
<1>3. ASSUME NEW k \in 1 .. K
      PROVE  b[k] = SubSeq(t, EndOf(n, k - 1) + 1, EndOf(n, k))
  <2>1. b[k] = SubSeq(t, k * MAX_BUFFER_SIZE - MAX_BUFFER_SIZE + 1, EndOf(n, k))
    BY <1>3 DEF Chunks, EndOf
  <2> HIDE DEF b, K, n
  <2> QED BY <1>2, <2>1
<1>4. Len(b) = K
  <2>1. b = [k \in 1 .. K |-> b[k]]
    BY DEF Chunks
  <2> HIDE DEF b, K
  <2>2. b \in Seq({b[k] : k \in 1 .. K})
    BY <1>2, <2>1, SeqDef
  <2> QED BY <1>2, <2>1, <2>2, LenProperties
<1>5. ASSUME NEW k \in 1 .. K
      PROVE  /\ k \in 0 .. K /\ k - 1 \in 0 .. K /\ k # 0
             /\ w[k] = sys_write_console(w[k - 1], b[k])
  <2>1. k \in 0 .. K /\ k - 1 \in 0 .. K /\ k # 0
    BY <1>2
  <2> DEFINE a == EndOf(n, k - 1)
             e == EndOf(n, k)
  <2>2. a \in 0 .. n /\ e \in a .. n
    BY <1>2
  <2>3. sys_write_console(h[a], SubSeq(t, a + 1, e)) = h[e]
    <3> HIDE DEF a, e
    <3> QED BY <2>2, Segment
  <2>4. w[k] = h[e] /\ w[k - 1] = h[a]
    BY <2>1
  <2> QED BY <1>3, <2>1, <2>3, <2>4
<1>6. w[0] = s
  <2>1. h[0] = s /\ 0 \in 0 .. K
    BY <1>2 DEF Prints, Follows
  <2> QED BY <1>2, <2>1
<1>7. w = [k \in 0 .. Len(b) |-> IF k = 0 THEN s ELSE sys_write_console(w[k - 1], b[k])]
  <2>1. ASSUME NEW k \in 0 .. K
        PROVE  w[k] = IF k = 0 THEN s ELSE sys_write_console(w[k - 1], b[k])
    <3>1. CASE k = 0
      BY <3>1, <1>6
    <3>2. CASE k # 0
      <4>1. k \in 1 .. K
        BY <1>2, <3>2
      <4> QED BY <1>5, <3>2, <4>1
    <3> QED BY <3>1, <3>2
  <2>2. w = [k \in 0 .. K |-> w[k]]
    OBVIOUS
  <2> HIDE DEF w, b, K
  <2> QED BY <1>4, <2>1, <2>2
<1>8. after = [k \in 0 .. Len(b) |->
                  IF k = 0 THEN s ELSE sys_write_console(after[k - 1], b[k])]
  <2> HIDE DEF w, b
  <2> QED BY <1>7
<1>9. write_chunks(s, Chunks(t)) = after[Len(b)]
  BY DEF write_chunks
<1> HIDE DEF after, w, b, K, n
<1>10. 0 \in U
  BY <1>2, <1>4, <1>6, <1>8
<1>11. ASSUME NEW k \in 1 .. K, k - 1 \in U PROVE k \in U
  <2>1. k \in 0 .. K /\ k # 0 /\ w[k] = sys_write_console(w[k - 1], b[k])
    BY <1>5
  <2>2. after[k] = sys_write_console(after[k - 1], b[k])
    BY <1>4, <1>8, <2>1
  <2>3. after[k - 1] = w[k - 1]
    BY <1>11
  <2> QED BY <2>1, <2>2, <2>3
<1> HIDE DEF U
<1>12. \A k \in 0 .. K : k \in U
  BY <1>2, <1>10, <1>11, Rounds
<1>13. after[K] = w[K] /\ K \in 0 .. K
  BY <1>2, <1>12 DEF U
<1> QED BY <1>2, <1>4, <1>9, <1>13 DEF w, n

-----------------------------------------------------------------------------
(* The layout that Terminal promises.                                      *)

(* The characters among the first m of t that were laid in cell c, and     *)
(* what the cell shows: the last of them, or what it showed before.        *)
Laid(t, h, m, c) == {i \in 1 .. m : t[i] # NewLine /\ CellOf(h[i - 1]) = c}

Seen(t, h, m, c) ==
    \/ Laid(t, h, m, c) = {} /\ h[m].screen[c] = h[0].screen[c]
    \/ \E i \in Laid(t, h, m, c) :
          /\ \A j \in Laid(t, h, m, c) : j <= i
          /\ h[m].screen[c] = <<t[i], Colours>>

(* u is s after character c: it went to the cursor's cell.                 *)
Advances(s, c, u) ==
    /\ c = NewLine =>
          /\ CellOf(u) = ((CellOf(s) \div SCREEN_COLUMNS + 1) * SCREEN_COLUMNS)
                            % (SCREEN_ROWS * SCREEN_COLUMNS)
          /\ u.screen = s.screen
    /\ c # NewLine =>
          /\ CellOf(u) = (CellOf(s) + 1) % (SCREEN_ROWS * SCREEN_COLUMNS)
          /\ u.screen = [s.screen EXCEPT ![CellOf(s)] = <<c, Colours>>]

(* printc lays a character where the cursor is and moves it on.            *)
LEMMA PrintcCell ==
  ASSUME NEW V, NEW s \in Screens(V), NEW c
  PROVE  CellOf(s) \in Cells /\ Advances(s, c, printc(s, c))
<1> DEFINE w == SCREEN_COLUMNS
           r == SCREEN_ROWS
           x == s.x
           y == s.y
<1>1. w \in Nat /\ w > 0 /\ r \in Nat /\ r > 0
  BY ConsoleAssumption
<1>2. /\ x \in 0 .. w - 1 /\ y \in 0 .. r - 1
      /\ s = [x |-> s.x, y |-> s.y, screen |-> s.screen]
  BY DEF Screens
<1>3. CellOf(s) = y * w + x
  BY DEF CellOf
<1>4. /\ y * w + x \in 0 .. r * w - 1
      /\ (((y * w + x) \div w + 1) * w) % (r * w) = ((y + 1) % r) * w
      /\ x + 1 >= w => (y * w + x + 1) % (r * w) = ((y + 1) % r) * w
      /\ ~ (x + 1 >= w) => (y * w + x + 1) % (r * w) = y * w + (x + 1)
  <2> HIDE DEF w, r, x, y
  <2> QED BY <1>1, <1>2, CellArithmetic
<1>5. ((y + 1) % r) * w \in Int
  <2> HIDE DEF w, r, x, y
  <2> QED BY <1>1, <1>2
<1>6. ASSUME c = NewLine
      PROVE  /\ CellOf(printc(s, c)) = ((CellOf(s) \div w + 1) * w) % (r * w)
             /\ printc(s, c).screen = s.screen
  <2>1. printc(s, c) = [x |-> 0, y |-> (y + 1) % r, screen |-> s.screen]
    BY <1>2, <1>6 DEF printc, Below
  <2>2. CellOf(printc(s, c)) = ((y + 1) % r) * w + 0
    BY <2>1 DEF CellOf
  <2> HIDE DEF w, r, x, y
  <2> QED BY <1>3, <1>4, <1>5, <2>1, <2>2
<1>7. ASSUME c # NewLine
      PROVE  /\ CellOf(printc(s, c)) = (CellOf(s) + 1) % (r * w)
             /\ printc(s, c).screen = [s.screen EXCEPT ![CellOf(s)] = <<c, Colours>>]
  <2> DEFINE last == x + 1 >= w
             u == IF last THEN 0 ELSE x + 1
             v == IF last THEN (y + 1) % r ELSE y
             z == [s.screen EXCEPT ![y * w + x] = <<c, Colours>>]
  <2>1. printc(s, c) = [x |-> u, y |-> v, screen |-> z]
    BY <1>7 DEF printc, Colours, Below
  <2>2. CellOf(printc(s, c)) = v * w + u
    <3> HIDE DEF u, v, z
    <3> QED BY <2>1 DEF CellOf
  <2>3. v * w + u = (y * w + x + 1) % (r * w)
    <3>1. CASE last
      <4>1. u = 0 /\ v = (y + 1) % r
        BY <3>1
      <4> HIDE DEF w, r, x, y, u, v
      <4>2. v * w + u = ((y + 1) % r) * w
        BY <1>5, <4>1
      <4> QED BY <1>4, <3>1, <4>2
    <3>2. CASE ~ last
      <4>1. u = x + 1 /\ v = y
        BY <3>2
      <4> HIDE DEF w, r, x, y, u, v
      <4> QED BY <1>4, <3>2, <4>1
    <3> QED BY <3>1, <3>2
  <2>4. printc(s, c).screen = z
    <3> HIDE DEF u, v, z
    <3> QED BY <2>1
  <2>5. CellOf(s) + 1 = y * w + x + 1
    BY <1>3
  <2> QED BY <1>3, <2>2, <2>3, <2>4, <2>5
<1>8. CellOf(s) \in Cells
  BY <1>3, <1>4 DEF Cells
<1> QED BY <1>6, <1>7, <1>8 DEF Advances

(* After every character each cell shows the last one laid there.          *)
LEMMA CellsSeen ==
  ASSUME NEW V, NEW C, Shows(V, C), NEW s \in Screens(V), NEW t \in Seq(C),
         NEW h, Prints(V, h, s, t), NEW c \in Cells
  PROVE  Seen(t, h, Len(t), c)
<1> DEFINE n == Len(t)
           U == {m \in 0 .. n : Seen(t, h, m, c)}
<1>1. n \in Nat /\ \A i \in 1 .. n : t[i] \in C
  BY LenProperties, ElementOfSeq
<1>2. /\ h \in [0 .. n -> Screens(V)]
      /\ \A i \in 1 .. n : h[i] = printc(h[i - 1], t[i])
  BY DEF Prints, Follows
<1> HIDE DEF n
<1>3. 0 \in U
  <2>1. Laid(t, h, 0, c) = {}
    BY DEF Laid
  <2> QED BY <1>1, <2>1 DEF Seen
<1>4. ASSUME NEW m \in 1 .. n, m - 1 \in U PROVE m \in U
  <2> DEFINE p == m - 1
  <2>1. Seen(t, h, p, c) /\ p \in 0 .. n /\ p \in Nat /\ m = p + 1 /\ m \in 0 .. n
    BY <1>1, <1>4
  <2>2. h[p] \in Screens(V) /\ h[m] = printc(h[p], t[m]) /\ t[m] \in C
    BY <1>1, <1>2, <2>1
  <2>3. h[p].screen \in [Cells -> V]
    BY <2>2 DEF Screens
  <2> HIDE DEF p
  <2>4. /\ t[m] = NewLine => h[m].screen = h[p].screen
        /\ t[m] # NewLine =>
              h[m].screen = [h[p].screen EXCEPT ![CellOf(h[p])] = <<t[m], Colours>>]
    <3>1. Advances(h[p], t[m], printc(h[p], t[m]))
      BY <2>2, PrintcCell, Zenon
    <3> QED BY <2>2, <3>1 DEF Advances
  <2>5. CASE t[m] # NewLine /\ CellOf(h[p]) = c
    <3>1. h[m].screen[c] = <<t[m], Colours>>
      BY <2>3, <2>4, <2>5
    <3>2. m \in Laid(t, h, m, c)
      BY <2>1, <2>5 DEF Laid, p
    <3>3. \A j \in Laid(t, h, m, c) : j <= m
      BY DEF Laid
    <3> QED BY <2>1, <3>1, <3>2, <3>3 DEF Seen
  <2>6. CASE ~ (t[m] # NewLine /\ CellOf(h[p]) = c)
    <3>1. h[m].screen[c] = h[p].screen[c]
      BY <2>3, <2>4, <2>6
    <3>2. Laid(t, h, m, c) = Laid(t, h, p, c)
      <4>1. \A i \in 1 .. m : i = m \/ i \in 1 .. p
        BY <2>1
      <4>2. \A i \in 1 .. p : i \in 1 .. m
        BY <2>1
      <4>3. m - 1 = p
        BY DEF p
      <4> QED BY <2>6, <4>1, <4>2, <4>3 DEF Laid
    <3> QED BY <2>1, <3>1, <3>2 DEF Seen
  <2> QED BY <2>5, <2>6
<1> HIDE DEF U
<1>5. \A m \in 0 .. n : m \in U
  BY <1>1, <1>3, <1>4, Rounds
<1>6. n \in U
  BY <1>1, <1>5
<1> QED BY <1>6 DEF U, n

(* Printing a text is laying it out.                                       *)
LEMMA PrintsLay ==
  ASSUME NEW V, NEW C, Shows(V, C), Screen \in Screens(V), NEW t \in Seq(C),
         NEW h, Prints(V, h, Screen, t), Show(h[Len(t)])
  PROVE  Term!Lay(t)
<1> DEFINE n == Len(t)
           W == SCREEN_COLUMNS
           Area == SCREEN_ROWS * SCREEN_COLUMNS
           origin == y_screen * SCREEN_COLUMNS + x_screen
           cur[i \in 1 .. n + 1] ==
              IF i = 1 THEN origin
              ELSE IF t[i - 1] = NewLine
                   THEN ((cur[i - 1] \div W + 1) * W) % Area
                   ELSE (cur[i - 1] + 1) % Area
           w == [i \in 1 .. n + 1 |-> CellOf(h[i - 1])]
           U == {i \in 0 .. n : cur[i + 1] = w[i + 1]}
<1>1. n \in Nat
  BY LenProperties
<1>2. /\ h \in [0 .. n -> Screens(V)] /\ h[0] = Screen
      /\ \A i \in 1 .. n : h[i] = printc(h[i - 1], t[i])
  BY DEF Prints, Follows
<1>3. CellOf(h[0]) = origin
  BY <1>2 DEF Screen, CellOf
<1>4. ASSUME NEW i \in 1 .. n + 1, i # 1
      PROVE  /\ i - 1 \in 1 .. n + 1 /\ i - 1 \in 1 .. n
             /\ w[i] = IF t[i - 1] = NewLine
                       THEN ((w[i - 1] \div W + 1) * W) % Area
                       ELSE (w[i - 1] + 1) % Area
  <2> DEFINE j == i - 1
  <2>1. j \in 1 .. n /\ j \in 1 .. n + 1 /\ j - 1 \in 0 .. n /\ j \in 0 .. n
    BY <1>1, <1>4
  <2>2. w[i] = CellOf(h[j]) /\ w[j] = CellOf(h[j - 1])
    BY <2>1
  <2>3. h[j - 1] \in Screens(V) /\ h[j] = printc(h[j - 1], t[j])
    BY <1>2, <2>1
  <2> HIDE DEF j, n, W, Area
  <2>4. Advances(h[j - 1], t[j], h[j])
    <3>1. Advances(h[j - 1], t[j], printc(h[j - 1], t[j]))
      BY <2>3, PrintcCell, Zenon
    <3> QED BY <2>3, <3>1
  <2>5. w[i] = IF t[j] = NewLine
               THEN ((w[j] \div W + 1) * W) % Area
               ELSE (w[j] + 1) % Area
    BY <2>2, <2>4 DEF Advances, W, Area
  <2> QED BY <2>1, <2>5 DEF j
<1>5. w = [i \in 1 .. n + 1 |->
              IF i = 1 THEN origin
              ELSE IF t[i - 1] = NewLine
                   THEN ((w[i - 1] \div W + 1) * W) % Area
                   ELSE (w[i - 1] + 1) % Area]
  <2>1. 1 \in 1 .. n + 1 /\ 1 - 1 = 0
    BY <1>1
  <2>2. w[1] = origin
    BY <1>3, <2>1
  <2>3. w = [i \in 1 .. n + 1 |-> w[i]]
    OBVIOUS
  <2> HIDE DEF w, n, W, Area, origin
  <2> QED BY <1>4, <2>2, <2>3
<1>6. cur = [i \in 1 .. n + 1 |->
              IF i = 1 THEN origin
              ELSE IF t[i - 1] = NewLine
                   THEN ((cur[i - 1] \div W + 1) * W) % Area
                   ELSE (cur[i - 1] + 1) % Area]
  <2> HIDE DEF w, n, W, Area, origin
  <2> QED BY <1>5
<1>7. Term!Cursor(t) = cur
  BY DEF Term!Cursor
<1> HIDE DEF cur, w, n, W, Area, origin
<1>8. 0 \in U
  <2>1. 0 \in 0 .. n /\ 0 + 1 = 1 /\ 1 \in 1 .. n + 1
    BY <1>1
  <2> QED BY <1>5, <1>6, <2>1
<1>9. ASSUME NEW i \in 1 .. n, i - 1 \in U PROVE i \in U
  <2>1. /\ i \in 0 .. n /\ i + 1 \in 1 .. n + 1 /\ i + 1 # 1
        /\ (i + 1) - 1 = i /\ (i - 1) + 1 = i
    BY <1>1
  <2>2. cur[i] = w[i]
    BY <1>9, <2>1
  <2>3. cur[i + 1] = IF t[i] = NewLine
                    THEN ((cur[i] \div W + 1) * W) % Area
                    ELSE (cur[i] + 1) % Area
    BY <1>6, <2>1
  <2>4. w[i + 1] = IF t[i] = NewLine
                   THEN ((w[i] \div W + 1) * W) % Area
                   ELSE (w[i] + 1) % Area
    BY <1>4, <2>1
  <2> QED BY <2>1, <2>2, <2>3, <2>4
<1>10. \A i \in 0 .. n : cur[i + 1] = w[i + 1]
  <2> HIDE DEF U
  <2>1. \A i \in 0 .. n : i \in U
    BY <1>1, <1>8, <1>9, Rounds
  <2> QED BY <2>1 DEF U
<1>11. ASSUME NEW i \in 1 .. n + 1 PROVE cur[i] = CellOf(h[i - 1])
  <2>1. i - 1 \in 0 .. n /\ (i - 1) + 1 = i
    BY <1>1
  <2> QED BY <1>10, <2>1 DEF w
<1>12. cur[n + 1] = CellOf(h[n])
  <2>1. n + 1 \in 1 .. n + 1 /\ (n + 1) - 1 = n
    BY <1>1
  <2> QED BY <1>11, <2>1
<1>13. /\ x_screen' = h[n].x /\ y_screen' = h[n].y /\ screen' = h[n].screen
       /\ UNCHANGED <<fg_color, bg_color>>
  BY DEF Show, n
<1>14. y_screen' * SCREEN_COLUMNS + x_screen' = cur[n + 1]
  BY <1>12, <1>13 DEF CellOf
<1> DEFINE here(c) == {i \in 1 .. n : t[i] # NewLine /\ cur[i] = c}
<1>15. ASSUME NEW c \in Cells
       PROVE  screen'[c] = IF here(c) = {} THEN screen[c]
                           ELSE <<t[CHOOSE i \in here(c) : \A j \in here(c) : j <= i],
                                  Colours>>
  <2>1. here(c) = Laid(t, h, n, c)
    <3>1. \A i \in 1 .. n : cur[i] = CellOf(h[i - 1])
      BY <1>1, <1>11
    <3> QED BY <3>1 DEF Laid
  <2>2. Seen(t, h, n, c)
    BY CellsSeen DEF n
  <2>3. h[0].screen = screen
    BY <1>2 DEF Screen
  <2>4. CASE here(c) = {}
    BY <1>13, <2>1, <2>2, <2>3, <2>4 DEF Seen
  <2>5. CASE here(c) # {}
    <3>1. PICK i \in here(c) : /\ \A j \in here(c) : j <= i
                               /\ h[n].screen[c] = <<t[i], Colours>>
      BY <2>1, <2>2, <2>5 DEF Seen
    <3>2. here(c) \subseteq Int
      BY <1>1
    <3> DEFINE k == CHOOSE k \in here(c) : \A j \in here(c) : j <= k
    <3> HIDE DEF here
    <3>3. k \in here(c) /\ \A j \in here(c) : j <= k
      BY <3>1
    <3> HIDE DEF k
    <3>4. k = i
      BY <3>1, <3>2, <3>3
    <3> QED BY <1>13, <2>5, <3>1, <3>4 DEF k
  <2> QED BY <2>4, <2>5
<1>16. screen' = [c \in Cells |->
                    IF here(c) = {} THEN screen[c]
                    ELSE <<t[CHOOSE i \in here(c) : \A j \in here(c) : j <= i],
                           Colours>>]
  <2>1. screen' = [c \in Cells |-> screen'[c]]
    <3>1. h[n] \in Screens(V)
      BY <1>1, <1>2
    <3>2. h[n].screen \in [Cells -> V]
      BY <3>1 DEF Screens
    <3> QED BY <1>13, <3>2
  <2> HIDE DEF here
  <2> QED BY <1>15, <2>1
<1> QED
  BY <1>7, <1>13, <1>14, <1>16 DEF Term!Lay, Cells, Colours, n

(* The cursor is on the screen and the screen has its cells.               *)
ConsoleInv == CursorOnScreen /\ screen = [c \in Cells |-> screen[c]]

(* Whatever way a text is printed, it is laid out.                         *)
LEMMA TextLaid ==
  ASSUME ConsoleInv, NEW C, NEW t \in Seq(C), NEW u, Show(u),
         u = sys_write_console(Screen, t) \/ u = write_chunks(Screen, Chunks(t))
  PROVE  Term!Lay(t) /\ ConsoleInv'
<1> DEFINE V == {screen[c] : c \in Cells} \cup {<<c, Colours>> : c \in C}
<1>1. Shows(V, C)
  BY DEF Shows
<1>2. Screen \in Screens(V)
  <2>1. screen \in [Cells -> V]
    BY DEF ConsoleInv
  <2> HIDE DEF V
  <2> QED BY <2>1 DEF ConsoleInv, CursorOnScreen, Screens, Screen
<1> HIDE DEF V
<1>3. PICK h : Prints(V, h, Screen, t) /\ sys_write_console(Screen, t) = h[Len(t)]
  BY <1>1, <1>2, ConsolePrints, Zenon
<1>4. write_chunks(Screen, Chunks(t)) = h[Len(t)]
  BY <1>1, <1>2, <1>3, AllChunks, Zenon
<1>5. Show(h[Len(t)])
  BY <1>3, <1>4, Zenon
<1>6. Term!Lay(t)
  BY <1>1, <1>2, <1>3, <1>5, PrintsLay, Zenon
<1>7. h[Len(t)] \in Screens(V)
  <2>1. Len(t) \in 0 .. Len(t)
    BY LenProperties
  <2>2. h \in [0 .. Len(t) -> Screens(V)]
    BY <1>3 DEF Prints
  <2> QED BY <2>1, <2>2
<1>8. ConsoleInv'
  <2>1. /\ x_screen' \in 0 .. SCREEN_COLUMNS - 1 /\ y_screen' \in 0 .. SCREEN_ROWS - 1
        /\ screen' \in [Cells -> V]
    BY <1>5, <1>7 DEF Show, Screens
  <2>2. fg_color' = fg_color /\ bg_color' = bg_color
    BY <1>5 DEF Show
  <2>3. screen' = [c \in Cells |-> screen'[c]]
    BY <2>1
  <2> QED BY <2>1, <2>2, <2>3 DEF ConsoleInv, CursorOnScreen, Cells
<1> QED BY <1>6, <1>8

(* Every text and the first characters of it are sequences.                *)
LEMMA Texts ==
  ASSUME NEW t \in Text
  PROVE  \E C : /\ t \in Seq(C) /\ Len(t) \in Nat
                /\ \A n \in 0 .. Len(t) : SubSeq(t, 1, n) \in Seq(C)
<1> DEFINE C == ToSet(t)
<1>1. t \in Seq(C)
  BY ConsoleAssumption
<1> HIDE DEF C
<1>2. Len(t) \in Nat
  BY <1>1, LenProperties
<1>3. ASSUME NEW n \in 0 .. Len(t) PROVE SubSeq(t, 1, n) \in Seq(C)
  <2>1. \A i \in 1 .. n : t[i] \in C
    <3>1. \A i \in 1 .. n : i \in 1 .. Len(t)
      BY <1>2
    <3> QED BY <1>1, <3>1, ElementOfSeq
  <2>2. 1 \in Int /\ n \in Int
    BY <1>2
  <2> QED BY <1>1, <2>1, <2>2, SubSeqProperties
<1> QED BY <1>1, <1>2, <1>3

(* The calls do to the screen what Terminal allows.                        *)
LEMMA ConsoleStep ==
  ASSUME ConsoleInv, [ConsoleNext]_consoleVars
  PROVE  ConsoleInv' /\ [Term!Next]_(Term!vars)
<1>1. ASSUME UNCHANGED consoleVars PROVE ConsoleInv' /\ UNCHANGED Term!vars
  BY <1>1 DEF ConsoleInv, CursorOnScreen, Cells, consoleVars, Term!vars
<1> DEFINE Same == UNCHANGED <<x_screen, y_screen, fg_color, bg_color, screen>>
<1>2. ASSUME Same, ret' \in Int, ret' < 0 PROVE ConsoleInv' /\ Term!Refuse
  BY <1>2 DEF ConsoleInv, CursorOnScreen, Cells, Term!Refuse
<1>3. /\ - EBADF \in Int /\ - EBADF < 0 /\ - EFAULT \in Int /\ - EFAULT < 0
      /\ - EINVAL \in Int /\ - EINVAL < 0 /\ - EOUTSCREEN \in Int /\ - EOUTSCREEN < 0
      /\ - ENOCOLOR \in Int /\ - ENOCOLOR < 0
  BY DEF EBADF, EFAULT, EINVAL, EOUTSCREEN, ENOCOLOR
<1>4. ASSUME NEW fd \in {0, 1}, NEW t \in Text, NEW readable \in BOOLEAN,
             NEW size \in -1 .. Len(t), sys_write(fd, t, size, readable)
      PROVE  ConsoleInv' /\ Term!Next
  <2>1. CASE Same /\ ret' \in {- EBADF, - EFAULT, - EINVAL}
    <3>1. ret' \in Int /\ ret' < 0
      BY <1>3, <2>1
    <3> QED BY <1>2, <2>1, <3>1 DEF Term!Next
  <2>2. CASE /\ size >= 0 /\ ret' = size
             /\ Show(write_chunks(Screen, Chunks(SubSeq(t, 1, size))))
    <3>1. PICK C : /\ t \in Seq(C) /\ Len(t) \in Nat
                   /\ \A n \in 0 .. Len(t) : SubSeq(t, 1, n) \in Seq(C)
      BY Texts
    <3>2. size \in 0 .. Len(t)
      BY <2>2, <3>1
    <3> DEFINE b == SubSeq(t, 1, size)
    <3>3. b \in Seq(C)
      BY <3>1, <3>2
    <3>4. Show(write_chunks(Screen, Chunks(b)))
      BY <2>2
    <3> HIDE DEF b
    <3>5. Term!Lay(b) /\ ConsoleInv'
      BY <3>3, <3>4, TextLaid, Zenon
    <3>6. Term!Write(t, size)
      BY <2>2, <3>5 DEF Term!Write, b
    <3> QED BY <3>2, <3>5, <3>6 DEF Term!Next
  <2> QED BY <1>4, <2>1, <2>2 DEF sys_write
<1>5. ASSUME NEW t \in Text, printk(t) PROVE ConsoleInv' /\ Term!Next
  <2>1. PICK C : t \in Seq(C)
    BY Texts
  <2>2. Show(sys_write_console(Screen, t)) /\ ret' = ret
    BY <1>5 DEF printk
  <2>3. Term!Lay(t) /\ ConsoleInv'
    BY <2>1, <2>2, TextLaid, Zenon
  <2>4. Term!Log(t)
    BY <2>2, <2>3 DEF Term!Log
  <2> QED BY <2>3, <2>4 DEF Term!Next
<1>6. ASSUME NEW x \in -1 .. SCREEN_COLUMNS, NEW y \in -1 .. SCREEN_ROWS,
             sys_gotoxy(x, y)
      PROVE  ConsoleInv' /\ Term!Next
  <2>1. CASE Same /\ ret' = - EOUTSCREEN
    BY <1>2, <1>3, <2>1 DEF Term!Next
  <2>2. CASE /\ OnScreen(x, y) /\ x_screen' = x /\ y_screen' = y /\ ret' = 0
             /\ UNCHANGED <<fg_color, bg_color, screen>>
    <3>1. /\ SCREEN_COLUMNS \in Nat /\ SCREEN_COLUMNS > 0
          /\ SCREEN_ROWS \in Nat /\ SCREEN_ROWS > 0
      BY ConsoleAssumption
    <3>2. x \in 0 .. SCREEN_COLUMNS - 1 /\ y \in 0 .. SCREEN_ROWS - 1
      BY <2>2 DEF OnScreen
    <3>3. y * SCREEN_COLUMNS + x \in 0 .. SCREEN_ROWS * SCREEN_COLUMNS - 1
      BY <3>1, <3>2, CellArithmetic
    <3>4. Term!Move
      BY <2>2, <3>3 DEF Term!Move
    <3>5. ConsoleInv'
      BY <2>2, <3>2 DEF ConsoleInv, CursorOnScreen, Cells
    <3> QED BY <3>4, <3>5 DEF Term!Next
  <2> QED BY <1>6, <2>1, <2>2 DEF sys_gotoxy
<1>7. ASSUME NEW c \in ColourArgs, sys_set_color(c[1], c[2])
      PROVE  ConsoleInv' /\ Term!Next
  <2>1. CASE Same /\ ret' = - ENOCOLOR
    BY <1>2, <1>3, <2>1 DEF Term!Next
  <2>2. CASE /\ {c[1], c[2]} \subseteq 0 .. WHITE
             /\ fg_color' = c[1] /\ bg_color' = c[2] /\ ret' = 0
             /\ UNCHANGED <<x_screen, y_screen, screen>>
    <3>1. c[1] \in 0 .. WHITE /\ c[2] \in 0 .. WHITE
      BY <2>2
    <3>2. Term!Paint
      BY <2>2, <3>1 DEF Term!Paint
    <3>3. ConsoleInv'
      BY <2>2, <3>1 DEF ConsoleInv, CursorOnScreen, Cells
    <3> QED BY <3>2, <3>3 DEF Term!Next
  <2> QED BY <1>7, <2>1, <2>2 DEF sys_set_color
<1> HIDE DEF Same
<1>8. ASSUME ConsoleNext PROVE ConsoleInv' /\ Term!Next
  BY <1>4, <1>5, <1>6, <1>7, <1>8, Zenon DEF ConsoleNext
<1> QED BY <1>1, <1>8

LEMMA ConsoleStart ==
  ASSUME ConsoleInit PROVE ConsoleInv /\ Term!Init
<1>1. /\ SCREEN_COLUMNS \in Nat /\ SCREEN_COLUMNS > 0
      /\ SCREEN_ROWS \in Nat /\ SCREEN_ROWS > 0
      /\ BootColours \in (0 .. WHITE) \X (0 .. WHITE)
      /\ FirstRow \in 0 .. SCREEN_ROWS - 1
  BY ConsoleAssumption
<1>2. /\ BootColours[1] \in 0 .. WHITE /\ BootColours[2] \in 0 .. WHITE
      /\ 0 \in 0 .. SCREEN_COLUMNS - 1
  BY <1>1
<1>3. FirstRow * SCREEN_COLUMNS + 0 \in 0 .. SCREEN_ROWS * SCREEN_COLUMNS - 1
  BY <1>1, <1>2, CellArithmetic
<1>4. ConsoleInv
  BY <1>1, <1>2 DEF ConsoleInit, ConsoleInv, CursorOnScreen, Cells
<1>5. Term!Init
  <2>1. y_screen * SCREEN_COLUMNS + x_screen \in 0 .. SCREEN_ROWS * SCREEN_COLUMNS - 1
    BY <1>3 DEF ConsoleInit
  <2>2. <<fg_color, bg_color>> \in (0 .. WHITE) \X (0 .. WHITE)
    BY <1>2 DEF ConsoleInit
  <2> QED BY <2>1, <2>2 DEF ConsoleInit, Term!Init
<1> QED BY <1>4, <1>5

(* The cursor never leaves the screen (printc, gotoxy), so no character is *)
(* written outside video memory, and the colours stay in the palette.      *)
THEOREM CursorAlwaysOnScreen == ConsoleSpec => []CursorOnScreen
<1>1. ConsoleInit => ConsoleInv
  BY ConsoleStart
<1>2. ConsoleInv /\ [ConsoleNext]_consoleVars => ConsoleInv'
  BY ConsoleStep
<1>3. ConsoleInv => CursorOnScreen
  BY DEF ConsoleInv
<1> QED BY <1>1, <1>2, <1>3, PTL DEF ConsoleSpec

(* printc's rows and columns, their wrapping and sys_write's chunks lay    *)
(* every text out as Terminal says, on a screen and with a kernel buffer   *)
(* of any size: nothing is lost, repeated or out of place.                 *)
THEOREM ConsoleImplements == ConsoleSpec => TerminalSpec
<1>1. ConsoleInit => ConsoleInv /\ Term!Init
  BY ConsoleStart
<1>2. ConsoleInv /\ [ConsoleNext]_consoleVars =>
         ConsoleInv' /\ [Term!Next]_(Term!vars)
  BY ConsoleStep
<1> QED BY <1>1, <1>2, PTL DEF ConsoleSpec, TerminalSpec, Term!Spec
=============================================================================
