------------------------------- MODULE Pacman -------------------------------
(***************************************************************************)
(* The rules of the game (pacman.c) and the loop that plays it (gameloop   *)
(* in user.c).  A frame is processInput and updatePacmanPosition, one step *)
(* per ghost of updateGhostsPositions, updateTimerState and the check of   *)
(* the end of the round; pc says which comes next.  The key that           *)
(* processInput finds in the shared page is any key.                       *)
(*                                                                         *)
(* Left out: the score, colours and drawing, which no rule reads; the      *)
(* search algorithms, whose calls are commented out in favour of random;   *)
(* the digit that tells the ghosts apart on the map (here "G").            *)
(*                                                                         *)
(* WalksAnywhere, TileKept, MeasuredTime and Stopped are plausible bugs:   *)
(* each is a wrong form of the definition that follows it.                 *)
(***************************************************************************)
EXTENDS Integers, FiniteSets

CONSTANTS
    Maze,                  \* the map of the level: position -> tile
    PacmanSpawn,
    GhostSpawn,            \* ghost -> position
    NUM_GHOSTS, NUM_LIVES, MAX_LEADERBOARD_ENTRIES,
    BOOSTED_TIME, RESPAWN_TIME,
    UINT                   \* 2 ^ the width of an unsigned int

Ghost == 0 .. NUM_GHOSTS - 1
Point == DOMAIN Maze
Tile  == {"#", ".", "*", " ", "C", "G"}
Direction == {"UP", "DOWN", "RIGHT", "LEFT", "NONE"}

(* Pacman's step.  For ghosts getNextPoint swaps UP and DOWN; as any       *)
(* direction may be drawn it makes no difference.                          *)
Step(p, dir) ==
    CASE dir = "UP"    -> <<p[1], p[2] - 1>>
      [] dir = "DOWN"  -> <<p[1], p[2] + 1>>
      [] dir = "LEFT"  -> <<p[1] - 1, p[2]>>
      [] dir = "RIGHT" -> <<p[1] + 1, p[2]>>
      [] dir = "NONE"  -> p

(* The times of pacman.h, 5000 and 3000, are whole numbers of frames.      *)
ASSUME NumbersAssumption ==
    /\ NUM_GHOSTS \in Nat /\ NUM_LIVES \in Nat \ {0}
    /\ MAX_LEADERBOARD_ENTRIES \in Nat /\ UINT \in Nat
    /\ BOOSTED_TIME \in 1 .. UINT - 1 /\ BOOSTED_TIME % 100 = 0
    /\ RESPAWN_TIME \in 1 .. UINT - 1 /\ RESPAWN_TIME % 100 = 0

(* The maze has a wall all around it, and nobody starts in a wall.         *)
ASSUME MazeAssumption ==
    /\ Maze \in [Point -> {"#", ".", "*", " "}] /\ IsFiniteSet(Point)
    /\ \A p \in Point : Maze[p] # "#" =>
                          \A d \in Direction : Step(p, d) \in Point
    /\ PacmanSpawn \in Point /\ Maze[PacmanSpawn] # "#"
    /\ GhostSpawn \in [Ghost -> Point]
    /\ \A i \in Ghost : Maze[GhostSpawn[i]] # "#"

VARIABLES map, pacman, ghosts,
          behaviour,         \* of all ghosts
          lives, leaderboardSize,
          pc, next           \* next ghost to move

game == <<map, pacman, ghosts, behaviour, lives>>
vars == <<game, leaderboardSize, pc, next>>

NewPacman == [pos |-> PacmanSpawn, isBoosted |-> FALSE, boostedTimer |-> 0,
              isAlive |-> TRUE, respawnTimer |-> 0]
NewGhost(i) == [pos |-> GhostSpawn[i], tile |-> ".", isAlive |-> TRUE,
                deadTimer |-> 0]

(* The variable game is set up by the first initializeRound and not read   *)
(* before.                                                                 *)
Init ==
    /\ map = [Maze EXCEPT ![PacmanSpawn] = "C"]
    /\ pacman = NewPacman
    /\ ghosts = [i \in Ghost |-> NewGhost(i)]
    /\ behaviour = "CHASE"
    /\ lives = NUM_LIVES
    /\ leaderboardSize = 0
    /\ pc = "name" /\ next = 0

(* The player has given a name and a round begins.                         *)
initializeRound ==
    /\ pc = "name" /\ leaderboardSize < MAX_LEADERBOARD_ENTRIES
    /\ map' = [Maze EXCEPT ![PacmanSpawn] = "C"]
    /\ pacman' = NewPacman
    /\ ghosts' = [i \in Ghost |-> NewGhost(i)]
    /\ behaviour' = "CHASE"
    /\ lives' = NUM_LIVES
    /\ pc' = "pacman"
    /\ UNCHANGED <<leaderboardSize, next>>

(* The leaderboard is full: "game over", for ever.                         *)
renderGameOver ==
    /\ pc = "name" /\ leaderboardSize >= MAX_LEADERBOARD_ENTRIES
    /\ pc' = "over"
    /\ UNCHANGED <<game, leaderboardSize, next>>

-----------------------------------------------------------------------------
isWall(p)  == map[p] = "#"
isGhost(p) == \E i \in Ghost : ghosts[i].pos = p

(* Ghosts that are alive at p.                                             *)
GhostsAt(p) == {i \in Ghost : ghosts[i].isAlive /\ ghosts[i].pos = p}

(* The behaviour of the ghosts after changeGhostsBehaviour(bh).            *)
changeGhostsBehaviour(bh) == bh

WalksAnywhere(p) == TRUE
MayWalk(p)       == ~ isWall(p)

(* Pacman moves, eats what it finds, and then eats the ghosts that are     *)
(* there or is eaten by them.  Against a wall it stays, and the wall is    *)
(* where it looks for ghosts.                                              *)
updatePacmanPosition(dir) ==
    LET to      == Step(pacman.pos, dir)
        moves   == MayWalk(to)
        item    == IF to = pacman.pos THEN " " ELSE map[to]
        booster == moves /\ item = "*"
        boosted == pacman.isBoosted \/ booster
        eaten   == IF boosted THEN GhostsAt(to) ELSE {}
        caught  == ~ boosted /\ GhostsAt(to) # {}
    IN  /\ pc = "pacman"
        /\ map' = IF moves THEN [map EXCEPT ![pacman.pos] = " ", ![to] = "C"]
                  ELSE map
        /\ ghosts' = [i \in Ghost |->
             IF i \in eaten
             THEN [ghosts[i] EXCEPT !.pos = GhostSpawn[i], !.isAlive = FALSE,
                                    !.deadTimer = RESPAWN_TIME]
             ELSE ghosts[i]]
        /\ pacman' = [pacman EXCEPT
             !.pos = IF caught THEN PacmanSpawn ELSE IF moves THEN to ELSE @,
             !.isBoosted = boosted,
             !.boostedTimer = IF booster THEN BOOSTED_TIME ELSE @,
             !.isAlive = IF caught THEN FALSE ELSE @,
             !.respawnTimer = IF caught THEN RESPAWN_TIME ELSE @]
        /\ behaviour' = IF caught THEN changeGhostsBehaviour("STILL")
                        ELSE IF booster THEN changeGhostsBehaviour("RUN_AWAY")
                        ELSE behaviour
        /\ lives' = IF caught THEN lives - 1 ELSE lives
        /\ pc' = "ghosts" /\ next' = 0
        /\ UNCHANGED leaderboardSize

-----------------------------------------------------------------------------
(* random is drawn until the ghost neither hits a wall nor another ghost   *)
(* (nor stays: its own position is a ghost's).                             *)
GhostMoves(i) == {p \in {Step(ghosts[i].pos, d) : d \in Direction} :
                    ~ isWall(p) /\ ~ isGhost(p)}

(* The tile that the ghost covers at p, to be put back when it leaves.     *)
TileKept(i, p)  == ghosts[i].tile
TileUnder(i, p) == IF map[p] \in {" ", "*", "."} THEN map[p] ELSE " "

moveGhost ==
    /\ pc = "ghosts" /\ next < NUM_GHOSTS
    /\ ghosts[next].isAlive /\ behaviour # "STILL"
    /\ \E p \in GhostMoves(next) :
          /\ map' = [map EXCEPT ![ghosts[next].pos] = ghosts[next].tile,
                                ![p] = "G"]
          /\ ghosts' = [ghosts EXCEPT ![next].tile = TileUnder(next, p),
                                      ![next].pos = p]
    /\ next' = next + 1
    /\ UNCHANGED <<pacman, behaviour, lives, leaderboardSize, pc>>

(* A ghost that cannot move keeps the loop drawing.                        *)
Stuck == /\ pc = "ghosts" /\ next < NUM_GHOSTS
         /\ ghosts[next].isAlive /\ behaviour # "STILL"
         /\ GhostMoves(next) = {}

stuckGhost == Stuck /\ UNCHANGED vars

skipGhost ==
    /\ pc = "ghosts" /\ next < NUM_GHOSTS
    /\ ~ ghosts[next].isAlive
    /\ next' = next + 1
    /\ UNCHANGED <<game, leaderboardSize, pc>>

(* All ghosts have moved, or one is still: then none of those that follow  *)
(* moves.                                                                  *)
endOfGhosts ==
    /\ pc = "ghosts"
    /\ \/ next = NUM_GHOSTS
       \/ next < NUM_GHOSTS /\ ghosts[next].isAlive /\ behaviour = "STILL"
    /\ pc' = "timers" /\ next' = 0
    /\ UNCHANGED <<game, leaderboardSize>>

-----------------------------------------------------------------------------
(* updateGameState passes 100 whatever time has passed.  Timers are        *)
(* unsigned: <= 0 is = 0.                                                  *)
MeasuredTime   == 200
Elapsed        == 100
Stopped(timer) == timer
Less(timer)    == (timer - Elapsed) % UINT
Expired(timer) == timer = 0

updateTimerState ==
    LET boostEnds == pacman.isBoosted /\ Expired(Less(pacman.boostedTimer))
        respawns  == ~ pacman.isAlive /\ Expired(Less(pacman.respawnTimer))
    IN  /\ pc = "timers"
        /\ pacman' = [pacman EXCEPT
             !.boostedTimer = IF pacman.isBoosted THEN Less(@) ELSE @,
             !.isBoosted = @ /\ ~ boostEnds,
             !.respawnTimer = IF pacman.isAlive THEN @ ELSE Less(@),
             !.isAlive = @ \/ respawns]
        /\ behaviour' = IF boostEnds \/ respawns
                        THEN changeGhostsBehaviour("CHASE") ELSE behaviour
        /\ ghosts' = [i \in Ghost |->
             IF ghosts[i].isAlive THEN ghosts[i]
             ELSE [ghosts[i] EXCEPT
                     !.deadTimer = Less(@),
                     !.isAlive = Expired(Less(ghosts[i].deadTimer))]]
        /\ pc' = "check"
        /\ UNCHANGED <<map, lives, leaderboardSize, next>>

(* No life left: the score goes to the leaderboard and a new player comes. *)
(* isRoundOver is never true: nothing changes pelletsRemaining.            *)
playerHasNoLife ==
    /\ pc = "check" /\ lives = 0
    /\ leaderboardSize' = IF leaderboardSize < MAX_LEADERBOARD_ENTRIES
                          THEN leaderboardSize + 1 ELSE leaderboardSize
    /\ pc' = "name"
    /\ UNCHANGED <<game, next>>

nextFrame ==
    /\ pc = "check" /\ lives > 0
    /\ pc' = "pacman"
    /\ UNCHANGED <<game, leaderboardSize, next>>

over == pc = "over" /\ UNCHANGED vars

Next ==
    \/ initializeRound \/ renderGameOver
    \/ \E dir \in Direction : updatePacmanPosition(dir)
    \/ moveGhost \/ stuckGhost \/ skipGhost \/ endOfGhosts
    \/ updateTimerState \/ playerHasNoLife \/ nextFrame \/ over

Spec == Init /\ [][Next]_vars

(* The process that plays is never blocked and so keeps getting the        *)
(* processor (ReadyRuns of Process).                                       *)
FairSpec == Spec /\ WF_vars(Next)

-----------------------------------------------------------------------------
PacmanType == [pos : Point, isBoosted : BOOLEAN, boostedTimer : 0 .. UINT - 1,
               isAlive : BOOLEAN, respawnTimer : 0 .. UINT - 1]
GhostType  == [pos : Point, tile : {".", "*", " "},
               isAlive : BOOLEAN, deadTimer : 0 .. UINT - 1]

TypeOK ==
    /\ map \in [Point -> Tile]
    /\ pacman \in PacmanType
    /\ ghosts \in [Ghost -> GhostType]
    /\ behaviour \in {"CHASE", "RUN_AWAY", "STILL"}
    /\ lives \in 0 .. NUM_LIVES
    /\ leaderboardSize \in 0 .. MAX_LEADERBOARD_ENTRIES
    /\ pc \in {"name", "pacman", "ghosts", "timers", "check", "over"}
    /\ next \in 0 .. NUM_GHOSTS

(* Whatever is drawn over it and put back, no wall is erased or added, and *)
(* nobody is in one: Pacman and the ghosts never leave the maze            *)
(* (updatePacmanPosition, updateGhostsPositions).                          *)
WallsStand ==
    /\ \A p \in Point : map[p] = "#" <=> Maze[p] = "#"
    /\ Maze[pacman.pos] # "#"
    /\ \A i \in Ghost : Maze[ghosts[i].pos] # "#"

(* Between frames the timer of a boost lies between one frame and          *)
(* BOOSTED_TIME: it does not skip over 0 and wrap, which would make the    *)
(* boost last for ever.  Likewise for the timers of the dead               *)
(* (updateTimerState).                                                     *)
TimersDoNotWrap ==
    pc \in {"pacman", "check"} =>
        /\ pacman.isBoosted => pacman.boostedTimer \in 1 .. BOOSTED_TIME
        /\ ~ pacman.isAlive => pacman.respawnTimer \in 1 .. RESPAWN_TIME
        /\ \A i \in Ghost : ~ ghosts[i].isAlive =>
                               ghosts[i].deadTimer \in 1 .. RESPAWN_TIME

(* Pellets that are still to be eaten, on the map or under a ghost.        *)
Pellets == Cardinality({p \in Point : map[p] = "."})
           + Cardinality({i \in Ghost : ghosts[i].tile = "."})

(* Within a round ghosts that put tiles back, die and return never make    *)
(* pellets (updateGhostsPositions).                                        *)
PelletsNeverGrow == [][~ initializeRound => Pellets' <= Pellets]_vars

(* An eaten ghost comes back, unless the game is over or another ghost is  *)
(* stuck (updateTimerState).                                               *)
GhostsReturn ==
    \A i \in Ghost :
        ~ ghosts[i].isAlive ~> ghosts[i].isAlive \/ pc = "over" \/ Stuck

-----------------------------------------------------------------------------
(* What comments say and the code violates.                                *)

(* The redraw loop ends unless "you are infinitely unlucky": some draw     *)
(* lets the ghost move.                                                    *)
GhostCanMove == ~ Stuck

(* "Check if there is a collision with any ghost": when Pacman has moved   *)
(* and lives, no living ghost is where it stands.                          *)
CollisionSeen == pc = "ghosts" /\ next = 0 /\ pacman.isAlive =>
                     GhostsAt(pacman.pos) = {}
=============================================================================
