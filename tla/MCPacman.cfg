SPECIFICATION FairSpec
CONSTANTS
    Maze <- MCMaze
    PacmanSpawn <- MCPacmanSpawn
    GhostSpawn <- MCGhostSpawn
    NUM_GHOSTS = 2
    NUM_LIVES = 2
    MAX_LEADERBOARD_ENTRIES = 1
    BOOSTED_TIME = 400
    RESPAWN_TIME = 300
    UINT = 1024
INVARIANTS
    WallsStand TimersDoNotWrap
PROPERTIES
    PelletsNeverGrow GhostsReturn
