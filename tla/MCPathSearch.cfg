SPECIFICATION SearchSpec
CONSTANTS
    MAP_WIDTH = 3
    MAP_HEIGHT = 3
    Starts <- MCStarts
INVARIANTS
    BfsRight
PROPERTY
    SearchEnds
