----------------------------- MODULE PathSearch -----------------------------
(***************************************************************************)
(* The three searches by which a ghost is to find its way: dfs, bfs and    *)
(* dijkstra of pacman.c, with the priority queue of enqueue and dequeue.   *)
(* updateGhostsPositions has the calls commented out and draws random      *)
(* instead; the functions are checked here as they stand.                  *)
(*                                                                         *)
(* Maze, start and target are chosen at the beginning.  Each iteration of  *)
(* the search loop is a step, and so is each iteration of the loop that    *)
(* goes back from the target along previous.  A read of an element of      *)
(* previous that was never written ends in "wild", a write after the end   *)
(* of queue or stack in "smashed".                                         *)
(*                                                                         *)
(* MarkedLate, MarkedNever and TakesLast are plausible bugs: each is a     *)
(* wrong form of the definition that follows it.                           *)
(***************************************************************************)
EXTENDS Integers, SequencesExt

CONSTANTS MAP_WIDTH, MAP_HEIGHT,
          Starts            \* points where a search begins

(* The Points of a maze.                                                   *)
Board    == (0 .. MAP_WIDTH - 1) \X (0 .. MAP_HEIGHT - 1)
Size     == MAP_WIDTH * MAP_HEIGHT
INFINITY == 2 * Size        \* above every length of a path
None     == <<-1, -1>>

ASSUME PathSearchAssumption ==
    /\ MAP_WIDTH \in Nat \ {0} /\ MAP_HEIGHT \in Nat \ {0}
    /\ Starts \subseteq Board

VARIABLES
    algorithm, walls, start, target,      \* the arguments
    at,             \* "search", "back", "done", "wild", "smashed"
    queue, front,   \* the queue or stack: positions and priorities
    visited, previous, distances,
    pos,            \* where the way back has got to
    found, dir      \* what the search returns

input == <<algorithm, walls, start, target>>
searchVars == <<input, at, queue, front, visited, previous, distances,
                pos, found, dir>>

Node(p, priority) == [position |-> p, priority |-> priority]

SearchInit ==
    /\ algorithm \in {"dfs", "bfs", "dijkstra"}
    /\ start \in Starts /\ target \in Board
    /\ walls \in SUBSET (Board \ {start, target})
    /\ at = "search"
    /\ queue = <<Node(start, 0)>> /\ front = 1
    /\ visited = IF algorithm = "dijkstra" THEN {} ELSE {start}
    /\ previous = [p \in Board |-> None]
    /\ distances = [p \in Board |-> IF p = start THEN 0 ELSE INFINITY]
    /\ pos = None /\ found = FALSE /\ dir = "NONE"

-----------------------------------------------------------------------------
(* Coordinates are unsigned: one less than 0 is not below MAP_WIDTH.       *)
isValidMove(p) == p \in Board \ walls

moves(p) == <<<<p[1] - 1, p[2]>>, <<p[1] + 1, p[2]>>,
              <<p[1], p[2] - 1>>, <<p[1], p[2] + 1>>>>

(* Those of the four moves that are in S, in the order of the loop.        *)
among(p, S) ==
    LET taken[i \in 0 .. 4] ==
            IF i = 0 THEN <<>>
            ELSE IF moves(p)[i] \in S THEN Append(taken[i - 1], moves(p)[i])
            ELSE taken[i - 1]
    IN  taken[4]

determineDirection(a, b) ==
    CASE b[1] > a[1] -> "RIGHT"
      [] b[1] < a[1] -> "LEFT"
      [] b[1] = a[1] /\ b[2] > a[2] -> "DOWN"
      [] b[1] = a[1] /\ b[2] < a[2] -> "UP"
      [] OTHER -> "NONE"

getNextPoint(p, d) ==
    CASE d = "UP"    -> <<p[1], p[2] + 1>>
      [] d = "DOWN"  -> <<p[1], p[2] - 1>>
      [] d = "RIGHT" -> <<p[1] + 1, p[2]>>
      [] d = "LEFT"  -> <<p[1] - 1, p[2]>>
      [] OTHER       -> p

(* The search meets the target: the way back begins there.                 *)
arrives(p) ==
    /\ p = target
    /\ at' = "back" /\ pos' = p /\ found' = TRUE
    /\ UNCHANGED <<visited, previous, distances>>

(* The search goes on with what it has put in the queue.                   *)
goesOn(q) ==
    /\ at' = IF Len(q) > Size THEN "smashed" ELSE "search"
    /\ queue' = q
    /\ UNCHANGED <<pos, found, dir>>

(* Nothing is left to search: NONE.                                        *)
gives_up(left) ==
    /\ at = "search" /\ ~ left
    /\ at' = "done"
    /\ UNCHANGED <<input, queue, front, visited, previous, distances, pos,
                   found, dir>>

-----------------------------------------------------------------------------
MarkedLate(p, new)  == visited \cup {p}
MarkedNever(p, new) == visited
Marked(p, new)      == visited \cup new

TakesLast == Last(queue).position
Taken     == queue[front].position

bfs ==
    /\ algorithm = "bfs" /\ at = "search" /\ front <= Len(queue)
    /\ LET p   == Taken
           new == among(p, {m \in Board : isValidMove(m) /\ m \notin visited})
       IN  \/ arrives(p) /\ UNCHANGED <<queue, dir>>
           \/ /\ p # target
              /\ goesOn(queue \o [i \in DOMAIN new |-> Node(new[i], 0)])
              /\ visited' = Marked(p, ToSet(new))
              /\ previous' = [q \in Board |-> IF q \in ToSet(new) THEN p
                                              ELSE previous[q]]
              /\ UNCHANGED distances
    /\ front' = front + 1
    /\ UNCHANGED input

(* dfs marks visited[y][x] and tests visited[x][y]: another point, or what *)
(* lies behind the array when x is too large for a row.                    *)
Tested(p) == <<p[2], p[1]>>

dfs ==
    /\ algorithm = "dfs" /\ at = "search" /\ queue # <<>>
    /\ LET p      == Last(queue).position
           beyond == {m \in ToSet(moves(p)) : isValidMove(m) /\ m[1] >= MAP_HEIGHT}
       IN  \/ arrives(p) /\ queue' = Front(queue) /\ UNCHANGED dir
           \/ /\ p # target
              /\ \E garbage \in SUBSET beyond :
                   LET isNew(s, m) == /\ isValidMove(m)
                                      /\ m \notin garbage
                                      /\ Tested(m) \notin s.visited
                       push(s, m) == IF ~ isNew(s, m) THEN s
                           ELSE [stack    |-> Append(s.stack, Node(m, 0)),
                                 visited  |-> s.visited \cup {m},
                                 previous |-> [s.previous EXCEPT ![m] = p]]
                       s == FoldLeft(push, [stack |-> Front(queue),
                                            visited |-> visited,
                                            previous |-> previous], moves(p))
                   IN  /\ goesOn(s.stack)
                       /\ visited' = s.visited /\ previous' = s.previous
              /\ UNCHANGED distances
    /\ UNCHANGED <<input, front>>

(* dequeue: the first of the nodes with the least priority.  Those after   *)
(* it move one place down, and front moves one place up.                   *)
minIndex == CHOOSE i \in front .. Len(queue) :
               \A j \in front .. Len(queue) :
                  \/ queue[i].priority < queue[j].priority
                  \/ queue[i].priority = queue[j].priority /\ i <= j

dequeue == [i \in DOMAIN queue |->
              IF i \in minIndex .. Len(queue) - 1 THEN queue[i + 1] ELSE queue[i]]

dijkstra ==
    /\ algorithm = "dijkstra" /\ at = "search" /\ front <= Len(queue)
    /\ LET p      == queue[minIndex].position
           length == distances[p] + 1
           new    == among(p, {m \in Board : isValidMove(m) /\ distances[m] > length})
       IN  \/ arrives(p) /\ queue' = dequeue /\ UNCHANGED dir
           \/ /\ p # target
              /\ goesOn(dequeue \o [i \in DOMAIN new |-> Node(new[i], length)])
              /\ distances' = [q \in Board |-> IF q \in ToSet(new) THEN length
                                               ELSE distances[q]]
              /\ previous' = [q \in Board |-> IF q \in ToSet(new) THEN p
                                              ELSE previous[q]]
              /\ UNCHANGED visited
    /\ front' = front + 1
    /\ UNCHANGED input

(* Back along previous to the point that was reached from start.           *)
backtrack ==
    /\ at = "back"
    /\ \/ /\ previous[pos] = None
          /\ at' = "wild"
          /\ UNCHANGED <<pos, dir>>
       \/ /\ previous[pos] = start
          /\ dir' = IF algorithm = "dijkstra" THEN determineDirection(start, pos)
                    ELSE determineDirection(pos, target)
          /\ at' = "done"
          /\ UNCHANGED pos
       \/ /\ previous[pos] \notin {None, start}
          /\ pos' = previous[pos]
          /\ UNCHANGED <<at, dir>>
    /\ UNCHANGED <<input, queue, front, visited, previous, distances, found>>

returned == at \in {"done", "wild", "smashed"} /\ UNCHANGED searchVars

SearchNext ==
    \/ bfs \/ dfs \/ dijkstra \/ backtrack \/ returned
    \/ gives_up(IF algorithm = "dfs" THEN queue # <<>> ELSE front <= Len(queue))

(* A search runs in the game's process, which keeps getting the processor. *)
SearchSpec == SearchInit /\ [][SearchNext]_searchVars /\ WF_searchVars(SearchNext)

-----------------------------------------------------------------------------
(* The points that can be reached from a in at most n steps.               *)
Near(p) == {q \in Board \ walls : q \in ToSet(moves(p))}

Within(a) ==
    LET ball[n \in 0 .. Size] ==
            IF n = 0 THEN {a}
            ELSE LET less == ball[n - 1]
                 IN  less \cup UNION {Near(q) : q \in less}
    IN  ball

Distance(a, b) == LET ball == Within(a)
                  IN  CHOOSE n \in 0 .. Size : /\ b \in ball[n]
                                               /\ \A k \in 0 .. n - 1 : b \notin ball[k]
Reachable == target \in Within(start)[Size]

(* bfs finds the target if and only if there is a way.                     *)
BfsComplete == algorithm = "bfs" /\ at \in {"back", "done"} => (found <=> Reachable)

(* When bfs has found the target, its way back is a shortest way: it is    *)
(* one step nearer to the start each time.                                 *)
BfsShortest ==
    algorithm = "bfs" /\ at = "back" /\ previous[pos] # None =>
        /\ pos \in Near(previous[pos])
        /\ Distance(start, pos) = Distance(start, previous[pos]) + 1

(* What bfs promises as a whole.                                           *)
BfsRight == BfsComplete /\ BfsShortest

(* bfs and dijkstra end, for every maze, and never write behind their      *)
(* array of MAP_HEIGHT * MAP_WIDTH places: no point is enqueued so often.  *)
(* Only a search for the point where it starts reads what was not written. *)
SearchEnds ==
    algorithm # "dfs" => <>(at = "done" \/ (at = "wild" /\ start = target))

(* The first step of a way to the target.                                  *)
GoodMove(p) == p \in Near(start) /\ target \in Within(p)[Size]

(* "backtrack to find the first move": no search keeps it.                 *)
FirstMoveFound ==
    at = "done" /\ found => GoodMove(getNextPoint(start, dir))

(* dijkstra and dfs find the target if there is a way.                     *)
Complete == at = "done" => (found <=> Reachable)

(* dfs ends within its stack.                                              *)
StackFits == at # "smashed"
=============================================================================
