------------------------------- MODULE Input -------------------------------
(***************************************************************************)
(* How a key reaches the game.  The keyboard interrupt stores characters   *)
(* in the circular buffer (Keyboard); a process of its own reads them one  *)
(* by one and stores each in a byte that it shares with the game (user.c); *)
(* the game samples that byte for the player's name and once per frame.    *)
(*                                                                         *)
(* The two processes are preempted anywhere: read and the store are two    *)
(* steps, and a sample of the byte is one.  What the game does between two *)
(* samples is Pacman's business: here a round may end after any frame.     *)
(* Both have attached the page.  Its byte and the characters of the name   *)
(* are whatever was in memory.  The store to x[2], past the end of the     *)
(* array, is removed by the compiler (-O2): nc is in a register.           *)
(*                                                                         *)
(* StoresAlways, StoresNever, SameKeyAgain and NoDefaultCase are plausible *)
(* bugs: each is a wrong form of the definition that follows it.           *)
(***************************************************************************)
EXTENDS Integers, SequencesExt

CONSTANTS
    MAX_BUFF_SIZE, MAX_BUFFER_SIZE, Char, NUL, char_map, Key,  \* Keyboard
    MAX_NAME_LENGTH,
    MAX_LEADERBOARD_ENTRIES,
    MAX_TYPED          \* bound on the characters that are typed

VARIABLES
    keys, write_idx, read_idx, size, put_ret, out,   \* Keyboard
    ipc, x,            \* input_processing: next step, character read
    addr,              \* the shared byte
    gpc,               \* the game: "name", "frame", "stuck" or "over"
    name, numChars, lastChar,                        \* get_player_name
    direction,         \* of Pacman
    level, leaderboardSize,
    typed,             \* history: characters the driver accepted
    values,            \* history: values of the byte
    asked              \* history: length of values when the name was asked

kbdVars   == <<keys, write_idx, read_idx, size, put_ret, out>>
inputVars == <<ipc, x>>
gameVars  == <<gpc, name, numChars, lastChar, direction, level,
               leaderboardSize, asked>>
vars      == <<kbdVars, inputVars, addr, gameVars, typed, values>>

K == INSTANCE Keyboard

ASSUME InputAssumption ==
    /\ K!KeyboardAssumption
    /\ {MAX_NAME_LENGTH, MAX_LEADERBOARD_ENTRIES, MAX_TYPED} \subseteq Nat \ {0}

(* Characters are bytes in ASCII.                                          *)
Dot      == 46
lower(c) == IF c \in 65 .. 90 THEN c + 32 ELSE c

Init ==
    /\ K!Init
    /\ ipc = "read" /\ x = NUL
    /\ addr \in Char
    /\ gpc = "name" /\ numChars = 0 /\ lastChar = NUL
    /\ \E junk \in Char : name = [i \in 0 .. MAX_NAME_LENGTH - 1 |-> junk]
    /\ direction = "NONE" /\ level = 0 /\ leaderboardSize = 0
    /\ typed = << >> /\ values = <<addr>> /\ asked = 1

-----------------------------------------------------------------------------
kbd_routine(key) ==
    /\ Len(typed) < MAX_TYPED
    /\ K!kbd_routine(key)
    /\ typed' = IF put_ret' THEN Append(typed, keys'[write_idx]) ELSE typed
    /\ UNCHANGED <<inputVars, addr, gameVars, values>>

(* input_processing: read(x, 1), again at once if there was no key.        *)
StoresAlways == "store"
StoresNever  == "read"
AfterRead    == IF out' = << >> THEN "read" ELSE "store"

input_read ==
    /\ ipc = "read"
    /\ K!sys_read(1)
    /\ x' = IF out' = << >> THEN x ELSE Head(out')
    /\ ipc' = AfterRead
    /\ UNCHANGED <<addr, gameVars, typed, values>>

input_store ==
    /\ ipc = "store"
    /\ addr' = x
    /\ values' = Append(values, x)
    /\ ipc' = "read"
    /\ UNCHANGED <<kbdVars, x, gameVars, typed>>

-----------------------------------------------------------------------------
initializeRound(l) ==
    /\ gpc' = "frame"
    /\ direction' = "NONE"
    /\ level' = l

(* get_player_name, one round of its loop: a '.' ends the name, a new      *)
(* character is added.  A name that has all its characters ends too.       *)
SameKeyAgain(input) == input # NUL
IsNewChar(input)    == input # NUL /\ input # lastChar

get_player_name ==
    /\ gpc = "name"
    /\ \/ /\ numChars = MAX_NAME_LENGTH \/ addr = Dot
          /\ initializeRound(0)
          /\ UNCHANGED <<name, numChars, lastChar>>
       \/ /\ numChars < MAX_NAME_LENGTH /\ addr # Dot
          /\ IF IsNewChar(addr)
             THEN /\ name' = [name EXCEPT ![numChars] = addr]
                  /\ numChars' = numChars + 1
                  /\ lastChar' = addr
             ELSE UNCHANGED <<name, numChars, lastChar>>
          /\ UNCHANGED <<gpc, direction, level>>
    /\ UNCHANGED <<kbdVars, inputVars, addr, leaderboardSize, typed, values,
                   asked>>

DirectionOf(c) ==
    CASE lower(c) = 119 -> "UP"   [] lower(c) = 115 -> "DOWN"
      [] lower(c) = 97  -> "LEFT" [] lower(c) = 100 -> "RIGHT"
      [] OTHER -> "NONE"

NoDefaultCase(c) ==
    direction' = IF DirectionOf(c) = "NONE" THEN direction ELSE DirectionOf(c)
processInput(c)  == direction' = DirectionOf(c)

(* A frame that ends neither a round nor the game.                         *)
frame ==
    /\ gpc = "frame"
    /\ processInput(addr)
    /\ UNCHANGED <<kbdVars, inputVars, addr, gpc, name, numChars, lastChar,
                   level, leaderboardSize, typed, values, asked>>

(* A frame that never ends: a shut-in ghost (Pacman's Stuck) keeps the loop*)
(* that draws its direction going.                                         *)
stuck_frame ==
    /\ gpc = "frame"
    /\ processInput(addr)
    /\ gpc' = "stuck"
    /\ UNCHANGED <<kbdVars, inputVars, addr, name, numChars, lastChar, level,
                   leaderboardSize, typed, values, asked>>

next_level ==
    /\ gpc = "frame" /\ level = 0
    /\ initializeRound(1)
    /\ UNCHANGED <<kbdVars, inputVars, addr, name, numChars, lastChar,
                   leaderboardSize, typed, values, asked>>

(* The last life is lost, or the last level is won: the next player, or    *)
(* game over for ever.                                                     *)
game_ends ==
    /\ gpc = "frame"
    /\ processInput(addr)
    /\ leaderboardSize' = leaderboardSize + 1
    /\ gpc' = IF leaderboardSize' >= MAX_LEADERBOARD_ENTRIES THEN "over"
              ELSE "name"
    /\ numChars' = 0 /\ lastChar' = NUL
    /\ asked' = Len(values)
    /\ UNCHANGED <<kbdVars, inputVars, addr, name, level, typed, values>>

InputProcess == input_read \/ input_store

Next ==
    \/ \E key \in Key : kbd_routine(key)
    \/ InputProcess
    \/ get_player_name \/ frame \/ stuck_frame \/ next_level \/ game_ends

(* Neither process ever blocks, and a ready process runs (ReadyRuns): both *)
(* loops go on, the game's until a frame does not end.  A round need not   *)
(* end either.                                                             *)
Spec == /\ Init /\ [][Next]_vars
        /\ WF_vars(InputProcess)
        /\ WF_vars(get_player_name) /\ WF_vars(frame)

-----------------------------------------------------------------------------
(* Properties.                                                             *)

(* No character is lost, doubled or moved on its way: those the driver     *)
(* accepted are those that went through the byte, then the one in the      *)
(* input process, then those in the buffer (kbd_routine, sys_read,         *)
(* input_processing).                                                      *)
KeysConserved ==
    typed = Tail(values) \o (IF ipc = "store" THEN <<x>> ELSE << >>) \o K!stored

(* The characters of the name are values that the byte has had since the   *)
(* name was asked for, in order and each once, however often the game      *)
(* looks at the byte between two keys; none is NUL or the final '.'        *)
(* (get_player_name).                                                      *)
NameIsTyped ==
    gpc = "name" =>
        \E pos \in [0 .. numChars - 1 -> asked .. Len(values)] :
            \A i \in 0 .. numChars - 1 :
                /\ name[i] = values[pos[i]]
                /\ name[i] \notin {NUL, Dot}
                /\ \A j \in 0 .. i - 1 : pos[j] < pos[i]

(* Once typing has stopped the game follows the last key that the driver   *)
(* accepted, in every round, unless a frame never ends: no key waits for   *)
(* ever in the buffer, in the input process or in the byte, whoever is     *)
(* preempted (input_processing, gameloop).  Before any key the byte is     *)
(* whatever it was.                                                        *)
LastKey == IF typed = << >> THEN Head(values) ELSE Last(typed)

GameFollows ==
    \/ <>[](gpc = "frame" => direction = DirectionOf(LastKey))
    \/ <>(gpc = "stuck")

-----------------------------------------------------------------------------
(* What a comment says, and the code violates.                             *)

(* A name consists of "new" characters: typed since it was asked for.      *)
NameIsOwn ==
    gpc = "name" /\ numChars > 0 => Len(values) > asked
=============================================================================
