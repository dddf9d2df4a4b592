------------------------------ MODULE Console -------------------------------
(***************************************************************************)
(* The screen of io.c and the calls that change it: write (in chunks of    *)
(* MAX_BUFFER_SIZE through kern_buff), gotoxy and set_color of sys.c, and  *)
(* the kernel's own printk.  All processes share cursor and colours, so it *)
(* does not matter who calls.  A call that refuses its arguments changes   *)
(* nothing but ret.                                                        *)
(*                                                                         *)
(* NoLastChunk and ColumnsUnchecked are plausible bugs: each is a wrong    *)
(* form of the definition that follows it.                                 *)
(***************************************************************************)
EXTENDS Integers, SequencesExt

CONSTANTS
    SCREEN_COLUMNS, SCREEN_ROWS,
    FirstRow,               \* of the cursor at boot
    MAX_BUFFER_SIZE,
    WHITE,                  \* the last colour; BLACK is 0
    BootColours,            \* fg_color and bg_color at boot
    Text,                   \* texts in the programs' buffers
    NewLine,
    ColourArgs              \* arguments of set_color

ASSUME ConsoleAssumption ==
    /\ SCREEN_COLUMNS \in Nat \ {0} /\ SCREEN_ROWS \in Nat \ {0}
    /\ FirstRow \in 0 .. SCREEN_ROWS - 1
    /\ MAX_BUFFER_SIZE \in Nat \ {0} /\ WHITE \in Nat
    /\ BootColours \in (0 .. WHITE) \X (0 .. WHITE)
    /\ ColourArgs \subseteq Int \X Int
    /\ \A t \in Text : t \in Seq(ToSet(t))

VARIABLES x_screen, y_screen, fg_color, bg_color,
          screen,           \* cell -> character and colours
          ret               \* of the last call

consoleVars == <<x_screen, y_screen, fg_color, bg_color, screen, ret>>

Blank == <<" ", BootColours>>

ConsoleInit ==
    /\ x_screen = 0 /\ y_screen = FirstRow
    /\ fg_color = BootColours[1] /\ bg_color = BootColours[2]
    /\ screen = [c \in 0 .. SCREEN_ROWS * SCREEN_COLUMNS - 1 |-> Blank]
    /\ ret = 0

EBADF      == 9
EFAULT     == 14
EINVAL     == 22
EOUTSCREEN == 43
ENOCOLOR   == 44

-----------------------------------------------------------------------------
(* The cursor and screen after one character.                              *)
Below(y) == (y + 1) % SCREEN_ROWS

printc(s, c) ==
    IF c = NewLine
    THEN [s EXCEPT !.x = 0, !.y = Below(@)]
    ELSE LET last == s.x + 1 >= SCREEN_COLUMNS
         IN  [x |-> IF last THEN 0 ELSE s.x + 1,
              y |-> IF last THEN Below(s.y) ELSE s.y,
              screen |-> [s.screen EXCEPT ![s.y * SCREEN_COLUMNS + s.x] =
                            <<c, <<fg_color, bg_color>>>>]]

Screen == [x |-> x_screen, y |-> y_screen, screen |-> screen]

sys_write_console(s, buffer) ==
    LET after[i \in 0 .. Len(buffer)] ==
            IF i = 0 THEN s ELSE printc(after[i - 1], buffer[i])
    IN  after[Len(buffer)]

Show(s) == /\ x_screen' = s.x /\ y_screen' = s.y /\ screen' = s.screen
           /\ UNCHANGED <<fg_color, bg_color>>

(* What copy_from_user brings to kern_buff each time: while more than      *)
(* MAX_BUFFER_SIZE characters remain, that many; then the rest.            *)
NoLastChunk(n) == n \div MAX_BUFFER_SIZE
NumChunks(n)   == (n + MAX_BUFFER_SIZE - 1) \div MAX_BUFFER_SIZE

Chunks(t) ==
    [k \in 1 .. NumChunks(Len(t)) |->
        LET end == k * MAX_BUFFER_SIZE
        IN  SubSeq(t, end - MAX_BUFFER_SIZE + 1,
                   IF end <= Len(t) THEN end ELSE Len(t))]

write_chunks(s, chunks) ==
    LET after[k \in 0 .. Len(chunks)] ==
            IF k = 0 THEN s ELSE sys_write_console(after[k - 1], chunks[k])
    IN  after[Len(chunks)]

(* readable: does access_ok accept the buffer?                             *)
sys_write(fd, t, size, readable) ==
    \/ /\ fd # 1
       /\ ret' = - EBADF
       /\ UNCHANGED <<x_screen, y_screen, fg_color, bg_color, screen>>
    \/ /\ fd = 1 /\ ~ readable
       /\ ret' = - EFAULT
       /\ UNCHANGED <<x_screen, y_screen, fg_color, bg_color, screen>>
    \/ /\ fd = 1 /\ readable /\ size < 0
       /\ ret' = - EINVAL
       /\ UNCHANGED <<x_screen, y_screen, fg_color, bg_color, screen>>
    \/ /\ fd = 1 /\ readable /\ size >= 0
       /\ Show(write_chunks(Screen, Chunks(SubSeq(t, 1, size))))
       /\ ret' = size

printk(t) == Show(sys_write_console(Screen, t)) /\ UNCHANGED ret

ColumnsUnchecked(x, y) == y \in 0 .. SCREEN_ROWS - 1
OnScreen(x, y) == x \in 0 .. SCREEN_COLUMNS - 1 /\ y \in 0 .. SCREEN_ROWS - 1

sys_gotoxy(x, y) ==
    \/ /\ ~ OnScreen(x, y)
       /\ ret' = - EOUTSCREEN
       /\ UNCHANGED <<x_screen, y_screen, fg_color, bg_color, screen>>
    \/ /\ OnScreen(x, y)
       /\ x_screen' = x /\ y_screen' = y
       /\ ret' = 0
       /\ UNCHANGED <<fg_color, bg_color, screen>>

sys_set_color(fg, bg) ==
    \/ /\ {fg, bg} \subseteq 0 .. WHITE
       /\ fg_color' = fg /\ bg_color' = bg
       /\ ret' = 0
       /\ UNCHANGED <<x_screen, y_screen, screen>>
    \/ /\ ~ {fg, bg} \subseteq 0 .. WHITE
       /\ ret' = - ENOCOLOR
       /\ UNCHANGED <<x_screen, y_screen, fg_color, bg_color, screen>>

ConsoleNext ==
    \/ \E fd \in {0, 1}, t \in Text, readable \in BOOLEAN :
          \E size \in -1 .. Len(t) : sys_write(fd, t, size, readable)
    \/ \E t \in Text : printk(t)
    \/ \E x \in -1 .. SCREEN_COLUMNS, y \in -1 .. SCREEN_ROWS :
          sys_gotoxy(x, y)
    \/ \E c \in ColourArgs : sys_set_color(c[1], c[2])

ConsoleSpec == ConsoleInit /\ [][ConsoleNext]_consoleVars

-----------------------------------------------------------------------------
(* The cursor stays on the screen and the colours in the palette, so that  *)
(* printc never writes outside video memory.                               *)
CursorOnScreen ==
    /\ x_screen \in 0 .. SCREEN_COLUMNS - 1
    /\ y_screen \in 0 .. SCREEN_ROWS - 1
    /\ fg_color \in 0 .. WHITE /\ bg_color \in 0 .. WHITE

(* Column and row arithmetic, wrapping and chunks together lay a text out  *)
(* as Terminal says: no character is lost, repeated or out of place,       *)
(* whatever its length, and write returns how many there are (sys_write:   *)
(* "the number of bytes written is returned").                             *)
Term == INSTANCE Terminal WITH
        Width <- SCREEN_COLUMNS, Size <- SCREEN_ROWS * SCREEN_COLUMNS,
        Colour <- (0 .. WHITE) \X (0 .. WHITE),
        pos <- y_screen * SCREEN_COLUMNS + x_screen,
        colour <- <<fg_color, bg_color>>, cells <- screen, answer <- ret
TerminalSpec == Term!Spec
=============================================================================
