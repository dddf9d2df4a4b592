---------------------------- MODULE InputProofs ----------------------------
(***************************************************************************)
(* No key is lost or changed between the keyboard and the game, and names  *)
(* are what was typed, for every size of the buffer, character map and     *)
(* length of names.  The facts about the circular buffer are those of      *)
(* UserMemoryProofs, which holds the proofs about Keyboard.                *)
(***************************************************************************)
EXTENDS Input, SequenceTheorems, TLAPS

(* The buffer does not depend on the address space that read copies to:    *)
(* any that UserMemory allows will do.                                     *)
KP == INSTANCE UserMemoryProofs WITH
        UINT <- 2 * (MAX_BUFF_SIZE + 5), PAGE_SIZE <- 1, WORD <- 1,
        USER_FIRST_PAGE <- 1, NUM_PAG_CODE <- 1, NUM_PAG_DATA <- 1,
        TOTAL_PAGES <- 4, Pointer <- {}, Size <- {},
        attached <- {}, call <- << >>, touched <- << >>, ret <- 0, hung <- -1

Types ==
    /\ K!TypeOK
    /\ ipc \in {"read", "store"} /\ x \in Char
    /\ typed \in Seq(Char)
    /\ values \in Seq(Char) /\ values # << >> /\ addr = values[Len(values)]
    /\ asked \in 1 .. Len(values)
    /\ name \in [0 .. MAX_NAME_LENGTH - 1 -> Char]
    /\ numChars \in 0 .. MAX_NAME_LENGTH

(* The last character of the name is the one that the next must differ     *)
(* from.                                                                   *)
LastIsLast == lastChar = IF numChars = 0 THEN NUL ELSE name[numChars - 1]

(* The inductive invariant.                                                *)
IInv == Types /\ KeysConserved /\ LastIsLast /\ NameIsTyped

(* What is proved about Keyboard, in the names that Input uses.            *)
LEMMA SameKeyboard ==
  /\ KP!KeyboardAssumption /\ KP!UserMemoryAssumption
  /\ K!TypeOK <=> KP!TypeOK
  /\ K!TypeOK' <=> KP!TypeOK'
  /\ K!stored = KP!stored /\ K!stored' = KP!stored'
  /\ \A key : K!kbd_routine(key) <=> KP!kbd_routine(key)
  /\ K!sys_read(1) <=> KP!sys_read(1)
<1>1. KP!KeyboardAssumption
  BY InputAssumption DEF K!KeyboardAssumption, KP!KeyboardAssumption
<1>2. (K!TypeOK <=> KP!TypeOK) /\ (K!TypeOK' <=> KP!TypeOK')
  BY DEF K!TypeOK, KP!TypeOK, K!Index, KP!Index
<1>3. K!stored = KP!stored /\ K!stored' = KP!stored'
  BY DEF K!stored, KP!stored, K!count, KP!count, K!slot, KP!slot
<1>4. ASSUME NEW key PROVE K!kbd_routine(key) <=> KP!kbd_routine(key)
  BY DEF K!kbd_routine, KP!kbd_routine, K!put, KP!put, K!is_full, KP!is_full,
         K!next_idx, KP!next_idx
<1>5. K!sys_read(1) <=> KP!sys_read(1)
  BY DEF K!sys_read, KP!sys_read, K!num_chars, KP!num_chars,
         K!count, KP!count, K!slot, KP!slot
<1>6. KP!UserMemoryAssumption
  <2>1. MAX_BUFF_SIZE \in Nat /\ MAX_BUFF_SIZE >= 2
    BY <1>1 DEF KP!KeyboardAssumption
  <2>2. KP!INT_MAX = MAX_BUFF_SIZE + 4
    BY <2>1 DEF KP!INT_MAX
  <2>3. KP!USER_LAST_PAGE = 3 /\ (2 * (MAX_BUFF_SIZE + 5)) % 1 = 0
    BY <2>1 DEF KP!USER_LAST_PAGE
  <2> QED BY <2>1, <2>2, <2>3 DEF KP!UserMemoryAssumption
<1> QED BY <1>1, <1>2, <1>3, <1>4, <1>5, <1>6

StoredTyped == K!stored \in Seq(Char)

LEMMA StoredSeq == K!TypeOK => StoredTyped
  BY SameKeyboard, KP!StoredIsSeq DEF KP!StoredOK, StoredTyped

(* A key goes to the end of the buffer or is refused.                      *)
LEMMA KeyStored ==
  ASSUME K!TypeOK, NEW key \in Key, K!kbd_routine(key)
  PROVE  /\ K!TypeOK'
         /\ put_ret' => keys'[write_idx] \in Char
         /\ K!stored' = IF put_ret' THEN Append(K!stored, keys'[write_idx])
                        ELSE K!stored
  BY SameKeyboard, KP!KeyRefines

(* read(x, 1) takes the oldest character, if there is one.                 *)
LEMMA OneRead ==
  ASSUME K!TypeOK, K!sys_read(1)
  PROVE  /\ K!TypeOK'
         /\ \/ out' = << >> /\ K!stored' = K!stored
            \/ \E c \in Char : out' = <<c>> /\ K!stored = <<c>> \o K!stored'
<1> DEFINE s == KP!stored
           n == KP!num_chars(1)
<1>1. /\ KP!TypeOK' /\ n <= Len(s) /\ out' = SubSeq(s, 1, n)
      /\ KP!stored' = SubSeq(s, n + 1, Len(s))
  BY SameKeyboard, KP!ReadRefines DEF KP!F!Take
<1>2. s \in Seq(Char) /\ Len(s) = KP!count /\ Len(s) \in Nat
  BY SameKeyboard, KP!StoredIsSeq DEF KP!StoredOK
<1>3. n = IF Len(s) = 0 THEN 0 ELSE 1
  BY <1>2 DEF KP!num_chars
<1> HIDE DEF s, n
<1>4. CASE Len(s) = 0
  <2>1. out' = << >>
    BY <1>1, <1>3, <1>4, SubSeqEmpty
  <2>2. KP!stored' = s
    BY <1>1, <1>2, <1>3, <1>4, SubSeqFull
  <2> QED BY <1>1, <2>1, <2>2, SameKeyboard DEF s
<1>5. CASE Len(s) # 0
  <2>1. n = 1 /\ 1 \in 1 .. Len(s) /\ Len(s) \in 1 .. Len(s)
    BY <1>2, <1>3, <1>5
  <2>2. s[1] \in Char
    BY <1>2, <2>1, ElementOfSeq
  <2>3. SubSeq(s, 1, 1) = <<s[1]>>
    <3>1. /\ SubSeq(s, 1, 1) \in Seq(Char) /\ Len(SubSeq(s, 1, 1)) = 1
          /\ SubSeq(s, 1, 1)[1] = s[1]
      BY <2>2, SubSeqProperties
    <3>2. /\ <<s[1]>> \in Seq(Char) /\ Len(<<s[1]>>) = 1 /\ <<s[1]>>[1] = s[1]
      BY <2>2
    <3>3. \A i \in 1 .. 1 : SubSeq(s, 1, 1)[i] = <<s[1]>>[i]
      BY <3>1, <3>2
    <3> QED BY <3>1, <3>2, <3>3, SeqEqual
  <2>4. SubSeq(s, 1, Len(s)) = <<s[1]>> \o SubSeq(s, 2, Len(s))
    BY <1>2, <2>1, SubSeqRecursiveFirst
  <2>5. s = <<s[1]>> \o KP!stored'
    BY <1>1, <1>2, <2>1, <2>4, SubSeqFull
  <2>6. out' = <<s[1]>>
    BY <1>1, <2>1, <2>3
  <2> QED BY <1>1, <2>2, <2>5, <2>6, SameKeyboard DEF s
<1> QED BY <1>4, <1>5

-----------------------------------------------------------------------------
LEMMA InitInv == Init => IInv
<1> SUFFICES ASSUME Init PROVE IInv
  OBVIOUS
<1>0. /\ KP!KeyboardAssumption /\ NUL \in Char /\ MAX_NAME_LENGTH \in Nat \ {0}
  BY InputAssumption, SameKeyboard DEF K!KeyboardAssumption
<1>1. K!TypeOK /\ K!stored = << >>
  <2>1. KP!Init
    BY DEF Init, K!Init, KP!Init, K!Index, KP!Index
  <2> QED BY <1>0, <2>1, KP!InitRefines, SameKeyboard DEF KP!F!Init
<1>2. Types
  <2>1. /\ values = <<addr>> /\ addr \in Char
    BY DEF Init
  <2>2. /\ values \in Seq(Char) /\ values # << >> /\ Len(values) = 1
        /\ values[1] = addr
    BY <2>1
  <2>3. typed \in Seq(Char)
    BY EmptySeq DEF Init
  <2> QED BY <1>0, <1>1, <2>2, <2>3 DEF Init, Types
<1>3. KeysConserved
  BY <1>1 DEF Init, KeysConserved
<1>4. LastIsLast
  BY DEF Init, LastIsLast
<1>5. NameIsTyped
  <2>1. numChars = 0
    BY DEF Init
  <2>2. 0 .. numChars - 1 = {}
    BY <2>1
  <2>3. [i \in {} |-> 1] \in [{} -> asked .. Len(values)]
    OBVIOUS
  <2> QED BY <2>2, <2>3 DEF NameIsTyped
<1> QED BY <1>2, <1>3, <1>4, <1>5 DEF IInv

LEMMA KeyInv ==
  ASSUME IInv, NEW key \in Key, kbd_routine(key)
  PROVE  IInv'
<1>1. Types /\ KeysConserved /\ LastIsLast /\ NameIsTyped /\ K!TypeOK
  BY DEF IInv, Types
<1>2. /\ K!TypeOK'
      /\ put_ret' => keys'[write_idx] \in Char
      /\ K!stored' = IF put_ret' THEN Append(K!stored, keys'[write_idx])
                     ELSE K!stored
  BY <1>1, KeyStored DEF kbd_routine
<1>3. /\ typed' = IF put_ret' THEN Append(typed, keys'[write_idx]) ELSE typed
      /\ UNCHANGED <<inputVars, addr, gameVars, values>>
  BY DEF kbd_routine
<1>4. Types'
  <2>1. typed' \in Seq(Char)
    BY <1>1, <1>2, <1>3, AppendProperties DEF Types
  <2> QED BY <1>1, <1>2, <1>3, <2>1 DEF Types, inputVars, gameVars
<1>5. KeysConserved'
  <2> DEFINE front == Tail(values) \o (IF ipc = "store" THEN <<x>> ELSE << >>)
  <2>1. front \in Seq(Char) /\ front' = front
    <3>1. Tail(values) \in Seq(Char)
      BY <1>1, HeadTailProperties DEF Types
    <3>2. (IF ipc = "store" THEN <<x>> ELSE << >>) \in Seq(Char)
      BY <1>1 DEF Types
    <3> QED BY <1>3, <3>1, <3>2, ConcatProperties DEF inputVars
  <2>2. K!stored \in Seq(Char) /\ typed = front \o K!stored
    BY <1>1, StoredSeq DEF KeysConserved, StoredTyped
  <2> HIDE DEF front
  <2>3. ASSUME put_ret' PROVE typed' = front \o K!stored'
    <3> DEFINE c == keys'[write_idx]
    <3>1. c \in Char
      BY <1>2, <2>3
    <3> HIDE DEF c
    <3>2. Append(K!stored, c) = K!stored \o <<c>> /\ <<c>> \in Seq(Char)
      BY <2>2, <3>1, AppendIsConcat
    <3>3. (front \o K!stored) \o <<c>> = front \o (K!stored \o <<c>>)
      BY <2>1, <2>2, <3>2, ConcatAssociative
    <3>4. Append(typed, c) = typed \o <<c>>
      BY <1>1, <3>1, AppendIsConcat DEF Types
    <3> QED BY <1>2, <1>3, <2>2, <2>3, <3>2, <3>3, <3>4 DEF c
  <2>4. typed' = front \o K!stored'
    BY <1>2, <1>3, <2>2, <2>3
  <2> QED BY <2>1, <2>4 DEF KeysConserved, front
<1>6. LastIsLast' /\ NameIsTyped'
  BY <1>1, <1>3 DEF LastIsLast, NameIsTyped, gameVars
<1> QED BY <1>4, <1>5, <1>6 DEF IInv

LEMMA ReadInv ==
  ASSUME IInv, input_read
  PROVE  IInv'
<1>1. Types /\ KeysConserved /\ LastIsLast /\ NameIsTyped /\ K!TypeOK
  BY DEF IInv, Types
<1>2. /\ ipc = "read" /\ K!sys_read(1)
      /\ x' = IF out' = << >> THEN x ELSE Head(out')
      /\ ipc' = IF out' = << >> THEN "read" ELSE "store"
      /\ UNCHANGED <<addr, gameVars, typed, values>>
  BY DEF input_read, AfterRead
<1>3. /\ K!TypeOK'
      /\ \/ out' = << >> /\ K!stored' = K!stored
         \/ \E c \in Char : out' = <<c>> /\ K!stored = <<c>> \o K!stored'
  BY <1>1, <1>2, OneRead
<1> DEFINE passed == Tail(values)
<1>4. /\ passed \in Seq(Char) /\ passed \o << >> = passed /\ passed' = passed
      /\ K!stored \in Seq(Char)
      /\ typed' = passed \o K!stored
  <2>1. passed \in Seq(Char)
    BY <1>1, HeadTailProperties DEF Types
  <2>2. passed \o << >> = passed
    BY <2>1, ConcatEmptySeq
  <2> QED BY <1>1, <1>2, <2>1, <2>2, StoredSeq DEF KeysConserved, StoredTyped
<1>5. K!stored' \in Seq(Char)
  <2>1. K!TypeOK'
    BY <1>3
  <2>2. StoredTyped'
    BY <2>1, StoredSeq, PTL
  <2> QED BY <2>2 DEF StoredTyped
<1>6. x' \in Char /\ KeysConserved'
  <2>1. CASE out' = << >> /\ K!stored' = K!stored
    BY <1>1, <1>2, <1>4, <2>1 DEF KeysConserved, Types
  <2>2. ASSUME NEW c \in Char, out' = <<c>>, K!stored = <<c>> \o K!stored'
        PROVE  x' \in Char /\ KeysConserved'
    <3>1. x' = c /\ ipc' = "store"
      BY <1>2, <2>2
    <3>2. (passed \o <<c>>) \o K!stored' = passed \o (<<c>> \o K!stored')
      <4>1. <<c>> \in Seq(Char)
        OBVIOUS
      <4> QED BY <1>4, <1>5, <4>1, ConcatAssociative, SMTT(30)
    <3> QED BY <1>4, <2>2, <3>1, <3>2 DEF KeysConserved
  <2> QED BY <1>3, <2>1, <2>2
<1>7. Types'
  BY <1>1, <1>2, <1>3, <1>6 DEF Types, gameVars
<1>8. LastIsLast' /\ NameIsTyped'
  BY <1>1, <1>2 DEF LastIsLast, NameIsTyped, gameVars
<1> QED BY <1>6, <1>7, <1>8 DEF IInv

LEMMA StoreInv ==
  ASSUME IInv, input_store
  PROVE  IInv'
<1>1. Types /\ KeysConserved /\ LastIsLast /\ NameIsTyped /\ K!TypeOK
  BY DEF IInv, Types
<1>2. /\ ipc = "store" /\ addr' = x /\ values' = Append(values, x)
      /\ ipc' = "read" /\ UNCHANGED <<kbdVars, x, gameVars, typed>>
  BY DEF input_store
<1>3. /\ values \in Seq(Char) /\ values # << >> /\ x \in Char
      /\ Len(values) \in Nat \ {0}
  BY <1>1, EmptySeq DEF Types
<1>4. /\ values' \in Seq(Char) /\ values' # << >>
      /\ Len(values') = Len(values) + 1
      /\ values'[Len(values')] = x
      /\ \A i \in 1 .. Len(values) : values'[i] = values[i]
  BY <1>2, <1>3, AppendProperties
<1>5. K!TypeOK' /\ K!stored' = K!stored
  BY <1>1, <1>2 DEF kbdVars, K!TypeOK, K!stored, K!count, K!slot
<1>6. Types'
  BY <1>1, <1>2, <1>3, <1>4, <1>5 DEF Types, gameVars
<1>7. KeysConserved'
  <2>1. Tail(values) \in Seq(Char) /\ Tail(values') = Append(Tail(values), x)
    BY <1>2, <1>3, HeadTailProperties, HeadTailAppend
  <2>2. Append(Tail(values), x) = Tail(values) \o <<x>>
    BY <1>3, <2>1, AppendIsConcat
  <2>3. (Tail(values) \o <<x>>) \o << >> = Tail(values) \o <<x>>
    <3>1. Tail(values) \o <<x>> \in Seq(Char)
      BY <1>3, <2>1, <2>2, AppendProperties
    <3> QED BY <3>1, ConcatEmptySeq
  <2> QED BY <1>1, <1>2, <1>5, <2>1, <2>2, <2>3 DEF KeysConserved
<1>8. LastIsLast'
  BY <1>1, <1>2 DEF LastIsLast, gameVars
<1>9. NameIsTyped'
  <2> SUFFICES ASSUME gpc = "name"
               PROVE  \E pos \in [0 .. numChars - 1 -> asked .. Len(values')] :
                        \A i \in 0 .. numChars - 1 :
                          /\ name[i] = values'[pos[i]]
                          /\ name[i] \notin {NUL, Dot}
                          /\ \A j \in 0 .. i - 1 : pos[j] < pos[i]
    BY <1>2 DEF NameIsTyped, gameVars, Dot
  <2>1. PICK pos \in [0 .. numChars - 1 -> asked .. Len(values)] :
          \A i \in 0 .. numChars - 1 :
            /\ name[i] = values[pos[i]]
            /\ name[i] \notin {NUL, Dot}
            /\ \A j \in 0 .. i - 1 : pos[j] < pos[i]
    BY <1>1 DEF NameIsTyped
  <2>2. \A i \in 0 .. numChars - 1 :
          /\ pos[i] \in asked .. Len(values')
          /\ values'[pos[i]] = values[pos[i]]
    BY <1>1, <1>3, <1>4 DEF Types
  <2>3. pos \in [0 .. numChars - 1 -> asked .. Len(values')]
    BY <2>2
  <2> QED BY <2>1, <2>2, <2>3
<1> QED BY <1>6, <1>7, <1>8, <1>9 DEF IInv

(* A step of the game that leaves the name alone or starts a new one.      *)
LEMMA GameInv ==
  ASSUME IInv, get_player_name \/ frame \/ stuck_frame \/ next_level \/ game_ends
  PROVE  /\ Types' /\ KeysConserved'
         /\ UNCHANGED <<kbdVars, inputVars, addr, typed, values>>
<1>1. UNCHANGED <<kbdVars, inputVars, addr, typed, values>>
  BY DEF get_player_name, frame, stuck_frame, next_level, game_ends
<1>2. K!TypeOK' /\ K!stored' = K!stored
  BY <1>1 DEF IInv, Types, kbdVars, K!TypeOK, K!stored, K!count, K!slot
<1>3. KeysConserved'
  BY <1>1, <1>2 DEF IInv, KeysConserved, inputVars
<1>4. /\ asked' \in {asked, Len(values)} /\ Len(values) \in Nat \ {0}
      /\ asked' \in 1 .. Len(values)
  <2>1. asked' \in {asked, Len(values)}
    BY DEF get_player_name, frame, stuck_frame, next_level, game_ends
  <2>2. Len(values) \in Nat \ {0} /\ asked \in 1 .. Len(values)
    BY EmptySeq DEF IInv, Types
  <2> QED BY <2>1, <2>2
<1>5. /\ name' \in [0 .. MAX_NAME_LENGTH - 1 -> Char]
      /\ numChars' \in 0 .. MAX_NAME_LENGTH
  <2>1. /\ name \in [0 .. MAX_NAME_LENGTH - 1 -> Char] /\ addr \in Char
        /\ numChars \in 0 .. MAX_NAME_LENGTH /\ MAX_NAME_LENGTH \in Nat \ {0}
    BY <1>4, ElementOfSeq, InputAssumption DEF IInv, Types
  <2>2. \/ UNCHANGED <<name, numChars>>
        \/ UNCHANGED name /\ numChars' = 0
        \/ /\ numChars < MAX_NAME_LENGTH
           /\ name' = [name EXCEPT ![numChars] = addr]
           /\ numChars' = numChars + 1
    BY DEF get_player_name, frame, stuck_frame, next_level, game_ends
  <2> QED BY <2>1, <2>2
<1> QED BY <1>1, <1>2, <1>3, <1>4, <1>5 DEF IInv, Types, inputVars

LEMMA NameInv ==
  ASSUME IInv, get_player_name
  PROVE  LastIsLast' /\ NameIsTyped'
<1>1. Types /\ LastIsLast /\ NameIsTyped /\ gpc = "name" /\ asked' = asked
      /\ values' = values
  BY DEF IInv, get_player_name
<1>2. /\ numChars \in 0 .. MAX_NAME_LENGTH /\ MAX_NAME_LENGTH \in Nat \ {0}
      /\ name \in [0 .. MAX_NAME_LENGTH - 1 -> Char]
      /\ values \in Seq(Char) /\ addr = values[Len(values)]
      /\ Len(values) \in Nat \ {0} /\ asked \in 1 .. Len(values)
  BY <1>1, EmptySeq, InputAssumption DEF Types
<1>3. CASE UNCHANGED <<name, numChars, lastChar>>
  BY <1>1, <1>3 DEF LastIsLast, NameIsTyped
<1>4. CASE /\ numChars < MAX_NAME_LENGTH /\ addr # Dot
           /\ addr # NUL /\ addr # lastChar
           /\ name' = [name EXCEPT ![numChars] = addr]
           /\ numChars' = numChars + 1
           /\ lastChar' = addr
  <2>1. /\ name'[numChars] = addr
        /\ \A i \in 0 .. numChars - 1 : name'[i] = name[i]
    BY <1>2, <1>4
  <2>2. LastIsLast'
    BY <1>2, <1>4, <2>1 DEF LastIsLast
  <2>3. PICK pos \in [0 .. numChars - 1 -> asked .. Len(values)] :
          \A i \in 0 .. numChars - 1 :
            /\ name[i] = values[pos[i]]
            /\ name[i] \notin {NUL, Dot}
            /\ \A j \in 0 .. i - 1 : pos[j] < pos[i]
    BY <1>1 DEF NameIsTyped
  <2> DEFINE n == numChars
             new == [i \in 0 .. n |-> IF i = n THEN Len(values) ELSE pos[i]]
  <2>4. /\ 0 .. numChars' - 1 = 0 .. n
        /\ \A i \in 0 .. n : i = n \/ i \in 0 .. n - 1
    BY <1>2, <1>4
  <2>5. new \in [0 .. n -> asked .. Len(values)]
    <3>1. \A i \in 0 .. n - 1 : pos[i] \in asked .. Len(values)
      BY <2>3
    <3>2. Len(values) \in asked .. Len(values)
      BY <1>2
    <3> QED BY <2>4, <3>1, <3>2
  <2>6. \A j \in 0 .. n - 1 : pos[j] < Len(values)
    <3>1. SUFFICES ASSUME NEW j \in 0 .. n - 1, ~ (pos[j] < Len(values))
                   PROVE  FALSE
      OBVIOUS
    <3>2. /\ n - 1 \in 0 .. n - 1 /\ lastChar = name[n - 1]
          /\ pos[j] \in asked .. Len(values) /\ pos[n - 1] \in asked .. Len(values)
      BY <1>1, <1>2, <2>3 DEF LastIsLast
    <3>3. pos[j] = Len(values)
      BY <1>2, <3>1, <3>2
    <3>4. CASE j = n - 1
      BY <1>2, <1>4, <2>3, <3>2, <3>3, <3>4
    <3>5. CASE j # n - 1
      <4>1. j \in 0 .. (n - 1) - 1
        BY <1>2, <3>5
      <4>2. pos[j] < pos[n - 1]
        BY <2>3, <3>2, <4>1
      <4> QED BY <1>2, <3>2, <3>3, <4>2
    <3> QED BY <3>4, <3>5
  <2>7. ASSUME NEW i \in 0 .. n
        PROVE  /\ name'[i] = values[new[i]]
               /\ name'[i] \notin {NUL, Dot}
               /\ \A j \in 0 .. i - 1 : new[j] < new[i]
    <3>1. CASE i = n
      <4>1. new[i] = Len(values) /\ \A j \in 0 .. n - 1 : new[j] = pos[j]
        BY <1>2, <3>1
      <4> QED BY <1>2, <1>4, <2>1, <2>6, <3>1, <4>1
    <3>2. CASE i \in 0 .. n - 1
      <4>1. new[i] = pos[i] /\ \A j \in 0 .. i - 1 : new[j] = pos[j]
        BY <1>2, <3>2
      <4> QED BY <2>1, <2>3, <3>2, <4>1
    <3> QED BY <2>4, <3>1, <3>2
  <2> HIDE DEF new
  <2>8. NameIsTyped'
    BY <1>1, <2>4, <2>5, <2>7 DEF NameIsTyped, Dot
  <2> QED BY <2>2, <2>8
<1> QED BY <1>3, <1>4 DEF get_player_name, IsNewChar

LEMMA NewNameInv ==
  ASSUME IInv, game_ends
  PROVE  LastIsLast' /\ NameIsTyped'
<1>1. numChars' = 0 /\ lastChar' = NUL
  BY DEF game_ends
<1>2. 0 .. numChars' - 1 = {}
  BY <1>1
<1>3. [i \in {} |-> 1] \in [{} -> asked' .. Len(values')]
  OBVIOUS
<1> QED BY <1>1, <1>2, <1>3 DEF NameIsTyped, LastIsLast

LEMMA NextInv == IInv /\ [Next]_vars => IInv'
<1> SUFFICES ASSUME IInv, [Next]_vars PROVE IInv'
  OBVIOUS
<1>1. CASE get_player_name
  BY <1>1, GameInv, NameInv DEF IInv
<1>2. CASE game_ends
  BY <1>2, GameInv, NewNameInv DEF IInv
<1>3. CASE frame \/ stuck_frame \/ next_level
  <2>1. gpc' # "name" /\ UNCHANGED <<name, numChars, lastChar>>
    BY <1>3 DEF frame, stuck_frame, next_level, initializeRound
  <2>2. LastIsLast' /\ NameIsTyped'
    BY <2>1 DEF IInv, LastIsLast, NameIsTyped
  <2> QED BY <1>3, <2>2, GameInv DEF IInv
<1>4. CASE UNCHANGED vars
  <2>1. UNCHANGED <<kbdVars, ipc, x, addr, gameVars, typed, values>>
    BY <1>4 DEF vars, inputVars
  <2>2. K!TypeOK' /\ K!stored' = K!stored
    BY <2>1 DEF IInv, Types, kbdVars, K!TypeOK, K!stored, K!count, K!slot
  <2>3. Types' /\ KeysConserved'
    BY <2>1, <2>2 DEF IInv, Types, KeysConserved, gameVars
  <2>4. LastIsLast' /\ NameIsTyped'
    BY <2>1 DEF IInv, LastIsLast, NameIsTyped, gameVars
  <2> QED BY <2>3, <2>4 DEF IInv
<1> QED
  BY <1>1, <1>2, <1>3, <1>4, KeyInv, ReadInv, StoreInv DEF Next, InputProcess

LEMMA InputInductive == Spec => []IInv
  BY InitInv, NextInv, PTL DEF Spec

(* Whatever the interleaving of key presses, of read and the store to the  *)
(* shared byte, and of the game, each accepted key is at exactly one place *)
(* on its way and keys do not overtake each other (kbd_routine,            *)
(* input_processing).                                                      *)
THEOREM NoKeyLost == Spec => []KeysConserved
<1>1. IInv => KeysConserved
  BY DEF IInv
<1> QED BY <1>1, InputInductive, PTL

(* However often the game samples the byte between two keys, the name      *)
(* takes each key at most once, in order (get_player_name).                *)
THEOREM NamesAreTyped == Spec => []NameIsTyped
<1>1. IInv => NameIsTyped
  BY DEF IInv
<1> QED BY <1>1, InputInductive, PTL
=============================================================================
