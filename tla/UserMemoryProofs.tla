-------------------------- MODULE UserMemoryProofs --------------------------
(***************************************************************************)
(* What access_ok lets read and write do, for every page size, layout of   *)
(* the address space, pointer and size that UserMemoryAssumption allows,   *)
(* and that the circular buffer is still a queue below them.               *)
(***************************************************************************)
EXTENDS UserMemory, SequenceTheorems, WellFoundedInduction, TLAPS

-----------------------------------------------------------------------------
(* The circular buffer of the keyboard implements a bounded FIFO queue,    *)
(* for every size of the array and every character map.                    *)

(* The index after i, without the modulo.                                  *)
LEMMA NextIdx ==
  ASSUME NEW i \in Index
  PROVE  /\ next_idx(i) = IF i + 1 = MAX_BUFF_SIZE THEN 0 ELSE i + 1
         /\ next_idx(i) \in Index
  BY KeyboardAssumption DEF next_idx, Index

(* The number of stored characters and the slots they are in.              *)
LEMMA CountAndSlots ==
  ASSUME TypeOK
  PROVE  /\ count \in 0 .. MAX_BUFF_SIZE - 1
         /\ is_full <=> count = MAX_BUFF_SIZE - 1
         /\ \A i \in 1 .. MAX_BUFF_SIZE : slot(i) \in Index
         /\ slot(count + 1) = write_idx
         /\ \A i \in 1 .. count : slot(i) # write_idx
<1>0. /\ MAX_BUFF_SIZE \in Nat /\ MAX_BUFF_SIZE >= 2
      /\ read_idx \in 0 .. MAX_BUFF_SIZE - 1
      /\ write_idx \in 0 .. MAX_BUFF_SIZE - 1
  BY KeyboardAssumption DEF TypeOK, Index
<1>1. count \in 0 .. MAX_BUFF_SIZE - 1
  BY <1>0 DEF count
<1>2. is_full <=> count = MAX_BUFF_SIZE - 1
  BY <1>0, NextIdx DEF is_full, count, Index
<1>3. \A i \in 1 .. MAX_BUFF_SIZE : slot(i) \in Index
  BY <1>0 DEF slot, Index
<1>4. slot(count + 1) = write_idx
  BY <1>0 DEF slot, count
<1>5. \A i \in 1 .. count : slot(i) # write_idx
  BY <1>0 DEF slot, count
<1> QED BY <1>1, <1>2, <1>3, <1>4, <1>5

(* The stored characters as a sequence.                                    *)
StoredOK ==
    /\ stored \in Seq(Char) /\ Len(stored) = count
    /\ \A i \in 1 .. count : stored[i] = keys[slot(i)]

LEMMA StoredIsSeq == TypeOK => StoredOK
<1> SUFFICES ASSUME TypeOK PROVE StoredOK
  OBVIOUS
<1>1. /\ count \in Nat
      /\ \A i \in 1 .. count : i \in 1 .. MAX_BUFF_SIZE
  BY CountAndSlots, KeyboardAssumption
<1>2. \A i \in 1 .. count : keys[slot(i)] \in Char
  BY <1>1, CountAndSlots DEF TypeOK
<1>3. stored \in [1 .. count -> Char]
  BY <1>2 DEF stored
<1>4. stored \in Seq(Char)
  BY <1>1, <1>3, SeqDef
<1>5. Len(stored) = count
  BY <1>1, <1>4, LenProperties DEF stored
<1> QED BY <1>4, <1>5 DEF stored, StoredOK

(* The boot state: an empty queue.                                         *)
LEMMA InitRefines == Init => TypeOK /\ F!Init
<1> SUFFICES ASSUME Init PROVE TypeOK /\ F!Init
  OBVIOUS
<1>1. TypeOK
  BY KeyboardAssumption, EmptySeq DEF Init, TypeOK, Index
<1>2. count = 0
  BY KeyboardAssumption DEF Init, count
<1>3. stored = << >>
  <2>1. stored \in Seq(Char) /\ Len(stored) = 0
    BY <1>1, <1>2, StoredIsSeq DEF StoredOK
  <2> QED BY <2>1, EmptySeq
<1> QED BY <1>1, <1>3 DEF F!Init, Init

(* A key press stores the character at the end of the queue, or refuses it *)
(* when the queue is full.                                                 *)
LEMMA KeyRefines ==
  ASSUME TypeOK, NEW key \in Key, kbd_routine(key)
  PROVE  /\ TypeOK' /\ F!Next
         /\ stored' = IF put_ret' THEN Append(stored, keys'[write_idx])
                      ELSE stored
         /\ put_ret' => keys'[write_idx] \in Char
<1>1. PICK character \in Char : put(character)
  BY KeyboardAssumption DEF kbd_routine
<1>2. UNCHANGED <<read_idx, size, out>>
  BY DEF kbd_routine
<1>3. CASE is_full
  <2>1. put_ret' = FALSE /\ UNCHANGED <<keys, write_idx>>
    BY <1>1, <1>3 DEF put
  <2>2. TypeOK'
    BY <1>2, <2>1 DEF TypeOK
  <2>3. count' = count /\ stored' = stored
    BY <1>2, <2>1 DEF count, stored, slot
  <2>4. Len(stored) = MAX_BUFF_SIZE - 1
    BY <1>3, CountAndSlots, StoredIsSeq DEF StoredOK
  <2>5. F!Refuse
    BY <1>2, <2>1, <2>3, <2>4 DEF F!Refuse
  <2> QED BY <2>1, <2>2, <2>3, <2>5 DEF F!Next
<1>4. CASE ~ is_full
  <2>1. /\ keys' = [keys EXCEPT ![write_idx] = character]
        /\ write_idx' = next_idx(write_idx)
        /\ put_ret' = TRUE
    BY <1>1, <1>4 DEF put
  <2>2. TypeOK'
    <3>1. write_idx' \in Index
      BY <2>1, NextIdx DEF TypeOK
    <3> QED BY <1>1, <1>2, <2>1, <3>1 DEF TypeOK
  <2>3. count < MAX_BUFF_SIZE - 1 /\ count \in Nat
    BY <1>4, CountAndSlots, KeyboardAssumption
  <2>4. count' = count + 1
    <3>1. write_idx' = IF write_idx + 1 = MAX_BUFF_SIZE THEN 0
                       ELSE write_idx + 1
      BY <2>1, NextIdx DEF TypeOK
    <3>2. /\ MAX_BUFF_SIZE \in Nat /\ MAX_BUFF_SIZE >= 2
          /\ read_idx \in 0 .. MAX_BUFF_SIZE - 1 /\ read_idx' = read_idx
          /\ write_idx \in 0 .. MAX_BUFF_SIZE - 1
      BY <1>2, KeyboardAssumption DEF TypeOK, Index
    <3> QED BY <2>3, <3>1, <3>2 DEF count
  <2>5. \A i : slot(i)' = slot(i)
    BY <1>2 DEF slot
  <2>6. /\ stored' \in Seq(Char) /\ Len(stored') = count + 1
        /\ \A i \in 1 .. count + 1 : stored'[i] = keys'[slot(i)]
    <3>1. StoredOK'
      BY <2>2, StoredIsSeq, PTL
    <3> QED BY <2>4, <2>5, <3>1 DEF StoredOK
  <2>7. stored' = Append(stored, character)
    <3>1. /\ stored \in Seq(Char) /\ Len(stored) = count
          /\ \A i \in 1 .. count : stored[i] = keys[slot(i)]
      BY StoredIsSeq DEF StoredOK
    <3>2. /\ Append(stored, character) \in Seq(Char)
          /\ Len(Append(stored, character)) = count + 1
          /\ \A i \in 1 .. count : Append(stored, character)[i] = stored[i]
          /\ Append(stored, character)[count + 1] = character
      BY <1>1, <3>1, AppendProperties
    <3>3. ASSUME NEW i \in 1 .. count + 1
          PROVE  stored'[i] = Append(stored, character)[i]
      <4>1. CASE i = count + 1
        <5>1. keys'[slot(i)] = character
          BY <2>1, <4>1, CountAndSlots DEF TypeOK
        <5>2. stored'[i] = keys'[slot(i)]
          BY <2>6
        <5>3. Append(stored, character)[i] = character
          BY <3>2, <4>1
        <5> QED BY <5>1, <5>2, <5>3
      <4>2. CASE i \in 1 .. count
        <5>1. slot(i) \in Index /\ slot(i) # write_idx
          BY <2>3, <4>2, CountAndSlots, KeyboardAssumption
        <5>2. keys'[slot(i)] = keys[slot(i)]
          BY <2>1, <5>1 DEF TypeOK
        <5>3. stored'[i] = keys'[slot(i)]
          BY <2>6
        <5>4. stored[i] = keys[slot(i)] /\ Append(stored, character)[i] = stored[i]
          BY <3>1, <3>2, <4>2
        <5> QED BY <5>2, <5>3, <5>4
      <4>3. i = count + 1 \/ i \in 1 .. count
        BY <2>3
      <4> QED BY <4>1, <4>2, <4>3
    <3> QED BY <2>6, <3>2, <3>3, SeqEqual
  <2>8. F!Put(character)
    BY <1>2, <2>1, <2>3, <2>7, StoredIsSeq DEF F!Put, StoredOK
  <2> QED BY <1>1, <2>1, <2>2, <2>7, <2>8 DEF F!Next, TypeOK
<1> QED BY <1>3, <1>4

(* A read takes the oldest characters.                                     *)
LEMMA ReadRefines ==
  ASSUME TypeOK, NEW maxchars \in Int, sys_read(maxchars)
  PROVE  TypeOK' /\ F!Next /\ F!Take(num_chars(maxchars))
<1> DEFINE n == num_chars(maxchars)
<1>1. /\ out' = [i \in 1 .. n |-> keys[slot(i)]]
      /\ read_idx' = slot(n + 1)
      /\ UNCHANGED <<keys, write_idx, size, put_ret>>
  BY DEF sys_read
<1>2. /\ MAX_BUFF_SIZE \in Nat /\ MAX_BUFF_SIZE >= 2
      /\ read_idx \in 0 .. MAX_BUFF_SIZE - 1
      /\ write_idx \in 0 .. MAX_BUFF_SIZE - 1
      /\ count \in 0 .. MAX_BUFF_SIZE - 1
  BY KeyboardAssumption, CountAndSlots DEF TypeOK, Index
<1>3. n \in 0 .. count
  BY <1>2 DEF num_chars
<1> HIDE DEF n
<1>4. StoredOK
  BY StoredIsSeq
<1>5. /\ out' \in Seq(Char) /\ Len(out') = n
      /\ \A i \in 1 .. n : out'[i] = stored[i]
  <2>1. \A i \in 1 .. n : i \in 1 .. count
    BY <1>2, <1>3
  <2>2. \A i \in 1 .. n : keys[slot(i)] = stored[i] /\ stored[i] \in Char
    BY <1>4, <2>1, ElementOfSeq DEF StoredOK
  <2>3. out' \in [1 .. n -> Char] /\ n \in Nat
    BY <1>1, <1>3, <2>2
  <2>4. out' \in Seq(Char)
    BY <2>3, SeqDef
  <2>5. Len(out') = n
    BY <2>3, <2>4, LenProperties
  <2> QED BY <1>1, <2>2, <2>4, <2>5
<1>6. TypeOK'
  <2>1. slot(n + 1) \in Index
    <3>1. n + 1 \in 1 .. MAX_BUFF_SIZE
      BY <1>2, <1>3
    <3> QED BY <3>1, CountAndSlots
  <2> QED BY <1>1, <1>5, <2>1 DEF TypeOK
<1>7. count' = count - n
  BY <1>1, <1>2, <1>3 DEF count, slot
<1>8. \A i \in 1 .. count - n : slot(i)' = slot(i + n)
  BY <1>1, <1>2, <1>3 DEF count, slot
<1>9. StoredOK'
  BY <1>6, StoredIsSeq, PTL
<1>10. out' = SubSeq(stored, 1, n)
  <2>1. /\ SubSeq(stored, 1, n) \in Seq(Char)
        /\ Len(SubSeq(stored, 1, n)) = n
        /\ \A i \in 1 .. n : SubSeq(stored, 1, n)[i] = stored[i]
    BY <1>2, <1>3, <1>4 DEF StoredOK
  <2> QED BY <1>5, <2>1, SeqEqual
<1>11. stored' = SubSeq(stored, n + 1, Len(stored))
  <2> DEFINE rest == SubSeq(stored, n + 1, Len(stored))
  <2>1. /\ rest \in Seq(Char) /\ Len(rest) = count - n
        /\ \A i \in 1 .. count - n : rest[i] = stored[i + n]
    BY <1>2, <1>3, <1>4 DEF StoredOK
  <2>2. /\ stored' \in Seq(Char) /\ Len(stored') = count - n
        /\ \A i \in 1 .. count - n : stored'[i] = keys[slot(i + n)]
    BY <1>1, <1>7, <1>8, <1>9 DEF StoredOK
  <2>3. \A i \in 1 .. count - n : stored[i + n] = keys[slot(i + n)]
    <3>1. \A i \in 1 .. count - n : i + n \in 1 .. count
      BY <1>2, <1>3
    <3> QED BY <1>4, <3>1 DEF StoredOK
  <2> HIDE DEF rest
  <2>4. stored' = rest
    BY <2>1, <2>2, <2>3, SeqEqual
  <2> QED BY <2>4 DEF rest
<1>12. n \in 0 .. Len(stored) /\ F!Take(n)
  BY <1>1, <1>3, <1>4, <1>10, <1>11 DEF F!Take, StoredOK
<1> QED BY <1>6, <1>12 DEF F!Next, n

(* Every step is a step of the queue or changes nothing of it.             *)
LEMMA NextRefines ==
  TypeOK /\ [Next]_vars => TypeOK' /\ [F!Next]_(F!fifoVars)
<1> SUFFICES ASSUME TypeOK, [Next]_vars
             PROVE  TypeOK' /\ [F!Next]_(F!fifoVars)
  OBVIOUS
<1>1. ASSUME NEW key \in Key, kbd_routine(key)
      PROVE  TypeOK' /\ F!Next
  BY <1>1, KeyRefines
<1>2. ASSUME NEW maxchars \in -1 .. MAX_BUFF_SIZE, sys_read(maxchars)
      PROVE  TypeOK' /\ F!Next
  BY <1>2, ReadRefines
<1>3. CASE UNCHANGED vars
  BY <1>3 DEF vars, TypeOK, F!fifoVars, stored, count, slot
<1> QED BY <1>1, <1>2, <1>3 DEF Next

(* Type correctness: the indices never leave the array.                    *)
THEOREM KeyboardTypes == Spec => []TypeOK
  BY InitRefines, NextRefines, PTL DEF Spec

(* The circular buffer, driven by the keyboard interrupt and by read,      *)
(* implements the FIFO queue of MAX_BUFF_SIZE - 1 characters.              *)
THEOREM KeyboardIsFifo == Spec => FifoSpec
  BY InitRefines, NextRefines, KeyboardTypes, PTL DEF Spec, FifoSpec, F!Spec

-----------------------------------------------------------------------------
(* Reads through a user pointer.                                           *)

(* Every nonempty set of naturals has a least element: induction, in the   *)
(* form that the provers can use.                                          *)
LEMMA LeastNat ==
  ASSUME NEW T \in SUBSET Nat, T # {}
  PROVE  \E n \in T : \A m \in T : n <= m
<1>1. PICK R : /\ IsWellFoundedOn(R, Nat)
               /\ \A x, y \in Nat : x < y => <<x, y>> \in R
  <2>1. \A x, y \in Nat : x < y => <<x, y>> \in OpToRel(<, Nat)
    BY DEF OpToRel
  <2>2. IsWellFoundedOn(OpToRel(<, Nat), Nat)
    BY NatLessThanWellFounded
  <2> QED BY <2>1, <2>2, Zenon
<1>2. T \subseteq Nat
  OBVIOUS
<1>3. \E n \in T : \A m \in T : ~ (<<m, n>> \in R)
  <2>1. IsWellFoundedOn(R, Nat)
    BY <1>1, Zenon
  <2> QED BY <2>1, <1>2, WFMin
<1>4. PICK n \in T : \A m \in T : ~ (<<m, n>> \in R)
  BY <1>3
<1>5. ASSUME NEW m \in T PROVE ~ (m < n)
  BY <1>1, <1>2, <1>4, Zenon
<1>6. ASSUME NEW m \in T PROVE n <= m
  BY <1>2, <1>5
<1> QED BY <1>6

-----------------------------------------------------------------------------
(* Numbers.                                                                *)

LEMMA Sizes ==
  /\ UINT \in Nat \ {0} /\ PAGE_SIZE \in Nat \ {0} /\ WORD \in Nat \ {0}
  /\ USER_FIRST_PAGE \in Nat \ {0} /\ NUM_PAG_CODE \in Nat \ {0}
  /\ NUM_PAG_DATA \in Nat \ {0} /\ TOTAL_PAGES \in Nat \ {0}
  /\ USER_LAST_PAGE \in Nat /\ USER_FIRST_PAGE + NUM_PAG_CODE < USER_LAST_PAGE
  /\ USER_LAST_PAGE < TOTAL_PAGES
  /\ INT_MAX \in Int /\ 2 * (INT_MAX + 1) <= UINT
  /\ UINT <= 2 * (INT_MAX + 1) + 1
  /\ MAX_BUFF_SIZE \in Nat \ {0} /\ MAX_BUFFER_SIZE \in Nat \ {0}
  BY UserMemoryAssumption, KeyboardAssumption DEF USER_LAST_PAGE, INT_MAX

LEMMA AddressSpaceFits ==
  /\ TOTAL_PAGES * PAGE_SIZE \in Nat /\ INT_MAX \in Nat
  /\ TOTAL_PAGES * PAGE_SIZE + MAX_BUFF_SIZE <= INT_MAX
<1>1. TOTAL_PAGES * PAGE_SIZE \in Nat
  BY Sizes
<1> QED BY <1>1, Sizes, UserMemoryAssumption

LEMMA MaxTwo ==
  ASSUME NEW a \in Int, NEW b \in Int
  PROVE  /\ Max({a, b}) = IF a >= b THEN a ELSE b
         /\ Min({a, b}) = IF a <= b THEN a ELSE b
<1>1. Max({a, b}) = IF a >= b THEN a ELSE b
  BY DEF Max
<1>2. Min({a, b}) = IF a <= b THEN a ELSE b
  BY DEF Min
<1> QED BY <1>1, <1>2

(* Division by the size of a page, seen from below and above.              *)
LEMMA Pages ==
  ASSUME NEW a \in Nat
  PROVE  /\ Page(a) \in Nat
         /\ \A b \in Nat : a <= b => Page(a) <= Page(b)
         /\ \A b \in Nat : Page(a) < b <=> a < PAGE_SIZE * b
<1>0. PAGE_SIZE \in Nat \ {0}
  BY Sizes
<1>1. Page(a) \in Nat
  BY <1>0 DEF Page
<1>2. \A b \in Nat : a <= b => Page(a) <= Page(b)
  BY <1>0 DEF Page
<1>3. ASSUME NEW b \in Nat, a < PAGE_SIZE * b PROVE Page(a) < b
  BY <1>0, <1>3 DEF Page
<1>4. ASSUME NEW b \in Nat, Page(a) < b PROVE a < PAGE_SIZE * b
  BY <1>0, <1>4 DEF Page
<1> QED BY <1>1, <1>2, <1>3, <1>4

(* An address below INT_MAX does not wrap.                                 *)
LEMMA NoWrap ==
  ASSUME NEW a \in Nat, a < UINT
  PROVE  a % UINT = a
  BY Sizes

-----------------------------------------------------------------------------
(* access_ok                                                               *)

IsSize == - INT_MAX - 1 .. INT_MAX

(* A pointer that a program passes is an address, and a size an int.        *)
LEMMA Arguments ==
  /\ \A b \in Pointer : b \in 0 .. UINT - 1 /\ b \in Nat
  /\ \A n \in Size : n \in IsSize /\ n \in Int
<1>1. Pointer \subseteq 0 .. UINT - 1 /\ Size \subseteq IsSize
  BY UserMemoryAssumption, Zenon DEF IsSize
<1>2. \A b \in 0 .. UINT - 1 : b \in Nat
  BY Sizes
<1>3. \A n \in IsSize : n \in Int
  BY Sizes DEF IsSize
<1> QED BY <1>1, <1>2, <1>3, Zenon

(* What an accepted block is: in all cases it starts in a page of the      *)
(* program, and when its size is not negative it also ends below the top   *)
(* of the address space, in or just above the image or in attached pages.  *)
LEMMA Accepted ==
  ASSUME NEW type, NEW addr \in 0 .. UINT - 1, NEW bytes \in IsSize,
         access_ok(type, addr, bytes)
  PROVE  /\ addr < PAGE_SIZE * TOTAL_PAGES
         /\ Page(addr) >= USER_FIRST_PAGE
         /\ bytes >= 0 =>
              /\ Page(addr) <= Page(addr + bytes)
              /\ \/ Page(addr + bytes) <= USER_LAST_PAGE
                 \/ Page(addr) .. Page(addr + bytes) \subseteq attached
<1> DEFINE ini == Page(addr)
           fin == Page((addr + Unsigned(bytes)) % UINT)
<1>1. /\ addr \in Nat /\ addr < UINT /\ (addr + Unsigned(bytes)) % UINT \in Nat
      /\ ini \in Nat /\ fin \in Nat
  <2>1. /\ addr \in Nat /\ addr < UINT /\ Unsigned(bytes) \in Nat
    BY Sizes DEF Unsigned, IsSize
  <2>2. (addr + Unsigned(bytes)) % UINT \in Nat
    BY <2>1, Sizes
  <2> QED BY <2>1, <2>2, Pages
<1>2. /\ ini <= fin
      /\ \/ ini >= USER_FIRST_PAGE + NUM_PAG_CODE /\ fin <= USER_LAST_PAGE
         \/ ini >= USER_FIRST_PAGE /\ fin <= USER_LAST_PAGE
         \/ /\ ini >= USER_LAST_PAGE /\ fin < TOTAL_PAGES
            /\ ini .. fin \subseteq attached
  BY <1>1 DEF access_ok, overflow, inWritable, inImage, inShared, check_allocated
<1> HIDE DEF ini, fin
<1>3. ini < TOTAL_PAGES /\ ini >= USER_FIRST_PAGE
  BY <1>1, <1>2, Sizes
<1>4. addr < PAGE_SIZE * TOTAL_PAGES
  BY <1>1, <1>3, Pages, Sizes DEF ini
<1>5. ASSUME bytes >= 0 PROVE fin = Page(addr + bytes)
  <2>1. PAGE_SIZE * TOTAL_PAGES = TOTAL_PAGES * PAGE_SIZE
    BY Sizes
  <2>2. addr + bytes \in Nat /\ addr + bytes < UINT /\ bytes \in Nat /\ bytes < UINT
    BY <1>1, <1>4, <1>5, <2>1, Sizes, AddressSpaceFits DEF IsSize
  <2>3. Unsigned(bytes) = bytes
    BY <2>2, NoWrap DEF Unsigned
  <2> QED BY <2>2, <2>3, NoWrap DEF fin
<1>6. ini .. fin \subseteq attached \/ fin <= USER_LAST_PAGE
  BY <1>2
<1> QED BY <1>2, <1>3, <1>4, <1>5, <1>6 DEF ini

(* The most that a call copies for a size: read with a negative size       *)
(* takes what the circular buffer holds.                                   *)
Limit(bytes) == IF bytes >= 0 THEN bytes ELSE MAX_BUFF_SIZE

(* The i-th address from addr on does not wrap and lies in the pages of    *)
(* the block.                                                              *)
InBlock(addr, bytes, i) ==
  /\ addr + i - 1 \in Nat /\ (addr + i - 1) % UINT = addr + i - 1
  /\ Page(addr + i - 1) >= USER_FIRST_PAGE
  /\ bytes >= 0 => Page(addr + i - 1) \in Page(addr) .. Page(addr + bytes)

LEMMA Block ==
  ASSUME NEW type, NEW addr \in 0 .. UINT - 1, NEW bytes \in IsSize,
         access_ok(type, addr, bytes), NEW n \in Nat,
         n <= Limit(bytes)
  PROVE  \A i \in 1 .. n : InBlock(addr, bytes, i)
<1> SUFFICES ASSUME NEW i \in 1 .. n PROVE InBlock(addr, bytes, i)
  OBVIOUS
<1> USE DEF Limit
<1>1. addr \in Nat /\ bytes \in Int /\ bytes <= INT_MAX /\ INT_MAX \in Nat
  BY AddressSpaceFits DEF IsSize
<1>2. PAGE_SIZE * TOTAL_PAGES = TOTAL_PAGES * PAGE_SIZE
  BY Sizes
<1>3. addr < PAGE_SIZE * TOTAL_PAGES /\ Page(addr) >= USER_FIRST_PAGE
  BY Accepted
<1>4. addr + i - 1 \in Nat /\ addr <= addr + i - 1 /\ addr + i - 1 < UINT
  BY <1>1, <1>2, <1>3, Sizes, AddressSpaceFits
<1>5. (addr + i - 1) % UINT = addr + i - 1
  BY <1>4, NoWrap
<1>6. Page(addr) <= Page(addr + i - 1) /\ Page(addr + i - 1) \in Nat
      /\ Page(addr) \in Nat
  BY <1>1, <1>4, Pages
<1>7. ASSUME bytes >= 0
      PROVE  Page(addr + i - 1) \in Page(addr) .. Page(addr + bytes)
  <2>1. addr + bytes \in Nat /\ addr + i - 1 <= addr + bytes
    BY <1>1, <1>7
  <2>2. Page(addr + i - 1) <= Page(addr + bytes) /\ Page(addr + bytes) \in Nat
    BY <1>4, <2>1, Pages
  <2> QED BY <1>6, <2>2
<1> QED BY <1>3, <1>4, <1>5, <1>6, <1>7, Sizes DEF InBlock

-----------------------------------------------------------------------------
(* The copy loops.                                                         *)

(* n bytes from addr on.                                                   *)
Bytes(addr, n) == [i \in 1 .. n |-> (addr + i - 1) % UINT]

(* Words and then bytes are all the bytes, and no more.                    *)
LEMMA CopiedExactly ==
  ASSUME NEW addr \in Nat, NEW bytes \in Int
  PROVE  copied(addr, bytes) = Bytes(addr, Max({0, bytes}))
<1> DEFINE inWords == WORD * Words(bytes)
<1>1. inWords \in Nat /\ (inWords = 0 \/ inWords < bytes)
  <2>1. WORD \in Nat \ {0}
    BY Sizes
  <2>2. CASE bytes > WORD
    <3>1. /\ (bytes - 1) \div WORD \in Nat
          /\ WORD * ((bytes - 1) \div WORD) <= bytes - 1
      BY <2>1, <2>2
    <3>2. WORD * ((bytes - 1) \div WORD) \in Nat
      BY <2>1, <3>1
    <3> QED BY <2>2, <3>1, <3>2 DEF Words
  <2>3. CASE ~ (bytes > WORD)
    BY <2>1, <2>3 DEF Words
  <2> QED BY <2>2, <2>3
<1> HIDE DEF inWords
<1>2. /\ Max({0, bytes - inWords}) = IF 0 >= bytes - inWords THEN 0
                                     ELSE bytes - inWords
      /\ Max({0, bytes}) = IF 0 >= bytes THEN 0 ELSE bytes
  BY <1>1, MaxTwo
<1>3. inWords + Max({0, bytes - inWords}) = Max({0, bytes})
  BY <1>1, <1>2
<1> QED BY <1>3 DEF copied, Bytes, inWords

LEMMA BytesSeq ==
  ASSUME NEW addr \in Nat, NEW n \in Nat
  PROVE  Bytes(addr, n) \in Seq(Int) /\ Len(Bytes(addr, n)) = n
<1>1. \A i \in 1 .. n : (addr + i - 1) % UINT \in Int
  BY Sizes
<1>2. Bytes(addr, n) \in [1 .. n -> Int]
  BY <1>1 DEF Bytes
<1>3. Bytes(addr, n) \in Seq(Int)
  BY <1>2, SeqDef
<1> QED BY <1>2, <1>3, LenProperties

(* A block and the one that follows it.                                    *)
LEMMA BytesJoin ==
  ASSUME NEW addr \in Nat, NEW m \in Nat, NEW n \in Nat
  PROVE  Bytes(addr, m) \o Bytes(addr + m, n) = Bytes(addr, m + n)
<1> DEFINE s == Bytes(addr, m)
           t == Bytes(addr + m, n)
           u == Bytes(addr, m + n)
<1>0. addr + m \in Nat /\ m + n \in Nat
  OBVIOUS
<1>1. /\ s \in Seq(Int) /\ Len(s) = m /\ t \in Seq(Int) /\ Len(t) = n
      /\ u \in Seq(Int) /\ Len(u) = m + n
  BY <1>0, BytesSeq
<1>3. ASSUME NEW i \in 1 .. m + n
      PROVE  u[i] = IF i <= m THEN s[i] ELSE t[i - m]
  <2>1. CASE i <= m
    BY <2>1 DEF Bytes
  <2>2. CASE i > m
    <3>1. i - m \in 1 .. n /\ (addr + m) + (i - m) - 1 = addr + i - 1
      BY <2>2
    <3> QED BY <2>2, <3>1 DEF Bytes
  <2> QED BY <2>1, <2>2
<1> HIDE DEF s, t, u
<1>2. /\ s \o t \in Seq(Int) /\ Len(s \o t) = m + n
      /\ \A i \in 1 .. m + n : (s \o t)[i] = IF i <= m THEN s[i] ELSE t[i - m]
  BY <1>1, ConcatProperties
<1>4. s \o t = u
  BY <1>1, <1>2, <1>3, SeqEqual, SMTT(30)
<1> QED BY <1>4 DEF s, t, u

(* After k chunks write has copied all it has to or k full chunks.         *)
Done(bytes, k) == IF k * MAX_BUFFER_SIZE <= bytes THEN k * MAX_BUFFER_SIZE
                  ELSE bytes

LEMMA NextChunk ==
  ASSUME NEW buffer \in Nat, NEW bytes \in Nat,
         NEW k \in 1 .. NumChunks(bytes)
  PROVE  /\ Done(bytes, k - 1) \in Nat
         /\ Bytes(buffer, Done(bytes, k - 1)) \o chunk(buffer, bytes, k)
            = Bytes(buffer, Done(bytes, k))
<1> DEFINE M == MAX_BUFFER_SIZE
           d == (k - 1) * M
<1>1. M \in Nat \ {0} /\ NumChunks(bytes) \in Nat /\ k \in Nat \ {0}
  BY Sizes DEF NumChunks
<1>2. d \in Nat /\ k * M = d + M
  BY <1>1
<1>3. d < bytes
  <2>1. k <= (bytes + M - 1) \div M
    BY <1>1 DEF NumChunks
  <2>2. k * M <= bytes + M - 1
    BY <1>1, <2>1
  <2> QED BY <1>1, <1>2, <2>2
<1> HIDE DEF d
<1>4. Done(bytes, k - 1) = d
  BY <1>2, <1>3 DEF Done, d
<1> DEFINE l == Min({M, bytes - d})
<1>5. l \in Nat /\ Done(bytes, k) = d + l
  <2>0. M \in Int /\ bytes - d \in Int
    BY <1>1, <1>2
  <2>1. l = IF M <= bytes - d THEN M ELSE bytes - d
    BY <2>0, MaxTwo
  <2>2. Done(bytes, k) = IF d + M <= bytes THEN d + M ELSE bytes
    BY <1>2 DEF Done
  <2> HIDE DEF l
  <2> QED BY <1>1, <1>2, <1>3, <2>1, <2>2
<1> HIDE DEF l
<1>6. Max({0, l}) = l
  BY <1>5, MaxTwo
<1>7. chunk(buffer, bytes, k) = Bytes(buffer + d, l)
  <2>1. buffer + d \in Nat
    BY <1>2
  <2>2. copied(buffer + d, l) = Bytes(buffer + d, l)
    BY <1>5, <1>6, <2>1, CopiedExactly
  <2> QED BY <2>2 DEF chunk, d, l
<1>8. Bytes(buffer, d) \o Bytes(buffer + d, l) = Bytes(buffer, d + l)
  BY <1>2, <1>5, BytesJoin
<1> QED BY <1>2, <1>4, <1>5, <1>7, <1>8

LEMMA ChunksExactly ==
  ASSUME NEW buffer \in Nat, NEW bytes \in Nat
  PROVE  fromUser(buffer, bytes) = Bytes(buffer, bytes)
<1> DEFINE N == NumChunks(bytes)
           E(f) == [k \in 0 .. N |-> IF k = 0 THEN <<>>
                                     ELSE f[k - 1] \o chunk(buffer, bytes, k)]
           g == [k \in 0 .. N |-> Bytes(buffer, Done(bytes, k))]
           upto == CHOOSE f : f = E(f)
<1>1. /\ N \in Nat /\ Done(bytes, N) = bytes /\ Done(bytes, 0) = 0
  <2>1. MAX_BUFFER_SIZE \in Nat \ {0}
    BY Sizes
  <2>2. N \in Nat /\ bytes <= N * MAX_BUFFER_SIZE
    BY <2>1 DEF NumChunks
  <2>3. N * MAX_BUFFER_SIZE \in Nat
    BY <2>1, <2>2
  <2> HIDE DEF N
  <2> QED BY <2>1, <2>2, <2>3 DEF Done
<1>2. Bytes(buffer, 0) = <<>>
  BY BytesSeq, EmptySeq
<1>3. \A k \in 1 .. N : k - 1 \in 0 .. N /\ k \in 0 .. N
  BY <1>1
<1>4. g = E(g)
  <2> SUFFICES ASSUME NEW k \in 0 .. N
               PROVE  Bytes(buffer, Done(bytes, k)) =
                        IF k = 0 THEN <<>>
                        ELSE g[k - 1] \o chunk(buffer, bytes, k)
    OBVIOUS
  <2>1. CASE k = 0
    BY <1>1, <1>2, <2>1
  <2>2. CASE k # 0
    <3>1. k \in 1 .. N
      BY <1>1, <2>2
    <3>2. g[k - 1] = Bytes(buffer, Done(bytes, k - 1))
      BY <1>3, <3>1
    <3> QED BY <2>2, <3>1, <3>2, NextChunk, ZenonT(30)
  <2> QED BY <2>1, <2>2
<1>5. upto = E(upto)
  <2>1. \E f : f = E(f)
    BY <1>4
  <2> QED BY <2>1, Zenon
<1>6. fromUser(buffer, bytes) = upto[N]
  BY DEF fromUser
<1> HIDE DEF upto
<1>7. upto[N] = g[N]
  <2>1. /\ upto[0] = g[0]
        /\ \A k \in 1 .. N : upto[k - 1] = g[k - 1] => upto[k] = g[k]
    <3>1. \A k \in 0 .. N :
            /\ upto[k] = IF k = 0 THEN <<>>
                         ELSE upto[k - 1] \o chunk(buffer, bytes, k)
            /\ g[k] = IF k = 0 THEN <<>>
                      ELSE g[k - 1] \o chunk(buffer, bytes, k)
      BY <1>4, <1>5, Zenon
    <3> HIDE DEF g, E
    <3> QED BY <1>1, <1>3, <3>1
  <2> DEFINE T == {k \in 0 .. N : upto[k] # g[k]}
  <2> HIDE DEF g
  <2>2. CASE T = {}
    BY <1>1, <2>2
  <2>3. CASE T # {}
    <3>1. T \in SUBSET Nat
      BY <1>1
    <3>2. PICK k \in T : \A m \in T : k <= m
      BY <2>3, <3>1, LeastNat
    <3>3. k \in 1 .. N
      BY <1>1, <2>1, <3>2
    <3>4. k - 1 \notin T /\ k - 1 \in 0 .. N
      BY <1>1, <3>1, <3>2, <3>3
    <3> QED BY <2>1, <3>2, <3>3, <3>4
  <2> QED BY <2>2, <2>3
<1> QED BY <1>1, <1>6, <1>7

-----------------------------------------------------------------------------
(* The calls.                                                              *)

(* What the last call did.                                                 *)
Safe == KernelUntouched /\ TransfersExact /\ FaultsAtEdgeOnly

(* A call that copies n bytes of an accepted block.                        *)
LEMMA Transfer ==
  ASSUME NEW type, NEW addr \in 0 .. UINT - 1, NEW bytes \in IsSize,
         access_ok(type, addr, bytes), NEW n \in Nat,
         n <= Limit(bytes),
         touched' = Bytes(addr, n), ret' = n, hung' = FaultOf(touched'),
         call'.ptr = addr, call'.size = bytes
  PROVE  Safe'
<1>0. \A i \in 1 .. n : InBlock(addr, bytes, i)
  BY Block, Zenon
<1>1. DOMAIN touched' = 1 .. n
  BY DEF Bytes
<1>2. \A i \in 1 .. n :
        /\ touched'[i] = addr + i - 1
        /\ Page(touched'[i]) >= USER_FIRST_PAGE /\ Page(touched'[i]) \in Nat
        /\ bytes >= 0 => Page(touched'[i]) \in Page(addr) .. Page(addr + bytes)
  <2> SUFFICES ASSUME NEW i \in 1 .. n
               PROVE  /\ touched'[i] = addr + i - 1
                      /\ Page(touched'[i]) >= USER_FIRST_PAGE
                      /\ Page(touched'[i]) \in Nat
                      /\ bytes >= 0 =>
                           Page(touched'[i]) \in Page(addr) .. Page(addr + bytes)
    OBVIOUS
  <2>1. touched'[i] = (addr + i - 1) % UINT
    BY DEF Bytes
  <2>2. /\ addr + i - 1 \in Nat /\ (addr + i - 1) % UINT = addr + i - 1
        /\ Page(addr + i - 1) >= USER_FIRST_PAGE
        /\ bytes >= 0 => Page(addr + i - 1) \in Page(addr) .. Page(addr + bytes)
    BY <1>0 DEF InBlock
  <2>3. Page(addr + i - 1) \in Nat
    BY <2>2, Pages
  <2> QED BY <2>1, <2>2, <2>3
<1>3. KernelUntouched'
  BY <1>1, <1>2 DEF KernelUntouched, Page
<1>4. TransfersExact'
  <2>1. Max({0, ret'}) = n
    BY MaxTwo
  <2>2. touched' = [i \in 1 .. n |-> addr + i - 1]
    BY <1>2 DEF Bytes
  <2> QED BY <2>1, <2>2 DEF TransfersExact, Max
<1>5. FaultsAtEdgeOnly'
  <2> SUFFICES ASSUME FaultOf(touched') # NoPage, bytes >= 0
               PROVE  FaultOf(touched') = USER_LAST_PAGE
    BY AddressSpaceFits DEF FaultsAtEdgeOnly, IsSize
  <2> DEFINE bad == {i \in DOMAIN touched' : Page(touched'[i]) \notin mapped}
  <2>1. bad # {} /\ FaultOf(touched') = Page(touched'[Min(bad)])
    BY DEF FaultOf
  <2>2. bad \in SUBSET Nat
    BY <1>1
  <2>3. PICK m \in bad : \A k \in bad : m <= k
    BY <2>1, <2>2, LeastNat
  <2>4. Min(bad) \in bad
    BY <2>3 DEF Min
  <2>5. PICK j \in 1 .. n : /\ FaultOf(touched') = Page(touched'[j])
                            /\ Page(touched'[j]) \notin mapped
    BY <1>1, <2>1, <2>4
  <2> DEFINE p == Page(touched'[j])
  <2>6. p \in Nat /\ p >= USER_FIRST_PAGE /\ p \in Page(addr) .. Page(addr + bytes)
    BY <1>2, <2>5
  <2>7. p \notin attached /\ p \notin ImagePage
    BY <2>5 DEF mapped
  <2> HIDE DEF p
  <2>8. Page(addr + bytes) <= USER_LAST_PAGE
    BY <2>6, <2>7, Accepted
  <2>9. Page(addr + bytes) \in Nat /\ Page(addr) \in Nat
    BY AddressSpaceFits, Pages DEF IsSize
  <2>10. p = USER_LAST_PAGE
    BY <2>6, <2>7, <2>8, <2>9, Sizes DEF ImagePage
  <2> QED BY <2>5, <2>10 DEF p
<1> QED BY <1>3, <1>4, <1>5 DEF Safe

(* A call that copies nothing and says so.                                 *)
LEMMA NoTransfer ==
  ASSUME touched' = <<>>, ret' \in Int, ret' <= 0, hung' = NoPage
  PROVE  Safe'
<1>1. DOMAIN touched' = {} /\ KernelUntouched' /\ FaultsAtEdgeOnly'
  BY DEF KernelUntouched, FaultsAtEdgeOnly
<1>2. TransfersExact'
  <2>1. Max({0, ret'}) = 0
    BY MaxTwo
  <2>2. [i \in 1 .. 0 |-> call'.ptr + i - 1] = <<>>
    OBVIOUS
  <2> QED BY <2>1, <2>2 DEF TransfersExact, Max
<1> QED BY <1>1, <1>2 DEF Safe

LEMMA ReadSafe ==
  ASSUME TypeOK, NEW b \in Pointer, NEW n \in Size, read(b, n)
  PROVE  TypeOK' /\ Safe' /\ [F!Next]_(F!fifoVars)
<1>1. b \in 0 .. UINT - 1 /\ n \in IsSize /\ n \in Int
  BY Arguments, Zenon
<1>2. CASE ~ access_ok("VERIFY_WRITE", b, n)
  <2>1. Safe'
    BY <1>2, NoTransfer DEF read, EFAULT
  <2>2. UNCHANGED vars
    BY <1>2 DEF read
  <2> QED
    BY <2>1, <2>2 DEF vars, TypeOK, F!fifoVars, stored, count, slot
<1>3. CASE access_ok("VERIFY_WRITE", b, n)
  <2>1. TypeOK' /\ F!Next
    BY <1>1, <1>3, ReadRefines DEF read
  <2> DEFINE c == num_chars(n)
  <2>2. c \in Nat /\ c <= Limit(n)
    BY <1>1, CountAndSlots, Sizes DEF num_chars, Limit
  <2> HIDE DEF c
  <2>3. copied(b, c) = Bytes(b, c)
    <3>1. Max({0, c}) = c
      BY <2>2, MaxTwo
    <3> QED BY <1>1, <2>2, <3>1, CopiedExactly
  <2>4. Safe'
    BY <1>1, <1>3, <2>2, <2>3, Transfer DEF read, c
  <2> QED BY <2>1, <2>4
<1> QED BY <1>2, <1>3

LEMMA WriteSafe ==
  ASSUME TypeOK, NEW fd \in {0, 1}, NEW b \in Pointer, NEW n \in Size,
         write(fd, b, n)
  PROVE  Safe' /\ UNCHANGED vars
<1>1. b \in 0 .. UINT - 1 /\ n \in IsSize /\ n \in Int /\ b \in Nat
  BY Arguments, Zenon
<1>2. CASE /\ fd = 1 /\ access_ok("VERIFY_READ", b, n) /\ n >= 0
           /\ touched' = fromUser(b, n) /\ ret' = n /\ hung' = FaultOf(touched')
  <2>1. touched' = Bytes(b, n) /\ n \in Nat
    BY <1>1, <1>2, ChunksExactly
  <2>2. n <= Limit(n)
    BY <1>1, <1>2 DEF Limit
  <2> QED BY <1>1, <1>2, <2>1, <2>2, Transfer DEF write
<1>3. CASE /\ ret' \in {- EBADF, - EFAULT, - EINVAL}
           /\ touched' = <<>> /\ UNCHANGED hung
  BY <1>3, NoTransfer DEF write, EBADF, EFAULT, EINVAL
<1>4. UNCHANGED vars
  BY DEF write
<1> QED BY <1>2, <1>3, <1>4 DEF write

(* Only touched, ret, call and hung matter to Safe.                        *)
LEMMA SafeUnchanged ==
  ASSUME Safe, UNCHANGED <<call, touched, ret, hung>>
  PROVE  Safe'
  BY DEF Safe, KernelUntouched, TransfersExact, FaultsAtEdgeOnly, Page

(* Init starts with no transfer at all.                                    *)
LEMMA MemInitSafe == MemInit => TypeOK /\ Safe /\ F!Init
<1> SUFFICES ASSUME MemInit PROVE TypeOK /\ Safe /\ F!Init
  OBVIOUS
<1>1. TypeOK /\ F!Init
  BY InitRefines DEF MemInit
<1>2. KernelUntouched /\ FaultsAtEdgeOnly
  BY DEF MemInit, KernelUntouched, FaultsAtEdgeOnly
<1>3. TransfersExact
  <2>1. Max({0, ret}) = 0
    BY MaxTwo DEF MemInit
  <2>2. [i \in 1 .. 0 |-> call.ptr + i - 1] = <<>>
    OBVIOUS
  <2> QED BY <2>1, <2>2 DEF TransfersExact, MemInit
<1> QED BY <1>1, <1>2, <1>3 DEF Safe

LEMMA MemNextSafe ==
  TypeOK /\ Safe /\ [MemNext]_allvars
    => TypeOK' /\ Safe' /\ [F!Next]_(F!fifoVars)
<1> SUFFICES ASSUME TypeOK, Safe, [MemNext]_allvars
             PROVE  TypeOK' /\ Safe' /\ [F!Next]_(F!fifoVars)
  OBVIOUS
<1>0. ASSUME UNCHANGED vars PROVE TypeOK' /\ [F!Next]_(F!fifoVars)
  BY <1>0 DEF vars, TypeOK, F!fifoVars, stored, count, slot
<1>1. ASSUME NEW b \in Pointer, NEW n \in Size, read(b, n)
      PROVE  TypeOK' /\ Safe' /\ [F!Next]_(F!fifoVars)
  BY <1>1, ReadSafe
<1>2. ASSUME NEW b \in Pointer, NEW n \in Size, NEW fd \in {0, 1},
             write(fd, b, n)
      PROVE  TypeOK' /\ Safe' /\ [F!Next]_(F!fifoVars)
  BY <1>0, <1>2, WriteSafe
<1>3. ASSUME NEW page \in SharedPage, attach(page) \/ detach(page)
      PROVE  TypeOK' /\ Safe' /\ [F!Next]_(F!fifoVars)
  BY <1>0, <1>3, SafeUnchanged DEF attach, detach
<1>4. ASSUME NEW key \in Key, key_press(key)
      PROVE  TypeOK' /\ Safe' /\ [F!Next]_(F!fifoVars)
  BY <1>4, KeyRefines, SafeUnchanged DEF key_press, memvars
<1>5. CASE UNCHANGED allvars
  BY <1>0, <1>5, SafeUnchanged DEF allvars, memvars
<1> QED BY <1>1, <1>2, <1>3, <1>4, <1>5 DEF MemNext, spin

LEMMA MemInductive == MemSpec => [](TypeOK /\ Safe)
  BY MemInitSafe, MemNextSafe, PTL DEF MemSpec

(* No call of read or write, whatever pointer and size it is given, copies *)
(* from or to an address below the pages of the program: access_ok and the *)
(* unsigned addition in it keep the kernel's memory out of reach.          *)
THEOREM KernelNeverTouched == MemSpec => []KernelUntouched
<1>1. Safe => KernelUntouched
  BY DEF Safe
<1> QED BY <1>1, MemInductive, PTL

(* The words and bytes of copy_to_user and copy_from_user and the chunks   *)
(* of sys_write go through every byte of the block once and in order.      *)
THEOREM EveryByteOnce == MemSpec => []TransfersExact
<1>1. Safe => TransfersExact
  BY DEF Safe
<1> QED BY <1>1, MemInductive, PTL

(* The kernel faults on a user address, and hangs in pgf_routine, only at  *)
(* the page above the image or in a read with a negative size.             *)
THEOREM FaultsOnlyAtEdge == MemSpec => []FaultsAtEdgeOnly
<1>1. Safe => FaultsAtEdgeOnly
  BY DEF Safe
<1> QED BY <1>1, MemInductive, PTL

(* The circular buffer is a bounded FIFO queue below the checks of         *)
(* sys_read too: a refused read takes nothing out of it.                   *)
THEOREM ReadIsFifo == MemSpec => FifoSpec
  BY MemInitSafe, MemNextSafe, MemInductive, PTL DEF MemSpec, FifoSpec, F!Spec

(* access_ok accepts every block inside the image, to its last byte, and   *)
(* all it accepts for writing it accepts for reading (the comment of       *)
(* utils.c).                                                               *)
THEOREM AccessOkIsComplete == MemSpec => []AccessOkAccepts
<1>1. ImageAccepted
  <2> SUFFICES ASSUME NEW b \in Pointer, NEW n \in Size, n > 0,
                      Page(b) \in ImagePage, Page(b + n - 1) \in ImagePage
               PROVE  /\ access_ok("VERIFY_READ", b, n)
                      /\ access_ok("VERIFY_WRITE", b, n)
    BY DEF ImageAccepted
  <2>1. b \in Nat /\ b < UINT /\ n \in Nat /\ n <= INT_MAX /\ INT_MAX \in Nat
    BY UserMemoryAssumption, AddressSpaceFits
  <2>2. /\ Page(b) >= USER_FIRST_PAGE /\ Page(b) < USER_LAST_PAGE
        /\ Page(b + n - 1) < USER_LAST_PAGE
    BY Sizes DEF ImagePage
  <2>3. b < PAGE_SIZE * USER_LAST_PAGE /\ b + n - 1 < PAGE_SIZE * USER_LAST_PAGE
    BY <2>1, <2>2, Pages, Sizes
  <2>4. /\ PAGE_SIZE * USER_LAST_PAGE \in Nat
        /\ PAGE_SIZE * USER_LAST_PAGE <= TOTAL_PAGES * PAGE_SIZE
    BY Sizes
  <2>5. b + n \in Nat /\ b + n < UINT /\ n < UINT
    BY <2>1, <2>3, <2>4, Sizes, AddressSpaceFits
  <2>6. (b + Unsigned(n)) % UINT = b + n
    BY <2>1, <2>5, NoWrap DEF Unsigned
  <2>7. Page(b) <= Page(b + n) /\ Page(b + n) \in Nat /\ Page(b) \in Nat
    BY <2>1, <2>5, Pages
  <2>8. Page(b + n) <= USER_LAST_PAGE
    <3>1. b + n < PAGE_SIZE * (USER_LAST_PAGE + 1)
      BY <2>1, <2>3, Sizes
    <3> QED BY <2>5, <2>7, <3>1, Pages, Sizes
  <2> QED BY <2>2, <2>6, <2>7, <2>8, Sizes
          DEF access_ok, overflow, inWritable, inImage
<1>2. WritableIsReadable
  <2> SUFFICES ASSUME NEW b \in Pointer, NEW n \in Size,
                      access_ok("VERIFY_WRITE", b, n)
               PROVE  access_ok("VERIFY_READ", b, n)
    BY DEF WritableIsReadable
  <2>1. b \in Nat
    BY UserMemoryAssumption, Sizes
  <2>2. Page(b) \in Nat
    BY <2>1, Pages
  <2> QED BY <2>2, Sizes DEF access_ok, inWritable, inImage
<1>3. AccessOkAccepts
  BY <1>1, <1>2 DEF AccessOkAccepts
<1> QED BY <1>3, PTL
=============================================================================
