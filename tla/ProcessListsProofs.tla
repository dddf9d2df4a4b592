------------------------- MODULE ProcessListsProofs -------------------------
(***************************************************************************)
(* The linked lists of ProcessLists are sound and implement the queues and *)
(* families of Process, for every number of PCBs.                          *)
(*                                                                         *)
(* Ring says that a head and a sequence of nodes are linked in a circle.   *)
(* Rep says that the lists of a collection are rings and have no node in   *)
(* common; each operation of list.c keeps it for a collection that differs *)
(* in one sequence, and touches no node outside.                           *)
(*                                                                         *)
(* The inductive invariant, LInv, is that of Process for the queues that   *)
(* the links stand for, that only the first processes have no parent, and  *)
(* that some collection of lists represents the links: every node in no    *)
(* list has NULL links or belongs to a PCB lost by a failed fork, and then *)
(* its links are copies.                                                   *)
(***************************************************************************)
EXTENDS ProcessLists, SequenceTheorems, FiniteSetTheorems, FunctionTheorems,
        WellFoundedInduction, TLAPS

-----------------------------------------------------------------------------
(* Rings.                                                                  *)

Links == [next : [Node -> Node \cup {NIL}], prev : [Node -> Node \cup {NIL}]]

(* The nodes of a ring in order: the head is both before the first and     *)
(* after the last.                                                         *)
At(h, s, i) == IF i \in 1 .. Len(s) THEN s[i] ELSE h

Ring(l, h, s) ==
    /\ h \in Node /\ s \in Seq(Node)
    /\ h \notin Range(s) /\ IsInjective(s)
    /\ \A i \in 0 .. Len(s) : /\ l.next[At(h, s, i)] = At(h, s, i + 1)
                              /\ l.prev[At(h, s, i + 1)] = At(h, s, i)

(* s without its j-th element.                                             *)
Without(s, j) == [i \in 1 .. Len(s) - 1 |-> IF i < j THEN s[i] ELSE s[i + 1]]

SameLinks(l, m, n) == l.next[n] = m.next[n] /\ l.prev[n] = m.prev[n]

(* The positions of a ring hold different nodes, all of the ring.          *)
LEMMA Positions ==
  ASSUME NEW h \in Node, NEW s \in Seq(Node), h \notin Range(s), IsInjective(s)
  PROVE  /\ Len(s) \in Nat /\ DOMAIN s = 1 .. Len(s)
         /\ \A i \in 1 .. Len(s) : s[i] \in Range(s) /\ s[i] \in Node /\ s[i] # h
         /\ \A x \in Range(s) : \E i \in 1 .. Len(s) : x = s[i]
         /\ \A i, j \in 1 .. Len(s) : s[i] = s[j] => i = j
<1>1. Len(s) \in Nat /\ DOMAIN s = 1 .. Len(s)
  BY LenProperties
<1>2. \A i \in 1 .. Len(s) : s[i] \in Node
  BY ElementOfSeq
<1> QED BY <1>1, <1>2 DEF Range, IsInjective

(* Positions of a ring: from 0, or from 1 to one past the last, they name  *)
(* each node once.                                                         *)
LEMMA AtFacts ==
  ASSUME NEW h \in Node, NEW s \in Seq(Node), h \notin Range(s), IsInjective(s)
  PROVE  /\ At(h, s, 0) = h /\ At(h, s, Len(s) + 1) = h
         /\ \A i \in Int : At(h, s, i) \in {h} \cup Range(s) /\ At(h, s, i) \in Node
         /\ \A x \in {h} \cup Range(s) : \E i \in 0 .. Len(s) : x = At(h, s, i)
         /\ \A i, j \in 0 .. Len(s) : At(h, s, i) = At(h, s, j) => i = j
         /\ \A i, j \in 1 .. Len(s) + 1 : At(h, s, i) = At(h, s, j) => i = j
         /\ \A i \in 1 .. Len(s) : At(h, s, i) = s[i] /\ At(h, s, i) # h
<1>1. /\ Len(s) \in Nat
      /\ \A i \in 1 .. Len(s) : s[i] \in Range(s) /\ s[i] \in Node /\ s[i] # h
      /\ \A x \in Range(s) : \E i \in 1 .. Len(s) : x = s[i]
      /\ \A i, j \in 1 .. Len(s) : s[i] = s[j] => i = j
  BY Positions
<1>2. \A x \in {h} \cup Range(s) : \E i \in 0 .. Len(s) : x = At(h, s, i)
  <2> SUFFICES ASSUME NEW x \in {h} \cup Range(s)
               PROVE  \E i \in 0 .. Len(s) : x = At(h, s, i)
    OBVIOUS
  <2>1. CASE x = h
    BY <1>1, <2>1 DEF At
  <2>2. CASE x \in Range(s)
    <3>1. PICK i \in 1 .. Len(s) : x = s[i]
      BY <1>1, <2>2
    <3>2. i \in 0 .. Len(s) /\ At(h, s, i) = x
      BY <1>1, <3>1 DEF At
    <3> QED BY <3>2
  <2> QED BY <2>1, <2>2
<1>3. \A i, j \in 0 .. Len(s) : At(h, s, i) = At(h, s, j) => i = j
  BY <1>1 DEF At
<1>4. \A i, j \in 1 .. Len(s) + 1 : At(h, s, i) = At(h, s, j) => i = j
  BY <1>1 DEF At
<1>5. /\ At(h, s, 0) = h /\ At(h, s, Len(s) + 1) = h
      /\ \A i \in Int : At(h, s, i) \in {h} \cup Range(s) /\ At(h, s, i) \in Node
      /\ \A i \in 1 .. Len(s) : At(h, s, i) = s[i] /\ At(h, s, i) # h
  BY <1>1 DEF At
<1> QED BY <1>2, <1>3, <1>4, <1>5

(* The assignments of the list operations.                                 *)
LEMMA AddLinks ==
  ASSUME NEW l \in Links, NEW new \in Node, NEW p \in Node, NEW n \in Node
  PROVE  LET m == __list_add(l, new, p, n)
         IN  /\ m \in Links
             /\ m.next = [[l.next EXCEPT ![new] = n] EXCEPT ![p] = new]
             /\ m.prev = [[l.prev EXCEPT ![n] = new] EXCEPT ![new] = p]
<1> DEFINE a == [l EXCEPT !.prev[n] = new]
           b == [a EXCEPT !.next[new] = n]
           c == [b EXCEPT !.prev[new] = p]
           m == [c EXCEPT !.next[p] = new]
<1>1. __list_add(l, new, p, n) = m
  BY DEF __list_add
<1>2. /\ a \in Links /\ a.next = l.next
      /\ a.prev = [l.prev EXCEPT ![n] = new]
  BY DEF Links
<1> HIDE DEF a
<1>3. b \in Links /\ b.prev = a.prev /\ b.next = [a.next EXCEPT ![new] = n]
  BY <1>2 DEF Links
<1> HIDE DEF b
<1>4. c \in Links /\ c.next = b.next /\ c.prev = [b.prev EXCEPT ![new] = p]
  BY <1>3 DEF Links
<1> HIDE DEF c
<1>5. m \in Links /\ m.prev = c.prev /\ m.next = [c.next EXCEPT ![p] = new]
  BY <1>4 DEF Links
<1> HIDE DEF m
<1> QED BY <1>1, <1>2, <1>3, <1>4, <1>5

(* The two directions after list_del.                                      *)
LEMMA DelLinks ==
  ASSUME NEW l \in Links, NEW e \in Node, l.next[e] \in Node, l.prev[e] \in Node
  PROVE  LET m == list_del(l, e)
         IN  /\ m \in Links
             /\ m.next = [[l.next EXCEPT ![l.prev[e]] = l.next[e]] EXCEPT ![e] = NIL]
             /\ m.prev = [[l.prev EXCEPT ![l.next[e]] = l.prev[e]] EXCEPT ![e] = NIL]
<1> DEFINE x == l.next[e]
           y == l.prev[e]
           a == [l EXCEPT !.prev[x] = y]
           b == [a EXCEPT !.next[y] = x]
           c == [b EXCEPT !.next[e] = NIL]
           m == [c EXCEPT !.prev[e] = NIL]
<1>1. list_del(l, e) = m
  BY DEF list_del
<1>2. x \in Node /\ y \in Node
  OBVIOUS
<1> HIDE DEF x, y
<1>3. a \in Links /\ a.next = l.next /\ a.prev = [l.prev EXCEPT ![x] = y]
  BY <1>2 DEF Links
<1> HIDE DEF a
<1>4. b \in Links /\ b.prev = a.prev /\ b.next = [a.next EXCEPT ![y] = x]
  BY <1>2, <1>3 DEF Links
<1> HIDE DEF b
<1>5. c \in Links /\ c.prev = b.prev /\ c.next = [b.next EXCEPT ![e] = NIL]
  BY <1>4 DEF Links
<1> HIDE DEF c
<1>6. m \in Links /\ m.next = c.next /\ m.prev = [c.prev EXCEPT ![e] = NIL]
  BY <1>5 DEF Links
<1> HIDE DEF m
<1> QED BY <1>1, <1>3, <1>4, <1>5, <1>6 DEF x, y

(* The two directions after INIT_LIST_HEAD.                                *)
LEMMA InitLinks ==
  ASSUME NEW l \in Links, NEW h \in Node
  PROVE  LET m == INIT_LIST_HEAD(l, h)
         IN  /\ m \in Links
             /\ m.next = [l.next EXCEPT ![h] = h]
             /\ m.prev = [l.prev EXCEPT ![h] = h]
<1> DEFINE a == [l EXCEPT !.next[h] = h]
           m == [a EXCEPT !.prev[h] = h]
<1>1. INIT_LIST_HEAD(l, h) = m
  BY DEF INIT_LIST_HEAD
<1>2. a \in Links /\ a.prev = l.prev /\ a.next = [l.next EXCEPT ![h] = h]
  BY DEF Links
<1> HIDE DEF a
<1>3. m \in Links /\ m.next = a.next /\ m.prev = [a.prev EXCEPT ![h] = h]
  BY <1>2 DEF Links
<1> HIDE DEF m
<1> QED BY <1>1, <1>2, <1>3

-----------------------------------------------------------------------------
(* The operations on one ring.                                             *)

(* A ring depends on the links of its own nodes only.                      *)
LEMMA RingFrame ==
  ASSUME NEW l, NEW m, NEW h, NEW s, Ring(l, h, s),
         \A n \in {h} \cup Range(s) : SameLinks(l, m, n)
  PROVE  Ring(m, h, s)
<1>1. /\ h \in Node /\ s \in Seq(Node) /\ h \notin Range(s) /\ IsInjective(s)
      /\ \A i \in 0 .. Len(s) : /\ l.next[At(h, s, i)] = At(h, s, i + 1)
                                /\ l.prev[At(h, s, i + 1)] = At(h, s, i)
  BY DEF Ring
<1>2. \A i \in Int : At(h, s, i) \in {h} \cup Range(s)
  BY <1>1, AtFacts
<1>3. Len(s) \in Nat
  BY <1>1, LenProperties
<1>4. \A i \in 0 .. Len(s) : /\ m.next[At(h, s, i)] = At(h, s, i + 1)
                             /\ m.prev[At(h, s, i + 1)] = At(h, s, i)
  BY <1>1, <1>2, <1>3 DEF SameLinks
<1> QED BY <1>1, <1>4 DEF Ring

(* Neighbours in a ring.                                                   *)
LEMMA Neighbours ==
  ASSUME NEW l, NEW h, NEW s, Ring(l, h, s)
  PROVE  /\ l.next[h] = At(h, s, 1) /\ l.prev[h] = At(h, s, Len(s))
         /\ \A j \in 1 .. Len(s) : /\ l.next[s[j]] = At(h, s, j + 1)
                                   /\ l.prev[s[j]] = At(h, s, j - 1)
         /\ \A n \in {h} \cup Range(s) :
              /\ l.next[n] \in {h} \cup Range(s) /\ l.prev[n] \in {h} \cup Range(s)
              /\ l.next[n] \in Node /\ l.prev[n] \in Node
              /\ l.next[l.prev[n]] = n /\ l.prev[l.next[n]] = n
<1>1. /\ h \in Node /\ s \in Seq(Node) /\ h \notin Range(s) /\ IsInjective(s)
      /\ \A i \in 0 .. Len(s) : /\ l.next[At(h, s, i)] = At(h, s, i + 1)
                                /\ l.prev[At(h, s, i + 1)] = At(h, s, i)
  BY DEF Ring
<1>2. /\ Len(s) \in Nat /\ At(h, s, 0) = h /\ At(h, s, Len(s) + 1) = h
      /\ \A i \in Int : At(h, s, i) \in {h} \cup Range(s) /\ At(h, s, i) \in Node
      /\ \A x \in {h} \cup Range(s) : \E i \in 0 .. Len(s) : x = At(h, s, i)
      /\ \A i \in 1 .. Len(s) : At(h, s, i) = s[i]
  BY <1>1, AtFacts, LenProperties
<1>3. l.next[h] = At(h, s, 1)
  <2>1. 0 \in 0 .. Len(s) /\ 0 + 1 = 1
    BY <1>2
  <2> QED BY <1>1, <1>2, <2>1
<1>4. l.prev[h] = At(h, s, Len(s))
  <2>1. Len(s) \in 0 .. Len(s)
    BY <1>2
  <2> QED BY <1>1, <1>2, <2>1
<1>5. ASSUME NEW j \in 1 .. Len(s)
      PROVE  l.next[s[j]] = At(h, s, j + 1) /\ l.prev[s[j]] = At(h, s, j - 1)
  <2>1. j \in 0 .. Len(s) /\ j - 1 \in 0 .. Len(s) /\ (j - 1) + 1 = j
    BY <1>2
  <2> QED BY <1>1, <1>2, <2>1
<1>6. ASSUME NEW n \in {h} \cup Range(s)
      PROVE  /\ l.next[n] \in {h} \cup Range(s) /\ l.prev[n] \in {h} \cup Range(s)
             /\ l.next[n] \in Node /\ l.prev[n] \in Node
             /\ l.next[l.prev[n]] = n /\ l.prev[l.next[n]] = n
  <2>1. PICK i \in 0 .. Len(s) : n = At(h, s, i)
    BY <1>2
  <2>2. /\ l.next[n] = At(h, s, i + 1) /\ l.prev[l.next[n]] = n /\ i + 1 \in Int
    BY <1>1, <1>2, <2>1
  <2>3. PICK j \in 0 .. Len(s) : n = At(h, s, j + 1)
    <3>1. CASE i = 0
      BY <1>2, <2>1, <3>1
    <3>2. CASE i # 0
      <4>1. i - 1 \in 0 .. Len(s) /\ (i - 1) + 1 = i
        BY <1>2, <3>2
      <4> QED BY <2>1, <4>1
    <3> QED BY <3>1, <3>2
  <2>4. l.prev[n] = At(h, s, j) /\ l.next[l.prev[n]] = n /\ j \in Int
    BY <1>1, <1>2, <2>3
  <2> QED BY <1>2, <2>2, <2>4
<1> QED BY <1>3, <1>4, <1>5, <1>6

(* list_add_tail puts the node at the end of the ring.                     *)
LEMMA RingAddTail ==
  ASSUME NEW l \in Links, NEW h, NEW s, Ring(l, h, s),
         NEW new \in Node, new \notin {h} \cup Range(s)
  PROVE  LET m == list_add_tail(l, new, h)
         IN  /\ m \in Links /\ Ring(m, h, Append(s, new))
             /\ \A n \in Node : n \notin {h, new} \cup Range(s) => SameLinks(l, m, n)
<1> DEFINE m == list_add_tail(l, new, h)
           t == Append(s, new)
           last == l.prev[h]
           k == Len(s)
<1>1. /\ h \in Node /\ s \in Seq(Node) /\ h \notin Range(s) /\ IsInjective(s)
      /\ \A i \in 0 .. Len(s) : /\ l.next[At(h, s, i)] = At(h, s, i + 1)
                                /\ l.prev[At(h, s, i + 1)] = At(h, s, i)
  BY DEF Ring
<1>2. /\ k \in Nat /\ At(h, s, 0) = h /\ At(h, s, k + 1) = h
      /\ \A i \in Int : At(h, s, i) \in {h} \cup Range(s) /\ At(h, s, i) \in Node
      /\ \A i \in 1 .. k : At(h, s, i) = s[i] /\ At(h, s, i) # h
      /\ \A i, j \in 0 .. k : At(h, s, i) = At(h, s, j) => i = j
      /\ \A i, j \in 1 .. k + 1 : At(h, s, i) = At(h, s, j) => i = j
  BY <1>1, AtFacts, LenProperties
<1>3. last = At(h, s, k) /\ last \in {h} \cup Range(s) /\ last \in Node
  BY <1>2, Neighbours
<1>4. /\ m \in Links
      /\ m.next = [[l.next EXCEPT ![new] = h] EXCEPT ![last] = new]
      /\ m.prev = [[l.prev EXCEPT ![h] = new] EXCEPT ![new] = last]
  <2>1. m = __list_add(l, new, last, h)
    BY DEF list_add_tail
  <2> DEFINE u == __list_add(l, new, last, h)
  <2> HIDE DEF m, last
  <2>2. h \in Node /\ last \in Node
    BY <1>1, <1>3
  <2>3. /\ u \in Links
        /\ u.next = [[l.next EXCEPT ![new] = h] EXCEPT ![last] = new]
        /\ u.prev = [[l.prev EXCEPT ![h] = new] EXCEPT ![new] = last]
    BY <2>2, AddLinks
  <2> QED BY <2>1, <2>3
<1>5. /\ \A n \in Node : m.next[n] = IF n = last THEN new
                                     ELSE IF n = new THEN h ELSE l.next[n]
      /\ \A n \in Node : m.prev[n] = IF n = new THEN last
                                     ELSE IF n = h THEN new ELSE l.prev[n]
  <2>1. l.next \in [Node -> Node \cup {NIL}] /\ l.prev \in [Node -> Node \cup {NIL}]
    BY DEF Links
  <2> QED BY <1>1, <1>3, <1>4, <2>1
<1> HIDE DEF m, last
<1>6. /\ t \in Seq(Node) /\ Len(t) = k + 1 /\ t[k + 1] = new
      /\ \A i \in 1 .. k : t[i] = s[i]
  BY <1>1, AppendProperties
<1> HIDE DEF t
<1>7. /\ \A i \in 0 .. k : At(h, t, i) = At(h, s, i)
      /\ At(h, t, k + 1) = new /\ At(h, t, k + 2) = h
  BY <1>2, <1>6 DEF At
<1>8. h \notin Range(t) /\ IsInjective(t)
  <2>1. DOMAIN t = 1 .. k + 1
    BY <1>6, LenProperties
  <2>2. \A i \in 1 .. k : s[i] \in Range(s) /\ s[i] # h /\ s[i] # new
    BY <1>1, <1>2, Positions
  <2>3. \A i, j \in 1 .. k : s[i] = s[j] => i = j
    BY <1>1, Positions
  <2> HIDE DEF k
  <2>4. \A i \in 1 .. k + 1 : t[i] # h
    BY <1>2, <1>6, <2>2
  <2>5. \A i, j \in 1 .. k + 1 : t[i] = t[j] => i = j
    BY <1>2, <1>6, <2>2, <2>3
  <2> QED BY <2>1, <2>4, <2>5 DEF Range, IsInjective
<1>9. ASSUME NEW i \in 0 .. k + 1
      PROVE  m.next[At(h, t, i)] = At(h, t, i + 1) /\ m.prev[At(h, t, i + 1)] = At(h, t, i)
  <2>1. CASE i < k
    <3>1. /\ i \in 0 .. k /\ i + 1 \in 0 .. k /\ i + 1 \in 1 .. k /\ i # k
          /\ i \in Int /\ i + 1 \in Int /\ k \in 0 .. k
      BY <1>2, <2>1
    <3>2. At(h, s, i) # last /\ At(h, s, i) # new /\ At(h, s, i) \in Node
      BY <1>2, <1>3, <3>1
    <3>3. At(h, s, i + 1) # h /\ At(h, s, i + 1) # new /\ At(h, s, i + 1) \in Node
      BY <1>2, <3>1
    <3> QED BY <1>1, <1>5, <1>7, <3>1, <3>2, <3>3
  <2>2. CASE i = k
    <3>1. At(h, t, i) = last /\ At(h, t, i + 1) = new /\ k \in 0 .. k
      BY <1>2, <1>3, <1>7, <2>2
    <3> QED BY <1>3, <1>5, <3>1
  <2>3. CASE i = k + 1
    <3>1. At(h, t, i) = new /\ At(h, t, i + 1) = h /\ new # h /\ new # last
      BY <1>2, <1>3, <1>7, <2>3
    <3> QED BY <1>1, <1>5, <3>1
  <2> QED BY <1>2, <2>1, <2>2, <2>3
<1>10. Ring(m, h, t)
  BY <1>1, <1>6, <1>8, <1>9 DEF Ring
<1>11. \A n \in Node : n \notin {h, new} \cup Range(s) => SameLinks(l, m, n)
  BY <1>3, <1>5 DEF SameLinks
<1> QED BY <1>4, <1>10, <1>11 DEF m, t

(* list_add puts the node at the front of the ring.                        *)
LEMMA RingAdd ==
  ASSUME NEW l \in Links, NEW h, NEW s, Ring(l, h, s),
         NEW new \in Node, new \notin {h} \cup Range(s)
  PROVE  LET m == list_add(l, new, h)
         IN  /\ m \in Links /\ Ring(m, h, <<new>> \o s)
             /\ \A n \in Node : n \notin {h, new} \cup Range(s) => SameLinks(l, m, n)
<1> DEFINE m == list_add(l, new, h)
           t == <<new>> \o s
           first == l.next[h]
           k == Len(s)
<1>1. /\ h \in Node /\ s \in Seq(Node) /\ h \notin Range(s) /\ IsInjective(s)
      /\ \A i \in 0 .. Len(s) : /\ l.next[At(h, s, i)] = At(h, s, i + 1)
                                /\ l.prev[At(h, s, i + 1)] = At(h, s, i)
  BY DEF Ring
<1>2. /\ k \in Nat /\ At(h, s, 0) = h /\ At(h, s, k + 1) = h
      /\ \A i \in Int : At(h, s, i) \in {h} \cup Range(s) /\ At(h, s, i) \in Node
      /\ \A i \in 1 .. k : At(h, s, i) = s[i] /\ At(h, s, i) # h
      /\ \A i, j \in 0 .. k : At(h, s, i) = At(h, s, j) => i = j
      /\ \A i, j \in 1 .. k + 1 : At(h, s, i) = At(h, s, j) => i = j
  BY <1>1, AtFacts, LenProperties
<1>3. first = At(h, s, 1) /\ first \in {h} \cup Range(s) /\ first \in Node
  BY <1>2, Neighbours
<1>4. /\ m \in Links
      /\ m.next = [[l.next EXCEPT ![new] = first] EXCEPT ![h] = new]
      /\ m.prev = [[l.prev EXCEPT ![first] = new] EXCEPT ![new] = h]
  <2>1. m = __list_add(l, new, h, first)
    BY DEF list_add
  <2> DEFINE u == __list_add(l, new, h, first)
  <2> HIDE DEF m, first
  <2>2. h \in Node /\ first \in Node
    BY <1>1, <1>3
  <2>3. /\ u \in Links
        /\ u.next = [[l.next EXCEPT ![new] = first] EXCEPT ![h] = new]
        /\ u.prev = [[l.prev EXCEPT ![first] = new] EXCEPT ![new] = h]
    BY <2>2, AddLinks
  <2> QED BY <2>1, <2>3
<1>5. /\ \A n \in Node : m.next[n] = IF n = h THEN new
                                     ELSE IF n = new THEN first ELSE l.next[n]
      /\ \A n \in Node : m.prev[n] = IF n = new THEN h
                                     ELSE IF n = first THEN new ELSE l.prev[n]
  <2>1. l.next \in [Node -> Node \cup {NIL}] /\ l.prev \in [Node -> Node \cup {NIL}]
    BY DEF Links
  <2> QED BY <1>1, <1>3, <1>4, <2>1
<1> HIDE DEF m, first
<1>6. /\ t \in Seq(Node) /\ Len(t) = k + 1 /\ t[1] = new
      /\ \A i \in 2 .. k + 1 : t[i] = s[i - 1]
  <2> DEFINE u == <<new>>
  <2>1. u \in Seq(Node) /\ Len(u) = 1 /\ u[1] = new
    OBVIOUS
  <2> HIDE DEF u
  <2>2. /\ u \o s \in Seq(Node) /\ Len(u \o s) = Len(u) + Len(s)
        /\ \A i \in 1 .. Len(u) + Len(s) :
             (u \o s)[i] = IF i <= Len(u) THEN u[i] ELSE s[i - Len(u)]
    BY <1>1, <2>1, ConcatProperties
  <2>3. t = u \o s
    BY DEF u
  <2> HIDE DEF t
  <2> QED BY <1>2, <2>1, <2>2, <2>3
<1> HIDE DEF t
<1>7. /\ \A i \in 2 .. k + 2 : At(h, t, i) = At(h, s, i - 1)
      /\ At(h, t, 0) = h /\ At(h, t, 1) = new
  BY <1>2, <1>6 DEF At
<1>8. h \notin Range(t) /\ IsInjective(t)
  <2>1. DOMAIN t = 1 .. k + 1
    BY <1>6, LenProperties
  <2>2. \A i \in 1 .. k : s[i] \in Range(s) /\ s[i] # h /\ s[i] # new
    BY <1>1, <1>2, Positions
  <2>3. \A i, j \in 1 .. k : s[i] = s[j] => i = j
    BY <1>1, Positions
  <2> HIDE DEF k
  <2>4. \A i \in 1 .. k + 1 : t[i] # h
    BY <1>2, <1>6, <2>2
  <2>5. \A i, j \in 1 .. k + 1 : t[i] = t[j] => i = j
    BY <1>2, <1>6, <2>2, <2>3
  <2> QED BY <2>1, <2>4, <2>5 DEF Range, IsInjective
<1>9. ASSUME NEW i \in 0 .. k + 1
      PROVE  m.next[At(h, t, i)] = At(h, t, i + 1) /\ m.prev[At(h, t, i + 1)] = At(h, t, i)
  <2>1. CASE i = 0
    <3>1. At(h, t, i) = h /\ At(h, t, i + 1) = new /\ new # h
      BY <1>7, <2>1
    <3> QED BY <1>1, <1>5, <3>1
  <2>2. CASE i = 1
    <3>1. At(h, t, i) = new /\ At(h, t, i + 1) = first /\ new # h /\ new # first
      BY <1>2, <1>3, <1>7, <2>2
    <3> QED BY <1>3, <1>5, <3>1
  <2>3. CASE i > 1
    <3> DEFINE j == i - 1
    <3>1. /\ j \in 1 .. k /\ j \in 0 .. k /\ j \in Int /\ j + 1 \in Int
          /\ j + 1 \in 1 .. k + 1 /\ 1 \in 1 .. k + 1 /\ j + 1 # 1
          /\ At(h, t, i) = At(h, s, j) /\ At(h, t, i + 1) = At(h, s, j + 1)
      BY <1>2, <1>7, <2>3
    <3> HIDE DEF j
    <3>2. At(h, s, j) # h /\ At(h, s, j) # new /\ At(h, s, j) \in Node
      BY <1>2, <3>1
    <3>3. /\ At(h, s, j + 1) # first /\ At(h, s, j + 1) # new
          /\ At(h, s, j + 1) \in Node
      BY <1>2, <1>3, <3>1
    <3> QED BY <1>1, <1>5, <3>1, <3>2, <3>3
  <2> QED BY <1>2, <2>1, <2>2, <2>3
<1>10. Ring(m, h, t)
  BY <1>1, <1>6, <1>8, <1>9 DEF Ring
<1>11. \A n \in Node : n \notin {h, new} \cup Range(s) => SameLinks(l, m, n)
  BY <1>3, <1>5 DEF SameLinks
<1> QED BY <1>4, <1>10, <1>11 DEF m, t

(* Removing a node removes it from the set of nodes only.                  *)
LEMMA WithoutRange ==
  ASSUME NEW S, NEW s \in Seq(S), IsInjective(s), NEW j \in 1 .. Len(s)
  PROVE  /\ Without(s, j) \in Seq(S) /\ Len(Without(s, j)) = Len(s) - 1
         /\ IsInjective(Without(s, j)) /\ s[j] \in Range(s)
         /\ Range(Without(s, j)) = Range(s) \ {s[j]}
<1> DEFINE t == Without(s, j)
           k == Len(s)
<1>1. k \in Nat /\ DOMAIN s = 1 .. k /\ \A i \in 1 .. k : s[i] \in S
  BY LenProperties, ElementOfSeq
<1>2. \A i, a \in 1 .. k : s[i] = s[a] => i = a
  BY <1>1 DEF IsInjective
<1>3. k - 1 \in Nat
  BY <1>1
<1>4. t \in [1 .. k - 1 -> S] /\ \A i \in 1 .. k - 1 : t[i] = IF i < j THEN s[i] ELSE s[i + 1]
  BY <1>1 DEF Without
<1> HIDE DEF t
<1>5. t \in Seq(S)
  BY <1>3, <1>4, SeqDef
<1>6. DOMAIN t = 1 .. k - 1 /\ Len(t) = k - 1
  BY <1>3, <1>4, <1>5, LenProperties
<1> HIDE DEF k
<1>7. \A i, a \in 1 .. k - 1 : t[i] = t[a] => i = a
  BY <1>1, <1>2, <1>4
<1>8. j \in 1 .. k
  BY DEF k
<1>9. ASSUME NEW i \in 1 .. k - 1 PROVE t[i] \in Range(s) \ {s[j]}
  <2>1. PICK a \in 1 .. k : t[i] = s[a] /\ a # j
    <3>1. CASE i < j
      <4>1. i \in 1 .. k /\ i # j
        BY <1>1, <1>8, <3>1
      <4>2. t[i] = s[i]
        BY <1>4, <3>1
      <4> QED BY <4>1, <4>2
    <3>2. CASE ~ (i < j)
      <4>1. i + 1 \in 1 .. k /\ i + 1 # j
        BY <1>1, <1>8, <3>2
      <4>2. t[i] = s[i + 1]
        BY <1>4, <3>2
      <4> QED BY <4>1, <4>2
    <3> QED BY <3>1, <3>2
  <2>2. s[a] # s[j]
    BY <1>2, <1>8, <2>1
  <2> QED BY <1>1, <2>1, <2>2 DEF Range
<1>10. ASSUME NEW v \in Range(s) \ {s[j]} PROVE v \in Range(t)
  <2>1. PICK i \in 1 .. k : v = s[i]
    BY <1>1 DEF Range
  <2>2. CASE i < j
    <3>1. i \in 1 .. k - 1 /\ t[i] = v
      BY <1>1, <1>4, <1>8, <2>1, <2>2
    <3> QED BY <1>6, <3>1 DEF Range
  <2>3. CASE i > j
    <3>1. i - 1 \in 1 .. k - 1 /\ t[i - 1] = v
      BY <1>1, <1>4, <1>8, <2>1, <2>3
    <3> QED BY <1>6, <3>1 DEF Range
  <2> QED BY <1>8, <1>10, <2>1, <2>2, <2>3
<1>11. Range(t) = Range(s) \ {s[j]}
  BY <1>6, <1>9, <1>10 DEF Range
<1>12. IsInjective(t) /\ s[j] \in Range(s)
  BY <1>1, <1>6, <1>7, <1>8 DEF IsInjective, Range
<1> QED BY <1>5, <1>6, <1>11, <1>12 DEF t, k

(* list_del closes the ring around the node and clears its links.          *)
LEMMA RingDel ==
  ASSUME NEW l \in Links, NEW h, NEW s, Ring(l, h, s), NEW j \in 1 .. Len(s)
  PROVE  LET m == list_del(l, s[j])
         IN  /\ m \in Links /\ Ring(m, h, Without(s, j))
             /\ m.next[s[j]] = NIL /\ m.prev[s[j]] = NIL
             /\ \A n \in Node : n \notin {h} \cup Range(s) => SameLinks(l, m, n)
<1> DEFINE m == list_del(l, s[j])
           t == Without(s, j)
           e == s[j]
           x == l.next[e]
           y == l.prev[e]
           k == Len(s)
<1>1. /\ h \in Node /\ s \in Seq(Node) /\ h \notin Range(s) /\ IsInjective(s)
      /\ \A i \in 0 .. Len(s) : /\ l.next[At(h, s, i)] = At(h, s, i + 1)
                                /\ l.prev[At(h, s, i + 1)] = At(h, s, i)
  BY DEF Ring
<1>2. /\ k \in Nat /\ At(h, s, 0) = h /\ At(h, s, k + 1) = h
      /\ \A i \in Int : At(h, s, i) \in {h} \cup Range(s) /\ At(h, s, i) \in Node
      /\ \A i \in 1 .. k : At(h, s, i) = s[i] /\ At(h, s, i) # h
      /\ \A i, a \in 0 .. k : At(h, s, i) = At(h, s, a) => i = a
      /\ \A i, a \in 1 .. k + 1 : At(h, s, i) = At(h, s, a) => i = a
  BY <1>1, AtFacts, LenProperties
<1>3. x = At(h, s, j + 1) /\ y = At(h, s, j - 1) /\ e = At(h, s, j) /\ e \in Node
  BY <1>2, Neighbours
<1>4. x \in Node /\ y \in Node /\ x \in {h} \cup Range(s) /\ y \in {h} \cup Range(s)
  BY <1>2, <1>3
<1>5. /\ m \in Links
      /\ m.next = [[l.next EXCEPT ![y] = x] EXCEPT ![e] = NIL]
      /\ m.prev = [[l.prev EXCEPT ![x] = y] EXCEPT ![e] = NIL]
  <2>1. m = list_del(l, e)
    OBVIOUS
  <2> HIDE DEF m, e
  <2> QED BY <1>3, <1>4, <2>1, DelLinks
<1>6. /\ \A n \in Node : m.next[n] = IF n = e THEN NIL ELSE IF n = y THEN x ELSE l.next[n]
      /\ \A n \in Node : m.prev[n] = IF n = e THEN NIL ELSE IF n = x THEN y ELSE l.prev[n]
  <2>1. l.next \in [Node -> Node \cup {NIL}] /\ l.prev \in [Node -> Node \cup {NIL}]
    BY DEF Links
  <2> HIDE DEF m, x, y, e
  <2> QED BY <1>3, <1>4, <1>5, <2>1
<1> HIDE DEF m, x, y, e
<1>7. /\ t \in Seq(Node) /\ Len(t) = k - 1 /\ DOMAIN t = 1 .. k - 1
      /\ \A i \in 1 .. k - 1 : t[i] = IF i < j THEN s[i] ELSE s[i + 1]
  <2>1. \A i \in 1 .. k - 1 : (IF i < j THEN s[i] ELSE s[i + 1]) \in Node
    <3>1. \A i \in 1 .. k : s[i] \in Node
      BY <1>1, Positions
    <3>2. \A i \in 1 .. k - 1 : i \in 1 .. k /\ i + 1 \in 1 .. k
      BY <1>2
    <3> QED BY <3>1, <3>2
  <2>2. k - 1 \in Nat
    BY <1>2
  <2>3. t \in [1 .. k - 1 -> Node]
    BY <2>1 DEF Without
  <2>4. t \in Seq(Node)
    BY <2>2, <2>3, SeqDef
  <2>5. DOMAIN t = 1 .. k - 1
    BY <2>3
  <2>6. Len(t) = k - 1
    BY <2>2, <2>4, <2>5, LenProperties
  <2> QED BY <2>4, <2>5, <2>6 DEF Without
<1> HIDE DEF t
<1>8. \A i \in 0 .. k : At(h, t, i) = IF i < j THEN At(h, s, i) ELSE At(h, s, i + 1)
  BY <1>2, <1>7 DEF At
<1>9. h \notin Range(t) /\ IsInjective(t)
  <2>1. IsInjective(Without(s, j)) /\ Range(Without(s, j)) = Range(s) \ {s[j]}
    BY <1>1, WithoutRange
  <2> QED BY <1>1, <2>1 DEF t
<1>10. ASSUME NEW i \in 0 .. k - 1
       PROVE  m.next[At(h, t, i)] = At(h, t, i + 1) /\ m.prev[At(h, t, i + 1)] = At(h, t, i)
  <2>0. i \in 0 .. k /\ i + 1 \in 0 .. k /\ (i + 1) + 1 = i + 2 /\ j - 1 \in 0 .. k
        /\ j + 1 \in 1 .. k + 1 /\ j \in 0 .. k /\ j \in 1 .. k + 1
    BY <1>2
  <2>1. CASE i < j - 1
    <3>1. /\ i + 1 < j /\ i < j /\ i \in Int /\ i + 1 \in Int
          /\ i + 1 \in 1 .. k + 1 /\ i # j /\ i # j - 1 /\ i + 1 # j /\ i + 1 # j + 1
      BY <1>2, <2>1
    <3>2. At(h, t, i) = At(h, s, i) /\ At(h, t, i + 1) = At(h, s, i + 1)
      BY <1>8, <2>0, <3>1
    <3>3. At(h, s, i) # e /\ At(h, s, i) # y /\ At(h, s, i) \in Node
      BY <1>2, <1>3, <2>0, <3>1
    <3>4. At(h, s, i + 1) # e /\ At(h, s, i + 1) # x /\ At(h, s, i + 1) \in Node
      BY <1>2, <1>3, <2>0, <3>1
    <3> QED BY <1>1, <1>6, <2>0, <3>2, <3>3, <3>4
  <2>2. CASE i = j - 1
    <3>1. At(h, t, i) = y /\ At(h, t, i + 1) = x
      BY <1>2, <1>3, <1>8, <2>0, <2>2
    <3>2. y # e /\ x # e
      <4>1. j # j - 1 /\ j # j + 1
        BY <1>2
      <4> QED BY <1>2, <1>3, <2>0, <4>1
    <3> QED BY <1>4, <1>6, <3>1, <3>2
  <2>3. CASE i > j - 1
    <3>1. /\ ~ (i + 1 < j) /\ ~ (i < j) /\ i + 1 \in Int /\ i + 2 \in Int
          /\ i + 1 \in 0 .. k /\ i + 2 \in 1 .. k + 1 /\ i + 1 # j /\ i + 1 # j - 1
          /\ i + 2 # j /\ i + 2 # j + 1
      BY <1>2, <2>3
    <3>2. At(h, t, i) = At(h, s, i + 1) /\ At(h, t, i + 1) = At(h, s, i + 2)
      BY <1>8, <2>0, <3>1
    <3>3. At(h, s, i + 1) # e /\ At(h, s, i + 1) # y /\ At(h, s, i + 1) \in Node
      BY <1>2, <1>3, <2>0, <3>1
    <3>4. At(h, s, i + 2) # e /\ At(h, s, i + 2) # x /\ At(h, s, i + 2) \in Node
      BY <1>2, <1>3, <2>0, <3>1
    <3> QED BY <1>1, <1>6, <2>0, <3>1, <3>2, <3>3, <3>4
  <2> QED BY <1>2, <2>1, <2>2, <2>3
<1>11. Ring(m, h, t)
  BY <1>1, <1>7, <1>9, <1>10 DEF Ring
<1>12. m.next[e] = NIL /\ m.prev[e] = NIL
  BY <1>3, <1>6
<1>13. \A n \in Node : n \notin {h} \cup Range(s) => SameLinks(l, m, n)
  <2>1. e \in {h} \cup Range(s)
    BY <1>2, <1>3
  <2> QED BY <1>4, <1>6, <2>1 DEF SameLinks
<1> QED BY <1>5, <1>11, <1>12, <1>13 DEF m, t, e

(* Removing the first element leaves the tail.                             *)
LEMMA WithoutFirst ==
  ASSUME NEW S, NEW s \in Seq(S), s # <<>>
  PROVE  Without(s, 1) = Tail(s) /\ Head(s) = s[1] /\ 1 \in 1 .. Len(s)
<1>1. /\ Tail(s) \in Seq(S) /\ Head(s) = s[1] /\ Len(s) \in Nat \ {0}
      /\ Len(Tail(s)) = Len(s) - 1 /\ DOMAIN Tail(s) = 1 .. Len(s) - 1
      /\ \A i \in 1 .. Len(s) - 1 : Tail(s)[i] = s[i + 1]
  BY HeadTailProperties, LenProperties, EmptySeq
<1>2. \A i \in 1 .. Len(s) - 1 : ~ (i < 1)
  BY <1>1
<1>3. Without(s, 1) = [i \in 1 .. Len(s) - 1 |-> s[i + 1]]
  BY <1>2 DEF Without
<1> DEFINE t == Tail(s)
<1>4. t \in [1 .. Len(t) -> S]
  BY <1>1, LenProperties
<1>5. Len(t) = Len(s) - 1 /\ \A i \in 1 .. Len(s) - 1 : t[i] = s[i + 1]
  BY <1>1
<1> HIDE DEF t
<1>6. t = [i \in 1 .. Len(s) - 1 |-> s[i + 1]]
  BY <1>4, <1>5
<1>7. 1 \in 1 .. Len(s)
  BY <1>1
<1> QED BY <1>1, <1>3, <1>6, <1>7 DEF t

(* INIT_LIST_HEAD makes an empty ring.                                     *)
LEMMA RingInit ==
  ASSUME NEW l \in Links, NEW h \in Node
  PROVE  LET m == INIT_LIST_HEAD(l, h)
         IN  /\ m \in Links /\ Ring(m, h, <<>>)
             /\ \A n \in Node : n # h => SameLinks(l, m, n)
<1> DEFINE m == INIT_LIST_HEAD(l, h)
           s == <<>>
<1>1. m \in Links /\ m.next = [l.next EXCEPT ![h] = h] /\ m.prev = [l.prev EXCEPT ![h] = h]
  BY InitLinks
<1> HIDE DEF m
<1>2. l.next \in [Node -> Node \cup {NIL}] /\ l.prev \in [Node -> Node \cup {NIL}]
  BY DEF Links
<1>3. \A n \in Node : n # h => SameLinks(l, m, n)
  BY <1>1, <1>2 DEF SameLinks
<1>4. m.next[h] = h /\ m.prev[h] = h
  BY <1>1, <1>2
<1>5. s \in Seq(Node) /\ Len(s) = 0 /\ Range(s) = {} /\ IsInjective(s)
  BY DEF Range, IsInjective
<1>6. \A i \in Int : At(h, s, i) = h
  BY <1>5 DEF At
<1> HIDE DEF s
<1>7. \A i \in 0 .. Len(s) : m.next[At(h, s, i)] = At(h, s, i + 1) /\ m.prev[At(h, s, i + 1)] = At(h, s, i)
  BY <1>4, <1>5, <1>6
<1>8. Ring(m, h, s)
  BY <1>5, <1>7 DEF Ring
<1> QED BY <1>1, <1>3, <1>8 DEF m, s

-----------------------------------------------------------------------------
(* Collections of lists: A maps each head to the nodes of its list.        *)

Members(A) == DOMAIN A \cup UNION {Range(A[h]) : h \in DOMAIN A}

Apart(A) == \A h, k \in DOMAIN A : /\ h \notin Range(A[k])
                                   /\ h # k => Range(A[h]) \cap Range(A[k]) = {}

Rep(l, A) ==
    /\ l \in Links
    /\ \A h \in DOMAIN A : Ring(l, h, A[h])
    /\ Apart(A)

(* The lists depend on the links of their members only.                    *)
LEMMA RepFrame ==
  ASSUME NEW l, NEW A, Rep(l, A), NEW m \in Links,
         \A n \in Members(A) : SameLinks(l, m, n)
  PROVE  Rep(m, A)
<1>1. ASSUME NEW h \in DOMAIN A PROVE Ring(m, h, A[h])
  <2>1. Ring(l, h, A[h])
    BY DEF Rep
  <2>2. \A n \in {h} \cup Range(A[h]) : SameLinks(l, m, n)
    BY DEF Members
  <2> QED BY <2>1, <2>2, RingFrame
<1> QED BY <1>1 DEF Rep

(* A list changes, and the links of the other lists do not.                *)
OthersKept(l, m, A, h) ==
    \A n \in Members(A) : n \notin {h} \cup Range(A[h]) => SameLinks(l, m, n)

OwnOrNew(A, h, s) ==
    \A n \in Range(s) : n \in Range(A[h]) \/ n \notin Members(A)

Changed(m, A, h, s) ==
    LET B == [A EXCEPT ![h] = s]
    IN  /\ Rep(m, B) /\ DOMAIN B = DOMAIN A
        /\ Members(B) = (Members(A) \ Range(A[h])) \cup Range(s)

(* A change of one list keeps the collection when the other lists and      *)
(* their nodes are left alone.                                             *)
LEMMA RepChange ==
  ASSUME NEW l, NEW A, Rep(l, A), NEW h \in DOMAIN A, NEW m \in Links, NEW s,
         Ring(m, h, s), OthersKept(l, m, A, h), OwnOrNew(A, h, s)
  PROVE  Changed(m, A, h, s)
<1> DEFINE B == [A EXCEPT ![h] = s]
<1>1. /\ DOMAIN B = DOMAIN A /\ B[h] = s
      /\ \A k \in DOMAIN A : k # h => B[k] = A[k]
  OBVIOUS
<1> HIDE DEF B
<1>2. Apart(A)
  BY DEF Rep
<1>3. \A k \in DOMAIN A : k \in Members(A) /\ Range(A[k]) \subseteq Members(A)
  BY DEF Members
<1>4. ASSUME NEW k \in DOMAIN A, k # h PROVE Ring(m, k, A[k])
  <2>1. \A n \in {k} \cup Range(A[k]) : SameLinks(l, m, n)
    BY <1>2, <1>3, <1>4 DEF Apart, OthersKept
  <2>2. Ring(l, k, A[k])
    BY DEF Rep
  <2> QED BY <2>1, <2>2, RingFrame
<1>5. \A k \in DOMAIN B : Ring(m, k, B[k])
  BY <1>1, <1>4
<1>6. Apart(B)
  <2>1. h \notin Range(s)
    BY DEF Ring
  <2>2. ASSUME NEW k \in DOMAIN A, k # h
        PROVE  k \notin Range(s) /\ Range(A[k]) \cap Range(s) = {}
    BY <1>2, <1>3, <2>2 DEF Apart, OwnOrNew
  <2> QED BY <1>1, <1>2, <2>1, <2>2 DEF Apart
<1>7. Members(B) = (Members(A) \ Range(A[h])) \cup Range(s)
  <2>1. Members(B) \subseteq (Members(A) \ Range(A[h])) \cup Range(s)
    <3> SUFFICES ASSUME NEW n \in Members(B), n \notin Range(s)
                 PROVE  n \in Members(A) /\ n \notin Range(A[h])
      OBVIOUS
    <3>1. CASE n \in DOMAIN A
      BY <1>2, <1>3, <3>1 DEF Apart
    <3>2. CASE \E k \in DOMAIN A : k # h /\ n \in Range(A[k])
      BY <1>2, <1>3, <3>2 DEF Apart
    <3>3. n \in DOMAIN A \/ \E k \in DOMAIN A : n \in Range(B[k])
      BY <1>1 DEF Members
    <3> QED BY <1>1, <3>1, <3>2, <3>3
  <2>2. (Members(A) \ Range(A[h])) \cup Range(s) \subseteq Members(B)
    <3> SUFFICES ASSUME NEW n, n \in Range(s) \/ (n \in Members(A) /\ n \notin Range(A[h]))
                 PROVE  n \in Members(B)
      OBVIOUS
    <3>1. CASE n \in Range(s)
      BY <1>1, <3>1 DEF Members
    <3>2. CASE n \in Members(A) /\ n \notin Range(A[h])
      <4>1. n \in DOMAIN A \/ \E k \in DOMAIN A : k # h /\ n \in Range(A[k])
        BY <3>2 DEF Members
      <4> QED BY <1>1, <4>1 DEF Members
    <3> QED BY <3>1, <3>2
  <2> QED BY <2>1, <2>2
<1>8. Rep(m, B)
  BY <1>5, <1>6 DEF Rep
<1> QED BY <1>1, <1>7, <1>8 DEF B, Changed

(* The elements of a sequence with one more at its end.                    *)
LEMMA AppendRange ==
  ASSUME NEW S, NEW s \in Seq(S), NEW x \in S
  PROVE  Range(Append(s, x)) = Range(s) \cup {x} /\ Append(s, x) \in Seq(S)
<1>1. /\ Append(s, x) \in Seq(S) /\ Len(s) \in Nat /\ DOMAIN s = 1 .. Len(s)
      /\ DOMAIN Append(s, x) = 1 .. Len(s) + 1
      /\ \A i \in 1 .. Len(s) : Append(s, x)[i] = s[i]
      /\ Append(s, x)[Len(s) + 1] = x
  BY AppendProperties, LenProperties
<1> DEFINE t == Append(s, x)
<1> HIDE DEF t
<1>2. Range(t) \subseteq Range(s) \cup {x}
  BY <1>1 DEF Range, t
<1>3. Range(s) \cup {x} \subseteq Range(t)
  BY <1>1 DEF Range, t
<1> QED BY <1>1, <1>2, <1>3 DEF t

(* list_add_tail on a collection.                                          *)
LEMMA RepAddTail ==
  ASSUME NEW l, NEW A, Rep(l, A), NEW h \in DOMAIN A,
         NEW new \in Node, new \notin Members(A)
  PROVE  LET m == list_add_tail(l, new, h)
             B == [A EXCEPT ![h] = Append(A[h], new)]
         IN  /\ Rep(m, B) /\ DOMAIN B = DOMAIN A
             /\ Members(B) = Members(A) \cup {new}
             /\ \A n \in Node : n \notin Members(A) \cup {new} => SameLinks(l, m, n)
<1> DEFINE m == list_add_tail(l, new, h)
           s == Append(A[h], new)
           B == [A EXCEPT ![h] = s]
<1>1. l \in Links /\ Ring(l, h, A[h]) /\ h \in Members(A) /\ Range(A[h]) \subseteq Members(A)
  BY DEF Rep, Members
<1>2. A[h] \in Seq(Node) /\ h \in Node
  BY <1>1 DEF Ring
<1>3. new \notin {h} \cup Range(A[h])
  BY <1>1
<1>4. /\ m \in Links /\ Ring(m, h, s)
      /\ \A n \in Node : n \notin {h, new} \cup Range(A[h]) => SameLinks(l, m, n)
  BY <1>1, <1>3, RingAddTail
<1>5. Range(s) = Range(A[h]) \cup {new}
  BY <1>2, AppendRange
<1> HIDE DEF m, s
<1>6. \A n \in Members(A) : n \in Node
  <2>1. \A k \in DOMAIN A : k \in Node /\ A[k] \in Seq(Node)
    BY DEF Rep, Ring
  <2>2. \A k \in DOMAIN A : Range(A[k]) \subseteq Node
    BY <2>1, LenProperties, ElementOfSeq DEF Range
  <2> QED BY <2>1, <2>2 DEF Members
<1>7. OthersKept(l, m, A, h)
  BY <1>4, <1>6 DEF OthersKept
<1>8. OwnOrNew(A, h, s)
  BY <1>5 DEF OwnOrNew
<1>9. Rep(m, B) /\ DOMAIN B = DOMAIN A /\ Members(B) = (Members(A) \ Range(A[h])) \cup Range(s)
  <2>1. m \in Links /\ Ring(m, h, s)
    BY <1>4
  <2>2. Changed(m, A, h, s)
    BY <2>1, <1>7, <1>8, RepChange, Zenon
  <2> QED BY <2>2 DEF Changed
<1> HIDE DEF B
<1>10. Members(B) = Members(A) \cup {new}
  BY <1>1, <1>5, <1>9
<1>11. \A n \in Node : n \notin Members(A) \cup {new} => SameLinks(l, m, n)
  BY <1>1, <1>4
<1> QED BY <1>9, <1>10, <1>11 DEF m, s, B

(* Members are nodes.                                                      *)
LEMMA MembersAreNodes ==
  ASSUME NEW l, NEW A, Rep(l, A)
  PROVE  Members(A) \subseteq Node
<1>1. \A k \in DOMAIN A : k \in Node /\ A[k] \in Seq(Node)
  BY DEF Rep, Ring
<1>2. \A k \in DOMAIN A : Range(A[k]) \subseteq Node
  BY <1>1, LenProperties, ElementOfSeq DEF Range
<1> QED BY <1>1, <1>2 DEF Members

Deleted(l, A, h, j) ==
    LET e == A[h][j]
        m == list_del(l, e)
        B == [A EXCEPT ![h] = Without(A[h], j)]
    IN  /\ Rep(m, B) /\ DOMAIN B = DOMAIN A
        /\ Members(B) = Members(A) \ {e}
        /\ m.next[e] = NIL /\ m.prev[e] = NIL
        /\ \A n \in Node : n \notin Members(A) => SameLinks(l, m, n)

(* list_del on a collection.                                               *)
LEMMA RepDel ==
  ASSUME NEW l, NEW A, Rep(l, A), NEW h \in DOMAIN A, NEW j \in 1 .. Len(A[h])
  PROVE  Deleted(l, A, h, j)
<1> DEFINE e == A[h][j]
           m == list_del(l, e)
           s == Without(A[h], j)
           B == [A EXCEPT ![h] = s]
<1>1. l \in Links /\ Ring(l, h, A[h]) /\ h \in Members(A) /\ Range(A[h]) \subseteq Members(A)
  BY DEF Rep, Members
<1>2. A[h] \in Seq(Node) /\ h \in Node /\ IsInjective(A[h])
  BY <1>1 DEF Ring
<1>4. /\ m \in Links /\ Ring(m, h, s) /\ m.next[e] = NIL /\ m.prev[e] = NIL
      /\ \A n \in Node : n \notin {h} \cup Range(A[h]) => SameLinks(l, m, n)
  BY <1>1, RingDel
<1>5. Range(s) = Range(A[h]) \ {e} /\ e \in Range(A[h])
  BY <1>2, WithoutRange
<1> HIDE DEF m, s, e
<1>6. \A n \in Members(A) : n \in Node
  BY MembersAreNodes
<1>7. OthersKept(l, m, A, h)
  BY <1>4, <1>6 DEF OthersKept
<1>8. OwnOrNew(A, h, s)
  BY <1>5 DEF OwnOrNew
<1>9. Rep(m, B) /\ DOMAIN B = DOMAIN A /\ Members(B) = (Members(A) \ Range(A[h])) \cup Range(s)
  <2>1. m \in Links /\ Ring(m, h, s)
    BY <1>4
  <2>2. Changed(m, A, h, s)
    BY <2>1, <1>7, <1>8, RepChange, Zenon
  <2> QED BY <2>2 DEF Changed
<1> HIDE DEF B
<1>10. Members(B) = Members(A) \ {e}
  BY <1>1, <1>5, <1>9
<1>11. \A n \in Node : n \notin Members(A) => SameLinks(l, m, n)
  BY <1>1, <1>4
<1> QED BY <1>4, <1>9, <1>10, <1>11 DEF m, s, B, e, Deleted

(* A node that is in no list becomes the head of an empty one.             *)
LEMMA RepInit ==
  ASSUME NEW l, NEW A, Rep(l, A), NEW h \in Node, h \notin Members(A)
  PROVE  LET m == INIT_LIST_HEAD(l, h)
             B == [k \in DOMAIN A \cup {h} |-> IF k = h THEN <<>> ELSE A[k]]
         IN  /\ Rep(m, B) /\ Members(B) = Members(A) \cup {h}
             /\ \A n \in Node : n # h => SameLinks(l, m, n)
<1> DEFINE m == INIT_LIST_HEAD(l, h)
           e == <<>>
           B == [k \in DOMAIN A \cup {h} |-> IF k = h THEN e ELSE A[k]]
<1>1. l \in Links
  BY DEF Rep
<1>2. m \in Links /\ Ring(m, h, e) /\ \A n \in Node : n # h => SameLinks(l, m, n)
  BY <1>1, RingInit
<1> HIDE DEF m
<1>3. Range(e) = {}
  BY DEF Range
<1> HIDE DEF e
<1>4. /\ DOMAIN B = DOMAIN A \cup {h} /\ B[h] = e /\ h \notin DOMAIN A
      /\ \A k \in DOMAIN A : B[k] = A[k]
  BY DEF Members
<1> HIDE DEF B
<1>5. \A n \in Members(A) : n \in Node /\ n # h
  BY MembersAreNodes
<1>6. Rep(m, A)
  BY <1>2, <1>5, RepFrame
<1>7. \A k \in DOMAIN B : Ring(m, k, B[k])
  BY <1>2, <1>4, <1>6 DEF Rep
<1>8. Apart(B)
  <2>1. \A k \in DOMAIN A : h \notin Range(A[k])
    BY DEF Members
  <2>2. Apart(A)
    BY DEF Rep
  <2> QED BY <1>3, <1>4, <2>1, <2>2 DEF Apart
<1>9. Members(B) = Members(A) \cup {h}
  <2>1. \A k \in DOMAIN B : Range(B[k]) = IF k = h THEN {} ELSE Range(A[k])
    BY <1>3, <1>4
  <2> QED BY <1>4, <2>1 DEF Members
<1>10. Rep(m, B)
  BY <1>2, <1>7, <1>8 DEF Rep
<1> QED BY <1>2, <1>9, <1>10 DEF m, B, e

(* Fewer lists.                                                            *)
LEMMA RepSome ==
  ASSUME NEW l, NEW A, Rep(l, A), NEW D \in SUBSET DOMAIN A
  PROVE  LET B == [h \in D |-> A[h]] IN Rep(l, B) /\ Members(B) \subseteq Members(A)
  BY DEF Rep, Apart, Members

-----------------------------------------------------------------------------
(* Loops: a recursive function over an interval is what its rounds say.    *)

(* Every nonempty set of naturals has a least element: induction, in the   *)
(* form that the provers can use.                                          *)
LEMMA LeastNat ==
  ASSUME NEW T \in SUBSET Nat, T # {}
  PROVE  \E n \in T : \A m \in T : n <= m
<1>1. PICK R : /\ IsWellFoundedOn(R, Nat)
               /\ \A x, y \in Nat : x < y => <<x, y>> \in R
  <2>1. \A x, y \in Nat : x < y => <<x, y>> \in OpToRel(<, Nat)
    BY DEF OpToRel
  <2>2. IsWellFoundedOn(OpToRel(<, Nat), Nat)
    BY NatLessThanWellFounded, Zenon
  <2> QED BY <2>1, <2>2, Zenon
<1>2. T \subseteq Nat
  OBVIOUS
<1>3. \E n \in T : \A m \in T : ~ (<<m, n>> \in R)
  <2>1. IsWellFoundedOn(R, Nat)
    BY <1>1, Zenon
  <2> QED BY <2>1, <1>2, WFMin
<1>4. PICK n \in T : \A m \in T : ~ (<<m, n>> \in R)
  BY <1>3
<1>5. ASSUME NEW m \in T PROVE ~ (m < n)
  BY <1>1, <1>2, <1>4, Zenon
<1>6. ASSUME NEW m \in T PROVE n <= m
  BY <1>2, <1>5
<1> QED BY <1>6

(* A set of rounds that holds the first and is closed under the next holds *)
(* every round.                                                            *)
LEMMA Rounds ==
  ASSUME NEW N \in Nat, NEW T, 0 \in T,
         \A i \in 1 .. N : i - 1 \in T => i \in T
  PROVE  \A i \in 0 .. N : i \in T
<1> DEFINE U == {i \in 0 .. N : i \notin T}
<1> SUFFICES ASSUME U # {} PROVE FALSE
  OBVIOUS
<1>1. U \in SUBSET Nat
  OBVIOUS
<1>2. PICK n \in U : \A m \in U : n <= m
  <2> HIDE DEF U
  <2> QED BY <1>1, LeastNat
<1>3. n \in 1 .. N /\ n - 1 \in 0 .. N /\ ~ (n <= n - 1)
  <2>1. n # 0 /\ n \in 0 .. N
    OBVIOUS
  <2> QED BY <2>1
<1>4. n - 1 \in T
  BY <1>2, <1>3
<1> QED BY <1>3, <1>4

IsLoop(g, N, x, F) ==
    g = [i \in 0 .. N |-> IF i = 0 THEN x ELSE F[i][g[i - 1]]]

(* A function that is defined round by round exists: the loops over task[] *)
(* are what their rounds say.                                              *)
LEMMA Loop ==
  ASSUME NEW S, NEW N \in Nat, NEW x \in S, NEW F \in [1 .. N -> [S -> S]]
  PROVE  \E g \in [0 .. N -> S] : IsLoop(g, N, x, F)
<1> DEFINE T == {n \in Nat : \E g \in [0 .. n -> S] : IsLoop(g, n, x, F)}
<1>1. 0 \in T
  <2> DEFINE g == [i \in 0 .. 0 |-> x]
  <2>1. g \in [0 .. 0 -> S]
    OBVIOUS
  <2>2. \A i \in 0 .. 0 : i = 0
    OBVIOUS
  <2>3. IsLoop(g, 0, x, F)
    BY <2>2 DEF IsLoop
  <2> QED BY <2>1, <2>3
<1>2. ASSUME NEW n \in 1 .. N, n - 1 \in T PROVE n \in T
  <2>1. PICK g \in [0 .. n - 1 -> S] : IsLoop(g, n - 1, x, F)
    BY <1>2
  <2>2. \A i \in 0 .. n - 1 : g[i] = IF i = 0 THEN x ELSE F[i][g[i - 1]]
    BY <2>1 DEF IsLoop
  <2> DEFINE y == F[n][g[n - 1]]
             f == [i \in 0 .. n |-> IF i = n THEN y ELSE g[i]]
  <2>3. F[n] \in [S -> S] /\ n - 1 \in 0 .. n - 1 /\ n \in Nat /\ n # 0
    OBVIOUS
  <2>4. y \in S
    BY <2>3
  <2>5. f \in [0 .. n -> S]
    <3> HIDE DEF y
    <3>1. \A i \in 0 .. n : i # n => i \in 0 .. n - 1
      BY <2>3
    <3> QED BY <2>4, <3>1
  <2>6. ASSUME NEW i \in 0 .. n PROVE f[i] = IF i = 0 THEN x ELSE F[i][f[i - 1]]
    <3>1. CASE i = n
      <4>1. f[i] = y /\ i # 0 /\ i - 1 \in 0 .. n /\ i - 1 # n
        BY <2>3, <3>1
      <4>2. f[i - 1] = g[n - 1]
        BY <3>1, <4>1
      <4> QED BY <3>1, <4>1, <4>2
    <3>2. CASE i # n
      <4>1. i \in 0 .. n - 1 /\ f[i] = g[i]
        BY <2>3, <3>2
      <4>2. CASE i = 0
        BY <2>2, <4>1, <4>2
      <4>3. CASE i # 0
        <5>1. i - 1 \in 0 .. n /\ i - 1 # n
          BY <2>3, <3>2, <4>3
        <5>2. f[i - 1] = g[i - 1]
          BY <5>1
        <5> QED BY <2>2, <4>1, <4>3, <5>2
      <4> QED BY <4>2, <4>3
    <3> QED BY <3>1, <3>2
  <2> HIDE DEF f
  <2>7. IsLoop(f, n, x, F)
    BY <2>5, <2>6 DEF IsLoop
  <2> QED BY <2>3, <2>5, <2>7
<1> HIDE DEF T
<1>3. \A i \in 0 .. N : i \in T
  BY <1>1, <1>2, Rounds
<1>4. N \in T
  BY <1>3
<1> QED BY <1>4 DEF T

-----------------------------------------------------------------------------
(* The nodes.                                                              *)

Heads == {freequeue, readyqueue, blocked}

(* The list_head fields are different from each other, from the heads and  *)
(* from NULL.                                                              *)
LEMMA NodeFacts ==
  /\ NIL \notin Node /\ Heads \subseteq Node
  /\ \A p \in Task : node(p) \in Node /\ bros(p) \in Node /\ sonlist(p) \in Node
  /\ \A p, q : /\ node(p) = node(q) => p = q
               /\ bros(p) = bros(q) => p = q
               /\ sonlist(p) = sonlist(q) => p = q
               /\ node(p) # bros(q) /\ node(p) # sonlist(q) /\ bros(p) # sonlist(q)
  /\ \A p : /\ node(p) \notin Heads /\ bros(p) \notin Heads /\ sonlist(p) \notin Heads
            /\ node(p)[2] = p /\ bros(p)[2] = p /\ sonlist(p)[2] = p
            /\ NIL \notin {node(p), bros(p), sonlist(p)}
  /\ freequeue # readyqueue /\ freequeue # blocked /\ readyqueue # blocked
  /\ NIL \notin Heads
  BY DEF NIL, Node, Heads, freequeue, readyqueue, blocked, node, bros, sonlist

(* There are finitely many list_head fields.                               *)
LEMMA FiniteNodes == IsFiniteSet(Node)
<1>1. IsFiniteSet(Task)
  BY ListsAssumption, FS_Interval DEF Task
<1> DEFINE f == [p \in Task |-> node(p)]
           g == [p \in Task |-> bros(p)]
           k == [p \in Task |-> sonlist(p)]
           F == {node(p) : p \in Task}
           G == {bros(p) : p \in Task}
           K == {sonlist(p) : p \in Task}
<1>2. f \in Surjection(Task, F) /\ g \in Surjection(Task, G) /\ k \in Surjection(Task, K)
  BY DEF Surjection
<1>3. IsFiniteSet(F) /\ IsFiniteSet(G) /\ IsFiniteSet(K)
  BY <1>1, <1>2, FS_Surjection
<1>4. IsFiniteSet(Heads)
  <2>1. /\ IsFiniteSet({freequeue}) /\ IsFiniteSet({readyqueue})
        /\ IsFiniteSet({blocked})
    BY FS_Singleton
  <2>2. IsFiniteSet({freequeue} \cup {readyqueue} \cup {blocked})
    BY <2>1, FS_Union
  <2>3. Heads = {freequeue} \cup {readyqueue} \cup {blocked}
    BY DEF Heads
  <2> QED BY <2>2, <2>3
<1> HIDE DEF F, G, K
<1>5. IsFiniteSet(Heads \cup F \cup G \cup K)
  BY <1>3, <1>4, FS_Union
<1> QED BY <1>5 DEF Node, Heads, F, G, K

(* A sequence without repetitions has as many elements as positions.       *)
LEMMA RangeCount ==
  ASSUME NEW S, NEW s \in Seq(S), IsInjective(s)
  PROVE  IsFiniteSet(Range(s)) /\ Cardinality(Range(s)) = Len(s) /\ Len(s) \in Nat
<1>1. Len(s) \in Nat /\ DOMAIN s = 1 .. Len(s) /\ s \in [1 .. Len(s) -> S]
  BY LenProperties
<1>2. s \in [1 .. Len(s) -> Range(s)]
  BY <1>1 DEF Range
<1>3. s \in Bijection(1 .. Len(s), Range(s))
  BY <1>1, <1>2 DEF Bijection, Injection, Surjection, Range
<1>4. ExistsBijection(1 .. Len(s), Range(s))
  BY <1>3 DEF ExistsBijection
<1>5. Cardinality(Range(s)) = Len(s)
  BY <1>1, <1>4, FS_CountingElements
<1>6. IsFiniteSet(Range(s))
  BY <1>1, <1>4, FS_NatBijection
<1> QED BY <1>1, <1>5, <1>6

(* A ring fits in the nodes, so its walk ends.                             *)
LEMMA RingSize ==
  ASSUME NEW l, NEW h, NEW s, Ring(l, h, s)
  PROVE  Len(s) \in Nat /\ Cardinality(Node) \in Nat /\ Len(s) + 1 <= Cardinality(Node)
<1>1. h \in Node /\ s \in Seq(Node) /\ h \notin Range(s) /\ IsInjective(s)
  BY DEF Ring
<1>2. IsFiniteSet(Range(s)) /\ Cardinality(Range(s)) = Len(s) /\ Len(s) \in Nat
  BY <1>1, RangeCount
<1>3. /\ IsFiniteSet(Range(s) \cup {h})
      /\ Cardinality(Range(s) \cup {h}) = Cardinality(Range(s)) + 1
  BY <1>1, <1>2, FS_AddElement
<1>4. Range(s) \cup {h} \in SUBSET Node
  BY <1>1, Positions
<1>5. Cardinality(Range(s) \cup {h}) <= Cardinality(Node)
  BY <1>4, FiniteNodes, FS_Subset
<1>6. Cardinality(Node) \in Nat
  BY FiniteNodes, FS_CardinalityType
<1> QED BY <1>2, <1>3, <1>5, <1>6

(* list_for_each from the head of a ring visits its nodes in order.        *)
LEMMA Walk ==
  ASSUME NEW l, NEW h, NEW s, Ring(l, h, s)
  PROVE  list_for_each(l, h) = s
<1> DEFINE C == Cardinality(Node)
           k == Len(s)
           pos[n \in 0 .. C] == IF n = 0 THEN h ELSE l.next[pos[n - 1]]
           end == CHOOSE n \in 1 .. C : pos[n] = h /\ \A m \in 1 .. n - 1 : pos[m] # h
<1>1. list_for_each(l, h) = [i \in 1 .. end - 1 |-> pos[i]]
  BY DEF list_for_each
<1>2. k \in Nat /\ C \in Nat /\ k + 1 <= C
  BY RingSize
<1>3. /\ h \in Node /\ s \in Seq(Node) /\ h \notin Range(s) /\ IsInjective(s)
      /\ \A i \in 0 .. Len(s) : l.next[At(h, s, i)] = At(h, s, i + 1)
  BY DEF Ring
<1>4. pos = [n \in 0 .. C |-> IF n = 0 THEN h ELSE l.next[pos[n - 1]]]
  <2> DEFINE S == {h} \cup Range(s)
             F == [i \in 1 .. C |-> [n \in S |-> l.next[n]]]
  <2>1. \A n \in S : l.next[n] \in S
    BY Neighbours
  <2> HIDE DEF S
  <2>2. F \in [1 .. C -> [S -> S]]
    BY <2>1
  <2>3. h \in S
    BY DEF S
  <2>4. PICK g \in [0 .. C -> S] : IsLoop(g, C, h, F)
    <3> HIDE DEF F, C
    <3> QED BY <1>2, <2>2, <2>3, Loop
  <2>5. ASSUME NEW n \in 0 .. C, n # 0 PROVE F[n][g[n - 1]] = l.next[g[n - 1]]
    <3>1. n - 1 \in 0 .. C /\ n \in 1 .. C
      BY <1>2, <2>5
    <3> QED BY <3>1
  <2>6. g = [n \in 0 .. C |-> IF n = 0 THEN h ELSE l.next[g[n - 1]]]
    <3> HIDE DEF F, C
    <3>1. g = [n \in 0 .. C |-> IF n = 0 THEN h ELSE F[n][g[n - 1]]]
      BY <2>4 DEF IsLoop
    <3> QED BY <2>5, <3>1
  <2> QED BY <2>6
<1> HIDE DEF pos
<1>5. \A i \in 0 .. k + 1 : pos[i] = At(h, s, i)
  <2> DEFINE T == {i \in 0 .. k + 1 : pos[i] = At(h, s, i)}
  <2>1. 0 \in T
    BY <1>2, <1>4 DEF At
  <2>2. ASSUME NEW i \in 1 .. k + 1, i - 1 \in T PROVE i \in T
    <3>1. i \in 0 .. C /\ i # 0 /\ i - 1 \in 0 .. k /\ (i - 1) + 1 = i /\ i \in 0 .. k + 1
      BY <1>2
    <3>2. pos[i] = l.next[pos[i - 1]]
      BY <1>4, <3>1
    <3> QED BY <1>3, <2>2, <3>1, <3>2
  <2> HIDE DEF T
  <2>3. k + 1 \in Nat
    BY <1>2
  <2>4. \A i \in 0 .. k + 1 : i \in T
    BY <2>1, <2>2, <2>3, Rounds
  <2> QED BY <2>4 DEF T
<1>6. /\ \A i \in 1 .. k : pos[i] = s[i] /\ pos[i] # h
      /\ pos[k + 1] = h
  <2>1. /\ At(h, s, k + 1) = h
        /\ \A i \in 1 .. k : At(h, s, i) = s[i] /\ At(h, s, i) # h
    BY <1>3, AtFacts
  <2> QED BY <1>2, <1>5, <2>1
<1> HIDE DEF k, C
<1>7. end = k + 1
  <2>1. k + 1 \in 1 .. C /\ \A m \in 1 .. (k + 1) - 1 : pos[m] # h
    BY <1>2, <1>6
  <2>2. \A n \in 1 .. C : pos[n] = h /\ (\A m \in 1 .. n - 1 : pos[m] # h) => n = k + 1
    BY <1>2, <1>6
  <2> QED BY <1>6, <2>1, <2>2
<1> HIDE DEF end
<1>8. (k + 1) - 1 = k
  BY <1>2
<1>9. list_for_each(l, h) = [i \in 1 .. k |-> s[i]]
  BY <1>1, <1>6, <1>7, <1>8
<1>10. s \in [1 .. k -> Node]
  BY <1>3, LenProperties DEF k
<1> QED BY <1>9, <1>10

(* A ring can be walked from any of its nodes.                             *)
LEMMA Rotated ==
  ASSUME NEW l, NEW h, NEW s, Ring(l, h, s), NEW j \in 1 .. Len(s)
  PROVE  \E t : Ring(l, s[j], t) /\ Len(t) = Len(s)
<1> DEFINE k == Len(s)
           idx(i) == IF i + j <= k THEN i + j ELSE i + j - k - 1
           t == [i \in 1 .. k |-> At(h, s, idx(i))]
           e == s[j]
<1>1. /\ h \in Node /\ s \in Seq(Node) /\ h \notin Range(s) /\ IsInjective(s)
      /\ \A i \in 0 .. Len(s) : /\ l.next[At(h, s, i)] = At(h, s, i + 1)
                                /\ l.prev[At(h, s, i + 1)] = At(h, s, i)
  BY DEF Ring
<1>2. /\ k \in Nat /\ At(h, s, 0) = h /\ At(h, s, k + 1) = h
      /\ \A i \in Int : At(h, s, i) \in Node
      /\ \A i, n \in 0 .. k : At(h, s, i) = At(h, s, n) => i = n
      /\ \A i \in 1 .. k : At(h, s, i) = s[i]
  BY <1>1, AtFacts, LenProperties
<1>3. e = At(h, s, j) /\ e \in Node /\ j \in 0 .. k /\ j \in Int
  BY <1>2
<1>4. /\ \A i \in 0 .. k + 1 : idx(i) \in 0 .. k
      /\ \A i, n \in 0 .. k : idx(i) = idx(n) => i = n
      /\ idx(0) = j /\ idx(k + 1) = j
      /\ \A i \in 0 .. k : idx(i + 1) = IF idx(i) = k THEN 0 ELSE idx(i) + 1
  BY <1>2
<1> HIDE DEF k, idx
<1>5. /\ t \in Seq(Node) /\ Len(t) = k /\ DOMAIN t = 1 .. k
      /\ \A i \in 1 .. k : t[i] = At(h, s, idx(i))
  <2>1. \A i \in 1 .. k : At(h, s, idx(i)) \in Node
    BY <1>2, <1>4
  <2>2. t \in [1 .. k -> Node]
    BY <2>1
  <2>3. t \in Seq(Node)
    BY <1>2, <2>2, SeqDef
  <2>4. DOMAIN t = 1 .. k
    OBVIOUS
  <2>5. Len(t) = k
    BY <1>2, <2>3, <2>4, LenProperties
  <2> QED BY <2>3, <2>4, <2>5
<1> HIDE DEF t, e
<1>6. \A i \in 0 .. k + 1 : At(e, t, i) = At(h, s, idx(i))
  <2> SUFFICES ASSUME NEW i \in 0 .. k + 1 PROVE At(e, t, i) = At(h, s, idx(i))
    OBVIOUS
  <2>1. CASE i \in 1 .. k
    BY <1>5, <2>1 DEF At
  <2>2. CASE i \notin 1 .. k
    <3>1. i = 0 \/ i = k + 1
      BY <1>2, <2>2
    <3>2. At(e, t, i) = e
      BY <1>5, <2>2 DEF At
    <3> QED BY <1>3, <1>4, <3>1, <3>2
  <2> QED BY <2>1, <2>2
<1>7. e \notin Range(t) /\ IsInjective(t)
  <2>1. \A i \in 1 .. k : i \in 0 .. k /\ i # 0 /\ 0 \in 0 .. k /\ i \in 0 .. k + 1
    BY <1>2
  <2>2. \A i \in 1 .. k : t[i] # e
    BY <1>2, <1>3, <1>4, <1>5, <2>1
  <2>3. \A i, n \in 1 .. k : t[i] = t[n] => i = n
    BY <1>2, <1>4, <1>5, <2>1
  <2> QED BY <1>5, <2>2, <2>3 DEF Range, IsInjective
<1>8. ASSUME NEW i \in 0 .. Len(t)
      PROVE  l.next[At(e, t, i)] = At(e, t, i + 1) /\ l.prev[At(e, t, i + 1)] = At(e, t, i)
  <2>1. i \in 0 .. k /\ i \in 0 .. k + 1 /\ i + 1 \in 0 .. k + 1 /\ idx(i) \in 0 .. k
    <3>1. i \in 0 .. k
      BY <1>5
    <3>2. i \in 0 .. k + 1 /\ i + 1 \in 0 .. k + 1
      BY <1>2, <3>1
    <3> QED BY <1>4, <3>1, <3>2
  <2>2. At(e, t, i) = At(h, s, idx(i)) /\ At(e, t, i + 1) = At(h, s, idx(i) + 1)
    <3>1. At(h, s, idx(i + 1)) = At(h, s, idx(i) + 1)
      BY <1>2, <1>4, <2>1
    <3> QED BY <1>6, <2>1, <3>1
  <2> QED BY <1>1, <2>1, <2>2 DEF k
<1>9. Ring(l, e, t)
  BY <1>3, <1>5, <1>7, <1>8 DEF Ring
<1> QED BY <1>5, <1>9 DEF e, k

(* list_size counts the other nodes of the ring, from wherever it starts.  *)
LEMMA RingCount ==
  ASSUME NEW l, NEW h, NEW s, Ring(l, h, s)
  PROVE  /\ list_size(l, h) = Len(s)
         /\ \A j \in 1 .. Len(s) : list_size(l, s[j]) = Len(s)
<1>1. ASSUME NEW k, NEW t, Ring(l, k, t) PROVE list_size(l, k) = Len(t)
  <2>1. list_for_each(l, k) = t
    BY <1>1, Walk
  <2>2. k \notin Range(t) /\ t \in Seq(Node) /\ Len(t) \in Nat
    BY <1>1, LenProperties DEF Ring
  <2>3. l.next[k] = At(k, t, 1)
    BY <1>1, Neighbours
  <2>4. CASE Len(t) = 0
    BY <2>1, <2>4 DEF list_size
  <2>5. CASE Len(t) # 0
    <3>1. 1 \in 1 .. Len(t) /\ t[1] \in Range(t)
      BY <2>2, <2>5, LenProperties DEF Range
    <3>2. l.next[k] # k
      BY <2>2, <2>3, <3>1 DEF At
    <3> QED BY <2>1, <3>2 DEF list_size, list_empty
  <2> QED BY <2>4, <2>5
<1>2. ASSUME NEW j \in 1 .. Len(s) PROVE list_size(l, s[j]) = Len(s)
  <2>1. PICK t : Ring(l, s[j], t) /\ Len(t) = Len(s)
    BY Rotated
  <2> QED BY <1>1, <2>1
<1> QED BY <1>1, <1>2

(* list_empty and list_first of a ring.                                    *)
LEMMA RingFirst ==
  ASSUME NEW l, NEW h, NEW s, Ring(l, h, s)
  PROVE  /\ list_empty(l, h) <=> s = <<>>
         /\ s # <<>> => list_first(l, h) = s[1] /\ 1 \in 1 .. Len(s)
<1>1. h \notin Range(s) /\ s \in Seq(Node) /\ Len(s) \in Nat
  BY LenProperties DEF Ring
<1>2. l.next[h] = At(h, s, 1)
  BY Neighbours
<1>3. CASE s = <<>>
  BY <1>2, <1>3 DEF At, list_empty
<1>4. CASE s # <<>>
  <2>1. 1 \in 1 .. Len(s) /\ s[1] \in Range(s)
    <3>1. 1 \in 1 .. Len(s)
      BY <1>1, <1>4, WithoutFirst
    <3> QED BY <1>1, <3>1, LenProperties DEF Range
  <2> QED BY <1>1, <1>2, <1>4, <2>1 DEF At, list_empty, list_first
<1> QED BY <1>3, <1>4

-----------------------------------------------------------------------------
(* The lists of the kernel.                                                *)

(* The PCBs that the nodes of a list are in.                               *)
Tasks(s) == [i \in DOMAIN s |-> s[i][2]]

(* The PCBs of a list, in its order.                                       *)
LEMMA TasksFacts ==
  ASSUME NEW s \in Seq(Node),
         \/ Range(s) \subseteq {node(p) : p \in Task}
         \/ Range(s) \subseteq {bros(p) : p \in Task}
  PROVE  /\ Tasks(s) \in Seq(Task) /\ Len(Tasks(s)) = Len(s)
         /\ Len(s) \in Nat /\ DOMAIN s = 1 .. Len(s) /\ DOMAIN Tasks(s) = 1 .. Len(s)
         /\ \A i \in 1 .. Len(s) : Tasks(s)[i] = s[i][2] /\ s[i][2] \in Task
         /\ s = <<>> <=> Tasks(s) = <<>>
<1>1. Len(s) \in Nat /\ DOMAIN s = 1 .. Len(s)
  BY LenProperties
<1>2. \A i \in 1 .. Len(s) : s[i][2] \in Task
  <2> SUFFICES ASSUME NEW i \in 1 .. Len(s) PROVE s[i][2] \in Task
    OBVIOUS
  <2>1. s[i] \in Range(s)
    BY <1>1 DEF Range
  <2>2. PICK p \in Task : s[i] = node(p) \/ s[i] = bros(p)
    BY <2>1
  <2> QED BY <2>2, NodeFacts
<1>3. Tasks(s) \in [1 .. Len(s) -> Task]
  BY <1>1, <1>2 DEF Tasks
<1>4. Tasks(s) \in Seq(Task) /\ DOMAIN Tasks(s) = 1 .. Len(s)
  BY <1>1, <1>3, SeqDef
<1>5. Len(Tasks(s)) = Len(s)
  BY <1>1, <1>4, LenProperties
<1>6. \A i \in 1 .. Len(s) : Tasks(s)[i] = s[i][2]
  BY <1>1 DEF Tasks
<1>7. s = <<>> <=> Len(s) = 0
  BY EmptySeq, LenProperties
<1>8. Tasks(s) = <<>> <=> Len(Tasks(s)) = 0
  BY <1>4, EmptySeq, LenProperties
<1> QED BY <1>1, <1>2, <1>4, <1>5, <1>6, <1>7, <1>8

(* A PCB is in a list exactly when its field is.                           *)
LEMMA TasksMember ==
  ASSUME NEW s \in Seq(Node), NEW p
  PROVE  /\ Range(s) \subseteq {node(q) : q \in Task}
              => (p \in Range(Tasks(s)) <=> node(p) \in Range(s))
         /\ Range(s) \subseteq {bros(q) : q \in Task}
              => (p \in Range(Tasks(s)) <=> bros(p) \in Range(s))
<1>1. DOMAIN Tasks(s) = DOMAIN s /\ \A i \in DOMAIN s : Tasks(s)[i] = s[i][2]
  BY DEF Tasks
<1>2. ASSUME Range(s) \subseteq {node(q) : q \in Task}
      PROVE  p \in Range(Tasks(s)) <=> node(p) \in Range(s)
  <2>1. ASSUME NEW i \in DOMAIN s PROVE s[i] = node(s[i][2])
    <3>1. PICK q \in Task : s[i] = node(q)
      BY <1>2 DEF Range
    <3> QED BY <3>1, NodeFacts
  <2>2. ASSUME p \in Range(Tasks(s)) PROVE node(p) \in Range(s)
    <3>1. PICK i \in DOMAIN s : p = s[i][2]
      BY <1>1, <2>2 DEF Range
    <3> QED BY <2>1, <3>1 DEF Range
  <2>3. ASSUME node(p) \in Range(s) PROVE p \in Range(Tasks(s))
    <3>1. PICK i \in DOMAIN s : node(p) = s[i]
      BY <2>3 DEF Range
    <3>2. p = s[i][2]
      BY <3>1, NodeFacts
    <3> QED BY <1>1, <3>1, <3>2 DEF Range
  <2> QED BY <2>2, <2>3
<1>3. ASSUME Range(s) \subseteq {bros(q) : q \in Task}
      PROVE  p \in Range(Tasks(s)) <=> bros(p) \in Range(s)
  <2>1. ASSUME NEW i \in DOMAIN s PROVE s[i] = bros(s[i][2])
    <3>1. PICK q \in Task : s[i] = bros(q)
      BY <1>3 DEF Range
    <3> QED BY <3>1, NodeFacts
  <2>2. ASSUME p \in Range(Tasks(s)) PROVE bros(p) \in Range(s)
    <3>1. PICK i \in DOMAIN s : p = s[i][2]
      BY <1>1, <2>2 DEF Range
    <3> QED BY <2>1, <3>1 DEF Range
  <2>3. ASSUME bros(p) \in Range(s) PROVE p \in Range(Tasks(s))
    <3>1. PICK i \in DOMAIN s : bros(p) = s[i]
      BY <2>3 DEF Range
    <3>2. p = s[i][2]
      BY <3>1, NodeFacts
    <3> QED BY <1>1, <3>1, <3>2 DEF Range
  <2> QED BY <2>2, <2>3
<1> QED BY <1>2, <1>3

(* A PCB added at the end of a queue.                                      *)
LEMMA TasksAppend ==
  ASSUME NEW s \in Seq(Node), Range(s) \subseteq {node(q) : q \in Task}, NEW p \in Task
  PROVE  Tasks(Append(s, node(p))) = Append(Tasks(s), p)
<1> DEFINE t == Append(s, node(p))
           u == Append(Tasks(s), p)
           k == Len(s)
<1>1. /\ Tasks(s) \in Seq(Task) /\ Len(Tasks(s)) = k /\ k \in Nat
      /\ \A i \in 1 .. k : Tasks(s)[i] = s[i][2]
  BY TasksFacts
<1>2. /\ DOMAIN t = 1 .. k + 1 /\ t[k + 1] = node(p)
      /\ \A i \in 1 .. k : t[i] = s[i]
  <2>1. node(p) \in Node
    BY NodeFacts
  <2> QED BY <2>1, AppendProperties, LenProperties
<1>3. /\ u \in [1 .. k + 1 -> Task] /\ u[k + 1] = p
      /\ \A i \in 1 .. k : u[i] = Tasks(s)[i]
  <2>1. u \in Seq(Task) /\ Len(u) = k + 1 /\ u[k + 1] = p /\ \A i \in 1 .. k : u[i] = Tasks(s)[i]
    BY <1>1, AppendProperties
  <2> QED BY <2>1, LenProperties
<1> HIDE DEF t, u
<1>4. \A i \in 1 .. k + 1 : t[i][2] = u[i]
  <2> SUFFICES ASSUME NEW i \in 1 .. k + 1 PROVE t[i][2] = u[i]
    OBVIOUS
  <2>1. i \in 1 .. k \/ i = k + 1
    BY <1>1
  <2> QED BY <1>1, <1>2, <1>3, <2>1, NodeFacts
<1>5. Tasks(t) = [i \in 1 .. k + 1 |-> u[i]]
  BY <1>2, <1>4 DEF Tasks
<1>6. Tasks(t) = u
  BY <1>3, <1>5
<1> QED BY <1>6 DEF t, u

(* The first PCB of a queue and the others.                                *)
LEMMA TasksTail ==
  ASSUME NEW s \in Seq(Node), Range(s) \subseteq {node(q) : q \in Task}, s # <<>>
  PROVE  /\ Tasks(Without(s, 1)) = Tail(Tasks(s)) /\ Head(Tasks(s)) = s[1][2]
         /\ s[1] = node(s[1][2]) /\ s[1][2] \in Task /\ 1 \in 1 .. Len(s)
<1> DEFINE t == Tasks(s)
           k == Len(s)
<1>1. /\ t \in Seq(Task) /\ Len(t) = k /\ k \in Nat /\ t # <<>> /\ DOMAIN s = 1 .. k
      /\ \A i \in 1 .. k : t[i] = s[i][2] /\ s[i][2] \in Task
  BY TasksFacts
<1>2. Without(t, 1) = Tail(t) /\ Head(t) = t[1] /\ 1 \in 1 .. k
  <2> HIDE DEF t
  <2>1. Without(t, 1) = Tail(t) /\ Head(t) = t[1] /\ 1 \in 1 .. Len(t)
    BY <1>1, WithoutFirst
  <2> QED BY <1>1, <2>1
<1>3. s[1] = node(s[1][2])
  <2>1. PICK q \in Task : s[1] = node(q)
    BY <1>1, <1>2 DEF Range
  <2> QED BY <2>1, NodeFacts
<1>4. Tasks(Without(s, 1)) = Without(t, 1)
  <2>1. \A i \in 1 .. k - 1 : i + 1 \in 1 .. k /\ ~ (i < 1)
    BY <1>1
  <2>2. Without(s, 1) = [i \in 1 .. k - 1 |-> s[i + 1]]
    BY <2>1 DEF Without
  <2>3. Without(t, 1) = [i \in 1 .. k - 1 |-> t[i + 1]]
    <3> HIDE DEF t
    <3> QED BY <1>1, <2>1 DEF Without
  <2> HIDE DEF t
  <2>4. [i \in 1 .. k - 1 |-> t[i + 1]] = [i \in 1 .. k - 1 |-> s[i + 1][2]]
    BY <1>1, <2>1
  <2> QED BY <2>2, <2>3, <2>4 DEF Tasks
<1> QED BY <1>1, <1>2, <1>3, <1>4

Collection(A) ==
    /\ Heads \subseteq DOMAIN A
    /\ DOMAIN A \subseteq Heads \cup {sonlist(p) : p \in Task}
    /\ \A h \in Heads : Range(A[h]) \subseteq {node(p) : p \in Task}
    /\ \A h \in DOMAIN A \ Heads : Range(A[h]) \subseteq {bros(p) : p \in Task}

(* The PCBs that no failed fork has lost.                                  *)
Kept(A, cur) == {p \in Task : node(p) \in Members(A)} \cup {cur, idle_task}

(* A link that was copied from another node.                               *)
Stray(l, n) == Linked(l, n) /\ l.prev[n] \in Node /\ l.next[l.prev[n]] # n

(* The nodes in no list: the links of a PCB in use are NULL there, and the *)
(* links of a lost one are copies.                                         *)
InUse(l, A, p) ==
    /\ bros(p) \notin Members(A) => ~ Linked(l, bros(p))
    /\ \/ sonlist(p) \in DOMAIN A
       \/ node(p) \in Range(A[freequeue]) /\ ~ Linked(l, sonlist(p))

Lost(l, A, par, p) ==
    /\ sonlist(p) \notin DOMAIN A /\ bros(p) \notin Members(A)
    /\ par[p] # -1 => Stray(l, bros(p))
    /\ Stray(l, sonlist(p))

Outside(l, A, cur, par) ==
    /\ \A p \in {cur, idle_task} :
           node(p) \notin Members(A) => ~ Linked(l, node(p))
    /\ \A p \in Task : IF p \in Kept(A, cur) THEN InUse(l, A, p)
                       ELSE Lost(l, A, par, p)

Sound(l, A, cur, par) == Rep(l, A) /\ Collection(A) /\ Outside(l, A, cur, par)

(* The families and the blocked processes that a collection stands for.    *)
Family(A, p) ==
    {q \in Task : sonlist(p) \in DOMAIN A /\ bros(q) \in Range(A[sonlist(p)])}
Waiting(A) == {p \in Task : node(p) \in Range(A[blocked])}

(* Which nodes are in the lists of a collection.                           *)
LEMMA CollectionFacts ==
  ASSUME NEW l, NEW A, Rep(l, A), Collection(A)
  PROVE  /\ freequeue \in DOMAIN A /\ readyqueue \in DOMAIN A /\ blocked \in DOMAIN A
         /\ \A h \in DOMAIN A : /\ h \in Node /\ A[h] \in Seq(Node) /\ IsInjective(A[h])
                                /\ Ring(l, h, A[h])
                                /\ Range(A[h]) \subseteq Members(A) /\ h \in Members(A)
         /\ \A p : sonlist(p) \in DOMAIN A => sonlist(p) \in DOMAIN A \ Heads /\ p \in Task
         /\ \A p : sonlist(p) \in Members(A) <=> sonlist(p) \in DOMAIN A
         /\ \A p : node(p) \in Members(A) <=> \E h \in Heads : node(p) \in Range(A[h])
         /\ \A p : bros(p) \in Members(A)
                     <=> \E q \in Task : sonlist(q) \in DOMAIN A /\ bros(p) \in Range(A[sonlist(q)])
         /\ Members(A) \subseteq Node
<1>1. freequeue \in DOMAIN A /\ readyqueue \in DOMAIN A /\ blocked \in DOMAIN A
  BY DEF Collection, Heads
<1>2. \A h \in DOMAIN A : /\ h \in Node /\ A[h] \in Seq(Node) /\ IsInjective(A[h])
                          /\ Ring(l, h, A[h])
  BY DEF Rep, Ring
<1>3. \A h \in DOMAIN A : Range(A[h]) \subseteq Members(A) /\ h \in Members(A)
  BY DEF Members
<1>4. ASSUME NEW p, sonlist(p) \in DOMAIN A
      PROVE  sonlist(p) \in DOMAIN A \ Heads /\ p \in Task
  <2>1. sonlist(p) \notin Heads
    BY NodeFacts
  <2>2. PICK q \in Task : sonlist(p) = sonlist(q)
    BY <1>4, <2>1 DEF Collection
  <2> QED BY <1>4, <2>1, <2>2, NodeFacts
<1>5. ASSUME NEW n, n \in Members(A)
      PROVE  \/ n \in DOMAIN A
             \/ \E h \in Heads : n \in Range(A[h])
             \/ \E q \in Task : sonlist(q) \in DOMAIN A /\ n \in Range(A[sonlist(q)])
  <2>1. CASE n \in DOMAIN A
    BY <2>1
  <2>2. CASE n \notin DOMAIN A
    <3>1. PICK h \in DOMAIN A : n \in Range(A[h])
      BY <1>5, <2>2 DEF Members
    <3>2. CASE h \in Heads
      BY <3>1, <3>2
    <3>3. CASE h \notin Heads
      <4>1. PICK q \in Task : h = sonlist(q)
        BY <3>1, <3>3 DEF Collection
      <4> QED BY <3>1, <4>1
    <3> QED BY <3>2, <3>3
  <2> QED BY <2>1, <2>2
<1>6. \A n \in DOMAIN A : n \in Heads \/ \E p \in Task : n = sonlist(p)
  BY DEF Collection
<1>7. /\ \A h \in Heads : \A n \in Range(A[h]) : \E p \in Task : n = node(p)
      /\ \A q : sonlist(q) \in DOMAIN A =>
           \A n \in Range(A[sonlist(q)]) : \E p \in Task : n = bros(p)
  <2>1. \A h \in Heads : \A n \in Range(A[h]) : \E p \in Task : n = node(p)
    BY DEF Collection
  <2>2. \A h \in DOMAIN A \ Heads : \A n \in Range(A[h]) : \E p \in Task : n = bros(p)
    BY DEF Collection
  <2> QED BY <1>4, <2>1, <2>2
<1>8. ASSUME NEW p PROVE sonlist(p) \in Members(A) <=> sonlist(p) \in DOMAIN A
  <2>1. ASSUME sonlist(p) \in Members(A), sonlist(p) \notin DOMAIN A PROVE FALSE
    <3>1. \/ \E h \in Heads : sonlist(p) \in Range(A[h])
          \/ \E q \in Task : sonlist(q) \in DOMAIN A /\ sonlist(p) \in Range(A[sonlist(q)])
      BY <1>5, <2>1
    <3>2. \E q \in Task : sonlist(p) = node(q) \/ sonlist(p) = bros(q)
      BY <1>7, <3>1
    <3> QED BY <3>2, NodeFacts
  <2> QED BY <1>3, <2>1
<1>9. ASSUME NEW p PROVE node(p) \in Members(A) <=> \E h \in Heads : node(p) \in Range(A[h])
  <2>1. ASSUME node(p) \in Members(A) PROVE \E h \in Heads : node(p) \in Range(A[h])
    <3>1. node(p) \notin DOMAIN A
      BY <1>6, NodeFacts
    <3>2. ~ \E q \in Task : sonlist(q) \in DOMAIN A /\ node(p) \in Range(A[sonlist(q)])
      BY <1>7, NodeFacts
    <3> QED BY <1>5, <2>1, <3>1, <3>2
  <2>2. Heads \subseteq DOMAIN A
    BY DEF Collection
  <2> QED BY <1>3, <2>1, <2>2
<1>10. ASSUME NEW p
       PROVE  bros(p) \in Members(A)
                <=> \E q \in Task : sonlist(q) \in DOMAIN A /\ bros(p) \in Range(A[sonlist(q)])
  <2>1. ASSUME bros(p) \in Members(A)
        PROVE  \E q \in Task : sonlist(q) \in DOMAIN A /\ bros(p) \in Range(A[sonlist(q)])
    <3>1. bros(p) \notin DOMAIN A
      BY <1>6, NodeFacts
    <3>2. ~ \E h \in Heads : bros(p) \in Range(A[h])
      BY <1>7, NodeFacts
    <3> QED BY <1>5, <2>1, <3>1, <3>2
  <2> QED BY <1>3, <2>1
<1>11. Members(A) \subseteq Node
  BY MembersAreNodes
<1> QED BY <1>1, <1>2, <1>3, <1>4, <1>8, <1>9, <1>10, <1>11

(* The queues and families of Process, read off the collection.            *)
Reads(l, A) ==
    /\ TasksOf(l, freequeue) = Tasks(A[freequeue])
    /\ TasksOf(l, readyqueue) = Tasks(A[readyqueue])
    /\ ToSet(TasksOf(l, blocked)) = Waiting(A)
    /\ \A p \in Task : FamilyOf(l, p) = Family(A, p)

(* The queues and families read off sound links are those of the           *)
(* collection.                                                             *)
LEMMA Abstraction ==
  ASSUME NEW l, NEW A, NEW cur, NEW par, Sound(l, A, cur, par)
  PROVE  Reads(l, A)
<1>0. Rep(l, A) /\ Collection(A) /\ Outside(l, A, cur, par)
  BY DEF Sound
<1>1. /\ freequeue \in DOMAIN A /\ readyqueue \in DOMAIN A /\ blocked \in DOMAIN A
      /\ \A h \in DOMAIN A : A[h] \in Seq(Node) /\ Ring(l, h, A[h])
      /\ \A p : sonlist(p) \in DOMAIN A => sonlist(p) \in DOMAIN A \ Heads
  BY <1>0, CollectionFacts
<1>2. ASSUME NEW h \in DOMAIN A PROVE TasksOf(l, h) = Tasks(A[h])
  <2>1. list_for_each(l, h) = A[h]
    BY <1>1, Walk
  <2> QED BY <2>1 DEF TasksOf, Tasks, list_head_to_task_struct
<1>3. ToSet(TasksOf(l, blocked)) = Waiting(A)
  <2>1. A[blocked] \in Seq(Node) /\ Range(A[blocked]) \subseteq {node(p) : p \in Task}
    BY <1>0, <1>1 DEF Collection, Heads
  <2>2. Tasks(A[blocked]) \in Seq(Task)
    BY <2>1, TasksFacts
  <2>3. \A p : p \in Range(Tasks(A[blocked])) <=> node(p) \in Range(A[blocked])
    BY <2>1, TasksMember
  <2>4. Range(Tasks(A[blocked])) \subseteq Task
    BY <2>2, LenProperties, ElementOfSeq DEF Range
  <2>5. ToSet(TasksOf(l, blocked)) = Range(Tasks(A[blocked]))
    BY <1>1, <1>2 DEF ToSet, Range
  <2> QED BY <2>3, <2>4, <2>5 DEF Waiting
<1>4. ASSUME NEW p \in Task PROVE FamilyOf(l, p) = Family(A, p)
  <2> DEFINE h == sonlist(p)
  <2>1. CASE h \in DOMAIN A
    <3>1. Ring(l, h, A[h]) /\ A[h] \in Seq(Node) /\ Range(A[h]) \subseteq {bros(q) : q \in Task}
      BY <1>0, <1>1, <2>1 DEF Collection
    <3>2. l.next[h] \in Node /\ l.next[l.prev[h]] = h
      BY <3>1, Neighbours
    <3>3. IsList(l, p)
      BY <3>2, NodeFacts DEF IsList, Linked, Copied
    <3>4. Tasks(A[h]) \in Seq(Task)
      BY <3>1, TasksFacts
    <3>5. \A q : q \in Range(Tasks(A[h])) <=> bros(q) \in Range(A[h])
      BY <3>1, TasksMember
    <3>6. Range(Tasks(A[h])) \subseteq Task
      BY <3>4, LenProperties, ElementOfSeq DEF Range
    <3>7. FamilyOf(l, p) = Range(Tasks(A[h]))
      BY <1>2, <2>1, <3>3 DEF FamilyOf, ToSet, Range
    <3> QED BY <2>1, <3>5, <3>6, <3>7 DEF Family
  <2>2. CASE h \notin DOMAIN A
    <3>1. ~ IsList(l, p)
      BY <1>0, <2>2 DEF Outside, InUse, Lost, Stray, IsList, Copied
    <3> QED BY <2>2, <3>1 DEF FamilyOf, Family
  <2> QED BY <2>1, <2>2
<1> QED BY <1>1, <1>2, <1>3, <1>4 DEF Reads

-----------------------------------------------------------------------------
(* The operations of list.c on a collection.  Within says which nodes a    *)
(* change may touch, and where the links that it makes lead.               *)

Within(l, m, X) ==
    \A n \in Node : /\ n \notin X => SameLinks(l, m, n)
                    /\ m.next[n] = l.next[n] \/ m.next[n] \in X \cup {NIL}

(* Two changes, one after the other.                                       *)
LEMMA WithinTrans ==
  ASSUME NEW l, NEW m, NEW k, NEW X, NEW Y, Within(l, m, X), Within(m, k, Y)
  PROVE  Within(l, k, X \cup Y)
  BY DEF Within, SameLinks

(* A larger set of nodes that a change may touch.                          *)
LEMMA WithinMore ==
  ASSUME NEW l, NEW m, NEW X, NEW Y, Within(l, m, X), X \subseteq Y
  PROVE  Within(l, m, Y)
  BY DEF Within

(* The links of the members of a collection lead to members.               *)
LEMMA WithinRep ==
  ASSUME NEW l, NEW m, NEW A, Rep(m, A), NEW X, Members(A) \subseteq X,
         \A n \in Node : n \notin X => SameLinks(l, m, n),
         \A n \in X : n \notin Members(A) => m.next[n] \in {l.next[n], NIL}
  PROVE  Within(l, m, X)
<1>1. ASSUME NEW n \in Members(A) PROVE m.next[n] \in Members(A)
  <2>1. PICK h \in DOMAIN A : n \in {h} \cup Range(A[h])
    BY DEF Members
  <2>2. Ring(m, h, A[h])
    BY DEF Rep
  <2>3. m.next[n] \in {h} \cup Range(A[h])
    BY <2>1, <2>2, Neighbours
  <2> QED BY <2>3 DEF Members
<1> QED BY <1>1 DEF Within, SameLinks

(* list_add_tail of a node in no list.                                     *)
Added(l, A, h, n, m, B) ==
    /\ Rep(m, B) /\ DOMAIN B = DOMAIN A /\ B[h] = Append(A[h], n)
    /\ \A k \in DOMAIN A : k # h => B[k] = A[k]
    /\ Members(B) = Members(A) \cup {n}
    /\ Within(l, m, Members(B))

(* The collection after list_add_tail.                                     *)
LEMMA AddTail ==
  ASSUME NEW l, NEW A, Rep(l, A), NEW h \in DOMAIN A, NEW n \in Node, n \notin Members(A)
  PROVE  \E B : Added(l, A, h, n, list_add_tail(l, n, h), B)
<1> DEFINE m == list_add_tail(l, n, h)
           B == [A EXCEPT ![h] = Append(A[h], n)]
<1>1. /\ Rep(m, B) /\ DOMAIN B = DOMAIN A
      /\ Members(B) = Members(A) \cup {n}
      /\ \A k \in Node : k \notin Members(A) \cup {n} => SameLinks(l, m, k)
  BY RepAddTail
<1>2. B[h] = Append(A[h], n) /\ \A k \in DOMAIN A : k # h => B[k] = A[k]
  OBVIOUS
<1> HIDE DEF m, B
<1>3. Within(l, m, Members(B))
  BY <1>1, WithinRep
<1>4. Added(l, A, h, n, m, B)
  BY <1>1, <1>2, <1>3 DEF Added
<1> QED BY <1>4 DEF m

(* list_del of the j-th node of a list.                                    *)
Removed(l, A, h, j, m, B) ==
    /\ Rep(m, B) /\ DOMAIN B = DOMAIN A /\ B[h] = Without(A[h], j)
    /\ \A k \in DOMAIN A : k # h => B[k] = A[k]
    /\ Members(B) = Members(A) \ {A[h][j]} /\ A[h][j] \in Members(A)
    /\ ~ Linked(m, A[h][j])
    /\ Within(l, m, Members(A))
    /\ Range(B[h]) = Range(A[h]) \ {A[h][j]}

(* The collection after list_del.                                          *)
LEMMA RemoveNode ==
  ASSUME NEW l, NEW A, Rep(l, A), NEW h \in DOMAIN A, NEW j \in 1 .. Len(A[h])
  PROVE  \E B : Removed(l, A, h, j, list_del(l, A[h][j]), B)
<1> DEFINE e == A[h][j]
           m == list_del(l, e)
           B == [A EXCEPT ![h] = Without(A[h], j)]
<1>1. /\ Rep(m, B) /\ DOMAIN B = DOMAIN A
      /\ Members(B) = Members(A) \ {e}
      /\ m.next[e] = NIL
      /\ \A k \in Node : k \notin Members(A) => SameLinks(l, m, k)
  <2>1. Deleted(l, A, h, j)
    BY RepDel, Zenon
  <2> QED BY <2>1 DEF Deleted
<1>2. B[h] = Without(A[h], j) /\ \A k \in DOMAIN A : k # h => B[k] = A[k]
  OBVIOUS
<1>3. A[h] \in Seq(Node) /\ IsInjective(A[h])
  BY DEF Rep, Ring
<1>4. e \in Range(A[h]) /\ Range(Without(A[h], j)) = Range(A[h]) \ {e}
  BY <1>3, WithoutRange
<1>5. e \in Members(A)
  BY <1>4 DEF Members
<1> HIDE DEF m, B
<1>6. Within(l, m, Members(A))
  <2>1. Members(B) \subseteq Members(A)
    BY <1>1
  <2>2. \A n \in Members(A) : n \notin Members(B) => m.next[n] \in {l.next[n], NIL}
    BY <1>1
  <2> QED BY <1>1, <2>1, <2>2, WithinRep
<1>7. Removed(l, A, h, j, m, B)
  BY <1>1, <1>2, <1>4, <1>5, <1>6 DEF Removed, Linked
<1> QED BY <1>7 DEF m

(* INIT_LIST_HEAD of a node in no list.                                    *)
NewHead(l, A, h, m, B) ==
    /\ Rep(m, B) /\ DOMAIN B = DOMAIN A \cup {h} /\ B[h] = <<>>
    /\ \A k \in DOMAIN A : k # h => B[k] = A[k]
    /\ Members(B) = Members(A) \cup {h}
    /\ Within(l, m, {h})

(* The collection after INIT_LIST_HEAD.                                    *)
LEMMA MakeHead ==
  ASSUME NEW l, NEW A, Rep(l, A), NEW h \in Node, h \notin Members(A)
  PROVE  \E B : NewHead(l, A, h, INIT_LIST_HEAD(l, h), B)
<1> DEFINE m == INIT_LIST_HEAD(l, h)
           B == [k \in DOMAIN A \cup {h} |-> IF k = h THEN <<>> ELSE A[k]]
<1>1. /\ Rep(m, B) /\ Members(B) = Members(A) \cup {h}
      /\ \A n \in Node : n # h => SameLinks(l, m, n)
  BY RepInit
<1>2. /\ DOMAIN B = DOMAIN A \cup {h} /\ B[h] = <<>>
      /\ \A k \in DOMAIN A : k # h => B[k] = A[k]
  OBVIOUS
<1>3. m.next[h] = h
  <2>1. l \in Links
    BY DEF Rep
  <2>2. m.next = [l.next EXCEPT ![h] = h]
    BY <2>1, InitLinks
  <2>3. l.next \in [Node -> Node \cup {NIL}]
    BY <2>1 DEF Links
  <2> QED BY <2>2, <2>3
<1> HIDE DEF m, B
<1>4. Within(l, m, {h})
  BY <1>1, <1>3 DEF Within, SameLinks
<1>5. NewHead(l, A, h, m, B)
  BY <1>1, <1>2, <1>4 DEF NewHead
<1> QED BY <1>5 DEF m

-----------------------------------------------------------------------------
(* The queues that the links stand for satisfy the invariant of Process.   *)

PP == INSTANCE ProcessProofs WITH
        freequeue <- FreeTasks,    readyqueue <- ReadyTasks,
        blocked   <- BlockedTasks, sons       <- Families

(* The constants satisfy what Process assumes of them.                     *)
LEMMA Assumptions == PP!ProcessAssumption
  BY ListsAssumption DEF PP!ProcessAssumption

(* The names of Process and of this module mean the same.                  *)
LEMMA SameNames ==
  /\ PP!Task = Task /\ PP!idle_task = idle_task /\ PP!NULL = -1
  /\ \A q : PP!Range(q) = Range(q)
  /\ idle_task \in Task /\ task1_task \in Task /\ idle_task # task1_task /\ -1 \notin Task
  BY ListsAssumption DEF PP!Task, Task, PP!idle_task, idle_task, task1_task, PP!NULL,
     PP!Range, Range

(* The steps of the abstract module are those of the proof module.         *)
LEMMA SameProcess ==
  /\ PP!Init => P!Init
  /\ P!Live = PP!Live
  /\ PP!clk_routine => P!clk_routine
  /\ \A mm : PP!sys_fork(mm) => P!sys_fork(mm)
  /\ PP!sys_exit => P!sys_exit
  /\ PP!sys_block => P!sys_block
  /\ \A son : PP!sys_unblock(son) => P!sys_unblock(son)
  /\ PP!sys_numbros => P!sys_numbros
  /\ PP!pgf_spin => P!pgf_spin
  /\ PP!vars = P!vars /\ PP!vars' = P!vars' /\ PP!Task = P!Task
<1> USE DEF P!Task, PP!Task, P!idle_task, PP!idle_task, P!Running, PP!Running,
        P!UserRuns, PP!UserRuns, P!pcbVars, PP!pcbVars, P!queueVars, PP!queueVars,
        P!list_add_tail, PP!list_add_tail
<1>1. PP!Init => P!Init
  BY DEF P!Init, PP!Init, P!task1_task, PP!task1_task, P!NULL, PP!NULL
<1>2. P!Live = PP!Live
  BY DEF P!Live, PP!Live, P!Range, PP!Range
<1>3. PP!vars = P!vars /\ PP!vars' = P!vars' /\ PP!Task = P!Task
  BY DEF P!vars, PP!vars
<1>4. \A pid, st : PP!sched_next_rr(pid, st) => P!sched_next_rr(pid, st)
  BY DEF P!sched_next_rr, PP!sched_next_rr, P!IdleTime, PP!IdleTime,
         P!Requeue, PP!Requeue
<1>5. \A st, t : PP!schedule(st, t) => P!schedule(st, t)
  BY <1>4 DEF P!schedule, PP!schedule, P!needs_sched_rr, PP!needs_sched_rr
<1>6. PP!clk_routine => P!clk_routine
  BY <1>5 DEF P!clk_routine, PP!clk_routine
<1>7. \A mm : PP!sys_fork(mm) => P!sys_fork(mm)
  BY DEF P!sys_fork, PP!sys_fork, P!ChildPid, PP!ChildPid
<1>8. PP!sys_exit => P!sys_exit
  <2>1. /\ P!exit_fault = PP!exit_fault /\ P!exit_sons = PP!exit_sons
        /\ P!victims = PP!victims
    BY DEF P!Range, PP!Range, P!exit_fault, PP!exit_fault, P!exit_sons, PP!exit_sons,
           P!SonsAfterExit, PP!SonsAfterExit, P!victims, PP!victims
  <2> QED BY <1>4, <2>1 DEF P!sys_exit, PP!sys_exit
<1>9. PP!sys_block => P!sys_block
  BY <1>5 DEF P!sys_block, PP!sys_block, P!MustWait, PP!MustWait
<1>10. \A son : PP!sys_unblock(son) => P!sys_unblock(son)
  BY DEF P!sys_unblock, PP!sys_unblock, P!IsSon, PP!IsSon
<1>11. PP!sys_numbros => P!sys_numbros
  BY DEF P!sys_numbros, PP!sys_numbros, P!siblings, PP!siblings
<1>12. PP!pgf_spin => P!pgf_spin
  BY <1>3 DEF P!pgf_spin, PP!pgf_spin
<1> QED BY <1>1, <1>2, <1>3, <1>6, <1>7, <1>8, <1>9, <1>10, <1>11, <1>12

(* The processes of a collection.                                          *)
LiveIn(A, cur) ==
    {p \in Task : node(p) \in Range(A[readyqueue]) \cup Range(A[blocked])} \cup {cur, idle_task}

(* The variables of Process are those of the collection.                   *)
LEMMA ReadState ==
  ASSUME NEW A, Reads(links, A)
  PROVE  /\ FreeTasks = Tasks(A[freequeue]) /\ ReadyTasks = Tasks(A[readyqueue])
         /\ BlockedTasks = Waiting(A) /\ Families = [p \in Task |-> Family(A, p)]
  BY DEF Reads, FreeTasks, ReadyTasks, BlockedTasks, Families

(* The same for the variables after a step.                                *)
LEMMA ReadNext ==
  ASSUME NEW A, Reads(links', A)
  PROVE  /\ FreeTasks' = Tasks(A[freequeue]) /\ ReadyTasks' = Tasks(A[readyqueue])
         /\ BlockedTasks' = Waiting(A) /\ Families' = [p \in Task |-> Family(A, p)]
  BY DEF Reads, FreeTasks, ReadyTasks, BlockedTasks, Families

(* The first processes have no parent, and only they.                      *)
Roots ==
    /\ next_pid >= 2
    /\ \A p \in PP!Live : parent[p] = -1 <=> PID[p] \in {0, 1}

(* The inductive invariant.                                                *)
LInv ==
    /\ PP!ProcessInv
    /\ Roots
    /\ \E A : Sound(links, A, current, parent)

(* The invariant of Process, in terms of the fields and their lists.       *)
LEMMA Facts ==
  ASSUME PP!ProcessInv, NEW A, Sound(links, A, current, parent)
  PROVE  /\ current \in Task /\ parent \in [Task -> Task \cup {-1}]
         /\ PP!Live = LiveIn(A, current)
         /\ LiveIn(A, current) \subseteq Task
         /\ Kept(A, current) = LiveIn(A, current)
                \cup {p \in Task : node(p) \in Range(A[freequeue])}
         /\ \A p \in LiveIn(A, current) : node(p) \notin Range(A[freequeue])
         /\ node(idle_task) \notin Members(A)
         /\ node(current) \notin Range(A[readyqueue])
         /\ node(current) \in Members(A) <=> node(current) \in Range(A[blocked])
         /\ \A p \in LiveIn(A, current) : state[p] = "BLOCKED" <=> node(p) \in Range(A[blocked])
         /\ \A p, q \in Task : p \in Family(A, q) <=> p \in LiveIn(A, current) /\ parent[p] = q
         /\ \A p \in Task : bros(p) \in Members(A)
                              <=> p \in LiveIn(A, current) /\ parent[p] # -1
         /\ PID[current] = 0 <=> current = idle_task
         /\ current # idle_task => PID[current] > 0
<1>0. Rep(links, A) /\ Collection(A) /\ Outside(links, A, current, parent)
  BY DEF Sound
<1>1. Reads(links, A)
  BY Abstraction
<1>2. /\ FreeTasks = Tasks(A[freequeue]) /\ ReadyTasks = Tasks(A[readyqueue])
      /\ BlockedTasks = Waiting(A) /\ Families = [p \in Task |-> Family(A, p)]
  BY <1>1, ReadState
<1>3. /\ freequeue \in DOMAIN A /\ readyqueue \in DOMAIN A /\ blocked \in DOMAIN A
      /\ \A h \in DOMAIN A : A[h] \in Seq(Node)
      /\ \A p : node(p) \in Members(A) <=> \E h \in Heads : node(p) \in Range(A[h])
      /\ \A p : bros(p) \in Members(A)
                  <=> \E q \in Task : sonlist(q) \in DOMAIN A /\ bros(p) \in Range(A[sonlist(q)])
      /\ \A h \in Heads : Range(A[h]) \subseteq {node(p) : p \in Task}
  <2>1. \A h \in Heads : Range(A[h]) \subseteq {node(p) : p \in Task}
    BY <1>0 DEF Collection
  <2> QED BY <1>0, <2>1, CollectionFacts
<1>4. /\ \A p : p \in PP!Range(FreeTasks) <=> node(p) \in Range(A[freequeue])
      /\ \A p : p \in PP!Range(ReadyTasks) <=> node(p) \in Range(A[readyqueue])
      /\ \A p \in Task : p \in BlockedTasks <=> node(p) \in Range(A[blocked])
  <2>1. \A h \in Heads : h \in DOMAIN A /\ A[h] \in Seq(Node)
    BY <1>3 DEF Heads
  <2>2. ASSUME NEW h \in Heads, NEW p
        PROVE  p \in Range(Tasks(A[h])) <=> node(p) \in Range(A[h])
    BY <1>3, <2>1, TasksMember
  <2> QED BY <1>2, <2>2, SameNames DEF Heads, Waiting
<1>5. /\ PP!TypeOK /\ PP!QueuesDisjoint /\ PP!StateMatchesQueue /\ PP!FamilyTree
      /\ PP!Pids /\ PP!IdleAlone
  BY DEF PP!ProcessInv
<1>6. /\ current \in Task /\ parent \in [Task -> Task \cup {-1}]
      /\ BlockedTasks \subseteq Task /\ ReadyTasks \in Seq(Task)
  BY <1>5, SameNames DEF PP!TypeOK
<1>7. Range(ReadyTasks) \subseteq Task
  BY <1>6, LenProperties, ElementOfSeq DEF Range
<1>8. PP!Live = LiveIn(A, current) /\ LiveIn(A, current) \subseteq Task
  BY <1>4, <1>6, <1>7, SameNames DEF PP!Live, LiveIn
<1>9. Kept(A, current) = LiveIn(A, current) \cup {p \in Task : node(p) \in Range(A[freequeue])}
  BY <1>3 DEF Kept, LiveIn, Heads
<1>10. /\ \A p \in LiveIn(A, current) : node(p) \notin Range(A[freequeue])
       /\ node(idle_task) \notin Members(A) /\ node(current) \notin Range(A[readyqueue])
       /\ node(current) \in Members(A) <=> node(current) \in Range(A[blocked])
  <2>1. /\ PP!Range(FreeTasks) \cap PP!Range(ReadyTasks) = {}
        /\ PP!Range(FreeTasks) \cap BlockedTasks = {}
        /\ {current, idle_task} \cap (PP!Range(FreeTasks) \cup PP!Range(ReadyTasks)) = {}
        /\ idle_task \notin BlockedTasks
    BY <1>5, SameNames DEF PP!QueuesDisjoint
  <2> QED BY <1>3, <1>4, <1>6, <2>1, SameNames DEF LiveIn, Heads
<1>11. \A p \in LiveIn(A, current) : state[p] = "BLOCKED" <=> node(p) \in Range(A[blocked])
  BY <1>4, <1>5, <1>8 DEF PP!StateMatchesQueue
<1>12. \A p, q \in Task : p \in Family(A, q) <=> p \in LiveIn(A, current) /\ parent[p] = q
  BY <1>2, <1>5, <1>8, SameNames DEF PP!FamilyTree
<1>13. \A p \in Task : bros(p) \in Members(A) <=> p \in LiveIn(A, current) /\ parent[p] # -1
  <2>1. \A p \in Task : bros(p) \in Members(A) <=> \E q \in Task : p \in Family(A, q)
    BY <1>3 DEF Family
  <2>2. \A p \in Task : parent[p] \in Task \/ parent[p] = -1
    BY <1>6
  <2> QED BY <1>12, <2>1, <2>2, SameNames
<1>14. /\ PID[current] = 0 <=> current = idle_task
       /\ current # idle_task => PID[current] > 0
  BY Assumptions, PP!PidZeroIsIdle, SameNames
<1> QED BY <1>6, <1>8, <1>9, <1>10, <1>11, <1>12, <1>13, <1>14

-----------------------------------------------------------------------------
(* What a step does to the nodes that it does not touch.                   *)

(* A copied link stays one when the nodes around it are left alone.        *)
LEMMA StrayKept ==
  ASSUME NEW l, NEW m, NEW X, Within(l, m, X), NEW n \in Node, n \notin X, Stray(l, n)
  PROVE  Stray(m, n)
  BY NodeFacts DEF Stray, Within, SameLinks, Linked

(* A lost PCB stays lost.                                                  *)
LEMMA LostKept ==
  ASSUME NEW l, NEW m, NEW X, Within(l, m, X), NEW p \in Task, NEW A, NEW B,
         NEW par, NEW par2, Lost(l, A, par, p), par2[p] = par[p],
         bros(p) \notin X, sonlist(p) \notin X,
         sonlist(p) \notin DOMAIN B, bros(p) \notin Members(B)
  PROVE  Lost(m, B, par2, p)
<1>1. bros(p) \in Node /\ sonlist(p) \in Node
  BY NodeFacts
<1>2. Stray(l, sonlist(p)) /\ (par2[p] # -1 => Stray(l, bros(p)))
  BY DEF Lost
<1>3. Stray(m, sonlist(p)) /\ (par2[p] # -1 => Stray(m, bros(p)))
  BY <1>1, <1>2, StrayKept
<1> QED BY <1>3 DEF Lost

(* Steps that only move PCBs between the ready and the blocked queue.      *)
SameRest(A, B) ==
    /\ DOMAIN B = DOMAIN A /\ B[freequeue] = A[freequeue]
    /\ \A h \in DOMAIN A \ Heads : B[h] = A[h]

OffQueue(l, A, cur) ==
    \A p \in {cur, idle_task} : node(p) \notin Members(A) => ~ Linked(l, node(p))

(* Such a step keeps the links sound.                                      *)
LEMMA QueueStep ==
  ASSUME NEW l, NEW A, NEW cur, NEW par, Sound(l, A, cur, par),
         NEW m, NEW B, NEW cur2, Rep(m, B), Collection(B), SameRest(A, B),
         Kept(B, cur2) = Kept(A, cur), Within(l, m, Members(A) \cup Members(B)),
         OffQueue(m, B, cur2)
  PROVE  Sound(m, B, cur2, par)
<1> DEFINE X == Members(A) \cup Members(B)
<1>0. Rep(l, A) /\ Collection(A) /\ Outside(l, A, cur, par)
  BY DEF Sound
<1>1. /\ \A p : sonlist(p) \in Members(A) <=> sonlist(p) \in DOMAIN A
      /\ \A p : bros(p) \in Members(A)
           <=> \E q \in Task : sonlist(q) \in DOMAIN A /\ bros(p) \in Range(A[sonlist(q)])
  BY <1>0, CollectionFacts
<1>2. /\ \A p : sonlist(p) \in Members(B) <=> sonlist(p) \in DOMAIN B
      /\ \A p : bros(p) \in Members(B)
           <=> \E q \in Task : sonlist(q) \in DOMAIN B /\ bros(p) \in Range(B[sonlist(q)])
  BY CollectionFacts
<1>3. /\ \A p : sonlist(p) \in X <=> sonlist(p) \in DOMAIN A
      /\ \A p : bros(p) \in X <=> bros(p) \in Members(A)
      /\ \A p : bros(p) \in Members(B) <=> bros(p) \in Members(A)
  <2>1. \A q \in Task : sonlist(q) \in DOMAIN A => B[sonlist(q)] = A[sonlist(q)]
    BY NodeFacts DEF SameRest
  <2> QED BY <1>1, <1>2, <2>1 DEF SameRest
<1> HIDE DEF X
<1>4. Within(l, m, X)
  BY DEF X
<1>5. ASSUME NEW p \in Task, p \in Kept(B, cur2) PROVE InUse(m, B, p)
  <2>1. InUse(l, A, p)
    BY <1>0, <1>5 DEF Outside
  <2>2. bros(p) \in Node /\ sonlist(p) \in Node
    BY NodeFacts
  <2>3. bros(p) \notin Members(B) => ~ Linked(m, bros(p))
    BY <1>3, <1>4, <2>1, <2>2 DEF InUse, Within, SameLinks, Linked
  <2>4. sonlist(p) \notin DOMAIN A => ~ Linked(m, sonlist(p)) /\ node(p) \in Range(A[freequeue])
    BY <1>3, <1>4, <2>1, <2>2 DEF InUse, Within, SameLinks, Linked
  <2> QED BY <2>3, <2>4 DEF InUse, SameRest
<1>6. ASSUME NEW p \in Task, p \notin Kept(B, cur2) PROVE Lost(m, B, par, p)
  <2>1. Lost(l, A, par, p)
    BY <1>0, <1>6 DEF Outside
  <2>2. sonlist(p) \notin DOMAIN A /\ bros(p) \notin Members(A)
    BY <2>1 DEF Lost
  <2>3. /\ bros(p) \notin X /\ sonlist(p) \notin X
        /\ sonlist(p) \notin DOMAIN B /\ bros(p) \notin Members(B) /\ par[p] = par[p]
    BY <1>3, <2>2 DEF SameRest
  <2> QED BY <1>4, <2>1, <2>3, LostKept, Zenon
<1>7. Outside(m, B, cur2, par)
  BY <1>5, <1>6 DEF Outside, OffQueue
<1> QED BY <1>7 DEF Sound

-----------------------------------------------------------------------------
(* The scheduler.                                                          *)

(* Adding at the end of a queue and taking from its front commute.         *)
LEMMA TailAppend ==
  ASSUME NEW S, NEW q \in Seq(S), q # <<>>, NEW x \in S
  PROVE  Tail(Append(q, x)) = Append(Tail(q), x) /\ Append(q, x) # <<>>
<1> DEFINE a == Append(q, x)
           t == Append(Tail(q), x)
           k == Len(q)
<1>1. /\ a \in Seq(S) /\ Len(a) = k + 1 /\ a[k + 1] = x /\ a # <<>>
      /\ \A i \in 1 .. k : a[i] = q[i]
  BY AppendProperties
<1>2. /\ Tail(q) \in Seq(S) /\ k \in Nat \ {0} /\ Len(Tail(q)) = k - 1
      /\ \A i \in 1 .. k - 1 : Tail(q)[i] = q[i + 1]
  BY HeadTailProperties, LenProperties, EmptySeq
<1>3. /\ t \in Seq(S) /\ Len(t) = (k - 1) + 1 /\ t[(k - 1) + 1] = x
      /\ \A i \in 1 .. k - 1 : t[i] = Tail(q)[i]
  BY <1>2, AppendProperties
<1> HIDE DEF a, t
<1>4. /\ Tail(a) \in Seq(S) /\ Len(Tail(a)) = (k + 1) - 1
      /\ \A i \in 1 .. (k + 1) - 1 : Tail(a)[i] = a[i + 1]
  BY <1>1, HeadTailProperties
<1> DEFINE b == Tail(a)
<1> HIDE DEF b, k
<1>5. b \in [1 .. k -> S] /\ t \in [1 .. k -> S]
  <2>1. (k + 1) - 1 = k /\ (k - 1) + 1 = k
    BY <1>2
  <2>2. b \in Seq(S) /\ Len(b) = k /\ Len(t) = k
    BY <1>3, <1>4, <2>1 DEF b
  <2> QED BY <1>3, <2>2, LenProperties
<1>6. \A i \in 1 .. k : b[i] = t[i]
  <2> SUFFICES ASSUME NEW i \in 1 .. k PROVE b[i] = t[i]
    OBVIOUS
  <2>1. (k + 1) - 1 = k /\ (k - 1) + 1 = k /\ i + 1 \in 1 .. k + 1
    BY <1>2
  <2>2. b[i] = a[i + 1]
    BY <1>4, <2>1 DEF b
  <2>3. CASE i = k
    BY <1>1, <1>3, <2>1, <2>2, <2>3
  <2>4. CASE i # k
    <3>1. i \in 1 .. k - 1 /\ i + 1 \in 1 .. k
      BY <1>2, <2>4
    <3> QED BY <1>1, <1>2, <1>3, <2>2, <3>1
  <2> QED BY <2>3, <2>4
<1>7. b = t
  <2>1. b = [i \in 1 .. k |-> b[i]] /\ t = [i \in 1 .. k |-> t[i]]
    BY <1>5
  <2>2. [i \in 1 .. k |-> b[i]] = [i \in 1 .. k |-> t[i]]
    BY <1>6
  <2> QED BY <2>1, <2>2
<1> QED BY <1>1, <1>7 DEF a, b, t

(* The next process leaves the ready queue; the running one has joined it  *)
(* before, if it was to be queued again.                                   *)
Requeued(req, cur) == IF req THEN {node(cur)} ELSE {}

Switched(l, A, cur, req, new, m, B) ==
    /\ Rep(m, B) /\ Collection(B) /\ SameRest(A, B) /\ B[blocked] = A[blocked]
    /\ new \in Task /\ new = Head(Tasks(A[readyqueue])) /\ node(new) \in Members(A)
    /\ Tasks(B[readyqueue]) = IF req THEN Append(Tail(Tasks(A[readyqueue])), cur)
                              ELSE Tail(Tasks(A[readyqueue]))
    /\ Members(B) = (Members(A) \ {node(new)}) \cup Requeued(req, cur)
    /\ ~ Linked(m, node(new))
    /\ Within(l, m, Members(A) \cup Members(B))

(* A change of one queue keeps the shape of the collection.                *)
LEMMA CollectionQueue ==
  ASSUME NEW A, Collection(A), NEW B, DOMAIN B = DOMAIN A, NEW h \in Heads,
         \A k \in DOMAIN A : k # h => B[k] = A[k],
         Range(B[h]) \subseteq {node(p) : p \in Task}
  PROVE  Collection(B)
  BY DEF Collection

(* sched_next_rr on the ready queue: the first process leaves it after the *)
(* running one has joined it.                                              *)
LEMMA Switch ==
  ASSUME NEW l, NEW A, Rep(l, A), Collection(A), A[readyqueue] # <<>>,
         NEW cur \in Task, NEW req \in BOOLEAN, req => node(cur) \notin Members(A)
  PROVE  LET new == list_head_to_task_struct(list_first(l, readyqueue))
             q   == IF req THEN Enqueued(l, cur, readyqueue) ELSE l
         IN  \E B : Switched(l, A, cur, req, new, Dequeued(q, new), B)
<1> DEFINE h == readyqueue
           s == A[h]
           new == list_head_to_task_struct(list_first(l, readyqueue))
           q   == IF req THEN Enqueued(l, cur, readyqueue) ELSE l
           m   == Dequeued(q, new)
<1>1. /\ h \in DOMAIN A /\ s \in Seq(Node) /\ Ring(l, h, s) /\ Range(s) \subseteq Members(A)
      /\ Range(s) \subseteq {node(p) : p \in Task} /\ h \in Heads
  <2>1. h \in Heads /\ Range(s) \subseteq {node(p) : p \in Task}
    BY DEF Heads, Collection
  <2> QED BY <2>1, CollectionFacts
<1>2. /\ list_first(l, h) = s[1] /\ 1 \in 1 .. Len(s)
  BY <1>1, RingFirst
<1>3. /\ Tasks(Without(s, 1)) = Tail(Tasks(s)) /\ Head(Tasks(s)) = s[1][2]
      /\ s[1] = node(s[1][2]) /\ s[1][2] \in Task
  BY <1>1, TasksTail
<1>4. new = s[1][2] /\ new \in Task /\ new = Head(Tasks(s)) /\ s[1] = node(new)
  BY <1>2, <1>3 DEF list_head_to_task_struct
<1>5. Tasks(s) \in Seq(Task) /\ Tasks(s) # <<>> /\ DOMAIN s = 1 .. Len(s)
  BY <1>1, TasksFacts
<1>6. s[1] \in Range(s) /\ node(new) \in Members(A)
  BY <1>1, <1>2, <1>4, <1>5 DEF Range
<1> HIDE DEF new
<1>7. CASE ~ req
  <2>1. q = l /\ m = list_del(l, s[1])
    BY <1>4, <1>7 DEF Dequeued
  <2>2. PICK B : Removed(l, A, h, 1, list_del(l, s[1]), B)
    BY <1>1, <1>2, RemoveNode, Zenon
  <2>3. /\ Rep(m, B) /\ DOMAIN B = DOMAIN A /\ B[h] = Without(s, 1)
        /\ \A k \in DOMAIN A : k # h => B[k] = A[k]
        /\ Members(B) = Members(A) \ {node(new)}
        /\ ~ Linked(m, node(new)) /\ Within(l, m, Members(A))
        /\ Range(B[h]) = Range(s) \ {node(new)}
    BY <1>4, <2>1, <2>2 DEF Removed
  <2> HIDE DEF m, h
  <2>4. Collection(B)
    <3>1. Range(B[h]) \subseteq {node(p) : p \in Task}
      BY <1>1, <2>3
    <3> QED BY <1>1, <2>3, <3>1, CollectionQueue, Zenon
  <2>5. SameRest(A, B) /\ B[blocked] = A[blocked]
    BY <1>1, <2>3, NodeFacts DEF SameRest, Collection, Heads, h
  <2>6. Within(l, m, Members(A) \cup Members(B))
    BY <2>3, WithinMore
  <2>7. Switched(l, A, cur, req, new, m, B)
    BY <1>3, <1>4, <1>6, <1>7, <2>3, <2>4, <2>5, <2>6 DEF Switched, Requeued, h
  <2> QED BY <2>7 DEF m, new
<1>8. CASE req
  <2> DEFINE n == node(cur)
             t == Append(s, n)
             k == list_add_tail(l, n, h)
  <2>1. n \in Node /\ n \notin Members(A)
    BY <1>8, NodeFacts
  <2>2. PICK C : Added(l, A, h, n, list_add_tail(l, n, h), C)
    <3> HIDE DEF h, n
    <3> QED BY <1>1, <2>1, AddTail, Zenon
  <2> HIDE DEF n
  <2>3. /\ Rep(k, C) /\ DOMAIN C = DOMAIN A /\ C[h] = t
        /\ \A i \in DOMAIN A : i # h => C[i] = A[i]
        /\ Members(C) = Members(A) \cup {n} /\ Within(l, k, Members(C))
    BY <2>2 DEF Added
  <2> HIDE DEF k
  <2>4. t \in Seq(Node) /\ Range(t) = Range(s) \cup {n}
    BY <1>1, <2>1, AppendRange
  <2>5. t[1] = s[1] /\ 1 \in 1 .. Len(t)
    <3>1. Len(t) = Len(s) + 1 /\ t[1] = s[1] /\ Len(s) \in Nat
      BY <1>1, <1>2, <2>1, AppendProperties, LenProperties
    <3> QED BY <1>2, <3>1
  <2>6. m = list_del(k, t[1])
    BY <1>4, <1>8, <2>5 DEF Dequeued, Enqueued, n, k
  <2>7. PICK B : Removed(k, C, h, 1, list_del(k, C[h][1]), B)
    <3>1. h \in DOMAIN C /\ 1 \in 1 .. Len(C[h])
      BY <1>1, <2>3, <2>5
    <3> HIDE DEF t, h, s
    <3> QED BY <2>3, <3>1, RemoveNode, Zenon
  <2>8. /\ Rep(m, B) /\ DOMAIN B = DOMAIN A /\ B[h] = Without(t, 1)
        /\ \A i \in DOMAIN A : i # h => B[i] = A[i]
        /\ Members(B) = Members(C) \ {node(new)}
        /\ ~ Linked(m, node(new)) /\ Within(k, m, Members(C))
        /\ Range(B[h]) = Range(t) \ {node(new)}
    <3>1. list_del(k, C[h][1]) = m /\ C[h][1] = node(new)
      BY <1>4, <2>3, <2>5, <2>6
    <3> HIDE DEF m, t
    <3> QED BY <2>3, <2>7, <3>1 DEF Removed
  <2> HIDE DEF m
  <2>9. Members(B) = (Members(A) \ {node(new)}) \cup {n} /\ n # node(new)
    BY <1>6, <2>1, <2>3, <2>8
  <2>10. Range(t) \subseteq {node(p) : p \in Task}
    BY <1>1, <2>4 DEF n
  <2>11. Collection(B)
    <3>1. Range(B[h]) \subseteq {node(p) : p \in Task}
      BY <2>8, <2>10
    <3> HIDE DEF h
    <3> QED BY <1>1, <2>8, <3>1, CollectionQueue, Zenon
  <2>12. SameRest(A, B) /\ B[blocked] = A[blocked]
    BY <1>1, <2>8, NodeFacts DEF SameRest, Collection, Heads
  <2>13. Within(l, m, Members(A) \cup Members(B))
    <3>1. Within(l, m, Members(C) \cup Members(C))
      BY <2>3, <2>8, WithinTrans
    <3>2. Members(C) \cup Members(C) = Members(A) \cup Members(B)
      BY <1>6, <2>3, <2>9
    <3> QED BY <3>1, <3>2
  <2>14. Tasks(B[h]) = Append(Tail(Tasks(s)), cur)
    <3>1. Tasks(t) = Append(Tasks(s), cur)
      BY <1>1, TasksAppend DEF n
    <3>2. Tail(Append(Tasks(s), cur)) = Append(Tail(Tasks(s)), cur) /\ Append(Tasks(s), cur) # <<>>
      BY <1>5, TailAppend
    <3>3. t # <<>>
      BY <2>4, <2>5, EmptySeq
    <3>4. Tasks(Without(t, 1)) = Tail(Tasks(t))
      <4> HIDE DEF t
      <4> QED BY <2>4, <2>10, <3>3, TasksTail
    <3> QED BY <2>8, <3>1, <3>2, <3>4
  <2>15. Switched(l, A, cur, req, new, m, B)
    BY <1>4, <1>6, <1>8, <2>8, <2>9, <2>11, <2>12, <2>13, <2>14
       DEF Switched, Requeued, n
  <2> QED BY <2>15 DEF m, new
<1> QED BY <1>7, <1>8 DEF new

(* A walk reads the PCBs of a list.                                        *)
LEMMA TasksOfList ==
  ASSUME NEW l, NEW A, Rep(l, A), NEW h \in DOMAIN A
  PROVE  TasksOf(l, h) = Tasks(A[h])
<1>1. list_for_each(l, h) = A[h]
  BY Walk DEF Rep
<1> QED BY <1>1 DEF TasksOf, Tasks, list_head_to_task_struct

Requeues(pid, st) == pid[current] > 0 /\ st[current] # "BLOCKED"

NextChosen(l, A, pid, st, B) ==
    /\ Rep(links', B) /\ Collection(B) /\ SameRest(A, B) /\ B[blocked] = A[blocked]
    /\ Within(l, links', Members(A) \cup Members(B))
    /\ PP!sched_next_rr(pid, st)
    /\ \/ A[readyqueue] = <<>> /\ current' = idle_task /\ links' = l /\ B = A
       \/ /\ A[readyqueue] # <<>>
          /\ current' \in Task /\ node(current') \in Members(A)
          /\ ~ Linked(links', node(current'))
          /\ Members(B) = (Members(A) \ {node(current')})
                             \cup Requeued(Requeues(pid, st), current)

(* sched_next_rr on the links is the one of Process.                       *)
LEMMA SchedNext ==
  ASSUME NEW l, NEW A, Rep(l, A), Collection(A), current \in Task,
         NEW pid, NEW st, sched_next_rr(l, pid, st),
         ReadyTasks = Tasks(A[readyqueue]),
         Requeues(pid, st) => node(current) \notin Members(A)
  PROVE  \E B : NextChosen(l, A, pid, st, B)
<1>1. /\ readyqueue \in DOMAIN A /\ Ring(l, readyqueue, A[readyqueue])
      /\ A[readyqueue] \in Seq(Node) /\ Heads \subseteq DOMAIN A
      /\ Range(A[readyqueue]) \subseteq {node(p) : p \in Task}
  <2>1. Heads \subseteq DOMAIN A /\ Range(A[readyqueue]) \subseteq {node(p) : p \in Task}
    BY DEF Heads, Collection
  <2> QED BY <2>1, CollectionFacts
<1>2. list_empty(l, readyqueue) <=> A[readyqueue] = <<>>
  BY <1>1, RingFirst
<1>3. A[readyqueue] = <<>> <=> ReadyTasks = <<>>
  BY <1>1, TasksFacts
<1>4. CASE A[readyqueue] = <<>>
  <2>1. ticks_since_last_switch' = 0 /\ current' = idle_task /\ state' = st /\ links' = l
    BY <1>2, <1>4 DEF sched_next_rr
  <2>2. ReadyTasks' = ReadyTasks
    <3>1. TasksOf(links', readyqueue) = Tasks(A[readyqueue])
      BY <1>1, <2>1, TasksOfList
    <3> QED BY <3>1 DEF ReadyTasks
  <2>3. PP!sched_next_rr(pid, st)
    BY <1>3, <1>4, <2>1, <2>2, SameNames DEF PP!sched_next_rr, PP!IdleTime
  <2>4. Within(l, links', Members(A) \cup Members(A))
    BY <2>1 DEF Within, SameLinks
  <2>5. NextChosen(l, A, pid, st, A)
    BY <1>4, <2>1, <2>3, <2>4 DEF NextChosen, SameRest
  <2> QED BY <2>5
<1>5. CASE A[readyqueue] # <<>>
  <2> DEFINE new == list_head_to_task_struct(list_first(l, readyqueue))
             req == Requeues(pid, st)
             q   == IF req THEN Enqueued(l, current, readyqueue) ELSE l
  <2>1. /\ ticks_since_last_switch' = 0 /\ current' = new /\ links' = Dequeued(q, new)
        /\ state' = [st EXCEPT ![current] = IF req THEN "READY" ELSE @, ![new] = "RUN"]
    BY <1>2, <1>5 DEF sched_next_rr, Requeues
  <2>2. PICK B : Switched(l, A, current, req, new, Dequeued(q, new), B)
    <3>1. req \in BOOLEAN /\ (req => node(current) \notin Members(A))
      BY DEF Requeues
    <3> HIDE DEF req
    <3> QED BY <1>5, <3>1, Switch
  <2> HIDE DEF new, q
  <2>3. Switched(l, A, current, req, current', links', B)
    BY <2>1, <2>2
  <2>4. /\ Rep(links', B) /\ Collection(B) /\ SameRest(A, B) /\ B[blocked] = A[blocked]
        /\ current' \in Task /\ current' = Head(ReadyTasks) /\ node(current') \in Members(A)
        /\ Tasks(B[readyqueue]) = IF req THEN Append(Tail(ReadyTasks), current)
                                  ELSE Tail(ReadyTasks)
        /\ Members(B) = (Members(A) \ {node(current')}) \cup Requeued(req, current)
        /\ ~ Linked(links', node(current'))
        /\ Within(l, links', Members(A) \cup Members(B))
    BY <2>3 DEF Switched
  <2>5. ReadyTasks' = Tasks(B[readyqueue])
    <3>1. readyqueue \in DOMAIN B
      BY <1>1, <2>4 DEF SameRest
    <3>2. TasksOf(links', readyqueue) = Tasks(B[readyqueue])
      BY <2>4, <3>1, TasksOfList
    <3> QED BY <3>2 DEF ReadyTasks
  <2>6. PP!sched_next_rr(pid, st)
    <3>1. PP!Requeue(pid, st) <=> req
      BY DEF PP!Requeue, Requeues
    <3> HIDE DEF req
    <3>2. state' = [st EXCEPT ![current] = IF req THEN "READY" ELSE @, ![current'] = "RUN"]
      BY <2>1
    <3> QED BY <1>3, <1>5, <2>1, <2>4, <2>5, <3>1, <3>2
            DEF PP!sched_next_rr, PP!IdleTime, PP!list_add_tail
  <2>7. NextChosen(l, A, pid, st, B)
    BY <1>5, <2>4, <2>6 DEF NextChosen
  <2> QED BY <2>7
<1> QED BY <1>4, <1>5

Scheduled(l, A, st, t, B) ==
    /\ Rep(links', B) /\ Collection(B) /\ SameRest(A, B) /\ B[blocked] = A[blocked]
    /\ Kept(B, current') = Kept(A, current)
    /\ Within(l, links', Members(A) \cup Members(B))
    /\ OffQueue(links', B, current')
    /\ PP!schedule(st, t)

(* schedule on the links is the one of Process.                            *)
LEMMA Schedule ==
  ASSUME NEW l, NEW A, Rep(l, A), Collection(A), current \in Task,
         OffQueue(l, A, current), NEW st, NEW t, schedule(l, st, t),
         ReadyTasks = Tasks(A[readyqueue]),
         st[current] = "BLOCKED" <=> node(current) \in Range(A[blocked]),
         node(current) \in Members(A) <=> node(current) \in Range(A[blocked]),
         node(idle_task) \notin Members(A),
         PID[current] = 0 <=> current = idle_task,
         current # idle_task => PID[current] > 0
  PROVE  \E B : Scheduled(l, A, st, t, B)
<1>1. /\ readyqueue \in DOMAIN A /\ Ring(l, readyqueue, A[readyqueue])
      /\ A[readyqueue] \in Seq(Node) /\ Heads \subseteq DOMAIN A
      /\ Range(A[readyqueue]) \subseteq {node(p) : p \in Task}
  <2>1. Heads \subseteq DOMAIN A /\ Range(A[readyqueue]) \subseteq {node(p) : p \in Task}
    BY DEF Heads, Collection
  <2> QED BY <2>1, CollectionFacts
<1>2. list_empty(l, readyqueue) <=> ReadyTasks = <<>>
  <2>1. list_empty(l, readyqueue) <=> A[readyqueue] = <<>>
    BY <1>1, RingFirst
  <2> QED BY <1>1, <2>1, TasksFacts
<1>3. needs_sched_rr(l, st, t) <=> PP!needs_sched_rr(st, t)
  BY <1>2 DEF needs_sched_rr, PP!needs_sched_rr
<1>4. CASE ~ needs_sched_rr(l, st, t)
  <2>1. ticks_since_last_switch' = t /\ state' = st /\ links' = l /\ current' = current
    BY <1>4 DEF schedule
  <2>2. ReadyTasks' = ReadyTasks
    <3>1. TasksOf(links', readyqueue) = Tasks(A[readyqueue])
      BY <1>1, <2>1, TasksOfList
    <3> QED BY <3>1 DEF ReadyTasks
  <2>3. PP!schedule(st, t)
    BY <1>3, <1>4, <2>1, <2>2 DEF PP!schedule
  <2>4. Within(l, links', Members(A) \cup Members(A))
    BY <2>1 DEF Within, SameLinks
  <2>5. Scheduled(l, A, st, t, A)
    BY <2>1, <2>3, <2>4 DEF Scheduled, SameRest
  <2> QED BY <2>5
<1>5. CASE needs_sched_rr(l, st, t)
  <2>1. sched_next_rr(l, PID, st)
    BY <1>5 DEF schedule
  <2>2. Requeues(PID, st) => node(current) \notin Members(A)
    BY DEF Requeues
  <2>3. PICK B : NextChosen(l, A, PID, st, B)
    BY <2>1, <2>2, SchedNext
  <2>4. /\ Rep(links', B) /\ Collection(B) /\ SameRest(A, B) /\ B[blocked] = A[blocked]
        /\ Within(l, links', Members(A) \cup Members(B))
        /\ PP!sched_next_rr(PID, st)
    BY <2>3 DEF NextChosen
  <2>5. PP!schedule(st, t)
    BY <1>3, <1>5, <2>4 DEF PP!schedule
  <2>6. Kept(B, current') = Kept(A, current) /\ OffQueue(links', B, current')
    <3>1. CASE A[readyqueue] = <<>>
      <4>1. current' = idle_task /\ links' = l /\ B = A
        BY <2>3, <3>1 DEF NextChosen
      <4>2. current = idle_task \/ node(current) \in Members(A)
        <5>1. ReadyTasks = <<>>
          BY <1>1, <3>1, TasksFacts
        <5> QED BY <1>2, <1>5, <5>1 DEF needs_sched_rr
      <4>3. OffQueue(links', B, current')
        BY <4>1 DEF OffQueue
      <4> QED BY <4>1, <4>2, <4>3, SameNames DEF Kept
    <3>2. CASE A[readyqueue] # <<>>
      <4>1. /\ current' \in Task /\ node(current') \in Members(A)
            /\ ~ Linked(links', node(current'))
            /\ Members(B) = (Members(A) \ {node(current')})
                               \cup Requeued(Requeues(PID, st), current)
        BY <2>3, <3>2 DEF NextChosen
      <4>2. \/ Requeued(Requeues(PID, st), current) = {node(current)}
            \/ /\ Requeued(Requeues(PID, st), current) = {}
               /\ current = idle_task \/ node(current) \in Members(A)
        BY DEF Requeued, Requeues
      <4>3. \A p, q : node(p) = node(q) => p = q
        BY NodeFacts
      <4>4. Kept(B, current') = Kept(A, current)
        <5> DEFINE R == Requeued(Requeues(PID, st), current)
        <5>1. /\ R \subseteq {node(current)}
              /\ node(current) \in Members(A) \/ current = idle_task \/ node(current) \in R
          BY <4>2
        <5> HIDE DEF R
        <5>2. Members(B) = (Members(A) \ {node(current')}) \cup R
          BY <4>1 DEF R
        <5>3. ASSUME NEW p \in Task PROVE p \in Kept(B, current') <=> p \in Kept(A, current)
          <6>1. p \in Kept(B, current') <=> node(p) \in Members(B) \/ p = current' \/ p = idle_task
            BY DEF Kept
          <6>2. p \in Kept(A, current) <=> node(p) \in Members(A) \/ p = current \/ p = idle_task
            BY DEF Kept
          <6>3. node(p) \in Members(B) <=> (node(p) \in Members(A) /\ p # current') \/ node(p) \in R
            BY <4>3, <5>2
          <6>4. node(p) \in R => p = current
            BY <4>3, <5>1
          <6> QED BY <4>1, <5>1, <6>1, <6>2, <6>3, <6>4
        <5>4. Kept(B, current') \subseteq Task /\ Kept(A, current) \subseteq Task
          BY <4>1, SameNames DEF Kept
        <5> QED BY <5>3, <5>4
      <4>5. OffQueue(links', B, current')
        <5>1. ASSUME node(idle_task) \notin Members(B) PROVE ~ Linked(links', node(idle_task))
          <6>1. node(idle_task) \in Node
            BY SameNames, NodeFacts
          <6>2. SameLinks(l, links', node(idle_task))
            BY <2>4, <5>1, <6>1 DEF Within
          <6> QED BY <6>2 DEF OffQueue, SameLinks, Linked
        <5> QED BY <4>1, <5>1 DEF OffQueue
      <4> QED BY <4>4, <4>5
    <3> QED BY <3>1, <3>2
  <2>7. Scheduled(l, A, st, t, B)
    BY <2>4, <2>5, <2>6 DEF Scheduled
  <2> QED BY <2>7
<1> QED BY <1>4, <1>5

-----------------------------------------------------------------------------
(* The clock interrupt and block.                                          *)

(* Two such steps, one after the other.                                    *)
LEMMA SameRestTrans ==
  ASSUME NEW A, NEW B, NEW C, SameRest(A, C), SameRest(C, B)
  PROVE  SameRest(A, B)
  BY DEF SameRest

(* Such a step leaves the families alone.                                  *)
LEMMA SameFamilies ==
  ASSUME NEW A, NEW B, SameRest(A, B)
  PROVE  \A p \in Task : Family(B, p) = Family(A, p)
<1>1. \A p : sonlist(p) \notin Heads
  BY NodeFacts
<1> QED BY <1>1 DEF SameRest, Family

(* What a scheduling step leaves of the lists.                             *)
LEMMA ScheduledStep ==
  ASSUME NEW A, Sound(links, A, current, parent), NEW l, NEW C, SameRest(A, C),
         Kept(C, current) = Kept(A, current), Within(links, l, Members(A) \cup Members(C)),
         Members(C) \subseteq Members(A) \cup Range(C[blocked]), blocked \in DOMAIN C,
         NEW st, NEW t, NEW B, Scheduled(l, C, st, t, B), parent' = parent
  PROVE  /\ Sound(links', B, current', parent')
         /\ FreeTasks' = FreeTasks /\ Families' = Families /\ BlockedTasks' = Waiting(C)
<1>1. /\ Rep(links', B) /\ Collection(B) /\ SameRest(C, B) /\ B[blocked] = C[blocked]
      /\ Kept(B, current') = Kept(C, current)
      /\ Within(l, links', Members(C) \cup Members(B)) /\ OffQueue(links', B, current')
  BY DEF Scheduled
<1>2. SameRest(A, B)
  BY <1>1, SameRestTrans
<1>3. Within(links, links', Members(A) \cup Members(B))
  <2>1. blocked \in DOMAIN B
    BY <1>1 DEF SameRest
  <2>2. Range(C[blocked]) \subseteq Members(B)
    BY <1>1, <2>1 DEF Members
  <2>3. Within(links, links', (Members(A) \cup Members(C)) \cup (Members(C) \cup Members(B)))
    BY <1>1, WithinTrans
  <2>4. (Members(A) \cup Members(C)) \cup (Members(C) \cup Members(B)) = Members(A) \cup Members(B)
    BY <2>2
  <2> QED BY <2>3, <2>4
<1>4. Sound(links', B, current', parent)
  <2>1. Kept(B, current') = Kept(A, current)
    BY <1>1
  <2> QED BY <1>1, <1>2, <1>3, <2>1, QueueStep, Zenon
<1>5. Reads(links, A) /\ Reads(links', B)
  BY <1>4, Abstraction, Zenon
<1>6. /\ FreeTasks' = Tasks(B[freequeue]) /\ BlockedTasks' = Waiting(B)
      /\ Families' = [p \in Task |-> Family(B, p)]
  BY <1>5, ReadNext
<1>7. FreeTasks = Tasks(A[freequeue]) /\ Families = [p \in Task |-> Family(A, p)]
  BY <1>5, ReadState
<1>8. Waiting(B) = Waiting(C)
  BY <1>1 DEF Waiting
<1>9. B[freequeue] = A[freequeue]
  BY <1>2 DEF SameRest
<1>10. [p \in Task |-> Family(B, p)] = [p \in Task |-> Family(A, p)]
  BY <1>2, SameFamilies
<1> QED BY <1>4, <1>6, <1>7, <1>8, <1>9, <1>10

(* A step that changes no PID and no parent keeps the roots.               *)
LEMMA RootsKept ==
  ASSUME Roots, PP!Live' = PP!Live, PID' = PID, parent' = parent, next_pid' = next_pid
  PROVE  Roots'
  BY DEF Roots

(* The clock interrupt.                                                    *)
LEMMA ClkStep ==
  ASSUME LInv, clk_routine
  PROVE  LInv' /\ P!clk_routine
<1>1. PICK A : Sound(links, A, current, parent)
  BY DEF LInv
<1>2. PP!ProcessInv /\ Roots
  BY DEF LInv
<1>3. Rep(links, A) /\ Collection(A) /\ Outside(links, A, current, parent)
  BY <1>1 DEF Sound
<1>4. /\ current \in Task /\ node(idle_task) \notin Members(A)
      /\ node(current) \in Members(A) <=> node(current) \in Range(A[blocked])
      /\ PID[current] = 0 <=> current = idle_task
      /\ current # idle_task => PID[current] > 0
      /\ state[current] = "BLOCKED" <=> node(current) \in Range(A[blocked])
  <2>1. current \in LiveIn(A, current)
    BY DEF LiveIn
  <2> QED BY <1>1, <1>2, <2>1, Facts
<1>5. /\ fault = "none" /\ PID' = PID /\ parent' = parent /\ next_pid' = next_pid
      /\ pending_unblocks' = pending_unblocks /\ fault' = fault
  BY DEF clk_routine
<1> DEFINE t == IF ticks_since_last_switch > INIT_QUANTUM THEN ticks_since_last_switch
                ELSE ticks_since_last_switch + 1
<1>6. schedule(links, state, t)
  BY DEF clk_routine
<1>7. PICK B : Scheduled(links, A, state, t, B)
  <2>1. OffQueue(links, A, current)
    BY <1>3 DEF Outside, OffQueue
  <2>2. ReadyTasks = Tasks(A[readyqueue])
    BY <1>1, Abstraction, ReadState
  <2> HIDE DEF t
  <2> QED BY <1>3, <1>4, <1>6, <2>1, <2>2, Schedule
<1>8. /\ Sound(links', B, current', parent')
      /\ FreeTasks' = FreeTasks /\ Families' = Families /\ BlockedTasks' = Waiting(A)
  <2>1. SameRest(A, A) /\ Kept(A, current) = Kept(A, current)
    BY DEF SameRest
  <2>2. Within(links, links, Members(A) \cup Members(A))
    BY DEF Within, SameLinks
  <2>3. Members(A) \subseteq Members(A) \cup Range(A[blocked]) /\ blocked \in DOMAIN A
    BY <1>3, CollectionFacts
  <2> HIDE DEF t
  <2> QED BY <1>1, <1>5, <1>7, <2>1, <2>2, <2>3, ScheduledStep, Zenon
<1>9. BlockedTasks' = BlockedTasks
  BY <1>1, <1>8, Abstraction, ReadState
<1>10. PP!clk_routine
  <2>1. PP!schedule(state, t)
    BY <1>7 DEF Scheduled
  <2> QED BY <1>5, <1>8, <1>9, <2>1 DEF PP!clk_routine, PP!Running
<1>11. PP!ProcessInv' /\ PP!Live' = PP!Live
  BY <1>2, <1>10, Assumptions, PP!ClkInv
<1>12. Roots'
  BY <1>2, <1>5, <1>11, RootsKept
<1> QED BY <1>8, <1>10, <1>11, <1>12, SameProcess DEF LInv

(* A step that leaves links, PIDs and parents alone keeps the invariant.   *)
LEMMA StutterStep ==
  ASSUME LInv, PP!ProcessInv', PP!Live' = PP!Live, PID' = PID, parent' = parent,
         next_pid' = next_pid, links' = links, current' = current
  PROVE  LInv'
  BY RootsKept DEF LInv

(* Equal links stand for equal queues and families.                        *)
LEMMA SameLists ==
  ASSUME links' = links
  PROVE  /\ FreeTasks' = FreeTasks /\ ReadyTasks' = ReadyTasks
         /\ BlockedTasks' = BlockedTasks /\ Families' = Families
  BY DEF FreeTasks, ReadyTasks, BlockedTasks, Families

(* The links of the running process tell whether it is blocked.            *)
LEMMA RunningLinked ==
  ASSUME PP!ProcessInv, NEW A, Sound(links, A, current, parent)
  PROVE  Linked(links, node(current)) <=> current \in BlockedTasks
<1>1. Rep(links, A) /\ Outside(links, A, current, parent)
  BY DEF Sound
<1>2. /\ current \in Task
      /\ node(current) \in Members(A) <=> node(current) \in Range(A[blocked])
  BY Facts
<1>3. BlockedTasks = Waiting(A)
  BY Abstraction, ReadState
<1>4. node(current) \in Members(A) => links.next[node(current)] \in Node
  <2> SUFFICES ASSUME node(current) \in Members(A) PROVE links.next[node(current)] \in Node
    OBVIOUS
  <2>1. PICK h \in DOMAIN A : node(current) \in {h} \cup Range(A[h])
    BY DEF Members
  <2> QED BY <1>1, <2>1, Neighbours DEF Rep
<1>5. node(current) \in Members(A) <=> Linked(links, node(current))
  BY <1>1, <1>4, NodeFacts DEF Outside, Linked
<1> QED BY <1>2, <1>3, <1>5 DEF Waiting

(* sys_block.                                                              *)
LEMMA BlockStep ==
  ASSUME LInv, sys_block
  PROVE  LInv' /\ P!sys_block
<1>1. PICK A : Sound(links, A, current, parent)
  BY DEF LInv
<1>2. PP!ProcessInv /\ Roots /\ PP!UserRuns
  BY SameNames DEF LInv, sys_block, UserRuns, PP!UserRuns, PP!Running
<1>3. Rep(links, A) /\ Collection(A) /\ Outside(links, A, current, parent)
  BY <1>1 DEF Sound
<1>4. /\ current \in Task /\ node(idle_task) \notin Members(A)
      /\ node(current) \in Members(A) <=> node(current) \in Range(A[blocked])
      /\ PID[current] = 0 <=> current = idle_task
      /\ current # idle_task => PID[current] > 0
  BY <1>1, <1>2, Facts
<1>5. /\ FreeTasks = Tasks(A[freequeue]) /\ ReadyTasks = Tasks(A[readyqueue])
      /\ BlockedTasks = Waiting(A)
  BY <1>1, Abstraction, ReadState
<1>6. Linked(links, node(current)) <=> current \in BlockedTasks
  BY <1>1, <1>2, RunningLinked
<1>7. CASE pending_unblocks[current] # 0
  <2>1. /\ pending_unblocks' = [pending_unblocks EXCEPT ![current] = @ - 1]
        /\ UNCHANGED <<current, PID, state, parent, links,
                       ticks_since_last_switch, next_pid, fault>>
    BY <1>7 DEF sys_block
  <2>2. PP!sys_block
    BY <1>2, <1>7, <2>1, SameLists DEF PP!sys_block, PP!MustWait, PP!queueVars
  <2>3. PP!ProcessInv' /\ PP!Live' = PP!Live
    BY <1>2, <2>2, Assumptions, PP!BlockInv
  <2>4. LInv'
    BY <2>1, <2>3, StutterStep
  <2> QED BY <2>2, <2>4, SameProcess
<1>8. CASE pending_unblocks[current] = 0 /\ Linked(links, node(current))
  <2>1. /\ fault' = "block_while_blocked"
        /\ UNCHANGED <<current, PID, state, parent, pending_unblocks, links,
                       ticks_since_last_switch, next_pid>>
    BY <1>8 DEF sys_block
  <2>2. PP!sys_block
    BY <1>2, <1>6, <1>8, <2>1, SameLists DEF PP!sys_block, PP!MustWait, PP!pcbVars, PP!queueVars
  <2>3. PP!ProcessInv' /\ PP!Live' = PP!Live
    BY <1>2, <2>2, Assumptions, PP!BlockInv
  <2>4. LInv'
    BY <2>1, <2>3, StutterStep
  <2> QED BY <2>2, <2>4, SameProcess
<1>9. CASE pending_unblocks[current] = 0 /\ ~ Linked(links, node(current))
  <2> DEFINE n == node(current)
             l == list_add_tail(links, n, blocked)
             st == [state EXCEPT ![current] = "BLOCKED"]
  <2>1. /\ schedule(l, st, ticks_since_last_switch)
        /\ PID' = PID /\ parent' = parent /\ pending_unblocks' = pending_unblocks
        /\ next_pid' = next_pid /\ fault' = fault
    BY <1>9 DEF sys_block
  <2>2. n \in Node /\ n \notin Members(A) /\ blocked \in DOMAIN A /\ readyqueue \in DOMAIN A
        /\ freequeue \in DOMAIN A /\ blocked # readyqueue /\ blocked # freequeue
        /\ A[blocked] \in Seq(Node) /\ blocked \in Heads
    <3>1. n \notin Members(A)
      BY <1>4, <1>5, <1>6, <1>9 DEF Waiting
    <3>2. blocked \in Heads
      BY DEF Heads
    <3> QED BY <1>3, <1>4, <3>1, <3>2, CollectionFacts, NodeFacts DEF blocked, readyqueue, freequeue
  <2>3. PICK C : Added(links, A, blocked, n, l, C)
    <3> HIDE DEF n
    <3> QED BY <1>3, <2>2, AddTail, Zenon
  <2>4. /\ Rep(l, C) /\ DOMAIN C = DOMAIN A /\ C[blocked] = Append(A[blocked], n)
        /\ \A k \in DOMAIN A : k # blocked => C[k] = A[k]
        /\ Members(C) = Members(A) \cup {n}
        /\ Within(links, l, Members(C))
    BY <2>3 DEF Added
  <2> HIDE DEF l
  <2>5. Range(C[blocked]) = Range(A[blocked]) \cup {n}
    BY <2>2, <2>4, AppendRange
  <2>6. Collection(C)
    <3>1. Range(C[blocked]) \subseteq {node(p) : p \in Task}
      <4>1. Range(A[blocked]) \subseteq {node(p) : p \in Task}
        BY <1>3, <2>2 DEF Collection
      <4> QED BY <1>4, <2>5, <4>1
    <3> QED BY <1>3, <2>2, <2>4, <3>1, CollectionQueue, Zenon
  <2>7. SameRest(A, C)
    BY <2>2, <2>4 DEF SameRest, Heads
  <2>8. Kept(C, current) = Kept(A, current)
    <3>1. \A p : node(p) = n => p = current
      BY NodeFacts
    <3> HIDE DEF n
    <3> QED BY <1>4, <2>4, <3>1 DEF Kept
  <2>9. st[current] = "BLOCKED"
    <3>1. state \in [Task -> PP!State]
      BY <1>2, SameNames DEF PP!ProcessInv, PP!TypeOK
    <3> QED BY <1>4, <3>1
  <2>10. PICK B : Scheduled(l, C, st, ticks_since_last_switch, B)
    <3>1. OffQueue(l, C, current)
      <4>1. node(idle_task) \in Node /\ node(idle_task) \notin Members(C)
        <5>1. current # idle_task
          BY <1>2, SameNames DEF PP!UserRuns
        <5> QED BY <1>4, <2>4, <5>1, SameNames, NodeFacts
      <4>2. SameLinks(links, l, node(idle_task))
        BY <2>4, <4>1 DEF Within
      <4>3. ~ Linked(l, node(idle_task))
        BY <1>3, <1>4, <4>2 DEF Outside, SameLinks, Linked
      <4> QED BY <2>4, <4>3 DEF OffQueue
    <3>2. ReadyTasks = Tasks(C[readyqueue])
      BY <1>5, <2>2, <2>4
    <3>3. /\ st[current] = "BLOCKED" <=> node(current) \in Range(C[blocked])
          /\ node(current) \in Members(C) <=> node(current) \in Range(C[blocked])
      BY <2>4, <2>5, <2>9
    <3>4. node(idle_task) \notin Members(C)
      <4>1. current # idle_task
        BY <1>2, SameNames DEF PP!UserRuns
      <4> QED BY <1>4, <2>4, <4>1, NodeFacts
    <3> HIDE DEF st
    <3> QED BY <1>4, <2>1, <2>4, <2>6, <3>1, <3>2, <3>3, <3>4, Schedule
  <2>11. /\ Sound(links', B, current', parent')
         /\ FreeTasks' = FreeTasks /\ Families' = Families /\ BlockedTasks' = Waiting(C)
    <3>1. Within(links, l, Members(A) \cup Members(C))
      BY <2>4, WithinMore
    <3>2. Members(C) \subseteq Members(A) \cup Range(C[blocked]) /\ blocked \in DOMAIN C
      BY <2>2, <2>4, <2>5
    <3> HIDE DEF st
    <3> QED BY <1>1, <2>1, <2>7, <2>8, <2>10, <3>1, <3>2, ScheduledStep, Zenon
  <2>12. Waiting(C) = BlockedTasks \cup {current}
    <3>1. \A p : node(p) = n => p = current
      BY NodeFacts
    <3> HIDE DEF n
    <3>2. n = node(current)
      BY DEF n
    <3> QED BY <1>4, <1>5, <2>5, <3>1, <3>2 DEF Waiting
  <2>13. PP!sys_block
    <3>1. PP!schedule(st, ticks_since_last_switch)
      BY <2>10 DEF Scheduled
    <3> HIDE DEF st
    <3>2. current \notin BlockedTasks
      BY <1>6, <1>9
    <3>3. PP!MustWait
      BY <1>9 DEF PP!MustWait
    <3> QED BY <1>2, <2>1, <2>11, <2>12, <3>1, <3>2, <3>3 DEF PP!sys_block, st
  <2>14. PP!ProcessInv' /\ PP!Live' = PP!Live
    BY <1>2, <2>13, Assumptions, PP!BlockInv
  <2>15. Roots'
    BY <1>2, <2>1, <2>14, RootsKept
  <2> QED BY <2>11, <2>13, <2>14, <2>15, SameProcess DEF LInv
<1> QED BY <1>7, <1>8, <1>9

-----------------------------------------------------------------------------
(* A step that changes nothing, and unblock.                               *)

(* A step that changes nothing.                                            *)
LEMMA SameVars ==
  ASSUME LInv, UNCHANGED vars
  PROVE  LInv' /\ UNCHANGED P!vars
<1>1. UNCHANGED PP!vars
  BY SameLists DEF vars, PP!vars, PP!pcbVars, PP!queueVars
<1>2. PP!ProcessInv'
  BY <1>1, Assumptions, PP!NextInv DEF LInv
<1>3. PP!Live' = PP!Live
  BY SameLists DEF vars, PP!Live, PP!idle_task, PP!Range
<1>4. LInv'
  BY <1>2, <1>3, StutterStep DEF vars
<1> QED BY <1>1, <1>4, SameProcess

(* The least of a set of positions is in it.                               *)
LEMMA LeastIn ==
  ASSUME NEW F \in SUBSET Nat, F # {}
  PROVE  (CHOOSE i \in F : \A j \in F : i <= j) \in F
<1>1. \E n \in F : \A m \in F : n <= m
  BY LeastNat
<1> QED BY <1>1

(* A PCB goes from the blocked queue to the ready one.                     *)
LEMMA MoveReady ==
  ASSUME NEW l, NEW A, Rep(l, A), Collection(A), NEW p \in Task, node(p) \in Range(A[blocked])
  PROVE  LET m == list_add_tail(list_del(l, node(p)), node(p), readyqueue)
         IN  \E B : /\ Rep(m, B) /\ Collection(B) /\ SameRest(A, B) /\ Members(B) = Members(A)
                    /\ Within(l, m, Members(A) \cup Members(B))
                    /\ Range(B[blocked]) = Range(A[blocked]) \ {node(p)}
                    /\ Tasks(B[readyqueue]) = Append(Tasks(A[readyqueue]), p)
<1> DEFINE n == node(p)
           k == list_del(l, n)
           m == list_add_tail(k, n, readyqueue)
<1>1. /\ blocked \in DOMAIN A /\ readyqueue \in DOMAIN A /\ freequeue \in DOMAIN A
      /\ A[blocked] \in Seq(Node) /\ A[readyqueue] \in Seq(Node)
      /\ blocked \in Heads /\ readyqueue \in Heads
      /\ Range(A[blocked]) \subseteq {node(q) : q \in Task}
      /\ Range(A[readyqueue]) \subseteq {node(q) : q \in Task}
      /\ n \in Node /\ n \in Members(A)
      /\ blocked # readyqueue /\ blocked # freequeue /\ readyqueue # freequeue
  <2>1. blocked \in Heads /\ readyqueue \in Heads
    BY DEF Heads
  <2>2. /\ Range(A[blocked]) \subseteq {node(q) : q \in Task}
        /\ Range(A[readyqueue]) \subseteq {node(q) : q \in Task}
    BY <2>1 DEF Collection
  <2> QED BY <2>1, <2>2, CollectionFacts, NodeFacts DEF blocked, readyqueue, freequeue
<1>2. PICK j \in 1 .. Len(A[blocked]) : A[blocked][j] = n
  <2>1. DOMAIN A[blocked] = 1 .. Len(A[blocked])
    BY <1>1, LenProperties
  <2> QED BY <2>1 DEF Range
<1>3. PICK C : Removed(l, A, blocked, j, list_del(l, A[blocked][j]), C)
  BY <1>1, RemoveNode, Zenon
<1>4. /\ Rep(k, C) /\ DOMAIN C = DOMAIN A
      /\ \A h \in DOMAIN A : h # blocked => C[h] = A[h]
      /\ Members(C) = Members(A) \ {n} /\ Within(l, k, Members(A))
      /\ Range(C[blocked]) = Range(A[blocked]) \ {n}
  <2>1. Removed(l, A, blocked, j, k, C)
    BY <1>2, <1>3
  <2> HIDE DEF k, n
  <2> QED BY <1>2, <2>1 DEF Removed
<1> HIDE DEF k
<1>5. PICK B : Added(k, C, readyqueue, n, list_add_tail(k, n, readyqueue), B)
  <2> HIDE DEF n
  <2>1. readyqueue \in DOMAIN C /\ n \notin Members(C)
    BY <1>1, <1>4
  <2> QED BY <1>1, <1>4, <2>1, AddTail, Zenon
<1>6. /\ Rep(m, B) /\ DOMAIN B = DOMAIN C /\ B[readyqueue] = Append(C[readyqueue], n)
      /\ \A h \in DOMAIN C : h # readyqueue => B[h] = C[h]
      /\ Members(B) = Members(C) \cup {n} /\ Within(k, m, Members(B))
  BY <1>5 DEF Added
<1> HIDE DEF m
<1>7. Members(B) = Members(A)
  BY <1>1, <1>4, <1>6
<1>8. Within(l, m, Members(A) \cup Members(B))
  BY <1>4, <1>6, WithinTrans
<1>9. Tasks(B[readyqueue]) = Append(Tasks(A[readyqueue]), p)
  BY <1>1, <1>4, <1>6, TasksAppend
<1>10. Range(B[blocked]) = Range(A[blocked]) \ {n}
  BY <1>1, <1>4, <1>6
<1>11. SameRest(A, B)
  BY <1>1, <1>4, <1>6 DEF SameRest, Heads
<1>12. Collection(B)
  <2>1. Collection(C)
    <3>1. Range(C[blocked]) \subseteq {node(q) : q \in Task}
      BY <1>1, <1>4
    <3> QED BY <1>1, <1>4, <3>1, CollectionQueue, Zenon
  <2>2. Range(B[readyqueue]) \subseteq {node(q) : q \in Task}
    <3>1. Range(Append(A[readyqueue], n)) = Range(A[readyqueue]) \cup {n}
      BY <1>1, AppendRange
    <3> QED BY <1>1, <1>4, <1>6, <3>1
  <2> QED BY <1>1, <1>6, <2>1, <2>2, CollectionQueue, Zenon
<1> QED BY <1>6, <1>7, <1>8, <1>9, <1>10, <1>11, <1>12 DEF m, k

(* sys_unblock: a PID that no son has changes nothing.                     *)
LEMMA UnblockStep ==
  ASSUME LInv, NEW pid, sys_unblock(pid)
  PROVE  LInv' /\ ((\E son \in Task : P!sys_unblock(son)) \/ UNCHANGED P!vars)
<1>1. PICK A : Sound(links, A, current, parent)
  BY DEF LInv
<1>2. PP!ProcessInv /\ Roots /\ PP!UserRuns
  BY SameNames DEF LInv, sys_unblock, UserRuns, PP!UserRuns, PP!Running
<1>3. Rep(links, A) /\ Collection(A) /\ Outside(links, A, current, parent)
  BY <1>1 DEF Sound
<1>4. /\ current \in Task
      /\ \A p \in LiveIn(A, current) : node(p) \notin Range(A[freequeue])
      /\ \A p \in LiveIn(A, current) : state[p] = "BLOCKED" <=> node(p) \in Range(A[blocked])
      /\ \A p, q \in Task : p \in Family(A, q) <=> p \in LiveIn(A, current) /\ parent[p] = q
  BY <1>1, <1>2, Facts
<1>5. /\ FreeTasks = Tasks(A[freequeue]) /\ ReadyTasks = Tasks(A[readyqueue])
      /\ BlockedTasks = Waiting(A) /\ Families = [p \in Task |-> Family(A, p)]
  BY <1>1, Abstraction, ReadState
<1>6. UNCHANGED <<current, PID, parent, ticks_since_last_switch, next_pid, fault>>
  BY DEF sys_unblock
<1> DEFINE h     == sonlist(current)
           walk  == TasksOf(links, sonlist(current))
           found == {i \in DOMAIN walk : PID[walk[i]] = pid}
           son   == walk[CHOOSE i \in found : \A j \in found : i <= j]
<1>7. CASE found = {}
  <2>1. UNCHANGED <<state, pending_unblocks, links>>
    BY <1>7 DEF sys_unblock
  <2> QED BY <1>6, <2>1, SameVars DEF vars
<1>8. CASE found # {}
  <2>1. h \in DOMAIN A
    <3>1. current \in Kept(A, current) /\ current \in LiveIn(A, current)
      BY DEF Kept, LiveIn
    <3>2. InUse(links, A, current)
      BY <1>3, <1>4, <3>1 DEF Outside
    <3> QED BY <1>4, <3>1, <3>2 DEF InUse
  <2>2. walk = Tasks(A[h]) /\ A[h] \in Seq(Node) /\ Range(A[h]) \subseteq {bros(p) : p \in Task}
    <3>1. h \in DOMAIN A \ Heads
      BY <1>3, <2>1, CollectionFacts
    <3> QED BY <1>3, <2>1, <3>1, CollectionFacts, TasksOfList DEF Collection
  <2>3. walk \in Seq(Task) /\ DOMAIN walk = 1 .. Len(A[h]) /\ Len(A[h]) \in Nat
    BY <2>2, TasksFacts
  <2>4. son \in Range(walk)
    <3>1. found \in SUBSET Nat
      BY <2>3
    <3> HIDE DEF walk
    <3>2. (CHOOSE i \in found : \A j \in found : i <= j) \in found
      <4> HIDE DEF found
      <4> QED BY <1>8, <3>1, LeastIn
    <3> QED BY <3>2 DEF Range
  <2> HIDE DEF son, found
  <2>5. son \in Task /\ son \in Family(A, current)
    <3>1. bros(son) \in Range(A[h])
      BY <2>2, <2>4, TasksMember
    <3>2. son \in Task
      BY <2>2, <3>1, NodeFacts
    <3> QED BY <2>1, <3>1, <3>2 DEF Family
  <2>6. son \in LiveIn(A, current) /\ PP!IsSon(son)
    BY <1>4, <1>5, <2>5 DEF PP!IsSon
  <2>7. CASE state[son] = "BLOCKED"
    <3>1. /\ state' = [state EXCEPT ![son] = "READY"]
          /\ pending_unblocks' = [pending_unblocks EXCEPT ![son] = 0]
          /\ links' = list_add_tail(list_del(links, node(son)), node(son), readyqueue)
      BY <1>8, <2>7 DEF sys_unblock, son, found
    <3>2. node(son) \in Range(A[blocked])
      BY <1>4, <2>6, <2>7
    <3>3. PICK B : /\ Rep(links', B) /\ Collection(B) /\ SameRest(A, B) /\ Members(B) = Members(A)
                   /\ Within(links, links', Members(A) \cup Members(B))
                   /\ Range(B[blocked]) = Range(A[blocked]) \ {node(son)}
                   /\ Tasks(B[readyqueue]) = Append(Tasks(A[readyqueue]), son)
      BY <1>3, <2>5, <3>1, <3>2, MoveReady
    <3>4. Sound(links', B, current', parent')
      <4>1. Kept(B, current') = Kept(A, current)
        BY <1>6, <3>3 DEF Kept
      <4>2. OffQueue(links', B, current')
        <5>1. ASSUME NEW p \in {current, idle_task}, node(p) \notin Members(B)
              PROVE  ~ Linked(links', node(p))
          <6>1. ~ Linked(links, node(p))
            BY <1>3, <3>3, <5>1 DEF Outside
          <6>2. node(p) \in Node
            BY <1>4, SameNames, NodeFacts
          <6> QED BY <3>3, <5>1, <6>1, <6>2 DEF Within, SameLinks, Linked
        <5> QED BY <1>6, <5>1 DEF OffQueue
      <4>3. Sound(links', B, current', parent)
        BY <1>1, <3>3, <4>1, <4>2, QueueStep, Zenon
      <4> QED BY <1>6, <4>3
    <3>5. /\ FreeTasks' = Tasks(B[freequeue]) /\ ReadyTasks' = Tasks(B[readyqueue])
          /\ BlockedTasks' = Waiting(B) /\ Families' = [p \in Task |-> Family(B, p)]
      <4>1. Reads(links', B)
        BY <3>4, Abstraction, Zenon
      <4> QED BY <4>1, ReadNext
    <3>6. FreeTasks' = FreeTasks
      BY <1>5, <3>3, <3>5 DEF SameRest
    <3>7. Families' = Families
      <4>1. \A p \in Task : Family(B, p) = Family(A, p)
        BY <3>3, SameFamilies
      <4> QED BY <1>5, <3>5, <4>1
    <3>8. BlockedTasks' = BlockedTasks \ {son}
      <4>1. \A p : node(p) = node(son) => p = son
        BY NodeFacts
      <4>2. Waiting(B) = Waiting(A) \ {son}
        BY <3>3, <4>1 DEF Waiting
      <4> QED BY <1>5, <3>5, <4>2
    <3>9. PP!sys_unblock(son)
      <4>1. ReadyTasks' = PP!list_add_tail(ReadyTasks, son)
        BY <1>5, <3>3, <3>5 DEF PP!list_add_tail
      <4> QED BY <1>2, <1>6, <2>6, <2>7, <3>1, <3>6, <3>7, <3>8, <4>1 DEF PP!sys_unblock
    <3>10. PP!ProcessInv' /\ PP!Live' = PP!Live
      BY <1>2, <2>5, <3>9, Assumptions, PP!UnblockInv, SameNames
    <3>11. Roots'
      BY <1>2, <1>6, <3>10, RootsKept
    <3> QED BY <2>5, <3>4, <3>9, <3>10, <3>11, SameProcess DEF LInv
  <2>8. CASE state[son] # "BLOCKED"
    <3>1. /\ pending_unblocks[son] < MAX_PENDING
          /\ pending_unblocks' = [pending_unblocks EXCEPT ![son] = @ + 1]
          /\ UNCHANGED <<state, links>>
      BY <1>8, <2>8 DEF sys_unblock, son, found
    <3>2. PP!sys_unblock(son)
      BY <1>2, <1>6, <2>6, <2>8, <3>1, SameLists DEF PP!sys_unblock
    <3>3. PP!ProcessInv' /\ PP!Live' = PP!Live
      BY <1>2, <2>5, <3>2, Assumptions, PP!UnblockInv, SameNames
    <3>4. LInv'
      BY <1>6, <3>1, <3>3, StutterStep
    <3> QED BY <2>5, <3>2, <3>4, SameProcess
  <2> QED BY <2>7, <2>8
<1> QED BY <1>7, <1>8

-----------------------------------------------------------------------------
(* The nodes that are in no list when PCBs change hands.                   *)

(* The links of a node in a list.                                          *)
LEMMA InList ==
  ASSUME NEW l, NEW A, Rep(l, A), NEW n \in Members(A)
  PROVE  /\ l.next[n] \in Members(A) /\ l.next[n] \in Node /\ l.prev[n] \in Node
         /\ l.next[l.prev[n]] = n /\ l.prev[l.next[n]] = n /\ Linked(l, n)
<1>1. PICK h \in DOMAIN A : n \in {h} \cup Range(A[h])
  BY DEF Members
<1>2. Ring(l, h, A[h])
  BY DEF Rep
<1>3. /\ l.next[n] \in {h} \cup Range(A[h]) /\ l.next[n] \in Node /\ l.prev[n] \in Node
      /\ l.next[l.prev[n]] = n /\ l.prev[l.next[n]] = n
  BY <1>1, <1>2, Neighbours
<1> QED BY <1>3, NodeFacts DEF Members, Linked

(* A PCB that a step leaves where it was.                                  *)
SamePlace(A, cur, B, cur2, X, p) ==
    /\ p \in Kept(B, cur2) <=> p \in Kept(A, cur)
    /\ bros(p) \in Members(B) <=> bros(p) \in Members(A)
    /\ sonlist(p) \in DOMAIN B <=> sonlist(p) \in DOMAIN A
    /\ bros(p) \in X => bros(p) \in Members(A)
    /\ sonlist(p) \in X => sonlist(p) \in DOMAIN A
    /\ node(p) \in Range(A[freequeue]) => node(p) \in Range(B[freequeue])

Undisturbed(A, cur, par, B, cur2, par2, X, S) ==
    \A p \in Task \ S : /\ SamePlace(A, cur, B, cur2, X, p)
                        /\ p \notin Kept(A, cur) => par2[p] = par[p]

Placed(m, B, cur, par, S) ==
    \A p \in S : IF p \in Kept(B, cur) THEN InUse(m, B, p) ELSE Lost(m, B, par, p)

(* A step that moves the PCBs of S and leaves the others where they were   *)
(* keeps the links sound.                                                  *)
LEMMA OutsideStep ==
  ASSUME NEW l, NEW A, NEW cur, NEW par, Sound(l, A, cur, par),
         NEW m, NEW B, NEW cur2, NEW par2, NEW X, NEW S,
         Rep(m, B), Collection(B), Within(l, m, X), OffQueue(m, B, cur2),
         Undisturbed(A, cur, par, B, cur2, par2, X, S), Placed(m, B, cur2, par2, S)
  PROVE  Sound(m, B, cur2, par2)
<1>0. Outside(l, A, cur, par)
  BY DEF Sound
<1>1. ASSUME NEW p \in Task, p \notin S, p \in Kept(B, cur2) PROVE InUse(m, B, p)
  <2>1. SamePlace(A, cur, B, cur2, X, p)
    BY <1>1 DEF Undisturbed
  <2>2. InUse(l, A, p)
    BY <1>0, <1>1, <2>1 DEF Outside, SamePlace
  <2>3. bros(p) \in Node /\ sonlist(p) \in Node
    BY NodeFacts
  <2>4. bros(p) \notin Members(B) => ~ Linked(m, bros(p))
    BY <2>1, <2>2, <2>3 DEF SamePlace, InUse, Within, SameLinks, Linked
  <2>5. sonlist(p) \notin DOMAIN B => ~ Linked(m, sonlist(p)) /\ node(p) \in Range(B[freequeue])
    BY <2>1, <2>2, <2>3 DEF SamePlace, InUse, Within, SameLinks, Linked
  <2> QED BY <2>4, <2>5 DEF InUse
<1>2. ASSUME NEW p \in Task, p \notin S, p \notin Kept(B, cur2) PROVE Lost(m, B, par2, p)
  <2>1. SamePlace(A, cur, B, cur2, X, p)
    BY <1>2 DEF Undisturbed
  <2>2. Lost(l, A, par, p) /\ par2[p] = par[p]
    BY <1>0, <1>2, <2>1 DEF Outside, SamePlace, Undisturbed
  <2>3. sonlist(p) \notin DOMAIN A /\ bros(p) \notin Members(A)
    BY <2>2 DEF Lost
  <2>4. /\ bros(p) \notin X /\ sonlist(p) \notin X
        /\ sonlist(p) \notin DOMAIN B /\ bros(p) \notin Members(B)
    BY <2>1, <2>3 DEF SamePlace
  <2> QED BY <2>2, <2>4, LostKept, Zenon
<1>3. Outside(m, B, cur2, par2)
  BY <1>1, <1>2 DEF Outside, OffQueue, Placed
<1> QED BY <1>3 DEF Sound

-----------------------------------------------------------------------------
(* fork.                                                                   *)

Own(c) == {node(c), bros(c), sonlist(c)}

(* The copy of a PCB changes the child's own fields only.                  *)
LEMMA CopyLinks ==
  ASSUME NEW l \in Links, NEW p \in Task, NEW c \in Task
  PROVE  LET m == copy_data(l, p, c)
         IN  /\ m \in Links
             /\ \A n \in Node : n \notin Own(c) => SameLinks(l, m, n)
             /\ m.next[node(c)] = l.next[node(p)]
             /\ m.next[bros(c)] = l.next[bros(p)] /\ m.prev[bros(c)] = l.prev[bros(p)]
             /\ m.next[sonlist(c)] = l.next[sonlist(p)]
             /\ m.prev[sonlist(c)] = l.prev[sonlist(p)]
<1> DEFINE copy(f) == [f EXCEPT ![node(c)] = f[node(p)],
                                ![bros(c)] = f[bros(p)],
                                ![sonlist(c)] = f[sonlist(p)]]
           m == copy_data(l, p, c)
<1>1. m = [next |-> copy(l.next), prev |-> copy(l.prev)]
  BY DEF copy_data
<1>2. l.next \in [Node -> Node \cup {NIL}] /\ l.prev \in [Node -> Node \cup {NIL}]
  BY DEF Links
<1>3. ASSUME NEW f \in [Node -> Node \cup {NIL}]
      PROVE  /\ copy(f) \in [Node -> Node \cup {NIL}]
             /\ \A n \in Node : n \notin Own(c) => copy(f)[n] = f[n]
             /\ copy(f)[node(c)] = f[node(p)] /\ copy(f)[bros(c)] = f[bros(p)]
             /\ copy(f)[sonlist(c)] = f[sonlist(p)]
  <2>1. /\ node(c) \in Node /\ bros(c) \in Node /\ sonlist(c) \in Node
        /\ node(p) \in Node /\ bros(p) \in Node /\ sonlist(p) \in Node
        /\ node(c) # bros(c) /\ node(c) # sonlist(c) /\ bros(c) # sonlist(c)
    BY NodeFacts
  <2>2. \A n \in Node : n \notin Own(c) => n # node(c) /\ n # bros(c) /\ n # sonlist(c)
    BY DEF Own
  <2>3. f[node(p)] \in Node \cup {NIL} /\ f[bros(p)] \in Node \cup {NIL} /\ f[sonlist(p)] \in Node \cup {NIL}
    BY <2>1
  <2> QED BY <2>1, <2>2, <2>3
<1> HIDE DEF copy, m
<1>4. m.next = copy(l.next) /\ m.prev = copy(l.prev)
  BY <1>1
<1>5. m \in Links
  BY <1>1, <1>2, <1>3 DEF Links
<1>6. \A n \in Node : n \notin Own(c) => SameLinks(l, m, n)
  BY <1>2, <1>3, <1>4 DEF SameLinks
<1>7. /\ m.next[node(c)] = l.next[node(p)]
      /\ m.next[bros(c)] = l.next[bros(p)] /\ m.prev[bros(c)] = l.prev[bros(p)]
      /\ m.next[sonlist(c)] = l.next[sonlist(p)]
      /\ m.prev[sonlist(c)] = l.prev[sonlist(p)]
  BY <1>2, <1>3, <1>4
<1> QED BY <1>5, <1>6, <1>7 DEF m

(* The first PCB of the free queue is taken and overwritten.               *)
Taken(l, A, c, cur, m, C) ==
    /\ Rep(m, C) /\ DOMAIN C = DOMAIN A \ {sonlist(c)}
    /\ \A h \in DOMAIN C : h # freequeue => C[h] = A[h]
    /\ Tasks(C[freequeue]) = Tail(Tasks(A[freequeue]))
    /\ Range(C[freequeue]) = Range(A[freequeue]) \ {node(c)}
    /\ Members(C) = Members(A) \ {node(c), sonlist(c)}
    /\ node(c) \in Members(A)
    /\ Within(l, m, Members(A) \cup {bros(c), sonlist(c)})
    /\ m.next[bros(c)] = m.next[bros(cur)] /\ m.prev[bros(c)] = m.prev[bros(cur)]
    /\ m.next[sonlist(c)] = m.next[sonlist(cur)] /\ m.prev[sonlist(c)] = m.prev[sonlist(cur)]

(* fork takes a PCB from the free queue and copies the caller's over it.   *)
LEMMA TakeFree ==
  ASSUME NEW l, NEW A, Rep(l, A), Collection(A), NEW c \in Task, A[freequeue] # <<>>,
         A[freequeue][1] = node(c), NEW cur \in Task, cur # c, bros(c) \notin Members(A),
         sonlist(c) \in DOMAIN A => Range(A[sonlist(c)]) = {},
         \A n \in {node(cur), bros(cur), sonlist(cur)} : n \in Members(A) \/ ~ Linked(l, n)
  PROVE  \E C : Taken(l, A, c, cur, copy_data(list_del(l, node(c)), cur, c), C)
<1> DEFINE k == list_del(l, node(c))
           m == copy_data(k, cur, c)
           h == freequeue
<1>1. /\ h \in DOMAIN A /\ A[h] \in Seq(Node) /\ h \in Heads
      /\ Range(A[h]) \subseteq {node(p) : p \in Task} /\ 1 \in 1 .. Len(A[h])
      /\ Tasks(Without(A[h], 1)) = Tail(Tasks(A[h]))
  <2>1. h \in Heads /\ Range(A[h]) \subseteq {node(p) : p \in Task}
    BY DEF Heads, Collection
  <2>2. h \in DOMAIN A /\ A[h] \in Seq(Node)
    BY CollectionFacts
  <2> QED BY <2>1, <2>2, TasksTail
<1>2. PICK D : Removed(l, A, h, 1, list_del(l, A[h][1]), D)
  <2> HIDE DEF h
  <2> QED BY <1>1, RemoveNode, Zenon
<1>3. /\ Rep(k, D) /\ DOMAIN D = DOMAIN A /\ D[h] = Without(A[h], 1)
      /\ \A i \in DOMAIN A : i # h => D[i] = A[i]
      /\ Members(D) = Members(A) \ {node(c)} /\ node(c) \in Members(A)
      /\ ~ Linked(k, node(c)) /\ Within(l, k, Members(A))
      /\ Range(D[h]) = Range(A[h]) \ {node(c)}
  <2>1. Removed(l, A, h, 1, k, D) /\ A[h][1] = node(c)
    BY <1>2
  <2> HIDE DEF k, h
  <2> QED BY <2>1 DEF Removed
<1> HIDE DEF k
<1>4. k \in Links
  BY <1>3 DEF Rep
<1>5. /\ m \in Links
      /\ \A n \in Node : n \notin Own(c) => SameLinks(k, m, n)
      /\ m.next[node(c)] = k.next[node(cur)]
      /\ m.next[bros(c)] = k.next[bros(cur)] /\ m.prev[bros(c)] = k.prev[bros(cur)]
      /\ m.next[sonlist(c)] = k.next[sonlist(cur)]
      /\ m.prev[sonlist(c)] = k.prev[sonlist(cur)]
  BY <1>4, CopyLinks
<1> HIDE DEF m
<1>6. /\ bros(cur) \in Node /\ bros(cur) \notin Own(c) /\ sonlist(cur) \in Node
      /\ sonlist(cur) \notin Own(c) /\ node(cur) \in Node /\ node(cur) \notin Own(c)
      /\ sonlist(c) # h /\ sonlist(c) # node(c) /\ sonlist(c) \in Node /\ node(c) \in Node
      /\ bros(c) # node(c) /\ bros(c) \in Node /\ bros(c) # sonlist(c)
  BY <1>1, NodeFacts DEF Own
<1>7. /\ m.next[bros(c)] = m.next[bros(cur)] /\ m.prev[bros(c)] = m.prev[bros(cur)]
      /\ m.next[sonlist(c)] = m.next[sonlist(cur)] /\ m.prev[sonlist(c)] = m.prev[sonlist(cur)]
  BY <1>5, <1>6 DEF SameLinks
<1> DEFINE S == DOMAIN A \ {sonlist(c)}
           C == [i \in S |-> D[i]]
<1>8. Rep(k, C) /\ Members(C) \subseteq Members(D)
  <2>1. S \in SUBSET DOMAIN D
    BY <1>3
  <2> HIDE DEF S
  <2> QED BY <1>3, <2>1, RepSome
<1>9. Members(C) = Members(A) \ {node(c), sonlist(c)}
  <2>1. sonlist(c) \notin Members(C)
    <3>1. sonlist(c) \notin S
      OBVIOUS
    <3>2. ASSUME NEW i \in S, sonlist(c) \in Range(C[i]) PROVE FALSE
      <4>1. sonlist(c) \in Range(A[i])
        BY <1>3, <3>2
      <4>2. i \in DOMAIN A
        OBVIOUS
      <4>3. sonlist(c) \in Members(A)
        BY <4>1, <4>2 DEF Members
      <4>4. sonlist(c) \in DOMAIN A
        BY <4>3, CollectionFacts
      <4> QED BY <4>1, <4>2, <4>4 DEF Rep, Apart
    <3>3. DOMAIN C = S
      OBVIOUS
    <3> HIDE DEF C, S
    <3> QED BY <3>1, <3>2, <3>3 DEF Members
  <2>2. ASSUME NEW n \in Members(D), n # sonlist(c) PROVE n \in Members(C)
    <3>1. PICK i \in DOMAIN D : n = i \/ n \in Range(D[i])
      BY DEF Members
    <3>2. i # sonlist(c)
      BY <1>3, <1>6, <2>2, <3>1
    <3>3. i \in S /\ C[i] = D[i] /\ DOMAIN C = S
      BY <1>3, <3>1, <3>2
    <3> HIDE DEF C, S
    <3> QED BY <3>1, <3>3 DEF Members
  <2> HIDE DEF C
  <2> QED BY <1>3, <1>8, <2>1, <2>2
<1>10. /\ DOMAIN C = DOMAIN A \ {sonlist(c)} /\ h \in DOMAIN C
       /\ \A i \in DOMAIN C : i # h => C[i] = A[i]
       /\ C[h] = D[h]
  BY <1>1, <1>3, <1>6
<1> HIDE DEF C, S
<1>11. Rep(m, C)
  <2>1. \A n \in Members(C) : SameLinks(k, m, n)
    <3>1. Members(C) \subseteq Node
      BY <1>8, MembersAreNodes
    <3> QED BY <1>5, <1>9, <3>1 DEF Own
  <2> QED BY <1>5, <1>8, <2>1, RepFrame
<1>12. Within(l, m, Members(A) \cup {bros(c), sonlist(c)})
  <2> DEFINE X == Members(A) \cup {bros(c), sonlist(c)}
  <2>1. ASSUME NEW n \in {node(cur), bros(cur), sonlist(cur)} PROVE k.next[n] \in X \cup {NIL}
    <3>1. n \in Node /\ n # node(c)
      BY <1>6 DEF Own
    <3>2. CASE n \in Members(A)
      <4>1. n \in Members(D)
        BY <1>3, <3>1, <3>2
      <4>2. k.next[n] \in Members(D)
        BY <1>3, <4>1, InList
      <4> QED BY <1>3, <4>2
    <3>3. CASE n \notin Members(A)
      <4>1. l.next[n] = NIL
        BY <3>3 DEF Linked
      <4> QED BY <1>3, <3>1, <3>3, <4>1 DEF Within, SameLinks
    <3> QED BY <3>2, <3>3
  <2>2. ASSUME NEW n \in Node, n \notin X PROVE SameLinks(l, m, n)
    <3>1. n \notin Own(c) /\ n \notin Members(A)
      BY <1>3, <2>2 DEF Own
    <3> QED BY <1>3, <1>5, <3>1 DEF Within, SameLinks
  <2>3. ASSUME NEW n \in Node PROVE m.next[n] = l.next[n] \/ m.next[n] \in X \cup {NIL}
    <3>1. CASE n \in Own(c)
      BY <1>5, <2>1, <3>1 DEF Own
    <3>2. CASE n \notin Own(c)
      <4>1. m.next[n] = k.next[n]
        BY <1>5, <3>2 DEF SameLinks
      <4>2. k.next[n] = l.next[n] \/ k.next[n] \in Members(A) \cup {NIL}
        BY <1>3 DEF Within
      <4> QED BY <4>1, <4>2
    <3> QED BY <3>1, <3>2
  <2> HIDE DEF X
  <2>4. Within(l, m, X)
    BY <2>2, <2>3 DEF Within
  <2> QED BY <2>4 DEF X
<1>13. Taken(l, A, c, cur, m, C)
  BY <1>1, <1>3, <1>7, <1>9, <1>10, <1>11, <1>12 DEF Taken
<1> QED BY <1>13 DEF m, k

(* The new process joins the ready queue and the sons of its parent.       *)
Forked(l, A, c, cur, m, B) ==
    /\ Rep(m, B) /\ DOMAIN B = DOMAIN A \cup {sonlist(c)}
    /\ Tasks(B[freequeue]) = Tail(Tasks(A[freequeue]))
    /\ Range(B[freequeue]) = Range(A[freequeue]) \ {node(c)}
    /\ B[readyqueue] = Append(A[readyqueue], node(c)) /\ B[blocked] = A[blocked]
    /\ B[sonlist(c)] = <<>> /\ B[sonlist(cur)] = Append(A[sonlist(cur)], bros(c))
    /\ \A h \in DOMAIN A \ Heads : h \notin {sonlist(c), sonlist(cur)} => B[h] = A[h]
    /\ Members(B) = Members(A) \cup {sonlist(c), bros(c)}
    /\ Within(l, m, Members(B))

(* The list calls of a successful fork.                                    *)
LEMMA ForkLists ==
  ASSUME NEW l, NEW A, Rep(l, A), Collection(A), NEW c \in Task, NEW cur \in Task, cur # c,
         bros(c) \notin Members(A), sonlist(cur) \in DOMAIN A,
         NEW k, NEW C, Taken(l, A, c, cur, k, C)
  PROVE  \E B : Forked(l, A, c, cur,
                       list_add_tail(NewSonsHead(list_add_tail(k, node(c), readyqueue), c),
                                     bros(c), sonlist(cur)), B)
<1> DEFINE i == list_add_tail(k, node(c), readyqueue)
           j == INIT_LIST_HEAD(i, sonlist(c))
           m == list_add_tail(j, bros(c), sonlist(cur))
<1>1. /\ Rep(k, C) /\ DOMAIN C = DOMAIN A \ {sonlist(c)}
      /\ \A h \in DOMAIN C : h # freequeue => C[h] = A[h]
      /\ Tasks(C[freequeue]) = Tail(Tasks(A[freequeue]))
      /\ Range(C[freequeue]) = Range(A[freequeue]) \ {node(c)}
      /\ Members(C) = Members(A) \ {node(c), sonlist(c)}
      /\ node(c) \in Members(A)
      /\ Within(l, k, Members(A) \cup {bros(c), sonlist(c)})
  BY DEF Taken
<1>2. /\ freequeue \in DOMAIN C /\ readyqueue \in DOMAIN C /\ blocked \in DOMAIN C
      /\ freequeue # readyqueue /\ readyqueue # blocked /\ freequeue # blocked
      /\ sonlist(cur) # sonlist(c) /\ sonlist(cur) \in DOMAIN C /\ sonlist(cur) \notin Heads
      /\ sonlist(c) \notin Heads /\ \A x \in Heads : x \in DOMAIN C
      /\ node(c) \in Node /\ bros(c) \in Node /\ sonlist(c) \in Node
      /\ node(c) # bros(c) /\ node(c) # sonlist(c) /\ bros(c) # sonlist(c)
  <2>1. Heads \subseteq DOMAIN A
    BY DEF Collection
  <2>2. freequeue \in Heads /\ readyqueue \in Heads /\ blocked \in Heads
    BY DEF Heads
  <2>3. sonlist(cur) # sonlist(c) /\ sonlist(cur) \notin Heads /\ sonlist(c) \notin Heads
    BY NodeFacts
  <2> QED BY <1>1, <2>1, <2>2, <2>3, NodeFacts
<1>3. PICK D : Added(k, C, readyqueue, node(c), i, D)
  <2>1. node(c) \notin Members(C)
    BY <1>1
  <2> QED BY <1>1, <1>2, <2>1, AddTail, Zenon
<1>4. /\ Rep(i, D) /\ DOMAIN D = DOMAIN C /\ D[readyqueue] = Append(C[readyqueue], node(c))
      /\ \A h \in DOMAIN C : h # readyqueue => D[h] = C[h]
      /\ Members(D) = Members(C) \cup {node(c)} /\ Within(k, i, Members(D))
  BY <1>3 DEF Added
<1> HIDE DEF i
<1>5. PICK E : NewHead(i, D, sonlist(c), j, E)
  <2>1. sonlist(c) \notin Members(D)
    BY <1>1, <1>2, <1>4
  <2> QED BY <1>2, <1>4, <2>1, MakeHead, Zenon
<1>6. /\ Rep(j, E) /\ DOMAIN E = DOMAIN D \cup {sonlist(c)} /\ E[sonlist(c)] = <<>>
      /\ \A h \in DOMAIN D : h # sonlist(c) => E[h] = D[h]
      /\ Members(E) = Members(D) \cup {sonlist(c)} /\ Within(i, j, {sonlist(c)})
  BY <1>5 DEF NewHead
<1> HIDE DEF j
<1>7. PICK B : Added(j, E, sonlist(cur), bros(c), m, B)
  <2>1. bros(c) \notin Members(E) /\ sonlist(cur) \in DOMAIN E
    BY <1>1, <1>2, <1>4, <1>6
  <2> QED BY <1>2, <1>6, <2>1, AddTail, Zenon
<1>8. /\ Rep(m, B) /\ DOMAIN B = DOMAIN E /\ B[sonlist(cur)] = Append(E[sonlist(cur)], bros(c))
      /\ \A h \in DOMAIN E : h # sonlist(cur) => B[h] = E[h]
      /\ Members(B) = Members(E) \cup {bros(c)} /\ Within(j, m, Members(B))
  BY <1>7 DEF Added
<1> HIDE DEF m
<1>9. Members(B) = Members(A) \cup {sonlist(c), bros(c)}
  BY <1>1, <1>4, <1>6, <1>8
<1>10. DOMAIN B = DOMAIN A \cup {sonlist(c)}
  BY <1>1, <1>4, <1>6, <1>8
<1>11. /\ B[freequeue] = C[freequeue] /\ B[readyqueue] = Append(A[readyqueue], node(c))
       /\ B[blocked] = A[blocked] /\ B[sonlist(c)] = <<>>
       /\ B[sonlist(cur)] = Append(A[sonlist(cur)], bros(c))
  <2>1. /\ freequeue # sonlist(cur) /\ freequeue # sonlist(c) /\ readyqueue # sonlist(cur)
        /\ readyqueue # sonlist(c) /\ blocked # sonlist(cur) /\ blocked # sonlist(c)
    BY <1>2 DEF Heads
  <2> QED BY <1>1, <1>2, <1>4, <1>6, <1>8, <2>1
<1>12. ASSUME NEW h \in DOMAIN A \ Heads, h \notin {sonlist(c), sonlist(cur)} PROVE B[h] = A[h]
  <2>1. h # freequeue /\ h # readyqueue
    BY <1>12 DEF Heads
  <2> QED BY <1>1, <1>4, <1>6, <1>8, <1>12, <2>1
<1>13. Within(l, m, Members(B))
  <2>1. Within(l, i, Members(B))
    <3>1. Within(l, i, (Members(A) \cup {bros(c), sonlist(c)}) \cup Members(D))
      BY <1>1, <1>4, WithinTrans
    <3>2. (Members(A) \cup {bros(c), sonlist(c)}) \cup Members(D) = Members(B)
      BY <1>1, <1>4, <1>9
    <3> QED BY <3>1, <3>2
  <2>2. Within(l, j, Members(B))
    <3>1. Within(l, j, Members(B) \cup {sonlist(c)})
      BY <1>6, <2>1, WithinTrans
    <3>2. Members(B) \cup {sonlist(c)} = Members(B)
      BY <1>9
    <3> QED BY <3>1, <3>2
  <2>3. Within(l, m, Members(B) \cup Members(B))
    BY <1>8, <2>2, WithinTrans
  <2> QED BY <2>3, WithinMore
<1>14. Forked(l, A, c, cur, m, B)
  BY <1>1, <1>8, <1>9, <1>10, <1>11, <1>12, <1>13 DEF Forked
<1> QED BY <1>14 DEF m, j, i, NewSonsHead

(* The first free PCB: it is nobody's, and no process is its son.          *)
FirstFree(A, c) ==
    /\ A[freequeue] # <<>> /\ A[freequeue][1] = node(c) /\ c = Head(FreeTasks)
    /\ c = list_head_to_task_struct(list_first(links, freequeue))
    /\ list_first(links, freequeue) = node(c)
    /\ c \in Task /\ c \notin LiveIn(A, current) /\ c # current /\ c # idle_task
    /\ node(c) \in Range(A[freequeue]) /\ c \in Kept(A, current)
    /\ bros(c) \notin Members(A) /\ Family(A, c) = {}
    /\ sonlist(c) \in DOMAIN A => Range(A[sonlist(c)]) = {}
    /\ FreeTasks # <<>>

(* The first PCB of the free queue is not in use.                          *)
LEMMA Free ==
  ASSUME PP!ProcessInv, NEW A, Sound(links, A, current, parent),
         ~ list_empty(links, freequeue)
  PROVE  \E c : FirstFree(A, c)
<1>0. Rep(links, A) /\ Collection(A)
  BY DEF Sound
<1>1. /\ freequeue \in DOMAIN A /\ A[freequeue] \in Seq(Node)
      /\ Ring(links, freequeue, A[freequeue]) /\ freequeue \in Heads
      /\ Range(A[freequeue]) \subseteq {node(p) : p \in Task}
  <2>1. freequeue \in Heads
    BY DEF Heads
  <2>2. Range(A[freequeue]) \subseteq {node(p) : p \in Task}
    BY <1>0, <2>1 DEF Collection
  <2> QED BY <1>0, <2>1, <2>2, CollectionFacts
<1>2. A[freequeue] # <<>> /\ list_first(links, freequeue) = A[freequeue][1]
  BY <1>1, RingFirst
<1> DEFINE c == A[freequeue][1][2]
<1>3. c \in Task /\ A[freequeue][1] = node(c) /\ c = Head(Tasks(A[freequeue]))
      /\ 1 \in 1 .. Len(A[freequeue])
  BY <1>1, <1>2, TasksTail
<1>4. FreeTasks = Tasks(A[freequeue])
  BY Abstraction, ReadState
<1>5. FreeTasks # <<>>
  BY <1>1, <1>2, <1>4, TasksFacts
<1>6. c = list_head_to_task_struct(list_first(links, freequeue))
  BY <1>2 DEF list_head_to_task_struct
<1> HIDE DEF c
<1>7. node(c) \in Range(A[freequeue])
  <2>1. DOMAIN A[freequeue] = 1 .. Len(A[freequeue])
    BY <1>1, LenProperties
  <2> QED BY <1>3, <2>1 DEF Range
<1>8. /\ c \notin LiveIn(A, current) /\ c \in Kept(A, current) /\ bros(c) \notin Members(A)
      /\ \A p \in Task : p \in Family(A, c) <=> p \in LiveIn(A, current) /\ parent[p] = c
      /\ PP!Live = LiveIn(A, current) /\ parent \in [Task -> Task \cup {-1}]
      /\ LiveIn(A, current) \subseteq Task
  BY <1>3, <1>7, Facts
<1>9. c # current /\ c # idle_task
  BY <1>8 DEF LiveIn
<1>10. Family(A, c) = {}
  <2>1. \A p \in PP!Live : parent[p] \in PP!Live \cup {-1}
    BY SameNames DEF PP!ProcessInv, PP!FamilyTree
  <2>2. \A p \in LiveIn(A, current) : parent[p] # c
    BY <1>3, <1>8, <2>1, SameNames
  <2> QED BY <1>8, <2>2 DEF Family
<1>11. ASSUME sonlist(c) \in DOMAIN A PROVE Range(A[sonlist(c)]) = {}
  <2>1. sonlist(c) \notin Heads
    BY NodeFacts
  <2>2. Range(A[sonlist(c)]) \subseteq {bros(p) : p \in Task}
    BY <1>0, <1>11, <2>1 DEF Collection
  <2> QED BY <1>10, <1>11, <2>2 DEF Family
<1>12. FirstFree(A, c)
  BY <1>2, <1>3, <1>4, <1>5, <1>6, <1>7, <1>8, <1>9, <1>10, <1>11 DEF FirstFree
<1> QED BY <1>12

(* The state of the lists before a fork.                                   *)
LEMMA BeforeFork ==
  ASSUME PP!ProcessInv, NEW A, Sound(links, A, current, parent), current # idle_task,
         NEW c, FirstFree(A, c)
  PROVE  \E C : Taken(links, A, c, current,
                      copy_data(list_del(links, node(c)), current, c), C)
<1>0. Rep(links, A) /\ Collection(A) /\ Outside(links, A, current, parent)
  BY DEF Sound
<1>1. /\ current \in Task
      /\ \A p \in LiveIn(A, current) : node(p) \notin Range(A[freequeue])
  BY Facts
<1>2. current \in Kept(A, current) /\ current \in LiveIn(A, current)
  BY DEF Kept, LiveIn
<1>3. InUse(links, A, current)
  BY <1>0, <1>1, <1>2 DEF Outside
<1>4. sonlist(current) \in DOMAIN A
  BY <1>1, <1>2, <1>3 DEF InUse
<1>5. \A n \in {node(current), bros(current), sonlist(current)} :
          n \in Members(A) \/ ~ Linked(links, n)
  BY <1>0, <1>3, <1>4 DEF Outside, InUse, Members
<1> QED BY <1>0, <1>1, <1>5, TakeFree DEF FirstFree

(* A fork without memory loses a PCB, and the lists stay sound.            *)
LEMMA ForkFails ==
  ASSUME PP!ProcessInv, NEW A, Sound(links, A, current, parent), current # idle_task,
         NEW c, FirstFree(A, c), NEW C, NEW m, Taken(links, A, c, current, m, C),
         NEW par, par = [parent EXCEPT ![c] = parent[current]]
  PROVE  /\ Sound(m, C, current, par)
         /\ \A p \in Task : Family(C, p) = Family(A, p)
<1>0. Rep(links, A) /\ Collection(A) /\ Outside(links, A, current, parent)
  BY DEF Sound
<1>1. /\ current \in Task /\ parent \in [Task -> Task \cup {-1}]
      /\ \A p \in LiveIn(A, current) : node(p) \notin Range(A[freequeue])
      /\ \A p \in Task : bros(p) \in Members(A)
                           <=> p \in LiveIn(A, current) /\ parent[p] # -1
  BY Facts
<1>2. /\ c \in Task /\ c # current /\ c # idle_task /\ bros(c) \notin Members(A)
      /\ sonlist(c) \in DOMAIN A => Range(A[sonlist(c)]) = {}
      /\ Family(A, c) = {}
  BY DEF FirstFree
<1>3. /\ Rep(m, C) /\ DOMAIN C = DOMAIN A \ {sonlist(c)}
      /\ \A h \in DOMAIN C : h # freequeue => C[h] = A[h]
      /\ Range(C[freequeue]) = Range(A[freequeue]) \ {node(c)}
      /\ Members(C) = Members(A) \ {node(c), sonlist(c)}
      /\ Within(links, m, Members(A) \cup {bros(c), sonlist(c)})
      /\ m.next[bros(c)] = m.next[bros(current)] /\ m.prev[bros(c)] = m.prev[bros(current)]
      /\ m.next[sonlist(c)] = m.next[sonlist(current)]
      /\ m.prev[sonlist(c)] = m.prev[sonlist(current)]
  BY DEF Taken
<1> DEFINE X == Members(A) \cup {bros(c), sonlist(c)}
<1>4. Collection(C)
  <2>1. sonlist(c) \notin Heads
    BY NodeFacts
  <2> QED BY <1>0, <1>3, <2>1 DEF Collection
<1>5. sonlist(current) \in DOMAIN C /\ sonlist(current) \in Members(C)
  <2>1. current \in Kept(A, current) /\ current \in LiveIn(A, current)
    BY DEF Kept, LiveIn
  <2>2. sonlist(current) \in DOMAIN A
    BY <1>0, <1>1, <2>1 DEF Outside, InUse
  <2>3. sonlist(current) # sonlist(c)
    BY <1>2, NodeFacts
  <2> QED BY <1>3, <2>2, <2>3 DEF Members
<1>6. OffQueue(m, C, current)
  <2> SUFFICES ASSUME NEW p \in {current, idle_task}, node(p) \notin Members(C)
               PROVE  ~ Linked(m, node(p))
    BY DEF OffQueue
  <2>1. node(p) # node(c) /\ node(p) # sonlist(c) /\ node(p) # bros(c) /\ node(p) \in Node
    BY <1>1, <1>2, SameNames, NodeFacts
  <2>2. node(p) \notin Members(A)
    BY <1>3, <2>1
  <2>3. ~ Linked(links, node(p))
    BY <1>0, <2>2 DEF Outside
  <2>4. SameLinks(links, m, node(p))
    BY <1>3, <2>1, <2>2 DEF Within
  <2> QED BY <2>3, <2>4 DEF SameLinks, Linked
<1>7. ASSUME NEW p \in Task \ {c}
      PROVE  SamePlace(A, current, C, current, X, p) /\ par[p] = parent[p]
  <2>1. /\ node(p) # node(c) /\ node(p) # sonlist(c) /\ bros(p) # node(c) /\ bros(p) # sonlist(c)
        /\ bros(p) # bros(c) /\ sonlist(p) # sonlist(c) /\ sonlist(p) # bros(c)
    BY NodeFacts
  <2>2. p \in Kept(C, current) <=> p \in Kept(A, current)
    BY <1>3, <2>1 DEF Kept
  <2>3. sonlist(p) \in Members(A) => sonlist(p) \in DOMAIN A
    BY <1>0, CollectionFacts
  <2>4. par[p] = parent[p]
    BY <1>1
  <2> QED BY <1>3, <2>1, <2>2, <2>3, <2>4 DEF SamePlace
<1>8. c \notin Kept(C, current) /\ Lost(m, C, par, c)
  <2>1. c \notin Kept(C, current)
    BY <1>2, <1>3 DEF Kept
  <2>2. sonlist(c) \notin DOMAIN C /\ bros(c) \notin Members(C)
    BY <1>2, <1>3
  <2>3. ASSUME NEW n \in Members(C), NEW d, d # n, m.next[d] = m.next[n], m.prev[d] = m.prev[n]
        PROVE  Stray(m, d)
    <3>1. /\ m.next[n] \in Node /\ m.prev[n] \in Node /\ m.next[m.prev[n]] = n /\ Linked(m, n)
      BY <1>3, InList
    <3> QED BY <2>3, <3>1 DEF Stray, Linked
  <2>4. sonlist(c) # sonlist(current) /\ bros(c) # bros(current) /\ bros(current) # node(c)
        /\ bros(current) # sonlist(c)
    BY <1>2, NodeFacts
  <2>5. Stray(m, sonlist(c))
    BY <1>3, <1>5, <2>3, <2>4
  <2>6. ASSUME par[c] # -1 PROVE Stray(m, bros(c))
    <3>1. parent[current] # -1
      BY <1>1, <1>2, <2>6
    <3>2. bros(current) \in Members(A)
      <4>1. current \in LiveIn(A, current)
        BY DEF LiveIn
      <4> QED BY <1>1, <3>1, <4>1
    <3>3. bros(current) \in Members(C)
      BY <1>3, <2>4, <3>2
    <3> QED BY <1>3, <2>3, <2>4, <3>3
  <2> QED BY <2>1, <2>2, <2>5, <2>6 DEF Lost
<1>9. Sound(m, C, current, par)
  <2>1. Within(links, m, X)
    BY <1>3
  <2> HIDE DEF X
  <2>2. Placed(m, C, current, par, {c})
    BY <1>8 DEF Placed
  <2>3. Undisturbed(A, current, parent, C, current, par, X, {c})
    BY <1>7 DEF Undisturbed
  <2> QED BY <1>3, <1>4, <1>6, <2>1, <2>2, <2>3, OutsideStep, Zenon
<1>10. ASSUME NEW p \in Task PROVE Family(C, p) = Family(A, p)
  <2>1. sonlist(p) # freequeue
    BY NodeFacts DEF Heads
  <2>2. CASE p = c
    BY <1>2, <1>3, <2>2 DEF Family
  <2>3. CASE p # c
    <3>1. sonlist(p) # sonlist(c)
      BY <2>3, NodeFacts
    <3> QED BY <1>3, <2>1, <3>1 DEF Family
  <2> QED BY <2>2, <2>3
<1> QED BY <1>9, <1>10

HasSon(A, B, c, cur) ==
    [p \in Task |-> Family(B, p)]
      = [[p \in Task |-> Family(A, p)] EXCEPT ![c] = {}, ![cur] = @ \cup {c}]

(* A successful fork adds a ready son of the caller.                       *)
LEMMA ForkWorks ==
  ASSUME PP!ProcessInv, NEW A, Sound(links, A, current, parent), current # idle_task,
         NEW c, FirstFree(A, c), NEW B, NEW m, Forked(links, A, c, current, m, B),
         NEW par, par = [parent EXCEPT ![c] = current]
  PROVE  /\ Sound(m, B, current, par)
         /\ HasSon(A, B, c, current)
         /\ Tasks(B[readyqueue]) = Append(Tasks(A[readyqueue]), c)
<1>0. Rep(links, A) /\ Collection(A) /\ Outside(links, A, current, parent)
  BY DEF Sound
<1>1. /\ current \in Task /\ parent \in [Task -> Task \cup {-1}]
      /\ \A p \in LiveIn(A, current) : node(p) \notin Range(A[freequeue])
  BY Facts
<1>2. /\ c \in Task /\ c # current /\ c # idle_task /\ bros(c) \notin Members(A)
      /\ c \in Kept(A, current) /\ node(c) \in Range(A[freequeue])
  BY DEF FirstFree
<1>3. /\ Rep(m, B) /\ DOMAIN B = DOMAIN A \cup {sonlist(c)}
      /\ Range(B[freequeue]) = Range(A[freequeue]) \ {node(c)}
      /\ B[readyqueue] = Append(A[readyqueue], node(c)) /\ B[blocked] = A[blocked]
      /\ B[sonlist(c)] = <<>> /\ B[sonlist(current)] = Append(A[sonlist(current)], bros(c))
      /\ \A h \in DOMAIN A \ Heads : h \notin {sonlist(c), sonlist(current)} => B[h] = A[h]
      /\ Members(B) = Members(A) \cup {sonlist(c), bros(c)}
      /\ Within(links, m, Members(B))
  BY DEF Forked
<1>4. sonlist(current) \in DOMAIN A
  <2>1. current \in Kept(A, current) /\ current \in LiveIn(A, current)
    BY DEF Kept, LiveIn
  <2> QED BY <1>0, <1>1, <2>1 DEF Outside, InUse
<1>5. /\ A[readyqueue] \in Seq(Node) /\ A[sonlist(current)] \in Seq(Node)
      /\ freequeue \in DOMAIN A /\ readyqueue \in DOMAIN A /\ blocked \in DOMAIN A
      /\ \A p : sonlist(p) \in DOMAIN A => sonlist(p) \in DOMAIN A \ Heads /\ p \in Task
      /\ \A p : sonlist(p) \in Members(A) <=> sonlist(p) \in DOMAIN A
  BY <1>0, <1>4, CollectionFacts
<1>6. /\ Range(A[freequeue]) \subseteq {node(p) : p \in Task}
      /\ Range(A[readyqueue]) \subseteq {node(p) : p \in Task}
      /\ Range(A[blocked]) \subseteq {node(p) : p \in Task}
      /\ \A h \in DOMAIN A \ Heads : Range(A[h]) \subseteq {bros(p) : p \in Task}
  BY <1>0 DEF Collection, Heads
<1>7. /\ Range(B[readyqueue]) = Range(A[readyqueue]) \cup {node(c)}
      /\ Range(B[sonlist(current)]) = Range(A[sonlist(current)]) \cup {bros(c)}
      /\ Range(B[sonlist(c)]) = {}
  <2>1. node(c) \in Node /\ bros(c) \in Node
    BY <1>2, NodeFacts
  <2>2. Range(<<>>) = {}
    BY DEF Range
  <2> QED BY <1>3, <1>5, <2>1, <2>2, AppendRange
<1>8. Collection(B)
  <2>1. Heads \subseteq DOMAIN B
    BY <1>0, <1>3 DEF Collection
  <2>2. DOMAIN B \subseteq Heads \cup {sonlist(p) : p \in Task}
    BY <1>0, <1>2, <1>3 DEF Collection
  <2>3. \A h \in Heads : Range(B[h]) \subseteq {node(p) : p \in Task}
    <3>1. Range(B[freequeue]) \subseteq {node(p) : p \in Task}
      BY <1>3, <1>6
    <3>2. Range(B[readyqueue]) \subseteq {node(p) : p \in Task}
      BY <1>2, <1>6, <1>7
    <3>3. Range(B[blocked]) \subseteq {node(p) : p \in Task}
      BY <1>3, <1>6
    <3> QED BY <3>1, <3>2, <3>3 DEF Heads
  <2>4. ASSUME NEW h \in DOMAIN B \ Heads PROVE Range(B[h]) \subseteq {bros(p) : p \in Task}
    <3>1. CASE h = sonlist(c)
      BY <1>7, <3>1
    <3>2. CASE h = sonlist(current)
      <4>1. Range(A[h]) \subseteq {bros(p) : p \in Task}
        BY <1>4, <1>5, <1>6, <3>2
      <4> QED BY <1>2, <1>7, <3>2, <4>1
    <3>3. CASE h \notin {sonlist(c), sonlist(current)}
      <4>1. h \in DOMAIN A \ Heads
        BY <1>3, <3>3
      <4> QED BY <1>3, <1>6, <3>3, <4>1
    <3> QED BY <3>1, <3>2, <3>3
  <2> QED BY <2>1, <2>2, <2>3, <2>4 DEF Collection
<1>9. OffQueue(m, B, current)
  <2> SUFFICES ASSUME NEW p \in {current, idle_task}, node(p) \notin Members(B)
               PROVE  ~ Linked(m, node(p))
    BY DEF OffQueue
  <2>1. node(p) \in Node
    BY <1>1, SameNames, NodeFacts
  <2>2. ~ Linked(links, node(p))
    BY <1>0, <1>3 DEF Outside
  <2>3. SameLinks(links, m, node(p))
    BY <1>3, <2>1 DEF Within
  <2> QED BY <2>2, <2>3 DEF SameLinks, Linked
<1>10. ASSUME NEW p \in Task \ {c}
       PROVE  SamePlace(A, current, B, current, Members(B), p) /\ par[p] = parent[p]
  <2>1. /\ node(p) # node(c) /\ node(p) # sonlist(c) /\ bros(p) # sonlist(c)
        /\ node(p) # bros(c) /\ bros(p) # bros(c) /\ sonlist(p) # sonlist(c) /\ sonlist(p) # bros(c)
    BY NodeFacts
  <2>2. p \in Kept(B, current) <=> p \in Kept(A, current)
    BY <1>3, <2>1 DEF Kept
  <2>3. par[p] = parent[p]
    BY <1>1
  <2> QED BY <1>3, <1>5, <2>1, <2>2, <2>3 DEF SamePlace
<1>11. c \in Kept(B, current) /\ InUse(m, B, c)
  <2>1. c \in Kept(B, current)
    BY <1>2, <1>3 DEF Kept
  <2> QED BY <1>3, <2>1 DEF InUse
<1>12. Sound(m, B, current, par)
  <2>1. Placed(m, B, current, par, {c})
    BY <1>11 DEF Placed
  <2>2. Undisturbed(A, current, parent, B, current, par, Members(B), {c})
    BY <1>10 DEF Undisturbed
  <2> QED BY <1>3, <1>8, <1>9, <2>1, <2>2, OutsideStep, Zenon
<1>13. ASSUME NEW p \in Task
       PROVE  Family(B, p) = IF p = current THEN Family(A, current) \cup {c}
                             ELSE IF p = c THEN {} ELSE Family(A, p)
  <2>1. CASE p = current
    <3>1. \A q : bros(q) = bros(c) => q = c
      BY NodeFacts
    <3>2. sonlist(current) \in DOMAIN B
      BY <1>3, <1>4
    <3> QED BY <1>2, <1>4, <1>7, <2>1, <3>1, <3>2 DEF Family
  <2>2. CASE p = c
    BY <1>2, <1>7, <2>2 DEF Family
  <2>3. CASE p # current /\ p # c
    <3>1. sonlist(p) # sonlist(current) /\ sonlist(p) # sonlist(c) /\ sonlist(p) \notin Heads
      BY <2>3, NodeFacts
    <3> QED BY <1>3, <2>3, <3>1 DEF Family
  <2> QED BY <2>1, <2>2, <2>3
<1>14. HasSon(A, B, c, current)
  <2> DEFINE f == [p \in Task |-> Family(A, p)]
             g == [f EXCEPT ![c] = {}, ![current] = @ \cup {c}]
  <2>1. \A p \in Task : g[p] = IF p = current THEN Family(A, current) \cup {c}
                               ELSE IF p = c THEN {} ELSE Family(A, p)
    BY <1>1, <1>2
  <2>2. g = [p \in Task |-> g[p]]
    OBVIOUS
  <2> HIDE DEF g
  <2>3. g = [p \in Task |-> Family(B, p)]
    BY <1>13, <2>1, <2>2
  <2> QED BY <2>3 DEF g, HasSon
<1>15. Tasks(B[readyqueue]) = Append(Tasks(A[readyqueue]), c)
  BY <1>2, <1>3, <1>5, <1>6, TasksAppend
<1> QED BY <1>12, <1>14, <1>15

(* sys_fork.                                                               *)
LEMMA ForkStep ==
  ASSUME LInv, NEW mm \in BOOLEAN, sys_fork(mm)
  PROVE  LInv' /\ P!sys_fork(mm)
<1>1. PICK A : Sound(links, A, current, parent)
  BY DEF LInv
<1>2. PP!ProcessInv /\ Roots /\ PP!UserRuns /\ current # idle_task
  BY SameNames DEF LInv, sys_fork, UserRuns, PP!UserRuns, PP!Running
<1>3. Rep(links, A) /\ Collection(A) /\ Outside(links, A, current, parent)
  BY <1>1 DEF Sound
<1>4. next_pid <= MAX_PID /\ ~ list_empty(links, freequeue)
  BY DEF sys_fork
<1>5. PICK c : FirstFree(A, c)
  BY <1>1, <1>2, <1>4, Free
<1>6. /\ c = Head(FreeTasks) /\ c = list_head_to_task_struct(list_first(links, freequeue))
      /\ list_first(links, freequeue) = node(c) /\ c \in Task /\ c # current
      /\ bros(c) \notin Members(A) /\ FreeTasks # <<>> /\ c \notin LiveIn(A, current)
  BY <1>5 DEF FirstFree
<1>7. /\ FreeTasks = Tasks(A[freequeue]) /\ ReadyTasks = Tasks(A[readyqueue])
      /\ BlockedTasks = Waiting(A) /\ Families = [p \in Task |-> Family(A, p)]
  BY <1>1, Abstraction, ReadState
<1>8. /\ current \in Task /\ parent \in [Task -> Task \cup {-1}]
      /\ PP!Live = LiveIn(A, current) /\ LiveIn(A, current) \subseteq Task
      /\ PID \in [Task -> Int] /\ next_pid \in Nat
  <2>1. PID \in [Task -> Int] /\ next_pid \in Nat
    BY <1>2, SameNames DEF PP!ProcessInv, PP!TypeOK
  <2> QED BY <1>1, <1>2, <2>1, Facts
<1> DEFINE k == copy_data(list_del(links, node(c)), current, c)
<1>9. PICK C : Taken(links, A, c, current, k, C)
  BY <1>1, <1>2, <1>5, BeforeFork
<1>10. UNCHANGED <<current, ticks_since_last_switch, fault>>
  BY DEF sys_fork
<1>11. CASE mm = TRUE
  <2> DEFINE ready == NewSonsHead(list_add_tail(k, node(c), readyqueue), c)
             m == list_add_tail(ready, bros(c), sonlist(current))
  <2>1. /\ PID' = [PID EXCEPT ![c] = next_pid]
        /\ next_pid' = next_pid + 1
        /\ state' = [state EXCEPT ![c] = "READY"]
        /\ pending_unblocks' = [pending_unblocks EXCEPT ![c] = 0]
        /\ parent' = [parent EXCEPT ![c] = current]
        /\ links' = m
    BY <1>6, <1>11 DEF sys_fork
  <2> HIDE DEF k
  <2>2. sonlist(current) \in DOMAIN A
    <3>1. current \in Kept(A, current) /\ current \in LiveIn(A, current)
      BY DEF Kept, LiveIn
    <3>2. node(current) \notin Range(A[freequeue])
      BY <1>1, <1>2, <3>1, Facts
    <3> QED BY <1>3, <1>8, <3>1, <3>2 DEF Outside, InUse
  <2>3. PICK B : Forked(links, A, c, current, m, B)
    BY <1>3, <1>6, <1>8, <1>9, <2>2, ForkLists
  <2> HIDE DEF m
  <2>4. /\ Sound(m, B, current, parent')
        /\ HasSon(A, B, c, current)
        /\ Tasks(B[readyqueue]) = Append(Tasks(A[readyqueue]), c)
    BY <1>1, <1>2, <1>5, <2>1, <2>3, ForkWorks, Zenon
  <2>5. Sound(links', B, current', parent')
    BY <1>10, <2>1, <2>4
  <2>6. /\ FreeTasks' = Tasks(B[freequeue]) /\ ReadyTasks' = Tasks(B[readyqueue])
        /\ BlockedTasks' = Waiting(B) /\ Families' = [p \in Task |-> Family(B, p)]
    <3>1. Reads(links', B)
      BY <2>5, Abstraction, Zenon
    <3> QED BY <3>1, ReadNext
  <2>7. FreeTasks' = Tail(FreeTasks) /\ BlockedTasks' = BlockedTasks
    BY <1>7, <2>3, <2>6 DEF Forked, Waiting
  <2>8. ReadyTasks' = Append(ReadyTasks, c)
    BY <1>7, <2>4, <2>6
  <2>9. Families' = [Families EXCEPT ![c] = {}, ![current] = @ \cup {c}]
    BY <1>7, <2>4, <2>6 DEF HasSon
  <2>10. PP!sys_fork(mm)
    <3>1. /\ PID' = [PID EXCEPT ![Head(FreeTasks)] = PP!ChildPid]
          /\ next_pid' = next_pid + 1
          /\ state' = [state EXCEPT ![Head(FreeTasks)] = "READY"]
          /\ pending_unblocks' = [pending_unblocks EXCEPT ![Head(FreeTasks)] = 0]
          /\ ReadyTasks' = PP!list_add_tail(ReadyTasks, Head(FreeTasks))
          /\ parent' = [parent EXCEPT ![Head(FreeTasks)] = current]
          /\ Families' = [Families EXCEPT ![Head(FreeTasks)] = {},
                                          ![current] = @ \cup {Head(FreeTasks)}]
      BY <1>6, <2>1, <2>8, <2>9, Zenon DEF PP!ChildPid, PP!list_add_tail
    <3> QED BY <1>2, <1>4, <1>6, <1>10, <1>11, <2>7, <3>1, Zenon DEF PP!sys_fork
  <2>11. PP!ProcessInv' /\ PP!Live' = PP!Live \cup {c}
    BY <1>2, <1>6, <1>11, <2>10, Assumptions, PP!ForkInv
  <2>12. Roots'
    <3>1. next_pid >= 2 /\ \A p \in PP!Live : parent[p] = -1 <=> PID[p] \in {0, 1}
      BY <1>2 DEF Roots
    <3>2. next_pid' >= 2
      BY <1>8, <2>1, <3>1
    <3>3. ASSUME NEW p \in PP!Live' PROVE parent'[p] = -1 <=> PID'[p] \in {0, 1}
      <4>1. CASE p = c
        <5>1. parent'[p] = current /\ PID'[p] = next_pid
          BY <1>6, <1>8, <2>1, <4>1
        <5>2. current # -1
          BY <1>8, SameNames
        <5>3. next_pid \notin {0, 1}
          BY <1>8, <3>1
        <5> QED BY <5>1, <5>2, <5>3
      <4>2. CASE p # c
        <5>1. p \in PP!Live /\ p \in Task
          BY <1>8, <2>11, <3>3, <4>2
        <5>2. parent'[p] = parent[p] /\ PID'[p] = PID[p]
          BY <1>8, <2>1, <4>2, <5>1
        <5> QED BY <3>1, <5>1, <5>2
      <4> QED BY <4>1, <4>2
    <3> QED BY <3>2, <3>3 DEF Roots
  <2> QED BY <2>5, <2>10, <2>11, <2>12, SameProcess DEF LInv
<1>12. CASE mm = FALSE
  <2>1. /\ PID' = [PID EXCEPT ![c] = PID[current]]
        /\ state' = [state EXCEPT ![c] = state[current]]
        /\ pending_unblocks' = [pending_unblocks EXCEPT ![c] = pending_unblocks[current]]
        /\ parent' = [parent EXCEPT ![c] = parent[current]]
        /\ links' = k
        /\ next_pid' = next_pid
    BY <1>6, <1>12 DEF sys_fork
  <2> HIDE DEF k
  <2>2. /\ Sound(k, C, current, parent')
        /\ \A p \in Task : Family(C, p) = Family(A, p)
    BY <1>1, <1>2, <1>5, <1>9, <2>1, ForkFails
  <2>3. Sound(links', C, current', parent')
    BY <1>10, <2>1, <2>2
  <2>4. /\ FreeTasks' = Tasks(C[freequeue]) /\ ReadyTasks' = Tasks(C[readyqueue])
        /\ BlockedTasks' = Waiting(C) /\ Families' = [p \in Task |-> Family(C, p)]
    <3>1. Reads(links', C)
      BY <2>3, Abstraction, Zenon
    <3> QED BY <3>1, ReadNext
  <2>5. C[readyqueue] = A[readyqueue] /\ C[blocked] = A[blocked]
    <3>1. Collection(C)
      BY <2>2 DEF Sound
    <3>2. readyqueue \in DOMAIN C /\ blocked \in DOMAIN C
      BY <3>1 DEF Collection, Heads
    <3> QED BY <1>9, <3>2, NodeFacts DEF Taken
  <2>6. /\ FreeTasks' = Tail(FreeTasks) /\ BlockedTasks' = BlockedTasks
        /\ ReadyTasks' = ReadyTasks /\ Families' = Families
    <3>1. FreeTasks' = Tail(FreeTasks)
      BY <1>7, <1>9, <2>4 DEF Taken
    <3>2. BlockedTasks' = BlockedTasks /\ ReadyTasks' = ReadyTasks
      BY <1>7, <2>4, <2>5 DEF Waiting
    <3>3. Families' = Families
      BY <1>7, <2>2, <2>4
    <3> QED BY <3>1, <3>2, <3>3
  <2>7. PP!sys_fork(mm)
    BY <1>2, <1>4, <1>6, <1>10, <1>12, <2>1, <2>6 DEF PP!sys_fork
  <2>8. PP!ProcessInv' /\ PP!Live' = PP!Live
    BY <1>2, <1>12, <2>7, Assumptions, PP!ForkInv
  <2>9. Roots'
    <3>1. next_pid >= 2 /\ \A p \in PP!Live : parent[p] = -1 <=> PID[p] \in {0, 1}
      BY <1>2 DEF Roots
    <3>2. \A p \in PP!Live : parent'[p] = parent[p] /\ PID'[p] = PID[p]
      BY <1>6, <1>8, <2>1
    <3> QED BY <2>1, <2>8, <3>1, <3>2 DEF Roots
  <2> QED BY <2>3, <2>7, <2>8, <2>9, SameProcess DEF LInv
<1> QED BY <1>11, <1>12

-----------------------------------------------------------------------------
(* exit.                                                                   *)

(* The links show exactly the faults of exit that Process reports.         *)
LEMMA SameFault ==
  ASSUME PP!ProcessInv, NEW A, Sound(links, A, current, parent)
  PROVE  exit_fault = PP!exit_fault /\ victims = PP!victims
<1>0. Rep(links, A) /\ Collection(A) /\ Outside(links, A, current, parent)
  BY DEF Sound
<1>1. /\ current \in Task /\ parent \in [Task -> Task \cup {-1}]
      /\ LiveIn(A, current) \subseteq Task
      /\ Kept(A, current) = LiveIn(A, current)
             \cup {p \in Task : node(p) \in Range(A[freequeue])}
      /\ \A p \in LiveIn(A, current) : node(p) \notin Range(A[freequeue])
      /\ \A p, q \in Task : p \in Family(A, q) <=> p \in LiveIn(A, current) /\ parent[p] = q
      /\ \A p \in Task : bros(p) \in Members(A)
                           <=> p \in LiveIn(A, current) /\ parent[p] # -1
  BY Facts
<1>2. FreeTasks = Tasks(A[freequeue]) /\ Families = [p \in Task |-> Family(A, p)]
  BY Abstraction, ReadState
<1>3. \A p : p \in PP!Range(FreeTasks) <=> node(p) \in Range(A[freequeue])
  <2>1. freequeue \in Heads
    BY DEF Heads
  <2>2. Range(A[freequeue]) \subseteq {node(p) : p \in Task} /\ A[freequeue] \in Seq(Node)
    BY <1>0, <2>1, CollectionFacts DEF Collection
  <2> QED BY <1>2, <2>2, TasksMember, SameNames
<1>4. victims = PP!victims
  BY SameNames DEF victims, PP!victims
<1>5. ASSUME NEW p \in victims
      PROVE  /\ Linked(links, bros(p)) <=> p \notin PP!Range(FreeTasks)
             /\ p \notin PP!Range(FreeTasks) =>
                  (Copied(links, bros(p)) <=> p \notin Families[current])
  <2>1. p \in Task /\ parent[p] = current /\ parent[p] # -1
    BY <1>1, SameNames DEF victims
  <2>2. Families[current] = Family(A, current)
    BY <1>1, <1>2
  <2>3. CASE p \in LiveIn(A, current)
    <3>1. bros(p) \in Members(A)
      BY <1>1, <2>1, <2>3
    <3>2. Linked(links, bros(p)) /\ links.next[links.prev[bros(p)]] = bros(p)
      BY <1>0, <3>1, InList
    <3>3. p \notin PP!Range(FreeTasks) /\ p \in Family(A, current)
      BY <1>1, <1>3, <2>1, <2>3
    <3> QED BY <2>2, <3>2, <3>3 DEF Copied
  <2>4. CASE p \notin LiveIn(A, current) /\ node(p) \in Range(A[freequeue])
    <3>1. p \in Kept(A, current) /\ bros(p) \notin Members(A)
      BY <1>1, <2>1, <2>4
    <3>2. ~ Linked(links, bros(p))
      BY <1>0, <2>1, <3>1 DEF Outside, InUse
    <3> QED BY <1>3, <2>4, <3>2
  <2>5. CASE p \notin LiveIn(A, current) /\ node(p) \notin Range(A[freequeue])
    <3>1. p \notin Kept(A, current)
      BY <1>1, <2>1, <2>5
    <3>2. Lost(links, A, parent, p)
      BY <1>0, <2>1, <3>1 DEF Outside
    <3>3. Stray(links, bros(p))
      BY <2>1, <3>2 DEF Lost
    <3>4. p \notin Family(A, current)
      BY <1>1, <2>1, <2>5
    <3> QED BY <1>3, <2>2, <2>5, <3>3, <3>4 DEF Stray, Copied
  <2> QED BY <2>3, <2>4, <2>5
<1>6. Linked(links, node(current)) <=> current \in BlockedTasks
  BY RunningLinked
<1>7. (\E i \in victims : ~ Linked(links, bros(i)))
        <=> \E i \in PP!victims : i \in PP!Range(FreeTasks)
  BY <1>4, <1>5
<1>8. ASSUME ~ \E i \in PP!victims : i \in PP!Range(FreeTasks)
      PROVE  (\E i \in victims : Copied(links, bros(i))) <=> ~ PP!victims \subseteq Families[current]
  BY <1>4, <1>5, <1>8
<1>9. exit_fault = PP!exit_fault
  BY <1>6, <1>7, <1>8 DEF exit_fault, PP!exit_fault
<1> QED BY <1>4, <1>9

(* The calls to list.c on whatever links: the loop of exit computes links. *)
LEMMA DelType ==
  ASSUME NEW l \in Links, NEW e \in Node
  PROVE  list_del(l, e) \in Links
<1> DEFINE x == l.next[e]
           y == l.prev[e]
           a == [l EXCEPT !.prev[x] = y]
           b == [a EXCEPT !.next[y] = x]
           c == [b EXCEPT !.next[e] = NIL]
           m == [c EXCEPT !.prev[e] = NIL]
<1>1. list_del(l, e) = m
  BY DEF list_del
<1>2. x \in Node \cup {NIL} /\ y \in Node \cup {NIL}
  BY DEF Links
<1> HIDE DEF x, y
<1>3. a \in Links
  BY <1>2 DEF Links
<1> HIDE DEF a
<1>4. b \in Links
  BY <1>2, <1>3 DEF Links
<1> HIDE DEF b
<1>5. c \in Links
  BY <1>4 DEF Links
<1> HIDE DEF c
<1>6. m \in Links
  BY <1>5 DEF Links
<1> HIDE DEF m
<1> QED BY <1>1, <1>6

(* list_add_tail yields links.                                             *)
LEMMA AddTailType ==
  ASSUME NEW l \in Links, NEW n \in Node, NEW h \in Node
  PROVE  list_add_tail(l, n, h) \in Links
<1> DEFINE p == l.prev[h]
           a == [l EXCEPT !.prev[h] = n]
           b == [a EXCEPT !.next[n] = h]
           c == [b EXCEPT !.prev[n] = p]
           m == [c EXCEPT !.next[p] = n]
<1>1. list_add_tail(l, n, h) = m
  BY DEF list_add_tail, __list_add
<1>2. p \in Node \cup {NIL}
  BY DEF Links
<1> HIDE DEF p
<1>3. a \in Links
  BY DEF Links
<1> HIDE DEF a
<1>4. b \in Links
  BY <1>3 DEF Links
<1> HIDE DEF b
<1>5. c \in Links
  BY <1>2, <1>4 DEF Links
<1> HIDE DEF c
<1>6. m \in Links
  BY <1>5 DEF Links
<1> HIDE DEF m
<1> QED BY <1>1, <1>6

(* A son goes from the list of one PCB to that of another.                 *)
Adopted(l, A, p, from, to, m, B) ==
    /\ Rep(m, B) /\ Collection(B) /\ DOMAIN B = DOMAIN A /\ Members(B) = Members(A)
    /\ \A h \in Heads : B[h] = A[h]
    /\ Within(l, m, Members(A))
    /\ \A q \in Task : Family(B, q) = IF q = from THEN Family(A, q) \ {p}
                                      ELSE IF q = to THEN Family(A, q) \cup {p}
                                      ELSE Family(A, q)

(* A round of exit moves one son from the caller's list to that of idle.   *)
LEMMA Adopt ==
  ASSUME NEW l, NEW A, Rep(l, A), Collection(A), NEW p \in Task, NEW from \in Task, NEW to \in Task,
         from # to, sonlist(to) \in DOMAIN A, p \in Family(A, from)
  PROVE  \E B : Adopted(l, A, p, from, to,
                        list_add_tail(list_del(l, bros(p)), bros(p), sonlist(to)), B)
<1> DEFINE f == sonlist(from)
           g == sonlist(to)
           e == bros(p)
           k == list_del(l, e)
           m == list_add_tail(k, e, g)
<1>1. /\ f \in DOMAIN A /\ e \in Range(A[f]) /\ f # g /\ f \notin Heads /\ g \notin Heads
      /\ g \in DOMAIN A /\ A[f] \in Seq(Node) /\ A[g] \in Seq(Node)
      /\ e \in Members(A) /\ e \in Node /\ Heads \subseteq DOMAIN A
      /\ Range(A[f]) \subseteq {bros(q) : q \in Task} /\ Range(A[g]) \subseteq {bros(q) : q \in Task}
  <2>1. f \in DOMAIN A /\ e \in Range(A[f])
    BY DEF Family
  <2>2. f # g /\ f \notin Heads /\ g \notin Heads /\ e \in Node
    BY NodeFacts
  <2>3. /\ Range(A[f]) \subseteq {bros(q) : q \in Task} /\ Range(A[g]) \subseteq {bros(q) : q \in Task}
        /\ Heads \subseteq DOMAIN A
    BY <2>1, <2>2 DEF Collection
  <2> QED BY <2>1, <2>2, <2>3, CollectionFacts
<1>2. PICK j \in 1 .. Len(A[f]) : A[f][j] = e
  <2>1. DOMAIN A[f] = 1 .. Len(A[f])
    BY <1>1, LenProperties
  <2> QED BY <1>1, <2>1 DEF Range
<1> HIDE DEF f, g, e
<1>3. PICK C : Removed(l, A, f, j, list_del(l, A[f][j]), C)
  BY <1>1, RemoveNode, Zenon
<1>4. /\ Rep(k, C) /\ DOMAIN C = DOMAIN A
      /\ \A h \in DOMAIN A : h # f => C[h] = A[h]
      /\ Members(C) = Members(A) \ {e} /\ Within(l, k, Members(A))
      /\ Range(C[f]) = Range(A[f]) \ {e}
  <2>1. Removed(l, A, f, j, k, C)
    BY <1>2, <1>3
  <2> HIDE DEF k
  <2> QED BY <1>2, <2>1 DEF Removed
<1> HIDE DEF k
<1>5. PICK B : Added(k, C, g, e, m, B)
  <2>1. g \in DOMAIN C /\ e \notin Members(C)
    BY <1>1, <1>4
  <2> QED BY <1>1, <1>4, <2>1, AddTail, Zenon
<1>6. /\ Rep(m, B) /\ DOMAIN B = DOMAIN C /\ B[g] = Append(C[g], e)
      /\ \A h \in DOMAIN C : h # g => B[h] = C[h]
      /\ Members(B) = Members(C) \cup {e} /\ Within(k, m, Members(B))
  BY <1>5 DEF Added
<1> HIDE DEF m
<1>7. Members(B) = Members(A) /\ DOMAIN B = DOMAIN A
  BY <1>1, <1>4, <1>6
<1>8. Within(l, m, Members(A))
  <2>1. Within(l, m, Members(A) \cup Members(B))
    BY <1>4, <1>6, WithinTrans
  <2> QED BY <1>7, <2>1
<1>9. /\ Range(B[g]) = Range(A[g]) \cup {e} /\ Range(B[f]) = Range(A[f]) \ {e}
      /\ \A h \in DOMAIN A : h \notin {f, g} => B[h] = A[h]
  <2>1. B[g] = Append(A[g], e) /\ B[f] = C[f]
    BY <1>1, <1>4, <1>6
  <2> QED BY <1>1, <1>4, <1>6, <2>1, AppendRange
<1>10. Collection(B)
  <2>1. \A h \in Heads : B[h] = A[h]
    BY <1>1, <1>9
  <2>2. ASSUME NEW h \in DOMAIN B \ Heads PROVE Range(B[h]) \subseteq {bros(q) : q \in Task}
    <3>1. CASE h \in {f, g}
      BY <1>1, <1>9, <3>1 DEF e
    <3>2. CASE h \notin {f, g}
      BY <1>7, <1>9, <3>2 DEF Collection
    <3> QED BY <3>1, <3>2
  <2> QED BY <1>7, <2>1, <2>2 DEF Collection
<1>11. ASSUME NEW q \in Task
       PROVE  Family(B, q) = IF q = from THEN Family(A, q) \ {p}
                             ELSE IF q = to THEN Family(A, q) \cup {p}
                             ELSE Family(A, q)
  <2>1. \A r : bros(r) = e <=> r = p
    BY NodeFacts DEF e
  <2>2. (sonlist(q) = f <=> q = from) /\ (sonlist(q) = g <=> q = to)
    BY NodeFacts DEF f, g
  <2>3. CASE q = from
    BY <1>1, <1>7, <1>9, <2>1, <2>2, <2>3 DEF Family
  <2>4. CASE q = to
    BY <1>1, <1>7, <1>9, <2>1, <2>2, <2>4 DEF Family
  <2>5. CASE q # from /\ q # to
    BY <1>7, <1>9, <2>2, <2>5 DEF Family
  <2> QED BY <2>3, <2>4, <2>5
<1>12. \A h \in Heads : B[h] = A[h]
  BY <1>1, <1>9
<1>13. Adopted(l, A, p, from, to, m, B)
  BY <1>6, <1>7, <1>8, <1>10, <1>11, <1>12 DEF Adopted
<1> QED BY <1>13 DEF m, k, e, g

(* The caller of exit leaves its siblings; the first process has none.     *)
Departed(A, m, B) ==
    /\ Rep(m, B) /\ Collection(B) /\ DOMAIN B = DOMAIN A
    /\ Members(B) = Members(A) \ {bros(current)}
    /\ \A h \in Heads : B[h] = A[h]
    /\ Within(links, m, Members(A)) /\ ~ Linked(m, bros(current))
    /\ \A q \in Task : Family(B, q) = Family(A, q) \ {current}

(* exit takes the caller out of its parent's list, when it has a parent.   *)
LEMMA LeaveSiblings ==
  ASSUME PP!ProcessInv, Roots, NEW A, Sound(links, A, current, parent), current # idle_task
  PROVE  \E B : Departed(A, IF PID[current] # 1 THEN list_del(links, bros(current)) ELSE links, B)
<1>0. Rep(links, A) /\ Collection(A) /\ Outside(links, A, current, parent)
  BY DEF Sound
<1>1. /\ current \in Task /\ PP!Live = LiveIn(A, current) /\ PID[current] > 0
      /\ \A p, q \in Task : p \in Family(A, q) <=> p \in LiveIn(A, current) /\ parent[p] = q
      /\ \A p \in Task : bros(p) \in Members(A)
                           <=> p \in LiveIn(A, current) /\ parent[p] # -1
  BY Facts
<1>2. current \in LiveIn(A, current) /\ current \in Kept(A, current)
  BY DEF LiveIn, Kept
<1>3. PID[current] # 1 <=> bros(current) \in Members(A)
  <2>1. parent[current] = -1 <=> PID[current] \in {0, 1}
    BY <1>1, <1>2 DEF Roots
  <2>2. PID[current] # 0
    BY <1>1
  <2> QED BY <1>1, <1>2, <2>1, <2>2
<1>4. CASE PID[current] = 1
  <2>1. bros(current) \notin Members(A)
    BY <1>3, <1>4
  <2>2. ~ Linked(links, bros(current))
    BY <1>0, <1>1, <1>2, <2>1 DEF Outside, InUse
  <2>3. ASSUME NEW q \in Task PROVE Family(A, q) = Family(A, q) \ {current}
    <3>1. parent[current] \notin Task
      BY <1>1, <1>2, <1>4, SameNames DEF Roots
    <3> QED BY <1>1, <3>1
  <2>4. Within(links, links, Members(A))
    BY DEF Within, SameLinks
  <2>5. Departed(A, links, A)
    BY <1>0, <2>1, <2>2, <2>3, <2>4 DEF Departed
  <2> QED BY <1>4, <2>5
<1>5. CASE PID[current] # 1
  <2> DEFINE e == bros(current)
             m == list_del(links, e)
  <2>1. e \in Members(A)
    BY <1>3, <1>5
  <2>2. PICK r \in Task : sonlist(r) \in DOMAIN A /\ e \in Range(A[sonlist(r)])
    BY <1>0, <2>1, CollectionFacts
  <2> DEFINE f == sonlist(r)
  <2>3. /\ f \in DOMAIN A /\ f \notin Heads /\ A[f] \in Seq(Node) /\ Heads \subseteq DOMAIN A
        /\ Range(A[f]) \subseteq {bros(q) : q \in Task}
    <3>1. f \notin Heads
      BY NodeFacts
    <3> QED BY <1>0, <2>2, <3>1, CollectionFacts DEF Collection
  <2>4. PICK j \in 1 .. Len(A[f]) : A[f][j] = e
    <3>1. DOMAIN A[f] = 1 .. Len(A[f])
      BY <2>3, LenProperties
    <3> QED BY <2>2, <3>1 DEF Range
  <2>5. PICK B : Removed(links, A, f, j, list_del(links, A[f][j]), B)
    <3> HIDE DEF f
    <3> QED BY <1>0, <2>3, RemoveNode, Zenon
  <2> HIDE DEF f, e
  <2>6. /\ Rep(m, B) /\ DOMAIN B = DOMAIN A
        /\ \A h \in DOMAIN A : h # f => B[h] = A[h]
        /\ Members(B) = Members(A) \ {e} /\ Within(links, m, Members(A))
        /\ ~ Linked(m, e) /\ Range(B[f]) = Range(A[f]) \ {e}
    <3>1. Removed(links, A, f, j, m, B)
      BY <2>4, <2>5
    <3> HIDE DEF m
    <3> QED BY <2>4, <3>1 DEF Removed
  <2> HIDE DEF m
  <2>7. \A h \in Heads : B[h] = A[h]
    BY <2>3, <2>6
  <2>8. Collection(B)
    <3>1. ASSUME NEW h \in DOMAIN B \ Heads PROVE Range(B[h]) \subseteq {bros(q) : q \in Task}
      <4>1. CASE h = f
        BY <2>3, <2>6, <4>1
      <4>2. CASE h # f
        BY <1>0, <2>6, <4>2 DEF Collection
      <4> QED BY <4>1, <4>2
    <3> QED BY <1>0, <2>6, <2>7, <3>1 DEF Collection
  <2>9. ASSUME NEW q \in Task PROVE Family(B, q) = Family(A, q) \ {current}
    <3>1. \A p : bros(p) = e <=> p = current
      BY NodeFacts DEF e
    <3>2. CASE sonlist(q) = f
      BY <2>3, <2>6, <3>1, <3>2 DEF Family
    <3>3. CASE sonlist(q) # f
      <4>1. Family(B, q) = Family(A, q)
        BY <2>6, <3>3 DEF Family
      <4>2. sonlist(q) \in DOMAIN A => e \notin Range(A[sonlist(q)])
        BY <1>0, <2>2, <2>3, <3>3 DEF Rep, Apart, f
      <4> QED BY <3>1, <4>1, <4>2 DEF Family
    <3> QED BY <3>2, <3>3
  <2>10. Departed(A, m, B)
    BY <2>6, <2>7, <2>8, <2>9 DEF Departed, e
  <2> QED BY <1>5, <2>10 DEF m, e
<1> QED BY <1>4, <1>5

(* The loop over task[] after i rounds: the victims among the first i PCBs *)
(* are sons of idle.                                                       *)
FamilyAfter(A, i, q) ==
    IF q = current THEN {v \in Family(A, current) : v >= i}
    ELSE IF q = idle_task THEN Family(A, q) \cup {v \in Family(A, current) : v < i}
    ELSE Family(A, q)

AfterRounds(l, A, i, m, B) ==
    /\ Rep(m, B) /\ Collection(B) /\ DOMAIN B = DOMAIN A /\ Members(B) = Members(A)
    /\ \A h \in Heads : B[h] = A[h]
    /\ Within(l, m, Members(A))
    /\ \A q \in Task : Family(B, q) = FamilyAfter(A, i, q)

(* One more round of the loop over task[].                                 *)
LEMMA OneRound ==
  ASSUME NEW l, NEW A, NEW i \in 1 .. NR_TASKS, NEW m, NEW B, AfterRounds(l, A, i - 1, m, B),
         current \in Task, current # idle_task, sonlist(idle_task) \in DOMAIN A,
         victims = Family(A, current)
  PROVE  \E C : AfterRounds(l, A, i, Reparent(m, i - 1), C)
<1> DEFINE p == i - 1
<1>1. /\ Rep(m, B) /\ Collection(B) /\ DOMAIN B = DOMAIN A /\ Members(B) = Members(A)
      /\ \A h \in Heads : B[h] = A[h]
      /\ Within(l, m, Members(A))
      /\ \A q \in Task : Family(B, q) = FamilyAfter(A, p, q)
  BY DEF AfterRounds
<1>2. p \in Task /\ i \in Int /\ idle_task \in Task /\ Task \subseteq Int
  BY ListsAssumption, SameNames DEF Task
<1>3. /\ \A q : Family(A, q) \subseteq Int
      /\ \A v \in Int : /\ v >= p <=> v = p \/ v >= i
                        /\ v < i <=> v = p \/ v < p
                        /\ v = p => ~ (v >= i)
  <2>1. \A q : Family(A, q) \subseteq Int
    BY <1>2 DEF Family
  <2>2. ASSUME NEW v \in Int
        PROVE  /\ v >= p <=> v = p \/ v >= i
               /\ v < i <=> v = p \/ v < p
               /\ v = p => ~ (v >= i)
    BY <1>2
  <2> QED BY <2>1, <2>2
<1>4. CASE p \in victims
  <2>1. p \in Family(B, current)
    BY <1>1, <1>2, <1>3, <1>4 DEF FamilyAfter
  <2>2. PICK C : Adopted(m, B, p, current, idle_task,
                         list_add_tail(list_del(m, bros(p)), bros(p), sonlist(idle_task)), C)
    <3> HIDE DEF p
    <3> QED BY <1>1, <1>2, <2>1, Adopt, Zenon
  <2>3. Adopted(m, B, p, current, idle_task, Reparent(m, p), C)
    BY <1>4, <2>2 DEF Reparent
  <2> HIDE DEF p
  <2>4. /\ Rep(Reparent(m, p), C) /\ Collection(C) /\ DOMAIN C = DOMAIN B /\ Members(C) = Members(B)
        /\ \A h \in Heads : C[h] = B[h]
        /\ Within(m, Reparent(m, p), Members(B))
        /\ \A q \in Task : Family(C, q) = IF q = current THEN Family(B, q) \ {p}
                                          ELSE IF q = idle_task THEN Family(B, q) \cup {p}
                                          ELSE Family(B, q)
    BY <2>3 DEF Adopted
  <2>5. Within(l, Reparent(m, p), Members(A))
    <3>1. Within(l, Reparent(m, p), Members(A) \cup Members(B))
      BY <1>1, <2>4, WithinTrans
    <3> QED BY <1>1, <3>1
  <2>6. ASSUME NEW q \in Task PROVE Family(C, q) = FamilyAfter(A, i, q)
    <3>1. CASE q = current
      <4>1. Family(C, q) = {v \in Family(A, current) : v >= p} \ {p}
        BY <1>1, <2>4, <3>1 DEF FamilyAfter
      <4>2. Family(C, q) = {v \in Family(A, current) : v >= i}
        BY <1>3, <4>1
      <4> QED BY <3>1, <4>2 DEF FamilyAfter
    <3>2. CASE q = idle_task
      <4>1. Family(C, q) = Family(A, q) \cup {v \in Family(A, current) : v < p} \cup {p}
        BY <1>1, <2>4, <3>2 DEF FamilyAfter
      <4>2. Family(C, q) = Family(A, q) \cup {v \in Family(A, current) : v < i}
        BY <1>3, <1>4, <4>1
      <4> QED BY <3>2, <4>2 DEF FamilyAfter
    <3>3. CASE q # current /\ q # idle_task
      BY <1>1, <2>4, <3>3 DEF FamilyAfter
    <3> QED BY <3>1, <3>2, <3>3
  <2>7. AfterRounds(l, A, i, Reparent(m, p), C)
    BY <1>1, <2>4, <2>5, <2>6 DEF AfterRounds
  <2> QED BY <2>7 DEF p
<1>5. CASE p \notin victims
  <2>1. Reparent(m, p) = m
    BY <1>5 DEF Reparent
  <2> HIDE DEF p
  <2>2. ASSUME NEW q \in Task PROVE Family(B, q) = FamilyAfter(A, i, q)
    <3>1. /\ {v \in Family(A, current) : v >= p} = {v \in Family(A, current) : v >= i}
          /\ {v \in Family(A, current) : v < p} = {v \in Family(A, current) : v < i}
      BY <1>3, <1>5
    <3> QED BY <1>1, <3>1 DEF FamilyAfter
  <2>3. AfterRounds(l, A, i, Reparent(m, p), B)
    BY <1>1, <2>1, <2>2 DEF AfterRounds
  <2> QED BY <2>3 DEF p
<1> QED BY <1>4, <1>5

(* The whole loop over task[].                                             *)
LEMMA AllRounds ==
  ASSUME NEW l, NEW A, Rep(l, A), Collection(A), current \in Task, current # idle_task,
         sonlist(idle_task) \in DOMAIN A, victims = Family(A, current)
  PROVE  \E B : AfterRounds(l, A, NR_TASKS, Reparented(l), B)
<1> DEFINE N == NR_TASKS
           round[i \in 0 .. NR_TASKS] == IF i = 0 THEN l ELSE Reparent(round[i - 1], i - 1)
<1>1. Reparented(l) = round[N]
  BY DEF Reparented
<1>2. N \in Nat /\ l \in Links
  BY ListsAssumption DEF Rep
<1>3. round = [i \in 0 .. N |-> IF i = 0 THEN l ELSE Reparent(round[i - 1], i - 1)]
  <2> DEFINE F == [i \in 1 .. N |-> [x \in Links |-> Reparent(x, i - 1)]]
  <2>1. ASSUME NEW i \in 1 .. N, NEW x \in Links PROVE Reparent(x, i - 1) \in Links
    <3>1. i - 1 \in Task /\ idle_task \in Task
      BY <1>2, SameNames DEF Task
    <3>2. bros(i - 1) \in Node /\ sonlist(idle_task) \in Node
      BY <3>1, NodeFacts
    <3>3. list_del(x, bros(i - 1)) \in Links
      BY <3>2, DelType
    <3>4. list_add_tail(list_del(x, bros(i - 1)), bros(i - 1), sonlist(idle_task)) \in Links
      BY <3>2, <3>3, AddTailType
    <3> QED BY <3>4 DEF Reparent
  <2>2. F \in [1 .. N -> [Links -> Links]]
    BY <2>1
  <2>3. PICK g \in [0 .. N -> Links] : IsLoop(g, N, l, F)
    <3> HIDE DEF F, N
    <3> QED BY <1>2, <2>2, Loop
  <2>4. ASSUME NEW n \in 0 .. N, n # 0 PROVE F[n][g[n - 1]] = Reparent(g[n - 1], n - 1)
    <3>1. n - 1 \in 0 .. N /\ n \in 1 .. N
      BY <1>2, <2>4
    <3> QED BY <3>1
  <2>5. g = [i \in 0 .. N |-> IF i = 0 THEN l ELSE Reparent(g[i - 1], i - 1)]
    <3> HIDE DEF F, N
    <3>1. g = [n \in 0 .. N |-> IF n = 0 THEN l ELSE F[n][g[n - 1]]]
      BY <2>3 DEF IsLoop
    <3> QED BY <2>4, <3>1
  <2> QED BY <2>5
<1> HIDE DEF round
<1> DEFINE T == {i \in 0 .. N : \E B : AfterRounds(l, A, i, round[i], B)}
<1>4. 0 \in T
  <2>1. round[0] = l /\ 0 \in 0 .. N
    BY <1>2, <1>3
  <2>2. Within(l, l, Members(A))
    BY DEF Within, SameLinks
  <2>3. ASSUME NEW q \in Task PROVE Family(A, q) = FamilyAfter(A, 0, q)
    <3>1. \A v \in Task : v >= 0 /\ ~ (v < 0)
      BY <1>2 DEF Task
    <3>2. Family(A, current) \subseteq Task
      BY DEF Family
    <3> QED BY <3>1, <3>2 DEF FamilyAfter
  <2>4. AfterRounds(l, A, 0, l, A)
    BY <2>2, <2>3 DEF AfterRounds
  <2> QED BY <2>1, <2>4
<1>5. ASSUME NEW i \in 1 .. N, i - 1 \in T PROVE i \in T
  <2>1. PICK B : AfterRounds(l, A, i - 1, round[i - 1], B)
    BY <1>5
  <2>2. PICK C : AfterRounds(l, A, i, Reparent(round[i - 1], i - 1), C)
    BY <2>1, OneRound
  <2>3. i \in 0 .. N /\ i # 0
    BY <1>2
  <2>4. round[i] = Reparent(round[i - 1], i - 1)
    BY <1>3, <2>3
  <2> QED BY <2>2, <2>3, <2>4
<1> HIDE DEF T
<1>6. \A i \in 0 .. N : i \in T
  BY <1>2, <1>4, <1>5, Rounds
<1>7. N \in T
  BY <1>2, <1>6
<1> QED BY <1>1, <1>7 DEF T

(* The lists once the caller is in the free queue, before the scheduler    *)
(* chooses the next process.                                               *)
Exited(A, m, B) ==
    /\ Rep(m, B) /\ Collection(B) /\ DOMAIN B = DOMAIN A
    /\ Members(B) = (Members(A) \ {bros(current)}) \cup {node(current)}
    /\ B[readyqueue] = A[readyqueue] /\ B[blocked] = A[blocked]
    /\ B[freequeue] = Append(A[freequeue], node(current))
    /\ Within(links, m, Members(A) \cup {node(current)}) /\ ~ Linked(m, bros(current))
    /\ \A q \in Task : Family(B, q) = IF q = current THEN {}
                                      ELSE (Family(A, q) \ {current}) \cup
                                           (IF q = idle_task THEN victims ELSE {})

(* All list calls of exit before the scheduler's.                          *)
LEMMA ExitLists ==
  ASSUME PP!ProcessInv, Roots, NEW A, Sound(links, A, current, parent), current # idle_task,
         victims = Family(A, current), node(current) \notin Members(A)
  PROVE  LET left == IF PID[current] # 1 THEN list_del(links, bros(current)) ELSE links
         IN  \E B : Exited(A, Enqueued(Reparented(left), current, freequeue), B)
<1> DEFINE left == IF PID[current] # 1 THEN list_del(links, bros(current)) ELSE links
           k == Reparented(left)
           n == node(current)
           m == list_add_tail(k, n, freequeue)
<1>0. Rep(links, A) /\ Collection(A) /\ Outside(links, A, current, parent)
  BY DEF Sound
<1>1. /\ current \in Task /\ idle_task \in Task /\ PP!Live = LiveIn(A, current)
      /\ node(idle_task) \notin Members(A)
      /\ \A p \in Task : p \in Family(A, current) <=> p \in LiveIn(A, current) /\ parent[p] = current
  BY Facts, SameNames
<1>2. current \notin Family(A, current)
  <2>1. \A p \in PP!Live : parent[p] # -1 => PID[parent[p]] < PID[p]
    BY SameNames DEF PP!ProcessInv, PP!Pids
  <2>2. PID \in [Task -> Int]
    BY SameNames DEF PP!ProcessInv, PP!TypeOK
  <2>3. current \in LiveIn(A, current) /\ current # -1 /\ PID[current] \in Int
    BY <1>1, <2>2, SameNames DEF LiveIn
  <2>4. parent[current] # current
    BY <1>1, <2>1, <2>3
  <2> QED BY <1>1, <2>4
<1>3. sonlist(idle_task) \in DOMAIN A
  <2>1. idle_task \in Kept(A, current)
    BY DEF Kept
  <2>2. InUse(links, A, idle_task)
    BY <1>0, <1>1, <2>1 DEF Outside
  <2>3. node(idle_task) \notin Range(A[freequeue])
    BY <1>0, <1>1, CollectionFacts
  <2> QED BY <2>2, <2>3 DEF InUse
<1>4. PICK C : Departed(A, left, C)
  BY LeaveSiblings
<1> HIDE DEF left
<1>5. /\ Rep(left, C) /\ Collection(C) /\ DOMAIN C = DOMAIN A
      /\ Members(C) = Members(A) \ {bros(current)}
      /\ \A h \in Heads : C[h] = A[h]
      /\ Within(links, left, Members(A)) /\ ~ Linked(left, bros(current))
      /\ \A q \in Task : Family(C, q) = Family(A, q) \ {current}
  BY <1>4 DEF Departed
<1>6. PICK D : AfterRounds(left, C, NR_TASKS, k, D)
  <2>1. victims = Family(C, current)
    BY <1>1, <1>2, <1>5
  <2> QED BY <1>1, <1>3, <1>5, <2>1, AllRounds
<1> HIDE DEF k
<1>7. /\ Rep(k, D) /\ Collection(D) /\ DOMAIN D = DOMAIN C /\ Members(D) = Members(C)
      /\ \A h \in Heads : D[h] = C[h]
      /\ Within(left, k, Members(C))
      /\ \A q \in Task : Family(D, q) = FamilyAfter(C, NR_TASKS, q)
  BY <1>6 DEF AfterRounds
<1>8. /\ n \in Node /\ n \notin Members(D) /\ n # bros(current) /\ bros(current) \in Node
      /\ freequeue \in Heads /\ readyqueue \in Heads /\ blocked \in Heads
      /\ freequeue \in DOMAIN D /\ freequeue # readyqueue /\ freequeue # blocked
      /\ Heads \subseteq DOMAIN D
  <2>1. freequeue \in Heads /\ readyqueue \in Heads /\ blocked \in Heads
    BY DEF Heads
  <2>2. Heads \subseteq DOMAIN D
    BY <1>7 DEF Collection
  <2> QED BY <1>1, <1>5, <1>7, <2>1, <2>2, NodeFacts
<1>9. PICK B : Added(k, D, freequeue, n, m, B)
  <2> HIDE DEF n
  <2> QED BY <1>7, <1>8, AddTail, Zenon
<1> HIDE DEF n
<1>10. /\ Rep(m, B) /\ DOMAIN B = DOMAIN D /\ B[freequeue] = Append(D[freequeue], n)
       /\ \A h \in DOMAIN D : h # freequeue => B[h] = D[h]
       /\ Members(B) = Members(D) \cup {n} /\ Within(k, m, Members(B))
  BY <1>9 DEF Added
<1> HIDE DEF m
<1>11. Members(B) = (Members(A) \ {bros(current)}) \cup {n} /\ DOMAIN B = DOMAIN A
  BY <1>5, <1>7, <1>10
<1>12. /\ B[readyqueue] = A[readyqueue] /\ B[blocked] = A[blocked]
       /\ B[freequeue] = Append(A[freequeue], n)
  BY <1>5, <1>7, <1>8, <1>10
<1>13. Collection(B)
  <2>1. Range(B[freequeue]) \subseteq {node(p) : p \in Task}
    <3>1. A[freequeue] \in Seq(Node) /\ Range(A[freequeue]) \subseteq {node(p) : p \in Task}
      BY <1>0, <1>8, CollectionFacts DEF Collection
    <3>2. Range(Append(A[freequeue], n)) = Range(A[freequeue]) \cup {n}
      BY <1>8, <3>1, AppendRange
    <3> QED BY <1>1, <1>12, <3>1, <3>2 DEF n
  <2> QED BY <1>7, <1>8, <1>10, <2>1, CollectionQueue, Zenon
<1>14. Within(links, m, Members(A) \cup {n})
  <2>1. Within(links, k, Members(A) \cup Members(C))
    BY <1>5, <1>7, WithinTrans
  <2>2. Within(links, m, (Members(A) \cup Members(C)) \cup Members(B))
    BY <1>10, <2>1, WithinTrans
  <2>3. (Members(A) \cup Members(C)) \cup Members(B) = Members(A) \cup {n}
    BY <1>5, <1>11
  <2> QED BY <2>2, <2>3
<1>15. ~ Linked(m, bros(current))
  <2>1. bros(current) \notin Members(C) /\ bros(current) \notin Members(B)
    BY <1>5, <1>8, <1>11
  <2> QED BY <1>5, <1>7, <1>8, <1>10, <2>1 DEF Within, SameLinks, Linked
<1>16. ASSUME NEW q \in Task
       PROVE  Family(B, q) = IF q = current THEN {}
                             ELSE (Family(A, q) \ {current}) \cup
                                  (IF q = idle_task THEN victims ELSE {})
  <2>1. Family(B, q) = Family(D, q)
    <3>1. sonlist(q) \notin Heads
      BY NodeFacts
    <3>2. sonlist(q) # freequeue
      BY <1>8, <3>1
    <3> QED BY <1>10, <3>2 DEF Family
  <2>2. Family(C, current) = victims
    BY <1>1, <1>2, <1>5
  <2>3. \A v \in victims : v < NR_TASKS /\ ~ (v >= NR_TASKS)
    <3>1. \A v \in Task : v < NR_TASKS /\ ~ (v >= NR_TASKS)
      BY ListsAssumption DEF Task
    <3> QED BY <3>1 DEF victims
  <2>4. FamilyAfter(C, NR_TASKS, q) = IF q = current THEN {}
                                      ELSE IF q = idle_task THEN Family(C, q) \cup victims
                                      ELSE Family(C, q)
    BY <2>2, <2>3 DEF FamilyAfter
  <2> QED BY <1>5, <1>7, <2>1, <2>4
<1>17. Exited(A, m, B)
  BY <1>10, <1>11, <1>12, <1>13, <1>14, <1>15, <1>16 DEF Exited, n
<1> QED BY <1>17 DEF m, k, left, n, Enqueued

(* sys_exit.                                                               *)
LEMMA ExitStep ==
  ASSUME LInv, sys_exit
  PROVE  LInv' /\ P!sys_exit
<1>1. PICK A : Sound(links, A, current, parent)
  BY DEF LInv
<1>2. PP!ProcessInv /\ Roots /\ PP!UserRuns /\ current # idle_task
  BY SameNames DEF LInv, sys_exit, UserRuns, PP!UserRuns, PP!Running
<1>3. Rep(links, A) /\ Collection(A) /\ Outside(links, A, current, parent)
  BY <1>1 DEF Sound
<1>4. exit_fault = PP!exit_fault /\ victims = PP!victims
  BY <1>1, <1>2, SameFault
<1>5. CASE exit_fault # "none"
  <2>1. /\ fault' = exit_fault
        /\ UNCHANGED <<current, PID, state, parent, pending_unblocks, links,
                       ticks_since_last_switch, next_pid>>
    BY <1>5 DEF sys_exit
  <2>2. PP!sys_exit
    BY <1>2, <1>4, <1>5, <2>1, SameLists DEF PP!sys_exit, PP!pcbVars, PP!queueVars
  <2>3. PP!ProcessInv' /\ PP!Live' = PP!Live
    BY <1>2, <1>4, <1>5, <2>2, Assumptions, PP!ExitInv
  <2>4. LInv'
    BY <2>1, <2>3, StutterStep
  <2> QED BY <2>2, <2>4, SameProcess
<1>6. CASE exit_fault = "none"
  <2> DEFINE left == IF PID[current] # 1 THEN list_del(links, bros(current)) ELSE links
             l == Enqueued(Reparented(left), current, freequeue)
             pid == [PID EXCEPT ![current] = -1]
             st == [state EXCEPT ![current] = "ZOMBIE"]
  <2>1. /\ sched_next_rr(l, pid, st)
        /\ PID' = pid
        /\ parent' = [p \in Task |-> IF p \in victims THEN idle_task ELSE parent[p]]
        /\ UNCHANGED <<pending_unblocks, next_pid, fault>>
    BY <1>6 DEF sys_exit
  <2>2. /\ current \in Task /\ parent \in [Task -> Task \cup {-1}]
        /\ PP!Live = LiveIn(A, current) /\ LiveIn(A, current) \subseteq Task
        /\ LiveIn(A, current) \subseteq Kept(A, current)
        /\ node(idle_task) \notin Members(A)
        /\ node(current) \in Members(A) <=> node(current) \in Range(A[blocked])
        /\ \A p, q \in Task : p \in Family(A, q) <=> p \in LiveIn(A, current) /\ parent[p] = q
        /\ PID \in [Task -> Int]
    <3>1. PID \in [Task -> Int]
      BY <1>2, SameNames DEF PP!ProcessInv, PP!TypeOK
    <3> QED BY <1>1, <1>2, <3>1, Facts
  <2>3. /\ FreeTasks = Tasks(A[freequeue]) /\ ReadyTasks = Tasks(A[readyqueue])
        /\ BlockedTasks = Waiting(A) /\ Families = [p \in Task |-> Family(A, p)]
    BY <1>1, Abstraction, ReadState
  <2>4. victims = Family(A, current) /\ current \notin BlockedTasks
    <3>1. PP!victims \subseteq Families[current] /\ current \notin BlockedTasks
      BY <1>4, <1>6 DEF PP!exit_fault
    <3>2. Families[current] = Family(A, current)
      BY <2>2, <2>3
    <3>3. Family(A, current) \subseteq victims
      BY <2>2 DEF Family, victims
    <3> QED BY <1>4, <3>1, <3>2, <3>3
  <2>5. node(current) \notin Members(A)
    BY <2>2, <2>3, <2>4 DEF Waiting
  <2>6. PICK E : Exited(A, l, E)
    BY <1>1, <1>2, <2>4, <2>5, ExitLists
  <2> HIDE DEF left, l
  <2>7. /\ Rep(l, E) /\ Collection(E) /\ DOMAIN E = DOMAIN A
        /\ Members(E) = (Members(A) \ {bros(current)}) \cup {node(current)}
        /\ E[readyqueue] = A[readyqueue] /\ E[blocked] = A[blocked]
        /\ E[freequeue] = Append(A[freequeue], node(current))
        /\ Within(links, l, Members(A) \cup {node(current)}) /\ ~ Linked(l, bros(current))
        /\ \A q \in Task : Family(E, q) = IF q = current THEN {}
                                          ELSE (Family(A, q) \ {current}) \cup
                                               (IF q = idle_task THEN victims ELSE {})
    BY <2>6 DEF Exited
  <2>8. ~ Requeues(pid, st)
    <3>1. pid[current] = -1
      BY <2>2
    <3> QED BY <3>1 DEF Requeues
  <2> HIDE DEF pid, st
  <2>9. PICK B : NextChosen(l, E, pid, st, B)
    <3>1. ReadyTasks = Tasks(E[readyqueue])
      BY <2>3, <2>7
    <3> QED BY <2>1, <2>2, <2>7, <2>8, <3>1, SchedNext
  <2>10. /\ Rep(links', B) /\ Collection(B) /\ SameRest(E, B) /\ B[blocked] = E[blocked]
         /\ Within(l, links', Members(E) \cup Members(B))
         /\ PP!sched_next_rr(pid, st)
    BY <2>9 DEF NextChosen
  <2>11. /\ \/ current' = idle_task /\ Members(B) = Members(E)
            \/ /\ current' \in Task /\ node(current') \in Members(E)
               /\ ~ Linked(links', node(current'))
               /\ Members(B) = Members(E) \ {node(current')}
         /\ current' \in Task
    BY <2>8, <2>9, SameNames DEF NextChosen, Requeued
  <2>12. Sound(links', B, current', parent')
    <3> DEFINE X == Members(A) \cup {node(current)}
    <3>1. Within(links, links', X)
      <4>1. Within(links, links', X \cup (Members(E) \cup Members(B)))
        BY <2>7, <2>10, WithinTrans
      <4>2. X \cup (Members(E) \cup Members(B)) = X
        BY <2>7, <2>11
      <4> QED BY <4>1, <4>2
    <3>2. OffQueue(links', B, current')
      <4>1. node(idle_task) \in Node /\ node(idle_task) \notin X /\ ~ Linked(links, node(idle_task))
        <5>1. node(idle_task) # node(current)
          BY <1>2, NodeFacts
        <5> QED BY <1>3, <2>2, <5>1, SameNames, NodeFacts DEF Outside
      <4>2. ~ Linked(links', node(idle_task))
        BY <3>1, <4>1 DEF Within, SameLinks, Linked
      <4> QED BY <2>11, <4>2 DEF OffQueue
    <3>3. ASSUME NEW p \in Task PROVE p \in Kept(B, current') <=> p \in Kept(A, current)
      <4>1. /\ node(p) \in Members(E) <=> node(p) \in Members(A) \/ p = current
            /\ node(p) = node(current') <=> p = current'
        BY <2>7, NodeFacts
      <4> QED BY <2>11, <4>1 DEF Kept
    <3>4. /\ \A p : sonlist(p) \in Members(A) <=> sonlist(p) \in DOMAIN A
          /\ A[freequeue] \in Seq(Node) /\ node(current) \in Node
      BY <1>3, <2>2, CollectionFacts, NodeFacts
    <3>5. Range(B[freequeue]) = Range(A[freequeue]) \cup {node(current)}
      <4>1. B[freequeue] = Append(A[freequeue], node(current))
        BY <2>7, <2>10 DEF SameRest
      <4> QED BY <3>4, <4>1, AppendRange
    <3>6. ASSUME NEW p \in Task \ {current} PROVE SamePlace(A, current, B, current', X, p)
      <4>1. /\ bros(p) # bros(current) /\ bros(p) # node(current) /\ sonlist(p) # node(current)
            /\ bros(p) # node(current')
        BY NodeFacts
      <4>2. bros(p) \in Members(B) <=> bros(p) \in Members(A)
        BY <2>7, <2>11, <4>1
      <4>3. sonlist(p) \in DOMAIN B <=> sonlist(p) \in DOMAIN A
        BY <2>7, <2>10 DEF SameRest
      <4> QED BY <3>3, <3>4, <3>5, <4>1, <4>2, <4>3 DEF SamePlace
    <3>7. ASSUME NEW p \in Task, p \notin Kept(A, current) PROVE parent'[p] = parent[p]
      <4>1. p \notin victims
        BY <2>2, <2>4, <3>7
      <4> QED BY <2>1, <4>1
    <3>8. Undisturbed(A, current, parent, B, current', parent', X, {current})
      <4> HIDE DEF X
      <4> QED BY <3>6, <3>7 DEF Undisturbed
    <3>9. Placed(links', B, current', parent', {current})
      <4>1. current \in Kept(A, current)
        BY DEF Kept
      <4>2. sonlist(current) \in DOMAIN B
        <5>1. InUse(links, A, current)
          BY <1>3, <2>2, <4>1 DEF Outside
        <5>2. node(current) \notin Range(A[freequeue])
          BY <1>3, <2>5, CollectionFacts
        <5> QED BY <2>7, <2>10, <5>1, <5>2 DEF InUse, SameRest
      <4>3. ~ Linked(links', bros(current))
        <5>1. bros(current) \notin Members(E) /\ bros(current) \notin Members(B) /\ bros(current) \in Node
          <6>1. bros(current) # node(current) /\ bros(current) \in Node
            BY <2>2, NodeFacts
          <6> QED BY <2>7, <2>11, <6>1
        <5> QED BY <2>7, <2>10, <5>1 DEF Within, SameLinks, Linked
      <4> QED BY <2>2, <3>3, <4>1, <4>2, <4>3 DEF Placed, InUse
    <3> HIDE DEF X
    <3> QED BY <1>1, <2>10, <3>1, <3>2, <3>8, <3>9, OutsideStep, Zenon
  <2>13. /\ FreeTasks' = Tasks(B[freequeue]) /\ BlockedTasks' = Waiting(B)
         /\ Families' = [p \in Task |-> Family(B, p)]
    <3>1. Reads(links', B)
      BY <2>12, Abstraction, Zenon
    <3> QED BY <3>1, ReadNext
  <2>14. FreeTasks' = PP!list_add_tail(FreeTasks, current)
    <3>1. A[freequeue] \in Seq(Node) /\ Range(A[freequeue]) \subseteq {node(p) : p \in Task}
      BY <1>3, CollectionFacts DEF Collection, Heads
    <3>2. Tasks(Append(A[freequeue], node(current))) = Append(Tasks(A[freequeue]), current)
      BY <2>2, <3>1, TasksAppend
    <3>3. B[freequeue] = Append(A[freequeue], node(current))
      BY <2>7, <2>10 DEF SameRest
    <3> QED BY <2>3, <2>13, <3>2, <3>3 DEF PP!list_add_tail
  <2>15. BlockedTasks' = BlockedTasks
    BY <2>3, <2>7, <2>10, <2>13 DEF Waiting
  <2>16. Families' = PP!exit_sons
    <3>1. \A p \in Task : Family(B, p) = Family(E, p)
      BY <2>10, SameFamilies
    <3>2. \A p \in Task : Families[p] = Family(A, p)
      BY <2>3
    <3>3. PP!exit_sons = [p \in Task |-> IF p = current THEN {}
                            ELSE (Family(A, p) \ {current}) \cup
                                 (IF p = idle_task THEN victims ELSE {})]
      BY <1>4, <3>2, SameNames DEF PP!exit_sons, PP!SonsAfterExit
    <3> QED BY <2>7, <2>13, <3>1, <3>3
  <2>17. PP!sys_exit
    <3>1. PID' = [PID EXCEPT ![current] = -1]
      BY <2>1 DEF pid
    <3>2. parent' = [p \in PP!Task |-> IF p \in PP!victims THEN PP!idle_task ELSE parent[p]]
      BY <1>4, <2>1, SameNames
    <3>3. PP!sched_next_rr(PID', [state EXCEPT ![current] = "ZOMBIE"])
      BY <2>1, <2>10 DEF st
    <3>4. PP!exit_fault = "none"
      BY <1>4, <1>6
    <3> QED BY <1>2, <2>1, <2>14, <2>15, <2>16, <3>1, <3>2, <3>3, <3>4 DEF PP!sys_exit
  <2>18. PP!ProcessInv' /\ PP!Live' = PP!Live \ {current}
    BY <1>2, <1>4, <1>6, <2>17, Assumptions, PP!ExitInv
  <2>19. Roots'
    <3>1. next_pid >= 2 /\ \A p \in PP!Live : parent[p] = -1 <=> PID[p] \in {0, 1}
      BY <1>2 DEF Roots
    <3>2. ASSUME NEW p \in PP!Live' PROVE parent'[p] = -1 <=> PID'[p] \in {0, 1}
      <4>1. p \in PP!Live /\ p # current /\ p \in Task
        BY <2>2, <2>18, <3>2
      <4>2. PID'[p] = PID[p]
        BY <2>1, <2>2, <4>1 DEF pid
      <4>3. parent'[p] = -1 <=> parent[p] = -1
        <5>1. p \in victims => parent[p] = current
          BY DEF victims
        <5>2. current # -1 /\ idle_task # -1
          BY <2>2, SameNames
        <5> QED BY <2>1, <4>1, <5>1, <5>2
      <4> QED BY <3>1, <4>1, <4>2, <4>3
    <3> QED BY <2>1, <3>1, <3>2 DEF Roots
  <2> QED BY <2>12, <2>17, <2>18, <2>19, SameProcess DEF LInv
<1> QED BY <1>5, <1>6

-----------------------------------------------------------------------------
(* numbros on a process without siblings, and the spin after a fault.      *)

(* sys_numbros on NULL links is the fault that Process reports.            *)
LEMMA NumbrosStep ==
  ASSUME LInv, numbros_faults
  PROVE  LInv' /\ P!sys_numbros
<1>1. PICK A : Sound(links, A, current, parent)
  BY DEF LInv
<1>2. PP!ProcessInv /\ PP!UserRuns /\ Rep(links, A) /\ Collection(A)
  BY <1>1, SameNames DEF LInv, numbros_faults, UserRuns, PP!UserRuns, PP!Running, Sound
<1>3. current \in Task /\ Families = [p \in Task |-> Family(A, p)]
  BY <1>1, <1>2, Facts, Abstraction, ReadState
<1>4. bros(current) \notin Members(A)
  <2>1. ~ Linked(links, bros(current))
    BY DEF numbros_faults
  <2> QED BY <1>2, <2>1, InList
<1>5. \A r \in Task : current \notin Families[r]
  <2>1. \A r \in Task : sonlist(r) \in DOMAIN A => Range(A[sonlist(r)]) \subseteq Members(A)
    BY DEF Members
  <2> QED BY <1>3, <1>4, <2>1 DEF Family
<1>6. PP!siblings(current) = {}
  BY <1>5, SameNames DEF PP!siblings
<1>7. /\ fault' = "numbros_null_bros"
      /\ UNCHANGED <<current, PID, state, parent, pending_unblocks, links,
                     ticks_since_last_switch, next_pid>>
  BY DEF numbros_faults
<1>8. UNCHANGED <<current, PP!pcbVars, PP!queueVars, ticks_since_last_switch, next_pid>>
  BY <1>7, SameLists DEF PP!pcbVars, PP!queueVars
<1>9. PP!sys_numbros
  BY <1>2, <1>6, <1>7, <1>8 DEF PP!sys_numbros
<1>10. PP!ProcessInv' /\ PP!Live' = PP!Live
  <2>1. fault' \in PP!Fault
    BY <1>7 DEF PP!Fault
  <2> QED BY <1>2, <1>8, <2>1, Assumptions, PP!FaultInv
<1>11. LInv'
  BY <1>7, <1>10, StutterStep
<1> QED BY <1>9, <1>11, SameProcess

(* The spin after a fault changes nothing.                                 *)
LEMMA SpinStep ==
  ASSUME LInv, pgf_spin
  PROVE  LInv' /\ UNCHANGED P!vars
  BY SameVars DEF pgf_spin

-----------------------------------------------------------------------------
(* Boot.                                                                   *)

(* The free queue when the first n PCBs are in it.                         *)
Countdown(n) == [j \in 1 .. n |-> node(n - j)]

Blank(l, X) == \A n \in Node : n \notin X => ~ Linked(l, n)

(* list_add yields links.                                                  *)
LEMMA AddType ==
  ASSUME NEW l \in Links, NEW n \in Node, NEW h \in Node
  PROVE  list_add(l, n, h) \in Links
<1> DEFINE x == l.next[h]
           a == [l EXCEPT !.prev[x] = n]
           b == [a EXCEPT !.next[n] = x]
           c == [b EXCEPT !.prev[n] = h]
           m == [c EXCEPT !.next[h] = n]
<1>1. list_add(l, n, h) = m
  BY DEF list_add, __list_add
<1>2. x \in Node \cup {NIL}
  BY DEF Links
<1> HIDE DEF x
<1>3. a \in Links
  BY DEF Links
<1> HIDE DEF a
<1>4. b \in Links
  BY <1>2, <1>3 DEF Links
<1> HIDE DEF b
<1>5. c \in Links
  BY <1>4 DEF Links
<1> HIDE DEF c
<1>6. m \in Links
  BY <1>5 DEF Links
<1> HIDE DEF m
<1> QED BY <1>1, <1>6

(* The free queue of the first n PCBs holds each of them once.             *)
LEMMA CountdownFacts ==
  ASSUME NEW n \in 0 .. NR_TASKS
  PROVE  /\ Countdown(n) \in Seq(Node) /\ Len(Countdown(n)) = n
         /\ \A p \in Task : node(p) \in Range(Countdown(n)) <=> p < n
         /\ Range(Countdown(n)) \subseteq {node(p) : p \in Task}
         /\ n = 0 => Countdown(n) = <<>>
<1>1. NR_TASKS \in Nat /\ n \in Nat
  BY ListsAssumption
<1>2. \A j \in 1 .. n : n - j \in Task
  BY <1>1 DEF Task
<1>3. Countdown(n) \in [1 .. n -> Node]
  BY <1>2, NodeFacts DEF Countdown
<1>4. Countdown(n) \in Seq(Node)
  BY <1>1, <1>3, SeqDef
<1>5. DOMAIN Countdown(n) = 1 .. n /\ Len(Countdown(n)) = n
  <2>1. DOMAIN Countdown(n) = 1 .. n
    BY DEF Countdown
  <2>2. DOMAIN Countdown(n) = 1 .. Len(Countdown(n)) /\ Len(Countdown(n)) \in Nat
    BY <1>4, LenProperties
  <2> QED BY <1>1, <2>1, <2>2
<1>6. \A j \in 1 .. n : Countdown(n)[j] = node(n - j)
  BY DEF Countdown
<1>7. ASSUME NEW p \in Task PROVE node(p) \in Range(Countdown(n)) <=> p < n
  <2>1. ASSUME p < n PROVE node(p) \in Range(Countdown(n))
    <3>1. n - p \in 1 .. n /\ n - (n - p) = p
      BY <1>1, <2>1 DEF Task
    <3>2. Countdown(n)[n - p] = node(p)
      BY <1>6, <3>1
    <3> QED BY <1>5, <3>1, <3>2 DEF Range
  <2>2. ASSUME node(p) \in Range(Countdown(n)) PROVE p < n
    <3>1. PICK j \in 1 .. n : node(p) = node(n - j)
      BY <1>5, <1>6, <2>2 DEF Range
    <3>2. p = n - j
      BY <3>1, NodeFacts
    <3> QED BY <1>1, <3>2
  <2> QED BY <2>1, <2>2
<1>8. Range(Countdown(n)) \subseteq {node(p) : p \in Task}
  BY <1>2, <1>5, <1>6 DEF Range
<1>9. n = 0 => Countdown(n) = <<>>
  BY <1>4, <1>5, EmptySeq
<1> QED BY <1>4, <1>5, <1>7, <1>8, <1>9

(* The first of that queue and the others.                                 *)
LEMMA CountdownTail ==
  ASSUME NEW n \in 1 .. NR_TASKS
  PROVE  Without(Countdown(n), 1) = Countdown(n - 1) /\ Countdown(n)[1] = node(n - 1)
<1>1. n \in Nat /\ n # 0 /\ n \in 0 .. NR_TASKS
  BY ListsAssumption
<1>2. Len(Countdown(n)) = n
  BY <1>1, CountdownFacts
<1>3. \A i \in 1 .. n - 1 : i + 1 \in 1 .. n /\ ~ (i < 1) /\ n - (i + 1) = (n - 1) - i
  BY <1>1
<1>4. Without(Countdown(n), 1) = [i \in 1 .. n - 1 |-> Countdown(n)[i + 1]]
  BY <1>2, <1>3 DEF Without
<1>5. \A i \in 1 .. n - 1 : Countdown(n)[i + 1] = node((n - 1) - i)
  BY <1>3 DEF Countdown
<1>6. Countdown(n)[1] = node(n - 1)
  BY <1>1 DEF Countdown
<1> QED BY <1>4, <1>5, <1>6 DEF Countdown

(* One more PCB in front of that queue.                                    *)
LEMMA CountdownAdd ==
  ASSUME NEW n \in 1 .. NR_TASKS
  PROVE  <<node(n - 1)>> \o Countdown(n - 1) = Countdown(n)
<1> DEFINE a == <<node(n - 1)>>
           s == Countdown(n - 1)
           t == a \o s
           c == Countdown(n)
<1>1. n \in Nat /\ n # 0 /\ n \in 0 .. NR_TASKS /\ n - 1 \in 0 .. NR_TASKS /\ n - 1 \in Task
      /\ n - 1 \in Nat
  BY ListsAssumption DEF Task
<1>2. s \in Seq(Node) /\ Len(s) = n - 1 /\ c \in Seq(Node) /\ Len(c) = n
  BY <1>1, CountdownFacts
<1>3. a \in Seq(Node) /\ Len(a) = 1 /\ a[1] = node(n - 1)
  BY <1>1, NodeFacts
<1>4. \A i \in 1 .. n - 1 : s[i] = node((n - 1) - i)
  BY DEF Countdown
<1>5. \A i \in 1 .. n : c[i] = node(n - i)
  BY DEF Countdown
<1> HIDE DEF a, s, c
<1>6. /\ t \in Seq(Node) /\ Len(t) = Len(a) + Len(s)
      /\ \A i \in 1 .. Len(a) + Len(s) : t[i] = IF i <= Len(a) THEN a[i] ELSE s[i - Len(a)]
  BY <1>2, <1>3, ConcatProperties
<1> HIDE DEF t
<1>7. Len(t) = n /\ \A i \in 1 .. n : t[i] = IF i <= 1 THEN a[i] ELSE s[i - 1]
  <2>1. 1 + (n - 1) = n
    BY <1>1
  <2> QED BY <1>2, <1>3, <1>6, <2>1
<1>8. ASSUME NEW i \in 1 .. n PROVE t[i] = c[i]
  <2>1. CASE i = 1
    BY <1>1, <1>3, <1>5, <1>7, <2>1
  <2>2. CASE i # 1
    <3>1. ~ (i <= 1) /\ i - 1 \in 1 .. n - 1 /\ (n - 1) - (i - 1) = n - i
      BY <1>1, <2>2
    <3>2. t[i] = s[i - 1]
      BY <1>7, <3>1
    <3> QED BY <1>4, <1>5, <3>1, <3>2
  <2> QED BY <2>1, <2>2
<1>9. t \in [1 .. n -> Node] /\ c \in [1 .. n -> Node]
  BY <1>2, <1>6, <1>7, LenProperties
<1>10. t = [i \in 1 .. n |-> t[i]] /\ c = [i \in 1 .. n |-> c[i]]
  BY <1>9
<1>11. [i \in 1 .. n |-> t[i]] = [i \in 1 .. n |-> c[i]]
  BY <1>8
<1>12. t = c
  BY <1>10, <1>11
<1> QED BY <1>12 DEF t, a, s, c

(* The free queue while init_sched fills it.                               *)
Filled(l, n) ==
    /\ l \in Links /\ Ring(l, freequeue, Countdown(n))
    /\ Blank(l, {freequeue} \cup Range(Countdown(n)))

(* A round of the loop of init_sched puts one more PCB in front.           *)
LEMMA FillRound ==
  ASSUME NEW n \in 1 .. NR_TASKS, NEW l, Filled(l, n - 1)
  PROVE  Filled(list_add(l, node(n - 1), freequeue), n)
<1> DEFINE e == node(n - 1)
           s == Countdown(n - 1)
           m == list_add(l, e, freequeue)
<1>1. /\ n - 1 \in 0 .. NR_TASKS /\ n \in 0 .. NR_TASKS /\ n - 1 \in Task
      /\ ~ (n - 1 < n - 1)
  BY ListsAssumption DEF Task
<1>2. e \in Node /\ e # freequeue
  BY <1>1, NodeFacts DEF Heads
<1>3. e \notin Range(s)
  BY <1>1, CountdownFacts
<1>4. /\ l \in Links /\ Ring(l, freequeue, s) /\ Blank(l, {freequeue} \cup Range(s))
  BY DEF Filled
<1> HIDE DEF e, s
<1>5. /\ m \in Links /\ Ring(m, freequeue, <<e>> \o s)
      /\ \A k \in Node : k \notin {freequeue, e} \cup Range(s) => SameLinks(l, m, k)
  BY <1>2, <1>3, <1>4, RingAdd
<1>6. <<e>> \o s = Countdown(n)
  BY CountdownAdd DEF e, s
<1>7. {freequeue, e} \cup Range(s) \subseteq {freequeue} \cup Range(Countdown(n))
  <2>1. \A p \in Task : node(p) \in Range(Countdown(n)) <=> p < n
    BY <1>1, CountdownFacts
  <2>2. e \in Range(Countdown(n))
    BY <1>1, <2>1 DEF e
  <2>3. Range(s) \subseteq Range(Countdown(n))
    <3>1. Range(s) \subseteq {node(p) : p \in Task}
      BY <1>1, CountdownFacts DEF s
    <3>2. \A p \in Task : node(p) \in Range(s) => p < n - 1
      BY <1>1, CountdownFacts DEF s
    <3>3. \A p \in Task : p < n - 1 => p < n
      BY <1>1, ListsAssumption DEF Task
    <3> QED BY <2>1, <3>1, <3>2, <3>3
  <2> QED BY <2>2, <2>3
<1> HIDE DEF m
<1>8. Blank(m, {freequeue} \cup Range(Countdown(n)))
  BY <1>4, <1>5, <1>7 DEF Blank, SameLinks, Linked
<1>9. Filled(m, n)
  BY <1>5, <1>6, <1>8 DEF Filled
<1> QED BY <1>9 DEF m, e

(* All rounds of the loop: every PCB is in the free queue.                 *)
LEMMA FillAll ==
  \E l : Filled(l, NR_TASKS)
         /\ init_sched = INIT_LIST_HEAD(INIT_LIST_HEAD(l, readyqueue), blocked)
<1> DEFINE N == NR_TASKS
           zero  == [n \in Node |-> NIL]
           none  == [next |-> zero, prev |-> zero]
           empty == INIT_LIST_HEAD(none, freequeue)
           added[i \in 0 .. NR_TASKS] ==
               IF i = 0 THEN empty
               ELSE list_add(added[i - 1], node(i - 1), freequeue)
<1>1. init_sched = INIT_LIST_HEAD(INIT_LIST_HEAD(added[N], readyqueue), blocked)
  BY DEF init_sched
<1>2. N \in Nat /\ freequeue \in Node
  BY ListsAssumption, NodeFacts DEF Heads
<1>3. Filled(empty, 0) /\ empty \in Links
  <2>1. none \in Links /\ \A n \in Node : none.next[n] = NIL
    BY DEF Links
  <2> HIDE DEF none
  <2>2. /\ empty \in Links /\ Ring(empty, freequeue, <<>>)
        /\ \A n \in Node : n # freequeue => SameLinks(none, empty, n)
    BY <1>2, <2>1, RingInit
  <2> HIDE DEF empty
  <2>3. 0 \in 0 .. NR_TASKS
    BY <1>2
  <2>4. Countdown(0) = <<>>
    BY <2>3, CountdownFacts
  <2>5. Blank(empty, {freequeue} \cup Range(Countdown(0)))
    BY <2>1, <2>2 DEF Blank, SameLinks, Linked
  <2> QED BY <2>2, <2>4, <2>5 DEF Filled
<1> HIDE DEF empty
<1>4. added = [i \in 0 .. N |-> IF i = 0 THEN empty
                                ELSE list_add(added[i - 1], node(i - 1), freequeue)]
  <2> DEFINE F == [i \in 1 .. N |-> [x \in Links |-> list_add(x, node(i - 1), freequeue)]]
  <2>1. ASSUME NEW i \in 1 .. N, NEW x \in Links
        PROVE  list_add(x, node(i - 1), freequeue) \in Links
    <3>1. i - 1 \in Task
      BY <1>2 DEF Task
    <3>2. node(i - 1) \in Node
      BY <3>1, NodeFacts
    <3> QED BY <1>2, <3>2, AddType
  <2>2. F \in [1 .. N -> [Links -> Links]]
    BY <2>1
  <2>3. PICK g \in [0 .. N -> Links] : IsLoop(g, N, empty, F)
    <3> HIDE DEF F, N
    <3> QED BY <1>2, <1>3, <2>2, Loop
  <2>4. ASSUME NEW n \in 0 .. N, n # 0
        PROVE  F[n][g[n - 1]] = list_add(g[n - 1], node(n - 1), freequeue)
    <3>1. n - 1 \in 0 .. N /\ n \in 1 .. N
      BY <1>2, <2>4
    <3> QED BY <3>1
  <2>5. g = [i \in 0 .. N |-> IF i = 0 THEN empty
                              ELSE list_add(g[i - 1], node(i - 1), freequeue)]
    <3> HIDE DEF F, N
    <3>1. g = [n \in 0 .. N |-> IF n = 0 THEN empty ELSE F[n][g[n - 1]]]
      BY <2>3 DEF IsLoop
    <3> QED BY <2>4, <3>1
  <2> QED BY <2>5
<1> HIDE DEF added
<1> DEFINE T == {i \in 0 .. N : Filled(added[i], i)}
<1>5. 0 \in T
  <2>1. added[0] = empty /\ 0 \in 0 .. N
    BY <1>2, <1>4
  <2> QED BY <1>3, <2>1
<1>6. ASSUME NEW i \in 1 .. N, i - 1 \in T PROVE i \in T
  <2>1. Filled(list_add(added[i - 1], node(i - 1), freequeue), i)
    BY <1>6, FillRound
  <2>2. i \in 0 .. N /\ i # 0
    BY <1>2
  <2>3. added[i] = list_add(added[i - 1], node(i - 1), freequeue)
    BY <1>4, <2>2
  <2> QED BY <2>1, <2>2, <2>3
<1> HIDE DEF T
<1>7. \A i \in 0 .. N : i \in T
  BY <1>2, <1>5, <1>6, Rounds
<1>8. N \in T
  BY <1>2, <1>7
<1> QED BY <1>1, <1>8 DEF T

(* The lists when n PCBs are still free and no process has run.            *)
BootHeads(n) == Heads \cup {sonlist(p) : p \in n .. NR_TASKS - 1}

Boot(l, A, n) ==
    /\ Rep(l, A) /\ DOMAIN A = BootHeads(n)
    /\ A[freequeue] = Countdown(n)
    /\ \A h \in DOMAIN A : h # freequeue => A[h] = <<>>
    /\ Blank(l, Members(A))

(* The nodes of the lists at boot.                                         *)
LEMMA BootMembers ==
  ASSUME NEW n \in 0 .. NR_TASKS, NEW l, NEW A, Boot(l, A, n)
  PROVE  /\ Members(A) = BootHeads(n) \cup Range(Countdown(n))
         /\ \A p \in Task : /\ node(p) \in Members(A) <=> p < n
                            /\ sonlist(p) \in Members(A) <=> p >= n
                            /\ sonlist(p) \in DOMAIN A <=> p >= n
         /\ \A p : bros(p) \notin Members(A)
<1>1. /\ DOMAIN A = BootHeads(n) /\ A[freequeue] = Countdown(n)
      /\ \A h \in DOMAIN A : h # freequeue => A[h] = <<>>
  BY DEF Boot
<1>2. freequeue \in BootHeads(n)
  BY DEF BootHeads, Heads
<1>3. Range(<<>>) = {}
  BY DEF Range
<1>4. Members(A) = BootHeads(n) \cup Range(Countdown(n))
  BY <1>1, <1>2, <1>3 DEF Members
<1>5. /\ \A p \in Task : node(p) \in Range(Countdown(n)) <=> p < n
      /\ Range(Countdown(n)) \subseteq {node(p) : p \in Task}
  BY CountdownFacts
<1>6. \A p : node(p) \notin BootHeads(n) /\ bros(p) \notin BootHeads(n)
  BY NodeFacts DEF BootHeads
<1>7. \A p : sonlist(p) \notin Range(Countdown(n)) /\ bros(p) \notin Range(Countdown(n))
  BY <1>5, NodeFacts
<1>8. ASSUME NEW p \in Task PROVE sonlist(p) \in BootHeads(n) <=> p >= n
  <2>1. sonlist(p) \in BootHeads(n) <=> p \in n .. NR_TASKS - 1
    BY NodeFacts DEF BootHeads
  <2> QED BY <2>1, ListsAssumption DEF Task
<1> QED BY <1>1, <1>4, <1>5, <1>6, <1>7, <1>8

(* init_sched leaves every PCB in the free queue.                          *)
LEMMA BootSched == \E A : Boot(init_sched, A, NR_TASKS)
<1>1. PICK l : Filled(l, NR_TASKS)
               /\ init_sched = INIT_LIST_HEAD(INIT_LIST_HEAD(l, readyqueue), blocked)
  BY FillAll
<1> DEFINE N == NR_TASKS
           A == [h \in {freequeue} |-> Countdown(N)]
           k == INIT_LIST_HEAD(l, readyqueue)
           m == INIT_LIST_HEAD(k, blocked)
<1>2. N \in 0 .. NR_TASKS
  BY ListsAssumption
<1>3. /\ readyqueue \in Node /\ blocked \in Node /\ readyqueue # blocked
      /\ readyqueue # freequeue /\ blocked # freequeue /\ freequeue \in Node
  BY NodeFacts DEF Heads
<1>4. /\ Range(Countdown(N)) \subseteq {node(p) : p \in Task}
  BY <1>2, CountdownFacts
<1>5. \A h \in Heads : h \notin Range(Countdown(N))
  BY <1>4, NodeFacts
<1>6. Rep(l, A) /\ Members(A) = {freequeue} \cup Range(Countdown(N))
  <2>1. l \in Links /\ Ring(l, freequeue, Countdown(N))
    BY <1>1 DEF Filled
  <2>2. DOMAIN A = {freequeue} /\ A[freequeue] = Countdown(N)
    OBVIOUS
  <2>3. freequeue \notin Range(Countdown(N))
    BY <1>5 DEF Heads
  <2> HIDE DEF A
  <2> QED BY <2>1, <2>2, <2>3 DEF Rep, Apart, Members
<1>7. DOMAIN A = {freequeue} /\ A[freequeue] = Countdown(N)
  OBVIOUS
<1> HIDE DEF A
<1>8. readyqueue \notin Members(A)
  BY <1>3, <1>5, <1>6 DEF Heads
<1>9. PICK C : NewHead(l, A, readyqueue, k, C)
  BY <1>3, <1>6, <1>8, MakeHead
<1>10. /\ Rep(k, C) /\ DOMAIN C = {freequeue, readyqueue} /\ C[readyqueue] = <<>>
       /\ C[freequeue] = Countdown(N) /\ Members(C) = Members(A) \cup {readyqueue}
       /\ Within(l, k, {readyqueue})
  BY <1>3, <1>7, <1>9 DEF NewHead
<1>11. blocked \notin Members(C)
  BY <1>3, <1>5, <1>6, <1>10 DEF Heads
<1>12. PICK B : NewHead(k, C, blocked, m, B)
  BY <1>3, <1>10, <1>11, MakeHead
<1>13. /\ Rep(m, B) /\ DOMAIN B = Heads /\ B[blocked] = <<>> /\ B[readyqueue] = <<>>
       /\ B[freequeue] = Countdown(N) /\ Members(B) = Members(A) \cup {readyqueue, blocked}
       /\ Within(k, m, {blocked})
  BY <1>3, <1>10, <1>12 DEF NewHead, Heads
<1> HIDE DEF k, m
<1>14. Blank(m, Members(B))
  <2>1. Blank(l, Members(A))
    BY <1>1, <1>6 DEF Filled
  <2> QED BY <1>10, <1>13, <2>1 DEF Blank, Within, SameLinks, Linked
<1>15. BootHeads(N) = Heads
  <2>1. N .. NR_TASKS - 1 = {}
    BY ListsAssumption
  <2> QED BY <2>1 DEF BootHeads
<1>16. Boot(m, B, N)
  BY <1>13, <1>14, <1>15 DEF Boot, Heads
<1> QED BY <1>1, <1>16 DEF m, k

(* A PCB that leaves the free queue at boot.                               *)
LEMMA BootPcb ==
  ASSUME NEW n \in 1 .. NR_TASKS, NEW l, NEW A, Boot(l, A, n)
  PROVE  \E B : Boot(init_pcb(l), B, n - 1)
<1> DEFINE p == n - 1
           e == node(p)
           k == list_del(l, e)
           m == INIT_LIST_HEAD(k, sonlist(p))
           h == freequeue
<1>1. n \in 0 .. NR_TASKS /\ p \in 0 .. NR_TASKS /\ p \in Task /\ ~ (p >= n) /\ p < n
  BY ListsAssumption DEF Task
<1>2. /\ Rep(l, A) /\ DOMAIN A = BootHeads(n) /\ A[h] = Countdown(n)
      /\ \A j \in DOMAIN A : j # h => A[j] = <<>>
      /\ Blank(l, Members(A))
  BY DEF Boot
<1>3. h \in DOMAIN A
  BY <1>2 DEF BootHeads, Heads
<1>4. Ring(l, h, A[h])
  BY <1>2, <1>3 DEF Rep
<1>5. 1 \in 1 .. Len(A[h]) /\ A[h][1] = e /\ A[h] # <<>> /\ Without(A[h], 1) = Countdown(p)
  <2>1. Len(Countdown(n)) = n
    BY <1>1, CountdownFacts
  <2>2. Countdown(n)[1] = e /\ Without(Countdown(n), 1) = Countdown(p)
    BY CountdownTail
  <2>3. 1 \in 1 .. n /\ n # 0
    BY <1>1
  <2> HIDE DEF p, e
  <2>4. Countdown(n) # <<>>
    BY <2>1, <2>3
  <2> QED BY <1>2, <2>1, <2>2, <2>3, <2>4
<1>6. init_pcb(l) = m
  <2>1. list_first(l, h) = e
    BY <1>4, <1>5, RingFirst
  <2>2. list_head_to_task_struct(e) = p
    BY NodeFacts DEF list_head_to_task_struct
  <2> QED BY <2>1, <2>2 DEF init_pcb
<1> HIDE DEF p
<1>7. PICK C : Removed(l, A, h, 1, k, C)
  <2>1. \E C : Removed(l, A, h, 1, list_del(l, A[h][1]), C)
    BY <1>2, <1>3, <1>5, RemoveNode, Zenon
  <2> QED BY <1>5, <2>1
<1>8. /\ Rep(k, C) /\ DOMAIN C = DOMAIN A /\ C[h] = Countdown(p)
      /\ \A j \in DOMAIN A : j # h => C[j] = <<>>
      /\ Members(C) = Members(A) \ {e} /\ ~ Linked(k, e) /\ Within(l, k, Members(A))
  BY <1>2, <1>5, <1>7 DEF Removed
<1> HIDE DEF k, e
<1>9. Blank(k, Members(C))
  BY <1>2, <1>8 DEF Blank, Within, SameLinks, Linked
<1>10. sonlist(p) \in Node /\ sonlist(p) \notin Members(A) /\ sonlist(p) # h
  BY <1>1, BootMembers, NodeFacts DEF Heads
<1>11. PICK B : NewHead(k, C, sonlist(p), m, B)
  <2>1. sonlist(p) \notin Members(C)
    BY <1>8, <1>10
  <2> QED BY <1>8, <1>10, <2>1, MakeHead
<1>12. /\ Rep(m, B) /\ DOMAIN B = DOMAIN C \cup {sonlist(p)} /\ B[sonlist(p)] = <<>>
       /\ \A j \in DOMAIN C : j # sonlist(p) => B[j] = C[j]
       /\ Members(B) = Members(C) \cup {sonlist(p)} /\ Within(k, m, {sonlist(p)})
  BY <1>11 DEF NewHead
<1> HIDE DEF m
<1>13. Blank(m, Members(B))
  BY <1>9, <1>12 DEF Blank, Within, SameLinks, Linked
<1>14. BootHeads(p) = BootHeads(n) \cup {sonlist(p)}
  <2>1. p .. NR_TASKS - 1 = (n .. NR_TASKS - 1) \cup {p}
    BY <1>1, ListsAssumption DEF p
  <2> QED BY <2>1 DEF BootHeads
<1>15. DOMAIN B = BootHeads(p)
  BY <1>2, <1>8, <1>12, <1>14
<1>16. B[h] = Countdown(p)
  BY <1>3, <1>8, <1>10, <1>12
<1>17. \A j \in DOMAIN B : j # h => B[j] = <<>>
  BY <1>8, <1>12
<1>18. Boot(m, B, p)
  BY <1>12, <1>13, <1>15, <1>16, <1>17 DEF Boot
<1> QED BY <1>6, <1>18 DEF p

(* Two PCBs have left the free queue: the lists are sound and the queues   *)
(* that they stand for are those of Process.                               *)
LEMMA BootSound ==
  ASSUME NEW l, NEW A, Boot(l, A, NR_TASKS - 2)
  PROVE  /\ Sound(l, A, task1_task, [p \in Task |-> -1])
         /\ Tasks(A[freequeue]) = [i \in 1 .. NR_TASKS - 2 |-> NR_TASKS - 2 - i]
         /\ Tasks(A[readyqueue]) = <<>> /\ Waiting(A) = {}
         /\ \A p \in Task : Family(A, p) = {}
<1> DEFINE n == NR_TASKS - 2
           par == [p \in Task |-> -1]
<1>1. n \in 0 .. NR_TASKS /\ task1_task = n /\ idle_task = n + 1
  BY ListsAssumption DEF task1_task, idle_task
<1>2. \A p \in Task : p < n \/ p >= n
  BY ListsAssumption DEF Task
<1>3. \A p \in Task : ~ (p < n) => p \in {task1_task, idle_task}
  BY <1>1, ListsAssumption DEF Task
<1> HIDE DEF n
<1>4. Boot(l, A, n)
  BY DEF n
<1>5. /\ Rep(l, A) /\ DOMAIN A = BootHeads(n) /\ A[freequeue] = Countdown(n)
      /\ \A h \in DOMAIN A : h # freequeue => A[h] = <<>>
      /\ Blank(l, Members(A))
  BY <1>4 DEF Boot
<1>6. /\ \A p \in Task : /\ node(p) \in Members(A) <=> p < n
                         /\ sonlist(p) \in Members(A) <=> p >= n
                         /\ sonlist(p) \in DOMAIN A <=> p >= n
      /\ \A p : bros(p) \notin Members(A)
  BY <1>1, <1>4, BootMembers
<1>7. /\ Range(Countdown(n)) \subseteq {node(p) : p \in Task}
      /\ \A p \in Task : node(p) \in Range(Countdown(n)) <=> p < n
  BY <1>1, CountdownFacts
<1>8. Range(<<>>) = {}
  BY DEF Range
<1>9. Collection(A)
  <2>1. Heads \subseteq DOMAIN A
    BY <1>5 DEF BootHeads
  <2>2. DOMAIN A \subseteq Heads \cup {sonlist(p) : p \in Task}
    <3>1. n .. NR_TASKS - 1 \subseteq Task
      BY <1>1, ListsAssumption DEF Task
    <3> QED BY <1>5, <3>1 DEF BootHeads
  <2>3. \A h \in Heads : Range(A[h]) \subseteq {node(p) : p \in Task}
    BY <1>5, <1>7, <1>8, <2>1
  <2>4. \A h \in DOMAIN A \ Heads : Range(A[h]) \subseteq {bros(p) : p \in Task}
    BY <1>5, <1>8 DEF Heads
  <2> QED BY <2>1, <2>2, <2>3, <2>4 DEF Collection
<1>10. Outside(l, A, task1_task, par)
  <2>1. \A k \in Node : k \notin Members(A) => ~ Linked(l, k)
    BY <1>5 DEF Blank
  <2>2. \A p \in Task : p \in Kept(A, task1_task)
    BY <1>3, <1>6 DEF Kept
  <2>3. ASSUME NEW p \in Task PROVE InUse(l, A, p)
    <3>1. bros(p) \in Node /\ sonlist(p) \in Node
      BY NodeFacts
    <3>2. ~ Linked(l, bros(p))
      BY <1>6, <2>1, <3>1
    <3>3. CASE p >= n
      BY <1>6, <3>2, <3>3 DEF InUse
    <3>4. CASE p < n
      BY <1>2, <1>5, <1>6, <1>7, <2>1, <3>1, <3>2, <3>4 DEF InUse
    <3> QED BY <1>2, <3>3, <3>4
  <2>4. \A p \in {task1_task, idle_task} : node(p) \in Node
    BY SameNames, NodeFacts
  <2> QED BY <2>1, <2>2, <2>3, <2>4 DEF Outside
<1>11. Sound(l, A, task1_task, par)
  BY <1>5, <1>9, <1>10 DEF Sound
<1>12. Tasks(A[freequeue]) = [i \in 1 .. n |-> n - i]
  <2>1. DOMAIN Countdown(n) = 1 .. n /\ \A i \in 1 .. n : Countdown(n)[i] = node(n - i)
    BY DEF Countdown
  <2>2. \A i \in 1 .. n : Countdown(n)[i][2] = n - i
    BY <2>1, NodeFacts
  <2> QED BY <1>5, <2>1, <2>2 DEF Tasks
<1>13. A[readyqueue] = <<>> /\ A[blocked] = <<>>
  BY <1>5, <1>9, NodeFacts DEF Collection, Heads
<1>14. Tasks(A[readyqueue]) = <<>>
  BY <1>13 DEF Tasks
<1>15. Waiting(A) = {}
  BY <1>8, <1>13 DEF Waiting
<1>16. ASSUME NEW p \in Task PROVE Family(A, p) = {}
  <2>1. sonlist(p) # freequeue
    BY NodeFacts DEF Heads
  <2>2. sonlist(p) \in DOMAIN A => Range(A[sonlist(p)]) = {}
    BY <1>5, <1>8, <2>1
  <2> QED BY <2>2 DEF Family
<1> QED BY <1>11, <1>12, <1>14, <1>15, <1>16 DEF n, par

(* The kernel boots with sound lists, in an initial state of Process.      *)
LEMMA InitStep ==
  ASSUME Init
  PROVE  LInv /\ P!Init
<1>0. /\ NR_TASKS \in 1 .. NR_TASKS /\ NR_TASKS - 1 \in 1 .. NR_TASKS
      /\ (NR_TASKS - 1) - 1 = NR_TASKS - 2
  BY ListsAssumption
<1>1. PICK A0 : Boot(init_sched, A0, NR_TASKS)
  BY BootSched
<1>2. PICK A1 : Boot(init_pcb(init_sched), A1, NR_TASKS - 1)
  BY <1>0, <1>1, BootPcb
<1>3. PICK A : Boot(init_pcb(init_pcb(init_sched)), A, NR_TASKS - 2)
  <2>1. \E B : Boot(init_pcb(init_pcb(init_sched)), B, (NR_TASKS - 1) - 1)
    BY <1>0, <1>2, BootPcb
  <2> QED BY <1>0, <2>1
<1>4. links = init_pcb(init_pcb(init_sched)) /\ current = task1_task
      /\ parent = [p \in Task |-> -1]
  BY DEF Init
<1>5. Boot(links, A, NR_TASKS - 2)
  BY <1>3, <1>4
<1>6. /\ Sound(links, A, current, parent)
      /\ Tasks(A[freequeue]) = [i \in 1 .. NR_TASKS - 2 |-> NR_TASKS - 2 - i]
      /\ Tasks(A[readyqueue]) = <<>> /\ Waiting(A) = {}
      /\ \A p \in Task : Family(A, p) = {}
  BY <1>4, <1>5, BootSound
<1>7. /\ FreeTasks = Tasks(A[freequeue]) /\ ReadyTasks = Tasks(A[readyqueue])
      /\ BlockedTasks = Waiting(A) /\ Families = [p \in Task |-> Family(A, p)]
  BY <1>6, Abstraction, ReadState
<1>8. Families = [p \in Task |-> {}]
  BY <1>6, <1>7
<1>9. PP!task1_task = task1_task
  BY DEF PP!task1_task, task1_task
<1>10. PP!Init
  BY <1>6, <1>7, <1>8, <1>9, SameNames DEF PP!Init, Init
<1>11. PP!ProcessInv
  BY <1>10, Assumptions, PP!InitInv
<1>12. Roots
  <2>1. PP!Live = LiveIn(A, current)
    BY <1>6, <1>11, Facts
  <2>2. LiveIn(A, current) = {task1_task, idle_task}
    <3>1. \A p \in Task : node(p) \notin Range(A[blocked])
      BY <1>6 DEF Waiting
    <3>2. A[readyqueue] \in Seq(Node)
          /\ Range(A[readyqueue]) \subseteq {node(p) : p \in Task}
      <4>1. Rep(links, A) /\ Collection(A)
        BY <1>6 DEF Sound
      <4>2. readyqueue \in Heads /\ readyqueue \in DOMAIN A
        BY <4>1 DEF Collection, Heads
      <4> QED BY <4>1, <4>2, CollectionFacts DEF Collection
    <3>3. \A p : node(p) \notin Range(A[readyqueue])
      <4>1. A[readyqueue] = <<>>
        BY <1>6, <3>2, TasksFacts
      <4> QED BY <4>1 DEF Range
    <3> QED BY <1>4, <3>1, <3>3 DEF LiveIn
  <2>3. PID[task1_task] = 1 /\ PID[idle_task] = 0 /\ next_pid = 2
    BY SameNames DEF Init
  <2>4. parent[task1_task] = -1 /\ parent[idle_task] = -1
    BY <1>4, SameNames
  <2> QED BY <2>1, <2>2, <2>3, <2>4 DEF Roots
<1> QED BY <1>6, <1>10, <1>11, <1>12, SameProcess DEF LInv

-----------------------------------------------------------------------------
(* Every step keeps the invariant and is a step of Process, or none: a     *)
(* call of unblock for a PID that no son has changes nothing.              *)
LEMMA NextStep ==
  ASSUME LInv, [Next]_vars
  PROVE  LInv' /\ [P!Next]_(P!vars)
<1>1. CASE clk_routine
  BY <1>1, ClkStep DEF P!Next
<1>2. CASE \E mm \in MemoryOutcomes : sys_fork(mm)
  <2>1. PICK mm \in MemoryOutcomes : sys_fork(mm)
    BY <1>2
  <2>2. mm \in BOOLEAN
    BY ListsAssumption
  <2>3. LInv' /\ P!sys_fork(mm)
    BY <2>1, <2>2, ForkStep
  <2> QED BY <2>3 DEF P!Next
<1>3. CASE sys_exit
  BY <1>3, ExitStep DEF P!Next
<1>4. CASE sys_block
  BY <1>4, BlockStep DEF P!Next
<1>5. CASE \E pid \in 1 .. MAX_PID : sys_unblock(pid)
  <2>1. PICK pid \in 1 .. MAX_PID : sys_unblock(pid)
    BY <1>5
  <2>2. LInv' /\ ((\E son \in Task : P!sys_unblock(son)) \/ UNCHANGED P!vars)
    BY <2>1, UnblockStep
  <2>3. P!Task = Task
    BY DEF P!Task, Task
  <2> QED BY <2>2, <2>3 DEF P!Next
<1>6. CASE numbros_faults
  BY <1>6, NumbrosStep DEF P!Next
<1>7. CASE pgf_spin
  BY <1>7, SpinStep
<1>8. CASE UNCHANGED vars
  BY <1>8, SameVars
<1> QED BY <1>1, <1>2, <1>3, <1>4, <1>5, <1>6, <1>7, <1>8 DEF Next

-----------------------------------------------------------------------------
(* Both directions of every list agree.                                    *)
LEMMA AgreeInv ==
  ASSUME LInv
  PROVE  LinksAgree
<1>1. PICK A : Sound(links, A, current, parent)
  BY DEF LInv
<1>2. PP!ProcessInv /\ Rep(links, A) /\ Collection(A) /\ Outside(links, A, current, parent)
  BY <1>1 DEF LInv, Sound
<1>3. /\ PP!Live = LiveIn(A, current)
      /\ Kept(A, current) = LiveIn(A, current)
            \cup {p \in Task : node(p) \in Range(A[freequeue])}
  BY <1>1, <1>2, Facts
<1>4. FreeTasks = Tasks(A[freequeue])
  BY <1>1, Abstraction, ReadState
<1>5. /\ freequeue \in DOMAIN A /\ A[freequeue] \in Seq(Node)
      /\ Range(A[freequeue]) \subseteq {node(p) : p \in Task}
      /\ \A p : sonlist(p) \in Members(A) <=> sonlist(p) \in DOMAIN A
  <2>1. freequeue \in Heads
    BY DEF Heads
  <2> QED BY <1>2, <2>1, CollectionFacts DEF Collection
<1>6. P!Live \cup Range(FreeTasks) = Kept(A, current)
  <2>1. \A p : p \in Range(FreeTasks) <=> node(p) \in Range(A[freequeue])
    BY <1>4, <1>5, TasksMember
  <2>2. \A p : node(p) \in Range(A[freequeue]) => p \in Task
    BY <1>5, NodeFacts
  <2> QED BY <1>3, <2>1, <2>2, SameProcess
<1>7. Heads \subseteq Members(A)
  BY <1>2 DEF Collection, Members
<1>8. ASSUME NEW n \in Node
      PROVE  \/ ~ Linked(links, n)
             \/ links.next[links.prev[n]] = n /\ links.prev[links.next[n]] = n
             \/ \E p \in LostTasks : n \in {node(p), bros(p), sonlist(p)}
  <2>1. CASE n \in Members(A)
    BY <1>2, <2>1, InList
  <2>2. CASE n \notin Members(A)
    <3>1. PICK p \in Task : n \in {node(p), bros(p), sonlist(p)}
      BY <1>7, <2>2 DEF Node, Heads
    <3>2. ASSUME p \in Kept(A, current) PROVE ~ Linked(links, n)
      <4>1. InUse(links, A, p)
        BY <1>2, <3>2 DEF Outside
      <4>2. CASE n = node(p)
        BY <1>2, <2>2, <3>2, <4>2 DEF Kept, Outside
      <4>3. CASE n = bros(p)
        BY <2>2, <4>1, <4>3 DEF InUse
      <4>4. CASE n = sonlist(p)
        BY <1>5, <2>2, <4>1, <4>4 DEF InUse
      <4> QED BY <3>1, <4>2, <4>3, <4>4
    <3> QED BY <1>6, <3>1, <3>2 DEF LostTasks
  <2> QED BY <2>1, <2>2
<1> QED BY <1>8 DEF LinksAgree

(* A family has as many members as its list has nodes.                     *)
LEMMA FamilyCount ==
  ASSUME NEW l, NEW A, Rep(l, A), Collection(A), NEW p \in Task, sonlist(p) \in DOMAIN A
  PROVE  /\ Cardinality(Family(A, p)) = Len(A[sonlist(p)])
         /\ IsFiniteSet(Family(A, p)) /\ Len(A[sonlist(p)]) \in Nat
<1> DEFINE s == A[sonlist(p)]
           t == Tasks(s)
<1>1. s \in Seq(Node) /\ IsInjective(s) /\ Range(s) \subseteq {bros(q) : q \in Task}
  BY CollectionFacts DEF Collection
<1> HIDE DEF s
<1>2. /\ t \in Seq(Task) /\ Len(t) = Len(s) /\ DOMAIN s = 1 .. Len(s) /\ DOMAIN t = 1 .. Len(s)
      /\ \A i \in 1 .. Len(s) : t[i] = s[i][2]
  BY <1>1, TasksFacts
<1>3. IsInjective(t)
  <2>1. \A i \in 1 .. Len(s) : s[i] = bros(s[i][2])
    <3>1. \A i \in 1 .. Len(s) : \E q \in Task : s[i] = bros(q)
      BY <1>1, <1>2 DEF Range
    <3> QED BY <3>1, NodeFacts
  <2>2. ASSUME NEW i \in DOMAIN t, NEW j \in DOMAIN t, t[i] = t[j] PROVE i = j
    <3>1. s[i] = s[j]
      BY <1>2, <2>1, <2>2
    <3> QED BY <1>1, <1>2, <3>1 DEF IsInjective
  <2> HIDE DEF t
  <2> QED BY <2>2 DEF IsInjective
<1>4. Range(t) = Family(A, p)
  <2>1. \A q : q \in Range(t) <=> bros(q) \in Range(s)
    BY <1>1, TasksMember
  <2>2. \A q : bros(q) \in Range(s) => q \in Task
    BY <1>1, NodeFacts
  <2> QED BY <2>1, <2>2 DEF Family, s
<1> HIDE DEF t
<1>5. IsFiniteSet(Range(t)) /\ Cardinality(Range(t)) = Len(t) /\ Len(t) \in Nat
  BY <1>2, <1>3, RangeCount
<1> QED BY <1>2, <1>4, <1>5 DEF s

(* The abstract module counts as this one does.                            *)
LEMMA SameCount == \A S : P!Cardinality(S) = Cardinality(S)
  BY DEF P!Cardinality, Cardinality

(* The walks of numsons and numbros count the members of a family.         *)
LEMMA CountInv ==
  ASSUME LInv
  PROVE  WalksCount
<1>1. PICK A : Sound(links, A, current, parent)
  BY DEF LInv
<1>2. PP!ProcessInv /\ Rep(links, A) /\ Collection(A) /\ Outside(links, A, current, parent)
  BY <1>1 DEF LInv, Sound
<1>3. /\ current \in Task
      /\ \A p \in LiveIn(A, current) : node(p) \notin Range(A[freequeue])
      /\ \A p, q \in Task : p \in Family(A, q) => parent[p] = q
  BY <1>1, <1>2, Facts
<1>4. Families = [p \in Task |-> Family(A, p)]
  BY <1>1, Abstraction, ReadState
<1>5. InUse(links, A, current) /\ sonlist(current) \in DOMAIN A
  <2>1. current \in Kept(A, current) /\ current \in LiveIn(A, current)
    BY DEF Kept, LiveIn
  <2>2. InUse(links, A, current)
    BY <1>2, <1>3, <2>1 DEF Outside
  <2> QED BY <1>3, <2>1, <2>2 DEF InUse
<1>6. sys_numsons = P!sys_numsons
  <2>1. Ring(links, sonlist(current), A[sonlist(current)])
    BY <1>2, <1>5 DEF Rep
  <2>2. list_size(links, sonlist(current)) = Len(A[sonlist(current)])
    BY <2>1, RingCount
  <2>3. Cardinality(Family(A, current)) = Len(A[sonlist(current)])
    BY <1>2, <1>3, <1>5, FamilyCount
  <2>4. Families[current] = Family(A, current)
    BY <1>3, <1>4
  <2> QED BY <2>2, <2>3, <2>4, SameCount DEF sys_numsons, P!sys_numsons
<1>7. ASSUME Linked(links, bros(current)) PROVE sys_numbros = P!numbros
  <2>1. bros(current) \in Members(A)
    BY <1>5, <1>7 DEF InUse
  <2>2. PICK q \in Task : sonlist(q) \in DOMAIN A /\ bros(current) \in Range(A[sonlist(q)])
    BY <1>2, <2>1, CollectionFacts
  <2> DEFINE s == A[sonlist(q)]
             F == Family(A, q)
  <2>3. Ring(links, sonlist(q), s)
    BY <1>2, <2>2 DEF Rep
  <2>4. PICK j \in DOMAIN s : s[j] = bros(current)
    BY <2>2 DEF Range
  <2>5. DOMAIN s = 1 .. Len(s)
    <3>1. s \in Seq(Node)
      BY <2>3 DEF Ring
    <3> QED BY <3>1, LenProperties
  <2>6. list_size(links, bros(current)) = Len(s)
    BY <2>3, <2>4, <2>5, RingCount
  <2>7. Cardinality(F) = Len(s) /\ IsFiniteSet(F) /\ Len(s) \in Nat
    BY <1>2, <2>2, FamilyCount
  <2>8. current \in F
    BY <1>3, <2>2 DEF Family
  <2>9. P!siblings(current) = F
    <3>1. P!Task = Task
      BY DEF P!Task, Task
    <3>2. {r \in Task : current \in Families[r]} = {q}
      BY <1>3, <1>4, <2>8
    <3>3. Families[q] = F
      BY <1>4
    <3> QED BY <3>1, <3>2, <3>3 DEF P!siblings
  <2> HIDE DEF F, s
  <2>10. Cardinality(F \ {current}) = Cardinality(F) - 1
    BY <2>7, <2>8, FS_RemoveElement
  <2>11. P!list_size_bros = Cardinality(F \ {current}) + 1
    BY <2>9, SameCount DEF P!list_size_bros
  <2> QED BY <2>6, <2>7, <2>10, <2>11 DEF sys_numbros, P!numbros
<1> QED BY <1>6, <1>7 DEF WalksCount

-----------------------------------------------------------------------------
(* For every number of PCBs and every mix of system calls and clock        *)
(* interrupts the circular lists of sched.c and list.c stay sound: both    *)
(* directions of each list agree, only a PCB lost by a failed fork holds   *)
(* links that do not lead back to it, and the walks of sys_numsons and     *)
(* sys_numbros count what they should, whichever node they start from.     *)
THEOREM ListsAlwaysSound == Spec => []ListsSound
<1>1. Init => LInv
  BY InitStep
<1>2. LInv /\ [Next]_vars => LInv'
  BY NextStep
<1>3. LInv => ListsSound
  BY AgreeInv, CountInv DEF ListsSound
<1> QED BY <1>1, <1>2, <1>3, PTL DEF Spec

(* The linked lists implement the queues and families of Process: every    *)
(* behaviour of the kernel on its list_head fields, from the boot on, is   *)
(* one of Process on sequences and sets, with the same faults.             *)
THEOREM ListsImplement == Spec => ListsImplementQueues
<1>1. Init => LInv /\ P!Init
  BY InitStep
<1>2. LInv /\ [Next]_vars => LInv' /\ [P!Next]_(P!vars)
  BY NextStep
<1> QED BY <1>1, <1>2, PTL DEF Spec, ListsImplementQueues, P!Spec
=============================================================================
