---------------------------- MODULE MemoryProofs ----------------------------
(***************************************************************************)
(* Frames and shared pages are counted right for every number of           *)
(* processes, pages and frames, with copy on write and without, and copy   *)
(* on write keeps the memory of processes apart.                           *)
(***************************************************************************)
EXTENDS Memory, FiniteSetTheorems, SequenceTheorems, WellFoundedInduction, TLAPS

(* Every nonempty set of naturals has a least element: induction, in the   *)
(* form that the provers can use.                                          *)
LEMMA LeastNat ==
  ASSUME NEW T \in SUBSET Nat, T # {}
  PROVE  \E n \in T : \A m \in T : n <= m
<1>1. PICK R : /\ IsWellFoundedOn(R, Nat)
               /\ \A x, y \in Nat : x < y => <<x, y>> \in R
  <2>1. \A x, y \in Nat : x < y => <<x, y>> \in OpToRel(<, Nat)
    BY DEF OpToRel
  <2>2. IsWellFoundedOn(OpToRel(<, Nat), Nat)
    BY NatLessThanWellFounded
  <2> QED BY <2>1, <2>2, Zenon
<1>2. T \subseteq Nat
  OBVIOUS
<1>3. \E n \in T : \A m \in T : ~ (<<m, n>> \in R)
  <2>1. IsWellFoundedOn(R, Nat)
    BY <1>1, Zenon
  <2> QED BY <2>1, <1>2, WFMin
<1>4. PICK n \in T : \A m \in T : ~ (<<m, n>> \in R)
  BY <1>3
<1>5. ASSUME NEW m \in T PROVE ~ (m < n)
  BY <1>1, <1>2, <1>4, Zenon
<1>6. ASSUME NEW m \in T PROVE n <= m
  BY <1>2, <1>5
<1> QED BY <1>6

(* The frames of boot: shared pages, then code; data frames come after.    *)
SharedFrame == {FrameNo(n) : n \in 1 .. NUM_SHARED_PAGES}
CodeFrame   == {FrameNo(n) : n \in NUM_SHARED_PAGES + 1
                                   .. NUM_SHARED_PAGES + NUM_PAG_CODE}
DataFrame   == FrameNo(NUM_SHARED_PAGES + NUM_PAG_CODE + 1) .. TOTAL_PAGES - 1

Types ==
    /\ pcb \in [Task -> {"free", "alive", "leaked"}]
    /\ phys_mem \in [Frame -> Int]
    /\ pt \in [Task -> [UserPage -> Entry]]
    /\ shared_pages \in [ShmId -> [frame : Frame, num_refs : Int,
                                   to_clear : BOOLEAN]]
    /\ content \in [Frame -> Val]
    /\ halted \in BOOLEAN

(* What the tables map: data pages data frames, code pages code frames; an *)
(* entry above them may be written.  A frame is mapped at one data page    *)
(* only, whoever maps it.                                                  *)
DataMapped == \A p \in Task, g \in DataPage :
    /\ pt[p][g] = NoEntry \/ pt[p][g].frame \in DataFrame
    /\ pcb[p] = "free" => pt[p][g] = NoEntry
    /\ pcb[p] = "alive" => pt[p][g].frame \in DataFrame
CodeMapped == \A p \in Task, g \in CodePage :
    /\ pt[p][g].frame \in CodeFrame \cup {0}
    /\ pcb[p] = "alive" => pt[p][g].frame \in CodeFrame
HighMapped == \A p \in Task, g \in HighPage :
    pt[p][g] = NoEntry \/ pt[p][g].rw
OnePage == \A p, q \in Task, g, h \in DataPage :
    pt[p][g].frame = pt[q][h].frame /\ pt[p][g].frame \in DataFrame => g = h

BootFrames ==
    /\ \A f \in SharedFrame \cup CodeFrame : phys_mem[f] = 1
    /\ \A f \in Frame \ DataFrame : phys_mem[f] \in {0, 1}
SharedKept == \A i \in ShmId : shared_pages[i].frame = FrameNo(i + 1)
RefsBound  == \A i \in ShmId : shared_pages[i].num_refs \in 0 .. MAX_REFS

(* Without copy on write no data frame is shared, with it none that may be *)
(* written.  Only failed forks leave temporary mappings above the code, and*)
(* with copy on write none fails.                                          *)
WritableSole == \A p \in Task, g \in DataPage :
    pt[p][g].frame \in DataFrame /\ (pt[p][g].rw \/ ~ USE_COW)
        => phys_mem[pt[p][g].frame] = 1
HighShared == \A p \in Task, g \in HighPage :
    pt[p][g] = NoEntry \/ pt[p][g].frame \in SharedFrame
NoLeak   == \A p \in Task : pcb[p] # "leaked"
Separate == WritableSole /\ (NoLeak => HighShared) /\ (USE_COW => NoLeak)

(* The inductive invariant: data pages, code pages, shared pages.          *)
DataInv == DataMapped /\ OnePage /\ BootFrames /\ FrameRefs
HighInv == HighMapped /\ SharedKept /\ RefsBound /\ RefsCountEntries
IInv    == Types /\ DataInv /\ CodeMapped /\ HighInv /\ Separate

-----------------------------------------------------------------------------
(* Pages and frames.                                                       *)

LEMMA Sizes ==
  /\ NR_TASKS \in Nat \ {0} /\ TOTAL_PAGES \in Nat /\ TOTAL_PAGES <= 4096
  /\ NUM_PAG_KERNEL \in Nat \ {0} /\ NUM_PAG_DATA \in Nat \ {0}
  /\ NUM_PAG_CODE \in Nat /\ NUM_SHARED_PAGES \in Nat \ {0}
  /\ NUM_PAG_KERNEL + NUM_PAG_CODE + NUM_PAG_DATA < TOTAL_PAGES
  /\ NUM_PAG_KERNEL + 2 * (NUM_SHARED_PAGES + NUM_PAG_CODE + NUM_PAG_DATA - 1)
       < TOTAL_PAGES
  BY MemoryAssumption DEF USER_LAST_PAGE, USER_FIRST_PAGE, FrameNo

LEMMA PageSets ==
  /\ UserPage = DataPage \cup CodePage \cup HighPage
  /\ DataPage \cap CodePage = {} /\ DataPage \cap HighPage = {}
  /\ CodePage \cap HighPage = {}
  /\ DataPage # {} /\ IsFiniteSet(DataPage) /\ IsFiniteSet(HighPage)
  /\ HighPage \subseteq Nat
<1> USE Sizes DEF UserPage, DataPage, CodePage, HighPage, USER_LAST_PAGE,
                  USER_FIRST_PAGE
<1>1. UserPage = DataPage \cup CodePage \cup HighPage
  OBVIOUS
<1>2. DataPage \cap CodePage = {} /\ DataPage \cap HighPage = {}
      /\ CodePage \cap HighPage = {}
  OBVIOUS
<1>3. DataPage # {} /\ HighPage \subseteq Nat
  <2>1. USER_FIRST_PAGE \in DataPage
    OBVIOUS
  <2>2. HighPage \subseteq Nat
    OBVIOUS
  <2> HIDE DEF DataPage, HighPage
  <2> QED BY <2>1, <2>2
<1>4. IsFiniteSet(DataPage) /\ IsFiniteSet(HighPage)
  BY FS_Interval
<1> QED BY <1>1, <1>2, <1>3, <1>4

LEMMA FrameSets ==
  /\ DataFrame \subseteq Frame /\ 0 \notin DataFrame
  /\ \A f \in DataFrame : f > NUM_PAG_KERNEL /\ f \in Nat
  /\ SharedFrame \cup CodeFrame \subseteq Frame /\ 0 \notin SharedFrame \cup CodeFrame
  /\ SharedFrame \cap CodeFrame = {} /\ SharedFrame \cap DataFrame = {}
  /\ CodeFrame \cap DataFrame = {}
  /\ \A i \in ShmId : FrameNo(i + 1) \in SharedFrame
  /\ \A i, j \in ShmId : FrameNo(i + 1) = FrameNo(j + 1) => i = j
  /\ \A f \in Frame : /\ f >= NUM_PAG_KERNEL /\ (f - NUM_PAG_KERNEL) % 2 = 0
                      /\ f \notin SharedFrame \cup CodeFrame
                      => f \in DataFrame
<1> USE Sizes DEF FrameNo, DataFrame, Frame
<1>1. DataFrame \subseteq Frame /\ 0 \notin DataFrame
  OBVIOUS
<1>2. \A f \in DataFrame : f > NUM_PAG_KERNEL /\ f \in Nat
  OBVIOUS
<1>3. \A f \in SharedFrame :
        /\ f \in Frame /\ f >= NUM_PAG_KERNEL
        /\ f < NUM_PAG_KERNEL + 2 * NUM_SHARED_PAGES
  BY DEF SharedFrame
<1>4. \A f \in CodeFrame :
        /\ f \in Frame /\ f >= NUM_PAG_KERNEL + 2 * NUM_SHARED_PAGES
        /\ f < NUM_PAG_KERNEL + 2 * (NUM_SHARED_PAGES + NUM_PAG_CODE)
  BY DEF CodeFrame
<1>5. \A f \in DataFrame :
        f >= NUM_PAG_KERNEL + 2 * (NUM_SHARED_PAGES + NUM_PAG_CODE)
  OBVIOUS
<1>6. \A i \in ShmId : FrameNo(i + 1) \in SharedFrame
  BY DEF ShmId, SharedFrame
<1>7. \A i, j \in ShmId : FrameNo(i + 1) = FrameNo(j + 1) => i = j
  BY DEF ShmId
<1>8. ASSUME NEW f \in Frame, f >= NUM_PAG_KERNEL,
             (f - NUM_PAG_KERNEL) % 2 = 0, f \notin SharedFrame \cup CodeFrame
      PROVE  f \in DataFrame
  <2> DEFINE n == (f - NUM_PAG_KERNEL) \div 2 + 1
  <2>1. n \in Nat /\ n >= 1 /\ f = FrameNo(n)
    BY <1>8
  <2> HIDE DEF n
  <2>2. n \notin 1 .. NUM_SHARED_PAGES
    BY <1>8, <2>1 DEF SharedFrame
  <2>3. n \notin NUM_SHARED_PAGES + 1 .. NUM_SHARED_PAGES + NUM_PAG_CODE
    BY <1>8, <2>1 DEF CodeFrame
  <2>4. n >= NUM_SHARED_PAGES + NUM_PAG_CODE + 1
    BY <2>1, <2>2, <2>3
  <2> QED BY <2>1, <2>4
<1>9. /\ SharedFrame \cup CodeFrame \subseteq Frame
      /\ 0 \notin SharedFrame \cup CodeFrame
      /\ SharedFrame \cap CodeFrame = {} /\ SharedFrame \cap DataFrame = {}
      /\ CodeFrame \cap DataFrame = {}
  <2> HIDE DEF FrameNo, DataFrame
  <2>1. 0 \notin SharedFrame /\ 0 \notin CodeFrame
    BY <1>3, <1>4
  <2>2. SharedFrame \cap CodeFrame = {}
    BY <1>3, <1>4
  <2>3. SharedFrame \cap DataFrame = {} /\ CodeFrame \cap DataFrame = {}
    BY <1>1, <1>3, <1>4, <1>5
  <2> QED BY <1>3, <1>4, <2>1, <2>2, <2>3
<1> HIDE DEF FrameNo, DataFrame, Frame
<1> QED BY <1>1, <1>2, <1>6, <1>7, <1>8, <1>9

-----------------------------------------------------------------------------
(* Counting.                                                               *)

LEMMA TaskFinite == IsFiniteSet(Task) /\ Cardinality(Task) = NR_TASKS
<1> DEFINE n == NR_TASKS - 1
<1>1. NR_TASKS \in Nat \ {0} /\ n \in Nat
  BY Sizes
<1> HIDE DEF n
<1>2. 0 \in Int /\ n \in Int
  BY <1>1
<1>3. /\ IsFiniteSet(0 .. n)
      /\ Cardinality(0 .. n) = IF 0 > n THEN 0 ELSE n - 0 + 1
  BY <1>2, FS_Interval
<1>4. Cardinality(0 .. n) = n + 1
  BY <1>1, <1>3
<1> QED BY <1>1, <1>3, <1>4 DEF Task, n

LEMMA EntriesFinite ==
  ASSUME NEW S, IsFiniteSet(S), NEW f
  PROVE  IsFiniteSet(Entries(S, f)) /\ Cardinality(Entries(S, f)) \in Nat
<1>1. IsFiniteSet(Task \X S)
  BY TaskFinite, FS_Product
<1>2. IsFiniteSet(Entries(S, f))
  BY <1>1, FS_Subset DEF Entries
<1> QED BY <1>2, FS_CardinalityType

(* The n-th element of a set of naturals exists, and no two are the same.  *)
LEMMA NthElement ==
  ASSUME NEW S \in SUBSET Nat, IsFiniteSet(S), NEW n \in 1 .. Cardinality(S)
  PROVE  Nth(S, n) \in S /\ Cardinality({y \in S : y < Nth(S, n)}) = n - 1
<1> DEFINE Below(x) == {y \in S : y < x}
           Has(k)   == \E x \in S : Cardinality(Below(x)) = k - 1
           T        == {k \in 1 .. Cardinality(S) : ~ Has(k)}
<1>1. Cardinality(S) \in Nat /\ T \in SUBSET Nat
  BY FS_CardinalityType
<1>2. \A x : IsFiniteSet(Below(x))
  BY FS_Subset
<1>3. SUFFICES Has(n)
  BY DEF Nth
<1>4. SUFFICES ASSUME T # {} PROVE FALSE
  OBVIOUS
<1>5. PICK k \in T : \A m \in T : k <= m
  BY <1>1, <1>4, LeastNat
<1>6. k \in Nat /\ k >= 1 /\ k <= Cardinality(S) /\ ~ Has(k)
  BY <1>1, <1>5
<1>7. CASE k = 1
  <2>1. S # {}
    <3>1. Cardinality(S) # 0
      BY <1>6, <1>7
    <3> QED BY <3>1, FS_EmptySet
  <2>2. PICK x \in S : \A y \in S : x <= y
    BY <2>1, LeastNat
  <2>3. \A y \in S : ~ (y < x)
    BY <2>2
  <2>4. Cardinality(Below(x)) = 0
    BY <2>3, FS_EmptySet
  <2>5. k - 1 = 0
    BY <1>7
  <2>6. Has(k)
    BY <2>4, <2>5
  <2> QED BY <1>6, <2>6
<1>8. CASE k # 1
  <2>1. k - 1 \in 1 .. Cardinality(S) /\ ~ (k <= k - 1)
    BY <1>1, <1>6, <1>8
  <2>2. PICK x \in S : Cardinality(Below(x)) = k - 2
    <3>1. Has(k - 1)
      BY <1>5, <2>1
    <3>2. (k - 1) - 1 = k - 2
      BY <1>6
    <3> QED BY <3>1, <3>2
  <2> DEFINE Upto == Below(x) \cup {x}
             Above == S \ Upto
  <2>3. x \notin Below(x) /\ IsFiniteSet(Below(x))
    BY <1>2
  <2>4. Cardinality(Upto) = k - 1 /\ IsFiniteSet(Upto)
    <3>1. Cardinality(Upto) = Cardinality(Below(x)) + 1 /\ IsFiniteSet(Upto)
      BY <2>3, FS_AddElement
    <3> QED BY <1>6, <2>2, <3>1
  <2>5. Above # {} /\ Above \in SUBSET Nat
    <3>1. SUFFICES ASSUME Above = {} PROVE FALSE
      OBVIOUS
    <3>2. S = Upto
      BY <3>1
    <3> HIDE DEF Upto
    <3> QED BY <1>6, <2>4, <3>2
  <2>6. PICK z \in Above : \A y \in Above : z <= y
    BY <2>5, LeastNat
  <2>7. Below(z) = Upto /\ z \in S
    <3>1. \A y \in S : y < z <=> y \in Upto
      BY <2>6
    <3> QED BY <3>1
  <2>8. Cardinality(Below(z)) = k - 1
    BY <2>4, <2>7
  <2> QED BY <1>6, <2>7, <2>8
<1> QED BY <1>7, <1>8

LEMMA NthDiffer ==
  ASSUME NEW S \in SUBSET Nat, IsFiniteSet(S),
         NEW m \in 1 .. Cardinality(S), NEW n \in 1 .. Cardinality(S),
         Nth(S, m) = Nth(S, n)
  PROVE  m = n
<1>1. m - 1 = n - 1
  BY NthElement
<1> QED BY <1>1, FS_CardinalityType

LEMMA MinOf ==
  ASSUME NEW S \in SUBSET Nat, S # {}
  PROVE  Min(S) \in S
<1>1. \E x \in S : \A y \in S : x <= y
  BY LeastNat
<1> QED BY <1>1 DEF Min

(* Free frames may hold data, and nobody maps them as such.                *)
LEMMA FreeFramesUnused ==
  ASSUME Types, DataInv
  PROVE  /\ FreeFrames \in SUBSET Nat /\ FreeFrames \subseteq DataFrame
         /\ IsFiniteSet(FreeFrames) /\ NewFrames \in Nat
         /\ \A f \in FreeFrames : \A p \in Task, g \in DataPage :
                pt[p][g].frame # f
<1>1. FreeFrames \subseteq DataFrame
  BY FrameSets DEF FreeFrames, DataInv, BootFrames
<1>2. FreeFrames \in SUBSET Nat
  BY <1>1, FrameSets
<1>3. IsFiniteSet(FreeFrames) /\ NewFrames \in Nat
  <2>1. IsFiniteSet(Frame)
    <3>1. 0 \in Int /\ TOTAL_PAGES - 1 \in Int
      BY Sizes
    <3> QED BY <3>1, FS_Interval DEF Frame
  <2>2. IsFiniteSet(FreeFrames)
    BY <2>1, FS_Subset DEF FreeFrames
  <2> QED BY <2>2, FS_CardinalityType DEF NewFrames
<1>4. ASSUME NEW f \in FreeFrames, NEW p \in Task, NEW g \in DataPage,
             pt[p][g].frame = f
      PROVE  FALSE
  <2>1. f \in DataFrame /\ phys_mem[f] = 0
    BY <1>1 DEF FreeFrames
  <2>2. Cardinality(Entries(DataPage, f)) = 0
    BY <2>1 DEF DataInv, FrameRefs, DataFrame
  <2>3. Entries(DataPage, f) = {}
    BY <2>2, PageSets, EntriesFinite, FS_EmptySet
  <2>4. <<p, g>> \in Entries(DataPage, f)
    BY <1>4 DEF Entries
  <2> QED BY <2>3, <2>4
<1> QED BY <1>1, <1>2, <1>3, <1>4

(* A data frame with one reference has one entry.                          *)
LEMMA Sole ==
  ASSUME DataInv, NEW p \in Task, NEW g \in DataPage,
         pt[p][g].frame \in DataFrame, phys_mem[pt[p][g].frame] = 1,
         NEW q \in Task, NEW h \in DataPage, pt[q][h].frame = pt[p][g].frame
  PROVE  p = q /\ g = h
<1> DEFINE f == pt[p][g].frame
<1>1. Cardinality(Entries(DataPage, f)) = 1
  BY DEF DataInv, FrameRefs, DataFrame
<1>2. PICK e : Entries(DataPage, f) = {e}
  BY <1>1, PageSets, EntriesFinite, FS_Singleton
<1>3. <<p, g>> \in Entries(DataPage, f) /\ <<q, h>> \in Entries(DataPage, f)
  BY DEF Entries
<1> QED BY <1>2, <1>3

(* fork and exit find no shared page: the index of a frame shifted by 12   *)
(* bits is beyond every frame.                                             *)
LEMMA NoSharedFound ==
  ASSUME Types, SharedKept, NEW p \in Task, NEW n \in Int
  PROVE  SharedOf(p) = {} /\ AddRefs(p, n) = shared_pages
<1>1. ASSUME NEW g \in HighPage PROVE is_frame_shared(pt[p][g].frame * 4096) = 0
  <2> DEFINE f == pt[p][g].frame
  <2>1. f \in Frame
    BY PageSets DEF Types, Entry
  <2>2. f \in Nat /\ f < TOTAL_PAGES /\ TOTAL_PAGES <= 4096
    BY <2>1, Sizes DEF Frame
  <2>3. ASSUME NEW i \in ShmId PROVE shared_pages[i].frame # f * 4096
    <3>1. shared_pages[i].frame \in SharedFrame
      BY FrameSets DEF SharedKept
    <3>2. shared_pages[i].frame \in Frame /\ shared_pages[i].frame # 0
      BY <3>1, FrameSets
    <3> HIDE DEF f
    <3> QED BY <2>2, <3>2, Sizes DEF Frame
  <2> QED BY <2>3 DEF is_frame_shared
<1>2. SharedOf(p) = {}
  BY <1>1 DEF SharedOf
<1> DEFINE K(i) == Cardinality({g \in SharedOf(p) :
                         is_frame_shared(pt[p][g].frame * 4096) = i})
<1>3. \A i : K(i) = 0
  <2>1. \A i : {g \in SharedOf(p) :
                  is_frame_shared(pt[p][g].frame * 4096) = i} = {}
    BY <1>2
  <2> QED BY <2>1, FS_EmptySet
<1>4. AddRefs(p, n) = [i \in ShmId |-> [shared_pages[i] EXCEPT
                         !.num_refs = shared_pages[i].num_refs + n * K(i)]]
  BY DEF AddRefs
<1> HIDE DEF K
<1>5. ASSUME NEW i \in ShmId
      PROVE  [shared_pages[i] EXCEPT
                !.num_refs = shared_pages[i].num_refs + n * K(i)]
             = shared_pages[i]
  <2>1. shared_pages[i] \in [frame : Frame, num_refs : Int, to_clear : BOOLEAN]
    BY DEF Types
  <2>2. \A m \in Int : m + n * 0 = m
    OBVIOUS
  <2>3. shared_pages[i].num_refs + n * K(i) = shared_pages[i].num_refs
    BY <1>3, <2>1, <2>2
  <2> QED BY <2>1, <2>3
<1>6. AddRefs(p, n) = [i \in ShmId |-> shared_pages[i]]
  BY <1>4, <1>5
<1> QED BY <1>2, <1>6 DEF Types

LEMMA Disjoint ==
  ASSUME NEW S, NEW T, IsFiniteSet(S), IsFiniteSet(T), S \cap T = {}
  PROVE  Cardinality(S \cup T) = Cardinality(S) + Cardinality(T)
<1>1. Cardinality(S \cup T) =
        Cardinality(S) + Cardinality(T) - Cardinality(S \cap T)
  BY FS_Union
<1>2. Cardinality(S) \in Nat /\ Cardinality(T) \in Nat
  BY FS_CardinalityType
<1> QED BY <1>1, <1>2, FS_EmptySet

(* The data pages that table p maps to f, as entries.                      *)
PagesAt(p, f) == {g \in DataPage : pt[p][g].frame = f}

LEMMA Row ==
  ASSUME NEW p, NEW f, NEW q
  PROVE  /\ IsFiniteSet({q} \X PagesAt(p, f))
         /\ Cardinality({q} \X PagesAt(p, f)) = Cardinality(PagesAt(p, f))
         /\ Cardinality(PagesAt(p, f)) \in Nat
<1>1. IsFiniteSet(PagesAt(p, f))
  BY PageSets, FS_Subset DEF PagesAt
<1>2. Cardinality(PagesAt(p, f)) \in Nat
  BY <1>1, FS_CardinalityType
<1>3. IsFiniteSet({q}) /\ Cardinality({q}) = 1
  BY FS_Singleton
<1>4. /\ IsFiniteSet({q} \X PagesAt(p, f))
      /\ Cardinality({q} \X PagesAt(p, f)) =
           Cardinality({q}) * Cardinality(PagesAt(p, f))
  BY <1>1, <1>3, FS_Product
<1> QED BY <1>2, <1>3, <1>4

-----------------------------------------------------------------------------
(* What steps that leave a part of the tables alone preserve.              *)

LEMMA DataSame ==
  ASSUME Types, DataInv, phys_mem' = phys_mem,
         \A q \in Task : pcb'[q] \in {pcb[q], "leaked"},
         \A q \in Task, g \in DataPage :
            /\ pt'[q][g].frame = pt[q][g].frame
            /\ pt[q][g] = NoEntry => pt'[q][g] = NoEntry
  PROVE  DataInv'
<1>1. DataMapped'
  BY DEF DataInv, DataMapped
<1>2. OnePage'
  BY DEF DataInv, OnePage
<1>3. BootFrames'
  BY DEF DataInv, BootFrames
<1>4. ASSUME NEW f PROVE Entries(DataPage, f)' = Entries(DataPage, f)
  <2>1. \A e \in Task \X DataPage : e[1] \in Task /\ e[2] \in DataPage
    OBVIOUS
  <2> QED BY <2>1 DEF Entries
<1>5. FrameRefs'
  BY <1>4 DEF DataInv, FrameRefs
<1> QED BY <1>1, <1>2, <1>3, <1>5 DEF DataInv

LEMMA CodeSame ==
  ASSUME CodeMapped,
         \A q \in Task, g \in CodePage :
            \/ /\ pt'[q][g].frame = pt[q][g].frame
               /\ pcb'[q] = "alive" => pcb[q] = "alive"
            \/ \E r \in Task : /\ pcb[r] = "alive"
                               /\ pt'[q][g].frame = pt[r][g].frame
  PROVE  CodeMapped'
  BY DEF CodeMapped

(* An entry above the code stays, or is a temporary mapping.  A count may  *)
(* change only when the behaviour ends.                                    *)
RefsSame(i) ==
    /\ shared_pages'[i].frame = shared_pages[i].frame
    /\ \/ shared_pages'[i].num_refs = shared_pages[i].num_refs
       \/ halted' /\ shared_pages'[i].num_refs \in 0 .. MAX_REFS

LEMMA HighSame ==
  ASSUME HighInv, halted => halted', \A i \in ShmId : RefsSame(i),
         \A q \in Task, g \in HighPage :
            \/ pt'[q][g] = pt[q][g]
            \/ /\ pt[q][g] = NoEntry
               /\ pt'[q][g].rw /\ pt'[q][g].frame \in DataFrame
  PROVE  HighInv'
<1>1. HighMapped'
  BY DEF HighInv, HighMapped
<1>2. SharedKept' /\ RefsBound'
  BY DEF HighInv, SharedKept, RefsBound, RefsSame
<1>3. ASSUME NEW f \in SharedFrame
      PROVE  Entries(HighPage, f)' = Entries(HighPage, f)
  <2>1. f # 0 /\ f \notin DataFrame
    BY FrameSets
  <2>2. \A e \in Task \X HighPage : e[1] \in Task /\ e[2] \in HighPage
    OBVIOUS
  <2>3. \A q \in Task, g \in HighPage :
           pt'[q][g].frame = f <=> pt[q][g].frame = f
    BY <2>1 DEF NoEntry
  <2> QED BY <2>2, <2>3 DEF Entries
<1>4. \A i \in ShmId : shared_pages[i].frame \in SharedFrame
  BY FrameSets DEF HighInv, SharedKept
<1>5. RefsCountEntries'
  BY <1>3, <1>4 DEF HighInv, RefsCountEntries, RefsSame
<1> QED BY <1>1, <1>2, <1>5 DEF HighInv

LEMMA SoleSame ==
  ASSUME Separate, phys_mem' = phys_mem,
         \A q \in Task, g \in DataPage : pt'[q][g] = pt[q][g]
  PROVE  WritableSole'
  BY DEF Separate, WritableSole

LEMMA SeparateSame ==
  ASSUME Separate, WritableSole',
         \A q \in Task : pcb'[q] = "leaked" <=> pcb[q] = "leaked",
         \A q \in Task, g \in HighPage :
            pt'[q][g] = pt[q][g] \/ pt'[q][g] = NoEntry
            \/ pt'[q][g].frame \in SharedFrame
  PROVE  Separate'
<1>1. NoLeak' <=> NoLeak
  BY DEF NoLeak
<1>2. HighShared => HighShared'
  BY DEF HighShared
<1> QED BY <1>1, <1>2 DEF Separate

-----------------------------------------------------------------------------
(* Boot.                                                                   *)

(* Where boot puts code and data.                                          *)
CodeAt(g) == FrameNo(NUM_SHARED_PAGES + 1 + g - USER_FIRST_PAGE - NUM_PAG_DATA)
DataAt(g) == FrameNo(NUM_SHARED_PAGES + NUM_PAG_CODE + 1 + g - USER_FIRST_PAGE)

LEMMA BootPlaces ==
  /\ \A g \in CodePage : CodeAt(g) \in CodeFrame
  /\ \A g \in DataPage : DataAt(g) \in DataFrame
  /\ \A g, h \in DataPage : DataAt(g) = DataAt(h) => g = h
  /\ \A n \in 1 .. NUM_SHARED_PAGES + NUM_PAG_CODE + NUM_PAG_DATA :
        FrameNo(n) \in DataFrame => \E g \in DataPage : FrameNo(n) = DataAt(g)
  /\ \A g \in DataPage :
        \E n \in 1 .. NUM_SHARED_PAGES + NUM_PAG_CODE + NUM_PAG_DATA :
           DataAt(g) = FrameNo(n)
  /\ \A f \in SharedFrame \cup CodeFrame :
        \E n \in 1 .. NUM_SHARED_PAGES + NUM_PAG_CODE + NUM_PAG_DATA :
           f = FrameNo(n)
<1> USE Sizes DEF USER_FIRST_PAGE, USER_LAST_PAGE
<1>1. ASSUME NEW g \in CodePage PROVE CodeAt(g) \in CodeFrame
  <2>1. NUM_SHARED_PAGES + 1 + g - USER_FIRST_PAGE - NUM_PAG_DATA
          \in NUM_SHARED_PAGES + 1 .. NUM_SHARED_PAGES + NUM_PAG_CODE
    BY DEF CodePage
  <2> QED BY <2>1 DEF CodeAt, CodeFrame
<1>2. \A g \in DataPage : DataAt(g) \in DataFrame
  BY DEF DataAt, DataPage, DataFrame, FrameNo
<1>3. \A g, h \in DataPage : DataAt(g) = DataAt(h) => g = h
  BY DEF DataAt, DataPage, FrameNo
<1>4. ASSUME NEW n \in 1 .. NUM_SHARED_PAGES + NUM_PAG_CODE + NUM_PAG_DATA,
             FrameNo(n) \in DataFrame
      PROVE  \E g \in DataPage : FrameNo(n) = DataAt(g)
  <2> DEFINE g == n - 1 - NUM_SHARED_PAGES - NUM_PAG_CODE + USER_FIRST_PAGE
  <2>1. n >= NUM_SHARED_PAGES + NUM_PAG_CODE + 1
    BY <1>4 DEF DataFrame, FrameNo
  <2>2. g \in DataPage /\ NUM_SHARED_PAGES + NUM_PAG_CODE + 1 + g - USER_FIRST_PAGE = n
    BY <2>1 DEF DataPage
  <2> QED BY <2>2 DEF DataAt
<1>5. ASSUME NEW g \in DataPage
      PROVE  \E n \in 1 .. NUM_SHARED_PAGES + NUM_PAG_CODE + NUM_PAG_DATA :
                DataAt(g) = FrameNo(n)
  <2>1. NUM_SHARED_PAGES + NUM_PAG_CODE + 1 + g - USER_FIRST_PAGE
          \in 1 .. NUM_SHARED_PAGES + NUM_PAG_CODE + NUM_PAG_DATA
    BY DEF DataPage
  <2> QED BY <2>1 DEF DataAt
<1>6. ASSUME NEW f \in SharedFrame \cup CodeFrame
      PROVE  \E n \in 1 .. NUM_SHARED_PAGES + NUM_PAG_CODE + NUM_PAG_DATA :
                f = FrameNo(n)
  BY DEF SharedFrame, CodeFrame
<1> QED BY <1>1, <1>2, <1>3, <1>4, <1>5, <1>6

LEMMA InitInv == Init => IInv
<1> SUFFICES ASSUME Init PROVE IInv
  OBVIOUS
<1> DEFINE used == NUM_SHARED_PAGES + NUM_PAG_CODE + NUM_PAG_DATA
<1>1. /\ pcb = [p \in Task |-> IF p = task1 THEN "alive" ELSE "free"]
      /\ task1 \in Task
  BY Sizes DEF Init, task1, Task
<1>2. phys_mem = [f \in Frame |->
        IF f < NUM_PAG_KERNEL \/ \E n \in 1 .. used : f = FrameNo(n)
        THEN 1 ELSE 0]
  BY DEF Init
<1> HIDE DEF used
<1>3. pt = [p \in Task |-> [g \in UserPage |->
             IF p = task1 /\ g \in CodePage
             THEN [frame |-> CodeAt(g), rw |-> FALSE]
             ELSE IF p = task1 /\ g \in DataPage
             THEN [frame |-> DataAt(g), rw |-> TRUE]
             ELSE NoEntry]]
  BY DEF Init, CodeAt, DataAt
<1>4. /\ shared_pages = [i \in ShmId |-> [frame |-> FrameNo(i + 1),
                                          num_refs |-> 0, to_clear |-> FALSE]]
      /\ content = [f \in Frame |-> 0] /\ halted = FALSE
  BY DEF Init
<1>5. NoEntry \in Entry
  BY Sizes DEF NoEntry, Entry, Frame
<1>6. ASSUME NEW p \in Task, NEW g \in DataPage
      PROVE  /\ p = task1 => pt[p][g].frame = DataAt(g)
             /\ p # task1 => /\ pt[p][g] = NoEntry /\ pt[p][g].frame = 0
                             /\ pt[p][g].rw = FALSE
  <2>1. /\ p = task1 => pt[p][g] = [frame |-> DataAt(g), rw |-> TRUE]
        /\ p # task1 => pt[p][g] = NoEntry
    BY <1>3, PageSets
  <2>2. CASE p = task1
    BY <2>1, <2>2
  <2>3. CASE p # task1
    BY <2>1, <2>3 DEF NoEntry
  <2> QED BY <2>2, <2>3
<1>7. ASSUME NEW p \in Task, NEW g \in HighPage PROVE pt[p][g] = NoEntry
  BY <1>3, PageSets
<1>8. Types
  <2>1. pt \in [Task -> [UserPage -> Entry]]
    <3>1. \A g \in CodePage : [frame |-> CodeAt(g), rw |-> FALSE] \in Entry
      BY BootPlaces, FrameSets DEF Entry
    <3>2. \A g \in DataPage : [frame |-> DataAt(g), rw |-> TRUE] \in Entry
      BY BootPlaces, FrameSets DEF Entry
    <3> QED BY <1>3, <1>5, <3>1, <3>2
  <2>2. shared_pages \in [ShmId -> [frame : Frame, num_refs : Int,
                                    to_clear : BOOLEAN]]
    BY <1>4, FrameSets
  <2>3. content \in [Frame -> Val]
    BY <1>4, MemoryAssumption
  <2>4. pcb \in [Task -> {"free", "alive", "leaked"}]
    BY <1>1
  <2>5. phys_mem \in [Frame -> Int]
    BY <1>2
  <2> QED BY <1>4, <2>1, <2>2, <2>3, <2>4, <2>5 DEF Types
<1>9. DataMapped
  BY <1>1, <1>6, BootPlaces DEF DataMapped
<1>10. OnePage
  <2>1. ASSUME NEW p \in Task, NEW g \in DataPage, pt[p][g].frame \in DataFrame
        PROVE  pt[p][g].frame = DataAt(g)
    BY <1>6, <2>1, FrameSets
  <2>2. \A g, h \in DataPage : DataAt(g) = DataAt(h) => g = h
    BY BootPlaces
  <2> QED BY <2>1, <2>2 DEF OnePage
<1>11. BootFrames
  <2>1. \A f \in SharedFrame \cup CodeFrame : phys_mem[f] = 1
    BY <1>2, BootPlaces, FrameSets DEF used
  <2>2. \A f \in Frame : phys_mem[f] \in {0, 1}
    BY <1>2
  <2> QED BY <2>1, <2>2 DEF BootFrames
<1>12. ASSUME NEW f \in DataFrame
       PROVE  phys_mem[f] = Cardinality(Entries(DataPage, f))
  <2>1. f \in Frame /\ ~ (f < NUM_PAG_KERNEL) /\ f # 0
    <3>1. f \in Frame /\ f > NUM_PAG_KERNEL /\ f \in Nat /\ f # 0
      BY FrameSets
    <3> QED BY <3>1, Sizes
  <2>2. CASE \E g \in DataPage : f = DataAt(g)
    <3>1. PICK g \in DataPage : f = DataAt(g)
      BY <2>2
    <3>2. Entries(DataPage, f) = {<<task1, g>>}
      <4>1. \A p \in Task, h \in DataPage :
               pt[p][h].frame = f <=> p = task1 /\ h = g
        BY <1>6, <2>1, <3>1, BootPlaces DEF NoEntry
      <4> QED BY <4>1, <1>1 DEF Entries
    <3>3. phys_mem[f] = 1
      BY <1>2, <2>1, <3>1, BootPlaces DEF used
    <3> QED BY <3>2, <3>3, FS_Singleton
  <2>3. CASE ~ \E g \in DataPage : f = DataAt(g)
    <3>1. Entries(DataPage, f) = {}
      <4>1. \A p \in Task, h \in DataPage : pt[p][h].frame # f
        BY <1>6, <2>1, <2>3 DEF NoEntry
      <4> QED BY <4>1 DEF Entries
    <3>2. phys_mem[f] = 0
      BY <1>2, <2>1, <2>3, BootPlaces DEF used
    <3> QED BY <3>1, <3>2, FS_EmptySet
  <2> QED BY <2>2, <2>3
<1>13. DataInv
  BY <1>9, <1>10, <1>11, <1>12 DEF DataInv, FrameRefs, DataFrame
<1>14. CodeMapped
  <2>1. \A g \in CodePage : pt[task1][g].frame = CodeAt(g)
    BY <1>1, <1>3, PageSets
  <2>2. \A p \in Task, g \in CodePage : p # task1 => pt[p][g].frame = 0
    BY <1>3, PageSets DEF NoEntry
  <2> QED BY <1>1, <2>1, <2>2, BootPlaces DEF CodeMapped
<1>15. HighInv
  <2>1. HighMapped
    BY <1>7 DEF HighMapped
  <2>2. SharedKept /\ RefsBound
    BY <1>4, MemoryAssumption DEF SharedKept, RefsBound
  <2>3. ASSUME NEW i \in ShmId
        PROVE  /\ shared_pages[i].num_refs = 0
               /\ Entries(HighPage, shared_pages[i].frame) = {}
    <3>1. shared_pages[i].frame # 0 /\ shared_pages[i].num_refs = 0
      BY <1>4, FrameSets
    <3> QED BY <1>7, <3>1 DEF Entries, NoEntry
  <2>4. RefsCountEntries
    BY <2>3, FS_EmptySet DEF RefsCountEntries
  <2> QED BY <2>1, <2>2, <2>4 DEF HighInv
<1>16. Separate
  <2>1. ASSUME NEW g \in DataPage PROVE phys_mem[DataAt(g)] = 1
    BY <1>2, BootPlaces, FrameSets DEF used
  <2>2. ASSUME NEW p \in Task, NEW g \in DataPage, pt[p][g].frame \in DataFrame
        PROVE  phys_mem[pt[p][g].frame] = 1
    <3>1. pt[p][g].frame = DataAt(g)
      BY <1>6, <2>2, FrameSets
    <3> QED BY <2>1, <3>1
  <2>3. WritableSole
    BY <2>2 DEF WritableSole
  <2>4. NoLeak
    BY <1>1 DEF NoLeak
  <2>5. HighShared
    BY <1>7 DEF HighShared
  <2> QED BY <2>3, <2>4, <2>5 DEF Separate
<1> QED BY <1>8, <1>13, <1>14, <1>15, <1>16 DEF IInv

-----------------------------------------------------------------------------
(* fork with copy on write: the child's entries are its parent's.          *)
LEMMA ForkCow ==
  ASSUME IInv, NEW p \in Task, NEW c \in Task,
         Runs(p), pcb[c] = "free", fork_cow(p, c), halted' = halted
  PROVE  IInv'
<1> USE DEF IInv
<1>1. USE_COW /\ Separate /\ p # c /\ pcb[p] = "alive"
  BY DEF fork_cow, Runs
<1>2. shared_pages' = shared_pages /\ SharedOf(p) = {}
  BY NoSharedFound DEF fork_cow, HighInv
<1>3. /\ pcb' = [pcb EXCEPT ![c] = "alive"] /\ content' = content
      /\ phys_mem' = [f \in Frame |->
                        phys_mem[f] + Cardinality(PagesAt(p, f))]
  BY DEF fork_cow, PagesAt
<1> DEFINE CT == ChildTable(p, c, [g \in DataPage |-> ReadOnly(pt[p][g])],
                            SharedOf(p))
           RO == ParentReadOnly(p)
<1>4. pt' = [pt EXCEPT ![c] = CT, ![p] = RO]
  BY DEF fork_cow
<1>5. /\ \A g \in CodePage : CT[g] = pt[p][g] /\ RO[g] = pt[p][g]
      /\ \A g \in DataPage : CT[g] = ReadOnly(pt[p][g]) /\ RO[g] = ReadOnly(pt[p][g])
      /\ \A g \in HighPage : CT[g] = pt[c][g] /\ RO[g] = pt[p][g]
      /\ CT = [g \in UserPage |-> CT[g]] /\ RO = [g \in UserPage |-> RO[g]]
  BY <1>2, PageSets DEF ChildTable, ParentReadOnly
<1> HIDE DEF CT, RO
<1>6. /\ pt'[c] = CT /\ pt'[p] = RO
      /\ \A q \in Task : q # c /\ q # p => pt'[q] = pt[q]
  BY <1>1, <1>4 DEF Types
<1>7. \A q \in Task, g \in UserPage : pt[q][g] \in Entry
  BY DEF Types
<1>8. \A q \in Task, g \in DataPage :
         /\ ReadOnly(pt[q][g]) \in Entry
         /\ ReadOnly(pt[q][g]).frame = pt[q][g].frame
         /\ ReadOnly(pt[q][g]).rw = FALSE
  <2> SUFFICES ASSUME NEW q \in Task, NEW g \in DataPage
               PROVE  /\ ReadOnly(pt[q][g]) \in Entry
                      /\ ReadOnly(pt[q][g]).frame = pt[q][g].frame
                      /\ ReadOnly(pt[q][g]).rw = FALSE
    OBVIOUS
  <2>1. pt[q][g] \in Entry
    BY <1>7, PageSets
  <2> QED BY <2>1 DEF ReadOnly, Entry
<1>9. ASSUME NEW q \in Task, NEW g \in DataPage
      PROVE  /\ q \in {p, c} => /\ pt'[q][g].frame = pt[p][g].frame
                                /\ pt'[q][g].rw = FALSE
             /\ q \notin {p, c} => pt'[q][g] = pt[q][g]
             /\ pt[p][g].frame \in DataFrame
             /\ pt[c][g].frame \notin DataFrame
  <2>1. pt[p][g].frame \in DataFrame /\ pt[c][g] = NoEntry
    BY <1>1 DEF DataInv, DataMapped
  <2> QED BY <1>5, <1>6, <1>8, <2>1, FrameSets DEF NoEntry
<1>10. ASSUME NEW f PROVE Cardinality(PagesAt(p, f)) \in Nat
  BY Row
<1>11. ASSUME NEW f, f \notin DataFrame PROVE Cardinality(PagesAt(p, f)) = 0
  <2>1. PagesAt(p, f) = {}
    BY <1>9, <1>11 DEF PagesAt
  <2> QED BY <2>1, FS_EmptySet
<1>12. Types'
  <2>1. pt' \in [Task -> [UserPage -> Entry]]
    <3>1. CT \in [UserPage -> Entry] /\ RO \in [UserPage -> Entry]
      BY <1>5, <1>7, <1>8, PageSets
    <3> QED BY <1>4, <3>1 DEF Types
  <2>2. phys_mem' \in [Frame -> Int]
    BY <1>3, <1>10 DEF Types
  <2>3. pcb' \in [Task -> {"free", "alive", "leaked"}]
    BY <1>3 DEF Types
  <2> QED BY <1>2, <1>3, <2>1, <2>2, <2>3 DEF Types
<1>13. DataMapped'
  <2>1. \A q \in Task : q # c => pcb'[q] = pcb[q]
    BY <1>3 DEF Types
  <2>2. pcb'[c] = "alive" /\ pcb'[p] = "alive"
    BY <1>1, <1>3 DEF Types
  <2> SUFFICES ASSUME NEW q \in Task, NEW g \in DataPage
               PROVE  /\ pt'[q][g] = NoEntry \/ pt'[q][g].frame \in DataFrame
                      /\ pcb'[q] = "free" => pt'[q][g] = NoEntry
                      /\ pcb'[q] = "alive" => pt'[q][g].frame \in DataFrame
    BY DEF DataMapped
  <2>3. CASE q \in {p, c}
    BY <1>9, <2>2, <2>3
  <2>4. CASE q \notin {p, c}
    <3>1. pt'[q][g] = pt[q][g] /\ pcb'[q] = pcb[q]
      BY <1>9, <2>1, <2>4
    <3> QED BY <3>1 DEF DataInv, DataMapped
  <2> QED BY <2>3, <2>4
<1>14. OnePage'
  <2> SUFFICES ASSUME NEW q \in Task, NEW r \in Task,
                      NEW g \in DataPage, NEW h \in DataPage,
                      pt'[q][g].frame = pt'[r][h].frame,
                      pt'[q][g].frame \in DataFrame
               PROVE  g = h
    BY DEF OnePage
  <2>1. \E q2, r2 \in Task : /\ pt'[q][g].frame = pt[q2][g].frame
                             /\ pt'[r][h].frame = pt[r2][h].frame
    BY <1>9
  <2> QED BY <2>1 DEF DataInv, OnePage
<1>15. BootFrames'
  <2>1. \A f \in Frame \ DataFrame : phys_mem'[f] = phys_mem[f]
    <3> SUFFICES ASSUME NEW f \in Frame, f \notin DataFrame
                 PROVE  phys_mem'[f] = phys_mem[f]
      OBVIOUS
    <3>1. phys_mem[f] \in Int /\ phys_mem'[f] = phys_mem[f] + 0
      BY <1>3, <1>11 DEF Types
    <3> QED BY <3>1
  <2> QED BY <2>1, FrameSets DEF DataInv, BootFrames
<1>16. ASSUME NEW f \in DataFrame
       PROVE  phys_mem'[f] = Cardinality(Entries(DataPage, f)')
  <2> DEFINE R == {c} \X PagesAt(p, f)
             E == Entries(DataPage, f)
  <2>1. E' = E \cup R
    <3>1. \A q \in Task, g \in DataPage :
            pt'[q][g].frame = f <=> pt[q][g].frame = f \/ (q = c /\ g \in PagesAt(p, f))
      <4> SUFFICES ASSUME NEW q \in Task, NEW g \in DataPage
                   PROVE  pt'[q][g].frame = f <=> \/ pt[q][g].frame = f
                                                  \/ q = c /\ pt[p][g].frame = f
        BY DEF PagesAt
      <4>1. CASE q = c
        BY <1>9, <4>1
      <4>2. CASE q # c
        <5>1. pt'[q][g].frame = pt[q][g].frame
          BY <1>9, <4>2
        <5> QED BY <4>2, <5>1
      <4> QED BY <4>1, <4>2
    <3> QED BY <3>1 DEF Entries, PagesAt
  <2>2. E \cap R = {}
    <3>1. \A g \in DataPage : pt[c][g].frame # f
      BY <1>9
    <3>2. \A e \in R : e[1] = c /\ e[2] \in DataPage
      BY DEF PagesAt
    <3>3. \A e \in E : pt[e[1]][e[2]].frame = f
      BY DEF Entries
    <3> HIDE DEF E, R
    <3> QED BY <3>1, <3>2, <3>3
  <2>3. Cardinality(E') = Cardinality(E) + Cardinality(R)
    BY <2>1, <2>2, Disjoint, Row, EntriesFinite, PageSets
  <2>4. phys_mem[f] = Cardinality(E)
    BY DEF DataInv, FrameRefs, DataFrame
  <2> QED BY <1>3, <2>3, <2>4, Row, FrameSets
<1>17. DataInv'
  BY <1>13, <1>14, <1>15, <1>16 DEF DataInv, FrameRefs, DataFrame
<1>18. CodeMapped'
  <2>1. ASSUME NEW q \in Task, NEW g \in CodePage
        PROVE  \/ /\ pt'[q][g].frame = pt[q][g].frame
                  /\ pcb'[q] = "alive" => pcb[q] = "alive"
               \/ \E r \in Task : /\ pcb[r] = "alive"
                                  /\ pt'[q][g].frame = pt[r][g].frame
    <3>1. CASE q \in {p, c}
      BY <1>1, <1>5, <1>6, <3>1
    <3>2. CASE q \notin {p, c}
      <4>1. pcb'[q] = pcb[q] /\ pt'[q] = pt[q]
        BY <1>3, <1>6, <3>2 DEF Types
      <4> QED BY <4>1
    <3> QED BY <3>1, <3>2
  <2> QED BY <2>1, CodeSame
<1>19. \A q \in Task, g \in HighPage : pt'[q][g] = pt[q][g]
  BY <1>5, <1>6
<1>20. HighInv'
  BY <1>2, <1>19, HighSame DEF RefsSame
<1>21. WritableSole'
  <2> SUFFICES ASSUME NEW q \in Task, NEW g \in DataPage,
                      pt'[q][g].frame \in DataFrame, pt'[q][g].rw
               PROVE  phys_mem'[pt'[q][g].frame] = 1
    BY <1>1 DEF WritableSole
  <2>1. q \notin {p, c} /\ pt'[q][g] = pt[q][g]
    BY <1>9
  <2>2. pt[q][g].frame \in DataFrame /\ phys_mem[pt[q][g].frame] = 1
    BY <1>1, <2>1 DEF Separate, WritableSole
  <2>3. PagesAt(p, pt[q][g].frame) = {}
    BY <2>1, <2>2, Sole DEF PagesAt
  <2>4. Cardinality(PagesAt(p, pt[q][g].frame)) = 0
    BY <2>3, FS_EmptySet
  <2> QED BY <1>3, <2>1, <2>2, <2>4, FrameSets
<1>22. Separate'
  <2>1. \A q \in Task : pcb'[q] = "leaked" <=> pcb[q] = "leaked"
    BY <1>3 DEF Types
  <2> QED BY <1>19, <1>21, <2>1, SeparateSame
<1> QED BY <1>12, <1>17, <1>18, <1>20, <1>22 DEF IInv

(* exit: the data entries of the process go, with one reference each.      *)
LEMMA Exit ==
  ASSUME IInv, NEW p \in Task, sys_exit(p)
  PROVE  IInv'
<1> USE DEF IInv
<1>1. pcb[p] = "alive" /\ pcb' = [pcb EXCEPT ![p] = "free"]
      /\ content' = content /\ halted' = halted
  BY DEF sys_exit, Runs
<1>2. shared_pages' = shared_pages
  BY NoSharedFound DEF sys_exit, HighInv
<1> DEFINE Left == free_user_pages_pt(pt[p])
<1>3. pt' = [pt EXCEPT ![p] = Left]
  BY DEF sys_exit
<1>4. /\ \A g \in DataPage : Left[g] = NoEntry
      /\ \A g \in CodePage \cup HighPage : Left[g] = pt[p][g]
      /\ Left \in [UserPage -> Entry]
  <2>1. NoEntry \in Entry
    BY Sizes DEF NoEntry, Entry, Frame
  <2>2. \A g \in UserPage : pt[p][g] \in Entry
    BY DEF Types
  <2> QED BY <2>1, <2>2, PageSets DEF free_user_pages_pt
<1> HIDE DEF Left
<1>5. pt'[p] = Left /\ \A q \in Task : q # p => pt'[q] = pt[q]
  BY <1>3 DEF Types
<1>6. pcb'[p] = "free" /\ \A q \in Task : q # p => pcb'[q] = pcb[q]
  BY <1>1 DEF Types
<1>7. \A g \in DataPage : pt[p][g].frame \in DataFrame
  BY <1>1 DEF DataInv, DataMapped
<1>8. phys_mem' = [f \in Frame |->
        IF f > NUM_PAG_KERNEL THEN phys_mem[f] - Cardinality(PagesAt(p, f))
        ELSE phys_mem[f]]
  BY DEF sys_exit, free_user_pages_mem, free_frames, PagesAt
<1>9. ASSUME NEW f \in Frame
      PROVE  phys_mem'[f] = phys_mem[f] - Cardinality(PagesAt(p, f))
  <2>1. phys_mem[f] \in Int
    BY DEF Types
  <2>2. CASE f > NUM_PAG_KERNEL
    BY <1>8, <2>2
  <2>3. CASE ~ (f > NUM_PAG_KERNEL)
    <3>1. f \notin DataFrame
      BY <2>3, FrameSets
    <3>2. PagesAt(p, f) = {}
      BY <1>7, <3>1 DEF PagesAt
    <3>3. Cardinality(PagesAt(p, f)) = 0
      BY <3>2, FS_EmptySet
    <3> QED BY <1>8, <2>1, <2>3, <3>3
  <2> QED BY <2>2, <2>3
<1>10. ASSUME NEW q \in Task, NEW g \in DataPage
       PROVE  /\ q = p => /\ pt'[q][g] = NoEntry /\ pt'[q][g].frame = 0
                          /\ pt'[q][g].rw = FALSE
              /\ q # p => pt'[q][g] = pt[q][g]
  BY <1>4, <1>5 DEF NoEntry
<1>11. Types'
  <2>1. pt' \in [Task -> [UserPage -> Entry]]
    BY <1>3, <1>4 DEF Types
  <2>2. \A f \in Frame : Cardinality(PagesAt(p, f)) \in Nat
    BY Row
  <2>3. phys_mem' \in [Frame -> Int]
    BY <1>8, <2>2 DEF Types
  <2> QED BY <1>1, <1>2, <2>1, <2>3 DEF Types
<1>12. DataMapped'
  <2> SUFFICES ASSUME NEW q \in Task, NEW g \in DataPage
               PROVE  /\ pt'[q][g] = NoEntry \/ pt'[q][g].frame \in DataFrame
                      /\ pcb'[q] = "free" => pt'[q][g] = NoEntry
                      /\ pcb'[q] = "alive" => pt'[q][g].frame \in DataFrame
    BY DEF DataMapped
  <2>1. CASE q = p
    BY <1>6, <1>10, <2>1
  <2>2. CASE q # p
    <3>1. pt'[q][g] = pt[q][g] /\ pcb'[q] = pcb[q]
      BY <1>6, <1>10, <2>2
    <3> QED BY <3>1 DEF DataInv, DataMapped
  <2> QED BY <2>1, <2>2
<1>13. OnePage'
  <2>1. \A q \in Task, g \in DataPage :
           pt'[q][g].frame \in DataFrame => pt'[q][g].frame = pt[q][g].frame
    BY <1>10, FrameSets
  <2> QED BY <2>1 DEF DataInv, OnePage
<1>14. BootFrames'
  <2>1. \A f \in Frame \ DataFrame : phys_mem'[f] = phys_mem[f]
    <3> SUFFICES ASSUME NEW f \in Frame, f \notin DataFrame
                 PROVE  phys_mem'[f] = phys_mem[f]
      OBVIOUS
    <3>1. PagesAt(p, f) = {}
      BY <1>7 DEF PagesAt
    <3>2. Cardinality(PagesAt(p, f)) = 0
      BY <3>1, FS_EmptySet
    <3>3. phys_mem[f] \in Int
      BY DEF Types
    <3> QED BY <1>9, <3>2, <3>3
  <2> QED BY <2>1, FrameSets DEF DataInv, BootFrames
<1>15. ASSUME NEW f \in DataFrame
       PROVE  phys_mem'[f] = Cardinality(Entries(DataPage, f)')
  <2> DEFINE R == {p} \X PagesAt(p, f)
             E == Entries(DataPage, f)
  <2>1. \A q \in Task, g \in DataPage :
          pt'[q][g].frame = f <=> pt[q][g].frame = f /\ q # p
    BY <1>10, FrameSets
  <2>2. E = E' \cup R /\ E' \cap R = {} /\ E' \subseteq E
    BY <2>1 DEF Entries, PagesAt
  <2>3. IsFiniteSet(E) /\ IsFiniteSet(E')
    <3>1. IsFiniteSet(E)
      BY EntriesFinite, PageSets
    <3> QED BY <2>2, <3>1, FS_Subset
  <2>4. IsFiniteSet(R) /\ Cardinality(R) = Cardinality(PagesAt(p, f))
        /\ Cardinality(R) \in Nat
    BY Row
  <2>5. Cardinality(E') \in Nat
    BY <2>3, FS_CardinalityType
  <2>6. Cardinality(E) = Cardinality(E') + Cardinality(R)
    <3> HIDE DEF E, R
    <3> QED BY <2>2, <2>3, <2>4, Disjoint
  <2>7. phys_mem[f] = Cardinality(E)
    BY DEF DataInv, FrameRefs, DataFrame
  <2>8. phys_mem'[f] = phys_mem[f] - Cardinality(PagesAt(p, f))
    BY <1>9, FrameSets
  <2> QED BY <2>4, <2>5, <2>6, <2>7, <2>8
<1>16. DataInv'
  BY <1>12, <1>13, <1>14, <1>15 DEF DataInv, FrameRefs, DataFrame
<1>17. CodeMapped'
  <2>1. \A q \in Task, g \in CodePage :
           /\ pt'[q][g].frame = pt[q][g].frame
           /\ pcb'[q] = "alive" => pcb[q] = "alive"
    BY <1>1, <1>4, <1>5, <1>6
  <2> QED BY <2>1, CodeSame
<1>18. \A q \in Task, g \in HighPage : pt'[q][g] = pt[q][g]
  BY <1>4, <1>5
<1>19. HighInv'
  BY <1>1, <1>2, <1>18, HighSame DEF RefsSame
<1>20. WritableSole'
  <2> SUFFICES ASSUME NEW q \in Task, NEW g \in DataPage,
                      pt'[q][g].frame \in DataFrame, pt'[q][g].rw \/ ~ USE_COW
               PROVE  phys_mem'[pt'[q][g].frame] = 1
    BY DEF WritableSole
  <2>1. q # p /\ pt'[q][g] = pt[q][g]
    BY <1>10, FrameSets
  <2>2. pt[q][g].frame \in DataFrame /\ phys_mem[pt[q][g].frame] = 1
    BY <2>1 DEF Separate, WritableSole
  <2>3. PagesAt(p, pt[q][g].frame) = {}
    BY <2>1, <2>2, Sole DEF PagesAt
  <2>4. Cardinality(PagesAt(p, pt[q][g].frame)) = 0
    BY <2>3, FS_EmptySet
  <2> QED BY <1>9, <2>1, <2>2, <2>4, FrameSets
<1>21. Separate'
  <2>1. \A q \in Task : pcb'[q] = "leaked" <=> pcb[q] = "leaked"
    BY <1>1, <1>6
  <2> QED BY <1>18, <1>20, <2>1, SeparateSame
<1> QED BY <1>11, <1>16, <1>17, <1>19, <1>21 DEF IInv

-----------------------------------------------------------------------------
(* fork without copy on write.                                             *)

LEMMA DataNumbers ==
  /\ \A g \in DataPage : DataNo(g) \in 1 .. NUM_PAG_DATA
  /\ \A g, h \in DataPage : DataNo(g) = DataNo(h) => g = h
  /\ \A n \in 1 .. NUM_PAG_DATA : \E g \in DataPage : DataNo(g) = n
<1> USE Sizes DEF DataPage, DataNo, USER_FIRST_PAGE
<1>1. \A g \in DataPage : DataNo(g) \in 1 .. NUM_PAG_DATA
  OBVIOUS
<1>2. \A g, h \in DataPage : DataNo(g) = DataNo(h) => g = h
  OBVIOUS
<1>3. ASSUME NEW n \in 1 .. NUM_PAG_DATA PROVE \E g \in DataPage : DataNo(g) = n
  <2>1. USER_FIRST_PAGE + n - 1 \in DataPage
        /\ DataNo(USER_FIRST_PAGE + n - 1) = n
    OBVIOUS
  <2> QED BY <2>1
<1> QED BY <1>1, <1>2, <1>3

(* The frames that a fork takes are free and differ.                       *)
LEMMA NewFramesFree ==
  ASSUME Types, DataInv, NEW n \in Nat, n <= NewFrames
  PROVE  /\ \A i \in 1 .. n : /\ NewFrame(i) \in FreeFrames
                              /\ NewFrame(i) \in DataFrame
                              /\ NewEntry(i) \in Entry
                              /\ NewEntry(i).frame = NewFrame(i)
                              /\ NewEntry(i).rw = TRUE
         /\ \A i, j \in 1 .. n : NewFrame(i) = NewFrame(j) => i = j
<1>1. /\ FreeFrames \in SUBSET Nat /\ IsFiniteSet(FreeFrames)
      /\ FreeFrames \subseteq DataFrame /\ NewFrames \in Nat
  BY FreeFramesUnused
<1>2. \A i \in 1 .. n : i \in 1 .. Cardinality(FreeFrames)
  BY <1>1 DEF NewFrames
<1>3. \A i \in 1 .. n : NewFrame(i) \in FreeFrames
  BY <1>1, <1>2, NthElement DEF NewFrame
<1>4. \A i, j \in 1 .. n : NewFrame(i) = NewFrame(j) => i = j
  BY <1>1, <1>2, NthDiffer DEF NewFrame
<1>5. \A i \in 1 .. n : /\ NewFrame(i) \in DataFrame
                        /\ NewEntry(i) \in Entry
                        /\ NewEntry(i).frame = NewFrame(i)
                        /\ NewEntry(i).rw = TRUE
  BY <1>1, <1>3, FrameSets DEF NewEntry, Entry
<1> QED BY <1>3, <1>4, <1>5

(* A child that has got its first n data pages.                            *)
LEMMA NewData ==
  ASSUME Types, DataInv, NEW c \in Task, pcb[c] = "free",
         NEW n \in Nat, n <= NewFrames, n <= NUM_PAG_DATA,
         NEW s \in {"alive", "leaked"}, s = "alive" => n = NUM_PAG_DATA,
         pcb' = [pcb EXCEPT ![c] = s],
         \A g \in DataPage :
            /\ DataNo(g) <= n => pt'[c][g] = NewEntry(DataNo(g))
            /\ ~ (DataNo(g) <= n) => pt'[c][g] = pt[c][g],
         \A q \in Task, g \in DataPage : q # c => pt'[q][g] = pt[q][g],
         phys_mem' = [f \in Frame |->
             IF \E i \in 1 .. n : f = NewFrame(i) THEN 1 ELSE phys_mem[f]]
  PROVE  DataInv' /\ (Separate => WritableSole')
<1>1. ASSUME NEW i \in 1 .. n
      PROVE  /\ NewFrame(i) \in FreeFrames /\ NewFrame(i) \in DataFrame
             /\ NewEntry(i).frame = NewFrame(i) /\ NewEntry(i).rw = TRUE
  BY NewFramesFree
<1>2. \A i, j \in 1 .. n : NewFrame(i) = NewFrame(j) => i = j
  BY NewFramesFree
<1>3. \A g \in DataPage : DataNo(g) <= n => DataNo(g) \in 1 .. n
  BY DataNumbers
<1>4. \A q \in Task, g \in DataPage, i \in 1 .. n : pt[q][g].frame # NewFrame(i)
  BY <1>1, FreeFramesUnused
<1>5. ASSUME NEW g \in DataPage
      PROVE  /\ pt[c][g] = NoEntry /\ pt[c][g].frame = 0 /\ 0 \notin DataFrame
             /\ \/ /\ DataNo(g) \in 1 .. n
                   /\ pt'[c][g].frame = NewFrame(DataNo(g))
                   /\ pt'[c][g].frame \in DataFrame
                \/ /\ ~ (DataNo(g) <= n)
                   /\ pt'[c][g] = NoEntry /\ pt'[c][g].frame = 0
  <2>1. pt[c][g] = NoEntry
    BY DEF DataInv, DataMapped
  <2>2. pt[c][g].frame = 0 /\ 0 \notin DataFrame
    BY <2>1, FrameSets DEF NoEntry
  <2>3. CASE DataNo(g) <= n
    BY <1>1, <1>3, <2>1, <2>2, <2>3
  <2>4. CASE ~ (DataNo(g) <= n)
    BY <2>1, <2>2, <2>4
  <2> QED BY <2>3, <2>4
<1>6. pcb'[c] = s /\ \A q \in Task : q # c => pcb'[q] = pcb[q]
  BY DEF Types
<1>7. DataMapped'
  <2> SUFFICES ASSUME NEW q \in Task, NEW g \in DataPage
               PROVE  /\ pt'[q][g] = NoEntry \/ pt'[q][g].frame \in DataFrame
                      /\ pcb'[q] = "free" => pt'[q][g] = NoEntry
                      /\ pcb'[q] = "alive" => pt'[q][g].frame \in DataFrame
    BY DEF DataMapped
  <2>1. CASE q = c
    <3>1. pt'[c][g] = NoEntry \/ pt'[c][g].frame \in DataFrame
      BY <1>5
    <3>2. pcb'[c] # "free"
      BY <1>6
    <3>3. pcb'[c] = "alive" => DataNo(g) <= n
      <4>1. DataNo(g) <= NUM_PAG_DATA
        BY DataNumbers, Sizes
      <4> QED BY <1>6, <4>1
    <3> QED BY <1>5, <2>1, <3>1, <3>2, <3>3
  <2>2. CASE q # c
    <3>1. pt'[q][g] = pt[q][g] /\ pcb'[q] = pcb[q]
      BY <1>6, <2>2
    <3> QED BY <3>1 DEF DataInv, DataMapped
  <2> QED BY <2>1, <2>2
<1>8. ASSUME NEW f \in DataFrame, NEW i \in 1 .. n, f = NewFrame(i)
      PROVE  \E g \in DataPage : \A q \in Task, h \in DataPage :
                pt'[q][h].frame = f <=> q = c /\ h = g
  <2>1. i \in 1 .. NUM_PAG_DATA
    BY Sizes
  <2>2. PICK g \in DataPage : DataNo(g) = i
    BY <2>1, DataNumbers
  <2>3. ASSUME NEW h \in DataPage PROVE pt'[c][h].frame = f <=> h = g
    <3>1. CASE DataNo(h) \in 1 .. n
      <4>1. pt'[c][h].frame = NewFrame(DataNo(h))
        BY <1>5, <3>1
      <4>2. NewFrame(DataNo(h)) = NewFrame(i) <=> DataNo(h) = i
        BY <1>2, <3>1
      <4>3. DataNo(h) = i <=> h = g
        BY <2>2, DataNumbers
      <4> QED BY <1>8, <4>1, <4>2, <4>3
    <3>2. CASE DataNo(h) \notin 1 .. n
      BY <1>5, <2>2, <3>2
    <3> QED BY <3>1, <3>2
  <2>4. \A q \in Task, h \in DataPage : q # c => pt'[q][h].frame # f
    BY <1>4, <1>8
  <2> QED BY <2>3, <2>4
<1>9. ASSUME NEW f \in DataFrame, ~ \E i \in 1 .. n : f = NewFrame(i)
      PROVE  \A q \in Task, h \in DataPage :
                pt'[q][h].frame = f <=> pt[q][h].frame = f
  <2> SUFFICES ASSUME NEW q \in Task, NEW h \in DataPage
               PROVE  pt'[q][h].frame = f <=> pt[q][h].frame = f
    OBVIOUS
  <2>1. CASE q = c
    <3>1. pt[c][h].frame # f
      BY <1>5
    <3>2. pt'[c][h].frame # f
      BY <1>5, <1>9
    <3> QED BY <2>1, <3>1, <3>2
  <2>2. CASE q # c
    BY <2>2
  <2> QED BY <2>1, <2>2
<1>10. OnePage'
  <2> SUFFICES ASSUME NEW q \in Task, NEW r \in Task,
                      NEW g \in DataPage, NEW h \in DataPage,
                      pt'[q][g].frame = pt'[r][h].frame,
                      pt'[q][g].frame \in DataFrame
               PROVE  g = h
    BY DEF OnePage
  <2> DEFINE f == pt'[q][g].frame
  <2>0. f \in DataFrame /\ pt'[r][h].frame = f
    OBVIOUS
  <2>1. CASE \E i \in 1 .. n : f = NewFrame(i)
    <3>1. \E x \in DataPage : \A q2 \in Task, h2 \in DataPage :
             pt'[q2][h2].frame = f <=> q2 = c /\ h2 = x
      <4> HIDE DEF f
      <4> QED BY <1>8, <2>0, <2>1
    <3> QED BY <2>0, <3>1
  <2>2. CASE ~ \E i \in 1 .. n : f = NewFrame(i)
    <3>1. pt[q][g].frame = f /\ pt[r][h].frame = f
      BY <1>9, <2>2
    <3> QED BY <3>1 DEF DataInv, OnePage
  <2> QED BY <2>1, <2>2
<1>11. BootFrames'
  <2>1. \A f \in Frame \ DataFrame : phys_mem'[f] = phys_mem[f]
    BY <1>1
  <2> QED BY <2>1, FrameSets DEF DataInv, BootFrames
<1>12. ASSUME NEW f \in DataFrame
       PROVE  phys_mem'[f] = Cardinality(Entries(DataPage, f)')
  <2>1. CASE \E i \in 1 .. n : f = NewFrame(i)
    <3>1. PICK g \in DataPage : \A q \in Task, h \in DataPage :
                pt'[q][h].frame = f <=> q = c /\ h = g
      BY <1>8, <2>1
    <3>2. Entries(DataPage, f)' = {<<c, g>>}
      BY <3>1 DEF Entries
    <3> QED BY <2>1, <3>2, FS_Singleton, FrameSets
  <2>2. CASE ~ \E i \in 1 .. n : f = NewFrame(i)
    <3>1. Entries(DataPage, f)' = Entries(DataPage, f)
      <4>1. \A e \in Task \X DataPage : e[1] \in Task /\ e[2] \in DataPage
        OBVIOUS
      <4> QED BY <1>9, <2>2, <4>1 DEF Entries
    <3>2. phys_mem[f] = Cardinality(Entries(DataPage, f))
      BY DEF DataInv, FrameRefs, DataFrame
    <3> QED BY <2>2, <3>1, <3>2, FrameSets
  <2> QED BY <2>1, <2>2
<1>13. ASSUME Separate, NEW q \in Task, NEW g \in DataPage,
              pt'[q][g].frame \in DataFrame, pt'[q][g].rw \/ ~ USE_COW
       PROVE  phys_mem'[pt'[q][g].frame] = 1
  <2>1. pt'[q][g].frame \in Frame
    BY <1>13, FrameSets
  <2>2. CASE \E i \in 1 .. n : pt'[q][g].frame = NewFrame(i)
    BY <2>1, <2>2
  <2>3. CASE ~ \E i \in 1 .. n : pt'[q][g].frame = NewFrame(i)
    <3>1. q # c
      BY <1>5, <1>13, <2>3
    <3>2. pt'[q][g] = pt[q][g]
      BY <3>1
    <3>3. phys_mem[pt[q][g].frame] = 1
      BY <1>13, <3>2 DEF Separate, WritableSole
    <3> QED BY <2>1, <2>3, <3>2, <3>3
  <2> QED BY <2>2, <2>3
<1> QED BY <1>7, <1>10, <1>11, <1>12, <1>13
        DEF DataInv, FrameRefs, DataFrame, WritableSole

(* The temporary mappings of the parent are in pages that were free.       *)
LEMMA TempPages ==
  ASSUME Types, DataInv, NEW p \in Task, NEW n \in Nat,
         n <= NewFrames, n <= NewPages(p)
  PROVE  /\ TempMapped(p, n) \in [UserPage -> Entry]
         /\ \A g \in DataPage \cup CodePage : TempMapped(p, n)[g] = pt[p][g]
         /\ \A g \in HighPage :
               \/ TempMapped(p, n)[g] = pt[p][g]
               \/ /\ pt[p][g] = NoEntry
                  /\ TempMapped(p, n)[g].rw
                  /\ TempMapped(p, n)[g].frame \in DataFrame
<1>1. /\ FreePages(p) \in SUBSET Nat /\ IsFiniteSet(FreePages(p))
      /\ NewPages(p) \in Nat
  <2>1. FreePages(p) \in SUBSET Nat /\ IsFiniteSet(FreePages(p))
    BY PageSets, FS_Subset DEF FreePages
  <2> QED BY <2>1, FS_CardinalityType DEF NewPages
<1>2. ASSUME NEW i \in 1 .. n PROVE Nth(FreePages(p), i) \in FreePages(p)
  <2>1. i \in 1 .. Cardinality(FreePages(p))
    BY <1>1 DEF NewPages
  <2> QED BY <1>1, <2>1, NthElement
<1>3. \A g \in UserPage :
         \/ TempMapped(p, n)[g] = pt[p][g]
         \/ /\ g \in FreePages(p)
            /\ \E i \in 1 .. n : TempMapped(p, n)[g] = NewEntry(i)
  BY <1>2 DEF TempMapped
<1>4. \A i \in 1 .. n : /\ NewEntry(i) \in Entry /\ NewEntry(i).rw
                        /\ NewEntry(i).frame \in DataFrame
  <2>1. \A i \in 1 .. n : /\ NewEntry(i) \in Entry /\ NewEntry(i).rw = TRUE
                          /\ NewEntry(i).frame \in DataFrame
    BY NewFramesFree
  <2> QED BY <2>1
<1>5. \A g \in UserPage : TempMapped(p, n)[g] \in Entry
  BY <1>3, <1>4 DEF Types
<1>6. TempMapped(p, n) = [g \in UserPage |-> TempMapped(p, n)[g]]
  BY DEF TempMapped
<1>7. FreePages(p) \subseteq HighPage /\ \A g \in FreePages(p) : pt[p][g] = NoEntry
  BY DEF FreePages
<1>8. \A g \in DataPage \cup CodePage : TempMapped(p, n)[g] = pt[p][g]
  BY <1>3, <1>7, PageSets
<1>9. ASSUME NEW g \in HighPage
      PROVE  \/ TempMapped(p, n)[g] = pt[p][g]
             \/ /\ pt[p][g] = NoEntry
                /\ TempMapped(p, n)[g].rw
                /\ TempMapped(p, n)[g].frame \in DataFrame
  <2>1. g \in UserPage
    BY PageSets
  <2> QED BY <1>3, <1>4, <1>7, <2>1
<1> QED BY <1>5, <1>6, <1>8, <1>9

(* The two tables that such a fork writes.                                 *)
LEMMA ForkTables ==
  ASSUME IInv, NEW p \in Task, NEW c \in Task, Runs(p), pcb[c] = "free",
         NEW T \in [UserPage -> Entry],
         \A g \in DataPage \cup CodePage : T[g] = pt[p][g],
         \A g \in HighPage :
            \/ T[g] = pt[p][g]
            \/ pt[p][g] = NoEntry /\ T[g].rw /\ T[g].frame \in DataFrame,
         NEW data, \A g \in DataPage : data[g] \in Entry,
         NEW s \in {"alive", "leaked"},
         pcb' = [pcb EXCEPT ![c] = s],
         pt' = [pt EXCEPT ![p] = T, ![c] = ChildTable(p, c, data, {})],
         phys_mem' \in [Frame -> Int], shared_pages' = shared_pages,
         content' \in [Frame -> Val], halted' = halted
  PROVE  /\ Types' /\ CodeMapped' /\ HighInv'
         /\ \A g \in DataPage : pt'[c][g] = data[g]
         /\ \A q \in Task, g \in DataPage : q # c => pt'[q][g] = pt[q][g]
<1> USE DEF IInv
<1>1. p # c /\ pcb[p] = "alive"
  BY DEF Runs
<1> DEFINE CT == ChildTable(p, c, data, {})
<1>2. \A q \in Task, g \in UserPage : pt[q][g] \in Entry
  BY DEF Types
<1>3. /\ \A g \in CodePage : CT[g] = pt[p][g]
      /\ \A g \in DataPage : CT[g] = data[g]
      /\ \A g \in HighPage : CT[g] = pt[c][g]
      /\ CT = [g \in UserPage |-> CT[g]]
  BY PageSets DEF ChildTable
<1>4. pt' = [pt EXCEPT ![p] = T, ![c] = CT]
  OBVIOUS
<1> HIDE DEF CT
<1>5. CT \in [UserPage -> Entry]
  BY <1>2, <1>3, PageSets
<1>6. /\ pt'[c] = CT /\ pt'[p] = T
      /\ \A q \in Task : q # c /\ q # p => pt'[q] = pt[q]
  BY <1>1, <1>4 DEF Types
<1>7. pt' \in [Task -> [UserPage -> Entry]]
  BY <1>4, <1>5 DEF Types
<1>8. pcb' \in [Task -> {"free", "alive", "leaked"}]
  BY DEF Types
<1>9. Types'
  BY <1>7, <1>8 DEF Types
<1>10. \A g \in DataPage : pt'[c][g] = data[g]
  BY <1>3, <1>6
<1>11. \A q \in Task, g \in DataPage : q # c => pt'[q][g] = pt[q][g]
  <2> SUFFICES ASSUME NEW q \in Task, NEW g \in DataPage, q # c
               PROVE  pt'[q][g] = pt[q][g]
    OBVIOUS
  <2>1. CASE q = p
    BY <1>6, <2>1
  <2>2. CASE q # p
    BY <1>6, <2>2
  <2> QED BY <2>1, <2>2
<1>12. CodeMapped'
  <2>1. ASSUME NEW q \in Task, NEW g \in CodePage
        PROVE  \/ /\ pt'[q][g].frame = pt[q][g].frame
                  /\ pcb'[q] = "alive" => pcb[q] = "alive"
               \/ \E r \in Task : /\ pcb[r] = "alive"
                                  /\ pt'[q][g].frame = pt[r][g].frame
    <3>1. CASE q \in {p, c}
      <4>1. pt'[q][g] = pt[p][g]
        <5>1. CT[g] = pt[p][g] /\ T[g] = pt[p][g]
          BY <1>3
        <5> QED BY <1>6, <3>1, <5>1
      <4> QED BY <1>1, <4>1
    <3>2. CASE q \notin {p, c}
      <4>1. (pcb'[q] = "alive" => pcb[q] = "alive") /\ pt'[q] = pt[q]
        BY <1>6, <3>2 DEF Types
      <4> QED BY <4>1
    <3> QED BY <3>1, <3>2
  <2> QED BY <2>1, CodeSame
<1>13. HighInv'
  <2>1. ASSUME NEW q \in Task, NEW g \in HighPage
        PROVE  \/ pt'[q][g] = pt[q][g]
               \/ /\ pt[q][g] = NoEntry
                  /\ pt'[q][g].rw /\ pt'[q][g].frame \in DataFrame
    <3>1. CASE q = p
      BY <1>6, <3>1
    <3>2. CASE q # p
      <4>1. pt'[q][g] = pt[q][g]
        BY <1>3, <1>6, <3>2
      <4> QED BY <4>1
    <3> QED BY <3>1, <3>2
  <2> QED BY <2>1, HighSame DEF RefsSame
<1> QED BY <1>9, <1>10, <1>11, <1>12, <1>13

LEMMA ForkCopy ==
  ASSUME IInv, NEW p \in Task, NEW c \in Task,
         Runs(p), pcb[c] = "free", fork_copy(p, c), halted' = halted
  PROVE  /\ IInv'
         /\ \A q \in Task, g \in DataPage : q # c => pt'[q][g] = pt[q][g]
         /\ \A g \in DataPage : pt'[c][g].frame = NewFrame(DataNo(g))
<1> USE DEF IInv
<1> DEFINE n == NUM_PAG_DATA
           data == [g \in DataPage |-> NewEntry(DataNo(g))]
<1>1. n \in Nat /\ n <= NewFrames /\ ~ USE_COW
  <2>1. NewFrames >= NUM_PAG_DATA /\ NewFrames \in Nat /\ ~ USE_COW
    BY FreeFramesUnused DEF fork_copy
  <2> QED BY <2>1, Sizes
<1>2. shared_pages' = shared_pages /\ SharedOf(p) = {}
  BY NoSharedFound DEF fork_copy, HighInv
<1>3. /\ pcb' = [pcb EXCEPT ![c] = "alive"]
      /\ pt' = [pt EXCEPT ![p] = pt[p], ![c] = ChildTable(p, c, data, {})]
      /\ phys_mem' = [f \in Frame |->
            IF \E i \in 1 .. n : f = NewFrame(i) THEN 1 ELSE phys_mem[f]]
  BY <1>2 DEF fork_copy, TempDeleted
<1>4. \A g \in DataPage : data[g] = NewEntry(DataNo(g))
  OBVIOUS
<1>5. \A g \in DataPage : DataNo(g) \in 1 .. n /\ DataNo(g) <= n
  BY DataNumbers, Sizes
<1> HIDE DEF n, data
<1>6. \A g \in DataPage : data[g] \in Entry
  BY <1>1, <1>4, <1>5, NewFramesFree
<1>7. content' \in [Frame -> Val]
  <2>1. \A g \in DataPage : pt[p][g].frame \in Frame
    BY PageSets DEF Types, Entry
  <2>2. \A g \in DataPage : CopiedPage(p, g) \in Val
    BY <2>1 DEF CopiedPage, Types
  <2>3. content' = [f \in Frame |->
         IF \E g \in DataPage : f = NewFrame(DataNo(g))
         THEN CopiedPage(p, CHOOSE g \in DataPage : f = NewFrame(DataNo(g)))
         ELSE content[f]]
    BY DEF fork_copy
  <2>4. \A f \in Frame : content[f] \in Val
    BY DEF Types
  <2> QED BY <2>2, <2>3, <2>4
<1>8. phys_mem' \in [Frame -> Int] /\ pt[p] \in [UserPage -> Entry]
  BY <1>3 DEF Types
<1>9. /\ Types' /\ CodeMapped' /\ HighInv'
      /\ \A g \in DataPage : pt'[c][g] = data[g]
      /\ \A q \in Task, g \in DataPage : q # c => pt'[q][g] = pt[q][g]
  BY <1>2, <1>3, <1>6, <1>7, <1>8, ForkTables
<1>10. \A g \in DataPage :
            /\ DataNo(g) <= n => pt'[c][g] = NewEntry(DataNo(g))
            /\ ~ (DataNo(g) <= n) => pt'[c][g] = pt[c][g]
  BY <1>4, <1>5, <1>9
<1>11. DataInv' /\ WritableSole'
  <2>1. n <= NUM_PAG_DATA /\ n = NUM_PAG_DATA
    BY Sizes DEF n
  <2> QED BY <1>1, <1>3, <1>9, <1>10, <2>1, NewData
<1>12. Separate'
  <2>1. \A q \in Task : pcb'[q] = "leaked" <=> pcb[q] = "leaked"
    BY <1>3 DEF Types
  <2>2. \A q \in Task, g \in HighPage : pt'[q][g] = pt[q][g]
    <3>1. \A g \in HighPage : ChildTable(p, c, data, {})[g] = pt[c][g]
      BY PageSets DEF ChildTable
    <3>2. \A q \in Task : pt'[q] = IF q = c THEN ChildTable(p, c, data, {})
                                   ELSE pt[q]
      BY <1>3 DEF Types
    <3> QED BY <3>1, <3>2
  <2> QED BY <1>11, <2>1, <2>2, SeparateSame
<1>13. \A g \in DataPage : pt'[c][g].frame = NewFrame(DataNo(g))
  BY <1>1, <1>5, <1>10, NewFramesFree
<1> QED BY <1>1, <1>9, <1>11, <1>12, <1>13

LEMMA ForkNoPage ==
  ASSUME IInv, NEW p \in Task, NEW c \in Task,
         Runs(p), pcb[c] = "free", fork_no_page(p, c), halted' = halted
  PROVE  /\ IInv'
         /\ \A q \in Task, g \in DataPage : q # c => pt'[q][g] = pt[q][g]
<1> USE DEF IInv
<1> DEFINE n == NewPages(p)
           T == TempMapped(p, n)
           data == [g \in DataPage |-> IF DataNo(g) <= n THEN NewEntry(DataNo(g))
                                       ELSE pt[c][g]]
<1>1. n \in Nat /\ n <= NewFrames /\ n <= NUM_PAG_DATA /\ ~ USE_COW
  <2>1. IsFiniteSet(FreePages(p))
    BY PageSets, FS_Subset DEF FreePages
  <2>2. n \in Nat
    BY <2>1, FS_CardinalityType DEF NewPages
  <2>3. n < NUM_PAG_DATA /\ n <= NewFrames /\ ~ USE_COW
    BY DEF fork_no_page
  <2> QED BY <2>2, <2>3, Sizes
<1>2. /\ pcb' = [pcb EXCEPT ![c] = "leaked"]
      /\ pt' = [pt EXCEPT ![p] = T, ![c] = ChildTable(p, c, data, {})]
      /\ phys_mem' = [f \in Frame |->
            IF \E i \in 1 .. n : f = NewFrame(i) THEN 1 ELSE phys_mem[f]]
      /\ shared_pages' = shared_pages /\ content' = content
  BY DEF fork_no_page
<1>3. \A g \in DataPage : /\ DataNo(g) <= n => data[g] = NewEntry(DataNo(g))
                          /\ ~ (DataNo(g) <= n) => data[g] = pt[c][g]
  OBVIOUS
<1>4. \A g \in DataPage : DataNo(g) <= n => DataNo(g) \in 1 .. n
  BY DataNumbers
<1>5. n <= NewPages(p)
  BY <1>1
<1> HIDE DEF n, data
<1>6. \A g \in DataPage : data[g] \in Entry
  <2>1. \A g \in DataPage : pt[c][g] \in Entry
    BY PageSets DEF Types
  <2> QED BY <1>1, <1>3, <1>4, <2>1, NewFramesFree
<1>7. content' \in [Frame -> Val] /\ phys_mem' \in [Frame -> Int]
  BY <1>2 DEF Types
<1>8. /\ T \in [UserPage -> Entry]
      /\ \A g \in DataPage \cup CodePage : T[g] = pt[p][g]
      /\ \A g \in HighPage :
            \/ T[g] = pt[p][g]
            \/ pt[p][g] = NoEntry /\ T[g].rw /\ T[g].frame \in DataFrame
  BY <1>1, <1>5, TempPages DEF T
<1> HIDE DEF T
<1>9. /\ Types' /\ CodeMapped' /\ HighInv'
      /\ \A g \in DataPage : pt'[c][g] = data[g]
      /\ \A q \in Task, g \in DataPage : q # c => pt'[q][g] = pt[q][g]
  BY <1>2, <1>6, <1>7, <1>8, ForkTables
<1>10. \A g \in DataPage :
            /\ DataNo(g) <= n => pt'[c][g] = NewEntry(DataNo(g))
            /\ ~ (DataNo(g) <= n) => pt'[c][g] = pt[c][g]
  BY <1>3, <1>9
<1>11. DataInv' /\ WritableSole'
  BY <1>1, <1>2, <1>9, <1>10, NewData
<1>12. ~ NoLeak'
  BY <1>2 DEF NoLeak, Types
<1> QED BY <1>1, <1>9, <1>11, <1>12 DEF Separate

LEMMA ForkNoFrame ==
  ASSUME IInv, NEW p \in Task, NEW c \in Task,
         Runs(p), pcb[c] = "free", fork_no_frame(p, c), halted' = halted
  PROVE  /\ IInv'
         /\ \A q \in Task, g \in DataPage : q # c => pt'[q][g] = pt[q][g]
<1> USE DEF IInv
<1> DEFINE n == NewFrames
           T == TempMapped(p, n)
           data == [g \in DataPage |-> NoEntry]
<1>1. n \in Nat /\ n <= NewPages(p) /\ n <= NewFrames /\ ~ USE_COW
  <2>1. IsFiniteSet(FreePages(p))
    BY PageSets, FS_Subset DEF FreePages
  <2>2. NewPages(p) \in Nat
    BY <2>1, FS_CardinalityType DEF NewPages
  <2>3. n \in Nat
    BY FreeFramesUnused
  <2>4. n < NewPages(p) /\ ~ USE_COW
    BY DEF fork_no_frame
  <2> HIDE DEF n
  <2>5. n <= NewPages(p)
    BY <2>2, <2>3, <2>4
  <2> QED BY <2>3, <2>4, <2>5 DEF n
<1>2. /\ pcb' = [pcb EXCEPT ![c] = "leaked"]
      /\ pt' = [pt EXCEPT ![p] = T, ![c] = ChildTable(p, c, data, {})]
      /\ phys_mem' = phys_mem
      /\ shared_pages' = shared_pages /\ content' = content
  BY DEF fork_no_frame
<1>3. \A g \in DataPage : data[g] = NoEntry
  OBVIOUS
<1> HIDE DEF n, data
<1>4. NoEntry \in Entry
  BY Sizes DEF NoEntry, Entry, Frame
<1>5. \A g \in DataPage : data[g] \in Entry
  BY <1>3, <1>4
<1>6. content' \in [Frame -> Val] /\ phys_mem' \in [Frame -> Int]
  BY <1>2 DEF Types
<1>7. /\ T \in [UserPage -> Entry]
      /\ \A g \in DataPage \cup CodePage : T[g] = pt[p][g]
      /\ \A g \in HighPage :
            \/ T[g] = pt[p][g]
            \/ pt[p][g] = NoEntry /\ T[g].rw /\ T[g].frame \in DataFrame
  BY <1>1, TempPages DEF T
<1> HIDE DEF T
<1>8. /\ Types' /\ CodeMapped' /\ HighInv'
      /\ \A g \in DataPage : pt'[c][g] = data[g]
      /\ \A q \in Task, g \in DataPage : q # c => pt'[q][g] = pt[q][g]
  BY <1>2, <1>5, <1>6, <1>7, ForkTables
<1>9. \A q \in Task, g \in DataPage : pt'[q][g] = pt[q][g]
  <2>1. \A g \in DataPage : pt[c][g] = NoEntry
    BY DEF DataInv, DataMapped
  <2> QED BY <1>3, <1>8, <2>1
<1>10. DataInv'
  <2>1. \A q \in Task : pcb'[q] \in {pcb[q], "leaked"}
    BY <1>2 DEF Types
  <2> QED BY <1>2, <1>9, <2>1, DataSame
<1>11. WritableSole'
  BY <1>2, <1>9, SoleSame
<1>12. ~ NoLeak'
  BY <1>2 DEF NoLeak, Types
<1> QED BY <1>1, <1>8, <1>10, <1>11, <1>12 DEF Separate

-----------------------------------------------------------------------------
(* Shared memory: one entry more, or one less, for one shared page.        *)

LEMMA AttachAt ==
  ASSUME IInv, ~ halted, NEW id \in ShmId, shared_pages[id].num_refs < MAX_REFS,
         NEW t \in Task, NEW page \in HighPage, pt[t][page] = NoEntry,
         pt' = Attached(id, t, page),
         shared_pages' = [shared_pages EXCEPT ![id].num_refs = @ + 1],
         UNCHANGED <<pcb, phys_mem, content, halted>>
  PROVE  IInv'
<1> USE DEF IInv
<1> DEFINE f == shared_pages[id].frame
           e == [frame |-> f, rw |-> TRUE]
<1>1. /\ pt' = [pt EXCEPT ![t][page] = e]
      /\ shared_pages' = [shared_pages EXCEPT ![id].num_refs = @ + 1]
      /\ UNCHANGED <<pcb, phys_mem, content, halted>>
  BY DEF Attached
<1>2. page \in HighPage /\ pt[t][page] = NoEntry
  OBVIOUS
<1>3. f \in Frame /\ f \in SharedFrame /\ f # 0
  BY FrameSets DEF HighInv, SharedKept
<1>4. e \in Entry /\ e.frame = f /\ e.rw = TRUE
  BY <1>3 DEF Entry
<1> HIDE DEF e
<1>5. page \in UserPage /\ page \notin DataPage /\ page \notin CodePage
  BY <1>2, PageSets
<1>6. \A q \in Task, g \in UserPage :
         pt'[q][g] = IF q = t /\ g = page THEN e ELSE pt[q][g]
  BY <1>1, <1>5 DEF Types
<1>7. /\ \A i \in ShmId : shared_pages'[i].frame = shared_pages[i].frame
      /\ \A i \in ShmId \ {id} : shared_pages'[i].num_refs = shared_pages[i].num_refs
      /\ shared_pages'[id].num_refs = shared_pages[id].num_refs + 1
  BY <1>1 DEF Types
<1>8. Types'
  <2>1. pt' \in [Task -> [UserPage -> Entry]]
    BY <1>1, <1>4, <1>5 DEF Types
  <2>2. shared_pages' \in [ShmId -> [frame : Frame, num_refs : Int,
                                     to_clear : BOOLEAN]]
    <3>1. shared_pages \in [ShmId -> [frame : Frame, num_refs : Int,
                                      to_clear : BOOLEAN]]
      BY DEF Types
    <3>2. shared_pages' = [shared_pages EXCEPT
                             ![id].num_refs = shared_pages[id].num_refs + 1]
      BY <1>1
    <3>3. shared_pages[id].num_refs + 1 \in Int
      BY <3>1
    <3> QED BY <3>1, <3>2, <3>3
  <2> QED BY <1>1, <2>1, <2>2 DEF Types
<1>9. \A q \in Task, g \in DataPage \cup CodePage : pt'[q][g] = pt[q][g]
  BY <1>5, <1>6, PageSets
<1>10. DataInv'
  BY <1>1, <1>9, DataSame
<1>11. CodeMapped'
  BY <1>1, <1>9, CodeSame
<1>12. ASSUME NEW q \in Task, NEW g \in HighPage
       PROVE  /\ q = t /\ g = page => /\ pt'[q][g].frame = f
                                      /\ pt'[q][g].rw = TRUE
              /\ ~ (q = t /\ g = page) => pt'[q][g] = pt[q][g]
  BY <1>4, <1>6, PageSets
<1>13. HighMapped' /\ SharedKept'
  <2>1. HighMapped'
    BY <1>12 DEF HighInv, HighMapped
  <2> QED BY <1>7, <2>1 DEF HighInv, SharedKept
<1>14. RefsBound'
  <2>1. shared_pages[id].num_refs + 1 \in 0 .. MAX_REFS
    BY MemoryAssumption DEF HighInv, RefsBound
  <2> QED BY <1>7, <2>1 DEF HighInv, RefsBound
<1>15. ASSUME NEW i \in ShmId
       PROVE  shared_pages'[i].num_refs =
                Cardinality(Entries(HighPage, shared_pages[i].frame)')
  <2> DEFINE E == Entries(HighPage, shared_pages[i].frame)
  <2>1. shared_pages[i].num_refs = Cardinality(E) /\ IsFiniteSet(E)
    BY EntriesFinite, PageSets DEF HighInv, RefsCountEntries
  <2>2. CASE i = id
    <3>1. E' = E \cup {<<t, page>>}
      <4>1. \A q \in Task, g \in HighPage :
              pt'[q][g].frame = f <=> pt[q][g].frame = f \/ (q = t /\ g = page)
        <5> SUFFICES ASSUME NEW q \in Task, NEW g \in HighPage
                     PROVE  pt'[q][g].frame = f <=>
                              pt[q][g].frame = f \/ (q = t /\ g = page)
          OBVIOUS
        <5>1. CASE q = t /\ g = page
          BY <1>12, <5>1
        <5>2. CASE ~ (q = t /\ g = page)
          <6>1. pt'[q][g] = pt[q][g]
            BY <1>12, <5>2
          <6> QED BY <5>2, <6>1
        <5> QED BY <5>1, <5>2
      <4>2. E = {x \in Task \X HighPage : pt[x[1]][x[2]].frame = f}
        BY <2>2 DEF Entries
      <4>3. Entries(HighPage, f) = E
        BY <2>2
      <4>4. E' = {x \in Task \X HighPage : pt'[x[1]][x[2]].frame = f'}
        BY <2>2 DEF Entries
      <4> QED BY <1>2, <1>7, <2>2, <4>1, <4>2, <4>4
    <3>2. <<t, page>> \notin E
      <4>1. pt[t][page].frame = 0
        BY <1>2 DEF NoEntry
      <4> QED BY <1>3, <2>2, <4>1 DEF Entries
    <3>3. Cardinality(E \cup {<<t, page>>}) = Cardinality(E) + 1
      BY <2>1, <3>2, FS_AddElement
    <3> QED BY <1>7, <2>1, <2>2, <3>1, <3>3
  <2>3. CASE i # id
    <3>1. shared_pages[i].frame # f /\ shared_pages[i].frame # 0
      BY <2>3, FrameSets DEF HighInv, SharedKept
    <3>2. \A q \in Task, g \in HighPage :
            pt'[q][g].frame = shared_pages[i].frame <=>
              pt[q][g].frame = shared_pages[i].frame
      <4> SUFFICES ASSUME NEW q \in Task, NEW g \in HighPage
                   PROVE  pt'[q][g].frame = shared_pages[i].frame <=>
                            pt[q][g].frame = shared_pages[i].frame
        OBVIOUS
      <4>1. CASE q = t /\ g = page
        <5>1. pt'[q][g].frame = f
          BY <1>12, <4>1
        <5>2. pt[q][g].frame = 0
          BY <1>2, <4>1 DEF NoEntry
        <5> QED BY <3>1, <5>1, <5>2
      <4>2. CASE ~ (q = t /\ g = page)
        BY <1>12, <4>2
      <4> QED BY <4>1, <4>2
    <3>3. E' = E
      BY <1>7, <3>2 DEF Entries
    <3> QED BY <1>7, <2>1, <2>3, <3>3
  <2> QED BY <2>2, <2>3
<1>16. HighInv'
  BY <1>7, <1>13, <1>14, <1>15 DEF HighInv, RefsCountEntries
<1>17. Separate'
  <2>1. WritableSole'
    BY <1>1, <1>9, SoleSame
  <2> QED BY <1>1, <1>3, <1>12, <2>1, SeparateSame
<1> QED BY <1>8, <1>10, <1>11, <1>16, <1>17

(* shmdt finds a shared page only above the programs, and counted.         *)
LEMMA DetachFound ==
  ASSUME IInv, ~ halted, NEW t \in Task, NEW page \in UserPage,
         shmdt_ok(t, page), NEW id, id = is_frame_shared(pt[t][page].frame)
  PROVE  /\ id \in ShmId /\ shared_pages[id].frame = pt[t][page].frame
         /\ shared_pages[id].frame \in Frame
         /\ shared_pages[id].frame \in SharedFrame
         /\ shared_pages[id].frame # 0
         /\ page \in HighPage
         /\ shared_pages[id].num_refs \in 1 .. MAX_REFS
<1> USE DEF IInv
<1> DEFINE f == shared_pages[id].frame
<1>1. id # 0
  BY DEF shmdt_ok
<1>2. id \in ShmId /\ f = pt[t][page].frame
  <2> DEFINE ids == {i \in ShmId : shared_pages[i].frame = pt[t][page].frame}
  <2>1. ids # {} /\ id = Min(ids)
    BY <1>1 DEF is_frame_shared
  <2>2. ids \in SUBSET Nat
    BY Sizes DEF ShmId
  <2>3. Min(ids) \in ids
    <3> HIDE DEF ids
    <3> QED BY <2>1, <2>2, MinOf
  <2> QED BY <2>1, <2>3
<1>3. f \in Frame /\ f \in SharedFrame /\ f # 0
  BY <1>2, FrameSets DEF HighInv, SharedKept
<1>4. page \in HighPage
  <2>1. page \notin DataPage
    BY <1>2, <1>3, FrameSets DEF DataInv, DataMapped, NoEntry
  <2>2. page \notin CodePage
    BY <1>2, <1>3, FrameSets DEF CodeMapped
  <2> QED BY <2>1, <2>2, PageSets
<1>5. shared_pages[id].num_refs \in 1 .. MAX_REFS
  <2> DEFINE E == Entries(HighPage, f)
  <2>1. /\ shared_pages[id].num_refs = Cardinality(E)
        /\ IsFiniteSet(E) /\ Cardinality(E) \in Nat
    BY <1>2, EntriesFinite, PageSets DEF HighInv, RefsCountEntries
  <2>2. <<t, page>> \in E
    BY <1>2, <1>4 DEF Entries
  <2>3. Cardinality(E) # 0
    BY <2>1, <2>2, FS_EmptySet
  <2>4. shared_pages[id].num_refs \in 0 .. MAX_REFS
    BY <1>2 DEF HighInv, RefsBound
  <2> QED BY <2>1, <2>3, <2>4, MemoryAssumption
<1> QED BY <1>2, <1>3, <1>4, <1>5

LEMMA DetachAt ==
  ASSUME IInv, ~ halted, NEW t \in Task, NEW page \in UserPage,
         shmdt_ok(t, page), NEW id, id = is_frame_shared(pt[t][page].frame),
         pt' = [pt EXCEPT ![t][page] = NoEntry],
         shared_pages' = [shared_pages EXCEPT
                            ![id].num_refs = shared_pages[id].num_refs - 1],
         content' \in {content, [content EXCEPT ![shared_pages[id].frame] = 0]},
         UNCHANGED <<pcb, phys_mem, halted>>
  PROVE  IInv'
<1> USE DEF IInv
<1> DEFINE f == shared_pages[id].frame
<1>1. /\ pt' = [pt EXCEPT ![t][page] = NoEntry]
      /\ shared_pages' = [shared_pages EXCEPT
                            ![id].num_refs = shared_pages[id].num_refs - 1]
      /\ pcb' = pcb /\ phys_mem' = phys_mem /\ halted' = halted
      /\ content' \in {content, [content EXCEPT ![f] = 0]}
  OBVIOUS
<1>2. id \in ShmId /\ f = pt[t][page].frame
  BY DetachFound
<1>3. f \in Frame /\ f \in SharedFrame /\ f # 0
  BY DetachFound
<1>4. page \in HighPage /\ shared_pages[id].num_refs \in 1 .. MAX_REFS
  BY DetachFound
<1>5. NoEntry \in Entry /\ NoEntry.frame = 0
  BY Sizes DEF NoEntry, Entry, Frame
<1>6. \A q \in Task, g \in UserPage :
         pt'[q][g] = IF q = t /\ g = page THEN NoEntry ELSE pt[q][g]
  BY <1>1 DEF Types
<1>7. /\ \A i \in ShmId : shared_pages'[i].frame = shared_pages[i].frame
      /\ \A i \in ShmId \ {id} : shared_pages'[i].num_refs = shared_pages[i].num_refs
      /\ shared_pages'[id].num_refs = shared_pages[id].num_refs - 1
      /\ shared_pages[id].num_refs \in Int
  BY <1>1, <1>2 DEF Types
<1>8. Types'
  <2>1. pt' \in [Task -> [UserPage -> Entry]]
    BY <1>1, <1>5 DEF Types
  <2>2. shared_pages' \in [ShmId -> [frame : Frame, num_refs : Int,
                                     to_clear : BOOLEAN]]
    BY <1>1, <1>2 DEF Types
  <2>3. content' \in [Frame -> Val]
    <3>1. content \in [Frame -> Val] /\ 0 \in Val
      BY MemoryAssumption DEF Types
    <3> HIDE DEF f
    <3> QED BY <1>1, <1>3, <3>1
  <2> QED BY <1>1, <2>1, <2>2, <2>3 DEF Types
<1>9. \A q \in Task, g \in DataPage \cup CodePage : pt'[q][g] = pt[q][g]
  BY <1>4, <1>6, PageSets
<1>10. DataInv'
  BY <1>1, <1>9, DataSame
<1>11. CodeMapped'
  BY <1>1, <1>9, CodeSame
<1>12. ASSUME NEW q \in Task, NEW g \in HighPage
       PROVE  /\ q = t /\ g = page => pt'[q][g] = NoEntry
              /\ ~ (q = t /\ g = page) => pt'[q][g] = pt[q][g]
  BY <1>6, PageSets
<1>13. HighMapped' /\ SharedKept'
  <2>1. HighMapped'
    BY <1>12 DEF HighInv, HighMapped
  <2> QED BY <1>7, <2>1 DEF HighInv, SharedKept
<1>14. RefsBound'
  <2>1. shared_pages[id].num_refs - 1 \in 0 .. MAX_REFS
    BY <1>4, MemoryAssumption
  <2> QED BY <1>7, <2>1 DEF HighInv, RefsBound
<1>15. ASSUME NEW i \in ShmId
       PROVE  shared_pages'[i].num_refs =
                Cardinality(Entries(HighPage, shared_pages[i].frame)')
  <2> DEFINE k == shared_pages[i].frame
             E == Entries(HighPage, k)
             F == {x \in Task \X HighPage : pt'[x[1]][x[2]].frame = k}
  <2>1. shared_pages[i].num_refs = Cardinality(E) /\ IsFiniteSet(E)
    BY EntriesFinite, PageSets DEF HighInv, RefsCountEntries
  <2>2. F = Entries(HighPage, shared_pages[i].frame)'
    BY <1>7 DEF Entries
  <2>3. k # 0
    BY FrameSets DEF HighInv, SharedKept
  <2>4. CASE i = id
    <3>1. F = E \ {<<t, page>>}
      <4>1. \A q \in Task, g \in HighPage :
              pt'[q][g].frame = k <=> pt[q][g].frame = k /\ ~ (q = t /\ g = page)
        <5> SUFFICES ASSUME NEW q \in Task, NEW g \in HighPage
                     PROVE  pt'[q][g].frame = k <=>
                              pt[q][g].frame = k /\ ~ (q = t /\ g = page)
          OBVIOUS
        <5>1. CASE q = t /\ g = page
          <6>1. pt'[q][g].frame = 0
            BY <1>5, <1>12, <5>1
          <6> QED BY <2>3, <5>1, <6>1
        <5>2. CASE ~ (q = t /\ g = page)
          <6>1. pt'[q][g] = pt[q][g]
            BY <1>12, <5>2
          <6> QED BY <5>2, <6>1
        <5> QED BY <5>1, <5>2
      <4> HIDE DEF k
      <4> QED BY <4>1 DEF Entries
    <3>2. <<t, page>> \in E
      BY <1>2, <1>4, <2>4 DEF Entries
    <3>3. Cardinality(E \ {<<t, page>>}) = Cardinality(E) - 1
      BY <2>1, <3>2, FS_RemoveElement
    <3> QED BY <1>7, <2>1, <2>2, <2>4, <3>1, <3>3
  <2>5. CASE i # id
    <3>1. k # f
      BY <1>2, <2>5, FrameSets DEF HighInv, SharedKept
    <3>2. \A q \in Task, g \in HighPage :
            pt'[q][g].frame = k <=> pt[q][g].frame = k
      <4> SUFFICES ASSUME NEW q \in Task, NEW g \in HighPage
                   PROVE  pt'[q][g].frame = k <=> pt[q][g].frame = k
        OBVIOUS
      <4>1. CASE q = t /\ g = page
        <5>1. pt'[q][g].frame = 0
          BY <1>5, <1>12, <4>1
        <5>2. pt[q][g].frame = f
          BY <1>2, <4>1
        <5> QED BY <2>3, <3>1, <5>1, <5>2
      <4>2. CASE ~ (q = t /\ g = page)
        BY <1>12, <4>2
      <4> QED BY <4>1, <4>2
    <3>3. F = E
      <4> HIDE DEF k
      <4> QED BY <3>2 DEF Entries
    <3> QED BY <1>7, <2>1, <2>2, <2>5, <3>3
  <2> QED BY <2>4, <2>5
<1>16. HighInv'
  BY <1>7, <1>13, <1>14, <1>15 DEF HighInv, RefsCountEntries
<1>17. Separate'
  <2>1. WritableSole'
    BY <1>1, <1>9, SoleSame
  <2> QED BY <1>1, <1>12, <2>1, SeparateSame
<1> QED BY <1>8, <1>10, <1>11, <1>16, <1>17

-----------------------------------------------------------------------------
(* Calls, writes and page faults.                                          *)

(* A page of the tables that may be free is free.                          *)
LEMMA FreeInTable ==
  ASSUME NEW p \in Task, NEW addr, InTable(p, addr), MayBeFree(p, addr)
  PROVE  pt[TableOf(p, addr)][PageOf(addr)] = NoEntry
<1>1. PageOf(addr) # 0
  BY Sizes DEF InTable, UserPage, USER_FIRST_PAGE
<1>2. TableOf(p, addr) # NR_TASKS /\ ~ (TableOf(p, addr) > NR_TASKS)
  BY Sizes DEF InTable, Task
<1> QED BY <1>1, <1>2 DEF MayBeFree, Behind, EntryAt

(* Only the contents change, or a mark that no invariant mentions, or the  *)
(* behaviour ends.                                                         *)
LEMMA TablesSame ==
  ASSUME IInv, UNCHANGED <<pcb, phys_mem, pt>>, Types', halted => halted',
         \A i \in ShmId : RefsSame(i)
  PROVE  IInv'
<1>1. DataInv'
  BY DataSame DEF IInv
<1>2. CodeMapped'
  BY CodeSame DEF IInv
<1>3. HighInv'
  BY HighSame DEF IInv
<1>4. Separate'
  <2>1. WritableSole'
    BY SoleSame DEF IInv
  <2> QED BY <2>1, SeparateSame DEF IInv
<1> QED BY <1>1, <1>2, <1>3, <1>4 DEF IInv

LEMMA Attach ==
  ASSUME IInv, NEW p \in Task, NEW id \in ShmId, NEW addr, sys_shmat(p, id, addr)
  PROVE  IInv'
<1>1. /\ ~ halted /\ shared_pages[id].num_refs < MAX_REFS
      /\ shared_pages' = [shared_pages EXCEPT ![id].num_refs = @ + 1]
      /\ UNCHANGED <<pcb, phys_mem, content>>
  BY DEF sys_shmat, Runs
<1>2. CASE /\ FreePages(p) # {} /\ pt' = Attached(id, p, Min(FreePages(p)))
           /\ UNCHANGED halted
  <2>1. Min(FreePages(p)) \in FreePages(p)
    <3>1. FreePages(p) \in SUBSET Nat
      BY PageSets DEF FreePages
    <3> QED BY <1>2, <3>1, MinOf
  <2>2. /\ Min(FreePages(p)) \in HighPage
        /\ pt[p][Min(FreePages(p))] = NoEntry
    BY <2>1 DEF FreePages
  <2> QED BY <1>1, <1>2, <2>2, AttachAt
<1>3. CASE /\ InTable(p, addr) /\ MayBeFree(p, addr)
           /\ PageOf(addr) \in HighPage
           /\ pt' = Attached(id, TableOf(p, addr), PageOf(addr))
           /\ UNCHANGED halted
  <2>1. TableOf(p, addr) \in Task
    BY <1>3 DEF InTable
  <2>2. pt[TableOf(p, addr)][PageOf(addr)] = NoEntry
    BY <1>3, FreeInTable
  <2> QED BY <1>1, <1>3, <2>1, <2>2, AttachAt
<1>4. CASE halted' = TRUE /\ UNCHANGED pt
  <2>1. shared_pages' \in [ShmId -> [frame : Frame, num_refs : Int,
                                     to_clear : BOOLEAN]]
    <3>1. shared_pages \in [ShmId -> [frame : Frame, num_refs : Int,
                                      to_clear : BOOLEAN]]
      BY DEF IInv, Types
    <3>2. shared_pages' = [shared_pages EXCEPT
                             ![id].num_refs = shared_pages[id].num_refs + 1]
      BY <1>1
    <3>3. shared_pages[id].num_refs + 1 \in Int
      BY <3>1
    <3> QED BY <3>1, <3>2, <3>3
  <2>2. Types'
    BY <1>1, <1>4, <2>1 DEF IInv, Types
  <2>3. shared_pages[id].num_refs + 1 \in 0 .. MAX_REFS
    BY <1>1, MemoryAssumption DEF IInv, HighInv, RefsBound
  <2>4. \A i \in ShmId : RefsSame(i)
    BY <1>1, <1>4, <2>3 DEF IInv, Types, RefsSame
  <2> QED BY <1>1, <1>4, <2>2, <2>4, TablesSame
<1> QED BY <1>2, <1>3, <1>4 DEF sys_shmat

LEMMA Detach ==
  ASSUME IInv, NEW p \in Task, NEW addr, sys_shmdt(p, addr)
  PROVE  IInv'
<1> DEFINE t    == TableOf(p, addr)
           page == PageOf(addr)
           id   == is_frame_shared(pt[t][page].frame)
<1>1. ~ halted /\ UNCHANGED <<pcb, phys_mem>>
  BY DEF sys_shmdt, Runs
<1>2. CASE InTable(p, addr) /\ shmdt_ok(t, page) /\ shmdt_entry(p, t, page)
  <2>1. t \in Task /\ page \in UserPage
    BY <1>2 DEF InTable
  <2>2. /\ id \in ShmId /\ shared_pages[id].num_refs \in 1 .. MAX_REFS
    BY <1>1, <1>2, <2>1, DetachFound
  <2>3. /\ shared_pages' = [shared_pages EXCEPT
                              ![id].num_refs = shared_pages[id].num_refs - 1]
        /\ \/ /\ pt' = [pt EXCEPT ![t][page] = NoEntry]
              /\ content' \in {content,
                    [content EXCEPT ![shared_pages[id].frame] = 0]}
              /\ UNCHANGED halted
           \/ halted' = TRUE /\ UNCHANGED <<content, pt>>
    BY <1>2 DEF shmdt_entry, RefsLess
  <2> HIDE DEF t, page
  <2>4. CASE /\ pt' = [pt EXCEPT ![t][page] = NoEntry]
             /\ content' \in {content,
                   [content EXCEPT ![shared_pages[id].frame] = 0]}
             /\ UNCHANGED halted
    BY <1>1, <1>2, <2>1, <2>3, <2>4, DetachAt
  <2>5. CASE halted' = TRUE /\ UNCHANGED <<content, pt>>
    <3> HIDE DEF id
    <3>1. shared_pages[id].num_refs - 1 \in 0 .. MAX_REFS
      BY <2>2, MemoryAssumption
    <3>2. shared_pages' \in [ShmId -> [frame : Frame, num_refs : Int,
                                       to_clear : BOOLEAN]]
      BY <2>2, <2>3 DEF IInv, Types
    <3>3. Types'
      BY <1>1, <2>5, <3>2 DEF IInv, Types
    <3>4. \A i \in ShmId : RefsSame(i)
      BY <2>2, <2>3, <2>5, <3>1 DEF IInv, Types, RefsSame
    <3> QED BY <1>1, <2>5, <3>3, <3>4, TablesSame
  <2> QED BY <2>3, <2>4, <2>5
<1>3. CASE halted' = TRUE /\ UNCHANGED <<pt, shared_pages, content>>
  <2>1. Types'
    BY <1>1, <1>3 DEF IInv, Types
  <2> QED BY <1>1, <1>3, <2>1, TablesSame DEF RefsSame
<1> QED BY <1>2, <1>3 DEF sys_shmdt

LEMMA Remove ==
  ASSUME IInv, NEW p \in Task, NEW id \in ShmId, sys_shmrm(p, id)
  PROVE  IInv'
<1>1. /\ shared_pages' = [shared_pages EXCEPT ![id].to_clear = TRUE]
      /\ UNCHANGED <<pcb, phys_mem, pt, content, halted>>
  BY DEF sys_shmrm
<1>2. shared_pages' \in [ShmId -> [frame : Frame, num_refs : Int,
                                   to_clear : BOOLEAN]]
  BY <1>1 DEF IInv, Types
<1>3. \A i \in ShmId : RefsSame(i)
  BY <1>1 DEF IInv, Types, RefsSame
<1>4. Types'
  BY <1>1, <1>2 DEF IInv, Types
<1> QED BY <1>1, <1>3, <1>4, TablesSame

LEMMA Written ==
  ASSUME IInv, NEW p \in Task, NEW page \in UserPage, NEW v \in Val,
         user_write(p, page, v) \/ copy_to_user(p, page, v)
  PROVE  IInv'
<1>1. /\ content' = [content EXCEPT ![pt[p][page].frame] = v]
      /\ UNCHANGED <<pcb, phys_mem, pt, shared_pages, halted>>
  BY DEF user_write, copy_to_user
<1>2. content' \in [Frame -> Val]
  BY <1>1 DEF IInv, Types
<1>3. Types'
  BY <1>1, <1>2 DEF IInv, Types
<1> QED BY <1>1, <1>3, TablesSame DEF RefsSame

LEMMA OneEntry ==
  ASSUME NEW t \in [Task -> [UserPage -> Entry]], NEW p \in Task,
         NEW page \in UserPage, NEW e \in Entry,
         NEW u, u = [t EXCEPT ![p][page] = e]
  PROVE  /\ u \in [Task -> [UserPage -> Entry]]
         /\ \A q \in Task, g \in UserPage :
               u[q][g] = IF q = p /\ g = page THEN e ELSE t[q][g]
  OBVIOUS

(* The fault finds one reference: the entry becomes writable.              *)
LEMMA FaultOne ==
  ASSUME IInv, NEW p \in Task, NEW page \in UserPage,
         ~ pt[p][page].rw, pt[p][page] # NoEntry,
         phys_mem[pt[p][page].frame] = 1,
         NEW e \in Entry, e.frame = pt[p][page].frame,
         pt' = [pt EXCEPT ![p][page] = e],
         UNCHANGED <<pcb, phys_mem, shared_pages, content, halted>>
  PROVE  IInv'
<1> USE DEF IInv
<1>1. page \notin HighPage
  BY DEF HighInv, HighMapped
<1>2. /\ pt' \in [Task -> [UserPage -> Entry]]
      /\ \A q \in Task, g \in UserPage :
            pt'[q][g] = IF q = p /\ g = page THEN e ELSE pt[q][g]
  <2>1. pt \in [Task -> [UserPage -> Entry]]
    BY DEF Types
  <2> QED BY <2>1, OneEntry
<1>3. ASSUME NEW q \in Task, NEW g \in UserPage
      PROVE  /\ pt'[q][g].frame = pt[q][g].frame
             /\ (q = p /\ g = page) \/ pt'[q][g] = pt[q][g]
  BY <1>2
<1>4. Types'
  BY <1>2 DEF Types
<1>5. DataInv'
  <2>1. \A q \in Task, g \in DataPage :
            /\ pt'[q][g].frame = pt[q][g].frame
            /\ pt[q][g] = NoEntry => pt'[q][g] = NoEntry
    BY <1>3, PageSets
  <2> QED BY <2>1, DataSame
<1>6. CodeMapped'
  <2>1. \A q \in Task, g \in CodePage : pt'[q][g].frame = pt[q][g].frame
    BY <1>3, PageSets
  <2> QED BY <2>1, CodeSame
<1>7. \A q \in Task, g \in HighPage : pt'[q][g] = pt[q][g]
  BY <1>1, <1>3, PageSets
<1>8. HighInv'
  BY <1>7, HighSame DEF RefsSame
<1>9. WritableSole'
  <2> SUFFICES ASSUME NEW q \in Task, NEW g \in DataPage,
                      pt'[q][g].frame \in DataFrame, pt'[q][g].rw \/ ~ USE_COW
               PROVE  phys_mem[pt'[q][g].frame] = 1
    BY DEF WritableSole
  <2>1. g \in UserPage
    BY PageSets
  <2>2. CASE q = p /\ g = page
    BY <1>3, <2>1, <2>2
  <2>3. CASE ~ (q = p /\ g = page)
    <3>1. pt'[q][g] = pt[q][g]
      BY <1>3, <2>1, <2>3
    <3> QED BY <3>1 DEF Separate, WritableSole
  <2> QED BY <2>2, <2>3
<1>10. Separate'
  BY <1>7, <1>9, SeparateSame
<1> QED BY <1>4, <1>5, <1>6, <1>8, <1>10

(* The fault copies the page: one reference moves to a new frame.          *)
LEMMA FaultCopy ==
  ASSUME IInv, NEW p \in Task, NEW page \in UserPage, Runs(p),
         ~ pt[p][page].rw, pt[p][page] # NoEntry,
         phys_mem[pt[p][page].frame] # 1, FreeFrames # {},
         NEW old, old = pt[p][page].frame, NEW new, new = Min(FreeFrames),
         NEW e \in Entry, e.frame = new,
         pt' = [pt EXCEPT ![p][page] = e],
         phys_mem' = RefMoved(old, new),
         content' = [content EXCEPT ![new] = content[old]],
         UNCHANGED <<pcb, shared_pages, halted>>
  PROVE  /\ IInv'
         /\ page \in DataPage /\ new \in FreeFrames /\ new \in DataFrame
<1> USE DEF IInv
<1>1. pcb[p] = "alive"
  BY DEF Runs
<1>2. page \in DataPage
  <2>1. page \notin HighPage
    BY DEF HighInv, HighMapped
  <2>2. page \notin CodePage
    BY <1>1 DEF CodeMapped, DataInv, BootFrames
  <2> QED BY <2>1, <2>2, PageSets
<1>3. old \in DataFrame /\ old \in Frame
  BY <1>1, <1>2, FrameSets DEF DataInv, DataMapped
<1>4. new \in FreeFrames /\ new \in DataFrame /\ new \in Frame /\ phys_mem[new] = 0
  <2>1. new \in FreeFrames
    BY FreeFramesUnused, MinOf
  <2> QED BY <2>1, FreeFramesUnused, FrameSets DEF FreeFrames
<1>5. \A q \in Task, g \in DataPage : pt[q][g].frame # new
  BY <1>4, FreeFramesUnused
<1>6. old # new
  BY <1>2, <1>5
<1>7. /\ phys_mem'[old] = phys_mem[old] - 1 /\ phys_mem'[new] = 1
      /\ \A f \in Frame : f # old /\ f # new => phys_mem'[f] = phys_mem[f]
      /\ phys_mem' \in [Frame -> Int]
  BY <1>3, <1>4, <1>6 DEF RefMoved, Types
<1>8. /\ pt' \in [Task -> [UserPage -> Entry]]
       /\ \A q \in Task, g \in UserPage :
             pt'[q][g] = IF q = p /\ g = page THEN e ELSE pt[q][g]
  <2>1. pt \in [Task -> [UserPage -> Entry]]
    BY DEF Types
  <2> QED BY <2>1, OneEntry
<1>9. ASSUME NEW q \in Task, NEW g \in UserPage
       PROVE  /\ q = p /\ g = page => pt'[q][g].frame = new
              /\ ~ (q = p /\ g = page) => pt'[q][g] = pt[q][g]
  BY <1>8
<1>10. Types'
  <2>1. content' \in [Frame -> Val]
    BY <1>3, <1>4 DEF Types
  <2> QED BY <1>7, <1>8, <2>1 DEF Types
<1>11. DataMapped'
  <2> SUFFICES ASSUME NEW q \in Task, NEW g \in DataPage
               PROVE  /\ pt'[q][g] = NoEntry \/ pt'[q][g].frame \in DataFrame
                      /\ pcb[q] = "free" => pt'[q][g] = NoEntry
                      /\ pcb[q] = "alive" => pt'[q][g].frame \in DataFrame
    BY DEF DataMapped
  <2>1. g \in UserPage
    BY PageSets
  <2>2. CASE q = p /\ g = page
    BY <1>1, <1>4, <1>9, <2>1, <2>2
  <2>3. CASE ~ (q = p /\ g = page)
    <3>1. pt'[q][g] = pt[q][g]
      BY <1>9, <2>1, <2>3
    <3> QED BY <3>1 DEF DataInv, DataMapped
  <2> QED BY <2>2, <2>3
<1>12. ASSUME NEW q \in Task, NEW g \in DataPage
       PROVE  /\ pt'[q][g].frame = new <=> q = p /\ g = page
              /\ pt'[q][g].frame # new => pt'[q][g].frame = pt[q][g].frame
  <2>1. g \in UserPage
    BY PageSets
  <2>2. CASE q = p /\ g = page
    BY <1>9, <2>1, <2>2
  <2>3. CASE ~ (q = p /\ g = page)
    <3>1. pt'[q][g] = pt[q][g]
      BY <1>9, <2>1, <2>3
    <3> QED BY <1>5, <2>3, <3>1
  <2> QED BY <2>2, <2>3
<1>13. OnePage'
  <2> SUFFICES ASSUME NEW q \in Task, NEW r \in Task,
                      NEW g \in DataPage, NEW h \in DataPage,
                      pt'[q][g].frame = pt'[r][h].frame,
                      pt'[q][g].frame \in DataFrame
               PROVE  g = h
    BY DEF OnePage
  <2>1. CASE pt'[q][g].frame = new
    BY <1>12, <2>1
  <2>2. CASE pt'[q][g].frame # new
    <3>1. pt'[q][g].frame = pt[q][g].frame /\ pt'[r][h].frame = pt[r][h].frame
      BY <1>12, <2>2
    <3> QED BY <3>1 DEF DataInv, OnePage
  <2> QED BY <2>1, <2>2
<1>14. BootFrames'
  <2>1. \A f \in Frame \ DataFrame : phys_mem'[f] = phys_mem[f]
    BY <1>3, <1>4, <1>7
  <2> QED BY <2>1, FrameSets DEF DataInv, BootFrames
<1>15. ASSUME NEW f \in DataFrame
       PROVE  phys_mem'[f] = Cardinality(Entries(DataPage, f)')
  <2> DEFINE E == Entries(DataPage, f)
  <2>1. phys_mem[f] = Cardinality(E) /\ IsFiniteSet(E)
    BY EntriesFinite, PageSets DEF DataInv, FrameRefs, DataFrame
  <2>2. CASE f = new
    <3>1. E' = {<<p, page>>}
      BY <1>2, <1>12, <2>2 DEF Entries
    <3> QED BY <1>7, <2>2, <3>1, FS_Singleton
  <2>3. CASE f = old
    <3>1. \A q \in Task, g \in DataPage :
            pt'[q][g].frame = f <=> pt[q][g].frame = f /\ ~ (q = p /\ g = page)
      <4> SUFFICES ASSUME NEW q \in Task, NEW g \in DataPage
                   PROVE  pt'[q][g].frame = f <=>
                            pt[q][g].frame = f /\ ~ (q = p /\ g = page)
        OBVIOUS
      <4>1. CASE q = p /\ g = page
        BY <1>6, <1>12, <2>3, <4>1
      <4>2. CASE ~ (q = p /\ g = page)
        <5>1. pt'[q][g].frame = pt[q][g].frame
          BY <1>12, <4>2
        <5> QED BY <4>2, <5>1
      <4> QED BY <4>1, <4>2
    <3>2. E' = E \ {<<p, page>>}
      BY <3>1 DEF Entries
    <3>3. <<p, page>> \in E
      BY <1>2, <2>3 DEF Entries
    <3>4. Cardinality(E \ {<<p, page>>}) = Cardinality(E) - 1
      BY <2>1, <3>3, FS_RemoveElement
    <3> QED BY <1>7, <2>1, <2>3, <3>2, <3>4
  <2>4. CASE f # new /\ f # old
    <3>1. \A q \in Task, g \in DataPage :
            pt'[q][g].frame = f <=> pt[q][g].frame = f
      <4> SUFFICES ASSUME NEW q \in Task, NEW g \in DataPage
                   PROVE  pt'[q][g].frame = f <=> pt[q][g].frame = f
        OBVIOUS
      <4>1. CASE q = p /\ g = page
        <5>1. pt'[q][g].frame = new /\ pt[q][g].frame = old
          BY <1>12, <4>1
        <5> QED BY <2>4, <5>1
      <4>2. CASE ~ (q = p /\ g = page)
        BY <1>12, <4>2
      <4> QED BY <4>1, <4>2
    <3>2. E' = E
      BY <3>1 DEF Entries
    <3> QED BY <1>7, <2>1, <2>4, <3>2, FrameSets
  <2> QED BY <2>2, <2>3, <2>4
<1>16. DataInv'
  BY <1>11, <1>13, <1>14, <1>15 DEF DataInv, FrameRefs, DataFrame
<1>17. \A q \in Task, g \in CodePage \cup HighPage : pt'[q][g] = pt[q][g]
  BY <1>2, <1>9, PageSets
<1>18. CodeMapped'
  BY <1>17, CodeSame
<1>19. HighInv'
  BY <1>17, HighSame DEF RefsSame
<1>20. WritableSole'
  <2> SUFFICES ASSUME NEW q \in Task, NEW g \in DataPage,
                      pt'[q][g].frame \in DataFrame, pt'[q][g].rw \/ ~ USE_COW
               PROVE  phys_mem'[pt'[q][g].frame] = 1
    BY DEF WritableSole
  <2>1. CASE q = p /\ g = page
    BY <1>7, <1>12, <2>1
  <2>2. CASE ~ (q = p /\ g = page)
    <3>1. pt'[q][g] = pt[q][g]
      BY <1>9, <2>2, PageSets
    <3>2. pt[q][g].frame \in DataFrame /\ phys_mem[pt[q][g].frame] = 1
      BY <3>1 DEF Separate, WritableSole
    <3> QED BY <1>4, <1>7, <3>1, <3>2, FrameSets
  <2> QED BY <2>1, <2>2
<1>21. Separate'
  BY <1>17, <1>20, SeparateSame
<1> QED BY <1>2, <1>4, <1>10, <1>16, <1>18, <1>19, <1>21

LEMMA Fault ==
  ASSUME IInv, NEW p \in Task, NEW addr, pgf_routine(p, addr)
  PROVE  IInv'
<1> DEFINE n    == PH_PAGE(addr)
           t    == TableOf(p, n)
           page == PageOf(n)
           old  == pt[t][page].frame
           new  == Min(FreeFrames)
<1> HIDE DEF n
<1>1. Runs(p) /\ UNCHANGED <<pcb, shared_pages>> /\ pgf_entry(p, n)
  BY DEF pgf_routine, n
<1>2. is_cow_page(p, n) => /\ t \in Task /\ page \in UserPage
                           /\ pt[t][page] # NoEntry /\ ~ pt[t][page].rw
  BY DEF is_cow_page, InTable, EntryAt
<1>3. CASE /\ is_cow_page(p, n) /\ phys_mem[old] = 1
           /\ pt' = [pt EXCEPT ![t][page].rw = TRUE]
           /\ UNCHANGED <<phys_mem, content, halted>>
  <2> DEFINE e == [pt[t][page] EXCEPT !.rw = TRUE]
  <2> HIDE DEF t, page
  <2>1. pt[t][page] \in Entry
    BY <1>2, <1>3 DEF IInv, Types
  <2>2. e \in Entry /\ e.frame = pt[t][page].frame
    BY <2>1 DEF Entry
  <2>3. pt' = [pt EXCEPT ![t][page] = e]
    BY <1>3
  <2> HIDE DEF e
  <2>4. /\ phys_mem[pt[t][page].frame] = 1
        /\ UNCHANGED <<pcb, phys_mem, shared_pages, content, halted>>
    BY <1>1, <1>3
  <2>5. /\ t \in Task /\ page \in UserPage
        /\ pt[t][page] # NoEntry /\ ~ pt[t][page].rw
    BY <1>2, <1>3
  <2> QED BY <2>2, <2>3, <2>4, <2>5, FaultOne
<1>4. CASE /\ is_cow_page(p, n) /\ phys_mem[old] # 1 /\ t = p
           /\ FreeFrames # {}
           /\ pt' = [pt EXCEPT ![p][page] = [frame |-> new, rw |-> TRUE]]
           /\ phys_mem' = RefMoved(old, new)
           /\ content' = [content EXCEPT ![new] = content[old]]
           /\ UNCHANGED halted
  <2> DEFINE e == [frame |-> new, rw |-> TRUE]
  <2> HIDE DEF t, page
  <2>1. new \in Frame
    <3>1. new \in FreeFrames
      BY <1>4, FreeFramesUnused, MinOf DEF IInv
    <3> QED BY <3>1 DEF FreeFrames
  <2>2. e \in Entry /\ e.frame = new
    BY <2>1 DEF Entry
  <2>3. pt' = [pt EXCEPT ![p][page] = e]
    BY <1>4
  <2> HIDE DEF e
  <2>4. /\ page \in UserPage /\ pt[p][page] # NoEntry /\ ~ pt[p][page].rw
        /\ phys_mem[pt[p][page].frame] # 1 /\ FreeFrames # {}
        /\ old = pt[p][page].frame /\ new = Min(FreeFrames)
    BY <1>2, <1>4
  <2>5. /\ phys_mem' = RefMoved(old, new)
        /\ content' = [content EXCEPT ![new] = content[old]]
        /\ UNCHANGED <<pcb, shared_pages, halted>>
    BY <1>1, <1>4
  <2> HIDE DEF old, new
  <2> QED BY <1>1, <2>2, <2>3, <2>4, <2>5, FaultCopy
<1>5. CASE halted' = TRUE /\ UNCHANGED <<pt, phys_mem, content>>
  <2>1. Types'
    BY <1>1, <1>5 DEF IInv, Types
  <2> QED BY <1>1, <1>5, <2>1, TablesSame DEF RefsSame
<1> QED BY <1>1, <1>3, <1>4, <1>5 DEF pgf_entry, EntryAt

LEMMA Step == IInv /\ [Next]_vars => IInv'
<1> SUFFICES ASSUME IInv, [Next]_vars PROVE IInv'
  OBVIOUS
<1>1. CASE UNCHANGED vars
  <2>1. Types'
    BY <1>1 DEF IInv, Types, vars
  <2> QED BY <1>1, <2>1, TablesSame DEF vars, RefsSame
<1>2. ASSUME NEW p \in Task, NEW c \in Task, sys_fork(p, c) PROVE IInv'
  <2>1. Runs(p) /\ pcb[c] = "free" /\ halted' = halted
    BY <1>2 DEF sys_fork
  <2>2. CASE fork_cow(p, c)
    BY <2>1, <2>2, ForkCow
  <2>3. CASE fork_copy(p, c)
    BY <2>1, <2>3, ForkCopy
  <2>4. CASE fork_no_page(p, c)
    BY <2>1, <2>4, ForkNoPage
  <2>5. CASE fork_no_frame(p, c)
    BY <2>1, <2>5, ForkNoFrame
  <2> QED BY <1>2, <2>2, <2>3, <2>4, <2>5 DEF sys_fork
<1>3. ASSUME NEW p \in Task, sys_exit(p) PROVE IInv'
  BY <1>3, Exit
<1>4. ASSUME NEW p \in Task, NEW id \in ShmId, NEW addr \in Addr,
             sys_shmat(p, id, addr)
      PROVE  IInv'
  BY <1>4, Attach
<1>5. ASSUME NEW p \in Task, NEW addr, sys_shmdt(p, addr)
      PROVE  IInv'
  BY <1>5, Detach
<1>6. ASSUME NEW p \in Task, NEW id \in ShmId, sys_shmrm(p, id) PROVE IInv'
  BY <1>6, Remove
<1>7. ASSUME NEW p \in Task, NEW page \in UserPage, NEW v \in Val,
             user_write(p, page, v) \/ copy_to_user(p, page, v)
      PROVE  IInv'
  BY <1>7, Written
<1>8. ASSUME NEW p \in Task, NEW addr, pgf_routine(p, addr)
      PROVE  IInv'
  BY <1>8, Fault
<1>9. pgf_spin \/ cpu_idle => UNCHANGED vars
  BY DEF pgf_spin, cpu_idle
<1> QED BY <1>1, <1>2, <1>3, <1>4, <1>5, <1>6, <1>7, <1>8, <1>9 DEF Next

LEMMA Invariant == Spec => []IInv
  BY InitInv, Step, PTL DEF Spec

-----------------------------------------------------------------------------
(* No counter leaves its range: a frame has at most one data entry in each *)
(* table, a shared page at most MAX_REFS.                                  *)
THEOREM MemoryTypes == Spec => []TypeOK
<1>1. IInv => TypeOK
  <2> SUFFICES ASSUME IInv PROVE TypeOK
    OBVIOUS
  <2> USE DEF IInv
  <2>1. ASSUME NEW f \in Frame PROVE phys_mem[f] \in 0 .. NR_TASKS
    <3>1. CASE f \notin DataFrame
      BY <3>1, Sizes DEF DataInv, BootFrames
    <3>2. CASE f \in DataFrame
      <4> DEFINE E == Entries(DataPage, f)
      <4>1. phys_mem[f] = Cardinality(E) /\ Cardinality(E) \in Nat
        BY <3>2, EntriesFinite, PageSets DEF DataInv, FrameRefs, DataFrame
      <4>2. PICK g \in DataPage : \A q \in Task, h \in DataPage :
                                     pt[q][h].frame = f => h = g
        <5>1. CASE \E q \in Task, g \in DataPage : pt[q][g].frame = f
          BY <3>2, <5>1 DEF DataInv, OnePage
        <5>2. CASE ~ \E q \in Task, g \in DataPage : pt[q][g].frame = f
          BY <5>2, PageSets
        <5> QED BY <5>1, <5>2
      <4>3. E \subseteq Task \X {g}
        BY <4>2 DEF Entries
      <4>4. IsFiniteSet(Task \X {g}) /\ Cardinality(Task \X {g}) = NR_TASKS
        <5>1. IsFiniteSet({g}) /\ Cardinality({g}) = 1
          BY FS_Singleton
        <5>2. /\ IsFiniteSet(Task \X {g})
              /\ Cardinality(Task \X {g}) = Cardinality(Task) * Cardinality({g})
          BY <5>1, TaskFinite, FS_Product
        <5> QED BY <5>1, <5>2, TaskFinite, Sizes
      <4>5. Cardinality(E) <= NR_TASKS
        BY <4>3, <4>4, FS_Subset
      <4> QED BY <4>1, <4>5, Sizes
    <3> QED BY <3>1, <3>2
  <2>2. phys_mem \in [Frame -> 0 .. NR_TASKS]
    BY <2>1 DEF Types
  <2>3. ASSUME NEW i \in ShmId PROVE shared_pages[i].num_refs \in 0 .. MAX_REFS
    BY DEF HighInv, RefsBound
  <2>4. shared_pages \in [ShmId -> [frame : Frame, num_refs : 0 .. MAX_REFS,
                                    to_clear : BOOLEAN]]
    BY <2>3 DEF Types
  <2> QED BY <2>2, <2>4 DEF Types, TypeOK
<1> QED BY <1>1, Invariant, PTL

(* alloc_frame, free_frame, fork, exit and pgf_routine keep the counter of *)
(* every data frame equal to the number of data entries that map it.       *)
THEOREM FramesCounted == Spec => []FrameRefs
<1>1. IInv => FrameRefs
  BY DEF IInv, DataInv
<1> QED BY <1>1, Invariant, PTL

(* shmat and shmdt keep num_refs equal to the number of entries of all     *)
(* tables that map the shared page; fork and exit never change it.         *)
THEOREM SharedRefsCounted == Spec => []RefsCountEntries
<1>1. IInv => RefsCountEntries
  BY DEF IInv, HighInv
<1> QED BY <1>1, Invariant, PTL

(* With copy on write no live process has an entry for a free frame.       *)
THEOREM NothingDangles ==
  ASSUME USE_COW
  PROVE  Spec => []NoDanglingPage
<1>1. IInv => NoDanglingPage
  <2> SUFFICES ASSUME IInv, NEW p \in Task, pcb[p] = "alive",
                      NEW g \in UserPage, pt[p][g] # NoEntry
               PROVE  phys_mem[pt[p][g].frame] > 0
    BY DEF NoDanglingPage, Alive
  <2> USE DEF IInv
  <2> DEFINE f == pt[p][g].frame
  <2>1. CASE g \in DataPage
    <3>1. f \in DataFrame
      BY <2>1 DEF DataInv, DataMapped
    <3>2. <<p, g>> \in Entries(DataPage, f)
      BY <2>1 DEF Entries
    <3>3. /\ Cardinality(Entries(DataPage, f)) # 0
          /\ Cardinality(Entries(DataPage, f)) \in Nat
      BY <3>2, EntriesFinite, PageSets, FS_EmptySet
    <3>4. phys_mem[f] = Cardinality(Entries(DataPage, f))
      BY <3>1 DEF DataInv, FrameRefs, DataFrame
    <3> QED BY <3>3, <3>4
  <2>2. CASE g \in CodePage
    BY <2>2 DEF CodeMapped, DataInv, BootFrames
  <2>3. CASE g \in HighPage
    BY <2>3 DEF Separate, HighShared, DataInv, BootFrames
  <2> QED BY <2>1, <2>2, <2>3, PageSets
<1> QED BY <1>1, Invariant, PTL

-----------------------------------------------------------------------------
(* Copy on write implements private memories.                              *)

LEMMA MemoryOf ==
  /\ Memories = [p \in Task |-> Memories[p]]
  /\ \A p \in Task : pcb[p] = "alive" => Memories[p] = DataOf(p)
  /\ \A p \in Task : pcb[p] # "alive" => Memories[p] = Gone
  /\ \A p : DataOf(p) # Gone
<1>1. \A p : DOMAIN DataOf(p) = DataPage /\ DOMAIN Gone = {}
  BY DEF DataOf, Gone
<1>2. \A p : DataOf(p) # Gone
  BY <1>1, PageSets
<1> QED BY <1>2 DEF Memories

(* Processes that stay alive and read the same values have the same memory.*)
LEMMA MemoriesSame ==
  ASSUME pcb' = pcb,
         \A p \in Task, g \in DataPage : pcb[p] = "alive" =>
            content'[pt'[p][g].frame] = content[pt[p][g].frame]
  PROVE  Memories' = Memories
<1>1. \A p \in Task : pcb[p] = "alive" => DataOf(p)' = DataOf(p)
  BY DEF DataOf
<1> QED BY <1>1 DEF Memories, Gone

LEMMA InitPrivate == Init => A!Init
<1> SUFFICES ASSUME Init PROVE A!Init
  OBVIOUS
<1>1. IInv
  BY InitInv
<1>2. task1 \in Task /\ \A p \in Task : pcb[p] = "alive" <=> p = task1
  BY Sizes DEF Init, task1, Task
<1>3. DataOf(task1) \in [DataPage -> Val]
  <2>1. \A g \in DataPage : pt[task1][g].frame \in Frame
    BY <1>1, <1>2, PageSets DEF IInv, Types, Entry
  <2> QED BY <1>1, <2>1 DEF DataOf, IInv, Types
<1>4. Memories = [q \in Task |-> IF q = task1 THEN DataOf(task1) ELSE Gone]
  BY <1>2 DEF Memories
<1> QED BY <1>2, <1>3, <1>4 DEF A!Init

(* What a live process maps in its data pages are data frames, and the one *)
(* that it may write is its own.                                           *)
LEMMA LiveFrames ==
  ASSUME IInv, NEW p \in Task, NEW g \in DataPage, pcb[p] = "alive"
  PROVE  pt[p][g].frame \in DataFrame /\ pt[p][g].frame \in Frame
  BY FrameSets DEF IInv, DataInv, DataMapped

(* A child that reads what its parent reads, when the others read what     *)
(* they read before, is a fork of private memories.                        *)
LEMMA Forked ==
  ASSUME NEW p \in Task, NEW c \in Task, pcb[p] = "alive", pcb[c] # "alive",
         pcb'[c] = "alive", \A q \in Task : q # c => pcb'[q] = pcb[q],
         \A q \in Task : pcb[q] = "alive" => DataOf(q)' = DataOf(q),
         DataOf(c)' = DataOf(p)
  PROVE  A!Fork(p, c)
<1>1. \A q \in Task : Memories'[q] = IF q = c THEN Memories[p] ELSE Memories[q]
  <2> SUFFICES ASSUME NEW q \in Task
               PROVE  Memories'[q] = IF q = c THEN Memories[p] ELSE Memories[q]
    OBVIOUS
  <2>1. Memories'[q] = IF pcb'[q] = "alive" THEN DataOf(q)' ELSE Gone
    BY DEF Memories, Gone
  <2>2. CASE q = c
    BY <2>1, <2>2, MemoryOf
  <2>3. CASE q # c
    BY <2>1, <2>3, MemoryOf
  <2> QED BY <2>2, <2>3
<1>2. Memories' = [Memories EXCEPT ![c] = Memories[p]]
  <2>1. Memories' = [q \in Task |-> Memories'[q]]
    BY DEF Memories
  <2>2. Memories = [q \in Task |-> Memories[q]]
    BY MemoryOf
  <2> QED BY <1>1, <2>1, <2>2
<1>3. p \in A!Alive /\ c \notin A!Alive
  BY MemoryOf DEF A!Alive
<1> QED BY <1>2, <1>3 DEF A!Fork

LEMMA ForkPrivate ==
  ASSUME IInv, NEW p \in Task, NEW c \in Task,
         Runs(p), pcb[c] = "free", fork_cow(p, c)
  PROVE  A!Fork(p, c)
<1>1. p # c /\ pcb[p] = "alive" /\ content' = content
      /\ pcb' = [pcb EXCEPT ![c] = "alive"] /\ pcb \in [Task -> {"free", "alive", "leaked"}]
  BY DEF fork_cow, Runs, IInv, Types
<1>2. \A q \in Task : q # c => pcb'[q] = pcb[q]
  BY <1>1
<1>3. pcb'[c] = "alive" /\ pcb[c] # "alive"
  BY <1>1
<1>4. ASSUME NEW g \in DataPage, NEW q \in Task, pcb[q] = "alive"
      PROVE  pt'[q][g].frame = pt[q][g].frame
  <2>1. g \in UserPage /\ pt[q][g] \in Entry
    <3>1. g \in UserPage
      BY PageSets
    <3> QED BY <3>1 DEF IInv, Types
  <2>2. ReadOnly(pt[q][g]).frame = pt[q][g].frame
    BY <2>1 DEF ReadOnly, Entry
  <2>3. ParentReadOnly(p)[g] = ReadOnly(pt[p][g])
    BY <2>1 DEF ParentReadOnly
  <2>4. q # c /\ pt'[q] = IF q = p THEN ParentReadOnly(p) ELSE pt[q]
    <3>1. q # c
      BY <1>3, <1>4
    <3> QED BY <3>1 DEF fork_cow, IInv, Types
  <2>5. CASE q = p
    BY <2>2, <2>3, <2>4, <2>5
  <2>6. CASE q # p
    BY <2>4, <2>6
  <2> QED BY <2>5, <2>6
<1>5. ASSUME NEW g \in DataPage PROVE pt'[c][g].frame = pt[p][g].frame
  <2> DEFINE data == [h \in DataPage |-> ReadOnly(pt[p][h])]
             CT   == ChildTable(p, c, data, SharedOf(p))
  <2>1. pt[p][g] \in Entry /\ g \in UserPage
        /\ g \notin CodePage /\ g \notin HighPage
    BY PageSets DEF IInv, Types
  <2>2. SharedOf(p) \subseteq HighPage
    BY DEF SharedOf
  <2>3. data[g] = ReadOnly(pt[p][g])
    OBVIOUS
  <2>4. pt'[c] = CT
    BY <1>1 DEF fork_cow, IInv, Types
  <2> HIDE DEF data
  <2>5. CT[g] = data[g]
    BY <2>1, <2>2 DEF ChildTable
  <2>6. ReadOnly(pt[p][g]).frame = pt[p][g].frame
    BY <2>1 DEF ReadOnly, Entry
  <2> HIDE DEF CT
  <2> QED BY <2>3, <2>4, <2>5, <2>6
<1>6. \A q \in Task : pcb[q] = "alive" => DataOf(q)' = DataOf(q)
  BY <1>1, <1>4 DEF DataOf
<1>7. DataOf(c)' = DataOf(p)
  BY <1>1, <1>5 DEF DataOf
<1> QED BY <1>1, <1>2, <1>3, <1>6, <1>7, Forked

(* The frames that fork copies to were free: nobody reads them but the     *)
(* child, and it reads there what its parent reads.                        *)
LEMMA ForkCopyPrivate ==
  ASSUME IInv, NEW p \in Task, NEW c \in Task,
         Runs(p), pcb[c] = "free", fork_copy(p, c), halted' = halted
  PROVE  A!Fork(p, c)
<1>1. /\ p # c /\ pcb[p] = "alive"
      /\ pcb' = [pcb EXCEPT ![c] = "alive"] /\ pcb \in [Task -> {"free", "alive", "leaked"}]
  BY DEF fork_copy, Runs, IInv, Types
<1>2. \A q \in Task : q # c => pcb'[q] = pcb[q]
  BY <1>1
<1>3. pcb'[c] = "alive" /\ pcb[c] # "alive"
  BY <1>1
<1>4. /\ \A q \in Task, g \in DataPage : q # c => pt'[q][g] = pt[q][g]
      /\ \A g \in DataPage : pt'[c][g].frame = NewFrame(DataNo(g))
  BY ForkCopy
<1>5. /\ \A g \in DataPage : NewFrame(DataNo(g)) \in FreeFrames
      /\ \A g, h \in DataPage : NewFrame(DataNo(g)) = NewFrame(DataNo(h)) => g = h
  <2>1. NUM_PAG_DATA \in Nat /\ NUM_PAG_DATA <= NewFrames
    <3>1. NewFrames >= NUM_PAG_DATA /\ NewFrames \in Nat
      BY FreeFramesUnused DEF fork_copy, IInv
    <3> QED BY <3>1, Sizes
  <2> QED BY <2>1, NewFramesFree, DataNumbers DEF IInv
<1>6. \A g \in DataPage, q \in Task, h \in DataPage :
         pt[q][h].frame # NewFrame(DataNo(g))
  BY <1>5, FreeFramesUnused DEF IInv
<1>7. content' = [f \in Frame |->
         IF \E g \in DataPage : f = NewFrame(DataNo(g))
         THEN CopiedPage(p, CHOOSE g \in DataPage : f = NewFrame(DataNo(g)))
         ELSE content[f]]
  BY DEF fork_copy
<1>8. \A f \in FreeFrames : f \in Frame
  BY DEF FreeFrames
<1>9. ASSUME NEW q \in Task, NEW g \in DataPage, pcb[q] = "alive"
      PROVE  content'[pt'[q][g].frame] = content[pt[q][g].frame]
  <2>1. pt'[q][g] = pt[q][g]
    BY <1>3, <1>4, <1>9
  <2>2. pt[q][g].frame \in Frame
    BY <1>9, LiveFrames
  <2>3. \A h \in DataPage : pt[q][g].frame # NewFrame(DataNo(h))
    BY <1>6
  <2> QED BY <1>7, <2>1, <2>2, <2>3
<1>10. ASSUME NEW g \in DataPage
       PROVE  content'[pt'[c][g].frame] = content[pt[p][g].frame]
  <2> DEFINE f == NewFrame(DataNo(g))
  <2>1. f \in Frame /\ pt'[c][g].frame = f
    BY <1>4, <1>5, <1>8
  <2>2. (CHOOSE h \in DataPage : f = NewFrame(DataNo(h))) = g
    BY <1>5
  <2>3. content'[f] = CopiedPage(p, g)
    <3> HIDE DEF f
    <3>1. \E h \in DataPage : f = NewFrame(DataNo(h))
      BY DEF f
    <3> QED BY <1>7, <2>1, <2>2, <3>1
  <2> QED BY <2>1, <2>3 DEF CopiedPage
<1>11. \A q \in Task : pcb[q] = "alive" => DataOf(q)' = DataOf(q)
  BY <1>9 DEF DataOf
<1>12. DataOf(c)' = DataOf(p)
  BY <1>10 DEF DataOf
<1> QED BY <1>1, <1>2, <1>3, <1>11, <1>12, Forked

(* A fork that fails writes to no frame.                                   *)
LEMMA ForkFailPrivate ==
  ASSUME IInv, NEW p \in Task, NEW c \in Task, Runs(p), pcb[c] = "free",
         fork_no_page(p, c) \/ fork_no_frame(p, c), halted' = halted
  PROVE  Memories' = Memories
<1>1. /\ pcb' = [pcb EXCEPT ![c] = "leaked"] /\ content' = content
      /\ pcb \in [Task -> {"free", "alive", "leaked"}]
  BY DEF fork_no_page, fork_no_frame, IInv, Types
<1>2. \A q \in Task, g \in DataPage : q # c => pt'[q][g] = pt[q][g]
  BY ForkNoPage, ForkNoFrame
<1>3. \A q \in Task : q # c => DataOf(q)' = DataOf(q)
  BY <1>1, <1>2 DEF DataOf
<1>4. \A q \in Task : pcb'[q] = "alive" <=> pcb[q] = "alive"
  BY <1>1
<1>5. \A q \in Task : pcb[q] = "alive" => q # c
  OBVIOUS
<1> QED BY <1>3, <1>4, <1>5 DEF Memories, Gone

LEMMA ExitPrivate ==
  ASSUME IInv, NEW p \in Task, sys_exit(p)
  PROVE  A!Exit(p)
<1>1. pcb[p] = "alive" /\ content' = content
      /\ pcb' = [pcb EXCEPT ![p] = "free"] /\ pcb \in [Task -> {"free", "alive", "leaked"}]
  BY DEF sys_exit, Runs, IInv, Types
<1>2. pcb'[p] # "alive" /\ \A q \in Task : q # p => pcb'[q] = pcb[q]
  BY <1>1
<1>3. \A q \in Task : q # p => pt'[q] = pt[q]
  BY DEF sys_exit, IInv, Types
<1>4. \A q \in Task : q # p => DataOf(q)' = DataOf(q)
  BY <1>1, <1>3 DEF DataOf
<1>5. \A q \in Task : Memories'[q] = IF q = p THEN Gone ELSE Memories[q]
  <2> SUFFICES ASSUME NEW q \in Task
               PROVE  Memories'[q] = IF q = p THEN Gone ELSE Memories[q]
    OBVIOUS
  <2>1. Memories'[q] = IF pcb'[q] = "alive" THEN DataOf(q)' ELSE Gone
    BY DEF Memories, Gone
  <2>2. CASE q = p
    BY <1>2, <2>1, <2>2
  <2>3. CASE q # p
    BY <1>2, <1>4, <2>1, <2>3, MemoryOf
  <2> QED BY <2>2, <2>3
<1>6. Memories' = [Memories EXCEPT ![p] = Gone]
  <2>1. Memories' = [q \in Task |-> Memories'[q]]
    BY DEF Memories
  <2>2. Memories = [q \in Task |-> Memories[q]]
    BY MemoryOf
  <2> QED BY <1>5, <2>1, <2>2
<1>7. p \in A!Alive
  BY <1>1, MemoryOf DEF A!Alive
<1> QED BY <1>6, <1>7 DEF A!Exit

(* A write to a data page reaches nobody else.                             *)
LEMMA WritePrivate ==
  ASSUME IInv, NEW p \in Task, NEW page \in UserPage, NEW v \in Val,
         user_write(p, page, v) \/ (copy_to_user(p, page, v) /\ ~ USE_COW),
         page \in HighPage => pt[p][page].frame \in SharedFrame
  PROVE  Memories' = Memories \/ (page \in DataPage /\ A!Write(p, page, v))
<1> DEFINE f == pt[p][page].frame
<1>1. /\ pcb[p] = "alive" /\ pcb' = pcb /\ pt' = pt
      /\ pt[p][page].rw \/ ~ USE_COW
      /\ content' = [content EXCEPT ![f] = v]
  BY DEF user_write, copy_to_user, Runs
<1>2. content \in [Frame -> Val]
  BY DEF IInv, Types
<1>3. CASE page \notin DataPage
  <2>1. f \notin DataFrame
    <3>1. CASE page \in CodePage
      BY <1>1, <3>1, FrameSets DEF IInv, CodeMapped
    <3>2. CASE page \in HighPage
      BY <3>2, FrameSets
    <3> QED BY <1>3, <3>1, <3>2, PageSets
  <2>2. ASSUME NEW q \in Task, NEW g \in DataPage, pcb[q] = "alive"
        PROVE  content'[pt'[q][g].frame] = content[pt[q][g].frame]
    <3>1. pt[q][g].frame # f /\ pt[q][g].frame \in Frame
      BY <2>1, <2>2, LiveFrames
    <3> HIDE DEF f
    <3> QED BY <1>1, <1>2, <3>1
  <2> QED BY <1>1, <2>2, MemoriesSame
<1>4. CASE page \in DataPage
  <2>1. f \in DataFrame /\ f \in Frame /\ phys_mem[f] = 1
    BY <1>1, <1>4, LiveFrames DEF IInv, Separate, WritableSole
  <2>2. ASSUME NEW q \in Task, NEW g \in DataPage, pcb[q] = "alive"
        PROVE  content'[pt'[q][g].frame] =
                 IF q = p /\ g = page THEN v ELSE content[pt[q][g].frame]
    <3>1. pt[q][g].frame \in Frame
      BY <2>2, LiveFrames
    <3>2. CASE q = p /\ g = page
      BY <1>1, <1>2, <2>1, <3>2
    <3>3. CASE ~ (q = p /\ g = page)
      <4>1. pt[q][g].frame # f
        BY <1>4, <2>1, <3>3, Sole DEF IInv
      <4> HIDE DEF f
      <4> QED BY <1>1, <1>2, <3>1, <3>3, <4>1
    <3> QED BY <3>2, <3>3
  <2>3. DataOf(p)' = [DataOf(p) EXCEPT ![page] = v]
    BY <1>1, <1>4, <2>2 DEF DataOf
  <2>4. \A q \in Task : q # p /\ pcb[q] = "alive" => DataOf(q)' = DataOf(q)
    BY <2>2 DEF DataOf
  <2>5. \A q \in Task : Memories'[q] =
           IF q = p THEN [Memories[p] EXCEPT ![page] = v] ELSE Memories[q]
    <3> SUFFICES ASSUME NEW q \in Task
                 PROVE  Memories'[q] = IF q = p
                          THEN [Memories[p] EXCEPT ![page] = v] ELSE Memories[q]
      OBVIOUS
    <3>1. Memories'[q] = IF pcb'[q] = "alive" THEN DataOf(q)' ELSE Gone
      BY DEF Memories, Gone
    <3>2. CASE q = p
      BY <1>1, <2>3, <3>1, <3>2, MemoryOf
    <3>3. CASE q # p
      BY <1>1, <2>4, <3>1, <3>3, MemoryOf
    <3> QED BY <3>2, <3>3
  <2>6. Memories' = [Memories EXCEPT ![p][page] = v]
    <3>1. Memories' = [q \in Task |-> Memories'[q]]
      BY DEF Memories
    <3>2. Memories = [q \in Task |-> Memories[q]]
      BY MemoryOf
    <3> QED BY <2>5, <3>1, <3>2
  <2>7. p \in A!Alive
    BY <1>1, MemoryOf DEF A!Alive
  <2> QED BY <1>4, <2>6, <2>7 DEF A!Write
<1> QED BY <1>3, <1>4

(* A page fault changes what nobody reads.                                 *)
LEMMA FaultPrivate ==
  ASSUME IInv, NEW p \in Task, NEW addr, pgf_routine(p, addr)
  PROVE  Memories' = Memories
<1> DEFINE n    == PH_PAGE(addr)
           t    == TableOf(p, n)
           page == PageOf(n)
           old  == pt[t][page].frame
           new  == Min(FreeFrames)
<1> HIDE DEF n
<1>1. /\ Runs(p) /\ UNCHANGED <<pcb, shared_pages>> /\ pgf_entry(p, n)
      /\ pt \in [Task -> [UserPage -> Entry]] /\ content \in [Frame -> Val]
  BY DEF pgf_routine, IInv, Types, n
<1>2. is_cow_page(p, n) => t \in Task /\ page \in UserPage
  BY DEF is_cow_page, InTable
<1>3. CASE /\ is_cow_page(p, n)
           /\ pt' = [pt EXCEPT ![t][page].rw = TRUE]
           /\ UNCHANGED <<phys_mem, content, halted>>
  <2> DEFINE e == [pt[t][page] EXCEPT !.rw = TRUE]
  <2> HIDE DEF t, page
  <2>1. pt[t][page] \in Entry
    BY <1>1, <1>2, <1>3
  <2>2. e \in Entry /\ e.frame = pt[t][page].frame
    BY <2>1 DEF Entry
  <2>3. pt' = [pt EXCEPT ![t][page] = e]
    BY <1>3
  <2> HIDE DEF e
  <2>4. \A q \in Task, g \in UserPage :
           pt'[q][g] = IF q = t /\ g = page THEN e ELSE pt[q][g]
    <3>1. t \in Task /\ page \in UserPage
      BY <1>2, <1>3
    <3> QED BY <1>1, <2>2, <2>3, <3>1, OneEntry
  <2>5. \A q \in Task, g \in DataPage : pt'[q][g].frame = pt[q][g].frame
    BY <2>2, <2>4, PageSets
  <2> QED BY <1>1, <1>3, <2>5, MemoriesSame
<1>4. CASE /\ is_cow_page(p, n) /\ t = p /\ FreeFrames # {}
           /\ pt' = [pt EXCEPT ![p][page] = [frame |-> new, rw |-> TRUE]]
           /\ content' = [content EXCEPT ![new] = content[old]]
  <2> DEFINE e == [frame |-> new, rw |-> TRUE]
  <2> HIDE DEF t, page
  <2>1. new \in Frame /\ new \in FreeFrames
    <3>1. new \in FreeFrames
      BY <1>4, FreeFramesUnused, MinOf DEF IInv
    <3> QED BY <3>1 DEF FreeFrames
  <2>2. e \in Entry /\ e.frame = new
    BY <2>1 DEF Entry
  <2>3. pt' = [pt EXCEPT ![p][page] = e]
    BY <1>4
  <2>4. content' = [content EXCEPT ![new] = content[old]]
    BY <1>4
  <2> HIDE DEF e
  <2>5. \A q \in Task, g \in UserPage :
           pt'[q][g] = IF q = p /\ g = page THEN e ELSE pt[q][g]
    <3>1. page \in UserPage
      BY <1>2, <1>4
    <3> QED BY <1>1, <2>2, <2>3, <3>1, OneEntry
  <2>6. ASSUME NEW q \in Task, NEW g \in DataPage, pcb[q] = "alive"
        PROVE  content'[pt'[q][g].frame] = content[pt[q][g].frame]
    <3>1. g \in UserPage /\ pt[q][g].frame \in Frame /\ pt[q][g].frame # new
      BY <2>1, <2>6, LiveFrames, FreeFramesUnused, PageSets DEF IInv
    <3> HIDE DEF new
    <3>2. CASE q = p /\ g = page
      <4>1. pt'[q][g].frame = new /\ pt[q][g].frame = old
        BY <1>4, <2>2, <2>5, <3>1, <3>2
      <4> HIDE DEF old
      <4> QED BY <1>1, <2>1, <2>4, <4>1
    <3>3. CASE ~ (q = p /\ g = page)
      <4>1. pt'[q][g] = pt[q][g]
        BY <2>5, <3>1, <3>3
      <4> QED BY <1>1, <2>4, <3>1, <4>1
    <3> QED BY <3>2, <3>3
  <2> QED BY <1>1, <2>6, MemoriesSame
<1>5. CASE halted' = TRUE /\ UNCHANGED <<pt, phys_mem, content>>
  BY <1>1, <1>5, MemoriesSame
<1> QED BY <1>1, <1>3, <1>4, <1>5 DEF pgf_entry, EntryAt

(* The shared pages are not data.                                          *)
LEMMA AttachPrivate ==
  ASSUME IInv, NEW p \in Task, NEW id \in ShmId, NEW addr, sys_shmat(p, id, addr)
  PROVE  Memories' = Memories
<1>1. pcb' = pcb /\ content' = content
  BY DEF sys_shmat
<1>2. ASSUME NEW t \in Task, NEW page \in HighPage, pt' = Attached(id, t, page)
      PROVE  Memories' = Memories
  <2>1. \A q \in Task, g \in DataPage : pt'[q][g] = pt[q][g]
    BY <1>2, PageSets DEF Attached, IInv, Types
  <2> QED BY <1>1, <2>1, MemoriesSame
<1>3. CASE FreePages(p) # {} /\ pt' = Attached(id, p, Min(FreePages(p)))
  <2>1. FreePages(p) \in SUBSET Nat /\ FreePages(p) \subseteq HighPage
    BY PageSets DEF FreePages
  <2>2. Min(FreePages(p)) \in HighPage
    BY <1>3, <2>1, MinOf
  <2> QED BY <1>2, <1>3, <2>2
<1>4. CASE /\ InTable(p, addr) /\ PageOf(addr) \in HighPage
           /\ pt' = Attached(id, TableOf(p, addr), PageOf(addr))
  BY <1>2, <1>4 DEF InTable
<1>5. CASE UNCHANGED pt
  BY <1>1, <1>5, MemoriesSame
<1> QED BY <1>3, <1>4, <1>5 DEF sys_shmat

LEMMA DetachPrivate ==
  ASSUME IInv, NEW p \in Task, NEW addr, sys_shmdt(p, addr)
  PROVE  Memories' = Memories
<1> DEFINE t    == TableOf(p, addr)
           page == PageOf(addr)
           id   == is_frame_shared(pt[t][page].frame)
           f    == shared_pages[id].frame
<1>1. pcb' = pcb /\ ~ halted
  BY DEF sys_shmdt, Runs
<1>2. CASE UNCHANGED <<pt, content>>
  BY <1>1, <1>2, MemoriesSame
<1>3. CASE /\ InTable(p, addr) /\ shmdt_ok(t, page)
           /\ pt' = [pt EXCEPT ![t][page] = NoEntry]
           /\ content' \in {content, [content EXCEPT ![f] = 0]}
  <2>1. t \in Task /\ page \in UserPage
    BY <1>3 DEF InTable
  <2> HIDE DEF t, page
  <2>2. page \in HighPage /\ f \in SharedFrame
    BY <1>1, <1>3, <2>1, DetachFound
  <2> HIDE DEF id
  <2>3. page \notin DataPage /\ f \notin DataFrame
    BY <2>2, FrameSets, PageSets
  <2>4. \A q \in Task, g \in DataPage : pt'[q][g] = pt[q][g]
    BY <1>3, <2>3, PageSets DEF IInv, Types
  <2>5. content \in [Frame -> Val]
    BY DEF IInv, Types
  <2>6. ASSUME NEW q \in Task, NEW g \in DataPage, pcb[q] = "alive"
        PROVE  content'[pt'[q][g].frame] = content[pt[q][g].frame]
    <3>1. pt[q][g].frame # f /\ pt[q][g].frame \in Frame
      BY <2>3, <2>6, LiveFrames
    <3> HIDE DEF f
    <3> QED BY <1>3, <2>4, <2>5, <3>1
  <2> QED BY <1>1, <2>6, MemoriesSame
<1>4. CASE InTable(p, addr) /\ shmdt_ok(t, page) /\ shmdt_entry(p, t, page)
  <2>1. \/ UNCHANGED <<pt, content>>
        \/ /\ pt' = [pt EXCEPT ![t][page] = NoEntry]
           /\ content' \in {content, [content EXCEPT ![f] = 0]}
    BY <1>4 DEF shmdt_entry
  <2> QED BY <1>2, <1>3, <1>4, <2>1
<1> QED BY <1>2, <1>4 DEF sys_shmdt

(* fork by copy on write implements the copy of the parent's memory, a     *)
(* write to a data page changes the writer's memory only, and page faults  *)
(* and shared memory calls change none: processes have private memories,   *)
(* as long as read, which writes through read-only entries, is not called. *)
THEOREM CowKeepsMemoryPrivate ==
  ASSUME USE_COW, ~ CallsRead
  PROVE  Spec => PrivateMemory
<1>1. IInv /\ [Next]_vars => [A!Next]_Memories
  <2> SUFFICES ASSUME IInv, [Next]_vars PROVE A!Next \/ Memories' = Memories
    OBVIOUS
  <2>1. CASE UNCHANGED vars
    BY <2>1, MemoriesSame DEF vars
  <2>2. ASSUME NEW p \in Task, NEW c \in Task, sys_fork(p, c) PROVE A!Next
    <3>1. Runs(p) /\ pcb[c] = "free" /\ fork_cow(p, c)
      BY <2>2 DEF sys_fork, fork_copy, fork_no_page, fork_no_frame
    <3>2. A!Fork(p, c)
      BY <3>1, ForkPrivate
    <3> QED BY <3>2 DEF A!Next
  <2>3. ASSUME NEW p \in Task, sys_exit(p) PROVE A!Next
    BY <2>3, ExitPrivate DEF A!Next
  <2>4. ASSUME NEW p \in Task, NEW id \in ShmId, NEW addr \in Addr,
               sys_shmat(p, id, addr)
        PROVE  Memories' = Memories
    BY <2>4, AttachPrivate
  <2>5. ASSUME NEW p \in Task, NEW addr, sys_shmdt(p, addr)
        PROVE  Memories' = Memories
    BY <2>5, DetachPrivate
  <2>6. ASSUME NEW p \in Task, NEW id \in ShmId, sys_shmrm(p, id)
        PROVE  Memories' = Memories
    BY <2>6, MemoriesSame DEF sys_shmrm
  <2>7. ASSUME NEW p \in Task, NEW page \in UserPage, NEW v \in Val,
               user_write(p, page, v)
        PROVE  A!Next \/ Memories' = Memories
    <3>1. CASE page \in DataPage /\ A!Write(p, page, v)
      BY <3>1 DEF A!Next
    <3>2. pt[p][page].rw /\ pt[p][page] # NoEntry
      BY <2>7 DEF user_write, NoEntry
    <3>3. page \in HighPage => pt[p][page].frame \in SharedFrame
      BY <3>2 DEF IInv, Separate, HighShared
    <3> QED BY <2>7, <3>1, <3>3, WritePrivate
  <2>8. ASSUME NEW p \in Task, NEW addr, pgf_routine(p, addr)
        PROVE  Memories' = Memories
    BY <2>8, FaultPrivate
  <2>9. pgf_spin \/ cpu_idle => UNCHANGED vars
    BY DEF pgf_spin, cpu_idle
  <2>10. \A p \in Task, page \in UserPage, v \in Val : ~ copy_to_user(p, page, v)
    BY DEF copy_to_user
  <2> QED BY <2>1, <2>2, <2>3, <2>4, <2>5, <2>6, <2>7, <2>8, <2>9, <2>10
          DEF Next
<1> QED BY <1>1, InitPrivate, Invariant, PTL DEF Spec, PrivateMemory, A!Spec

-----------------------------------------------------------------------------
(* What a step of p does to the memory of the others.                      *)

OthersKept(p) ==
    \A q \in Alive' \ {p} :
        \/ q \in Alive /\ DataOf(q)' = DataOf(q)
        \/ q \notin Alive /\ DataOf(q)' = DataOf(p)

OwnStep(p) ==
    \/ \E c \in Task : A!Fork(p, c)
    \/ \E g \in DataPage, v \in Val : A!Write(p, g, v)
    \/ A!Exit(p)
    \/ Memories' = Memories

LEMMA Kept ==
  ASSUME NEW p \in Task, pcb[p] = "alive", OwnStep(p)
  PROVE  OthersKept(p)
<1> SUFFICES ASSUME NEW q \in Task, pcb'[q] = "alive", q # p
             PROVE  \/ pcb[q] = "alive" /\ DataOf(q)' = DataOf(q)
                    \/ pcb[q] # "alive" /\ DataOf(q)' = DataOf(p)
  BY DEF OthersKept, Alive
<1>1. Memories'[q] = DataOf(q)' /\ DataOf(q)' # Gone
  <2>1. DOMAIN DataOf(q)' = DataPage /\ DOMAIN Gone = {}
    BY DEF DataOf, Gone
  <2>2. DataOf(q)' # Gone
    BY <2>1, PageSets
  <2> QED BY <2>2 DEF Memories
<1>2. Memories = [r \in Task |-> Memories[r]] /\ Memories[p] = DataOf(p)
  BY MemoryOf
<1>3. CASE Memories'[q] = Memories[q]
  BY <1>1, <1>3, MemoryOf
<1>4. CASE \E c \in Task : A!Fork(p, c)
  <2>1. PICK c \in Task : A!Fork(p, c)
    BY <1>4
  <2>2. c \notin A!Alive /\ Memories' = [Memories EXCEPT ![c] = Memories[p]]
    BY <2>1 DEF A!Fork
  <2>3. CASE q # c
    <3>1. Memories'[q] = Memories[q]
      BY <1>2, <2>2, <2>3
    <3> QED BY <1>3, <3>1
  <2>4. CASE q = c
    <3>1. Memories'[q] = DataOf(p)
      BY <1>2, <2>2, <2>4
    <3>2. pcb[q] # "alive"
      BY <2>2, <2>4, MemoryOf DEF A!Alive
    <3> QED BY <1>1, <3>1, <3>2
  <2> QED BY <2>3, <2>4
<1>5. CASE \E g \in DataPage, v \in Val : A!Write(p, g, v)
  <2>1. PICK g \in DataPage, v \in Val : A!Write(p, g, v)
    BY <1>5
  <2>2. Memories' = [Memories EXCEPT ![p] = [@ EXCEPT ![g] = v]]
    BY <2>1 DEF A!Write
  <2>3. Memories'[q] = Memories[q]
    BY <1>2, <2>2
  <2> QED BY <1>3, <2>3
<1>6. CASE A!Exit(p)
  <2>1. Memories' = [Memories EXCEPT ![p] = Gone]
    BY <1>6 DEF A!Exit
  <2>2. Memories'[q] = Memories[q]
    BY <1>2, <2>1
  <2> QED BY <1>3, <2>2
<1>7. CASE Memories' = Memories
  BY <1>3, <1>7
<1> QED BY <1>4, <1>5, <1>6, <1>7 DEF OwnStep

(* With copy on write, when read is not called, or without it, a process   *)
(* that no failed fork has left a temporary page changes its own memory    *)
(* only.                                                                   *)
LEMMA ForkOwn ==
  ASSUME IInv, NEW p \in Task, NEW c \in Task, sys_fork(p, c)
  PROVE  OthersKept(p)
<1>1. Runs(p) /\ pcb[p] = "alive" /\ pcb[c] = "free" /\ halted' = halted
  BY DEF sys_fork, Runs
<1>2. CASE fork_cow(p, c)
  <2>1. A!Fork(p, c)
    BY <1>1, <1>2, ForkPrivate
  <2> QED BY <1>1, <2>1, Kept DEF OwnStep
<1>3. CASE fork_copy(p, c)
  <2>1. A!Fork(p, c)
    BY <1>1, <1>3, ForkCopyPrivate
  <2> QED BY <1>1, <2>1, Kept DEF OwnStep
<1>4. CASE fork_no_page(p, c) \/ fork_no_frame(p, c)
  <2>1. Memories' = Memories
    BY <1>1, <1>4, ForkFailPrivate
  <2> QED BY <1>1, <2>1, Kept DEF OwnStep
<1> QED BY <1>2, <1>3, <1>4 DEF sys_fork

LEMMA ExitOwn ==
  ASSUME IInv, NEW p \in Task, sys_exit(p)
  PROVE  OthersKept(p)
<1>1. pcb[p] = "alive" /\ A!Exit(p)
  BY ExitPrivate DEF sys_exit, Runs
<1> QED BY <1>1, Kept DEF OwnStep

(* The steps that only use memory.                                         *)
UserStep(p) ==
    \/ \E id \in ShmId, addr \in Addr : sys_shmat(p, id, addr)
    \/ \E addr \in Addr \cup UserPage : sys_shmdt(p, addr)
    \/ \E id \in ShmId : sys_shmrm(p, id)
    \/ \E page \in UserPage, v \in Val : user_write(p, page, v)
    \/ \E page \in UserPage, v \in Val : copy_to_user(p, page, v)
    \/ \E addr \in Addr \cup UserPage : pgf_routine(p, addr)

LEMMA UserOwn ==
  ASSUME IInv, NEW p \in Task, UserStep(p), ~ USE_COW \/ ~ CallsRead,
         \A g \in HighPage : pt[p][g] = NoEntry \/ pt[p][g].frame \in SharedFrame
  PROVE  OthersKept(p)
<1>1. pcb[p] = "alive"
  BY DEF UserStep, sys_shmat, sys_shmdt, sys_shmrm, user_write, copy_to_user,
         pgf_routine, Runs
<1>2. ASSUME NEW id \in ShmId, NEW addr \in Addr, sys_shmat(p, id, addr)
      PROVE  Memories' = Memories
  BY <1>2, AttachPrivate
<1>3. ASSUME NEW addr, sys_shmdt(p, addr)
      PROVE  Memories' = Memories
  BY <1>3, DetachPrivate
<1>4. ASSUME NEW id \in ShmId, sys_shmrm(p, id) PROVE Memories' = Memories
  BY <1>4, MemoriesSame DEF sys_shmrm
<1>5. ASSUME NEW page \in UserPage, NEW v \in Val,
             user_write(p, page, v) \/ copy_to_user(p, page, v)
      PROVE  Memories' = Memories \/ (page \in DataPage /\ A!Write(p, page, v))
  <2>1. pt[p][page] # NoEntry
    BY <1>5 DEF user_write, copy_to_user, NoEntry
  <2>2. page \in HighPage => pt[p][page].frame \in SharedFrame
    BY <2>1
  <2>3. user_write(p, page, v) \/ (copy_to_user(p, page, v) /\ ~ USE_COW)
    BY <1>5 DEF copy_to_user
  <2> QED BY <2>2, <2>3, WritePrivate
<1>6. ASSUME NEW addr, pgf_routine(p, addr)
      PROVE  Memories' = Memories
  BY <1>6, FaultPrivate
<1>7. OwnStep(p)
  BY <1>2, <1>3, <1>4, <1>5, <1>6 DEF OwnStep, UserStep
<1> QED BY <1>1, <1>7, Kept
=============================================================================
