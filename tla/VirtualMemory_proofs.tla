---- MODULE VirtualMemory_proofs ----
(***************************************************************************)
(* Memory, for every number of processes, frames and pages: no frame is    *)
(* ever mapped twice, leaked, or left mapped by a process that is gone; a  *)
(* process's blocks are disjoint until its page numbers wrap; and what a   *)
(* process reads is a memory of its own.  FrameOwnership is inductive      *)
(* together with TypeOK, BlocksInOrder with TypeOK, and the last follows   *)
(* from FrameOwnership.                                                    *)
(***************************************************************************)
EXTENDS VirtualMemory, TLAPS

LEMMA FramesOfInFrames ==
    ASSUME TypeOK, NEW p \in Procs, NEW V \in SUBSET VPages
    PROVE  FramesOf(p, V) \in SUBSET Frames
  BY DEF TypeOK, FramesOf, Present

\* Removing the n-th block of a list leaves a list of blocks.
LEMMA WithoutNthType ==
    ASSUME NEW S, NEW s \in Seq(S), NEW n \in 1 .. Len(s)
    PROVE  WithoutNth(s, n) \in Seq(S)
<1>1. Len(s) - 1 \in Nat
  OBVIOUS
<1>2. \A i \in 1 .. Len(s) - 1 : (IF i < n THEN s[i] ELSE s[i + 1]) \in S
  OBVIOUS
<1> QED
  BY <1>1, <1>2 DEF WithoutNth

LEMMA InitTypeOK == Init => TypeOK
<1>1. Zero \in Content
  BY ConstantsAssumption DEF Zero, Content, VAddrs, VPages, Offsets
<1>2. Reserved \subseteq Frames
  BY ConstantsAssumption DEF Reserved, Frames
<1> QED
  BY <1>1, <1>2 DEF Init, TypeOK

LEMMA LoadTypeOK ==
    ASSUME TypeOK, NEW p \in Procs, NEW n \in ImagePages, NEW last \in 1 .. PageSize,
           Load(p, n, last)
    PROVE  TypeOK'
<1>1. PICK k \in 0 .. n : \E m \in [0 .. k - 1 -> FreeFrames] : LoadInto(p, n, last, k, m)
  BY DEF Load
<1>2. PICK m \in [0 .. k - 1 -> FreeFrames] : LoadInto(p, n, last, k, m)
  BY <1>1
<1>0. DOMAIN m = 0 .. k - 1
  OBVIOUS
<1> USE ConstantsAssumption
<1>3. \A i \in 0 .. k - 1 : m[i] \in Frames
  BY DEF FreeFrames
<1>4. live' \in SUBSET Procs /\ hw_table' \in Procs \cup {NoProc}
  BY <1>2 DEF LoadInto, TypeOK
<1>5. physical_frames_used' \in SUBSET Frames
  BY <1>0, <1>2, <1>3 DEF LoadInto, TypeOK
<1>6. page_table' \in [Procs -> [VPages -> Frames \cup {NotPresent}]]
  <2>1. page_table' = [page_table EXCEPT ![p] =
                          [v \in VPages |-> IF v < k THEN m[v] ELSE NotPresent]]
    BY <1>2 DEF LoadInto
  <2>2. [v \in VPages |-> IF v < k THEN m[v] ELSE NotPresent]
            \in [VPages -> Frames \cup {NotPresent}]
    BY <1>3, ConstantsAssumption DEF VPages
  <2> QED
    BY <2>1, <2>2 DEF TypeOK
<1>7. num_pages' \in [Procs -> Nat]
  BY <1>2 DEF LoadInto, TypeOK
<1>8. allocations' \in [Procs -> Seq(Block)]
  BY <1>2 DEF LoadInto, TypeOK
<1>9. pmem' \in [PAddrs -> Content]
  <2>1. ASSUME NEW a \in PAddrs, NEW v \in 0 .. k - 1, m[v] = a[1]
        PROVE  ImageWord(p, <<PageIn(m, a[1]), a[2]>>) \in Content
    <3>1. PageIn(m, a[1]) \in 0 .. k - 1
      BY <1>0, <2>1 DEF PageIn
    <3>2. PageIn(m, a[1]) \in VPages
      BY <3>1, <1>2 DEF LoadInto, VPages
    <3>3. a[2] \in Offsets
      BY DEF PAddrs
    <3> QED
      BY <3>2, <3>3 DEF Content, ImageWord, VAddrs
  <2>2. \A a \in PAddrs : pmem[a] \in Content
    BY DEF TypeOK
  <2> QED
    BY <1>0, <1>2, <2>1, <2>2 DEF LoadInto
<1> QED
  BY <1>4, <1>5, <1>6, <1>7, <1>8, <1>9 DEF TypeOK

LEMMA UnmapTypeOK ==
    ASSUME TypeOK, NEW p \in Procs, NEW V \in SUBSET VPages, Unmap(p, V)
    PROVE  /\ physical_frames_used' \in SUBSET Frames
           /\ page_table' \in [Procs -> [VPages -> Frames \cup {NotPresent}]]
  BY DEF TypeOK, Unmap

LEMMA DemandPageTypeOK ==
    ASSUME TypeOK, NEW v \in VPages, hw_table \in Procs, DemandPage(hw_table, v)
    PROVE  TypeOK'
<1>1. PICK f \in FreeFrames :
        /\ physical_frames_used' = physical_frames_used \cup {f}
        /\ page_table' = [page_table EXCEPT ![hw_table][v] = f, ![hw_table][v] = f]
        /\ pmem' = [a \in PAddrs |-> IF a[1] = f THEN Zero ELSE pmem[a]]
  BY DEF DemandPage
<1>2. f \in Frames
  BY DEF FreeFrames
<1>3. Zero \in Content
  BY ConstantsAssumption DEF Zero, Content, VAddrs, VPages, Offsets
<1>4. page_table' \in [Procs -> [VPages -> Frames \cup {NotPresent}]]
  BY <1>1, <1>2 DEF TypeOK
<1>5. pmem' \in [PAddrs -> Content]
  BY <1>1, <1>3 DEF TypeOK
<1> QED
  BY <1>1, <1>2, <1>4, <1>5 DEF TypeOK, DemandPage

LEMMA StoreTypeOK ==
    ASSUME TypeOK, NEW a \in VAddrs, hw_table \in Procs, Store(a)
    PROVE  TypeOK'
<1>1. StoredWord(hw_table) \in Content
  BY ConstantsAssumption DEF StoredWord, Content, VAddrs, VPages, Offsets
<1>2. pmem' \in [PAddrs -> Content]
  BY <1>1 DEF TypeOK, Store
<1> QED
  BY <1>2 DEF TypeOK, Store

LEMMA ModSmall == ASSUME NEW x \in Nat, NEW m \in Nat, x < m PROVE x % m = x
  OBVIOUS

LEMMA MallocTypeOK ==
    ASSUME TypeOK, NEW p \in Procs, NEW k \in BlockPages, Malloc(p, k)
    PROVE  TypeOK'
<1>1. k \in Nat /\ num_pages[p] \in Nat
  BY ConstantsAssumption DEF TypeOK
<1>2. num_pages[p] % NumVPages \in VPages
  BY <1>1, ConstantsAssumption DEF VPages
<1>3. [start_vpage |-> num_pages[p] % NumVPages, num_pages |-> k] \in Block
  BY <1>1, <1>2 DEF Block
<1>4. allocations' \in [Procs -> Seq(Block)]
  BY <1>3 DEF TypeOK, Malloc
<1>5. num_pages' \in [Procs -> Nat]
  <2>1. (num_pages[p] + k) % PagesMod \in Nat
    BY <1>1, ConstantsAssumption
  <2> QED
    BY <2>1 DEF TypeOK, Malloc
<1> QED
  BY <1>4, <1>5 DEF TypeOK, Malloc

LEMMA PageRangeType == ASSUME NEW a, NEW k PROVE PageRange(a, k) \in SUBSET VPages
  BY DEF PageRange

LEMMA FreeTypeOK ==
    ASSUME TypeOK, NEW p \in Procs, NEW a \in VAddrs, Free(p, a)
    PROVE  TypeOK'
<1>1. CASE FreeSinglePage(p, a)
  BY <1>1, UnmapTypeOK, PageRangeType DEF FreeSinglePage, TypeOK
<1>2. ASSUME NEW n \in 1 .. Len(allocations[p]), FreeBlock(p, a, n)
      PROVE  TypeOK'
  <2>1. WithoutNth(allocations[p], n) \in Seq(Block)
    BY WithoutNthType DEF TypeOK
  <2>2. allocations' \in [Procs -> Seq(Block)]
    BY <1>2, <2>1 DEF FreeBlock, TypeOK
  <2>3. PageRange(a, allocations[p][n].num_pages) \in SUBSET VPages
    BY PageRangeType
  <2> QED
    BY <1>2, <2>2, <2>3, UnmapTypeOK DEF FreeBlock, TypeOK
<1> QED
  BY <1>1, <1>2 DEF Free

\* Every step keeps every variable in its type.
LEMMA NextTypeOK == TypeOK /\ [Next]_vars => TypeOK'
<1> SUFFICES ASSUME TypeOK, [Next]_vars PROVE TypeOK'
  OBVIOUS
<1>1. ASSUME NEW p \in Procs, NEW n \in ImagePages, NEW last \in 1 .. PageSize, Load(p, n, last)
      PROVE  TypeOK'
  BY <1>1, LoadTypeOK
<1>2. ASSUME NEW p \in Procs, SwitchTo(p)
      PROVE  TypeOK'
  BY <1>2 DEF SwitchTo, TypeOK
<1>3. ASSUME NEW p \in Procs, NEW next \in Procs, Destroy(p, next)
      PROVE  TypeOK'
  BY <1>3 DEF Destroy, TypeOK
<1>4. ASSUME hw_table # NoProc, NEW v \in VPages, DemandPage(hw_table, v)
      PROVE  TypeOK'
  <2>1. hw_table \in Procs
    BY <1>4 DEF TypeOK
  <2> QED
    BY <1>4, <2>1, DemandPageTypeOK
<1>5. ASSUME hw_table # NoProc, NEW a \in VAddrs, Store(a)
      PROVE  TypeOK'
  <2>1. hw_table \in Procs
    BY <1>5 DEF TypeOK
  <2> QED
    BY <1>5, <2>1, StoreTypeOK
<1>6. ASSUME hw_table # NoProc, NEW k \in BlockPages, Malloc(hw_table, k)
      PROVE  TypeOK'
  <2>1. hw_table \in Procs
    BY <1>6 DEF TypeOK
  <2> QED
    BY <1>6, <2>1, MallocTypeOK
<1>7. ASSUME hw_table # NoProc, NEW a \in VAddrs, Free(hw_table, a)
      PROVE  TypeOK'
  <2>1. hw_table \in Procs
    BY <1>7 DEF TypeOK
  <2> QED
    BY <1>7, <2>1, FreeTypeOK
<1>8. CASE UNCHANGED vars
  BY <1>8 DEF vars, TypeOK
<1> QED
  BY <1>1, <1>2, <1>3, <1>4, <1>5, <1>6, <1>7, <1>8 DEF Next

\* The variables of the paging code keep their types in every reachable state.
THEOREM TypeCorrect == Spec => []TypeOK
  BY InitTypeOK, NextTypeOK, PTL DEF Spec

----------------------------------------------------------------------------
(***************************************************************************)
(* Frame ownership, with UsedMeansOwned said frame by frame.               *)
(***************************************************************************)
MappedBy(p, f) == \E v \in VPages : page_table[p][v] = f

UsedPointwise ==
    \A f \in Frames : f \in physical_frames_used <=> f \in Reserved \/ \E p \in live : MappedBy(p, f)

LEMMA NotPresentNotFrame == NotPresent \notin Frames
  BY DEF NotPresent, Frames

LEMMA ReservedAreFrames == Reserved \subseteq Frames
  BY ConstantsAssumption DEF Reserved, Frames

LEMMA UsedEquivalence == ASSUME TypeOK PROVE UsedMeansOwned <=> UsedPointwise
<1>1. ASSUME NEW f \in Frames, NEW p \in live
      PROVE  f \in FramesOf(p, VPages) <=> MappedBy(p, f)
  BY <1>1, NotPresentNotFrame DEF FramesOf, MappedBy, Present
<1>2. \A p \in live : FramesOf(p, VPages) \subseteq Frames
  BY FramesOfInFrames DEF TypeOK
<1> QED
  BY <1>1, <1>2, ReservedAreFrames DEF UsedMeansOwned, UsedPointwise, TypeOK

Inv == TypeOK /\ NoFrameShared /\ UsedPointwise /\ MappedOnlyByLive /\ HardwareTableLive

LEMMA InitInv == Init => Inv
<1> SUFFICES ASSUME Init PROVE Inv
  OBVIOUS
<1>1. \A p \in Procs : \A v \in VPages : page_table[p][v] = NotPresent
  BY DEF Init
<1> QED
  BY <1>1, InitTypeOK
  DEF Inv, Init, NoFrameShared, UsedPointwise, MappedOnlyByLive, HardwareTableLive, Present

\* A free frame is mapped by nobody.
LEMMA FreeIsUnmapped ==
    ASSUME Inv, NEW f \in FreeFrames, NEW p \in Procs, NEW v \in VPages
    PROVE  page_table[p][v] # f
<1> SUFFICES ASSUME page_table[p][v] = f PROVE FALSE
  OBVIOUS
<1>1. f \in Frames /\ f \notin physical_frames_used
  BY DEF FreeFrames
<1>2. p \in live
  BY <1>1, NotPresentNotFrame DEF Inv, MappedOnlyByLive, Present
<1> QED
  BY <1>1, <1>2 DEF Inv, UsedPointwise, MappedBy

(***************************************************************************)
(* Giving up the frames a process maps at the pages V, whether it goes on  *)
(* (sys_free) or is destroyed: the frames freed are exactly those.         *)
(***************************************************************************)
LEMMA UnmapOwnership ==
    ASSUME Inv, TypeOK', NEW p \in live, NEW V \in SUBSET VPages, Unmap(p, V),
           live' = live, hw_table' = hw_table, num_pages' = num_pages
    PROVE  Inv'
<1>1. \A q \in Procs : \A v \in VPages :
        page_table'[q][v] = IF q = p /\ v \in V THEN NotPresent ELSE page_table[q][v]
  BY DEF Unmap, Inv, TypeOK
<1>2. NoFrameShared'
  BY <1>1 DEF Inv, NoFrameShared, Present
<1>3. MappedOnlyByLive' /\ HardwareTableLive'
  BY <1>1 DEF Inv, MappedOnlyByLive, HardwareTableLive, Present
<1>4. UsedPointwise'
  <2> SUFFICES ASSUME NEW f \in Frames
               PROVE  f \in physical_frames_used'
                        <=> f \in Reserved \/ \E q \in live : \E v \in VPages : page_table'[q][v] = f
    BY DEF UsedPointwise, MappedBy
  <2>1. live \subseteq Procs
    BY DEF Inv, TypeOK
  <2>2. CASE f \in FramesOf(p, V)
    <3>1. PICK u \in V : page_table[p][u] = f
      BY <2>2 DEF FramesOf
    <3>2. f \notin Reserved
      BY <3>1, <2>1, NotPresentNotFrame DEF Inv, MappedOnlyByLive, Present
    <3>3. \A q \in live : \A v \in VPages : page_table[q][v] = f => q = p /\ v = u
      BY <3>1, <2>1, NotPresentNotFrame DEF Inv, NoFrameShared, Present
    <3>4. \A q \in live : \A v \in VPages : page_table'[q][v] # f
      BY <3>1, <3>3, <1>1, <2>1, NotPresentNotFrame
    <3> QED
      BY <2>2, <3>2, <3>4 DEF Unmap
  <2>3. CASE f \notin FramesOf(p, V)
    <3>1. \A v \in V : page_table[p][v] # f
      BY <2>3, NotPresentNotFrame DEF FramesOf, Present
    <3>2. \A q \in live : \A v \in VPages : page_table'[q][v] = f <=> page_table[q][v] = f
      BY <3>1, <1>1, <2>1, NotPresentNotFrame
    <3>3. f \in physical_frames_used' <=> f \in physical_frames_used
      BY <2>3 DEF Unmap
    <3> QED
      BY <3>2, <3>3 DEF Inv, UsedPointwise, MappedBy
  <2> QED
    BY <2>2, <2>3
<1> QED
  BY <1>2, <1>3, <1>4 DEF Inv

LEMMA FreeInv ==
    ASSUME Inv, TypeOK', NEW p \in live, NEW a \in VAddrs, Free(p, a)
    PROVE  Inv'
<1>1. CASE FreeSinglePage(p, a)
  BY <1>1, UnmapOwnership, PageRangeType DEF FreeSinglePage
<1>2. ASSUME NEW n \in 1 .. Len(allocations[p]), FreeBlock(p, a, n)
      PROVE  Inv'
  <2>1. PageRange(a, allocations[p][n].num_pages) \in SUBSET VPages
    BY PageRangeType
  <2> QED
    BY <1>2, <2>1, UnmapOwnership DEF FreeBlock
<1> QED
  BY <1>1, <1>2 DEF Free

LEMMA DestroyInv ==
    ASSUME Inv, TypeOK', NEW p \in Procs, NEW next \in Procs, Destroy(p, next)
    PROVE  Inv'
<1>1. \A q \in Procs : \A v \in VPages :
        page_table'[q][v] = IF q = p THEN NotPresent ELSE page_table[q][v]
  BY DEF Destroy, Inv, TypeOK
<1>2. p \in live /\ live \subseteq Procs /\ live' = live \ {p}
  BY DEF Destroy, Inv, TypeOK
<1>3. NoFrameShared'
  BY <1>1 DEF Inv, NoFrameShared, Present
<1>4. MappedOnlyByLive'
  <2> SUFFICES ASSUME NEW q \in Procs, NEW v \in VPages, page_table'[q][v] # NotPresent
               PROVE  /\ q \in live' /\ page_table'[q][v] \notin Reserved
                      /\ MaxPages < PagesMod => v < num_pages'[q]
    BY DEF MappedOnlyByLive, Present
  <2>1. q # p /\ page_table'[q][v] = page_table[q][v]
    BY <1>1
  <2>2. num_pages'[q] = num_pages[q]
    BY <2>1 DEF Destroy, Inv, TypeOK
  <2> QED
    BY <1>2, <2>1, <2>2 DEF Inv, MappedOnlyByLive, Present
<1>5. HardwareTableLive'
  BY DEF Destroy, HardwareTableLive
<1>6. UsedPointwise'
  <2> SUFFICES ASSUME NEW f \in Frames
               PROVE  f \in physical_frames_used'
                        <=> f \in Reserved \/ \E q \in live' : \E v \in VPages : page_table'[q][v] = f
    BY DEF UsedPointwise, MappedBy
  <2>1. (\E q \in live' : \E v \in VPages : page_table'[q][v] = f)
          <=> \E q \in live \ {p} : MappedBy(q, f)
    BY <1>1, <1>2 DEF MappedBy
  <2>2. CASE f \in FramesOf(p, VPages)
    <3>1. PICK u \in VPages : page_table[p][u] = f
      BY <2>2 DEF FramesOf
    <3>2. f \notin Reserved
      BY <3>1, <1>2, NotPresentNotFrame DEF Inv, MappedOnlyByLive, Present
    <3>3. \A q \in live \ {p} : ~MappedBy(q, f)
      BY <3>1, <1>2, NotPresentNotFrame DEF Inv, NoFrameShared, Present, MappedBy
    <3> QED
      BY <2>1, <2>2, <3>2, <3>3 DEF Destroy
  <2>3. CASE f \notin FramesOf(p, VPages)
    <3>1. ~MappedBy(p, f)
      BY <2>3, NotPresentNotFrame DEF FramesOf, Present, MappedBy
    <3>2. f \in physical_frames_used' <=> f \in physical_frames_used
      BY <2>3 DEF Destroy
    <3> QED
      BY <2>1, <3>1, <3>2, <1>2 DEF Inv, UsedPointwise
  <2> QED
    BY <2>2, <2>3
<1> QED
  BY <1>3, <1>4, <1>5, <1>6 DEF Inv

LEMMA DemandPageInv ==
    ASSUME Inv, TypeOK', NEW u \in VPages, hw_table \in Procs, DemandPage(hw_table, u)
    PROVE  Inv'
<1> DEFINE p == hw_table
<1>1. PICK f \in FreeFrames :
        /\ physical_frames_used' = physical_frames_used \cup {f}
        /\ page_table' = [page_table EXCEPT ![p][u] = f, ![p][u] = f]
  BY DEF DemandPage
<1>2. f \in Frames /\ f \notin Reserved
  BY DEF FreeFrames
<1>3. \A q \in Procs : \A v \in VPages :
        page_table'[q][v] = IF q = p /\ v = u THEN f ELSE page_table[q][v]
  BY <1>1 DEF Inv, TypeOK
<1>4. p \in live /\ u < num_pages[p] /\ ~Present(p, u)
  BY ConstantsAssumption DEF DemandPage, CanDemandPage, Inv, HardwareTableLive
<1>5. live' = live /\ hw_table' = hw_table /\ num_pages' = num_pages /\ live \subseteq Procs
  BY DEF DemandPage, Inv, TypeOK
<1>6. \A q \in Procs : \A v \in VPages : page_table[q][v] # f
  BY FreeIsUnmapped
<1>7. NoFrameShared'
  BY <1>2, <1>3, <1>6 DEF Inv, NoFrameShared, Present
<1>8. MappedOnlyByLive' /\ HardwareTableLive'
  BY <1>2, <1>3, <1>4, <1>5 DEF Inv, MappedOnlyByLive, HardwareTableLive, Present
<1>9. UsedPointwise'
  <2> SUFFICES ASSUME NEW g \in Frames
               PROVE  g \in physical_frames_used'
                        <=> g \in Reserved \/ \E q \in live : \E v \in VPages : page_table'[q][v] = g
    BY <1>5 DEF UsedPointwise, MappedBy
  <2>1. CASE g = f
    BY <2>1, <1>1, <1>3, <1>4
  <2>2. CASE g # f
    <3>1. g \in physical_frames_used' <=> g \in physical_frames_used
      BY <2>2, <1>1
    <3>2. \A q \in live : \A v \in VPages : page_table'[q][v] = g <=> page_table[q][v] = g
      BY <2>2, <1>3, <1>4, <1>5, NotPresentNotFrame DEF Present
    <3> QED
      BY <3>1, <3>2 DEF Inv, UsedPointwise, MappedBy
  <2> QED
    BY <2>1, <2>2
<1> QED
  BY <1>7, <1>8, <1>9 DEF Inv

\* The frames a load takes one after the other are different ones.
LEMMA TakenDiffer ==
    ASSUME NEW k \in Nat, NEW m \in [0 .. k - 1 -> FreeFrames], TakesLowest(m)
    PROVE  \A i, j \in 0 .. k - 1 : m[i] = m[j] => i = j
<1>1. \A i, j \in 0 .. k - 1 : i < j => m[i] < m[j]
  BY DEF TakesLowest
<1>2. FreeFrames \subseteq Int
  BY ConstantsAssumption DEF FreeFrames, Frames
<1> SUFFICES ASSUME NEW i \in 0 .. k - 1, NEW j \in 0 .. k - 1, m[i] = m[j], i # j
             PROVE  FALSE
  OBVIOUS
<1>3. i \in Int /\ j \in Int
  OBVIOUS
<1>4. m[i] \in FreeFrames /\ m[j] \in FreeFrames
  OBVIOUS
<1>5. m[i] \in Int /\ m[j] \in Int
  BY <1>2, <1>4
<1>6. CASE i < j
  BY <1>1, <1>5, <1>6
<1>7. CASE j < i
  BY <1>1, <1>5, <1>7
<1> QED
  BY <1>3, <1>6, <1>7

LEMMA LoadInv ==
    ASSUME Inv, TypeOK', NEW p \in Procs, NEW n \in ImagePages, NEW last \in 1 .. PageSize,
           Load(p, n, last)
    PROVE  Inv'
<1>1. PICK k \in 0 .. n : \E m \in [0 .. k - 1 -> FreeFrames] : LoadInto(p, n, last, k, m)
  BY DEF Load
<1>2. PICK m \in [0 .. k - 1 -> FreeFrames] : LoadInto(p, n, last, k, m)
  BY <1>1
<1>3. \A q \in Procs : \A v \in VPages :
        page_table'[q][v] = IF q # p THEN page_table[q][v]
                            ELSE IF v < k THEN m[v] ELSE NotPresent
  BY <1>2 DEF LoadInto, Inv, TypeOK
<1>4. n \in Nat /\ k \in Nat /\ k <= n /\ k <= NumVPages
  BY <1>2, ConstantsAssumption DEF LoadInto
<1>5. \A v \in VPages : v < k => v \in 0 .. k - 1 /\ m[v] \in FreeFrames
  BY <1>4 DEF VPages
<1>6. \A i \in 0 .. k - 1 : m[i] \in FreeFrames /\ i \in VPages /\ i < k
  BY <1>4, ConstantsAssumption DEF VPages
<1>7. FreeFrames \subseteq Frames \ Reserved
  BY DEF FreeFrames
<1>8. live' = live \cup {p} /\ p \notin live /\ live \subseteq Procs
  BY <1>2 DEF LoadInto, Inv, TypeOK
<1>9. \A i, j \in 0 .. k - 1 : m[i] = m[j] => i = j
  BY <1>2, <1>4, TakenDiffer DEF LoadInto
<1>10. \A f \in FreeFrames : \A q \in Procs : \A v \in VPages : page_table[q][v] # f
  BY FreeIsUnmapped
<1>11. NoFrameShared'
  <2> SUFFICES ASSUME NEW q \in Procs, NEW r \in Procs, NEW v \in VPages, NEW u \in VPages,
                      page_table'[q][v] # NotPresent, page_table'[q][v] = page_table'[r][u]
               PROVE  q = r /\ v = u
    BY DEF NoFrameShared, Present
  <2>1. CASE q = p /\ r = p
    BY <2>1, <1>3, <1>5, <1>9
  <2>2. CASE q = p /\ r # p
    BY <2>2, <1>3, <1>5, <1>10
  <2>3. CASE q # p /\ r = p
    BY <2>3, <1>3, <1>5, <1>10
  <2>4. CASE q # p /\ r # p
    BY <2>4, <1>3 DEF Inv, NoFrameShared, Present
  <2> QED
    BY <2>1, <2>2, <2>3, <2>4
<1>12. MappedOnlyByLive'
  <2> SUFFICES ASSUME NEW q \in Procs, NEW v \in VPages, page_table'[q][v] # NotPresent
               PROVE  /\ q \in live' /\ page_table'[q][v] \notin Reserved
                      /\ MaxPages < PagesMod => v < num_pages'[q]
    BY DEF MappedOnlyByLive, Present
  <2>1. CASE q = p
    <3>1. num_pages'[q] = n
      BY <2>1, <1>2 DEF LoadInto, Inv, TypeOK
    <3>2. v < k /\ page_table'[q][v] \in FreeFrames
      BY <2>1, <1>3, <1>5
    <3> QED
      BY <2>1, <3>1, <3>2, <1>4, <1>7, <1>8 DEF VPages
  <2>2. CASE q # p
    <3>1. num_pages'[q] = num_pages[q]
      BY <2>2, <1>2 DEF LoadInto, Inv, TypeOK
    <3> QED
      BY <2>2, <3>1, <1>3, <1>8 DEF Inv, MappedOnlyByLive, Present
  <2> QED
    BY <2>1, <2>2
<1>13. HardwareTableLive'
  BY <1>2 DEF LoadInto, HardwareTableLive
<1>14. UsedPointwise'
  <2> SUFFICES ASSUME NEW f \in Frames
               PROVE  f \in physical_frames_used'
                        <=> f \in Reserved \/ \E q \in live' : \E v \in VPages : page_table'[q][v] = f
    BY DEF UsedPointwise, MappedBy
  <2>1. f \in physical_frames_used' <=> f \in physical_frames_used \/ \E i \in 0 .. k - 1 : m[i] = f
    BY <1>2 DEF LoadInto
  <2>2. (\E v \in VPages : page_table'[p][v] = f) <=> \E i \in 0 .. k - 1 : m[i] = f
    BY <1>3, <1>5, <1>6, NotPresentNotFrame
  <2>3. \A q \in live : (\E v \in VPages : page_table'[q][v] = f) <=> MappedBy(q, f)
    BY <1>3, <1>8 DEF MappedBy
  <2> QED
    BY <2>1, <2>2, <2>3, <1>8 DEF Inv, UsedPointwise
<1> QED
  BY <1>11, <1>12, <1>13, <1>14 DEF Inv

LEMMA MallocInv ==
    ASSUME Inv, TypeOK', NEW p \in Procs, NEW k \in BlockPages, Malloc(p, k)
    PROVE  Inv'
<1>1. k \in Nat
  BY ConstantsAssumption
<1>2. /\ \A q \in Procs : num_pages[q] \in Nat /\ num_pages'[q] \in Nat
      /\ MaxPages < PagesMod => \A q \in Procs : num_pages[q] <= num_pages'[q]
  <2>1. \A q \in Procs : num_pages[q] \in Nat /\ num_pages'[q] \in Nat
    BY DEF Inv, TypeOK
  <2>2. num_pages'[p] = (num_pages[p] + k) % PagesMod /\ num_pages[p] + k <= MaxPages
        /\ \A q \in Procs \ {p} : num_pages'[q] = num_pages[q]
    BY DEF Malloc, Inv, TypeOK
  <2>3. ASSUME MaxPages < PagesMod PROVE num_pages'[p] = num_pages[p] + k
    <3>1. num_pages[p] + k \in Nat /\ num_pages[p] + k < PagesMod /\ PagesMod \in Nat
      BY <1>1, <2>1, <2>2, <2>3, ConstantsAssumption
    <3> QED
      BY <2>2, <3>1, ModSmall
  <2> QED
    BY <1>1, <2>1, <2>2, <2>3
<1>3. page_table' = page_table /\ live' = live /\ hw_table' = hw_table
      /\ physical_frames_used' = physical_frames_used
  BY DEF Malloc
<1>4. MappedOnlyByLive'
  BY <1>2, <1>3 DEF Inv, MappedOnlyByLive, Present, VPages
<1> QED
  BY <1>3, <1>4 DEF Inv, NoFrameShared, UsedPointwise, MappedBy, HardwareTableLive, Present

LEMMA NextInv == Inv /\ [Next]_vars => Inv'
<1> SUFFICES ASSUME Inv, [Next]_vars PROVE Inv'
  OBVIOUS
<1>1. TypeOK'
  BY NextTypeOK DEF Inv
<1>2. hw_table # NoProc => hw_table \in live /\ hw_table \in Procs
  BY DEF Inv, TypeOK, HardwareTableLive
<1>3. ASSUME NEW p \in Procs, NEW n \in ImagePages, NEW last \in 1 .. PageSize, Load(p, n, last)
      PROVE  Inv'
  BY <1>1, <1>3, LoadInv
<1>4. ASSUME NEW p \in Procs, SwitchTo(p)
      PROVE  Inv'
  BY <1>1, <1>4
  DEF SwitchTo, Inv, NoFrameShared, UsedPointwise, MappedBy, MappedOnlyByLive, HardwareTableLive, Present
<1>5. ASSUME NEW p \in Procs, NEW next \in Procs, Destroy(p, next)
      PROVE  Inv'
  BY <1>1, <1>5, DestroyInv
<1>6. ASSUME hw_table # NoProc, NEW v \in VPages, DemandPage(hw_table, v)
      PROVE  Inv'
  BY <1>1, <1>2, <1>6, DemandPageInv
<1>7. ASSUME NEW a \in VAddrs, Store(a)
      PROVE  Inv'
  BY <1>1, <1>7
  DEF Store, Inv, NoFrameShared, UsedPointwise, MappedBy, MappedOnlyByLive, HardwareTableLive, Present
<1>8. ASSUME hw_table # NoProc, NEW k \in BlockPages, Malloc(hw_table, k)
      PROVE  Inv'
  BY <1>1, <1>2, <1>8, MallocInv
<1>9. ASSUME hw_table # NoProc, NEW a \in VAddrs, Free(hw_table, a)
      PROVE  Inv'
  BY <1>1, <1>2, <1>9, FreeInv
<1>10. CASE UNCHANGED vars
  BY <1>1, <1>10
  DEF vars, Inv, NoFrameShared, UsedPointwise, MappedBy, MappedOnlyByLive, HardwareTableLive, Present
<1> QED
  BY <1>3, <1>4, <1>5, <1>6, <1>7, <1>8, <1>9, <1>10 DEF Next

LEMMA InvAlways == Spec => []Inv
  BY InitInv, NextInv, PTL DEF Spec

\* No frame is leaked, shared, or kept by a process that is gone, in any run of the
\* paging code with any number of processes, frames and pages.
THEOREM FramesAreOwned == Spec => []FrameOwnership
<1>1. Inv => FrameOwnership
  BY UsedEquivalence DEF Inv, FrameOwnership
<1> QED
  BY <1>1, InvAlways, PTL

----------------------------------------------------------------------------
(***************************************************************************)
(* Blocks.  While num_pages has not outgrown the address space, sys_malloc *)
(* places each block behind all the earlier ones, and sys_free takes one   *)
(* out without changing their order.  MaxPages is what num_pages was held  *)
(* under when a block was last handed out.                                 *)
(***************************************************************************)
BlockEnd(blk) == blk.start_vpage + blk.num_pages

InOrder(s, n) ==
    /\ \A i \in 1 .. Len(s) : BlockEnd(s[i]) <= n
    /\ \A i, j \in 1 .. Len(s) : i < j => BlockEnd(s[i]) <= s[j].start_vpage

BlocksInOrder ==
    \A p \in Procs :
        /\ num_pages[p] <= NumVPages => InOrder(allocations[p], num_pages[p])
        /\ allocations[p] # <<>> => num_pages[p] <= MaxPages

\* What holds of blocks whatever MaxPages is: they are apart until the wrap.
BlocksApartUntilWrap == \A p \in Procs : num_pages[p] <= NumVPages => BlocksApart(p)

LEMMA InOrderAppend ==
    ASSUME NEW s \in Seq(Block), NEW n \in Nat, NEW k \in Nat, n \in VPages, InOrder(s, n)
    PROVE  InOrder(Append(s, [start_vpage |-> n, num_pages |-> k]), n + k)
<1> DEFINE b == [start_vpage |-> n, num_pages |-> k]
           t == Append(s, b)
<1>1. Len(t) = Len(s) + 1 /\ Len(s) \in Nat /\ t[Len(s) + 1] = b
      /\ \A i \in 1 .. Len(s) : t[i] = s[i]
  OBVIOUS
<1>2. BlockEnd(b) = n + k /\ b.start_vpage = n
  BY DEF BlockEnd
<1>3. \A i \in 1 .. Len(s) : BlockEnd(s[i]) \in Int /\ BlockEnd(s[i]) <= n
  <2>1. \A i \in 1 .. Len(s) : s[i] \in Block
    OBVIOUS
  <2>2. \A i \in 1 .. Len(s) : s[i].start_vpage \in Int /\ s[i].num_pages \in Int
    BY <2>1, ConstantsAssumption DEF Block, VPages
  <2> QED
    BY <2>2 DEF InOrder, BlockEnd
<1>4. \A i \in 1 .. Len(t) : BlockEnd(t[i]) <= n + k
  BY <1>1, <1>2, <1>3
<1>5. \A i, j \in 1 .. Len(t) : i < j => BlockEnd(t[i]) <= t[j].start_vpage
  <2> SUFFICES ASSUME NEW i \in 1 .. Len(t), NEW j \in 1 .. Len(t), i < j
               PROVE  BlockEnd(t[i]) <= t[j].start_vpage
    OBVIOUS
  <2>1. i \in 1 .. Len(s)
    BY <1>1
  <2>2. CASE j = Len(s) + 1
    BY <1>1, <1>2, <1>3, <2>1, <2>2
  <2>3. CASE j \in 1 .. Len(s)
    BY <1>1, <2>1, <2>3 DEF InOrder
  <2> QED
    BY <1>1, <2>2, <2>3
<1> QED
  BY <1>4, <1>5 DEF InOrder

LEMMA InOrderWithoutNth ==
    ASSUME NEW s \in Seq(Block), NEW n \in Nat, NEW k \in 1 .. Len(s), InOrder(s, n)
    PROVE  InOrder(WithoutNth(s, k), n)
<1> DEFINE t == WithoutNth(s, k)
           from(i) == IF i < k THEN i ELSE i + 1
<1>1. Len(s) \in Nat /\ t \in Seq(Block)
  BY WithoutNthType
<1>2. Len(t) = Len(s) - 1 /\ \A i \in 1 .. Len(t) : t[i] = s[from(i)]
  <2>1. DOMAIN t = 1 .. Len(s) - 1
    BY DEF WithoutNth
  <2>2. Len(t) = Len(s) - 1
    BY <1>1, <2>1
  <2> QED
    BY <2>2 DEF WithoutNth
<1>3. \A i \in 1 .. Len(t) : from(i) \in 1 .. Len(s)
  BY <1>1, <1>2
<1>4. \A i, j \in 1 .. Len(t) : i < j => from(i) < from(j)
  BY <1>1, <1>2
<1> QED
  BY <1>2, <1>3, <1>4 DEF InOrder

\* A struct without blocks, before its first use or after its last.
LEMMA EmptyInOrder == \A n : InOrder(<<>>, n)
  BY DEF InOrder

LEMMA InitBlocks == Init => BlocksInOrder
<1> SUFFICES ASSUME Init, NEW p \in Procs
             PROVE  /\ num_pages[p] <= NumVPages => InOrder(allocations[p], num_pages[p])
                    /\ allocations[p] # <<>> => num_pages[p] <= MaxPages
  BY DEF BlocksInOrder
<1>1. allocations[p] = <<>>
  BY DEF Init
<1> QED
  BY <1>1, EmptyInOrder

LEMMA MallocBlocks ==
    ASSUME MaxPages < PagesMod, TypeOK, BlocksInOrder, NEW p \in Procs, NEW k \in BlockPages, Malloc(p, k)
    PROVE  BlocksInOrder'
<1>1. k \in Nat /\ k > 0 /\ num_pages[p] \in Nat /\ NumVPages \in Nat /\ allocations[p] \in Seq(Block)
  BY ConstantsAssumption DEF TypeOK
<1>2. num_pages'[p] = num_pages[p] + k /\ num_pages'[p] <= MaxPages
  <2>1. num_pages'[p] = (num_pages[p] + k) % PagesMod /\ num_pages[p] + k <= MaxPages
    BY DEF Malloc, TypeOK
  <2>0. MaxPages \in Nat /\ PagesMod \in Nat
    BY ConstantsAssumption
  <2>2. num_pages[p] + k \in Nat /\ num_pages[p] + k < PagesMod /\ PagesMod \in Nat
    BY <1>1, <2>0, <2>1
  <2>3. (num_pages[p] + k) % PagesMod = num_pages[p] + k
    BY <2>2, ModSmall
  <2> QED
    BY <2>1, <2>3
<1>3. allocations'[p] = Append(allocations[p], [start_vpage |-> num_pages[p] % NumVPages, num_pages |-> k])
  BY DEF Malloc, TypeOK
<1>4. ASSUME num_pages'[p] <= NumVPages
      PROVE  InOrder(allocations'[p], num_pages'[p])
  <2>1. num_pages[p] < NumVPages
    BY <1>1, <1>2, <1>4
  <2>2. num_pages[p] % NumVPages = num_pages[p] /\ num_pages[p] \in VPages
    BY <1>1, <2>1 DEF VPages
  <2>3. InOrder(allocations[p], num_pages[p])
    BY <1>1, <2>1 DEF BlocksInOrder
  <2> QED
    BY <1>1, <1>2, <1>3, <2>2, <2>3, InOrderAppend
<1>5. \A q \in Procs \ {p} : num_pages'[q] = num_pages[q] /\ allocations'[q] = allocations[q]
  BY DEF Malloc, TypeOK
<1> QED
  BY <1>2, <1>4, <1>5 DEF BlocksInOrder

LEMMA FreeBlocks ==
    ASSUME TypeOK, BlocksInOrder, NEW p \in Procs, NEW a \in VAddrs, Free(p, a)
    PROVE  BlocksInOrder'
<1>1. CASE FreeSinglePage(p, a)
  BY <1>1 DEF FreeSinglePage, BlocksInOrder
<1>2. ASSUME NEW n \in 1 .. Len(allocations[p]), FreeBlock(p, a, n)
      PROVE  BlocksInOrder'
  <2>1. num_pages' = num_pages /\ num_pages[p] \in Nat /\ allocations[p] \in Seq(Block)
    BY <1>2 DEF FreeBlock, TypeOK
  <2>2. /\ allocations'[p] = WithoutNth(allocations[p], n)
        /\ \A q \in Procs \ {p} : allocations'[q] = allocations[q]
    BY <1>2 DEF FreeBlock, TypeOK
  <2>3. InOrder(allocations[p], num_pages[p]) => InOrder(allocations'[p], num_pages[p])
    BY <2>1, <2>2, InOrderWithoutNth
  <2>4. allocations[p] # <<>>
    BY <1>2, <2>1
  <2> QED
    BY <2>1, <2>2, <2>3, <2>4 DEF BlocksInOrder
<1> QED
  BY <1>1, <1>2 DEF Free

LEMMA NextBlocks == MaxPages < PagesMod /\ TypeOK /\ BlocksInOrder /\ [Next]_vars => BlocksInOrder'
<1> SUFFICES ASSUME MaxPages < PagesMod, TypeOK, BlocksInOrder, [Next]_vars PROVE BlocksInOrder'
  OBVIOUS
<1>1. ASSUME NEW p \in Procs, NEW n \in ImagePages, NEW last \in 1 .. PageSize, Load(p, n, last)
      PROVE  BlocksInOrder'
  <2>1. /\ allocations'[p] = <<>>
        /\ \A q \in Procs \ {p} : num_pages'[q] = num_pages[q] /\ allocations'[q] = allocations[q]
    BY <1>1 DEF Load, LoadInto, TypeOK
  <2> QED
    BY <2>1, EmptyInOrder DEF BlocksInOrder
<1>2. ASSUME NEW p \in Procs, NEW next \in Procs, Destroy(p, next)
      PROVE  BlocksInOrder'
  <2>1. /\ allocations'[p] = <<>>
        /\ \A q \in Procs \ {p} : num_pages'[q] = num_pages[q] /\ allocations'[q] = allocations[q]
    BY <1>2 DEF Destroy, TypeOK
  <2> QED
    BY <2>1, EmptyInOrder DEF BlocksInOrder
<1>3. ASSUME NEW p \in Procs, SwitchTo(p) PROVE BlocksInOrder'
  BY <1>3 DEF SwitchTo, BlocksInOrder
<1>4. ASSUME NEW v \in VPages, DemandPage(hw_table, v) PROVE BlocksInOrder'
  BY <1>4 DEF DemandPage, BlocksInOrder
<1>5. ASSUME NEW a \in VAddrs, Store(a) PROVE BlocksInOrder'
  BY <1>5 DEF Store, BlocksInOrder
<1>6. ASSUME hw_table # NoProc, NEW k \in BlockPages, Malloc(hw_table, k) PROVE BlocksInOrder'
  BY <1>6, MallocBlocks DEF TypeOK
<1>7. ASSUME hw_table # NoProc, NEW a \in VAddrs, Free(hw_table, a) PROVE BlocksInOrder'
  BY <1>7, FreeBlocks DEF TypeOK
<1>8. CASE UNCHANGED vars
  BY <1>8 DEF vars, BlocksInOrder
<1> QED
  BY <1>1, <1>2, <1>3, <1>4, <1>5, <1>6, <1>7, <1>8 DEF Next

LEMMA InOrderApart ==
    ASSUME TypeOK, NEW p \in Procs, num_pages[p] <= NumVPages, InOrder(allocations[p], num_pages[p])
    PROVE  BlocksApart(p)
<1> DEFINE s == allocations[p]
<1>1. num_pages[p] \in Nat /\ NumVPages \in Nat /\ Len(s) \in Nat
  BY ConstantsAssumption DEF TypeOK
<1>2. \A i \in 1 .. Len(s) : s[i].start_vpage \in Nat /\ s[i].num_pages \in Nat
  <2>1. s \in Seq(Block)
    BY DEF TypeOK
  <2>2. \A i \in 1 .. Len(s) : s[i] \in Block
    BY <2>1
  <2> QED
    BY <1>1, <2>2 DEF Block, VPages
<1>3. \A i \in 1 .. Len(s) : s[i].start_vpage + s[i].num_pages <= NumVPages
  BY <1>1, <1>2 DEF InOrder, BlockEnd
<1>4. \A i, j \in 1 .. Len(s) : i < j => s[i].start_vpage + s[i].num_pages <= s[j].start_vpage
  BY DEF InOrder, BlockEnd
<1>5. \A i, j \in 1 .. Len(s) : i # j => i < j \/ j < i
  BY <1>1
<1> QED
  BY <1>3, <1>4, <1>5 DEF BlocksApart

LEMMA BlocksAlways ==
    ASSUME MaxPages < PagesMod
    PROVE  Spec => [](TypeOK /\ BlocksInOrder)
<1>1. TypeOK /\ BlocksInOrder /\ [Next]_vars => BlocksInOrder'
  BY NextBlocks
<1> QED
  BY <1>1, InitTypeOK, NextTypeOK, InitBlocks, PTL DEF Spec

\* The blocks of a process are apart for as long as it was not given more pages than
\* an address can name (os.cpp:470), however far beyond that it goes later, within the
\* width of num_pages: nothing but the wrap of addresses can make two of them meet.
THEOREM BlocksMeetOnlyAfterWrap ==
    ASSUME MaxPages < PagesMod
    PROVE  Spec => []BlocksApartUntilWrap
<1>1. TypeOK /\ BlocksInOrder => BlocksApartUntilWrap
  BY InOrderApart DEF BlocksInOrder, BlocksApartUntilWrap
<1> QED
  BY <1>1, BlocksAlways, PTL

LEMMA FitsTheWidth == ASSUME MaxPages <= NumVPages PROVE MaxPages < PagesMod
  BY ConstantsAssumption

LEMMA OrderedAreDisjoint ==
    ASSUME MaxPages <= NumVPages, TypeOK, BlocksInOrder
    PROVE  BlocksDisjoint
<1> SUFFICES ASSUME NEW p \in Procs PROVE BlocksApart(p)
  BY DEF BlocksDisjoint
<1>1. CASE allocations[p] = <<>>
  BY <1>1 DEF BlocksApart
<1>2. CASE allocations[p] # <<>>
  <2>1. num_pages[p] <= NumVPages
    BY <1>2, ConstantsAssumption DEF BlocksInOrder, TypeOK
  <2> QED
    BY <2>1, InOrderApart DEF BlocksInOrder
<1> QED
  BY <1>1, <1>2

\* Where sys_malloc is never asked for more pages than there are, all blocks of all
\* processes are inside the address space and share no page (os.cpp:470).
THEOREM BlocksAreDisjoint ==
    ASSUME MaxPages <= NumVPages
    PROVE  Spec => []BlocksDisjoint
<1>1. TypeOK /\ BlocksInOrder => BlocksDisjoint
  BY OrderedAreDisjoint
<1> QED
  BY <1>1, FitsTheWidth, BlocksAlways, PTL

(***************************************************************************)
(* A sys_free: the block it gives back is apart from each one that stays.  *)
(***************************************************************************)
LEMMA FreeBlockKeepsOthers ==
    ASSUME TypeOK, NEW p \in Procs, BlocksApart(p), NEW a \in VAddrs,
           NEW n \in 1 .. Len(allocations[p]), FreeBlock(p, a, n),
           NEW i \in 1 .. Len(allocations'[p]), NEW v \in PagesOf(allocations'[p][i]), Present(p, v)
    PROVE  page_table'[p][v] # NotPresent
<1> DEFINE s == allocations[p]
           j == IF i < n THEN i ELSE i + 1
<1>1. s \in Seq(Block) /\ Len(s) \in Nat /\ NumVPages \in Nat
  BY ConstantsAssumption DEF TypeOK
<1>2. allocations'[p] = WithoutNth(s, n)
  BY DEF FreeBlock, TypeOK
<1>3. Len(WithoutNth(s, n)) = Len(s) - 1
  <2>1. WithoutNth(s, n) \in Seq(Block) /\ DOMAIN WithoutNth(s, n) = 1 .. Len(s) - 1
    BY <1>1, WithoutNthType DEF WithoutNth
  <2> QED
    BY <1>1, <2>1
<1>4. i \in 1 .. Len(s) - 1 /\ j \in 1 .. Len(s) /\ j # n
  BY <1>1, <1>2, <1>3
<1>5. allocations'[p][i] = s[j]
  BY <1>2, <1>4 DEF WithoutNth
<1>6. s[j] \in Block /\ s[n] \in Block
  BY <1>1, <1>4
<1>0. \A blk \in Block : blk.start_vpage \in Nat /\ blk.num_pages \in Nat
  BY <1>1 DEF Block, VPages
<1>7. /\ s[j].start_vpage \in Nat /\ s[j].num_pages \in Nat
      /\ s[n].start_vpage \in Nat /\ s[n].num_pages \in Nat
  BY <1>0, <1>6
<1>8. \/ s[j].start_vpage + s[j].num_pages <= s[n].start_vpage
      \/ s[n].start_vpage + s[n].num_pages <= s[j].start_vpage
  BY <1>4 DEF BlocksApart
<1>9. v \in VPages /\ v \in Nat
      /\ s[j].start_vpage <= v /\ v < s[j].start_vpage + s[j].num_pages
  BY <1>1, <1>5 DEF PagesOf, VPages
<1>10. a[1] = s[n].start_vpage /\ Unmap(p, PageRange(a, s[n].num_pages))
  BY DEF FreeBlock, StartsAt
<1>11. v \notin PageRange(a, s[n].num_pages)
  <2>1. \A b, c, e, f \in Nat : (c + e <= b \/ b + f <= c) /\ c <= v /\ v < c + e
                                  => ~(b <= v /\ v < b + f)
    BY <1>9
  <2>2. ~(s[n].start_vpage <= v /\ v < s[n].start_vpage + s[n].num_pages)
    BY <1>7, <1>8, <1>9, <2>1
  <2> QED
    BY <1>10, <2>2 DEF PageRange
<1>12. page_table'[p][v] = page_table[p][v]
  BY <1>9, <1>10, <1>11 DEF Unmap, TypeOK
<1> QED
  BY <1>12 DEF Present

\* Of all the operations only sys_free takes blocks of a process away and lets it live.
LEMMA StepKeepsOtherBlocks ==
    ASSUME TypeOK, BlocksDisjoint, [Next]_vars, NEW p \in live \cap live',
           Len(allocations'[p]) < Len(allocations[p]),
           NEW i \in 1 .. Len(allocations'[p]), NEW v \in PagesOf(allocations'[p][i]), Present(p, v)
    PROVE  page_table'[p][v] # NotPresent
<1>1. p \in Procs /\ allocations[p] \in Seq(Block) /\ Len(allocations[p]) \in Nat
  BY DEF TypeOK
<1>2. allocations'[p] # allocations[p]
  BY <1>1
<1>3. ASSUME NEW q \in Procs, NEW n \in ImagePages, NEW last \in 1 .. PageSize, Load(q, n, last)
      PROVE  FALSE
  <2>1. q # p
    BY <1>3 DEF Load, LoadInto
  <2> QED
    BY <1>1, <1>2, <1>3, <2>1 DEF Load, LoadInto, TypeOK
<1>4. ASSUME NEW q \in Procs, NEW next \in Procs, Destroy(q, next)
      PROVE  FALSE
  <2>1. q # p
    BY <1>4 DEF Destroy
  <2> QED
    BY <1>1, <1>2, <1>4, <2>1 DEF Destroy, TypeOK
<1>5. ASSUME NEW q, NEW u, NEW a, SwitchTo(q) \/ DemandPage(q, u) \/ Store(a) \/ UNCHANGED vars
      PROVE  FALSE
  BY <1>2, <1>5 DEF SwitchTo, DemandPage, Store, vars
<1>6. ASSUME hw_table \in Procs, NEW k \in BlockPages, Malloc(hw_table, k)
      PROVE  FALSE
  <2>1. CASE hw_table = p
    <3>1. \E blk : allocations'[p] = Append(allocations[p], blk)
      BY <1>1, <1>6, <2>1 DEF Malloc, TypeOK
    <3>2. Len(allocations'[p]) = Len(allocations[p]) + 1
      BY <1>1, <3>1
    <3> QED
      BY <1>1, <3>2
  <2>2. CASE hw_table # p
    BY <1>1, <1>2, <1>6, <2>2 DEF Malloc, TypeOK
  <2> QED
    BY <2>1, <2>2
<1>7. ASSUME hw_table \in Procs, NEW a \in VAddrs, Free(hw_table, a)
      PROVE  page_table'[p][v] # NotPresent
  <2>1. PICK n \in 1 .. Len(allocations[hw_table]) : FreeBlock(hw_table, a, n)
    BY <1>2, <1>7 DEF Free, FreeSinglePage
  <2>2. hw_table = p
    BY <1>1, <1>2, <1>7, <2>1 DEF FreeBlock, TypeOK
  <2>3. BlocksApart(p)
    BY <1>1 DEF BlocksDisjoint
  <2> QED
    BY <1>1, <2>1, <2>2, <2>3, FreeBlockKeepsOthers
<1>8. hw_table # NoProc => hw_table \in Procs
  BY DEF TypeOK
<1> QED
  BY <1>3, <1>4, <1>5, <1>6, <1>7, <1>8 DEF Next

\* Where no process is given more pages than there are, a sys_free of one block leaves
\* every page of the caller's other blocks mapped that was (os.cpp:490-499).
THEOREM FreeTakesOnlyItsBlock ==
    ASSUME MaxPages <= NumVPages
    PROVE  Spec => FreeKeepsOtherBlocks
<1>1. TypeOK /\ BlocksInOrder => BlocksDisjoint
  BY OrderedAreDisjoint
<1>2. TypeOK /\ BlocksDisjoint /\ [Next]_vars =>
        [\A p \in live \cap live' :
            Len(allocations'[p]) < Len(allocations[p]) =>
                \A i \in 1 .. Len(allocations'[p]) : \A v \in PagesOf(allocations'[p][i]) :
                    Present(p, v) => page_table'[p][v] # NotPresent]_vars
  BY StepKeepsOtherBlocks
<1> QED
  BY <1>1, <1>2, FitsTheWidth, BlocksAlways, PTL DEF Spec, FreeKeepsOtherBlocks

----------------------------------------------------------------------------
(***************************************************************************)
(* Private memory.  Each lemma says what one action does to the words the  *)
(* processes would read: Reads is all PrivateMemory sees of the page       *)
(* tables, the frames and the words in them.                               *)
(***************************************************************************)
LEMMA AddressParts ==
    ASSUME NEW a \in VAddrs
    PROVE  a[1] \in VPages /\ a[2] \in Offsets /\ a = <<a[1], a[2]>>
  BY DEF VAddrs

LEMMA FrameOfPresent ==
    ASSUME TypeOK, NEW p \in Procs, NEW v \in VPages, Present(p, v)
    PROVE  page_table[p][v] \in Frames
  BY DEF TypeOK, Present

\* Both modules mean the same by an address and by the content of a word.
LEMMA SameNames ==
    /\ Abstract!VPages = VPages /\ Abstract!Offsets = Offsets /\ Abstract!VAddrs = VAddrs
    /\ Abstract!Zero = Zero
    /\ \A p : Abstract!StoredWord(p) = StoredWord(p)
    /\ \A p, a : Abstract!ImageWord(p, a) = ImageWord(p, a)
  BY DEF Abstract!VPages, VPages, Abstract!Offsets, Offsets, Abstract!VAddrs, VAddrs,
         Abstract!Zero, Zero, Abstract!StoredWord, StoredWord, Abstract!ImageWord, ImageWord

\* A frame whose words nobody writes keeps what its owner reads there.
LEMMA ReadsKept ==
    ASSUME TypeOK, NEW p \in Procs, NEW a \in VAddrs, page_table'[p][a[1]] = page_table[p][a[1]],
           Present(p, a[1]) => pmem'[<<page_table[p][a[1]], a[2]>>] = pmem[<<page_table[p][a[1]], a[2]>>]
    PROVE  Reads(p, a)' = Reads(p, a)
  BY DEF Reads, Present

LEMMA LoadReads ==
    ASSUME Inv, NEW p \in Procs, NEW n \in ImagePages, NEW last \in 1 .. PageSize,
           NEW k \in 0 .. n, NEW m \in [0 .. k - 1 -> FreeFrames], LoadInto(p, n, last, k, m)
    PROVE  \A q \in Procs : \A a \in VAddrs :
              /\ q # p => Reads(q, a)' = Reads(q, a)
              /\ q = p /\ InImage(n, last, a) /\ a[1] < k => Reads(q, a)' = ImageWord(p, a)
              /\ q = p /\ a[1] >= k => Reads(q, a)' = Zero
<1> SUFFICES ASSUME NEW q \in Procs, NEW a \in VAddrs
             PROVE  /\ q # p => Reads(q, a)' = Reads(q, a)
                    /\ q = p /\ InImage(n, last, a) /\ a[1] < k => Reads(q, a)' = ImageWord(p, a)
                    /\ q = p /\ a[1] >= k => Reads(q, a)' = Zero
  OBVIOUS
<1> DEFINE v == a[1]
           o == a[2]
<1>1. v \in VPages /\ o \in Offsets /\ a = <<v, o>> /\ v \in Nat
  BY AddressParts DEF VPages
<1>2. n \in Nat /\ k \in Nat /\ DOMAIN m = 0 .. k - 1 /\ TypeOK
  BY ConstantsAssumption DEF Inv
<1>3. page_table'[q][v] = IF q # p THEN page_table[q][v]
                          ELSE IF v < k THEN m[v] ELSE NotPresent
  BY <1>1, <1>2 DEF LoadInto, TypeOK
<1>4. ASSUME NEW f \in Frames
      PROVE  pmem'[<<f, o>>] = IF \E u \in 0 .. k - 1 : m[u] = f /\ InImage(n, last, <<u, o>>)
                               THEN ImageWord(p, <<PageIn(m, f), o>>)
                               ELSE pmem[<<f, o>>]
  BY <1>1, <1>2 DEF LoadInto, PAddrs
<1>5. CASE q # p
  <2>1. ASSUME Present(q, v)
        PROVE  pmem'[<<page_table[q][v], o>>] = pmem[<<page_table[q][v], o>>]
    <3>1. page_table[q][v] \in Frames
      BY <1>1, <1>2, <2>1, FrameOfPresent
    <3>2. \A u \in 0 .. k - 1 : m[u] # page_table[q][v]
      BY <1>1, FreeIsUnmapped
    <3> QED
      BY <1>4, <3>1, <3>2
  <2> QED
    BY <1>2, <1>3, <1>5, <2>1, ReadsKept
<1>6. CASE q = p /\ v < k
  <2>1. v \in 0 .. k - 1 /\ m[v] \in FreeFrames
    BY <1>1, <1>2, <1>6
  <2>2. m[v] \in Frames /\ m[v] # NotPresent
    BY <2>1, NotPresentNotFrame DEF FreeFrames
  <2>3. PageIn(m, m[v]) = v
    <3>1. \A i, j \in 0 .. k - 1 : m[i] = m[j] => i = j
      BY <1>2, TakenDiffer DEF LoadInto
    <3> QED
      BY <1>2, <2>1, <3>1 DEF PageIn
  <2>4. InImage(n, last, a) => pmem'[<<m[v], o>>] = ImageWord(p, a)
    BY <1>1, <1>4, <2>1, <2>2, <2>3
  <2> QED
    BY <1>1, <1>2, <1>3, <1>6, <2>2, <2>4 DEF Reads, Present
<1>7. CASE q = p /\ ~(v < k)
  BY <1>3, <1>7 DEF Reads, Present
<1> QED
  BY <1>1, <1>2, <1>5, <1>6, <1>7

LEMMA DemandPageReads ==
    ASSUME Inv, hw_table \in Procs, NEW u \in VPages, DemandPage(hw_table, u)
    PROVE  \A q \in Procs : \A a \in VAddrs : Reads(q, a)' = Reads(q, a)
<1> SUFFICES ASSUME NEW q \in Procs, NEW a \in VAddrs PROVE Reads(q, a)' = Reads(q, a)
  OBVIOUS
<1> DEFINE p == hw_table
           v == a[1]
           o == a[2]
<1>1. PICK f \in FreeFrames :
        /\ page_table' = [page_table EXCEPT ![p][u] = f, ![p][u] = f]
        /\ pmem' = [b \in PAddrs |-> IF b[1] = f THEN Zero ELSE pmem[b]]
  BY DEF DemandPage
<1>2. v \in VPages /\ o \in Offsets /\ TypeOK /\ f \in Frames /\ f # NotPresent
  BY AddressParts, NotPresentNotFrame DEF Inv, FreeFrames
<1>3. page_table'[q][v] = IF q = p /\ v = u THEN f ELSE page_table[q][v]
  BY <1>1, <1>2 DEF TypeOK
<1>4. \A g \in Frames : pmem'[<<g, o>>] = IF g = f THEN Zero ELSE pmem[<<g, o>>]
  BY <1>1, <1>2 DEF PAddrs
<1>5. CASE q = p /\ v = u
  <2>1. ~Present(q, v)
    BY <1>5 DEF DemandPage, CanDemandPage
  <2>2. page_table'[q][v] = f /\ pmem'[<<f, o>>] = Zero
    BY <1>2, <1>3, <1>4, <1>5
  <2> QED
    BY <1>2, <2>1, <2>2 DEF Reads, Present
<1>6. CASE ~(q = p /\ v = u)
  <2>1. ASSUME Present(q, v)
        PROVE  pmem'[<<page_table[q][v], o>>] = pmem[<<page_table[q][v], o>>]
    <3>1. page_table[q][v] \in Frames /\ page_table[q][v] # f
      BY <1>2, <2>1, FrameOfPresent, FreeIsUnmapped
    <3> QED
      BY <1>4, <3>1
  <2> QED
    BY <1>2, <1>3, <1>6, <2>1, ReadsKept
<1> QED
  BY <1>5, <1>6

LEMMA StoreReads ==
    ASSUME Inv, hw_table \in Procs, NEW b \in VAddrs, Store(b)
    PROVE  \A q \in Procs : \A a \in VAddrs :
              Reads(q, a)' = IF q = hw_table /\ a = b THEN StoredWord(hw_table) ELSE Reads(q, a)
<1> SUFFICES ASSUME NEW q \in Procs, NEW a \in VAddrs
             PROVE  Reads(q, a)' = IF q = hw_table /\ a = b THEN StoredWord(hw_table) ELSE Reads(q, a)
  OBVIOUS
<1> DEFINE p == hw_table
           f == page_table[p][b[1]]
<1>1. /\ a[1] \in VPages /\ a[2] \in Offsets /\ a = <<a[1], a[2]>>
      /\ b[1] \in VPages /\ b[2] \in Offsets /\ b = <<b[1], b[2]>>
  BY AddressParts
<1>2. TypeOK /\ Present(p, b[1]) /\ page_table' = page_table
  BY DEF Inv, Store
<1>3. f \in Frames
  BY <1>1, <1>2, FrameOfPresent
<1>4. \A g \in Frames : \A o \in Offsets :
        pmem'[<<g, o>>] = IF g = f /\ o = b[2] THEN StoredWord(p) ELSE pmem[<<g, o>>]
  <2>1. pmem' = [pmem EXCEPT ![<<f, b[2]>>] = StoredWord(p)]
    BY DEF Store
  <2>2. pmem \in [PAddrs -> Content] /\ <<f, b[2]>> \in PAddrs
    BY <1>1, <1>2, <1>3 DEF TypeOK, PAddrs
  <2> QED
    BY <2>1, <2>2 DEF PAddrs
<1>5. CASE q = p /\ a = b
  BY <1>1, <1>2, <1>3, <1>4, <1>5 DEF Reads, Present
<1>6. CASE ~(q = p /\ a = b)
  <2>1. ASSUME Present(q, a[1])
        PROVE  pmem'[<<page_table[q][a[1]], a[2]>>] = pmem[<<page_table[q][a[1]], a[2]>>]
    <3>1. page_table[q][a[1]] \in Frames
      BY <1>1, <1>2, <2>1, FrameOfPresent
    <3>2. page_table[q][a[1]] = f => q = p /\ a[1] = b[1]
      BY <1>1, <1>2, <2>1 DEF Inv, NoFrameShared
    <3>3. ~(page_table[q][a[1]] = f /\ a[2] = b[2])
      BY <1>1, <1>6, <3>2
    <3> QED
      BY <1>1, <1>4, <3>1, <3>3
  <2>2. Reads(q, a)' = Reads(q, a)
    BY <1>2, <2>1, ReadsKept
  <2> QED
    BY <1>6, <2>2
<1> QED
  BY <1>5, <1>6

\* Pages that are unmapped read as zero, and nobody else's pages change.
LEMMA UnmapReads ==
    ASSUME TypeOK, NEW p \in Procs, NEW V \in SUBSET VPages, pmem' = pmem,
           page_table' = [page_table EXCEPT ![p] =
                             [v \in VPages |-> IF v \in V THEN NotPresent ELSE page_table[p][v]]]
    PROVE  \A q \in Procs : \A a \in VAddrs :
              Reads(q, a)' = IF q = p /\ a[1] \in V THEN Zero ELSE Reads(q, a)
<1> SUFFICES ASSUME NEW q \in Procs, NEW a \in VAddrs
             PROVE  Reads(q, a)' = IF q = p /\ a[1] \in V THEN Zero ELSE Reads(q, a)
  OBVIOUS
<1>1. a[1] \in VPages
  BY AddressParts
<1>2. page_table'[q][a[1]] = IF q = p /\ a[1] \in V THEN NotPresent ELSE page_table[q][a[1]]
  BY <1>1 DEF TypeOK
<1> QED
  BY <1>2 DEF Reads, Present
----------------------------------------------------------------------------
(***************************************************************************)
(* The steps of the paging code as steps of PrivateMemory.  vmem is the    *)
(* function the refinement mapping puts in its place.                      *)
(***************************************************************************)
Vmem == [p \in Procs |-> [a \in VAddrs |-> Reads(p, a)]]

LEMMA VmemPoints ==
    /\ \A p \in Procs : \A a \in VAddrs : Vmem[p][a] = Reads(p, a) /\ Vmem'[p][a] = Reads(p, a)'
    /\ DOMAIN Vmem' = Procs /\ \A p \in Procs : DOMAIN Vmem'[p] = VAddrs
  BY DEF Vmem

\* A step nobody can see: the processes and what each would read stay as they are.
Unseen == live' = live /\ hw_table' = hw_table /\ Vmem' = Vmem

LEMMA SameReadsUnseen ==
    ASSUME live' = live, hw_table' = hw_table,
           \A p \in Procs : \A a \in VAddrs : Reads(p, a)' = Reads(p, a)
    PROVE  Unseen
  BY DEF Unseen, Vmem

LEMMA UnseenStutters == Unseen => UNCHANGED Abstract!vars
  BY DEF Unseen, Vmem, Abstract!vars

LEMMA LoadCreates ==
    ASSUME Inv, NEW p \in Procs, NEW n \in ImagePages, NEW last \in 1 .. PageSize,
           Load(p, n, last)
    PROVE  \E k \in 0 .. n : Abstract!Create(p, n, k, last)
<1>1. PICK k \in 0 .. n : \E m \in [0 .. k - 1 -> FreeFrames] : LoadInto(p, n, last, k, m)
  BY DEF Load
<1>2. PICK m \in [0 .. k - 1 -> FreeFrames] : LoadInto(p, n, last, k, m)
  BY <1>1
<1>3. n \in Nat /\ k \in Nat /\ last \in Nat
  BY ConstantsAssumption
<1>4. p \notin live /\ live' = live \cup {p} /\ hw_table' = p
  BY <1>2 DEF LoadInto
<1>5. \A q \in Procs \ {p} : Vmem'[q] = Vmem[q]
  <2>1. \A q \in Procs \ {p} : \A a \in VAddrs : Reads(q, a)' = Reads(q, a)
    BY <1>2, LoadReads
  <2> QED
    BY <2>1 DEF Vmem
<1>6. ASSUME NEW a \in VAddrs
      PROVE  /\ a[1] < k /\ (a[1] < n - 1 \/ a[2] < last) => Vmem'[p][a] = ImageWord(p, a)
             /\ a[1] >= k => Vmem'[p][a] = Zero
  <2>1. a[1] \in Nat
    BY AddressParts DEF VPages
  <2>2. a[1] < k /\ (a[1] < n - 1 \/ a[2] < last) => InImage(n, last, a)
    BY <1>3, <2>1 DEF InImage
  <2> QED
    BY <1>2, <2>2, LoadReads, VmemPoints
<1> QED
  BY <1>4, <1>5, <1>6, VmemPoints, SameNames DEF Abstract!Create, Abstract!OthersKeep, Vmem

LEMMA StoreWrites ==
    ASSUME Inv, hw_table \in Procs, NEW a \in VAddrs, Store(a)
    PROVE  Abstract!Write(a)
<1>1. hw_table \in live /\ live' = live /\ hw_table' = hw_table
  BY ConstantsAssumption DEF Inv, HardwareTableLive, Store
<1>2. Vmem' = [Vmem EXCEPT ![hw_table][a] = StoredWord(hw_table)]
  BY StoreReads DEF Vmem
<1> QED
  BY <1>1, <1>2, SameNames DEF Abstract!Write, Vmem

LEMMA FreeReleases ==
    ASSUME Inv, hw_table \in Procs, NEW a \in VAddrs, Free(hw_table, a)
    PROVE  \E V \in SUBSET VPages : Abstract!Release(V)
<1>1. ASSUME NEW V \in SUBSET VPages, Unmap(hw_table, V), pmem' = pmem, live' = live,
             hw_table' = hw_table
      PROVE  Abstract!Release(V)
  <2>1. hw_table \in live
    BY ConstantsAssumption DEF Inv, HardwareTableLive
  <2>2. \A q \in Procs : \A b \in VAddrs :
          Reads(q, b)' = IF q = hw_table /\ b[1] \in V THEN Zero ELSE Reads(q, b)
    BY <1>1, UnmapReads DEF Inv, Unmap
  <2>3. Vmem' = [Vmem EXCEPT ![hw_table] =
                    [b \in VAddrs |-> IF b[1] \in V THEN Zero ELSE Vmem[hw_table][b]]]
    BY <2>2 DEF Vmem
  <2> QED
    BY <1>1, <2>1, <2>3, SameNames DEF Abstract!Release, Vmem
<1>2. CASE FreeSinglePage(hw_table, a)
  BY <1>1, <1>2, PageRangeType DEF FreeSinglePage
<1>3. ASSUME NEW n \in 1 .. Len(allocations[hw_table]), FreeBlock(hw_table, a, n)
      PROVE  \E V \in SUBSET VPages : Abstract!Release(V)
  <2>1. PageRange(a, allocations[hw_table][n].num_pages) \in SUBSET VPages
    BY PageRangeType
  <2> QED
    BY <1>1, <1>3, <2>1 DEF FreeBlock
<1> QED
  BY <1>2, <1>3 DEF Free

LEMMA DestroyDeletes ==
    ASSUME Inv, NEW p \in Procs, NEW next \in Procs, Destroy(p, next)
    PROVE  Abstract!Delete(p)
<1>1. /\ p \in live /\ live' = live \ {p} /\ hw_table' \in live'
      /\ hw_table # p => hw_table' = hw_table
  BY DEF Destroy
<1>2. \A q \in Procs : \A a \in VAddrs :
        Reads(q, a)' = IF q = p THEN Zero ELSE Reads(q, a)
  <2> SUFFICES ASSUME NEW q \in Procs, NEW a \in VAddrs
               PROVE  Reads(q, a)' = IF q = p THEN Zero ELSE Reads(q, a)
    OBVIOUS
  <2>1. a[1] \in VPages
    BY AddressParts
  <2>2. page_table'[q][a[1]] = IF q = p THEN NotPresent ELSE page_table[q][a[1]]
    BY <2>1 DEF Destroy, Inv, TypeOK
  <2>3. pmem' = pmem
    BY DEF Destroy
  <2> QED
    BY <2>2, <2>3 DEF Reads, Present
<1>3. Vmem' = [Vmem EXCEPT ![p] = [a \in VAddrs |-> Zero]]
  BY <1>2 DEF Vmem
<1> QED
  BY <1>1, <1>3, SameNames DEF Abstract!Delete, Vmem

LEMMA StepIsPrivate == Inv /\ [Next]_vars => [Abstract!Next]_(Abstract!vars)
<1> SUFFICES ASSUME Inv, [Next]_vars PROVE Abstract!Next \/ UNCHANGED Abstract!vars
  OBVIOUS
<1>1. hw_table # NoProc => hw_table \in Procs
  BY DEF Inv, TypeOK
<1>2. ASSUME NEW p \in Procs, NEW n \in ImagePages, NEW last \in 1 .. PageSize, Load(p, n, last)
      PROVE  Abstract!Next
  BY <1>2, LoadCreates DEF Abstract!Next
<1>3. ASSUME NEW p \in Procs, SwitchTo(p)
      PROVE  Abstract!Next
  <2>1. \A q \in Procs : \A a \in VAddrs : Reads(q, a)' = Reads(q, a)
    BY <1>3 DEF SwitchTo, Reads, Present
  <2>2. Vmem' = Vmem
    BY <2>1 DEF Vmem
  <2>3. Abstract!SwitchTo(p)
    BY <1>3, <2>2 DEF SwitchTo, Abstract!SwitchTo, Vmem
  <2> QED
    BY <2>3 DEF Abstract!Next
<1>4. ASSUME NEW p \in Procs, NEW next \in Procs, Destroy(p, next)
      PROVE  Abstract!Next
  BY <1>4, DestroyDeletes DEF Abstract!Next
<1>5. ASSUME hw_table # NoProc, NEW v \in VPages, DemandPage(hw_table, v)
      PROVE  UNCHANGED Abstract!vars
  <2>1. live' = live /\ hw_table' = hw_table
    BY <1>5 DEF DemandPage
  <2> QED
    BY <1>1, <1>5, <2>1, DemandPageReads, SameReadsUnseen, UnseenStutters
<1>6. ASSUME hw_table # NoProc, NEW a \in VAddrs, Store(a)
      PROVE  Abstract!Next
  <2>1. Abstract!Write(a)
    BY <1>1, <1>6, StoreWrites
  <2> QED
    BY <2>1, SameNames DEF Abstract!Next
<1>7. ASSUME hw_table # NoProc, NEW k \in BlockPages, Malloc(hw_table, k)
      PROVE  UNCHANGED Abstract!vars
  <2>1. \A q \in Procs : \A a \in VAddrs : Reads(q, a)' = Reads(q, a)
    BY <1>7 DEF Malloc, Reads, Present
  <2> QED
    BY <1>7, <2>1, SameReadsUnseen, UnseenStutters DEF Malloc
<1>8. ASSUME hw_table # NoProc, NEW a \in VAddrs, Free(hw_table, a)
      PROVE  Abstract!Next
  <2>1. PICK V \in SUBSET VPages : Abstract!Release(V)
    BY <1>1, <1>8, FreeReleases
  <2> QED
    BY <2>1, SameNames DEF Abstract!Next
<1>9. CASE UNCHANGED vars
  <2>1. \A q \in Procs : \A a \in VAddrs : Reads(q, a)' = Reads(q, a)
    BY <1>9 DEF vars, Reads, Present
  <2> QED
    BY <1>9, <2>1, SameReadsUnseen, UnseenStutters DEF vars
<1> QED
  BY <1>2, <1>3, <1>4, <1>5, <1>6, <1>7, <1>8, <1>9 DEF Next

LEMMA InitIsPrivate == Init => Abstract!Init
<1> SUFFICES ASSUME Init PROVE Abstract!Init
  OBVIOUS
<1>1. \A p \in Procs : \A a \in VAddrs : Reads(p, a) = Zero
  BY AddressParts DEF Init, Reads, Present
<1> QED
  BY <1>1, SameNames DEF Init, Abstract!Init

\* The paging code gives every process an address space of its own: whatever loads,
\* faults, stores, frees, kills and switches happen, a process reads the image it was
\* loaded from, zeroes, and its own stores, and nothing another process did.
THEOREM MemoryIsPrivate == Spec => ImplementsPrivateMemory
  BY InitIsPrivate, StepIsPrivate, InvAlways, PTL DEF Spec, ImplementsPrivateMemory, Abstract!Spec

====
