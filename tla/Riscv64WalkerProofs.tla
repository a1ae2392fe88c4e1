------------------------- MODULE Riscv64WalkerProofs -------------------------
(***************************************************************************)
(* Proofs about Riscv64Walker for every paging depth, table size, frame   *)
(* set, image and task set the assumptions allow.                         *)
(***************************************************************************)
EXTENDS Riscv64Walker, TLAPS

USE DepthAssumption, GeometryAssumption, FrameAssumption, WalkerAssumption

(* The index a level macro extracts always selects an entry of the table. *)
LEMMA LevelIndexType ==
  ASSUME NEW va \in VAddrs, NEW l \in Levels
  PROVE  LevelIndex(va, l) \in Idx
<1>1. LevelSpan[l] \in Nat \ {0}
  OBVIOUS
<1>2. va \in Nat
  BY DEF VAddrs
<1>3. va \div LevelSpan[l] \in Nat
  BY <1>1, <1>2
<1>. QED
  BY <1>3 DEF LevelIndex, Idx

(* The task context kvtop is handed is one of the tasks.                  *)
LEMMA AnyTaskType == AnyTask \in Tasks
  BY DEF AnyTask

(* The fields of a call.                                                  *)
LEMMA RequestFields ==
  ASSUME NEW r \in Request
  PROVE  /\ r.op \in {"uvtop", "kvtop"}
         /\ r.task \in Tasks
         /\ r.task.kthread \in BOOLEAN
         /\ r.task.pgd \in Frames \cup {NoPgd}
         /\ r.va \in VAddrs
         /\ r.va \in Nat
         /\ r.verbose \in BOOLEAN
<1>1. r.task \in Tasks /\ r.va \in VAddrs /\ r.op \in {"uvtop", "kvtop"} /\ r.verbose \in BOOLEAN
  BY AnyTaskType DEF Request
<1>2. r.task \in TaskRec
  BY <1>1
<1>3. r.va \in Nat
  BY <1>1 DEF VAddrs
<1>. QED
  BY <1>1, <1>2, <1>3 DEF TaskRec

(* There is always a call to make, so the idle request exists.            *)
LEMMA RequestNonEmpty == IdleReq \in Request
<1>1. 0 \in VAddrs
  <2>1. LevelSpan[Depth - 1] * PtrsPerTable \in Nat \ {0}
    BY DEF Levels
  <2>. QED
    BY <2>1 DEF VAddrs
<1>2. [op |-> "kvtop", task |-> AnyTask, va |-> 0, verbose |-> FALSE] \in Request
  BY <1>1, AnyTaskType DEF Request
<1>. QED
  BY <1>2 DEF IdleReq

(* The entries a level read can yield are entries.                        *)
LEMMA FetchedType ==
  ASSUME TypeOK
  PROVE  Fetched \subseteq Entry
<1>1. CASE FillSrc = Uninit
  BY <1>1 DEF Fetched
<1>2. CASE FillSrc # Uninit
  <2>1. FillSrc \in Frames
    BY <1>2 DEF FillSrc, TypeOK
  <2>2. LevelIndex(req.va, lvl) \in Idx
    BY LevelIndexType, RequestFields DEF TypeOK
  <2>. QED
    BY <1>2, <2>1, <2>2 DEF Fetched, TypeOK, Table
<1>. QED
  BY <1>1, <1>2

(* A call that returns at once keeps the state well typed.                *)
LEMMA ReturnType ==
  ASSUME TypeOK, NEW r \in Request, NEW o \in Outcome, Return(r, o)
  PROVE  TypeOK'
  BY DEF Return, TypeOK

(* A call that starts a walk from a frame keeps the state well typed.     *)
LEMMA StartWalkType ==
  ASSUME TypeOK, NEW r \in Request, NEW g \in Frames, StartWalk(r, g)
  PROVE  TypeOK'
  BY DEF StartWalk, TypeOK, NoRet, Levels

-----------------------------------------------------------------------------
(* Type correctness: every reachable state of the walker is well typed.   *)
THEOREM TypeCorrect == Spec => []TypeOK
<1>1. Init => TypeOK
  <2> SUFFICES ASSUME Init PROVE TypeOK
    OBVIOUS
  <2>1. mem \in [Frames -> Table]
    BY DEF Init
  <2>2. lastRead \in [Levels -> Frames] /\ bufSrc \in [Levels -> Frames \cup {Uninit}]
    BY DEF Init, Frames
  <2>3. lvl \in Levels /\ pt \in Frames
    BY DEF Init, Levels
  <2>4. req \in Request /\ trace \in Seq(LevelResult) /\ ret = NoRet
    BY RequestNonEmpty DEF Init
  <2>. QED
    BY <2>1, <2>2, <2>3, <2>4 DEF Init, TypeOK
<1>2. TypeOK /\ [Next]_vars => TypeOK'
  <2> SUFFICES ASSUME TypeOK, [Next]_vars PROVE TypeOK'
    OBVIOUS
  <2>1. ASSUME NEW r \in Request, Uvtop(r) PROVE TypeOK'
    <3>1. r.task.kthread \in BOOLEAN /\ (~r.task.kthread => r.task.pgd \in Frames)
      BY RequestFields
    <3>2. Fail("fatal") \in Outcome /\ Fail("fault") \in Outcome
      BY DEF Fail, Outcome
    <3>3. CASE r.task.kthread /\ IsKvaddr(r.va) /\ r.task.pgd = NoPgd
      <4>1. Return(r, Fail("fatal"))
        BY <2>1, <3>3 DEF Uvtop
      <4>. QED
        BY <4>1, <3>2, ReturnType
    <3>4. CASE r.task.kthread /\ IsKvaddr(r.va) /\ r.task.pgd # NoPgd
      <4>1. StartWalk(r, r.task.pgd)
        BY <2>1, <3>4 DEF Uvtop
      <4>2. r.task.pgd \in Frames
        BY <3>4, RequestFields
      <4>. QED
        BY <4>1, <4>2, StartWalkType
    <3>5. CASE r.task.kthread /\ ~IsKvaddr(r.va)
      <4>1. Return(r, Fail("fault"))
        BY <2>1, <3>5 DEF Uvtop
      <4>. QED
        BY <4>1, <3>2, ReturnType
    <3>6. CASE ~r.task.kthread
      <4>1. StartWalk(r, r.task.pgd)
        BY <2>1, <3>6 DEF Uvtop
      <4>. QED
        BY <4>1, <3>1, <3>6, StartWalkType
    <3>. QED
      BY <3>1, <3>3, <3>4, <3>5, <3>6
  <2>2. ASSUME NEW r \in Request, Kvtop(r) PROVE TypeOK'
    <3>1. Phys(Vtop(r.va)) \in Outcome /\ Fail("notkvaddr") \in Outcome
      <4>1. Vtop(r.va) \in Int
        BY RequestFields, LayoutAssumption DEF Vtop
      <4>. QED
        BY <4>1 DEF Phys, Fail, Outcome
    <3>2. Return(r, Fail("notkvaddr")) \/ Return(r, Phys(Vtop(r.va))) \/ StartWalk(r, KernelPgd)
      BY <2>2 DEF Kvtop
    <3>. QED
      BY <3>1, <3>2, ReturnType, StartWalkType
  <2>3. CASE VmInit
    BY <2>3 DEF VmInit, TypeOK
  <2>4. CASE WalkFault
    BY <2>4, RequestNonEmpty DEF WalkFault, Finish, TypeOK, Outcome, Fail, Levels
  <2>5. ASSUME NEW e \in Fetched, pc = "walk", Fill PROVE
          /\ lastRead' \in [Levels -> Frames]
          /\ bufSrc' \in [Levels -> Frames \cup {Uninit}]
          /\ e \in Entry
    <3>1. FillSrc \in Frames \cup {Uninit}
      BY DEF FillSrc, TypeOK
    <3>. QED
      BY <2>5, <3>1, FetchedType DEF Fill, TypeOK
  <2>6. CASE WalkInvalid
    BY <2>6, <2>5, RequestNonEmpty
       DEF WalkInvalid, WalkLevel, NoPage, Finish, TypeOK, Outcome, Fail, Levels
  <2>7. CASE WalkDescend
    <3>1. PICK e \in Fetched : Descend(e)
      BY <2>7 DEF WalkDescend, WalkLevel
    <3>2. e \in Entry
      BY <2>7, <2>5 DEF WalkDescend, WalkLevel
    <3>3. LevelIndex(req.va, lvl) \in Idx
      BY LevelIndexType, RequestFields DEF TypeOK
    <3>4. [table |-> pt, idx |-> LevelIndex(req.va, lvl), val |-> e] \in LevelResult
      BY <3>2, <3>3 DEF TypeOK, LevelResult
    <3>5. MaskEntry(e).pfn \in Frames
      BY <3>2 DEF MaskEntry, Entry
    <3>. QED
      BY <2>7, <2>5, <3>1, <3>4, <3>5 DEF WalkDescend, WalkLevel, Descend, TypeOK, Levels
  <2>8. CASE WalkLeaf
    <3>1. PICK e \in Fetched : Leaf(e)
      BY <2>8 DEF WalkLeaf, WalkLevel
    <3>2. e \in Entry
      BY <2>8, <2>5 DEF WalkLeaf, WalkLevel
    <3>3. MaskEntry(e).pfn * PageSize + PageOff(req.va) \in Int
      <4>1. MaskEntry(e).pfn \in Nat
        BY <3>2 DEF MaskEntry, Entry, Frames
      <4>2. req.va \in Nat
        BY RequestFields DEF TypeOK
      <4>. QED
        BY <4>1, <4>2 DEF PageOff
    <3>. QED
      BY <2>8, <2>5, <3>1, <3>3, RequestNonEmpty
         DEF WalkLeaf, WalkLevel, Leaf, Finish, TypeOK, Outcome, Phys, Fail, Levels
  <2>9. CASE UNCHANGED vars
    BY <2>9 DEF vars, TypeOK
  <2>10. QED
    BY <2>1, <2>2, <2>3, <2>4, <2>6, <2>7, <2>8, <2>9 DEF Next
<1>3. QED
  BY <1>1, <1>2, PTL DEF Spec

-----------------------------------------------------------------------------
(* A FILL_* step keeps every level buffer coherent with its key: on a hit *)
(* neither changes, on a miss the page read is the page the key names.    *)
LEMMA FillCoherent ==
  ASSUME TypeOK, CacheCoherent, Fill
  PROVE  CacheCoherent'
<1> SUFFICES ASSUME NEW l \in Levels
             PROVE  \/ bufSrc'[l] = lastRead'[l]
                    \/ lastRead'[l] = 0 /\ bufSrc'[l] = Uninit
  BY DEF CacheCoherent
<1>1. CASE l # lvl
  BY <1>1 DEF Fill, TypeOK, CacheCoherent
<1>2. CASE l = lvl /\ CacheHit
  <2>1. lastRead'[l] = lastRead[l] /\ bufSrc'[l] = bufSrc[l]
    BY <1>2 DEF Fill, FillSrc, CacheHit, TypeOK
  <2>. QED
    BY <2>1 DEF CacheCoherent
<1>3. CASE l = lvl /\ ~CacheHit
  BY <1>3 DEF Fill, FillSrc, TypeOK
<1>. QED
  BY <1>1, <1>2, <1>3

(* The FILL_* caches are coherent in every reachable state: a cache hit   *)
(* never hands the walker a buffer that holds a page other than the one   *)
(* its last_*_read key names, apart from the initial key 0.               *)
THEOREM CacheCoherence == Spec => []CacheCoherent
<1>1. Init => CacheCoherent
  BY DEF Init, CacheCoherent
<1>2. TypeOK /\ CacheCoherent /\ [Next]_vars => CacheCoherent'
  <2> SUFFICES ASSUME TypeOK, CacheCoherent, [Next]_vars PROVE CacheCoherent'
    OBVIOUS
  <2>1. CASE UNCHANGED <<lastRead, bufSrc>>
    BY <2>1 DEF CacheCoherent
  <2>2. ASSUME NEW r \in Request, Uvtop(r) \/ Kvtop(r) PROVE CacheCoherent'
    <3>1. UNCHANGED <<lastRead, bufSrc>>
      BY <2>2 DEF Uvtop, Kvtop, Return, StartWalk
    <3>. QED
      BY <3>1, <2>1
  <2>3. CASE VmInit \/ WalkFault
    BY <2>3, <2>1 DEF VmInit, WalkFault
  <2>4. CASE WalkInvalid \/ WalkDescend \/ WalkLeaf
    <3>1. Fill
      BY <2>4 DEF WalkInvalid, WalkDescend, WalkLeaf, WalkLevel
    <3>. QED
      BY <3>1, FillCoherent
  <2>5. CASE UNCHANGED vars
    BY <2>5, <2>1 DEF vars
  <2>. QED
    BY <2>2, <2>3, <2>4, <2>5 DEF Next
<1>. QED
  BY <1>1, <1>2, TypeCorrect, PTL DEF Spec
=============================================================================
