----------------------- MODULE Riscv64WalkerRefinement -----------------------
(***************************************************************************)
(* The cached, stepwise walker of riscv64_uvtop/riscv64_kvtop implements   *)
(* the uncached walk of Riscv64Translate under the refinement mapping Abs  *)
(* (the image, vm_init and the answers visible, the level buffers, their   *)
(* keys and a walk in progress hidden), for every paging depth, geometry,  *)
(* frame set and task set the assumptions allow, on images whose entries   *)
(* are zero or name a frame other than 0.                                  *)
(***************************************************************************)
EXTENDS Riscv64WalkerProofs

(* Page tables as a running kernel leaves them: an entry is all zero or   *)
(* names a frame other than 0 (physical page 0 is not RAM).  The runs     *)
(* walker_highbits and walker_pfnzero show the refinement failing when    *)
(* this does not hold.                                                    *)
TablesWellFormed ==
  \A m \in Images : \A f \in Frames : \A i \in Idx :
    m[f][i] = ZeroEntry \/ m[f][i].pfn # 0

-----------------------------------------------------------------------------
(* Lemmas about the walk of the specification.                            *)

(* A level above the top of the walk, or any level of a walk that has     *)
(* answered, leaves it as it is.                                          *)
LEMMA LevelSkips ==
  ASSUME NEW m, NEW va, NEW top \in Int, NEW l \in Int, NEW s,
         l > top \/ s.out # Abs!Going
  PROVE  Abs!SpecLevel(m, va, top, l, s) = s
  BY Zenon DEF Abs!SpecLevel

(* A level at or below both tops does the same in either walk.            *)
LEMMA LevelLower ==
  ASSUME NEW m, NEW va, NEW top \in Int, NEW l \in Int, NEW s, l <= top - 1
  PROVE  Abs!SpecLevel(m, va, top, l, s) = Abs!SpecLevel(m, va, top - 1, l, s)
<1>1. ~(l > top) /\ ~(l > top - 1)
  OBVIOUS
<1>. QED
  BY <1>1, Zenon DEF Abs!SpecLevel

(* A walk that has answered keeps its answer to the end.                  *)
LEMMA RunAnswered ==
  ASSUME NEW m, NEW va, NEW top \in Int, NEW s, s.out # Abs!Going
  PROVE  Abs!RunFrom(m, va, top, s) = s
  BY LevelSkips DEF Abs!RunFrom

(* Running from level top is taking level top, then running from top-1.   *)
LEMMA RunPeel ==
  ASSUME NEW m, NEW va, NEW top \in 1..4, NEW s
  PROVE  Abs!RunFrom(m, va, top, s)
           = Abs!RunFrom(m, va, top - 1, Abs!SpecLevel(m, va, top, top, s))
<1> DEFINE L(t, l, x) == Abs!SpecLevel(m, va, t, l, x)
<1>1. CASE top = 1
  <2>1. L(1, 4, s) = s /\ L(1, 3, s) = s /\ L(1, 2, s) = s
    BY <1>1, LevelSkips
  <2> DEFINE y == L(1, 1, s)
  <2>2. L(0, 4, y) = y /\ L(0, 3, y) = y /\ L(0, 2, y) = y /\ L(0, 1, y) = y
    BY LevelSkips
  <2>3. L(1, 0, y) = L(0, 0, y)
    BY LevelLower
  <2>. QED
    BY <1>1, <2>1, <2>2, <2>3 DEF Abs!RunFrom
<1>2. CASE top = 2
  <2>1. L(2, 4, s) = s /\ L(2, 3, s) = s
    BY <1>2, LevelSkips
  <2> DEFINE y == L(2, 2, s)
  <2>2. L(1, 4, y) = y /\ L(1, 3, y) = y /\ L(1, 2, y) = y
    BY LevelSkips
  <2>3. \A x : L(2, 1, x) = L(1, 1, x) /\ L(2, 0, x) = L(1, 0, x)
    BY LevelLower
  <2>. QED
    BY <1>2, <2>1, <2>2, <2>3 DEF Abs!RunFrom
<1>3. CASE top = 3
  <2>1. L(3, 4, s) = s
    BY <1>3, LevelSkips
  <2> DEFINE y == L(3, 3, s)
  <2>2. L(2, 4, y) = y /\ L(2, 3, y) = y
    BY LevelSkips
  <2>3. \A x : L(3, 2, x) = L(2, 2, x) /\ L(3, 1, x) = L(2, 1, x) /\ L(3, 0, x) = L(2, 0, x)
    BY LevelLower
  <2>. QED
    BY <1>3, <2>1, <2>2, <2>3 DEF Abs!RunFrom
<1>4. CASE top = 4
  <2> DEFINE y == L(4, 4, s)
  <2>2. L(3, 4, y) = y
    BY LevelSkips
  <2>3. \A x : L(4, 3, x) = L(3, 3, x) /\ L(4, 2, x) = L(3, 2, x)
               /\ L(4, 1, x) = L(3, 1, x) /\ L(4, 0, x) = L(3, 0, x)
    BY LevelLower
  <2>. QED
    BY <1>4, <2>2, <2>3 DEF Abs!RunFrom
<1>. QED
  BY <1>1, <1>2, <1>3, <1>4

(* When level top answers, that is the answer of the walk from top.       *)
LEMMA RunStopsAt ==
  ASSUME NEW m, NEW va, NEW top \in 0..4, NEW s,
         Abs!SpecLevel(m, va, top, top, s).out # Abs!Going
  PROVE  Abs!RunFrom(m, va, top, s) = Abs!SpecLevel(m, va, top, top, s)
<1>1. CASE top = 0
  <2>1. \A l \in 1..4 : Abs!SpecLevel(m, va, 0, l, s) = s
    BY LevelSkips
  <2>. QED
    BY <1>1, <2>1 DEF Abs!RunFrom
<1>2. CASE top \in 1..4
  BY <1>2, RunPeel, RunAnswered
<1>. QED
  BY <1>1, <1>2

-----------------------------------------------------------------------------
(* The invariant the refinement rests on: the image is one of the dump    *)
(* images, a level key other than 0 names a frame that was read, and a    *)
(* walk in progress is at a table other than frame 0 from which the       *)
(* remaining levels of the spec's walk give the answer the spec gives the *)
(* call being served.                                                     *)
RInv ==
  /\ mem \in Images
  /\ \A l \in Levels : lastRead[l] = 0 \/ lastRead[l] \in Readable
  /\ pc = "walk" =>
       /\ pt # 0
       /\ Abs!Answer(mem, vmReady, req) = Abs!RunFrom(mem, req.va, lvl, Abs!Begin(pt)).out

-----------------------------------------------------------------------------
(* Lemmas about one step of the walker.                                   *)

(* On a well-formed entry the mask changes neither the test for zero nor  *)
(* the frame nor the present bit.                                         *)
LEMMA MaskWellFormed ==
  ASSUME NEW e \in Entry, e = ZeroEntry \/ e.pfn # 0
  PROVE  /\ MaskEntry(e) = ZeroEntry <=> e = ZeroEntry
         /\ MaskEntry(e).pfn = e.pfn
         /\ MaskEntry(e).v = e.v
<1>1. MaskEntry(e) \in Entry
      /\ MaskEntry(e).hi = FALSE /\ MaskEntry(e).pfn = e.pfn /\ MaskEntry(e).v = e.v
  BY DEF MaskEntry, Entry
<1>2. \A x \in Entry : x = ZeroEntry <=> (~x.hi /\ x.pfn = 0 /\ ~x.v)
  BY DEF Entry, ZeroEntry
<1>. QED
  BY <1>1, <1>2

(* A fill that does not fault during a walk reads the table the walk is   *)
(* at: the frame is readable, and the buffer holds that frame's page.     *)
LEMMA FillReads ==
  ASSUME TypeOK, CacheCoherent, RInv, pc = "walk", ~FillFails
  PROVE  /\ pt \in Readable
         /\ FillSrc = pt
         /\ Fetched = {mem[pt][LevelIndex(req.va, lvl)]}
<1>1. pt # 0 /\ pt \in Frames /\ lvl \in Levels
  BY DEF RInv, TypeOK
<1>2. ASSUME CacheHit PROVE pt \in Readable /\ FillSrc = pt
  <2>1. lastRead[lvl] = pt
    BY <1>2 DEF CacheHit
  <2>2. pt \in Readable
    BY <1>1, <2>1 DEF RInv
  <2>3. bufSrc[lvl] = lastRead[lvl] \/ lastRead[lvl] = 0
    BY <1>1 DEF CacheCoherent
  <2>4. bufSrc[lvl] = pt
    BY <1>1, <2>1, <2>3
  <2>5. FillSrc = bufSrc[lvl]
    BY <1>2 DEF FillSrc
  <2>. QED
    BY <2>2, <2>4, <2>5
<1>3. ASSUME ~CacheHit PROVE pt \in Readable /\ FillSrc = pt
  BY <1>3 DEF FillFails, FillSrc
<1>4. pt # Uninit
  BY <1>1 DEF Uninit, Frames
<1>. QED
  BY <1>2, <1>3, <1>4 DEF Fetched, CacheHit

(* The entry a walk reads is an entry of a well-formed table.             *)
LEMMA EntryWellFormed ==
  ASSUME TypeOK, RInv, TablesWellFormed
  PROVE  LET e == mem[pt][LevelIndex(req.va, lvl)]
         IN  e \in Entry /\ (e = ZeroEntry \/ e.pfn # 0)
<1>1. LevelIndex(req.va, lvl) \in Idx
  BY LevelIndexType, RequestFields DEF TypeOK
<1>2. mem \in Images /\ pt \in Frames /\ mem \in [Frames -> Table]
  BY DEF RInv, TypeOK
<1>. QED
  BY <1>1, <1>2 DEF TablesWellFormed, Table

(* A fill keeps every level key either 0 or a frame that was read.        *)
LEMMA FillKeys ==
  ASSUME TypeOK, CacheCoherent, RInv, pc = "walk", Fill
  PROVE  \A l \in Levels : lastRead'[l] = 0 \/ lastRead'[l] \in Readable
<1>1. pt \in Readable
  BY FillReads DEF Fill
<1>. QED
  BY <1>1 DEF Fill, RInv, TypeOK

(* The level a walk is at does in the spec what the walker's step does:   *)
(* fault on a table that cannot be read, stop on a zero entry, follow the *)
(* entry's frame above the PTE level, and answer at the PTE level.        *)
LEMMA SpecLevelAt ==
  ASSUME TypeOK, RInv, TablesWellFormed, pc = "walk"
  PROVE  LET E == mem[pt][LevelIndex(req.va, lvl)]
             S == Abs!SpecLevel(mem, req.va, lvl, lvl, Abs!Begin(pt))
         IN  /\ pt \notin Readable => S.out = Fail("fault")
             /\ pt \in Readable /\ E = ZeroEntry => S.out = Fail("invalid")
             /\ pt \in Readable /\ E # ZeroEntry /\ lvl > 0 =>
                  S = Abs!Begin(MaskEntry(E).pfn)
             /\ pt \in Readable /\ E # ZeroEntry /\ lvl = 0 =>
                  S.out = IF MaskEntry(E).v
                            THEN Phys(MaskEntry(E).pfn * PageSize + PageOff(req.va))
                            ELSE Fail("notpresent")
<1> DEFINE E == mem[pt][LevelIndex(req.va, lvl)]
           S == Abs!SpecLevel(mem, req.va, lvl, lvl, Abs!Begin(pt))
<1>1. E \in Entry /\ (E = ZeroEntry \/ E.pfn # 0)
  BY EntryWellFormed
<1>2. MaskEntry(E) = ZeroEntry <=> E = ZeroEntry
  BY <1>1, MaskWellFormed
<1>3. lvl \in Int /\ ~(lvl > lvl)
  BY DEF TypeOK, Levels
<1>0. /\ Abs!MaskEntry(E) = MaskEntry(E) /\ Abs!ZeroEntry = ZeroEntry
      /\ Abs!LevelIndex(req.va, lvl) = LevelIndex(req.va, lvl)
      /\ Abs!PageOff(req.va) = PageOff(req.va)
  BY DEF Abs!MaskEntry, MaskEntry, Abs!ZeroEntry, ZeroEntry, Abs!LevelIndex,
         LevelIndex, Abs!PageOff, PageOff
<1>4. Abs!Begin(pt) = [t |-> pt, out |-> Abs!Going] /\ Abs!Going # Fail("fault")
  BY DEF Abs!Begin, Abs!Going, Fail
<1> DEFINE A == Abs!MaskEntry(mem[pt][Abs!LevelIndex(req.va, lvl)])
<1>5. S = IF pt \notin Readable THEN [Abs!Begin(pt) EXCEPT !.out = Abs!Fail("fault")]
          ELSE IF A = Abs!ZeroEntry THEN [Abs!Begin(pt) EXCEPT !.out = Abs!Fail("invalid")]
          ELSE IF lvl > 0 THEN [Abs!Begin(pt) EXCEPT !.t = A.pfn]
          ELSE IF A.v THEN [Abs!Begin(pt) EXCEPT !.out = Abs!Phys(A.pfn * PageSize
                                                                + Abs!PageOff(req.va))]
          ELSE [Abs!Begin(pt) EXCEPT !.out = Abs!Fail("notpresent")]
  <2>1. ~(lvl > lvl \/ Abs!Begin(pt).out # Abs!Going) /\ Abs!Begin(pt).t = pt
    BY <1>3, <1>4
  <2>. QED
    BY <2>1, Zenon DEF Abs!SpecLevel
<1>8. /\ [Abs!Begin(pt) EXCEPT !.out = Abs!Fail("fault")] = [t |-> pt, out |-> Abs!Fail("fault")]
      /\ [Abs!Begin(pt) EXCEPT !.out = Abs!Fail("invalid")] = [t |-> pt, out |-> Abs!Fail("invalid")]
      /\ [Abs!Begin(pt) EXCEPT !.t = A.pfn] = [t |-> A.pfn, out |-> Abs!Going]
      /\ [Abs!Begin(pt) EXCEPT !.out = Abs!Phys(A.pfn * PageSize + Abs!PageOff(req.va))]
           = [t |-> pt, out |-> Abs!Phys(A.pfn * PageSize + Abs!PageOff(req.va))]
      /\ [Abs!Begin(pt) EXCEPT !.out = Abs!Fail("notpresent")]
           = [t |-> pt, out |-> Abs!Fail("notpresent")]
  BY <1>4
<1>6. A = MaskEntry(E) /\ (A = Abs!ZeroEntry <=> E = ZeroEntry)
  BY <1>0, <1>2
<1>7. /\ Abs!Fail("fault") = Fail("fault") /\ Abs!Fail("invalid") = Fail("invalid")
      /\ Abs!Fail("notpresent") = Fail("notpresent")
      /\ Abs!Phys(A.pfn * PageSize + Abs!PageOff(req.va))
           = Phys(MaskEntry(E).pfn * PageSize + PageOff(req.va))
  BY <1>0, <1>6 DEF Abs!Fail, Fail, Abs!Phys, Phys
<1>. QED
  BY <1>5, <1>6, <1>7, <1>8 DEF Abs!Begin

(* The spec's answer to the call a walk serves, once the walk is done.    *)
LEMMA FinishRefines ==
  ASSUME TypeOK, RInv, pc = "walk", NEW out,
         Abs!RunFrom(mem, req.va, lvl, Abs!Begin(pt)).out = out,
         Finish(out), UNCHANGED <<mem, vmReady>>,
         \A l \in Levels : lastRead'[l] = 0 \/ lastRead'[l] \in Readable
  PROVE  RInv' /\ Abs!Call
<1>1. Abs!Answer(mem, vmReady, req) = out
  BY DEF RInv
<1>2. ret' = [req |-> req, out |-> out] /\ pc' = "idle" /\ req \in Request
  BY DEF Finish, TypeOK
<1>. QED
  BY <1>1, <1>2 DEF RInv, Abs!Call

(* The walker starts in a state of the spec's, and in its invariant.      *)
LEMMA InitRefines == Init => RInv /\ Abs!Init
  BY DEF Init, RInv, Abs!Init

(* The level a walk is at is one the spec's walk has (at most 5 levels).  *)
LEMMA LevelRange == ASSUME TypeOK PROVE lvl \in 0..4
  BY DepthAssumption DEF TypeOK, Levels

(* A read that faults ends the call as the spec's walk does.              *)
LEMMA WalkFaultRefines ==
  ASSUME TypeOK, CacheCoherent, RInv, TablesWellFormed, WalkFault
  PROVE  RInv' /\ Abs!Call
<1>1. pc = "walk" /\ pt \notin Readable
  BY DEF WalkFault, FillFails
<1>2. Abs!SpecLevel(mem, req.va, lvl, lvl, Abs!Begin(pt)).out = Fail("fault")
  BY <1>1, SpecLevelAt
<1>3. Fail("fault") # Abs!Going
  BY DEF Fail, Abs!Going
<1>4. Abs!RunFrom(mem, req.va, lvl, Abs!Begin(pt)).out = Fail("fault")
  BY <1>2, <1>3, LevelRange, RunStopsAt
<1>5. \A l \in Levels : lastRead'[l] = 0 \/ lastRead'[l] \in Readable
  BY DEF WalkFault, RInv
<1>. QED
  BY <1>1, <1>4, <1>5, FinishRefines DEF WalkFault

(* The entry a level step acts on is the one the spec's walk reads.       *)
LEMMA WalkEntry ==
  ASSUME TypeOK, CacheCoherent, RInv, pc = "walk", Fill, NEW e \in Fetched
  PROVE  e = mem[pt][LevelIndex(req.va, lvl)] /\ pt \in Readable
  BY FillReads DEF Fill

(* A zero entry ends the call as "invalid", as in the spec's walk.        *)
LEMMA WalkInvalidRefines ==
  ASSUME TypeOK, CacheCoherent, RInv, TablesWellFormed, WalkInvalid
  PROVE  RInv' /\ Abs!Call
<1>1. pc = "walk" /\ Fill /\ UNCHANGED <<mem, vmReady>>
  BY DEF WalkInvalid, WalkLevel
<1>2. PICK e \in Fetched : NoPage(e)
  BY DEF WalkInvalid, WalkLevel
<1>3. e = mem[pt][LevelIndex(req.va, lvl)] /\ pt \in Readable /\ e = ZeroEntry
  BY <1>1, <1>2, WalkEntry DEF NoPage
<1>4. Abs!SpecLevel(mem, req.va, lvl, lvl, Abs!Begin(pt)).out = Fail("invalid")
  BY <1>1, <1>3, SpecLevelAt
<1>5. Fail("invalid") # Abs!Going
  BY DEF Fail, Abs!Going
<1>6. Abs!RunFrom(mem, req.va, lvl, Abs!Begin(pt)).out = Fail("invalid")
  BY <1>4, <1>5, LevelRange, RunStopsAt
<1>. QED
  BY <1>1, <1>2, <1>6, FillKeys, FinishRefines DEF NoPage

(* The PTE level answers as the spec's walk does.                         *)
LEMMA WalkLeafRefines ==
  ASSUME TypeOK, CacheCoherent, RInv, TablesWellFormed, WalkLeaf
  PROVE  RInv' /\ Abs!Call
<1>1. pc = "walk" /\ Fill /\ UNCHANGED <<mem, vmReady>>
  BY DEF WalkLeaf, WalkLevel
<1>2. PICK e \in Fetched : Leaf(e)
  BY DEF WalkLeaf, WalkLevel
<1>3. e = mem[pt][LevelIndex(req.va, lvl)] /\ pt \in Readable /\ e # ZeroEntry /\ lvl = 0
  BY <1>1, <1>2, WalkEntry DEF Leaf
<1> DEFINE out == IF MaskEntry(e).v
                    THEN Phys(MaskEntry(e).pfn * PageSize + PageOff(req.va))
                    ELSE Fail("notpresent")
<1>4. Abs!SpecLevel(mem, req.va, lvl, lvl, Abs!Begin(pt)).out = out
  BY <1>1, <1>3, SpecLevelAt
<1>5. out # Abs!Going
  BY DEF Phys, Fail, Abs!Going
<1>6. Abs!RunFrom(mem, req.va, lvl, Abs!Begin(pt)).out = out
  BY <1>4, <1>5, LevelRange, RunStopsAt
<1>. QED
  BY <1>1, <1>2, <1>6, FillKeys, FinishRefines DEF Leaf

(* Descending a level is invisible: the rest of the spec's walk from the  *)
(* next table still gives the call's answer.                              *)
LEMMA WalkDescendRefines ==
  ASSUME TypeOK, CacheCoherent, RInv, TablesWellFormed, WalkDescend
  PROVE  RInv' /\ UNCHANGED <<mem, vmReady, ret>>
<1>1. pc = "walk" /\ Fill /\ UNCHANGED <<mem, vmReady>>
  BY DEF WalkDescend, WalkLevel
<1>2. PICK e \in Fetched : Descend(e)
  BY DEF WalkDescend, WalkLevel
<1>3. e = mem[pt][LevelIndex(req.va, lvl)] /\ pt \in Readable /\ e # ZeroEntry /\ lvl > 0
  BY <1>1, <1>2, WalkEntry DEF Descend
<1>4. Abs!SpecLevel(mem, req.va, lvl, lvl, Abs!Begin(pt)) = Abs!Begin(MaskEntry(e).pfn)
  BY <1>1, <1>3, SpecLevelAt
<1>5. Abs!RunFrom(mem, req.va, lvl, Abs!Begin(pt))
        = Abs!RunFrom(mem, req.va, lvl - 1, Abs!Begin(MaskEntry(e).pfn))
  BY <1>3, <1>4, LevelRange, RunPeel
<1>6. MaskEntry(e).pfn # 0
  <2>1. e \in Entry /\ (e = ZeroEntry \/ e.pfn # 0)
    BY <1>3, EntryWellFormed
  <2>. QED
    BY <1>3, <2>1, MaskWellFormed
<1>7. /\ lvl' = lvl - 1 /\ pt' = MaskEntry(e).pfn
      /\ UNCHANGED <<pc, req, ret>>
  BY <1>2 DEF Descend
<1>. QED
  BY <1>1, <1>5, <1>6, <1>7, FillKeys DEF RInv

(* A call that returns at once answers what the spec answers.             *)
LEMMA ReturnRefines ==
  ASSUME TypeOK, RInv, NEW r \in Request, NEW o, Return(r, o),
         Abs!Answer(mem, vmReady, r) = o
  PROVE  RInv' /\ Abs!Call
  BY DEF Return, RInv, Abs!Call

(* A call that starts a walk consumes the previous answer; the whole      *)
(* spec walk from the root is still to come.                              *)
LEMMA StartRefines ==
  ASSUME TypeOK, RInv, NEW r \in Request, NEW g \in Frames, g # 0, StartWalk(r, g),
         Abs!Answer(mem, vmReady, r) = Abs!SpecWalk(mem, g, r.va)
  PROVE  RInv' /\ Abs!Forget
  BY DEF StartWalk, RInv, Abs!Forget, Abs!SpecWalk

(* The answers of riscv64_uvtop's early returns and the root of its walk  *)
(* are those of translate_user.                                           *)
LEMMA UvtopRefines ==
  ASSUME TypeOK, RInv, NEW r \in Request, Uvtop(r)
  PROVE  RInv' /\ (Abs!Call \/ Abs!Forget)
<1>0. /\ r.op = "uvtop" /\ r.task \in Tasks
      /\ Abs!IsKvaddr(r.va) = IsKvaddr(r.va)
      /\ Abs!Answer(mem, vmReady, r) = Abs!UserAnswer(mem, r)
  BY RequestFields DEF Uvtop, Abs!IsKvaddr, IsKvaddr, Abs!IsVmallocAddr, IsVmallocAddr,
                       Abs!Answer
<1>1. r.task.pgd # 0 /\ (r.task.pgd # NoPgd => r.task.pgd \in Frames)
  BY <1>0, RequestFields, WalkerAssumption DEF NoPgd
<1>2. CASE r.task.kthread /\ IsKvaddr(r.va) /\ r.task.pgd = NoPgd
  <2>1. Return(r, Fail("fatal"))
    BY <1>2 DEF Uvtop
  <2>2. Abs!UserAnswer(mem, r) = Fail("fatal")
    BY <1>0, <1>2 DEF Abs!UserAnswer, Abs!Fail, Fail
  <2>. QED
    BY <1>0, <2>1, <2>2, ReturnRefines
<1>3. CASE r.task.kthread /\ IsKvaddr(r.va) /\ r.task.pgd # NoPgd
  <2>1. StartWalk(r, r.task.pgd)
    BY <1>3 DEF Uvtop
  <2>2. Abs!UserAnswer(mem, r) = Abs!SpecWalk(mem, r.task.pgd, r.va)
    BY <1>0, <1>3 DEF Abs!UserAnswer
  <2>. QED
    BY <1>0, <1>1, <1>3, <2>1, <2>2, StartRefines
<1>4. CASE r.task.kthread /\ ~IsKvaddr(r.va)
  <2>1. Return(r, Fail("fault"))
    BY <1>4 DEF Uvtop
  <2>2. Abs!UserAnswer(mem, r) = Fail("fault")
    BY <1>0, <1>4 DEF Abs!UserAnswer, Abs!Fail, Fail
  <2>. QED
    BY <1>0, <2>1, <2>2, ReturnRefines
<1>5. CASE ~r.task.kthread
  <2>1. StartWalk(r, r.task.pgd)
    BY <1>5 DEF Uvtop
  <2>2. Abs!UserAnswer(mem, r) = Abs!SpecWalk(mem, r.task.pgd, r.va)
    BY <1>0, <1>5 DEF Abs!UserAnswer
  <2>3. r.task.pgd \in Frames
    BY <1>0, <1>5, WalkerAssumption
  <2>. QED
    BY <1>0, <1>1, <2>1, <2>2, <2>3, StartRefines
<1>. QED
  BY <1>2, <1>3, <1>4, <1>5

(* riscv64_kvtop's linear map and its walk of the kernel's pgd are those  *)
(* of translate_kernel.                                                   *)
LEMMA KvtopRefines ==
  ASSUME TypeOK, RInv, NEW r \in Request, Kvtop(r)
  PROVE  RInv' /\ (Abs!Call \/ Abs!Forget)
<1>0. /\ r.op = "kvtop"
      /\ Abs!IsKvaddr(r.va) = IsKvaddr(r.va)
      /\ Abs!IsVmallocAddr(r.va) = IsVmallocAddr(r.va)
      /\ Abs!Vtop(r.va) = Vtop(r.va)
      /\ Abs!Answer(mem, vmReady, r) = Abs!KernelAnswer(mem, vmReady, r)
  BY DEF Kvtop, Abs!IsKvaddr, IsKvaddr, Abs!IsVmallocAddr, IsVmallocAddr,
         Abs!Vtop, Vtop, Abs!Answer
<1>1. CASE ~IsKvaddr(r.va)
  <2>1. Return(r, Fail("notkvaddr"))
    BY <1>1 DEF Kvtop
  <2>2. Abs!KernelAnswer(mem, vmReady, r) = Fail("notkvaddr")
    BY <1>0, <1>1 DEF Abs!KernelAnswer, Abs!Fail, Fail
  <2>. QED
    BY <1>0, <2>1, <2>2, ReturnRefines
<1>2. CASE IsKvaddr(r.va) /\ (~vmReady \/ (~IsVmallocAddr(r.va) /\ ~r.verbose))
  <2>1. Return(r, Phys(Vtop(r.va)))
    BY <1>2 DEF Kvtop
  <2>2. Abs!KernelAnswer(mem, vmReady, r) = Phys(Vtop(r.va))
    BY <1>0, <1>2 DEF Abs!KernelAnswer, Abs!Phys, Phys
  <2>. QED
    BY <1>0, <2>1, <2>2, ReturnRefines
<1>3. CASE IsKvaddr(r.va) /\ vmReady /\ (IsVmallocAddr(r.va) \/ r.verbose)
  <2>1. StartWalk(r, KernelPgd)
    BY <1>3 DEF Kvtop
  <2>2. Abs!KernelAnswer(mem, vmReady, r) = Abs!SpecWalk(mem, KernelPgd, r.va)
    BY <1>0, <1>3 DEF Abs!KernelAnswer
  <2>3. KernelPgd \in Frames /\ KernelPgd # 0
    BY WalkerAssumption
  <2>. QED
    BY <1>0, <2>1, <2>2, <2>3, StartRefines
<1>. QED
  BY <1>1, <1>2, <1>3

(* vm_init() is the spec's LayoutKnown.                                   *)
LEMMA VmInitRefines ==
  ASSUME RInv, VmInit
  PROVE  RInv' /\ Abs!LayoutKnown
  BY DEF VmInit, RInv, Abs!LayoutKnown

-----------------------------------------------------------------------------
(* Every step of the walker keeps the invariant and is a step of the spec *)
(* or leaves the image, vm_init and the answers as they were.             *)
LEMMA StepRefines ==
  ASSUME TablesWellFormed, TypeOK, CacheCoherent, RInv, [Next]_vars
  PROVE  RInv' /\ [Abs!Next]_<<mem, vmReady, ret>>
<1>1. ASSUME NEW r \in Request, Uvtop(r) \/ Kvtop(r)
      PROVE  RInv' /\ [Abs!Next]_<<mem, vmReady, ret>>
  BY <1>1, UvtopRefines, KvtopRefines DEF Abs!Next
<1>2. CASE VmInit
  BY <1>2, VmInitRefines DEF Abs!Next
<1>3. CASE WalkFault
  BY <1>3, WalkFaultRefines DEF Abs!Next
<1>4. CASE WalkInvalid
  BY <1>4, WalkInvalidRefines DEF Abs!Next
<1>5. CASE WalkLeaf
  BY <1>5, WalkLeafRefines DEF Abs!Next
<1>6. CASE WalkDescend
  BY <1>6, WalkDescendRefines
<1>7. CASE UNCHANGED vars
  BY <1>7 DEF vars, RInv
<1>. QED
  BY <1>1, <1>2, <1>3, <1>4, <1>5, <1>6, <1>7 DEF Next

(* On page tables whose entries are zero or name a frame other than 0,    *)
(* riscv64_uvtop and riscv64_kvtop with their FILL_* caches answer every  *)
(* call as the uncached walk of the spec does, whatever calls, faults and *)
(* vm_init came before: the walker implements Riscv64Translate.          *)
THEOREM Refinement ==
  ASSUME TablesWellFormed
  PROVE  Spec => TranslationMatchesSpec
<1>1. Init => RInv /\ Abs!Init
  BY InitRefines
<1>2. TypeOK /\ CacheCoherent /\ RInv /\ [Next]_vars
        => RInv' /\ [Abs!Next]_<<mem, vmReady, ret>>
  BY StepRefines
<1>3. Spec => []TypeOK /\ []CacheCoherent
  BY TypeCorrect, CacheCoherence
<1>4. Spec => []RInv
  BY <1>1, <1>2, <1>3, PTL DEF Spec
<1>5. Spec => [][Abs!Next]_<<mem, vmReady, ret>>
  BY <1>2, <1>3, <1>4, PTL DEF Spec
<1>. QED
  BY <1>1, <1>5 DEF Spec, TranslationMatchesSpec, Abs!Spec
=============================================================================
