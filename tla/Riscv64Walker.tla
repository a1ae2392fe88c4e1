--------------------------- MODULE Riscv64Walker ---------------------------
(***************************************************************************)
(* The translation entry points riscv64_uvtop and riscv64_kvtop and the    *)
(* page-table walk they run (riscv64_vtop_3level_4k, _4level_4k and        *)
(* _5level_4k, one walk parameterised by Depth), with the one-page cache   *)
(* per level that the FILL_PGD ... FILL_PTBL macros keep in machdep.       *)
(*                                                                         *)
(* A translation is a sequence of steps, one per level, because a read    *)
(* that fails (readmem with FAULT_ON_ERROR) aborts the command between two *)
(* levels, leaving the caches of the levels above already refilled; the   *)
(* session then goes on with the next command and the same caches.        *)
(*                                                                         *)
(* Memory reads go to the dump image mem: mem[f] is the table in frame f. *)
(* The image never changes during a session.                              *)
(***************************************************************************)
EXTENDS Riscv64Paging, Sequences

CONSTANTS
  Images,      \* the dump images a run starts from
  Tasks,       \* task contexts: [kthread, pgd]
  KernelPgd    \* frame of vt->kernel_pgd[0] (swapper_pg_dir)

(* A pgd that does not exist: a kernel thread whose active_mm is NULL.    *)
NoPgd == -1
(* The contents of a level buffer that was malloc()ed and never filled.   *)
Uninit == -1

(* A task context, reduced to what uvtop reads: whether it is a kernel    *)
(* thread and the pgd of its mm (of its active_mm for a kernel thread).   *)
TaskRec == [kthread : BOOLEAN, pgd : Frames \cup {NoPgd}]

ASSUME WalkerAssumption ==
  /\ Images \subseteq [Frames -> Table]
  /\ Tasks \subseteq TaskRec /\ Tasks # {}
  /\ KernelPgd \in Frames \ {0}
  /\ \A t \in Tasks : t.pgd # 0 /\ (~t.kthread => t.pgd \in Frames)

(* A call of machdep->uvtop or machdep->kvtop.  The verbose flag of uvtop *)
(* changes only what it prints, and kvtop does not use its task context,  *)
(* so those two arguments are held fixed.                                 *)
AnyTask == CHOOSE t \in Tasks : TRUE
Request ==
  [op : {"uvtop"}, task : Tasks, va : VAddrs, verbose : {FALSE}]
    \cup [op : {"kvtop"}, task : {AnyTask}, va : VAddrs, verbose : BOOLEAN]

(* What a call returns: TRUE with *paddr, or the way it fails.  "invalid" *)
(* is the no_page path, "notpresent" the !_PAGE_PRESENT path, "fault" a   *)
(* failed FAULT_ON_ERROR read, "fatal" an error(FATAL), "notkvaddr" the   *)
(* early FALSE of kvtop.                                                   *)
Outcome == [kind : {"phys"}, pa : Int]
             \cup [kind : {"invalid", "notpresent", "fault", "fatal", "notkvaddr"}]
Phys(pa) == [kind |-> "phys", pa |-> pa]
Fail(k) == [kind |-> k]

NoRet == [kind |-> "none"]

(* The value req holds between calls.                                     *)
IdleReq == CHOOSE r \in Request : TRUE

(* One level visited by a walk, as the verbose trace prints it.           *)
LevelResult == [table : Frames, idx : Idx, val : Entry]

VARIABLES
  mem,       \* the dump image
  vmReady,   \* vt->vmalloc_start != 0: vm_init() has run
  lastRead,  \* lastRead[l]: last_pgd_read, ..., last_ptbl_read
  bufSrc,    \* bufSrc[l]: the frame whose page buffer l holds, or Uninit
  pc,        \* "idle" between calls, "walk" inside a vtop walk
  req,       \* the call being served
  lvl,       \* the level the walk reads next
  pt,        \* the frame of the table it reads there (pt_phys)
  trace,     \* the levels visited so far (PageTableWalkState)
  ret        \* [req, out]: the last call and what it returned

vars == <<mem, vmReady, lastRead, bufSrc, pc, req, lvl, pt, trace, ret>>

TypeOK ==
  /\ mem \in [Frames -> Table]
  /\ vmReady \in BOOLEAN
  /\ lastRead \in [Levels -> Frames]
  /\ bufSrc \in [Levels -> Frames \cup {Uninit}]
  /\ pc \in {"idle", "walk"}
  /\ req \in Request
  /\ lvl \in Levels
  /\ pt \in Frames
  /\ trace \in Seq(LevelResult)
  /\ ret \in [req : Request, out : Outcome] \cup {NoRet}

(* PRE_GDB: pt_level_alloc() mallocs the buffers and the last_*_read keys *)
(* are set to 0.                                                          *)
Init ==
  /\ mem \in Images
  /\ vmReady = FALSE
  /\ lastRead = [l \in Levels |-> 0]
  /\ bufSrc = [l \in Levels |-> Uninit]
  /\ pc = "idle"
  /\ req = IdleReq
  /\ lvl = Depth - 1
  /\ pt = KernelPgd
  /\ trace = << >>
  /\ ret = NoRet

-----------------------------------------------------------------------------
(* A call that returns without walking.                                   *)
Return(r, out) ==
  /\ ret' = [req |-> r, out |-> out]
  /\ UNCHANGED <<mem, vmReady, lastRead, bufSrc, pc, req, lvl, pt, trace>>

(* switch (machdep->flags & VM_FLAGS): riscv64_vtop_<Depth>level_4k(pgd,  *)
(* vaddr, paddr, verbose) begins at the PGD level.                        *)
StartWalk(r, pgd) ==
  /\ pc' = "walk"
  /\ req' = r
  /\ lvl' = Depth - 1
  /\ pt' = pgd
  /\ trace' = << >>
  /\ ret' = NoRet
  /\ UNCHANGED <<mem, vmReady, lastRead, bufSrc>>

(* riscv64_uvtop: a kernel thread translating a kernel address walks its  *)
(* active_mm's pgd (FATAL when there is none); any other task walks its    *)
(* mm's pgd, and a kernel thread, whose mm_struct pointer is NULL, faults  *)
(* reading the pgd field of it.                                            *)
Uvtop(r) ==
  /\ pc = "idle"
  /\ r.op = "uvtop"
  /\ \/ /\ r.task.kthread /\ IsKvaddr(r.va)
        /\ \/ r.task.pgd = NoPgd /\ Return(r, Fail("fatal"))
           \/ r.task.pgd # NoPgd /\ StartWalk(r, r.task.pgd)
     \/ /\ r.task.kthread /\ ~IsKvaddr(r.va)
        /\ Return(r, Fail("fault"))
     \/ /\ ~r.task.kthread
        /\ StartWalk(r, r.task.pgd)

(* riscv64_kvtop: only kernel addresses; before vm_init, and for a        *)
(* non-vmalloc address when not verbose, the linear map VTOP(); otherwise *)
(* a walk of the kernel's pgd (a verbose call overwrites the VTOP result  *)
(* with the walk's).                                                       *)
Kvtop(r) ==
  /\ pc = "idle"
  /\ r.op = "kvtop"
  /\ \/ ~IsKvaddr(r.va) /\ Return(r, Fail("notkvaddr"))
     \/ IsKvaddr(r.va) /\ ~vmReady /\ Return(r, Phys(Vtop(r.va)))
     \/ /\ IsKvaddr(r.va) /\ vmReady /\ ~IsVmallocAddr(r.va) /\ ~r.verbose
        /\ Return(r, Phys(Vtop(r.va)))
     \/ /\ IsKvaddr(r.va) /\ vmReady /\ (IsVmallocAddr(r.va) \/ r.verbose)
        /\ StartWalk(r, KernelPgd)

(* vm_init() in the host sets vt->vmalloc_start.                          *)
VmInit ==
  /\ pc = "idle"
  /\ ~vmReady
  /\ vmReady' = TRUE
  /\ UNCHANGED <<mem, lastRead, bufSrc, pc, req, lvl, pt, trace, ret>>

-----------------------------------------------------------------------------
(* FILL_PGD(pgd, KVADDR, PAGESIZE()) and FILL_PMD/PUD/P4D/PTBL(PAGEBASE(  *)
(* pt_phys), PHYSADDR, PAGESIZE()): the buffer of the level is reread     *)
(* unless its key equals the table's address; a read that fails aborts   *)
(* before the key is updated.                                             *)
CacheHit == lastRead[lvl] = pt
FillFails == ~CacheHit /\ pt \notin Readable
FillSrc == IF CacheHit THEN bufSrc[lvl] ELSE pt
Fill ==
  /\ ~FillFails
  /\ lastRead' = [lastRead EXCEPT ![lvl] = pt]
  /\ bufSrc' = [bufSrc EXCEPT ![lvl] = FillSrc]

(* ULONG(machdep->pmd + PAGEOFFSET(sizeof(pmd_t) * pmd_index(vaddr))): the *)
(* entries the buffer can yield.  A buffer never filled holds whatever     *)
(* malloc() left there.                                                    *)
Fetched ==
  IF FillSrc = Uninit THEN Entry ELSE {mem[FillSrc][LevelIndex(req.va, lvl)]}

(* The walk ends, the call returns out, and the walk's locals are gone.   *)
Finish(out) ==
  /\ pc' = "idle"
  /\ ret' = [req |-> req, out |-> out]
  /\ req' = IdleReq
  /\ lvl' = Depth - 1
  /\ pt' = KernelPgd
  /\ trace' = << >>

(* Mutation: the key of the level is set before its read fails.         *)
WalkFaultKeyFirst ==
  /\ pc = "walk"
  /\ FillFails
  /\ Finish(Fail("fault"))
  /\ lastRead' = [lastRead EXCEPT ![lvl] = pt]
  /\ UNCHANGED <<mem, vmReady, bufSrc>>

WalkFault ==
  /\ pc = "walk"
  /\ FillFails
  /\ Finish(Fail("fault"))
  /\ UNCHANGED <<mem, vmReady, lastRead, bufSrc>>

(* One level: fill, read the entry, record it in the trace, and then      *)
(* "goto no_page" on a zero entry, descend, or finish at the PTE level.   *)
WalkLevel(Then(_)) ==
  /\ pc = "walk"
  /\ Fill
  /\ \E e \in Fetched : Then(e)
  /\ UNCHANGED <<mem, vmReady>>

NoPage(e) ==
  /\ e = ZeroEntry
  /\ Finish(Fail("invalid"))

(* Mutation: the walk does not stop descending at the PTE level.         *)
DescendNoFloor(e) ==
  /\ e # ZeroEntry
  /\ lvl' = lvl - 1
  /\ pt' = MaskEntry(e).pfn
  /\ trace' = Append(trace, [table |-> pt, idx |-> LevelIndex(req.va, lvl), val |-> e])
  /\ UNCHANGED <<pc, req, ret>>

(* pt_phys = ((val & PTE_PFN_PROT_MASK) >> _PAGE_PFN_SHIFT) << PAGESHIFT() *)
Descend(e) ==
  /\ e # ZeroEntry
  /\ lvl > 0
  /\ lvl' = lvl - 1
  /\ pt' = MaskEntry(e).pfn
  /\ trace' = Append(trace, [table |-> pt, idx |-> LevelIndex(req.va, lvl), val |-> e])
  /\ UNCHANGED <<pc, req, ret>>

(* Mutation: *paddr = PTOB(pte_pfn), the page offset forgotten.         *)
LeafNoOffset(e) ==
  /\ e # ZeroEntry
  /\ lvl = 0
  /\ Finish(IF MaskEntry(e).v
              THEN Phys(MaskEntry(e).pfn * PageSize)
              ELSE Fail("notpresent"))

(* The PTE level: not present unless _PAGE_PRESENT; otherwise *paddr =    *)
(* PTOB(pte_pfn) + PAGEOFFSET(vaddr).                                     *)
Leaf(e) ==
  /\ e # ZeroEntry
  /\ lvl = 0
  /\ Finish(IF MaskEntry(e).v
              THEN Phys(MaskEntry(e).pfn * PageSize + PageOff(req.va))
              ELSE Fail("notpresent"))

WalkInvalid == WalkLevel(NoPage)
WalkDescend == WalkLevel(Descend)
WalkLeaf == WalkLevel(Leaf)

Next ==
  \/ \E r \in Request : Uvtop(r) \/ Kvtop(r)
  \/ VmInit
  \/ WalkFault \/ WalkInvalid \/ WalkDescend \/ WalkLeaf

Spec == Init /\ [][Next]_vars

-----------------------------------------------------------------------------
(* The level buffers are coherent with their keys: the buffer of a level  *)
(* holds the page its last_*_read key names, except for the key 0 the     *)
(* buffers start with, under which nothing has been read.  This is what   *)
(* makes a FILL_* cache hit safe, and it is what a fault between the      *)
(* readmem() of a FILL_* macro and its key update would break.            *)
CacheCoherent ==
  \A l \in Levels :
    \/ bufSrc[l] = lastRead[l]
    \/ lastRead[l] = 0 /\ bufSrc[l] = Uninit

(* Every entry a walk acts on is the entry the dump holds at that place:  *)
(* the cache never makes the walker read a page other than the table the  *)
(* previous level pointed to.                                             *)
WalkReadsImage ==
  \A i \in 1..Len(trace) :
    trace[i].val = mem[trace[i].table][trace[i].idx]

(* The refinement mapping: the image, vm_init and the answers are those of *)
(* Riscv64Translate; the level buffers, their keys and the locals of a     *)
(* walk in progress are hidden.                                            *)
Abs == INSTANCE Riscv64Translate WITH mem <- mem, vmReady <- vmReady, ret <- ret

(* Every call answers what the uncached walk of the spec answers, for    *)
(* every sequence of calls, faults and vm_init included: the caches are   *)
(* invisible.                                                             *)
TranslationMatchesSpec == Abs!Spec
=============================================================================
