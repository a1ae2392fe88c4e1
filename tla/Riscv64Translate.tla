-------------------------- MODULE Riscv64Translate --------------------------
(***************************************************************************)
(* What the translation entry points promise (spec 4.3, 6): every call     *)
(* answers at once, as a function of the dump image, of whether the       *)
(* vmalloc layout is known yet, and of the request.  A walk is the         *)
(* uncached algorithm of 4.3: at each level read the entry of the table,   *)
(* mask it, stop as "invalid" on a zero value, follow the frame field, and *)
(* at the PTE level stop as "notpresent" unless the present bit is set.   *)
(* A table that cannot be read makes the call fault.                      *)
(*                                                                         *)
(* There are no caches here: Riscv64Walker implements this specification  *)
(* with its per-level page buffers hidden.                                *)
(***************************************************************************)
EXTENDS Riscv64Paging

CONSTANTS Images, Tasks, KernelPgd, Request, NoPgd, NoRet

VARIABLES mem, vmReady, ret

Phys(pa) == [kind |-> "phys", pa |-> pa]
Fail(k) == [kind |-> k]

(* A walk in progress: the frame of the table it reads next, and no      *)
(* answer yet.                                                            *)
Going == [kind |-> "going"]
Begin(root) == [t |-> root, out |-> Going]

(* Level l of the walk of 4.3 applied to walk s, when l is at most top:   *)
(* read the entry of the table, mask it, stop as "invalid" on a zero      *)
(* value, follow the frame field above the PTE level, and at the PTE      *)
(* level stop as "notpresent" unless the present bit is set.  A table     *)
(* that cannot be read makes the walk fault.  A walk that has answered,   *)
(* or a level above top, is left as it is.                                *)
SpecLevel(m, va, top, l, s) ==
  IF l > top \/ s.out # Going THEN s
  ELSE IF s.t \notin Readable THEN [s EXCEPT !.out = Fail("fault")]
  ELSE LET e == MaskEntry(m[s.t][LevelIndex(va, l)]) IN
       IF e = ZeroEntry THEN [s EXCEPT !.out = Fail("invalid")]
       ELSE IF l > 0 THEN [s EXCEPT !.t = e.pfn]
       ELSE IF e.v THEN [s EXCEPT !.out = Phys(e.pfn * PageSize + PageOff(va))]
       ELSE [s EXCEPT !.out = Fail("notpresent")]

(* Levels top down to 0 applied in turn (a walk has at most 5 levels).    *)
RunFrom(m, va, top, s) ==
  SpecLevel(m, va, top, 0, SpecLevel(m, va, top, 1, SpecLevel(m, va, top, 2,
    SpecLevel(m, va, top, 3, SpecLevel(m, va, top, 4, s)))))

(* The walk of 4.3 from the table in frame root, level Depth-1 down to 0. *)
SpecWalk(m, root, va) == RunFrom(m, va, Depth - 1, Begin(root)).out

(* translate_user: the page table of the task, or of its active mm for a  *)
(* kernel thread asked about a kernel address.                            *)
UserAnswer(m, r) ==
  IF r.task.kthread
    THEN IF ~IsKvaddr(r.va) THEN Fail("fault")
         ELSE IF r.task.pgd = NoPgd THEN Fail("fatal")
         ELSE SpecWalk(m, r.task.pgd, r.va)
    ELSE SpecWalk(m, r.task.pgd, r.va)

(* translate_kernel: the linear map outside vmalloc space, the kernel's   *)
(* page table inside it or when the caller asks for the walk.             *)
KernelAnswer(m, ready, r) ==
  IF ~IsKvaddr(r.va) THEN Fail("notkvaddr")
  ELSE IF ~ready \/ (~IsVmallocAddr(r.va) /\ ~r.verbose) THEN Phys(Vtop(r.va))
  ELSE SpecWalk(m, KernelPgd, r.va)

Answer(m, ready, r) ==
  IF r.op = "uvtop" THEN UserAnswer(m, r) ELSE KernelAnswer(m, ready, r)

Init ==
  /\ mem \in Images
  /\ vmReady = FALSE
  /\ ret = NoRet

(* A call answers: ret' names the request and the answer it gets.         *)
Call ==
  /\ DOMAIN ret' = {"req", "out"}
  /\ ret'.req \in Request
  /\ ret'.out = Answer(mem, vmReady, ret'.req)
  /\ UNCHANGED <<mem, vmReady>>

(* A call that takes time has begun: the previous answer is consumed.     *)
Forget ==
  /\ ret' = NoRet
  /\ UNCHANGED <<mem, vmReady>>

LayoutKnown ==
  /\ ~vmReady
  /\ vmReady' = TRUE
  /\ UNCHANGED <<mem, ret>>

Next == Call \/ Forget \/ LayoutKnown

Spec == Init /\ [][Next]_<<mem, vmReady, ret>>
=============================================================================
