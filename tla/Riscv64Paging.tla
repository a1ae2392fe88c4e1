--------------------------- MODULE Riscv64Paging ---------------------------
(***************************************************************************)
(* The data of RISC-V 64 4KiB paging as riscv64.c uses it: the paging      *)
(* depth, the geometry of a virtual address (one index per level and a     *)
(* page offset), the page-table entry and the mask applied to it, and the  *)
(* address classifier built from the kernel's virtual layout.              *)
(*                                                                         *)
(* Sizes are scaled down: a table holds PtrsPerTable entries (512 in the   *)
(* code), a page PageSize bytes (4096 in the code).  LevelSpan[l] is the   *)
(* number of bytes one entry at level l maps (PAGE_SIZE, PMD_SIZE,         *)
(* PUD_SIZE, ...); level 0 is the PTE level and Depth-1 the PGD level.     *)
(*                                                                         *)
(* A physical address is a frame number times PageSize plus an offset; a   *)
(* table is named by its frame.  An entry is abstracted to the three parts *)
(* the walker tells apart: the PFN field, the present bit V, and whether   *)
(* any bit outside PTE_PFN_PROT_MASK (bits 54..63: PBMT, N) is set.        *)
(***************************************************************************)
EXTENDS Integers

CONSTANTS
  Depth,         \* levels of the walk: 3 (VM_L3_4K), 4 (VM_L4_4K), 5 (VM_L5_4K)
  PtrsPerTable,  \* entries in one table page (PTRS_PER_PGD, ..., 512)
  PageSize,      \* PAGESIZE()
  LevelSpan,     \* LevelSpan[l]: bytes mapped by one entry of level l
  MaxPfn,        \* physical frames are 0..MaxPfn
  Readable,      \* frames the memory reader returns without error
  PageOffset,    \* machspec->page_offset = machdep->kvbase
  VmallocStart, VmallocEnd,
  VmemmapStart, VmemmapEnd,
  ModulesStart, ModulesEnd,
  PhysBase       \* machspec->phys_base

Levels == 0..(Depth - 1)
Frames == 0..MaxPfn
Idx == 0..(PtrsPerTable - 1)

ASSUME DepthAssumption == Depth \in {3, 4, 5}
ASSUME GeometryAssumption ==
  /\ PtrsPerTable \in Nat \ {0, 1}
  /\ PageSize \in Nat \ {0}
  /\ LevelSpan \in [Levels -> Nat \ {0}]
  /\ LevelSpan[0] = PageSize
  /\ \A l \in Levels \ {0} : LevelSpan[l] = LevelSpan[l - 1] * PtrsPerTable
ASSUME FrameAssumption ==
  /\ MaxPfn \in Nat \ {0}
  /\ Readable \subseteq Frames
ASSUME LayoutAssumption ==
  {PageOffset, VmallocStart, VmallocEnd, VmemmapStart, VmemmapEnd,
   ModulesStart, ModulesEnd, PhysBase} \subseteq Nat

(* The virtual addresses a walk of this depth distinguishes.               *)
VAddrs == 0..(LevelSpan[Depth - 1] * PtrsPerTable - 1)

(* pgd_index_l3_4k, pmd_index_l4_4k, pte_index_l5_4k, ...: the bits of    *)
(* va that index the table of level l.  The 5-level walker takes its PMD   *)
(* and PTE indices from the 4-level macros; those select the same bits     *)
(* (PMD_SHIFT and PAGE_SHIFT do not depend on the depth), so one operator  *)
(* stands for both.                                                        *)
LevelIndex(va, l) == (va \div LevelSpan[l]) % PtrsPerTable

(* PAGEOFFSET(vaddr)                                                       *)
PageOff(va) == va % PageSize

(* A raw page-table entry, abstracted.                                     *)
Entry == [hi : BOOLEAN, pfn : Frames, v : BOOLEAN]

(* The all-zero entry: what "if (!pgd_val) goto no_page" tests for.        *)
ZeroEntry == [hi |-> FALSE, pfn |-> 0, v |-> FALSE]

(* val &= PTE_PFN_PROT_MASK: clears the bits above the PFN field.          *)
MaskEntry(e) == [e EXCEPT !.hi = FALSE]

(* The contents of one table page.                                         *)
Table == [Idx -> Entry]

(* riscv64_IS_VMALLOC_ADDR: vmalloc, vmemmap and module space, bounds      *)
(* inclusive.                                                              *)
IsVmallocAddr(va) ==
  \/ VmallocStart <= va /\ va <= VmallocEnd
  \/ VmemmapStart <= va /\ va <= VmemmapEnd
  \/ ModulesStart <= va /\ va <= ModulesEnd

(* riscv64_is_kvaddr                                                       *)
IsKvaddr(va) == IsVmallocAddr(va) \/ va >= PageOffset

(* riscv64_is_uvaddr                                                       *)
IsUvaddr(va) == ~IsVmallocAddr(va) /\ va < PageOffset

(* VTOP(): the linear map from the kernel's low-memory virtual addresses   *)
(* to physical ones.  The code computes it in ulong; a negative value here *)
(* stands for the wrapped-around result of an address below PageOffset.    *)
Vtop(va) == va - PageOffset + PhysBase
=============================================================================
