----------------------------- MODULE MC_Walker -----------------------------
(***************************************************************************)
(* Model-checking instance of Riscv64Walker: a 3-level walk over tables of *)
(* two entries and pages of two bytes (16 virtual addresses), frames 0..3 *)
(* of which 1 and 2 hold readable tables, 0 is not RAM and 3 was left out *)
(* of the dump.  The layout puts user space at 0..5, vmalloc (and, as     *)
(* before Linux 5.13, modules) at 6..9, vmemmap at 10..11 and the linear  *)
(* map from 12.                                                           *)
(***************************************************************************)
EXTENDS Riscv64Walker

MCLevelSpan == [l \in 0..2 |-> 2 * 2^l]

MCTasks ==
  { [kthread |-> FALSE, pgd |-> 1],     \* a user task
    [kthread |-> TRUE,  pgd |-> 2],     \* a kernel thread borrowing an mm
    [kthread |-> TRUE,  pgd |-> NoPgd] }  \* a kernel thread with no active_mm

(* Entries of a well-formed kernel page table: zero, or naming a frame    *)
(* other than 0 (physical page 0 is not RAM on RISC-V 64 platforms).      *)
WellFormedEntries ==
  { ZeroEntry,
    [hi |-> FALSE, pfn |-> 1, v |-> TRUE],
    [hi |-> FALSE, pfn |-> 2, v |-> TRUE],
    [hi |-> FALSE, pfn |-> 3, v |-> FALSE] }

(* An entry whose only set bits lie above the PFN field (PBMT or N set,  *)
(* all else clear).                                                       *)
HighBitsOnly == [hi |-> TRUE, pfn |-> 0, v |-> FALSE]

(* A valid entry naming physical frame 0.                                 *)
ValidPfnZero == [hi |-> FALSE, pfn |-> 0, v |-> TRUE]

ZeroTable == [i \in Idx |-> ZeroEntry]

ImagesOver(E) ==
  { [f \in Frames |-> IF f \in Readable THEN tb[f] ELSE ZeroTable] :
      tb \in [Readable -> [Idx -> E]] }

WellFormedImages == ImagesOver(WellFormedEntries)

(* Well-formed tables with entry o at one place of frame 1.               *)
ImagesWith(o) ==
  { [im EXCEPT ![1][i] = o] : im \in WellFormedImages, i \in Idx }

HighBitsImages == ImagesWith(HighBitsOnly)
PfnZeroImages == ImagesWith(ValidPfnZero)
=============================================================================
