------------------------- MODULE Riscv64LayoutProofs -------------------------
(***************************************************************************)
(* Proofs about Riscv64Layout for every set of dumps and page sizes        *)
(* LayoutInputAssumption allows, whose vmcoreinfo holds OSRELEASE and,     *)
(* from 5.17 on, VA_BITS.                                                  *)
(***************************************************************************)
EXTENDS Riscv64Layout, TLAPS

USE LayoutInputAssumption

(* The keys the version-dependent choices of riscv64_init rely on.        *)
WellFormed(d) ==
  /\ "OSRELEASE" \in d.keys
  /\ d.kernel.version >= 517 => "VA_BITS" \in d.keys

(* The inductive invariant: after the first version query kver is the     *)
(* kernel's version, and every field a finished step wrote is the         *)
(* kernel's own.                                                          *)
IInv ==
  /\ TypeOK
  /\ dump \in Dumps
  /\ kver = IF phase = "physbase" THEN 0 ELSE dump.kernel.version
  /\ phase \in {"pagesize", "vabits", "varange", "postgdb", "done"} =>
       (dump.kernel.version >= 514 => physBase = dump.kernel.physBase)
  /\ phase \in {"varange", "postgdb", "done"} => vaBits = dump.kernel.vaBits
  /\ phase \in {"postgdb", "done"} => layout = dump.kernel.layout
  /\ phase = "done" => depth = DepthOf(vaBits)

(* The inductive invariant of the mandatory ranges, whatever vmcoreinfo  *)
(* lacks: past the range read, the six ranges other than the modules pair *)
(* are the kernel's.                                                      *)
RangeInv ==
  /\ TypeOK
  /\ dump \in Dumps
  /\ phase \in {"postgdb", "done"} =>
       \A k \in RangeKeys \ ModuleKeys : layout[k] = dump.kernel.layout[k]

LEMMA InitIInv == Init => IInv
<1> SUFFICES ASSUME Init PROVE IInv
  OBVIOUS
<1>1. layout \in [RangeKeys -> Nat]
  BY DEF Init
<1>. QED
  BY <1>1 DEF Init, IInv, TypeOK, Dump

(* Before 5.13 the vmalloc-derived modules range is the kernel's.         *)
LEMMA ReadRangesExact ==
  ASSUME NEW d \in Dumps, d = dump
  PROVE  ReadRanges(dump.kernel.version < 513) = dump.kernel.layout
<1>1. dump.kernel.layout \in [RangeKeys -> Nat]
  BY DEF Dump, Kernel
<1>. QED
  BY <1>1 DEF ReadRanges

LEMMA NextIInv ==
  ASSUME \A d \in Dumps : WellFormed(d)
  PROVE  IInv /\ [Next]_vars => IInv'
<1> SUFFICES ASSUME IInv, [Next]_vars PROVE IInv'
  OBVIOUS
<1> USE DEF IInv, TypeOK
<1>0. /\ dump.kernel \in Kernel
      /\ WellFormed(dump)
  BY DEF Dump
<1>1. CASE GetPhysRamBase
  <2>1. KernelVersion = dump.kernel.version
    BY <1>0, <1>1 DEF GetPhysRamBase, KernelVersion, WellFormed
  <2>2. /\ phase = "physbase" /\ kver' = dump.kernel.version
        /\ UNCHANGED <<dump, pagesize, spsKnown, vaBits, layout, depth>>
    BY <1>1, <2>1 DEF GetPhysRamBase
  <2>3. CASE dump.kernel.version >= 514 /\ "phys_ram_base" \in dump.keys
    <3>1. physBase' = dump.kernel.physBase /\ phase' = "pagesize"
      BY <1>0, <1>1, <2>1, <2>3 DEF GetPhysRamBase, Kernel
    <3>. QED
      BY <1>0, <2>2, <3>1 DEF Kernel
  <2>4. CASE dump.kernel.version >= 514 /\ "phys_ram_base" \notin dump.keys
    <3>1. physBase' = physBase /\ phase' = "fatal"
      BY <1>0, <1>1, <2>1, <2>4 DEF GetPhysRamBase, Kernel
    <3>. QED
      BY <1>0, <2>2, <3>1 DEF Kernel
  <2>5. CASE dump.kernel.version < 514
    <3>1. physBase' = PhysDefault /\ phase' = "pagesize"
      BY <1>0, <1>1, <2>1, <2>5 DEF GetPhysRamBase, Kernel
    <3>. QED
      BY <1>0, <2>2, <2>5, <3>1 DEF Kernel
  <2>. QED
    BY <1>0, <2>3, <2>4, <2>5 DEF Kernel
<1>2. CASE GetStructPageSize
  BY <1>2 DEF GetStructPageSize, Step
<1>3. CASE GetVaBits
  <2>1. KernelVersion = dump.kernel.version
    BY <1>3 DEF GetVaBits, Step, KernelVersion
  <2>. QED
    BY <1>0, <1>3, <2>1 DEF GetVaBits, Step, WellFormed, Kernel
<1>4. CASE GetVaRange
  <2>1. KernelVersion = dump.kernel.version
    BY <1>4 DEF GetVaRange, KernelVersion
  <2>2. NeededKeys(KernelVersion < 513) \subseteq dump.keys =>
          layout' = dump.kernel.layout
    BY <1>4, <2>1, ReadRangesExact DEF GetVaRange
  <2>. QED
    BY <1>0, <1>4, <2>1, <2>2 DEF GetVaRange, Kernel
<1>5. CASE PageTypeInit
  BY <1>5 DEF PageTypeInit, DepthOf
<1>6. CASE UNCHANGED vars
  BY <1>6 DEF vars
<1>. QED
  BY <1>1, <1>2, <1>3, <1>4, <1>5, <1>6 DEF Next

(* On a dump whose vmcoreinfo holds OSRELEASE and, from 5.17 on, VA_BITS, *)
(* riscv64_page_type_init selects the paging depth of the dumped kernel.  *)
THEOREM DepthCorrect ==
  ASSUME \A d \in Dumps : WellFormed(d)
  PROVE  Spec => []DepthMatchesKernel
<1>1. IInv => DepthMatchesKernel
  BY DEF IInv, DepthMatchesKernel
<1>. QED
  BY InitIInv, NextIInv, <1>1, PTL DEF Spec

(* On such a dump a completed resolution holds the kernel's layout,       *)
(* modules range included, and from 5.14 on its phys_ram_base.            *)
THEOREM LayoutCorrect ==
  ASSUME \A d \in Dumps : WellFormed(d)
  PROVE  Spec => []LayoutMatchesKernel
<1>1. IInv => LayoutMatchesKernel
  BY DEF IInv, LayoutMatchesKernel
<1>. QED
  BY InitIInv, NextIInv, <1>1, PTL DEF Spec

-----------------------------------------------------------------------------
(* Whatever keys are missing, a range read gives well-typed ranges, the   *)
(* six mandatory ones the kernel's own.                                   *)
LEMMA ReadRangesMandatory ==
  ASSUME dump \in Dump, NEW old \in BOOLEAN
  PROVE  /\ ReadRanges(old) \in [RangeKeys -> Nat]
         /\ \A k \in RangeKeys \ ModuleKeys : ReadRanges(old)[k] = dump.kernel.layout[k]
<1>1. dump.kernel.layout \in [RangeKeys -> Nat]
  BY DEF Dump, Kernel
<1>. QED
  BY <1>1 DEF ReadRanges, RangeKeys, ModuleKeys

LEMMA InitRangeInv == Init => RangeInv
<1> SUFFICES ASSUME Init PROVE RangeInv
  OBVIOUS
<1>1. layout \in [RangeKeys -> Nat]
  BY DEF Init
<1>. QED
  BY <1>1 DEF Init, RangeInv, TypeOK, Dump

LEMMA NextRangeInv == RangeInv /\ [Next]_vars => RangeInv'
<1> SUFFICES ASSUME RangeInv, [Next]_vars PROVE RangeInv'
  OBVIOUS
<1> USE DEF RangeInv, TypeOK
<1>0. dump \in Dump /\ dump.kernel \in Kernel
  BY DEF Dump
<1>1. CASE GetPhysRamBase
  <2>1. KernelVersion \in Nat
    BY <1>0 DEF KernelVersion, Kernel
  <2>2. phase' \in {"pagesize", "fatal"} /\ physBase' \in Nat
    BY <1>0, <1>1 DEF GetPhysRamBase, Kernel
  <2>. QED
    BY <1>1, <2>1, <2>2 DEF GetPhysRamBase
<1>2. CASE GetStructPageSize
  BY <1>2 DEF GetStructPageSize, Step
<1>3. CASE GetVaBits
  <2>1. KernelVersion \in Nat
    BY <1>0 DEF KernelVersion, Kernel
  <2>2. vaBits' \in {0, 39, 48, 57}
    BY <1>0, <1>3 DEF GetVaBits, Kernel
  <2>. QED
    BY <1>3, <2>1, <2>2 DEF GetVaBits, Step
<1>4. CASE GetVaRange
  <2>1. KernelVersion \in Nat
    BY <1>0 DEF KernelVersion, Kernel
  <2>2. (KernelVersion < 513) \in BOOLEAN
    BY <2>1
  <2>3. CASE NeededKeys(KernelVersion < 513) \subseteq dump.keys
    <3>1. layout' = ReadRanges(KernelVersion < 513) /\ phase' = "postgdb"
      BY <1>4, <2>3 DEF GetVaRange
    <3>2. /\ ReadRanges(KernelVersion < 513) \in [RangeKeys -> Nat]
          /\ \A k \in RangeKeys \ ModuleKeys :
               ReadRanges(KernelVersion < 513)[k] = dump.kernel.layout[k]
      BY <1>0, <2>2, ReadRangesMandatory
    <3>. QED
      BY <1>4, <2>1, <3>1, <3>2 DEF GetVaRange
  <2>4. CASE ~(NeededKeys(KernelVersion < 513) \subseteq dump.keys)
    BY <1>4, <2>1, <2>4 DEF GetVaRange
  <2>. QED
    BY <2>3, <2>4
<1>5. CASE PageTypeInit
  BY <1>5 DEF PageTypeInit, DepthOf
<1>6. CASE UNCHANGED vars
  BY <1>6 DEF vars
<1>. QED
  BY <1>1, <1>2, <1>3, <1>4, <1>5, <1>6 DEF Next

(* Whatever vmcoreinfo lacks, a resolution that gets through POST_GDB    *)
(* holds the kernel's six mandatory ranges: riscv64_get_va_range never    *)
(* leaves a missing one as a zero in machine_specific.                    *)
THEOREM RangesExact == Spec => []MandatoryRangesExact
<1>1. RangeInv => MandatoryRangesExact
  BY DEF RangeInv, MandatoryRangesExact
<1>. QED
  BY InitRangeInv, NextRangeInv, <1>1, PTL DEF Spec

(* Every reachable state of riscv64_init's layout resolution is typed,   *)
(* whatever keys vmcoreinfo lacks.                                        *)
THEOREM TypeCorrect == Spec => []TypeOK
<1>1. RangeInv => TypeOK
  BY DEF RangeInv
<1>. QED
  BY InitRangeInv, NextRangeInv, <1>1, PTL DEF Spec
=============================================================================
