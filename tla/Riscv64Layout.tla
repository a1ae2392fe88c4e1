--------------------------- MODULE Riscv64Layout ---------------------------
(***************************************************************************)
(* The layout resolver: what riscv64_init does at PRE_GDB before it sets  *)
(* up the walker (riscv64_get_phys_ram_base, riscv64_get_struct_page_size, *)
(* riscv64_get_va_bits, riscv64_get_va_range, each asking                  *)
(* riscv64_get_kernel_version) and at POST_GDB (riscv64_page_type_init),  *)
(* which fixes the depth of every later walk.                             *)
(*                                                                         *)
(* The dumped kernel is a record of what it really is; vmcoreinfo holds    *)
(* the kernel's own values under the keys it exports.  A kernel version is *)
(* written major * 100 + minor, so LINUX(5,14,0) is 514.                  *)
(***************************************************************************)
EXTENDS Integers

CONSTANTS
  Dumps,        \* the dumps: the kernel each comes from and its vmcoreinfo keys
  PageSizes,    \* what PAGESIZE() can be at POST_GDB
  PhysDefault   \* the 0x200000 phys_base guessed for old kernels

(* The keys riscv64_get_va_range reads.                                    *)
RangeKeys == {"PAGE_OFFSET", "VMALLOC_START", "VMALLOC_END", "VMEMMAP_START",
              "VMEMMAP_END", "KERNEL_LINK_ADDR", "MODULES_VADDR", "MODULES_END"}
ModuleKeys == {"MODULES_VADDR", "MODULES_END"}

(* Every vmcoreinfo key this file reads.                                  *)
Keys == RangeKeys \cup {"OSRELEASE", "phys_ram_base", "VA_BITS", "SIZE(page)"}

(* What the dumped kernel really is.                                      *)
Kernel == [version : Nat, vaBits : {39, 48, 57}, physBase : Nat,
           layout : [RangeKeys -> Nat]]

(* A dump: its kernel and the keys its vmcoreinfo holds; a key present    *)
(* holds the kernel's own value.                                          *)
Dump == [kernel : Kernel, keys : SUBSET Keys]

(* Before 5.17 the kernel has only Sv39; before 5.13 modules live in the  *)
(* vmalloc range.                                                         *)
ASSUME LayoutInputAssumption ==
  /\ Dumps \subseteq Dump /\ Dumps # {}
  /\ PageSizes \subseteq Nat /\ PageSizes # {}
  /\ PhysDefault \in Nat
  /\ \A d \in Dumps :
       /\ d.kernel.version > 0
       /\ d.kernel.version < 517 => d.kernel.vaBits = 39
       /\ d.kernel.version < 513 =>
            /\ d.kernel.layout["MODULES_VADDR"] = d.kernel.layout["VMALLOC_START"]
            /\ d.kernel.layout["MODULES_END"] = d.kernel.layout["VMALLOC_END"]

PageSize4K == 4096

VARIABLES
  dump,      \* the dump being opened
  pagesize,  \* machdep->pagesize, from memory_page_size()
  phase,     \* the next step of riscv64_init, "done" or "fatal"
  kver,      \* kt->kernel_version (THIS_KERNEL_VERSION)
  physBase,  \* ms->phys_base
  spsKnown,  \* ms->struct_page_size was read
  vaBits,    \* ms->va_bits
  layout,    \* the range fields of machine_specific
  depth      \* machdep->flags & VM_FLAGS: 3, 4, 5, or 0 before POST_GDB

vars == <<dump, pagesize, phase, kver, physBase, spsKnown, vaBits, layout, depth>>

TypeOK ==
  /\ dump \in Dump
  /\ pagesize \in Nat
  /\ phase \in {"physbase", "pagesize", "vabits", "varange", "postgdb", "done", "fatal"}
  /\ kver \in Nat
  /\ physBase \in Nat
  /\ spsKnown \in BOOLEAN
  /\ vaBits \in {0, 39, 48, 57}
  /\ layout \in [RangeKeys -> Nat]
  /\ depth \in {0, 3, 4, 5}

(* PRE_GDB begins: the static riscv64_machine_specific is all zeros and   *)
(* the version is not known yet.                                          *)
Init ==
  /\ dump \in Dumps
  /\ pagesize \in PageSizes
  /\ phase = "physbase"
  /\ kver = 0
  /\ physBase = 0
  /\ spsKnown = FALSE
  /\ vaBits = 0
  /\ layout = [k \in RangeKeys |-> 0]
  /\ depth = 0

-----------------------------------------------------------------------------
(* riscv64_get_kernel_version: the cached version, else the one parsed     *)
(* from OSRELEASE, else 0.                                                 *)
KernelVersion ==
  IF kver # 0 THEN kver ELSE IF "OSRELEASE" \in dump.keys THEN dump.kernel.version ELSE 0

Step(from, to) == phase = from /\ phase' = to

(* riscv64_get_phys_ram_base: FATAL without phys_ram_base from 5.14 on.   *)
GetPhysRamBase ==
  /\ phase = "physbase"
  /\ kver' = KernelVersion
  /\ \/ KernelVersion >= 514 /\ "phys_ram_base" \in dump.keys
        /\ physBase' = dump.kernel.physBase /\ phase' = "pagesize"
     \/ KernelVersion >= 514 /\ "phys_ram_base" \notin dump.keys
        /\ phase' = "fatal" /\ UNCHANGED physBase
     \/ KernelVersion < 514
        /\ physBase' = PhysDefault /\ phase' = "pagesize"
  /\ UNCHANGED <<dump, pagesize, spsKnown, vaBits, layout, depth>>

GetStructPageSize ==
  /\ Step("pagesize", "vabits")
  /\ spsKnown' = ("SIZE(page)" \in dump.keys)
  /\ UNCHANGED <<dump, pagesize, kver, physBase, vaBits, layout, depth>>

(* Mutation: VA_BITS read only after 5.17.                                *)
GetVaBitsAfter ==
  /\ Step("vabits", "varange")
  /\ kver' = KernelVersion
  /\ \/ KernelVersion > 517 /\ "VA_BITS" \in dump.keys /\ vaBits' = dump.kernel.vaBits
     \/ KernelVersion > 517 /\ "VA_BITS" \notin dump.keys /\ UNCHANGED vaBits
     \/ KernelVersion <= 517 /\ vaBits' = 39
  /\ UNCHANGED <<dump, pagesize, physBase, spsKnown, layout, depth>>

(* riscv64_get_va_bits: NUMBER(VA_BITS) from 5.17 on, left as it was when *)
(* the key is missing; 39 before.                                          *)
GetVaBits ==
  /\ Step("vabits", "varange")
  /\ kver' = KernelVersion
  /\ \/ KernelVersion >= 517 /\ "VA_BITS" \in dump.keys /\ vaBits' = dump.kernel.vaBits
     \/ KernelVersion >= 517 /\ "VA_BITS" \notin dump.keys /\ UNCHANGED vaBits
     \/ KernelVersion < 517 /\ vaBits' = 39
  /\ UNCHANGED <<dump, pagesize, physBase, spsKnown, layout, depth>>

(* The ranges the keys present give, modules following vmalloc before    *)
(* 5.13 (old is the version test's answer).                               *)
ReadRanges(old) ==
  [k \in RangeKeys |->
     IF old /\ k = "MODULES_VADDR" THEN dump.kernel.layout["VMALLOC_START"]
     ELSE IF old /\ k = "MODULES_END" THEN dump.kernel.layout["VMALLOC_END"]
     ELSE dump.kernel.layout[k]]

(* The keys riscv64_get_va_range needs: all, the modules pair only from   *)
(* 5.13 on.                                                               *)
NeededKeys(old) == IF old THEN RangeKeys \ ModuleKeys ELSE RangeKeys

(* Mutation: the modules range is read only from 5.14 on.                 *)
GetVaRangeLate ==
  /\ phase = "varange"
  /\ kver' = KernelVersion
  /\ \/ NeededKeys(KernelVersion < 514) \subseteq dump.keys
        /\ layout' = ReadRanges(KernelVersion < 514) /\ phase' = "postgdb"
     \/ ~(NeededKeys(KernelVersion < 514) \subseteq dump.keys)
        /\ phase' = "fatal" /\ UNCHANGED layout
  /\ UNCHANGED <<dump, pagesize, physBase, spsKnown, vaBits, depth>>

(* Mutation: a missing KERNEL_LINK_ADDR does not goto error.             *)
GetVaRangeLinkOptional ==
  /\ phase = "varange"
  /\ kver' = KernelVersion
  /\ \/ NeededKeys(KernelVersion < 513) \ {"KERNEL_LINK_ADDR"} \subseteq dump.keys
        /\ layout' = [ReadRanges(KernelVersion < 513) EXCEPT !["KERNEL_LINK_ADDR"] =
                        IF "KERNEL_LINK_ADDR" \in dump.keys THEN @
                        ELSE layout["KERNEL_LINK_ADDR"]]
        /\ phase' = "postgdb"
     \/ ~(NeededKeys(KernelVersion < 513) \ {"KERNEL_LINK_ADDR"} \subseteq dump.keys)
        /\ phase' = "fatal" /\ UNCHANGED layout
  /\ UNCHANGED <<dump, pagesize, physBase, spsKnown, vaBits, depth>>

(* riscv64_get_va_range: any missing key is "cannot get vm layout".       *)
GetVaRange ==
  /\ phase = "varange"
  /\ kver' = KernelVersion
  /\ \/ NeededKeys(KernelVersion < 513) \subseteq dump.keys
        /\ layout' = ReadRanges(KernelVersion < 513) /\ phase' = "postgdb"
     \/ ~(NeededKeys(KernelVersion < 513) \subseteq dump.keys)
        /\ phase' = "fatal" /\ UNCHANGED layout
  /\ UNCHANGED <<dump, pagesize, physBase, spsKnown, vaBits, depth>>

(* The VM_L*_4K flag page_type_init derives from va_bits.                 *)
DepthOf(b) == IF b = 57 THEN 5 ELSE IF b = 48 THEN 4 ELSE 3

(* riscv64_page_type_init: only 4KiB pages are supported.                 *)
PageTypeInit ==
  /\ phase = "postgdb"
  /\ \/ pagesize = PageSize4K /\ depth' = DepthOf(vaBits) /\ phase' = "done"
     \/ pagesize # PageSize4K /\ phase' = "fatal" /\ UNCHANGED depth
  /\ UNCHANGED <<dump, pagesize, kver, physBase, spsKnown, vaBits, layout>>

Next ==
  \/ GetPhysRamBase \/ GetStructPageSize \/ GetVaBits \/ GetVaRange
  \/ PageTypeInit

Spec == Init /\ [][Next]_vars

-----------------------------------------------------------------------------
(* Once riscv64_init has got through POST_GDB, the walk depth it chose is *)
(* the paging mode of the dumped kernel: the version gates, the VA_BITS   *)
(* read and page_type_init's mapping agree.                               *)
DepthMatchesKernel ==
  phase = "done" => depth = DepthOf(dump.kernel.vaBits)

(* Whatever vmcoreinfo lacks, a resolution that gets through POST_GDB    *)
(* holds the kernel's own six mandatory ranges: a missing one is fatal in *)
(* riscv64_get_va_range, never a zero left in machine_specific.           *)
MandatoryRangesExact ==
  phase = "done" =>
    \A k \in RangeKeys \ ModuleKeys : layout[k] = dump.kernel.layout[k]

(* Once resolution succeeds, every range the classifier and kvtop use is  *)
(* the kernel's (modules included, read or derived by version), and from  *)
(* 5.14 on so is phys_base.                                               *)
LayoutMatchesKernel ==
  phase = "done" =>
    /\ layout = dump.kernel.layout
    /\ dump.kernel.version >= 514 => physBase = dump.kernel.physBase
=============================================================================
