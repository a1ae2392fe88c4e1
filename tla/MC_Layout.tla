------------------------------ MODULE MC_Layout ------------------------------
(***************************************************************************)
(* Model-checking instance of Riscv64Layout: kernels on both sides of each *)
(* version threshold of the code (5.13, 5.14, 5.17), every paging mode     *)
(* from 5.17 on, and vmcoreinfo holding what the kernel exports minus at   *)
(* most one key.                                                           *)
(***************************************************************************)
EXTENDS Riscv64Layout

MCVersions == {512, 513, 514, 517}

(* Range values: vmalloc 1..2, modules 3..4 after the split, the other    *)
(* ranges 5..8.                                                            *)
MCLayout(v) ==
  [k \in RangeKeys |->
     CASE k = "VMALLOC_START" -> 1 [] k = "VMALLOC_END" -> 2
       [] k = "MODULES_VADDR" -> IF v < 513 THEN 1 ELSE 3
       [] k = "MODULES_END" -> IF v < 513 THEN 2 ELSE 4
       [] k = "PAGE_OFFSET" -> 5 [] k = "VMEMMAP_START" -> 6
       [] k = "VMEMMAP_END" -> 7 [] k = "KERNEL_LINK_ADDR" -> 8]

MCKernels ==
  UNION {{[version |-> v, vaBits |-> b, physBase |-> 16, layout |-> MCLayout(v)] :
            b \in IF v < 517 THEN {39} ELSE {39, 48, 57}} : v \in MCVersions}

(* The keys a kernel of each version writes into vmcoreinfo, after the    *)
(* version comments of riscv64_get_phys_ram_base, _va_bits, _va_range.    *)
MCExports(k) ==
  {"OSRELEASE", "SIZE(page)"} \cup (RangeKeys \ ModuleKeys)
  \cup (IF k.version >= 513 THEN ModuleKeys ELSE {})
  \cup (IF k.version >= 514 THEN {"phys_ram_base"} ELSE {})
  \cup (IF k.version >= 517 THEN {"VA_BITS"} ELSE {})

(* Well-formed dumps: any one key but OSRELEASE and VA_BITS may be lost.  *)
MCDumps ==
  {[kernel |-> k, keys |-> MCExports(k) \ l] :
     k \in MCKernels, l \in {{}} \cup {{x} : x \in Keys \ {"OSRELEASE", "VA_BITS"}}}

(* Any one key may be lost.                                               *)
MCAnyDumps ==
  {[kernel |-> k, keys |-> MCExports(k) \ l] :
     k \in MCKernels, l \in {{}} \cup {{x} : x \in Keys}}
=============================================================================
