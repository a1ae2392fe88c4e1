# TLA+ models of crash's RISC-V 64 machine support (`src/riscv64.c`)

`src/riscv64.c` is the architecture layer of the crash dump analyser for
RISC-V 64: it resolves the kernel's virtual layout from vmcoreinfo, installs
the `machdep` callbacks, translates virtual to physical addresses by walking
Sv39/Sv48/Sv57 page tables, formats page-table entries, and recovers the
registers of the crashed CPUs from ELF notes.  All of it runs in one thread;
what makes it hard is not concurrency but the state that survives from one
command to the next (the per-level page caches), reads of the dump that fail
half-way through a command, and the order of the initialisation phases.

## Inventory

| Part | Code | State | Operations | Status |
|---|---|---|---|---|
| Address classifier | `riscv64_is_kvaddr`, `riscv64_is_uvaddr`, `riscv64_IS_VMALLOC_ADDR` (296-338) | none (reads layout) | pure tests | modelled (`Riscv64Paging`) |
| Page-table walker | `riscv64_vtop_{3,4,5}level_4k` (438-661) | `machdep->pgd/pud/pmd/ptbl`, `machspec->p4d` page buffers and their `last_*_read` keys | one FILL/read/test per level; `no_page`, not-present and success exits; an unreadable table aborts the command (`FAULT_ON_ERROR`) | modelled (`Riscv64Walker`) |
| Translation entry points | `riscv64_uvtop`, `riscv64_kvtop` (849-930) | none of their own; read `vt->vmalloc_start` | choice of pgd, early returns, VTOP shortcut, dispatch on depth | modelled (`Riscv64Walker`) |
| Initialisation lifecycle | `riscv64_init` (932-1031) | `machdep` fields, `machspec` | PRE_GDB (layout, buffers, keys = 0), POST_GDB (depth, sizes), POST_VM (crash registers) | partly: each phase's state changes are modelled (`Riscv64Layout`, the walker's `Init`, `Riscv64CrashNotes`), not their composition |
| Layout resolver | 134-294, `riscv64_page_type_init` 403-436 | `machspec` layout fields, `va_bits`, VM flags | version parse, phys base, VA bits, VA ranges, depth selection | modelled (`Riscv64Layout`) |
| Crash register extractor | 663-847, POST_VM 1018-1029 | `panic_task_regs`, `ms->crash_task_regs` | strategy A (crash_notes per cpu, locator fallback, validation) then strategy B (ELF notes) | modelled (`Riscv64CrashNotes`) |
| PTE flag formatter | `riscv64_translate_pte` (344-401) | `*physaddr` | present test, flags printing | not modelled yet (printing) |
| Stubs | `cmd_mach`, `verify_symbol`, `dump_machdep_table`, `processor_speed`, `is_task_addr`, `get_smp_cpus`, display_regs | none | constant answers | not modelled: no state |

Interactions: the layout resolver fixes the classifier's bounds and the walk
depth; the entry points classify an address, pick a pgd and run the walker;
the walker's caches persist across all later commands; the crash register
extractor runs once at POST_VM, after `vm_init`.

## Modules

* `Riscv64Paging` — data shared by the walker and its specification: paging
  depth, geometry (`LevelSpan[l]` = bytes one level-`l` entry maps,
  `LevelIndex`, `PageOff`), the abstract entry `[hi, pfn, v]` (`hi`: a bit
  outside `PTE_PFN_PROT_MASK` is set; `pfn`: the frame field; `v`: the
  present bit), `MaskEntry` (`val &= PTE_PFN_PROT_MASK`), the classifier and
  `Vtop`.  Sizes are scaled down: `PtrsPerTable` entries per table, `PageSize`
  bytes per page.  Exponentiation is replaced by the constant `LevelSpan` with
  an assumption, so that the prover can reason about it.
* `Riscv64Walker` — the implementation.  Variables: `mem` (the dump, one
  table per frame), `vmReady` (`vt->vmalloc_start != 0`), `lastRead[l]` (the
  `last_*_read` keys), `bufSrc[l]` (which frame the level-`l` buffer holds, or
  `Uninit` for the malloc()ed, never-filled buffer), and the locals of the
  call in progress: `pc`, `req`, `lvl`, `pt` (`pt_phys`), `trace` (levels
  visited), `ret`.  Actions: `Uvtop(r)` and `Kvtop(r)` are the entry points
  up to the dispatch; `VmInit` is the host's `vm_init`; a walk is one action
  per level: `WalkFault` (the FILL read fails and the command is aborted:
  the keys of this level stay as they were, the upper levels keep their fresh
  buffers), `WalkInvalid` (zero entry, `goto no_page`), `WalkDescend`
  (mask, follow the frame), `WalkLeaf` (PTE level: present test, `*paddr`).
  The three walkers of the code are one walk of `Depth` levels; the 5-level
  walker's use of the 4-level index macros for PMD and PTE selects the same
  bits, so `LevelIndex` covers it.
* `Riscv64Translate` — what a call promises (spec 4.3, 6): the answer is a
  function of the dump, of `vmReady` and of the request, computed by the
  uncached walk `SpecWalk` (mask, then zero test, frame, present test).  It has
  no caches and no intermediate states.  Its definitions are written from
  spec 4.3, not from the code (they are spec-modelled in the map); the code
  is related to them only through the refinement.  One level of the walk is
  `SpecLevel`; `RunFrom` applies levels 4 down to 0 in turn (a level above the
  top, or after the walk has answered, changes nothing), so that the walk is a
  plain composition the prover can unfold rather than a recursion.
* `Riscv64Walker` also states the refinement
  `TranslationMatchesSpec == Abs!Spec` with `Abs == INSTANCE Riscv64Translate
  WITH mem <- mem, vmReady <- vmReady, ret <- ret`: the level buffers, their
  keys and the walk's locals are hidden.  The walker's
  internal steps are stutters of the abstract spec; `StartWalk` clears `ret`,
  which the abstract spec allows as `Forget`; the last step of a walk is the
  abstract `Call`.
* `Riscv64WalkerProofs` — TLAPS proofs of the walker's invariants.
* `Riscv64WalkerRefinement` — the TLAPS proof that the walker implements
  `Riscv64Translate`.
* `MC_Walker` — instantiates the walker for TLC.
* `Riscv64CrashNotes` — register extraction at POST_VM.  The dump is a
  record (`Dump`): whether `crash_notes` and `__per_cpu_offset` exist, whether
  the base pointer reads, whether the dump has per-cpu note locators
  (diskdump/kdump), and per cpu the note at its per-cpu address and the
  locator's note, each abstracted to `Note`: the cpu it describes,
  `n_namesz == 0`, `n_type == NT_PRSTATUS`, the `CORE` name, and whether its
  size fits `note_buf`.  Without `__per_cpu_offset` only `notes_ptrs[cpus-1]`
  is set (`NoteAddr`): the others stay 0 and fail to read; the raw pointer
  reaches the per-cpu template (`Template`, an unnamed empty note) except on
  a 1-cpu kernel.  Variables: `pc`, the loop index `i`, `slots`
  (`panic_task_regs`), `panicRegs` (none/live/freed), `crashTaskRegs`
  (`ms->crash_task_regs`), `warned`, `rejected`.  Actions: `StartA` (symbol,
  base read, calloc), then per cpu one of `AReadFail`, `ASkip` (no locator
  note: `continue`), `AReject` (type checked on the header `note`, name on
  `buf`: `NoteValid`), `ACopy` (registers from `buf`, which holds the
  locator's note only when its size fit: `BufNow`), and `ADone`; `FailA` is
  the `fail:` path, which frees `panic_task_regs`; `StartB`, `BCpu`, `BDone`
  are `riscv64_get_elf_notes`.
* `Riscv64CrashNotesProofs` — TLAPS proofs.
* `Riscv64Layout` — the layout resolver.  A dump is its kernel (`Kernel`:
  version as major*100+minor, real VA bits, phys_ram_base, ranges) and the
  vmcoreinfo keys it holds; a present key holds the kernel's value.  The
  assumption `LayoutInputAssumption` states what the code's version comments
  rely on: before 5.17 only Sv39, before 5.13 modules inside vmalloc.
  Variables are the `machine_specific` fields written (`physBase`,
  `spsKnown`, `vaBits`, `layout`), `kver` (`kt->kernel_version`, cached by
  the first parse), `depth` (the VM flag) and `phase`, the next call of
  riscv64_init.  One action per function in the order PRE_GDB calls them:
  `GetPhysRamBase`, `GetStructPageSize`, `GetVaBits`, `GetVaRange`, then
  POST_GDB's `PageTypeInit`; every FATAL is the phase `fatal`.
* `Riscv64LayoutProofs` — TLAPS proofs.
* `MC_CrashNotes`, `MC_Layout` — instances for TLC.

## Runs

| Run | cfg | Expect | Checks | Shows |
|---|---|---|---|---|
| walker_refinement | `MC_Walker.cfg` | pass | `TypeOK`, `CacheCoherent`, `TranslationMatchesSpec` | on well-formed tables the cached, aborting walk answers every call as the uncached walk does, across any sequence of calls, faults and `vm_init` |
| walker_highbits | `MC_Walker_highbits.cfg` | violation | `TranslationMatchesSpec` | zero test before masking: an entry with only high bits set is followed to frame 0 |
| walker_pfnzero | `MC_Walker_pfnzero.cfg` | violation | `WalkReadsImage` | key 0 at start: a table in frame 0 is served from the never-filled buffer |
| crash_notes | `MC_CrashNotes.cfg` | pass | `TypeOK`, `RegsFromOwnCpu`, `NoDanglingRegs`, `PublishedRegsFrozen` | whatever the notes, the published array holds each cpu's own registers or zeros, is never a freed block, and is never changed once published (strategy B never runs after A succeeded) |
| crash_reject | `MC_CrashNotes_reject.cfg` | violation | `RejectionFinal` | a note that fails validation does not end extraction: the ELF notes are used instead |
| layout_lossy | `MC_Layout.cfg` | pass | `MandatoryRangesExact` | with any one vmcoreinfo key lost, a completed resolution has the kernel's six mandatory ranges |
| layout_wellformed | `MC_Layout_wellformed.cfg` | pass | `DepthMatchesKernel`, `LayoutMatchesKernel` | with OSRELEASE and (5.17+) VA_BITS present, depth, ranges and phys base are the kernel's |
| layout_vabits | `MC_Layout_vabits.cfg` | violation | `DepthMatchesKernel` | a 5.17+ Sv48/Sv57 dump without VA_BITS is walked with 3 levels |

Bounds: depth 3 (the walk is uniform in depth; the proofs cover 4 and 5),
2 entries per table, page size 2, frames 0..3 of which 1 and 2 are readable
(frame 3 makes a read fail, frame 0 is the one the initial key names), the
kernel pgd in frame 1, tasks: a user task, a kernel thread with an active_mm
and one without.  Entries range over zero, two table/page pointers, and a
not-present pointer to the unreadable frame; each of the two readable tables
takes every combination, so every exit of the walk, a fault at each level,
cache hits and misses at every level and commands after an aborted one all
occur (TLC's coverage reports every action and disjunct taken).  448,768
distinct states, about 90 s.  The violation runs add one image entry each:
an entry with only high bits, or a valid entry naming frame 0.

Crash notes: 2 cpus, so that a cpu other than the last exists (the one the
missing `__per_cpu_offset` leaves at address 0) and a 1-cpu kernel is not the
only case; per-cpu notes are good, the empty template or mistyped; locator
notes are good, misnamed or mis-sized; every flag and every set of unreadable
notes and missing locator notes is taken: 98,772 distinct states.  Layout:
kernels 5.12, 5.13, 5.14 and 5.17 (each side of every threshold) with every
paging mode from 5.17 on, page sizes 4 KiB, 2 MiB and 0, vmcoreinfo holding
what the kernel exports minus at most one key.

Fairness: none is assumed; every property is a safety property.  A crash
session is driven by its user and need not issue any further command.  The
register extraction's two loops are bounded C `for` loops, so its
termination holds by the shape of the code and is not stated; the layout
resolver's FATAL exits end the process.

## Findings

1. The walkers test `!pgd_val` (and the like at every level) on the raw entry
   and mask with `PTE_PFN_PROT_MASK` afterwards (`src/riscv64.c:452`).  An
   entry whose only set bits are above the PFN field is followed to physical
   frame 0 instead of being reported invalid (run walker_highbits).
2. `riscv64_init` sets every `last_*_read` to 0 (lines 968-972) over buffers
   that were never read; a first walk through a table at physical address 0
   hits the cache and reads uninitialised memory (run walker_pfnzero).

3. When a note of strategy A fails validation, `riscv64_get_crash_notes`
   returns FALSE and `riscv64_init_active_task_regs` runs strategy B, which
   publishes registers with no check (`src/riscv64.c:668`); the spec says
   validation failure aborts the extraction and B runs only without the
   `crash_notes` symbol (run crash_reject).
4. A 5.17+ dump whose vmcoreinfo lacks `NUMBER(VA_BITS)` keeps `va_bits` 0
   and is given 3 levels by `page_type_init` (`src/riscv64.c:207`, 422);
   without OSRELEASE the version is 0 and `va_bits` is 39.  The spec does not
   say what a missing VA_BITS means (run layout_vabits).

## Proofs

`Riscv64WalkerProofs` proves, for every value of the constants allowed by the
assumptions `DepthAssumption`, `GeometryAssumption`, `FrameAssumption` and
`WalkerAssumption`:

* `TypeCorrect`: `Spec => []TypeOK`.  TypeOK is inductive; the step proof has
  one case per action, with lemmas for the entries a fill can yield
  (`FetchedType`, including the arbitrary entry of an uninitialised buffer),
  for the index a level reads (`LevelIndexType`), and for the two ways a call
  begins (`ReturnType`, `StartWalkType`).
* `CacheCoherence`: `Spec => []CacheCoherent`.  CacheCoherent is inductive
  given TypeOK (from `TypeCorrect`): only a successful fill changes a key or a
  buffer (`FillCoherent`): on a hit neither changes, on a miss both name the
  table just read; a failing fill changes neither, which is what the
  `FAULT_ON_ERROR` abort before the key update guarantees.

`Riscv64CrashNotesProofs` proves, for every cpu count and set of dumps
allowed by `DumpAssumption` (at least one cpu; a note at cpu `c`'s address
belongs to `c` or to no cpu, and only the first can carry the CORE name; an
`n_namesz == 0` note has no name), `TypeCorrect`, `OwnRegisters`
(`Spec => []RegsFromOwnCpu`) and `NoDangling` (`Spec => []NoDanglingRegs`)
from one inductive invariant `IInv`: the type, every slot holds its own cpu
or zeros, `panic_task_regs` is live while a loop fills it, and
`crash_task_regs` is set only at the end while it is live.  The key lemma,
`CopiedNoteIsOwn`, shows that a note that passes validation describes cpu
`i`: by cases on the locator replacement, on `__per_cpu_offset` and on a
1-cpu kernel (where the raw pointer is cpu 0's note).  The ownership of
slots is needed in the invariant because `RegsFromOwnCpu` speaks only of the
final state.

`Riscv64CrashNotesProofs` also proves the action property `RegsFrozen`
(`Spec => PublishedRegsFrozen`) from the same invariant: once
`crash_task_regs` is set the extraction is at its end, where no action is
enabled, so every later step is a stutter.

`Riscv64WalkerRefinement` proves `Refinement`: under the hypothesis
`TablesWellFormed` (every entry of every image is zero or names a frame
other than 0, as in a running kernel's tables), `Spec =>
TranslationMatchesSpec`, for every depth, geometry, frame set and task set
the assumptions allow.  The runs walker_highbits and walker_pfnzero show that
the hypothesis cannot be dropped.  The proof follows the usual pattern: the
initial state maps to an initial state (`InitRefines`) and every step keeps
the refinement invariant `RInv` and maps to a step or a stutter
(`StepRefines`), given `TypeOK` and `CacheCoherent` from the theorems above.
`RInv` says that the image is one of the images, that every level key other
than 0 names a readable frame, and that during a walk the table `pt` is not
frame 0 and the rest of the spec's walk from `pt` at level `lvl` gives the
spec's answer to the request being served.  The last conjunct is what makes
the walker's intermediate steps invisible; the first two make a cache hit
safe: a key that equals `pt` is not 0, so its buffer holds frame `pt`
(`CacheCoherent`) and `pt` is readable (`FillReads`), and the entry the walker
reads is the spec's.  The step mapping: a call that returns at once is the
abstract `Call`, one that starts a walk is `Forget` (it clears `ret`), a
descent is a stutter (`RunPeel` moves the invariant down one level), and a
fault, a zero entry or the PTE level is `Call` (`RunStopsAt`: once a level
answers, the lower levels change nothing).  `MaskWellFormed` is where the
hypothesis enters: on a well-formed entry masking changes neither the zero
test nor the frame.  TLC checked `RInv` as an invariant on the
walker_refinement instance before it was proved.

`Riscv64LayoutProofs` proves, under `LayoutInputAssumption` alone,
`TypeCorrect` and `RangesExact` (`Spec => []MandatoryRangesExact`), whatever
keys vmcoreinfo lacks.  Their invariant `RangeInv` is the type, the dump, and
that from `postgdb` on the six mandatory ranges are the kernel's: the only
step into `postgdb` is `GetVaRange` with every needed key present, and
`ReadRangesMandatory` shows the ranges it reads are then the kernel's.  TLC
checked `RangeInv` on the layout_lossy instance first.  Under the further
hypothesis that every dump holds OSRELEASE and (5.17+) VA_BITS it proves
`DepthCorrect` (`Spec => []DepthMatchesKernel`) and `LayoutCorrect`
(`Spec => []LayoutMatchesKernel`).  That invariant (`IInv`) records what each
finished phase wrote: after the first call the cached version is the
kernel's, then phys_base, va_bits and the ranges in turn, and at the end the
depth of va_bits.  Lemma `ReadRangesExact` shows the pre-5.13 modules range
derived from vmalloc is the kernel's.

Only model-checked: `WalkReadsImage` (its run is a violation run).  No
property is a liveness property; were one added it would stay with TLC, since
the prover does not handle fairness and `ENABLED`.  The proofs of the walk also
depend on the walk being written without recursion: the provers cannot
unfold a recursive definition for every input, so `RunFrom` is a fixed
composition of five levels, the most a walk has.

## Not modelled

* `riscv64_translate_pte` (344-401): its only state change is `*physaddr`;
  the rest formats flags for printing.
* The command and table stubs: no state.
* The OSRELEASE character scan (134-167) below present/absent, and the
  `kt->cpus == 0` case (`notes_ptrs[-1]`).
* The composition of the phases: the walker takes the depth and ranges the
  layout resolver proves correct as constants; a module instantiating both
  in the PRE_GDB, POST_GDB, POST_VM order is the next step, with the linear
  map, which a property about the verbose `kvtop` (line 910) needs.
