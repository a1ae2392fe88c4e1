------------------------- MODULE Riscv64CrashNotes -------------------------
(***************************************************************************)
(* The crash register extractor run at POST_VM on a dump:                  *)
(* riscv64_init_active_task_regs tries riscv64_get_crash_notes (strategy   *)
(* A: the kernel's per-cpu crash_notes buffers) and, whenever that returns *)
(* FALSE, riscv64_get_elf_notes (strategy B: the notes the dump format     *)
(* keeps per cpu).  Each loop iteration over the cpus is one step.        *)
(*                                                                         *)
(* A note is abstracted to the fields the code tests: whether n_namesz is  *)
(* 0, whether n_type is NT_PRSTATUS, whether the name is "CORE", whether   *)
(* its size matches SIZE(note_buf) less one header, and the cpu whose      *)
(* registers its prstatus holds.  A register slot holds the cpu its block  *)
(* was copied from, or ZeroRegs for the calloc()ed zeros.                  *)
(***************************************************************************)
EXTENDS Integers

CONSTANTS
  NCpus,   \* kt->cpus
  Dumps    \* what the dump and the debuginfo can hold (see DumpAssumption)

CPUs == 0..(NCpus - 1)

ZeroRegs == -1   \* a slot calloc() left zeroed
NoCpu == -2      \* the prstatus of no cpu: a never-written note buffer

Note == [cpu : CPUs \cup {NoCpu}, namesz0 : BOOLEAN, prstatus : BOOLEAN,
         core : BOOLEAN, sizeOk : BOOLEAN]

(* The per-cpu crash_notes template (.data..percpu) no cpu has written.   *)
Template == [cpu |-> NoCpu, namesz0 |-> TRUE, prstatus |-> FALSE,
             core |-> FALSE, sizeOk |-> FALSE]

(* crashNotesSym: symbol_exists("crash_notes"); baseReadable: the read of *)
(* the crash_notes pointer succeeds; perCpuOffset: __per_cpu_offset       *)
(* exists; hasLocator: DISKDUMP_DUMPFILE() || KDUMP_DUMPFILE(); percpu[c] *)
(* the note_buf_t of cpu c, unreadable the cpus whose buffer cannot be    *)
(* read; loc[c] the note diskdump/netdump_get_prstatus_percpu(c) returns, *)
(* locMissing the cpus for which it returns NULL.                         *)
Dump == [crashNotesSym : BOOLEAN, baseReadable : BOOLEAN, perCpuOffset : BOOLEAN,
         hasLocator : BOOLEAN, percpu : [CPUs -> Note], unreadable : SUBSET CPUs,
         loc : [CPUs -> Note], locMissing : SUBSET CPUs]

(* A cpu's buffer and the dump's note for a cpu describe that cpu or no   *)
(* cpu, and a note with no name is not named "CORE".                      *)
ASSUME DumpAssumption ==
  /\ NCpus \in Nat \ {0}
  /\ Dumps \subseteq Dump /\ Dumps # {}
  /\ \A d \in Dumps, c \in CPUs :
       /\ d.percpu[c].cpu \in {c, NoCpu}
       /\ d.loc[c].cpu = c
       /\ d.percpu[c].core => d.percpu[c].cpu = c
       /\ d.percpu[c].namesz0 => ~d.percpu[c].core
       /\ d.loc[c].namesz0 => ~d.loc[c].core

NullAddr == -1   \* notes_ptrs[i] left 0 by GETBUF
RawAddr == -2    \* the crash_notes pointer without a per-cpu offset

VARIABLES
  dump,          \* the dump being opened
  pc,            \* "start", "A", "B", "Bloop", "done"
  i,             \* the loop's cpu
  slots,         \* panic_task_regs[0 .. kt->cpus-1]
  panicRegs,     \* "none", "live" or "freed": the panic_task_regs allocation
  crashTaskRegs, \* "unset" or "panic": ms->crash_task_regs
  warned,        \* POST_VM's "cannot retrieve registers" warning
  rejected       \* strategy A rejected a note (n_type or name)

vars == <<dump, pc, i, slots, panicRegs, crashTaskRegs, warned, rejected>>

TypeOK ==
  /\ dump \in Dump
  /\ pc \in {"start", "A", "B", "Bloop", "done"}
  /\ i \in 0..NCpus
  /\ slots \in [CPUs -> CPUs \cup {ZeroRegs}]
  /\ panicRegs \in {"none", "live", "freed"}
  /\ crashTaskRegs \in {"unset", "panic"}
  /\ warned \in BOOLEAN
  /\ rejected \in BOOLEAN

Init ==
  /\ dump \in Dumps
  /\ pc = "start"
  /\ i = 0
  /\ slots = [c \in CPUs |-> ZeroRegs]
  /\ panicRegs = "none"
  /\ crashTaskRegs = "unset"
  /\ warned = FALSE
  /\ rejected = FALSE

-----------------------------------------------------------------------------
(* Mutation: every cpu gets __per_cpu_offset[0].                          *)
NoteAddrFirstOffset(c) ==
  IF dump.perCpuOffset THEN 0
  ELSE IF c = NCpus - 1 THEN RawAddr ELSE NullAddr

(* notes_ptrs[c]: the crash_notes pointer is read into notes_ptrs[cpus-1] *)
(* and, with __per_cpu_offset, every slot gets it plus the cpu's offset.  *)
NoteAddr(c) ==
  IF dump.perCpuOffset THEN c
  ELSE IF c = NCpus - 1 THEN RawAddr ELSE NullAddr

(* What readmem(notes_ptrs[c], ..., note_buf_t) finds: nothing at 0; at   *)
(* the bare per-cpu pointer cpu 0's buffer on a uniprocessor kernel, the  *)
(* unwritten template otherwise.                                          *)
Readable(a) ==
  /\ a # NullAddr
  /\ a \in CPUs => a \notin dump.unreadable
  /\ a = RawAddr /\ NCpus = 1 => 0 \notin dump.unreadable
Content(a) ==
  IF a = RawAddr THEN (IF NCpus = 1 THEN dump.percpu[0] ELSE Template)
  ELSE dump.percpu[a]

(* One iteration of the loop of riscv64_get_crash_notes for cpu i: buf is *)
(* the note read; a nameless note of a dump with a locator is replaced by *)
(* the locator's note, whose contents are copied over buf only when its   *)
(* size matches; note->n_type is tested on the note, the name on buf.     *)
Buf0 == Content(NoteAddr(i))
UseLoc == Buf0.namesz0 /\ dump.hasLocator
NoteHdr == IF UseLoc THEN dump.loc[i] ELSE Buf0
BufNow == IF UseLoc /\ dump.loc[i].sizeOk THEN dump.loc[i] ELSE Buf0
(* Mutation: the name is checked on the note header, not on buf.        *)
NoteValidOnHdr == NoteHdr.prstatus /\ NoteHdr.core
NoteValid == NoteHdr.prstatus /\ BufNow.core

(* Mutation: ms->crash_task_regs is set as soon as the block exists.     *)
StartAEarlyPublish ==
  /\ pc = "start"
  /\ \/ /\ ~dump.crashNotesSym
        /\ pc' = "B"
        /\ UNCHANGED <<i, slots, panicRegs, crashTaskRegs>>
     \/ /\ dump.crashNotesSym /\ ~dump.baseReadable
        /\ pc' = "B"
        /\ UNCHANGED <<i, slots, panicRegs, crashTaskRegs>>
     \/ /\ dump.crashNotesSym /\ dump.baseReadable
        /\ panicRegs' = "live"
        /\ crashTaskRegs' = "panic"
        /\ slots' = [c \in CPUs |-> ZeroRegs]
        /\ i' = 0
        /\ pc' = "A"
  /\ UNCHANGED <<dump, warned, rejected>>

(* riscv64_get_crash_notes up to the loop.                                *)
StartA ==
  /\ pc = "start"
  /\ \/ /\ ~dump.crashNotesSym
        /\ pc' = "B"
        /\ UNCHANGED <<i, slots, panicRegs>>
     \/ /\ dump.crashNotesSym /\ ~dump.baseReadable
        /\ pc' = "B"
        /\ UNCHANGED <<i, slots, panicRegs>>
     \/ /\ dump.crashNotesSym /\ dump.baseReadable
        /\ panicRegs' = "live"
        /\ slots' = [c \in CPUs |-> ZeroRegs]
        /\ i' = 0
        /\ pc' = "A"
  /\ UNCHANGED <<dump, crashTaskRegs, warned, rejected>>

(* goto fail: the buffers and panic_task_regs are freed, FALSE returned,  *)
(* and riscv64_init_active_task_regs goes on with strategy B.             *)
FailA ==
  /\ panicRegs' = "freed"
  /\ pc' = "B"
  /\ UNCHANGED <<dump, i, slots, crashTaskRegs, warned>>

AReadFail ==
  /\ pc = "A" /\ i < NCpus
  /\ ~Readable(NoteAddr(i))
  /\ FailA
  /\ UNCHANGED rejected

(* "cannot find NT_PRSTATUS note for cpu": continue, the slot stays zero. *)
ASkip ==
  /\ pc = "A" /\ i < NCpus
  /\ Readable(NoteAddr(i))
  /\ UseLoc /\ i \in dump.locMissing
  /\ i' = i + 1
  /\ UNCHANGED <<dump, pc, slots, panicRegs, crashTaskRegs, warned, rejected>>

AReject ==
  /\ pc = "A" /\ i < NCpus
  /\ Readable(NoteAddr(i))
  /\ ~(UseLoc /\ i \in dump.locMissing)
  /\ ~NoteValid
  /\ FailA
  /\ rejected' = TRUE

(* BCOPY(p + OFFSET(elf_prstatus_pr_reg), &panic_task_regs[i], ...)       *)
ACopy ==
  /\ pc = "A" /\ i < NCpus
  /\ Readable(NoteAddr(i))
  /\ ~(UseLoc /\ i \in dump.locMissing)
  /\ NoteValid
  /\ slots' = [slots EXCEPT ![i] = BufNow.cpu]
  /\ i' = i + 1
  /\ UNCHANGED <<dump, pc, panicRegs, crashTaskRegs, warned, rejected>>

(* Mutation: riscv64_init_active_task_regs goes on to strategy B after   *)
(* strategy A succeeded.                                                  *)
ADoneFallThrough ==
  /\ pc = "A" /\ i = NCpus
  /\ crashTaskRegs' = "panic"
  /\ pc' = "B"
  /\ UNCHANGED <<dump, i, slots, panicRegs, warned, rejected>>

(* ms->crash_task_regs = panic_task_regs; return TRUE.                    *)
ADone ==
  /\ pc = "A" /\ i = NCpus
  /\ crashTaskRegs' = "panic"
  /\ pc' = "done"
  /\ UNCHANGED <<dump, i, slots, panicRegs, warned, rejected>>

(* riscv64_get_elf_notes: FALSE unless the dump has a note locator; the   *)
(* POST_VM caller then warns.                                             *)
StartB ==
  /\ pc = "B"
  /\ \/ /\ ~dump.hasLocator
        /\ pc' = "done"
        /\ warned' = TRUE
        /\ UNCHANGED <<i, slots, panicRegs>>
     \/ /\ dump.hasLocator
        /\ panicRegs' = "live"
        /\ slots' = [c \in CPUs |-> ZeroRegs]
        /\ i' = 0
        /\ pc' = "Bloop"
        /\ UNCHANGED warned
  /\ UNCHANGED <<dump, crashTaskRegs, rejected>>

(* One cpu of strategy B: a missing note leaves the slot zero; any other  *)
(* note is copied from past its name, unchecked.                          *)
BCpu ==
  /\ pc = "Bloop" /\ i < NCpus
  /\ \/ i \in dump.locMissing /\ UNCHANGED slots
     \/ i \notin dump.locMissing /\ slots' = [slots EXCEPT ![i] = dump.loc[i].cpu]
  /\ i' = i + 1
  /\ UNCHANGED <<dump, pc, panicRegs, crashTaskRegs, warned, rejected>>

BDone ==
  /\ pc = "Bloop" /\ i = NCpus
  /\ crashTaskRegs' = "panic"
  /\ pc' = "done"
  /\ UNCHANGED <<dump, i, slots, panicRegs, warned, rejected>>

Next ==
  \/ StartA \/ AReadFail \/ ASkip \/ AReject \/ ACopy \/ ADone
  \/ StartB \/ BCpu \/ BDone

(* Every property is a safety property, so no fairness is assumed.       *)
Spec == Init /\ [][Next]_vars

-----------------------------------------------------------------------------
(* The registers published in ms->crash_task_regs for cpu c come from a   *)
(* note of cpu c or are zero: the per-cpu pointer arithmetic, the locator *)
(* replacement with its size check and the validation never let one       *)
(* cpu's slot receive another cpu's, or no cpu's, registers.              *)
RegsFromOwnCpu ==
  crashTaskRegs = "panic" => \A c \in CPUs : slots[c] \in {c, ZeroRegs}

(* ms->crash_task_regs never points to the panic_task_regs block the     *)
(* fail path of riscv64_get_crash_notes has freed.                        *)
NoDanglingRegs ==
  crashTaskRegs = "panic" => panicRegs = "live"

(* Once ms->crash_task_regs is published, neither the register array it *)
(* points to nor its allocation changes again: a strategy that succeeded  *)
(* is final, and strategy B never reallocates and refills panic_task_regs *)
(* under a published pointer.                                             *)
PublishedRegsFrozen ==
  [][crashTaskRegs = "panic" => UNCHANGED <<slots, panicRegs, crashTaskRegs>>]_vars

(* The spec: a note of the wrong type or name aborts the whole extraction *)
(* and no register array is handed to callers.                            *)
RejectionFinal ==
  rejected => crashTaskRegs = "unset"
=============================================================================
