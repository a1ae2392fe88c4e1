---------------------- MODULE Riscv64CrashNotesProofs ----------------------
(***************************************************************************)
(* Proofs about Riscv64CrashNotes for every cpu count and every set of     *)
(* dumps DumpAssumption allows.                                            *)
(***************************************************************************)
EXTENDS Riscv64CrashNotes, TLAPS

USE DumpAssumption

(* The inductive invariant: the type, the dump is one of Dumps, every     *)
(* slot holds its own cpu's registers or zeros, the block is live while a *)
(* loop fills it, and it is published only at the end, live.              *)
IInv ==
  /\ TypeOK
  /\ dump \in Dumps
  /\ \A c \in CPUs : slots[c] \in {c, ZeroRegs}
  /\ pc \in {"A", "Bloop"} => panicRegs = "live"
  /\ crashTaskRegs = "panic" => pc = "done" /\ panicRegs = "live"

(* A note that passes strategy A's checks for cpu i holds cpu i's         *)
(* registers in buf: the bare per-cpu pointer of an SMP kernel reaches    *)
(* only the unnamed template, and a replacement note is copied only when  *)
(* its size fits.                                                         *)
LEMMA CopiedNoteIsOwn ==
  ASSUME NEW d \in Dumps, d = dump, NEW c \in CPUs, c = i,
         Readable(NoteAddr(i)), NoteValid
  PROVE  BufNow.cpu = i
<1>1. CASE UseLoc /\ dump.loc[i].sizeOk
  BY <1>1 DEF BufNow
<1>2. CASE ~(UseLoc /\ dump.loc[i].sizeOk)
  <2>1. BufNow = Buf0 /\ Buf0.core
    BY <1>2 DEF BufNow, NoteValid
  <2>2. CASE dump.perCpuOffset
    <3>1. Buf0 = dump.percpu[i]
      BY <2>2 DEF Buf0, NoteAddr, Content, RawAddr, CPUs
    <3>. QED
      BY <2>1, <3>1
  <2>3. CASE ~dump.perCpuOffset
    <3>1. i = NCpus - 1
      BY <2>3 DEF Readable, NoteAddr
    <3>2. NoteAddr(i) = RawAddr
      BY <2>3, <3>1 DEF NoteAddr
    <3>3. CASE NCpus = 1
      <4>1. Buf0 = dump.percpu[0] /\ i = 0
        BY <3>1, <3>2, <3>3 DEF Buf0, Content
      <4>2. 0 \in CPUs
        BY <3>3 DEF CPUs
      <4>. QED
        BY <2>1, <4>1, <4>2
    <3>4. CASE NCpus # 1
      <4>1. Buf0 = Template
        BY <3>2, <3>4 DEF Buf0, Content
      <4>. QED
        BY <2>1, <4>1 DEF Template
    <3>. QED
      BY <3>3, <3>4
  <2>. QED
    BY <2>2, <2>3
<1>. QED
  BY <1>1, <1>2

-----------------------------------------------------------------------------
LEMMA InitIInv == Init => IInv
<1> SUFFICES ASSUME Init PROVE IInv
  OBVIOUS
<1>1. dump \in Dump /\ dump \in Dumps
  BY DEF Init
<1>2. slots \in [CPUs -> CPUs \cup {ZeroRegs}] /\ \A c \in CPUs : slots[c] \in {c, ZeroRegs}
  BY DEF Init
<1>3. i \in 0..NCpus
  BY DEF Init
<1>. QED
  BY <1>1, <1>2, <1>3 DEF Init, IInv, TypeOK

(* Strategy A's loop keeps the invariant.                                 *)
LEMMA ALoopIInv ==
  ASSUME IInv, AReadFail \/ ASkip \/ AReject \/ ACopy \/ ADone
  PROVE  IInv'
<1> USE DEF IInv, TypeOK
<1>1. CASE AReadFail \/ AReject
  BY <1>1 DEF AReadFail, AReject, FailA
<1>2. CASE ASkip
  BY <1>2 DEF ASkip
<1>3. CASE ACopy
  <2>1. i \in CPUs
    BY <1>3 DEF ACopy, CPUs
  <2>2. BufNow.cpu = i
    BY <1>3, <2>1, CopiedNoteIsOwn DEF ACopy
  <2>. QED
    BY <1>3, <2>1, <2>2 DEF ACopy, CPUs
<1>4. CASE ADone
  BY <1>4 DEF ADone
<1>. QED
  BY <1>1, <1>2, <1>3, <1>4

(* The start of either strategy and strategy B's loop keep it.            *)
LEMMA StartAndBIInv ==
  ASSUME IInv, StartA \/ StartB \/ BCpu \/ BDone
  PROVE  IInv'
<1> USE DEF IInv, TypeOK
<1>1. CASE StartA
  BY <1>1 DEF StartA
<1>2. CASE StartB
  <2>1. CASE ~dump.hasLocator
    BY <1>2, <2>1 DEF StartB
  <2>2. CASE dump.hasLocator
    <3>1. /\ pc = "B" /\ panicRegs' = "live" /\ pc' = "Bloop" /\ i' = 0
          /\ slots' = [c \in CPUs |-> ZeroRegs]
          /\ UNCHANGED <<dump, crashTaskRegs, warned, rejected>>
      BY <1>2, <2>2 DEF StartB
    <3>. QED
      BY <3>1
  <2>. QED
    BY <2>1, <2>2
<1>3. CASE BCpu
  <2>1. i \in CPUs
    BY <1>3 DEF BCpu, CPUs
  <2>2. dump.loc[i].cpu = i
    BY <2>1
  <2>. QED
    BY <1>3, <2>1, <2>2 DEF BCpu, CPUs
<1>4. CASE BDone
  BY <1>4 DEF BDone
<1>. QED
  BY <1>1, <1>2, <1>3, <1>4

LEMMA NextIInv == IInv /\ [Next]_vars => IInv'
<1> SUFFICES ASSUME IInv, [Next]_vars PROVE IInv'
  OBVIOUS
<1>1. CASE UNCHANGED vars
  BY <1>1 DEF vars, IInv, TypeOK
<1>. QED
  BY <1>1, ALoopIInv, StartAndBIInv DEF Next

(* Every reachable state is well typed: in particular no register slot    *)
(* ever holds the block of a note that belongs to no cpu.                 *)
THEOREM TypeCorrect == Spec => []TypeOK
<1>1. IInv => TypeOK
  BY DEF IInv
<1>. QED
  BY InitIInv, NextIInv, <1>1, PTL DEF Spec

(* riscv64_get_crash_notes and riscv64_get_elf_notes publish in           *)
(* ms->crash_task_regs, for each cpu, that cpu's registers or zeros.      *)
THEOREM OwnRegisters == Spec => []RegsFromOwnCpu
<1>1. IInv => RegsFromOwnCpu
  BY DEF IInv, RegsFromOwnCpu
<1>. QED
  BY InitIInv, NextIInv, <1>1, PTL DEF Spec

(* ms->crash_task_regs never points to a freed panic_task_regs block.     *)
THEOREM NoDangling == Spec => []NoDanglingRegs
<1>1. IInv => NoDanglingRegs
  BY DEF IInv, NoDanglingRegs
<1>. QED
  BY InitIInv, NextIInv, <1>1, PTL DEF Spec

(* Once ms->crash_task_regs is published the extraction has returned: no  *)
(* step of either strategy runs again, so the register array and its      *)
(* allocation are final.                                                  *)
THEOREM RegsFrozen == Spec => PublishedRegsFrozen
<1>1. IInv /\ [Next]_vars
        => [crashTaskRegs = "panic" => UNCHANGED <<slots, panicRegs, crashTaskRegs>>]_vars
  <2> SUFFICES ASSUME IInv, [Next]_vars, crashTaskRegs = "panic"
               PROVE  UNCHANGED <<slots, panicRegs, crashTaskRegs>>
    OBVIOUS
  <2>1. pc = "done"
    BY DEF IInv
  <2>2. ~Next
    BY <2>1 DEF Next, StartA, AReadFail, ASkip, AReject, ACopy, ADone, StartB, BCpu, BDone
  <2>. QED
    BY <2>2 DEF vars
<1>. QED
  BY InitIInv, NextIInv, <1>1, PTL DEF Spec, PublishedRegsFrozen
=============================================================================
