--------------------------- MODULE MC_CrashNotes ---------------------------
(* Two cpus; each cpu's crash_notes buffer is its good note, the unwritten *)
(* template (an offline cpu) or a note of the wrong type; the dump's       *)
(* locator note is good, wrongly named, or of the wrong size.              *)
EXTENDS Riscv64CrashNotes

MCNote(c, nz, pr, co, sz) ==
  [cpu |-> c, namesz0 |-> nz, prstatus |-> pr, core |-> co, sizeOk |-> sz]
Good(c) == MCNote(c, FALSE, TRUE, TRUE, TRUE)
BadType(c) == MCNote(c, FALSE, FALSE, TRUE, TRUE)
BadName(c) == MCNote(c, FALSE, TRUE, FALSE, TRUE)
BadSize(c) == MCNote(c, FALSE, TRUE, TRUE, FALSE)

MCDumps ==
  [crashNotesSym : BOOLEAN, baseReadable : BOOLEAN, perCpuOffset : BOOLEAN,
   hasLocator : BOOLEAN,
   percpu : {f \in [CPUs -> Note] : \A c \in CPUs : f[c] \in {Good(c), Template, BadType(c)}},
   unreadable : SUBSET CPUs,
   loc : {f \in [CPUs -> Note] : \A c \in CPUs : f[c] \in {Good(c), BadName(c), BadSize(c)}},
   locMissing : SUBSET CPUs]
=============================================================================
