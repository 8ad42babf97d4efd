----------------------------- MODULE StateStore ------------------------------
(***************************************************************************)
(* internal/state: Store.Save writes a temporary file and renames it over  *)
(* the state file, one file operation after the other, while Store.Load    *)
(* of the status page reads it.  Any operation may fail; the process may   *)
(* die, or the machine lose power, between any two.                        *)
(*                                                                         *)
(* A file is known by the number of the Save that created it: the name of  *)
(* a temporary file has the process ID and the time in it and is opened    *)
(* with O_EXCL.  There is one writer, the check that holds `running'       *)
(* (CheckHandler!OneCheckAtATime).                                         *)
(***************************************************************************)
EXTENDS Integers, FiniteSets

CONSTANTS
  Values,       \* states a Save may be given
  Empty,        \* what Load returns for a missing file
  Readers,      \* concurrent calls of Load
  Length,       \* the size of an encoded state, in writes of one unit
  MaxSaves,     \* bound on the number of files created
  MaxFaults     \* bound on faults

ASSUME EmptyAssumption  == Empty \in Values
ASSUME LengthAssumption == Length \in Nat \ {0}
ASSUME LimitsAssumption == MaxSaves \in Nat /\ MaxFaults \in Nat

VARIABLES
  target,       \* the file s.Path names now, 0 if none
  durable,      \* the file it names after a power loss
  temps,        \* files that have a temporary name
  data,         \* the value a file was created for
  written,      \* how much of it has been written
  synced,       \* files whose content is on the medium
  created,      \* the number of files created
  saver,        \* progress of Save
  reader,       \* progress of each Load
  unflushed,    \* an ignored failure of syncDir is not yet made good (history)
  faults        \* failures, deaths and power losses so far

vars == <<target, durable, temps, data, written, synced, created, saver,
          reader, unflushed, faults>>

Files == 1..MaxSaves

\* What Load makes of a file; Torn is an error of Unmarshal.
Torn     == "torn"
Contents == Values \union {Torn}

Content(f) == CASE f = 0                          -> Empty
                [] f # 0 /\ written[f] = Length    -> data[f]
                [] f # 0 /\ written[f] # Length    -> Torn

Saver == [pc:     {"idle", "write", "sync", "close", "rename", "syncdir", "cleanup"},
          file:   0..MaxSaves,                  \* tmp
          before: Contents,                     \* what Save is to replace (history)
          result: {"none", "nil", "error"}]     \* what the last Save returned

Reader == [pc:      {"idle", "read"},
           file:    0..MaxSaves,                \* the open file
           current: Contents,                   \* the content at Open (history)
           got:     Contents \union {"none"}]

IdleSaver  == [pc |-> "idle", file |-> 0, before |-> Empty, result |-> "none"]
IdleReader == [pc |-> "idle", file |-> 0, current |-> Empty, got |-> "none"]

Init ==
  /\ target    = 0
  /\ durable   = 0
  /\ temps     = {}
  /\ data      = [f \in Files |-> Empty]
  /\ written   = [f \in Files |-> 0]
  /\ synced    = {}
  /\ created   = 0
  /\ saver     = IdleSaver
  /\ reader    = [r \in Readers |-> IdleReader]
  /\ unflushed = FALSE
  /\ faults    = 0

Fault ==
  /\ faults < MaxFaults
  /\ faults' = faults + 1

-----------------------------------------------------------------------------
(* Save.                                                                   *)

\* Variant of Create: the state file itself is opened and written.
CreateInPlace(v) ==
  /\ saver.pc = "idle"
  /\ created < MaxSaves
  /\ created' = created + 1
  /\ data'    = [data EXCEPT ![created'] = v]
  /\ target'  = created'
  /\ saver'   = [pc |-> "write", file |-> created', before |-> Content(target),
                 result |-> "none"]
  /\ UNCHANGED <<durable, temps, written, synced, reader, unflushed, faults>>

\* MkdirAll, and OpenFile of a name nobody has used.
Create(v) ==
  /\ saver.pc = "idle"
  /\ created < MaxSaves
  /\ created' = created + 1
  /\ data'    = [data EXCEPT ![created'] = v]
  /\ temps'   = temps \union {created'}
  /\ saver'   = [pc |-> "write", file |-> created', before |-> Content(target),
                 result |-> "none"]
  /\ UNCHANGED <<target, durable, written, synced, reader, unflushed, faults>>

\* Neither leaves a file to clean up.
CreateFails ==
  /\ saver.pc = "idle"
  /\ Fault
  /\ saver' = [saver EXCEPT !.before = Content(target), !.result = "error"]
  /\ UNCHANGED <<target, durable, temps, data, written, synced, created,
                 reader, unflushed>>

\* Variant of Write: one Write is taken to have written everything.
WriteOnce(n) ==
  /\ saver.pc = "write"
  /\ n \in 1..(Length - written[saver.file])
  /\ written' = [written EXCEPT ![saver.file] = @ + n]
  /\ saver'   = [saver EXCEPT !.pc = "sync"]
  /\ UNCHANGED <<target, durable, temps, data, synced, created, reader,
                 unflushed, faults>>

\* One call of file.Write in writeAll, which may be short.
Write(n) ==
  /\ saver.pc = "write"
  /\ n \in 1..(Length - written[saver.file])
  /\ written' = [written EXCEPT ![saver.file] = @ + n]
  /\ saver'   = IF written'[saver.file] = Length THEN [saver EXCEPT !.pc = "sync"]
                ELSE saver
  /\ UNCHANGED <<target, durable, temps, data, synced, created, reader,
                 unflushed, faults>>

\* Variant of Sync: not called.
SyncSkipped ==
  /\ saver.pc = "sync"
  /\ saver' = [saver EXCEPT !.pc = "close"]
  /\ UNCHANGED <<target, durable, temps, data, written, synced, created,
                 reader, unflushed, faults>>

Sync ==
  /\ saver.pc = "sync"
  /\ synced' = synced \union {saver.file}
  /\ saver'  = [saver EXCEPT !.pc = "close"]
  /\ UNCHANGED <<target, durable, temps, data, written, created, reader,
                 unflushed, faults>>

\* tmp.Close, and Chmod by name.
CloseTemp ==
  /\ saver.pc = "close"
  /\ saver' = [saver EXCEPT !.pc = "rename"]
  /\ UNCHANGED <<target, durable, temps, data, written, synced, created,
                 reader, unflushed, faults>>

Rename ==
  /\ saver.pc = "rename"
  /\ target' = saver.file
  /\ temps'  = temps \ {saver.file}
  /\ saver'  = [saver EXCEPT !.pc = "syncdir"]
  /\ UNCHANGED <<durable, data, written, synced, created, reader, unflushed,
                 faults>>

\* Variant of SyncDir: the directory is not synced.
SyncDirSkipped ==
  /\ saver.pc = "syncdir"
  /\ unflushed' = FALSE
  /\ saver'     = [saver EXCEPT !.pc = "idle", !.result = "nil"]
  /\ UNCHANGED <<target, durable, temps, data, written, synced, created,
                 reader, faults>>

SyncDir ==
  /\ saver.pc = "syncdir"
  /\ durable'   = target
  /\ unflushed' = FALSE
  /\ saver'     = [saver EXCEPT !.pc = "idle", !.result = "nil"]
  /\ UNCHANGED <<target, temps, data, written, synced, created, reader, faults>>

\* syncDir reports nothing: Save still returns nil.
SyncDirFails ==
  /\ saver.pc = "syncdir"
  /\ Fault
  /\ unflushed' = TRUE
  /\ saver'     = [saver EXCEPT !.pc = "idle", !.result = "nil"]
  /\ UNCHANGED <<target, durable, temps, data, written, synced, created, reader>>

\* Chmod, Write, Sync, Close or Rename fails, or a Write writes nothing.
StepFails ==
  /\ saver.pc \in {"write", "sync", "close", "rename"}
  /\ Fault
  /\ saver' = [saver EXCEPT !.pc = "cleanup"]
  /\ UNCHANGED <<target, durable, temps, data, written, synced, created,
                 reader, unflushed>>

Cleanup ==
  /\ saver.pc = "cleanup"
  /\ temps' = temps \ {saver.file}
  /\ saver' = [saver EXCEPT !.pc = "idle", !.result = "error"]
  /\ UNCHANGED <<target, durable, data, written, synced, created, reader,
                 unflushed, faults>>

\* The error of Remove is ignored.
RemoveFails ==
  /\ saver.pc = "cleanup"
  /\ Fault
  /\ saver' = [saver EXCEPT !.pc = "idle", !.result = "error"]
  /\ UNCHANGED <<target, durable, temps, data, written, synced, created,
                 reader, unflushed>>

Save ==
  \/ \E v \in Values : Create(v)
  \/ CreateFails
  \/ \E n \in 1..Length : Write(n)
  \/ Sync \/ CloseTemp \/ Rename \/ SyncDir \/ SyncDirFails
  \/ StepFails \/ Cleanup \/ RemoveFails

-----------------------------------------------------------------------------
(* Load.                                                                   *)

\* Open; a missing file is the empty state.
Open(r) ==
  /\ reader[r].pc = "idle"
  /\ reader' = [reader EXCEPT ![r] =
                  [pc      |-> IF target = 0 THEN "idle" ELSE "read",
                   file    |-> target,
                   current |-> Content(target),
                   got     |-> IF target = 0 THEN Empty ELSE "none"]]
  /\ UNCHANGED <<target, durable, temps, data, written, synced, created, saver,
                 unflushed, faults>>

\* ReadAll and Unmarshal: anything but a whole state is an error.
Read(r) ==
  /\ reader[r].pc = "read"
  /\ reader' = [reader EXCEPT
                  ![r].pc  = "idle",
                  ![r].got = Content(reader[r].file)]
  /\ UNCHANGED <<target, durable, temps, data, written, synced, created, saver,
                 unflushed, faults>>

-----------------------------------------------------------------------------
(* The system below.                                                       *)

\* The directory reaches the medium some time, also without syncDir.
Writeback ==
  /\ durable # target
  /\ durable'   = target
  /\ unflushed' = FALSE
  /\ UNCHANGED <<target, temps, data, written, synced, created, saver, reader,
                 faults>>

\* The process dies: what the kernel has stays.
Die ==
  /\ Fault
  /\ saver'  = IdleSaver
  /\ reader' = [r \in Readers |-> IdleReader]
  /\ UNCHANGED <<target, durable, temps, data, written, synced, created,
                 unflushed>>

\* Names go back to those on the medium; of a file that was not synced any
\* part may be missing.
PowerLoss ==
  /\ Fault
  /\ target' = durable
  /\ written' \in {w \in [Files -> 0..Length] :
                     \A f \in Files : /\ w[f] <= written[f]
                                      /\ f \in synced => w[f] = written[f]}
  /\ saver'     = IdleSaver
  /\ reader'    = [r \in Readers |-> IdleReader]
  /\ unflushed' = FALSE
  /\ UNCHANGED <<durable, temps, data, synced, created>>

Next ==
  \/ Save
  \/ \E r \in Readers : Open(r) \/ Read(r)
  \/ Writeback \/ Die \/ PowerLoss

Spec == Init /\ [][Next]_vars

-----------------------------------------------------------------------------
(* Properties.                                                             *)

TypeOK ==
  /\ target \in 0..MaxSaves
  /\ durable \in 0..MaxSaves
  /\ temps \subseteq Files
  /\ data \in [Files -> Values]
  /\ written \in [Files -> 0..Length]
  /\ synced \subseteq 0..MaxSaves
  /\ created \in 0..MaxSaves
  /\ saver \in Saver
  /\ reader \in [Readers -> Reader]
  /\ unflushed \in BOOLEAN
  /\ faults \in Nat

\* The state file, now and after a power loss, is missing or a whole state:
\* a file is written and synced before it gets the name (store.go:120-138).
NeverTorn ==
  \A f \in {target, durable} \ {0} : f \in synced /\ written[f] = Length

\* A Load that meets a Save returns a whole state, the one that was stored
\* when it opened the file (store.go:60).
LoadsAreWhole ==
  \A r \in Readers :
    reader[r].pc = "idle" /\ reader[r].got # "none"
      => reader[r].got = reader[r].current

\* Whoever reads the state file, a Load or the next process, reads a state.
FilesAreWhole == TypeOK /\ NeverTorn /\ LoadsAreWhole

\* An error of Save means that nothing was replaced, nil that everything was,
\* whichever operation failed (store_test.go:95).
SaveIsAllOrNothing ==
  [][/\ saver'.result = "error" /\ saver.result # "error"
          => Content(target)' = saver'.before
     /\ saver'.result = "nil" /\ saver.result # "nil"
          => Content(target)' = data[saver.file]]_vars

\* Every way out of Save, the error returns included, leaves no temporary
\* file behind unless Remove fails as well (store_test.go:95).
TempIsRemoved ==
  saver.pc # "idle" /\ saver'.pc = "idle" /\ faults' = faults
    => saver.file \notin temps'

\* Once Save returned nil a power loss does not undo it, unless the ignored
\* sync of the directory failed (store.go:143).
AcknowledgedIsDurable ==
  saver.pc = "idle" /\ saver.result = "nil" /\ ~unflushed => durable = target

\* When Save has returned nothing of it is left to do, or to undo.
SaveIsFinished == [][TempIsRemoved /\ AcknowledgedIsDurable']_vars

\* The state file implements a register that is replaced in one step.
File == INSTANCE AtomicFile WITH value   <- Content(target),
                                 flushed <- Content(durable)
ImplementsAtomicFile == File!Spec

=============================================================================
