-------------------------- MODULE StateStoreProofs ---------------------------
(***************************************************************************)
(* Theorems about StateStore, for any values, readers, file size and       *)
(* bounds.  The inductive invariant says which files are finished: only    *)
(* the one Save is working on is not, and it has no other name than its    *)
(* temporary one until it is.                                              *)
(***************************************************************************)
EXTENDS StateStore, TLAPS

Finished(f) == f \in synced /\ written[f] = Length

IInv ==
  /\ target <= created /\ durable <= created /\ saver.file <= created
  /\ synced \subseteq 1..created
  /\ \A f \in {target, durable} \ {0} : Finished(f)
  /\ saver.pc # "idle" => saver.file # 0
  /\ saver.pc \in {"write", "sync"} => saver.file \notin synced
  /\ saver.pc \in {"sync", "close", "rename"} => written[saver.file] = Length
  /\ saver.pc \in {"close", "rename", "syncdir"} => saver.file \in synced
  /\ saver.pc \in {"write", "sync", "close", "rename", "cleanup"} =>
       Content(target) = saver.before
  /\ saver.pc = "syncdir" => target = saver.file
  /\ \A r \in Readers : reader[r].pc = "read" =>
       /\ reader[r].file # 0 /\ Finished(reader[r].file)
       /\ data[reader[r].file] = reader[r].current
  /\ \A r \in Readers : reader[r].pc = "idle" /\ reader[r].got # "none" =>
       reader[r].got = reader[r].current

USE EmptyAssumption, LengthAssumption, LimitsAssumption

\* A file number that is not 0 has an entry, and a content.
LEMMA ContentType ==
  ASSUME TypeOK, NEW f \in 0..MaxSaves
  PROVE  Content(f) \in Contents
<1>1. f # 0 => f \in Files
  BY DEF Files
<1>2. CASE f = 0
  BY <1>2 DEF Content, Contents
<1>3. CASE f # 0 /\ written[f] = Length
  BY <1>1, <1>3 DEF Content, Contents, TypeOK
<1>4. CASE f # 0 /\ written[f] # Length
  BY <1>4 DEF Content, Contents
<1>5. QED
  BY <1>2, <1>3, <1>4

\* The fields the actions set in saver keep its type.
LEMMA SaverFields ==
  ASSUME NEW s \in Saver
  PROVE  /\ \A v \in {"idle", "write", "sync", "close", "rename", "syncdir", "cleanup"} :
              [s EXCEPT !.pc = v] \in Saver
         /\ \A v \in Contents : [s EXCEPT !.before = v] \in Saver
         /\ \A v \in {"none", "nil", "error"} : [s EXCEPT !.result = v] \in Saver
<1>1. \A v \in {"idle", "write", "sync", "close", "rename", "syncdir", "cleanup"} :
        [s EXCEPT !.pc = v] \in Saver
  BY DEF Saver
<1>2. \A v \in Contents : [s EXCEPT !.before = v] \in Saver
  BY DEF Saver
<1>3. \A v \in {"none", "nil", "error"} : [s EXCEPT !.result = v] \in Saver
  BY DEF Saver
<1>4. QED
  BY <1>1, <1>2, <1>3

\* Every variable keeps its type.
LEMMA TypeStep == TypeOK /\ [Next]_vars => TypeOK'
<1> SUFFICES ASSUME TypeOK, [Next]_vars PROVE TypeOK'
  OBVIOUS
<1>a. Content(target) \in Contents
  BY ContentType DEF TypeOK
<1>b. Fault => faults' \in Nat
  BY DEF Fault, TypeOK
<1>1. ASSUME NEW v \in Values, Create(v) PROVE TypeOK'
  <2>1. created' \in Files /\ created' \in 0..MaxSaves
    BY <1>1 DEF Create, TypeOK, Files
  <2>2. saver' \in Saver
    <3> DEFINE n == created'
               before == Content(target)
    <3>1. saver' = [pc |-> "write", file |-> n, before |-> before, result |-> "none"]
      BY <1>1 DEF Create
    <3>2. n \in 0..MaxSaves /\ before \in Contents
      BY <1>a, <2>1
    <3> HIDE DEF n, before
    <3>3. QED
      BY <3>1, <3>2 DEF Saver
  <2>3. QED
    BY <1>1, <2>1, <2>2 DEF Create, TypeOK
<1>2. CASE CreateFails
  <2>1. saver' \in Saver
    <3>1. [saver EXCEPT !.before = Content(target)] \in Saver
      BY <1>a, SaverFields DEF TypeOK
    <3>2. [[saver EXCEPT !.before = Content(target)] EXCEPT !.result = "error"] \in Saver
      BY <3>1, SaverFields
    <3>3. QED
      BY <1>2, <3>2 DEF CreateFails
  <2>2. QED
    BY <1>2, <1>b, <2>1 DEF CreateFails, TypeOK
<1>3. ASSUME NEW n \in 1..Length, Write(n) PROVE TypeOK'
  <2>1. saver' \in Saver
    BY <1>3 DEF Write, Saver, TypeOK
  <2>2. written' \in [Files -> 0..Length]
    <3>1. saver.file \in Files =>
            written[saver.file] + n \in 0..Length
      BY <1>3 DEF Write, TypeOK
    <3>2. written' = [written EXCEPT ![saver.file] = written[saver.file] + n]
      BY <1>3 DEF Write
    <3>3. QED
      BY <3>1, <3>2 DEF TypeOK
  <2>3. QED
    BY <1>3, <2>1, <2>2 DEF Write, TypeOK
<1>4. CASE Sync
  <2>1. saver' \in Saver
    BY <1>4 DEF Sync, Saver, TypeOK
  <2>2. saver.file \in 0..MaxSaves
    BY DEF TypeOK, Saver
  <2>3. QED
    BY <1>4, <2>1, <2>2 DEF Sync, TypeOK, Files
<1>5. CASE CloseTemp
  <2>1. saver' \in Saver
    BY <1>5 DEF CloseTemp, Saver, TypeOK
  <2>2. QED
    BY <1>5, <2>1 DEF CloseTemp, TypeOK
<1>6. CASE Rename
  <2>1. saver' \in Saver /\ target' \in 0..MaxSaves
    BY <1>6 DEF Rename, Saver, TypeOK
  <2>2. QED
    BY <1>6, <2>1 DEF Rename, TypeOK
<1>7. CASE SyncDir \/ SyncDirFails
  <2>1. saver' \in Saver
    BY <1>7 DEF SyncDir, SyncDirFails, Saver, TypeOK
  <2>2. QED
    BY <1>7, <1>b, <2>1 DEF SyncDir, SyncDirFails, TypeOK
<1>8. CASE StepFails \/ Cleanup \/ RemoveFails
  <2>1. saver' \in Saver
    BY <1>8 DEF StepFails, Cleanup, RemoveFails, Saver, TypeOK
  <2>2. QED
    BY <1>8, <1>b, <2>1 DEF StepFails, Cleanup, RemoveFails, TypeOK
<1>9. ASSUME NEW r \in Readers, Open(r) PROVE TypeOK'
  <2>1. reader' \in [Readers -> Reader]
    BY <1>9, <1>a DEF Open, TypeOK, Reader, Contents
  <2>2. QED
    BY <1>9, <2>1 DEF Open, TypeOK
<1>10. ASSUME NEW r \in Readers, Read(r) PROVE TypeOK'
  <2>1. Content(reader[r].file) \in Contents
    BY <1>10, ContentType DEF TypeOK, Reader
  <2>2. reader' \in [Readers -> Reader]
    BY <1>10, <2>1 DEF Read, TypeOK, Reader
  <2>3. QED
    BY <1>10, <2>2 DEF Read, TypeOK
<1>11. CASE Writeback
  BY <1>11 DEF Writeback, TypeOK
<1>12. CASE Die \/ PowerLoss
  <2>1. saver' \in Saver /\ reader' \in [Readers -> Reader]
    BY <1>12 DEF Die, PowerLoss, IdleSaver, IdleReader, Saver, Reader, Contents
  <2>2. QED
    BY <1>12, <1>b, <2>1 DEF Die, PowerLoss, TypeOK
<1>13. CASE UNCHANGED vars
  BY <1>13 DEF vars, TypeOK
<1>14. QED
  BY <1>1, <1>2, <1>3, <1>4, <1>5, <1>6, <1>7, <1>8, <1>9, <1>10, <1>11,
     <1>12, <1>13 DEF Next, Save

\* The types hold in every reachable state.
THEOREM StoreTypes == Spec => []TypeOK
<1>1. ASSUME Init PROVE TypeOK
  <2>1. IdleSaver \in Saver /\ IdleReader \in Reader
    BY DEF IdleSaver, IdleReader, Saver, Reader, Contents
  <2>2. saver \in Saver /\ reader \in [Readers -> Reader]
    BY <1>1, <2>1 DEF Init
  <2>3. data \in [Files -> Values] /\ written \in [Files -> 0..Length]
    BY <1>1 DEF Init
  <2>4. /\ target \in 0..MaxSaves /\ durable \in 0..MaxSaves /\ created \in 0..MaxSaves
        /\ temps \subseteq Files /\ synced = {} /\ faults \in Nat
    BY <1>1 DEF Init
  <2>5. unflushed \in BOOLEAN
    BY <1>1 DEF Init
  <2>6. QED
    BY <2>2, <2>3, <2>4, <2>5 DEF TypeOK
<1>2. QED
  BY <1>1, TypeStep, PTL DEF Spec

-----------------------------------------------------------------------------
(* The inductive invariant.                                                *)

\* Files that Save is not working on keep their content.
Kept(f) == data'[f] = data[f] /\ written'[f] = written[f] /\ (f \in synced => f \in synced')

\* Every step of the store keeps the invariant.
LEMMA IInvStep == TypeOK /\ TypeOK' /\ IInv /\ [Next]_vars => IInv'
<1> SUFFICES ASSUME TypeOK, TypeOK', IInv, [Next]_vars PROVE IInv'
  OBVIOUS
<1> USE DEF Finished
<1>t. /\ target \in 0..MaxSaves /\ durable \in 0..MaxSaves /\ created \in 0..MaxSaves
      /\ data \in [Files -> Values] /\ written \in [Files -> 0..Length]
      /\ saver.file \in 0..MaxSaves /\ reader \in [Readers -> Reader]
  BY DEF TypeOK, Saver
<1>1. ASSUME NEW v \in Values, Create(v) PROVE IInv'
  <2>1. /\ created' = created + 1 /\ saver'.pc = "write" /\ saver'.file = created'
        /\ saver'.before = Content(target)
        /\ data' = [data EXCEPT ![created'] = v]
        /\ UNCHANGED <<target, durable, written, synced, reader>>
    BY <1>1 DEF Create
  <2>2. \A f \in 1..created : Kept(f)
    BY <2>1, <1>t DEF Kept, Files
  <2>3. Content(target)' = Content(target)
    BY <2>1, <2>2, <1>t DEF Content, IInv, Kept
  <2>4. \A r \in Readers : reader[r].pc = "read" =>
           data'[reader[r].file] = data[reader[r].file]
    BY <2>2, <1>t DEF IInv, Kept
  <2>5. created' # 0 /\ created' \notin synced /\ synced' \subseteq 1..created'
    BY <2>1, <1>t DEF IInv
  <2>6. QED
    BY <2>1, <2>3, <2>4, <2>5, <1>t DEF IInv
<1>2. CASE CreateFails
  <2>1. /\ saver'.pc = "idle" /\ saver'.file = saver.file
        /\ UNCHANGED <<target, durable, data, written, synced, created, reader>>
    BY <1>2 DEF CreateFails, TypeOK, Saver
  <2>2. QED
    BY <2>1 DEF IInv
<1>3. ASSUME NEW n \in 1..Length, Write(n) PROVE IInv'
  <2>1. /\ saver.pc = "write" /\ saver'.pc \in {"write", "sync"}
        /\ saver'.file = saver.file /\ saver'.before = saver.before
        /\ saver'.pc = "sync" => written'[saver.file] = Length
        /\ written' = [written EXCEPT ![saver.file] = @ + n]
        /\ UNCHANGED <<target, durable, data, synced, created, reader>>
    BY <1>3 DEF Write, TypeOK, Saver
  <2>2. saver.file \notin synced
    BY <2>1 DEF IInv
  <2>3. \A f \in synced : written'[f] = written[f]
    BY <2>1, <2>2, <1>t DEF IInv, Files
  <2>4. Content(target)' = Content(target)
    BY <2>1, <2>3 DEF Content, IInv
  <2>5. QED
    BY <2>1, <2>3, <2>4 DEF IInv
<1>4. CASE Sync
  <2>1. /\ saver.pc = "sync" /\ saver'.pc = "close"
        /\ saver'.file = saver.file /\ saver'.before = saver.before
        /\ synced' = synced \union {saver.file}
        /\ UNCHANGED <<target, durable, data, written, created, reader>>
    BY <1>4 DEF Sync, TypeOK, Saver
  <2>2. Content(target)' = Content(target)
    BY <2>1 DEF Content
  <2>3. saver.file \in 1..created
    BY <2>1, <1>t DEF IInv
  <2>4. QED
    BY <2>1, <2>2, <2>3 DEF IInv
<1>5. CASE CloseTemp
  <2>1. /\ saver.pc = "close" /\ saver'.pc = "rename"
        /\ saver'.file = saver.file /\ saver'.before = saver.before
        /\ UNCHANGED <<target, durable, data, written, synced, created, reader>>
    BY <1>5 DEF CloseTemp, TypeOK, Saver
  <2>2. Content(target)' = Content(target)
    BY <2>1 DEF Content
  <2>3. QED
    BY <2>1, <2>2 DEF IInv
<1>6. CASE Rename
  <2>1. /\ saver.pc = "rename" /\ saver'.pc = "syncdir"
        /\ saver'.file = saver.file /\ target' = saver.file
        /\ UNCHANGED <<durable, data, written, synced, created, reader>>
    BY <1>6 DEF Rename, TypeOK, Saver
  <2>2. QED
    BY <2>1 DEF IInv
<1>7. CASE SyncDir \/ SyncDirFails
  <2>1. /\ saver'.pc = "idle" /\ saver'.file = saver.file
        /\ durable' \in {target, durable}
        /\ UNCHANGED <<target, data, written, synced, created, reader>>
    BY <1>7 DEF SyncDir, SyncDirFails, TypeOK, Saver
  <2>2. QED
    BY <2>1 DEF IInv
<1>8. CASE StepFails \/ Cleanup \/ RemoveFails
  <2>1. /\ \/ saver'.pc = "idle"
           \/ /\ saver'.pc = "cleanup"
              /\ saver.pc \in {"write", "sync", "close", "rename"}
        /\ saver'.file = saver.file /\ saver'.before = saver.before
        /\ UNCHANGED <<target, durable, data, written, synced, created, reader>>
    BY <1>8 DEF StepFails, Cleanup, RemoveFails, TypeOK, Saver
  <2>2. Content(target)' = Content(target)
    BY <2>1 DEF Content
  <2>3. QED
    BY <2>1, <2>2 DEF IInv
<1>9. ASSUME NEW r \in Readers, Open(r) PROVE IInv'
  <2>1. /\ UNCHANGED <<target, durable, data, written, synced, created, saver>>
        /\ \A q \in Readers : q # r => reader'[q] = reader[q]
        /\ reader'[r] = [pc      |-> IF target = 0 THEN "idle" ELSE "read",
                         file    |-> target,
                         current |-> Content(target),
                         got     |-> IF target = 0 THEN Empty ELSE "none"]
    BY <1>9, <1>t DEF Open
  <2>2. Content(target)' = Content(target)
    BY <2>1 DEF Content
  <2>3. target = 0 => Content(target) = Empty
    BY DEF Content
  <2>4. target # 0 => Finished(target) /\ Content(target) = data[target]
    BY DEF IInv, Content
  <2>5. /\ reader'[r].pc = "read" =>
             /\ reader'[r].file # 0 /\ Finished(reader'[r].file)
             /\ data[reader'[r].file] = reader'[r].current
        /\ reader'[r].pc = "idle" /\ reader'[r].got # "none" =>
             reader'[r].got = reader'[r].current
    BY <2>1, <2>3, <2>4
  <2>6. QED
    BY <2>1, <2>2, <2>5 DEF IInv
<1>10. ASSUME NEW r \in Readers, Read(r) PROVE IInv'
  <2>1. /\ UNCHANGED <<target, durable, data, written, synced, created, saver>>
        /\ \A q \in Readers : q # r => reader'[q] = reader[q]
        /\ reader[r].pc = "read" /\ reader'[r].pc = "idle"
        /\ reader'[r].current = reader[r].current
        /\ reader'[r].got = Content(reader[r].file)
    BY <1>10, <1>t DEF Read, Reader
  <2>2. Content(target)' = Content(target)
    BY <2>1 DEF Content
  <2>3. Content(reader[r].file) = reader[r].current
    BY <2>1 DEF IInv, Content
  <2>4. QED
    BY <2>1, <2>2, <2>3 DEF IInv
<1>11. CASE Writeback
  <2>1. /\ durable' = target
        /\ UNCHANGED <<target, data, written, synced, created, saver, reader>>
    BY <1>11 DEF Writeback
  <2>2. Content(target)' = Content(target)
    BY <2>1 DEF Content
  <2>3. QED
    BY <2>1, <2>2 DEF IInv
<1>12. CASE Die \/ PowerLoss
  <2>1. /\ target' \in {target, durable} /\ saver' = IdleSaver
        /\ reader' = [r \in Readers |-> IdleReader]
        /\ UNCHANGED <<durable, data, synced, created>>
    BY <1>12 DEF Die, PowerLoss
  <2>2. \A f \in synced \ {0} : written'[f] = written[f]
    <3>1. CASE Die
      BY <3>1 DEF Die
    <3>2. CASE PowerLoss
      <4>1. synced \ {0} \subseteq Files
        BY <1>t DEF IInv, Files
      <4>2. \A f \in Files : f \in synced => written'[f] = written[f]
        BY <3>2 DEF PowerLoss
      <4>3. QED
        BY <4>1, <4>2
    <3>3. QED
      BY <1>12, <3>1, <3>2
  <2>3. \A f \in {target', durable'} \ {0} : Finished(f)'
    BY <2>1, <2>2 DEF IInv
  <2>4. saver'.pc = "idle" /\ saver'.file = 0
    BY <2>1 DEF IdleSaver
  <2>5. \A r \in Readers : reader'[r].pc = "idle" /\ reader'[r].got = "none"
    BY <2>1 DEF IdleReader
  <2>6. target' <= created' /\ durable' <= created' /\ saver'.file <= created'
    BY <2>1, <2>4, <1>t DEF IInv
  <2>7. synced' \subseteq 1..created'
    BY <2>1 DEF IInv
  <2>8. QED
    BY <2>3, <2>4, <2>5, <2>6, <2>7 DEF IInv
<1>13. CASE UNCHANGED vars
  <2>1. Content(target)' = Content(target)
    BY <1>13 DEF vars, Content
  <2>2. QED
    BY <1>13, <2>1 DEF vars, IInv
<1>14. QED
  BY <1>1, <1>2, <1>3, <1>4, <1>5, <1>6, <1>7, <1>8, <1>9, <1>10, <1>11,
     <1>12, <1>13 DEF Next, Save

\* IInv is an invariant.
LEMMA StoreSound == Spec => []IInv
<1>1. ASSUME Init PROVE IInv
  <2>1. saver.pc = "idle" /\ saver.file = 0
    BY <1>1 DEF Init, IdleSaver
  <2>2. \A r \in Readers : reader[r].pc = "idle" /\ reader[r].got = "none"
    BY <1>1 DEF Init, IdleReader
  <2>3. target = 0 /\ durable = 0 /\ created = 0 /\ synced = {}
    BY <1>1 DEF Init
  <2>4. QED
    BY <2>1, <2>2, <2>3 DEF IInv
<1>2. QED
  BY <1>1, StoreTypes, IInvStep, PTL DEF Spec

\* The state file is never torn, before or after a power loss.
THEOREM FileIsWhole == Spec => []NeverTorn
<1>1. IInv => NeverTorn
  BY DEF IInv, NeverTorn, Finished
<1>2. QED
  BY <1>1, StoreSound, PTL

\* A Load beside a Save returns a state that was stored when it began.
THEOREM LoadsSeeStates == Spec => []LoadsAreWhole
<1>1. IInv => LoadsAreWhole
  BY DEF IInv, LoadsAreWhole
<1>2. QED
  BY <1>1, StoreSound, PTL

-----------------------------------------------------------------------------
(* What a step of Save does to the content of the state file.              *)

\* Only Rename and PowerLoss change what the state file holds now.
LEMMA ContentStep ==
  ASSUME TypeOK, IInv, [Next]_vars
  PROVE  \/ /\ Content(target)' = Content(target)
            /\ durable' \in {durable, target}
            /\ Content(durable)' \in {Content(durable), Content(target)}
         \/ /\ Rename
            /\ Content(target)' = data[saver.file] /\ data[saver.file] \in Values
            /\ Content(durable)' = Content(durable)
         \/ /\ PowerLoss
            /\ Content(target)' = Content(durable)
            /\ Content(durable)' = Content(durable)
<1>t. /\ target \in 0..MaxSaves /\ durable \in 0..MaxSaves /\ created \in 0..MaxSaves
      /\ data \in [Files -> Values] /\ written \in [Files -> 0..Length]
      /\ saver.file \in 0..MaxSaves
  BY DEF TypeOK, Saver
<1>a. ASSUME NEW f \in {target, durable},
             f # 0 => data'[f] = data[f] /\ written'[f] = written[f]
      PROVE  Content(f)' = Content(f)
  <2>1. f = 0 \/ f \in Files
    BY <1>t DEF Files
  <2>2. QED
    BY <1>a DEF Content
<1>b. \A f \in {target, durable} \ {0} : f \in Files /\ f <= created /\ Finished(f)
  BY <1>t DEF IInv, Files
<1>1. ASSUME NEW v \in Values, Create(v) PROVE
        Content(target)' = Content(target) /\ Content(durable)' = Content(durable)
        /\ durable' = durable
  <2>1. /\ data' = [data EXCEPT ![created + 1] = v]
        /\ UNCHANGED <<target, durable, written>>
    BY <1>1 DEF Create
  <2>2. \A f \in {target, durable} \ {0} : data'[f] = data[f] /\ written'[f] = written[f]
    BY <2>1, <1>b, <1>t
  <2>3. QED
    BY <2>1, <2>2 DEF Content
<1>2. ASSUME NEW n \in 1..Length, Write(n) PROVE
        Content(target)' = Content(target) /\ Content(durable)' = Content(durable)
        /\ durable' = durable
  <2>1. /\ saver.pc = "write"
        /\ written' = [written EXCEPT ![saver.file] = @ + n]
        /\ UNCHANGED <<target, durable, data>>
    BY <1>2 DEF Write
  <2>2. \A f \in {target, durable} \ {0} : written'[f] = written[f]
    BY <2>1, <1>b, <1>t DEF IInv, Finished
  <2>3. QED
    BY <2>1, <2>2 DEF Content
<1>3. CASE Rename
  <2>1. /\ saver.pc = "rename" /\ target' = saver.file
        /\ UNCHANGED <<durable, data, written>>
    BY <1>3 DEF Rename
  <2>2. saver.file \in Files /\ written[saver.file] = Length
    BY <2>1, <1>t DEF IInv, Files
  <2>3. Content(target)' = data[saver.file] /\ data[saver.file] \in Values
    BY <2>1, <2>2, <1>t DEF Content, Files
  <2>4. Content(durable)' = Content(durable)
    BY <2>1 DEF Content
  <2>5. QED
    BY <1>3, <2>3, <2>4
<1>4. CASE PowerLoss
  <2>1. target' = durable /\ UNCHANGED <<durable, data>>
    BY <1>4 DEF PowerLoss
  <2>2. durable # 0 => written'[durable] = written[durable]
    <3>1. \A f \in Files : f \in synced => written'[f] = written[f]
      BY <1>4 DEF PowerLoss
    <3>2. QED
      BY <3>1, <1>b DEF Finished
  <2>3. Content(durable)' = Content(durable)
    BY <2>1, <2>2 DEF Content
  <2>4. Content(target)' = Content(durable)
    BY <2>1, <2>3 DEF Content
  <2>5. QED
    BY <1>4, <2>3, <2>4
<1>5. CASE SyncDir \/ Writeback
  <2>1. durable' = target /\ UNCHANGED <<target, data, written>>
    BY <1>5 DEF SyncDir, Writeback
  <2>2. QED
    BY <2>1 DEF Content
<1>6. ASSUME UNCHANGED <<target, durable, data, written>> PROVE
        Content(target)' = Content(target) /\ Content(durable)' = Content(durable)
        /\ durable' = durable
  BY <1>6 DEF Content
<1>7. ASSUME NEW r \in Readers, Open(r) \/ Read(r) PROVE
        UNCHANGED <<target, durable, data, written>>
  BY <1>7 DEF Open, Read
<1>8. CreateFails \/ Sync \/ CloseTemp \/ SyncDirFails \/ StepFails \/ Cleanup
        \/ RemoveFails \/ Die \/ UNCHANGED vars
        => UNCHANGED <<target, durable, data, written>>
  BY DEF CreateFails, Sync, CloseTemp, SyncDirFails, StepFails, Cleanup,
         RemoveFails, Die, vars
<1>9. QED
  BY <1>1, <1>2, <1>3, <1>4, <1>5, <1>6, <1>7, <1>8 DEF Next, Save

\* Save replaces the state or reports an error, never both and never neither.
THEOREM SavesAreAtomic == Spec => SaveIsAllOrNothing
<1> DEFINE Atomic ==
      /\ saver'.result = "error" /\ saver.result # "error"
           => Content(target)' = saver'.before
      /\ saver'.result = "nil" /\ saver.result # "nil"
           => Content(target)' = data[saver.file]
<1>1. ASSUME TypeOK, IInv, [Next]_vars PROVE Atomic \/ UNCHANGED vars
  <2>1. CASE CreateFails
    <3>1. /\ saver'.before = Content(target) /\ saver'.result = "error"
          /\ UNCHANGED <<target, data, written>>
      BY <1>1, <2>1 DEF CreateFails, TypeOK, Saver
    <3>2. QED
      BY <3>1 DEF Content
  <2>2. CASE Cleanup \/ RemoveFails
    <3>1. /\ saver.pc = "cleanup" /\ saver'.before = saver.before
          /\ saver'.result = "error"
          /\ UNCHANGED <<target, data, written>>
      BY <1>1, <2>2 DEF Cleanup, RemoveFails, TypeOK, Saver
    <3>2. Content(target) = saver.before
      BY <1>1, <3>1 DEF IInv
    <3>3. QED
      BY <3>1, <3>2 DEF Content
  <2>3. CASE SyncDir \/ SyncDirFails
    <3>1. /\ saver.pc = "syncdir" /\ saver'.result = "nil"
          /\ UNCHANGED <<target, data, written>>
      BY <1>1, <2>3 DEF SyncDir, SyncDirFails, TypeOK, Saver
    <3>2. target = saver.file /\ saver.file # 0 /\ Finished(target)
      BY <1>1, <3>1 DEF IInv
    <3>3. QED
      BY <3>1, <3>2 DEF Content, Finished
  <2>4. ASSUME NEW v \in Values, Create(v) PROVE saver'.result = "none"
    BY <2>4 DEF Create
  <2>5. ASSUME NEW n \in 1..Length, Write(n) PROVE saver'.result = saver.result
    BY <1>1, <2>5 DEF Write, TypeOK, Saver
  <2>6. CASE Sync \/ CloseTemp \/ Rename \/ StepFails
    BY <1>1, <2>6 DEF Sync, CloseTemp, Rename, StepFails, TypeOK, Saver
  <2>7. ASSUME NEW r \in Readers, Open(r) \/ Read(r) PROVE saver' = saver
    BY <2>7 DEF Open, Read
  <2>8. CASE Writeback
    BY <2>8 DEF Writeback
  <2>9. CASE Die \/ PowerLoss
    BY <2>9 DEF Die, PowerLoss, IdleSaver
  <2>10. QED
    BY <1>1, <2>1, <2>2, <2>3, <2>4, <2>5, <2>6, <2>7, <2>8, <2>9 DEF Next, Save
<1>2. QED
  BY <1>1, StoreTypes, StoreSound, PTL DEF Spec, SaveIsAllOrNothing

\* The file operations implement the register: each is a replacement, a
\* flush, a power loss or nothing.
THEOREM StoreIsAtomicFile == Spec => ImplementsAtomicFile
<1>1. ASSUME Init PROVE File!Init
  BY <1>1 DEF Init, File!Init, Content
<1>2. ASSUME TypeOK, IInv, [Next]_vars PROVE [File!Next]_(File!vars)
  <2>1. CASE /\ Content(target)' = Content(target)
             /\ Content(durable)' \in {Content(durable), Content(target)}
    BY <2>1 DEF File!Next, File!Flush, File!vars
  <2>2. CASE /\ Content(target)' = data[saver.file] /\ data[saver.file] \in Values
             /\ Content(durable)' = Content(durable)
    BY <2>2 DEF File!Next, File!Replace
  <2>3. CASE /\ Content(target)' = Content(durable)
             /\ Content(durable)' = Content(durable)
    BY <2>3 DEF File!Next, File!PowerLoss
  <2>4. QED
    BY <1>2, <2>1, <2>2, <2>3, ContentStep
<1>3. QED
  BY <1>1, <1>2, StoreTypes, StoreSound, PTL DEF Spec, ImplementsAtomicFile, File!Spec

\* Whoever reads the state file reads a whole state, whatever fails.
THEOREM FilesStayWhole == Spec => []FilesAreWhole
  BY StoreTypes, FileIsWhole, LoadsSeeStates, PTL DEF FilesAreWhole

-----------------------------------------------------------------------------
(* What is left when Save has returned.                                    *)

\* The renamed file has no temporary name, and what was acknowledged has
\* reached the medium.
FinishedInv ==
  /\ saver.pc = "syncdir" => saver.file \notin temps
  /\ AcknowledgedIsDurable

\* No step leaves anything behind.
LEMMA FinishedStep ==
  ASSUME TypeOK, FinishedInv, [Next]_vars
  PROVE  TempIsRemoved /\ FinishedInv'
<1>a. saver \in Saver /\ faults \in Nat
  BY DEF TypeOK
<1>1. ASSUME NEW v \in Values, Create(v) PROVE TempIsRemoved /\ FinishedInv'
  BY <1>1 DEF Create, TempIsRemoved, FinishedInv, AcknowledgedIsDurable
<1>2. CASE CreateFails
  <2>1. /\ saver.pc = "idle" /\ saver'.pc = "idle" /\ saver'.result = "error"
    BY <1>2, <1>a DEF CreateFails, Saver
  <2>2. QED
    BY <2>1 DEF TempIsRemoved, FinishedInv, AcknowledgedIsDurable
<1>3. ASSUME NEW n \in 1..Length, Write(n) PROVE TempIsRemoved /\ FinishedInv'
  <2>1. saver'.pc \in {"write", "sync"}
    BY <1>3, <1>a DEF Write, Saver
  <2>2. QED
    BY <2>1 DEF TempIsRemoved, FinishedInv, AcknowledgedIsDurable
<1>4. CASE Sync \/ CloseTemp \/ StepFails
  <2>1. saver'.pc \in {"close", "rename", "cleanup"}
    BY <1>4, <1>a DEF Sync, CloseTemp, StepFails, Saver
  <2>2. QED
    BY <2>1 DEF TempIsRemoved, FinishedInv, AcknowledgedIsDurable
<1>5. CASE Rename
  <2>1. saver'.pc = "syncdir" /\ saver'.file = saver.file /\ saver.file \notin temps'
    BY <1>5, <1>a DEF Rename, Saver
  <2>2. QED
    BY <2>1 DEF TempIsRemoved, FinishedInv, AcknowledgedIsDurable
<1>6. CASE SyncDir
  <2>1. /\ saver.pc = "syncdir" /\ temps' = temps /\ saver'.pc = "idle"
        /\ durable' = target /\ target' = target
    BY <1>6, <1>a DEF SyncDir, Saver
  <2>2. QED
    BY <2>1 DEF TempIsRemoved, FinishedInv, AcknowledgedIsDurable
<1>7. CASE SyncDirFails \/ RemoveFails \/ Die \/ PowerLoss
  <2>1. faults' # faults
    BY <1>7, <1>a DEF SyncDirFails, RemoveFails, Die, PowerLoss, Fault
  <2>2. CASE SyncDirFails
    <3>1. saver'.pc = "idle" /\ unflushed' = TRUE
      BY <2>2, <1>a DEF SyncDirFails, Saver
    <3>2. QED
      BY <2>1, <3>1 DEF TempIsRemoved, FinishedInv, AcknowledgedIsDurable
  <2>3. CASE RemoveFails
    <3>1. saver'.pc = "idle" /\ saver'.result = "error"
      BY <2>3, <1>a DEF RemoveFails, Saver
    <3>2. QED
      BY <2>1, <3>1 DEF TempIsRemoved, FinishedInv, AcknowledgedIsDurable
  <2>4. CASE Die \/ PowerLoss
    <3>1. saver' = IdleSaver
      BY <2>4 DEF Die, PowerLoss
    <3>2. saver'.pc = "idle" /\ saver'.result = "none"
      BY <3>1 DEF IdleSaver
    <3>3. QED
      BY <2>1, <3>2 DEF TempIsRemoved, FinishedInv, AcknowledgedIsDurable
  <2>5. QED
    BY <1>7, <2>2, <2>3, <2>4
<1>8. CASE Cleanup
  <2>1. saver.file \notin temps' /\ saver'.pc = "idle" /\ saver'.result = "error"
    BY <1>8, <1>a DEF Cleanup, Saver
  <2>2. QED
    BY <2>1 DEF TempIsRemoved, FinishedInv, AcknowledgedIsDurable
<1>9. CASE Writeback
  <2>1. saver' = saver /\ temps' = temps /\ target' = target /\ durable' = target
    BY <1>9 DEF Writeback
  <2>2. QED
    BY <2>1 DEF TempIsRemoved, FinishedInv, AcknowledgedIsDurable
<1>10. CASE (\E r \in Readers : Open(r) \/ Read(r)) \/ UNCHANGED vars
  <2>1. UNCHANGED <<saver, temps, target, durable, unflushed>>
    BY <1>10 DEF Open, Read, vars
  <2>2. QED
    BY <2>1 DEF TempIsRemoved, FinishedInv, AcknowledgedIsDurable
<1>11. QED
  BY <1>1, <1>2, <1>3, <1>4, <1>5, <1>6, <1>7, <1>8, <1>9, <1>10 DEF Next, Save

\* Once Save has returned, its temporary file is gone unless removing it
\* failed, and what it stored survives a power loss unless the sync of the
\* directory failed.
THEOREM SavesFinish == Spec => SaveIsFinished
<1>1. Init => FinishedInv
  BY DEF Init, IdleSaver, FinishedInv, AcknowledgedIsDurable
<1>2. TypeOK /\ FinishedInv /\ [Next]_vars =>
        TempIsRemoved /\ AcknowledgedIsDurable' /\ FinishedInv'
  BY FinishedStep DEF FinishedInv
<1>3. QED
  BY <1>1, <1>2, StoreTypes, PTL DEF Spec, SaveIsFinished

=============================================================================
