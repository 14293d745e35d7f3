---------------------------- MODULE WorkerProofs -----------------------------
(* What the threads do beside the traffic, for any number of threads, clients, *)
(* tasks, descriptors and saves: every task is done once and in its order, the *)
(* keep-alive checks find every client that is silent and no other, a state    *)
(* file survives crashes and power cuts at every step of a save, and the       *)
(* threads stop in order.                                                     *)
EXTENDS StateFile, KeepAlive, Shutdown, FiniteSetTheorems, SequenceTheorems,
        WellFoundedInduction, TLAPS

-----------------------------------------------------------------------------
(* The larger and the smaller of two numbers, and a number of one word        *)

LEMMA MaxOfTwo ==
    ASSUME NEW a \in Int, NEW b \in Int
    PROVE  Max({a, b}) = IF a >= b THEN a ELSE b
<1> DEFINE m == IF a >= b THEN a ELSE b
<1>1. m \in {a, b} /\ \A y \in {a, b} : m >= y
    OBVIOUS
<1>2. \A x \in {a, b} : (\A y \in {a, b} : x >= y) => x = m
    OBVIOUS
<1> QED
    BY <1>1, <1>2 DEF Max

LEMMA MinOfTwo ==
    ASSUME NEW a \in Int, NEW b \in Int
    PROVE  Min({a, b}) = IF a =< b THEN a ELSE b
<1> DEFINE m == IF a =< b THEN a ELSE b
<1>1. m \in {a, b} /\ \A y \in {a, b} : m =< y
    OBVIOUS
<1>2. \A x \in {a, b} : (\A y \in {a, b} : x =< y) => x = m
    OBVIOUS
<1> QED
    BY <1>1, <1>2 DEF Min

LEMMA OneWord ==
    ASSUME NEW v \in Nat, v < Word \div 2
    PROVE  readInt64(v) = v
<1>1. v % Word = v
    BY WordAssumption
<1> QED
    BY <1>1 DEF readInt64

-----------------------------------------------------------------------------
(* The inductive invariant                                                   *)

\* No name and no load is ahead of the saves.
NumbersInOrder ==
    /\ target <= started /\ durable <= started
    /\ finished <= started /\ loaded.number <= started

\* Until it is renamed, nothing but the save knows its file, and when it is, the
\* file is hashed and on disk.
SaveIsOnItsOwn ==
    /\ save.at # "idle" => broker = "runs" /\ started # 0
    /\ save.at \in {"opens", "writes", "hashes", "flushes", "renames"} =>
          target # started /\ durable # started /\ loaded.number # started
    /\ save.at \in {"flushes", "renames"} => file[started].hash = file[started].rows
    /\ save.at = "renames" => file[started].synced
    /\ save.at = "syncs" => target = started

\* What the name stands for, here or on disk, is there and as it was hashed.
IsOnDisk(t) == t # 0 => file[t].synced /\ (damages = 0 => file[t].hash = file[t].rows)

LoadedIsOnDisk ==
    loaded.number # 0 => file[loaded.number].synced /\ loaded.rows = file[loaded.number].hash

FileIInv ==
    /\ FileTypeOK /\ NumbersInOrder /\ SaveIsOnItsOwn
    /\ IsOnDisk(target) /\ IsOnDisk(durable)
    /\ LoadedIsOnDisk /\ FinishedIsKept

LEMMA NoSaveIsIdle ==
    /\ NoSave.at = "idle"
    /\ NoSave \in SaveStates
BY FileBoundsAssumption DEF NoSave, SaveStates

LEMMA NothingLoadedHasNoFile ==
    NothingLoaded.number = 0
BY DEF NothingLoaded

LEMMA FileInitIInv ==
    FileInit => FileIInv
<1> SUFFICES ASSUME FileInit PROVE FileIInv
    OBVIOUS
<1>1. file \in [Saves -> Files]
    BY FileBoundsAssumption DEF FileInit, Files
<1>2. FileTypeOK /\ NumbersInOrder
    <2>1. 0 \in 0..MaxSaves /\ 0 \in 0..MaxDamage
        BY FileBoundsAssumption
    <2>2. quits \in BOOLEAN
        BY Zenon DEF FileInit
    <2>3. /\ save = NoSave /\ started = 0 /\ finished = 0 /\ target = 0 /\ durable = 0
          /\ broker = "runs" /\ loaded = NothingLoaded /\ damages = 0
        BY DEF FileInit
    <2> QED
        BY <1>1, <2>1, <2>2, <2>3, NoSaveIsIdle, NothingLoadedHasNoFile
            DEF FileTypeOK, NumbersInOrder
<1>3. SaveIsOnItsOwn
    BY NoSaveIsIdle DEF FileInit, SaveIsOnItsOwn
<1>4. IsOnDisk(target) /\ IsOnDisk(durable) /\ LoadedIsOnDisk /\ FinishedIsKept
    BY DEF FileInit, IsOnDisk, LoadedIsOnDisk, FinishedIsKept, NothingLoaded
<1> QED
    BY <1>2, <1>3, <1>4 DEF FileIInv

LEMMA StartSaveKeepsIInv ==
    ASSUME FileIInv, StartSave
    PROVE  FileIInv'
<1>1. FileTypeOK' /\ NumbersInOrder'
    BY FileBoundsAssumption DEF FileIInv, StartSave, FileTypeOK, SaveStates, NumbersInOrder, othersOfSave
<1>2. SaveIsOnItsOwn'
    BY DEF FileIInv, StartSave, FileTypeOK, NumbersInOrder, SaveIsOnItsOwn, othersOfSave
<1>3. IsOnDisk(target)' /\ IsOnDisk(durable)' /\ LoadedIsOnDisk' /\ FinishedIsKept'
    BY DEF FileIInv, StartSave, IsOnDisk, LoadedIsOnDisk, FinishedIsKept, othersOfSave
<1> QED
    BY <1>1, <1>2, <1>3 DEF FileIInv

\* A step that writes to the file of the save, and to no other.
LEMMA OwnFileKeepsOthers ==
    ASSUME FileIInv, save.at \in {"opens", "writes", "hashes", "flushes"},
           \A n \in Saves : n # started => file'[n] = file[n],
           UNCHANGED <<target, durable, finished, loaded, damages>>
    PROVE  IsOnDisk(target)' /\ IsOnDisk(durable)' /\ LoadedIsOnDisk' /\ FinishedIsKept'
<1>1. \A n \in {target, durable, loaded.number} : n # 0 => file'[n] = file[n]
    BY DEF FileIInv, FileTypeOK, SaveIsOnItsOwn, Saves
<1> QED
    BY <1>1 DEF FileIInv, IsOnDisk, LoadedIsOnDisk, FinishedIsKept

LEMMA OpenWriteKeepsIInv ==
    ASSUME FileIInv, OpenWrite
    PROVE  FileIInv'
<1>0. started \in Saves
    BY DEF FileIInv, OpenWrite, FileTypeOK, SaveIsOnItsOwn, Saves
<1>a. file' \in [Saves -> Files]
    <2>1. CASE UNCHANGED file
        BY <2>1 DEF FileIInv, FileTypeOK
    <2>2. ASSUME NEW time \in Clock, NEW s \in Sessions,
                 file' = [file EXCEPT ![started].savedAt = time, ![started].session = s]
          PROVE  file' \in [Saves -> Files]
        BY <1>0, <2>2 DEF FileIInv, FileTypeOK, Files
    <2> QED
        BY <2>1, <2>2 DEF OpenWrite
<1>b. save' \in SaveStates
    BY NoSaveIsIdle DEF FileIInv, OpenWrite, MayFail, FileTypeOK, SaveStates
<1>1. FileTypeOK' /\ NumbersInOrder'
    BY <1>a, <1>b DEF FileIInv, OpenWrite, FileTypeOK, NumbersInOrder, othersOfSave
<1>2. SaveIsOnItsOwn'
    BY NoSaveIsIdle DEF FileIInv, OpenWrite, MayFail, SaveIsOnItsOwn, FileTypeOK, SaveStates, othersOfSave
<1>3. \A n \in Saves : n # started => file'[n] = file[n]
    BY DEF FileIInv, OpenWrite, MayFail, FileTypeOK
<1> QED
    BY <1>1, <1>2, <1>3, OwnFileKeepsOthers DEF FileIInv, OpenWrite, othersOfSave

LEMMA WriteRowKeepsIInv ==
    ASSUME FileIInv, WriteRow
    PROVE  FileIInv'
<1>0. started \in Saves
    BY DEF FileIInv, WriteRow, FileTypeOK, SaveIsOnItsOwn, Saves
<1>a. file' \in [Saves -> Files] /\ save' \in SaveStates
    BY <1>0, FileBoundsAssumption DEF FileIInv, WriteRow, FileTypeOK, Files, SaveStates
<1>1. FileTypeOK' /\ NumbersInOrder'
    BY <1>a DEF FileIInv, WriteRow, FileTypeOK, NumbersInOrder, othersOfSave
<1>2. SaveIsOnItsOwn'
    BY DEF FileIInv, WriteRow, SaveIsOnItsOwn, FileTypeOK, SaveStates, othersOfSave
<1>3. \A n \in Saves : n # started => file'[n] = file[n]
    BY DEF FileIInv, WriteRow, FileTypeOK
<1> QED
    BY <1>1, <1>2, <1>3, OwnFileKeepsOthers DEF FileIInv, WriteRow, othersOfSave

LEMMA hashFileKeepsIInv ==
    ASSUME FileIInv, hashFile
    PROVE  FileIInv'
<1>0. started \in Saves
    BY DEF FileIInv, hashFile, FileTypeOK, SaveIsOnItsOwn, Saves
<1>a. file' \in [Saves -> Files] /\ save' \in SaveStates
    BY <1>0, FileBoundsAssumption DEF FileIInv, hashFile, FileTypeOK, Files, SaveStates
<1>1. FileTypeOK' /\ NumbersInOrder'
    BY <1>a DEF FileIInv, hashFile, FileTypeOK, NumbersInOrder, othersOfSave
<1>2. SaveIsOnItsOwn'
    BY <1>0 DEF FileIInv, hashFile, SaveIsOnItsOwn, FileTypeOK, othersOfSave
<1>3. \A n \in Saves : n # started => file'[n] = file[n]
    BY DEF FileIInv, hashFile, FileTypeOK
<1> QED
    BY <1>1, <1>2, <1>3, OwnFileKeepsOthers DEF FileIInv, hashFile, othersOfSave

LEMMA FlushAndSyncKeepsIInv ==
    ASSUME FileIInv, FlushAndSync
    PROVE  FileIInv'
<1>0. started \in Saves
    BY DEF FileIInv, FlushAndSync, FileTypeOK, SaveIsOnItsOwn, Saves
<1>a. file' \in [Saves -> Files]
    BY <1>0 DEF FileIInv, FlushAndSync, FileTypeOK, Files
<1>b. save' \in SaveStates
    BY NoSaveIsIdle DEF FileIInv, FlushAndSync, MayFail, FileTypeOK, SaveStates
<1>1. FileTypeOK' /\ NumbersInOrder'
    BY <1>a, <1>b DEF FileIInv, FlushAndSync, FileTypeOK, NumbersInOrder, othersOfSave
<1>2. SaveIsOnItsOwn'
    <2>1. CASE save' = NoSave
        BY <2>1, NoSaveIsIdle DEF SaveIsOnItsOwn
    <2>2. CASE /\ save' = [save EXCEPT !.at = "renames"]
               /\ file' = [file EXCEPT ![started].synced = TRUE]
        <3>1. save'.at = "renames"
            BY <2>2 DEF FileIInv, FileTypeOK, SaveStates
        <3>2. /\ file'[started].synced /\ file'[started].hash = file[started].hash
              /\ file'[started].rows = file[started].rows
            BY <1>0, <2>2 DEF FileIInv, FileTypeOK, Files
        <3> QED
            BY <3>1, <3>2 DEF FileIInv, FlushAndSync, SaveIsOnItsOwn, othersOfSave
    <2> QED
        BY <2>1, <2>2 DEF FlushAndSync, MayFail
<1>3. \A n \in Saves : n # started => file'[n] = file[n]
    BY DEF FileIInv, FlushAndSync, MayFail, FileTypeOK
<1> QED
    BY <1>1, <1>2, <1>3, OwnFileKeepsOthers DEF FileIInv, FlushAndSync, othersOfSave

\* A step that changes no file and no name.
LEMMA NoFileKeepsIInv ==
    ASSUME FileIInv, WriteFails \/ Discard \/ QuitBroker \/ Kill \/ UNCHANGED fileVars
    PROVE  FileIInv'
<1>1. UNCHANGED <<started, file, target, durable, finished, loaded, damages>>
    BY DEF WriteFails, Discard, QuitBroker, Kill, fileVars, othersOfSave
<1>2. \/ save' = NoSave \/ UNCHANGED <<save, broker>>
      \/ save.at = "writes" /\ save' = [save EXCEPT !.at = "hashes"] /\ broker' = broker
    BY DEF WriteFails, Discard, QuitBroker, Kill, fileVars, othersOfSave
<1>3. FileTypeOK'
    BY NoSaveIsIdle, <1>1, <1>2, FileBoundsAssumption DEF FileIInv, FileTypeOK, SaveStates, WriteFails, Discard,
        QuitBroker, Kill, fileVars, othersOfSave
<1>4. SaveIsOnItsOwn'
    BY NoSaveIsIdle, <1>1, <1>2 DEF FileIInv, FileTypeOK, SaveStates, SaveIsOnItsOwn
<1>5. /\ NumbersInOrder' /\ IsOnDisk(target)' /\ IsOnDisk(durable)'
      /\ LoadedIsOnDisk' /\ FinishedIsKept'
    BY <1>1 DEF FileIInv, NumbersInOrder, IsOnDisk, LoadedIsOnDisk, FinishedIsKept
<1> QED
    BY <1>3, <1>4, <1>5 DEF FileIInv

LEMMA RenameKeepsIInv ==
    ASSUME FileIInv, Rename
    PROVE  FileIInv'
<1>1. FileTypeOK' /\ NumbersInOrder'
    BY NoSaveIsIdle, FileBoundsAssumption DEF FileIInv, Rename, MayFail, FileTypeOK, SaveStates, NumbersInOrder,
        othersOfSave
<1>2. SaveIsOnItsOwn'
    BY NoSaveIsIdle DEF FileIInv, Rename, MayFail, SaveIsOnItsOwn, FileTypeOK, SaveStates, othersOfSave
<1>3. IsOnDisk(target)' /\ IsOnDisk(durable)'
    BY DEF FileIInv, Rename, SaveIsOnItsOwn, IsOnDisk, othersOfSave
<1>4. LoadedIsOnDisk' /\ FinishedIsKept'
    BY DEF FileIInv, Rename, NumbersInOrder, LoadedIsOnDisk, FinishedIsKept, othersOfSave
<1> QED
    BY <1>1, <1>2, <1>3, <1>4 DEF FileIInv

LEMMA SyncDirectoryKeepsIInv ==
    ASSUME FileIInv, SyncDirectory
    PROVE  FileIInv'
<1>1. FileTypeOK' /\ NumbersInOrder'
    BY NoSaveIsIdle, FileBoundsAssumption DEF FileIInv, SyncDirectory, FileTypeOK, NumbersInOrder,
        othersOfSave
<1>2. SaveIsOnItsOwn' /\ IsOnDisk(target)' /\ IsOnDisk(durable)' /\ LoadedIsOnDisk'
    BY NoSaveIsIdle DEF FileIInv, SyncDirectory, SaveIsOnItsOwn, IsOnDisk, LoadedIsOnDisk, othersOfSave
<1>3. FinishedIsKept'
    BY DEF FileIInv, SyncDirectory, SaveIsOnItsOwn, FileTypeOK, FinishedIsKept, othersOfSave
<1> QED
    BY <1>1, <1>2, <1>3 DEF FileIInv

LEMMA PowerCutKeepsIInv ==
    ASSUME FileIInv, PowerCut
    PROVE  FileIInv'
<1>1. PICK n \in 0..Rows, hashIsLost \in BOOLEAN :
          file' = [s \in Saves |->
                      IF file[s].synced THEN file[s]
                      ELSE [file[s] EXCEPT !.rows = Min({n, @}),
                                           !.hash = IF hashIsLost THEN NoHash ELSE @]]
    BY DEF PowerCut
<1>2. \A s \in Saves : file[s].synced => file'[s] = file[s]
    BY <1>1
<1>3. file' \in [Saves -> Files]
    <2>1. \A s \in Saves : Min({n, file[s].rows}) \in 0..Rows
        BY MinOfTwo, FileBoundsAssumption DEF FileIInv, FileTypeOK, Files
    <2> QED
        BY <1>1, <2>1 DEF FileIInv, FileTypeOK, Files
<1>4. FileTypeOK' /\ NumbersInOrder'
    BY NoSaveIsIdle, <1>3, FileBoundsAssumption DEF FileIInv, PowerCut, FileTypeOK, NumbersInOrder
<1>5. SaveIsOnItsOwn'
    BY NoSaveIsIdle DEF FileIInv, PowerCut, SaveIsOnItsOwn
<1>6. IsOnDisk(target)' /\ IsOnDisk(durable)' /\ LoadedIsOnDisk' /\ FinishedIsKept'
    <2>1. /\ target' \in {target, durable} /\ durable' = target'
          /\ UNCHANGED <<finished, loaded, damages>>
        BY DEF PowerCut
    <2>2. \A s \in {target, durable, loaded.number} :
              s # 0 => s \in Saves /\ (file[s].synced => file'[s] = file[s])
        BY <1>2 DEF FileIInv, FileTypeOK, Saves
    <2> QED
        BY <2>1, <2>2 DEF FileIInv, IsOnDisk, LoadedIsOnDisk, FinishedIsKept
<1> QED
    BY <1>4, <1>5, <1>6 DEF FileIInv

LEMMA DamageKeepsIInv ==
    ASSUME FileIInv, Damage
    PROVE  FileIInv'
<1>0. target \in Saves /\ damages' # 0
    BY FileBoundsAssumption DEF FileIInv, Damage, FileTypeOK, Saves
<1>1. PICK n \in 0..(file[target].rows - 1) : file' = [file EXCEPT ![target].rows = n]
    BY DEF Damage
<1>2. \A s \in Saves : /\ file'[s].synced = file[s].synced /\ file'[s].hash = file[s].hash
    BY <1>0, <1>1 DEF FileIInv, FileTypeOK, Files
<1>3. FileTypeOK' /\ NumbersInOrder'
    <2>1. n \in 0..Rows
        BY <1>0, FileBoundsAssumption DEF FileIInv, FileTypeOK, Files
    <2>2. file' \in [Saves -> Files]
        BY <1>0, <1>1, <2>1 DEF FileIInv, FileTypeOK, Files
    <2> QED
        BY <2>2, FileBoundsAssumption DEF FileIInv, Damage, FileTypeOK, NumbersInOrder
<1>4. SaveIsOnItsOwn'
    BY DEF FileIInv, Damage, SaveIsOnItsOwn
<1>5. IsOnDisk(target)' /\ IsOnDisk(durable)' /\ LoadedIsOnDisk' /\ FinishedIsKept'
    BY <1>0, <1>2 DEF FileIInv, Damage, FileTypeOK, IsOnDisk, LoadedIsOnDisk, FinishedIsKept, Saves
<1> QED
    BY <1>3, <1>4, <1>5 DEF FileIInv

LEMMA LoadKeepsIInv ==
    ASSUME FileIInv, Load
    PROVE  FileIInv'
<1>1. \/ loaded'.number = 0
      \/ target # 0 /\ loaded'.number = target /\ loaded'.rows = file[target].rows
    <2>1. CASE target = 0
        BY <2>1, NothingLoadedHasNoFile DEF Load
    <2>2. CASE target # 0
        <3>1. PICK time \in Clock :
                  loaded' = LET f == file[target]
                                age == persistence_state_age(readInt64(f.savedAt), time)
                            IN  [number |-> target, rows |-> f.rows,
                                 elapsed |-> Max({0, time - f.savedAt}),
                                 expiry |-> compensatedSessionExpiry(f.session.expiry, age),
                                 delay |-> stateAgecompensatedWillDelay(f.session, age)]
            BY <2>2 DEF Load
        <3> QED
            BY <2>2, <3>1
    <2> QED
        BY <2>1, <2>2
<1>2. FileTypeOK' /\ NumbersInOrder'
    <2>1. quits' \in BOOLEAN
        BY Zenon DEF Load
    <2> QED
        BY <1>1, <2>1, FileBoundsAssumption DEF FileIInv, Load, FileTypeOK, NumbersInOrder
<1>3. SaveIsOnItsOwn'
    BY DEF FileIInv, Load, SaveIsOnItsOwn
<1>4. IsOnDisk(target)' /\ IsOnDisk(durable)' /\ FinishedIsKept'
    BY DEF FileIInv, Load, IsOnDisk, FinishedIsKept
<1>5. LoadedIsOnDisk'
    BY <1>1 DEF FileIInv, Load, verifyHash, IsOnDisk, LoadedIsOnDisk
<1> QED
    BY <1>2, <1>3, <1>4, <1>5 DEF FileIInv

LEMMA MoveAsideKeepsIInv ==
    ASSUME FileIInv, MoveAside
    PROVE  FileIInv'
<1>1. FileTypeOK' /\ NumbersInOrder'
    BY FileBoundsAssumption DEF FileIInv, MoveAside, FileTypeOK, NumbersInOrder
<1>2. SaveIsOnItsOwn' /\ IsOnDisk(target)' /\ IsOnDisk(durable)' /\ LoadedIsOnDisk'
    BY DEF FileIInv, MoveAside, SaveIsOnItsOwn, IsOnDisk, LoadedIsOnDisk
<1>3. damages # 0
    BY DEF FileIInv, MoveAside, verifyHash, IsOnDisk
<1> QED
    BY <1>1, <1>2, <1>3 DEF FileIInv, MoveAside, FinishedIsKept

LEMMA FileStepKeepsIInv ==
    FileIInv /\ [FileNext]_fileVars => FileIInv'
BY StartSaveKeepsIInv, OpenWriteKeepsIInv, WriteRowKeepsIInv, hashFileKeepsIInv,
    FlushAndSyncKeepsIInv, NoFileKeepsIInv, RenameKeepsIInv, SyncDirectoryKeepsIInv,
    PowerCutKeepsIInv, DamageKeepsIInv, LoadKeepsIInv, MoveAsideKeepsIInv
    DEF FileNext, SaveStep

LEMMA FileInvariant ==
    FileSpec => []FileIInv
BY FileInitIInv, FileStepKeepsIInv, PTL DEF FileSpec

\* No write fails.
WritesSucceed == "write" \notin FailingSteps

\* The rows that the save has counted are in its file, and all of them are before
\* it is hashed.
AllIsWritten ==
    /\ save.at \in {"opens", "writes"} => file[started].rows >= save.rows
    /\ save.at = "hashes" => file[started].rows = Rows
    /\ save.at \in {"flushes", "renames", "syncs"} => file[started].hash = Rows
    /\ \A t \in {target, durable, loaded.number} \ {0} : file[t].hash = Rows

LEMMA NothingIsWritten ==
    FileInit => AllIsWritten
BY NoSaveIsIdle, NothingLoadedHasNoFile DEF FileInit, AllIsWritten

\* The steps of a save before the rename.
LEMMA WritingIsComplete ==
    ASSUME FileIInv, WritesSucceed, AllIsWritten,
           OpenWrite \/ WriteRow \/ WriteFails \/ hashFile \/ FlushAndSync
    PROVE  AllIsWritten'
<1>0. started \in Saves /\ file[started] \in Files /\ save \in SaveStates /\ Rows \in Nat
    BY FileBoundsAssumption DEF FileIInv, FileTypeOK, SaveIsOnItsOwn, Saves, OpenWrite, WriteRow,
        WriteFails, hashFile, FlushAndSync
<1>1. /\ \A n \in Saves : n # started => file'[n] = file[n]
      /\ UNCHANGED <<started, target, durable, loaded>>
    BY DEF FileIInv, FileTypeOK, OpenWrite, WriteRow, WriteFails, hashFile, FlushAndSync, MayFail,
        othersOfSave
<1>2. started \notin {target, durable, loaded.number}
    BY DEF FileIInv, SaveIsOnItsOwn, OpenWrite, WriteRow, WriteFails, hashFile, FlushAndSync
<1>3. \A t \in {target, durable, loaded.number}' \ {0} : file'[t].hash = Rows
    <2>1. {target, durable, loaded.number} \ {0} \subseteq Saves
        BY DEF FileIInv, FileTypeOK, Saves
    <2> QED
        BY <1>1, <1>2, <2>1 DEF AllIsWritten
<1>4. CASE OpenWrite
    <2>1. CASE save' = NoSave
        BY <1>3, <2>1, NoSaveIsIdle DEF AllIsWritten
    <2>2. CASE save' = [save EXCEPT !.at = "writes"]
        <3>1. save'.at = "writes" /\ save'.rows = save.rows
            BY <1>0, <2>2 DEF SaveStates
        <3>2. file'[started].rows = file[started].rows
            BY <1>0, <1>4 DEF OpenWrite, FileIInv, FileTypeOK, Files
        <3> QED
            BY <1>1, <1>3, <1>4, <3>1, <3>2 DEF AllIsWritten, OpenWrite
    <2> QED
        BY <1>4, <2>1, <2>2 DEF OpenWrite, MayFail
<1>5. CASE WriteRow
    <2>1. CASE save.rows < Rows
        <3>1. save'.at = "writes" /\ save'.rows = save.rows + 1
            BY <1>0, <1>5, <2>1 DEF WriteRow, SaveStates
        <3>2. file'[started].rows = save.rows + 1
            BY <1>0, <1>5, <2>1 DEF WriteRow, FileIInv, FileTypeOK, Files
        <3>3. save'.rows \in Int
            BY <1>0, <3>1 DEF SaveStates
        <3> QED
            BY <1>1, <1>3, <3>1, <3>2, <3>3 DEF AllIsWritten
    <2>2. CASE ~(save.rows < Rows)
        <3>1. save'.at = "hashes" /\ file' = file /\ save.rows = Rows
            BY <1>0, <1>5, <2>2 DEF WriteRow, SaveStates
        <3>2. file[started].rows = Rows
            BY <1>0, <1>5, <3>1 DEF AllIsWritten, WriteRow, Files
        <3> QED
            BY <1>1, <1>3, <3>1, <3>2 DEF AllIsWritten
    <2> QED
        BY <2>1, <2>2
<1>6. CASE hashFile
    <2>1. save'.at = "flushes"
        BY <1>0, <1>6 DEF hashFile, SaveStates
    <2>2. file'[started].hash = Rows
        BY <1>0, <1>6 DEF hashFile, AllIsWritten, FileIInv, FileTypeOK, Files
    <2> QED
        BY <1>1, <1>3, <2>1, <2>2 DEF AllIsWritten
<1>7. CASE FlushAndSync
    <2>1. CASE save' = NoSave
        BY <1>3, <2>1, NoSaveIsIdle DEF AllIsWritten
    <2>2. CASE save' = [save EXCEPT !.at = "renames"]
        <3>1. save'.at = "renames"
            BY <1>0, <2>2 DEF SaveStates
        <3>2. file'[started].hash = Rows
            BY <1>0, <1>7 DEF FlushAndSync, AllIsWritten, FileIInv, FileTypeOK, Files
        <3> QED
            BY <1>1, <1>3, <3>1, <3>2 DEF AllIsWritten
    <2> QED
        BY <1>7, <2>1, <2>2 DEF FlushAndSync, MayFail
<1> QED
    BY <1>4, <1>5, <1>6, <1>7 DEF WriteFails, WritesSucceed

\* The steps that write to no file and start no save.
LEMMA NamingIsComplete ==
    ASSUME FileIInv, AllIsWritten,
           \/ Rename \/ SyncDirectory \/ Discard \/ QuitBroker \/ Kill \/ Load \/ MoveAside
           \/ UNCHANGED fileVars
    PROVE  AllIsWritten'
<1>1. UNCHANGED <<file, started>>
    BY DEF Rename, SyncDirectory, Discard, QuitBroker, Kill, Load, MoveAside, fileVars, othersOfSave
<1>2. \/ save' = NoSave \/ UNCHANGED save
      \/ save.at = "renames" /\ save'.at = "syncs"
    BY DEF Rename, SyncDirectory, Discard, QuitBroker, Kill, Load, MoveAside, MayFail, fileVars,
        othersOfSave, FileIInv, FileTypeOK, SaveStates
<1>3. \/ {target, durable, loaded.number}' \subseteq {0, target, durable, loaded.number}
      \/ save.at = "renames" /\ target' = started /\ UNCHANGED <<durable, loaded>>
    <2>1. CASE Load
        <3>1. loaded'.number \in {0, target}
            <4>1. CASE target = 0
                BY <2>1, <4>1, NothingLoadedHasNoFile DEF Load
            <4>2. CASE target # 0
                <5>1. PICK time \in Clock :
                          loaded' = LET f == file[target]
                                        age == persistence_state_age(readInt64(f.savedAt), time)
                                    IN  [number |-> target, rows |-> f.rows,
                                         elapsed |-> Max({0, time - f.savedAt}),
                                         expiry |-> compensatedSessionExpiry(f.session.expiry, age),
                                         delay |-> stateAgecompensatedWillDelay(f.session, age)]
                    BY <2>1, <4>2 DEF Load
                <5> QED
                    BY <4>2, <5>1
            <4> QED
                BY <4>1, <4>2
        <3> QED
            BY <2>1, <3>1 DEF Load
    <2> QED
        BY <2>1 DEF Rename, SyncDirectory, Discard, QuitBroker, Kill, MoveAside, MayFail, fileVars,
            othersOfSave
<1>4. \A t \in {target, durable, loaded.number}' \ {0} : file'[t].hash = Rows
    BY <1>1, <1>3 DEF AllIsWritten
<1> QED
    BY <1>1, <1>2, <1>4, NoSaveIsIdle DEF AllIsWritten

\* The steps from a save to the next, and the faults that change files.
LEMMA FaultsAreComplete ==
    ASSUME FileIInv, AllIsWritten, StartSave \/ PowerCut \/ Damage
    PROVE  AllIsWritten'
<1>1. CASE StartSave
    <2>1. save' = [at |-> "opens", rows |-> 0] /\ started' \in Saves
        BY <1>1, FileBoundsAssumption DEF StartSave, FileIInv, FileTypeOK, Saves
    <2>2. file'[started'].rows >= 0
        BY <1>1, <2>1 DEF StartSave, FileIInv, FileTypeOK, Files
    <2> QED
        BY <1>1, <2>1, <2>2 DEF StartSave, AllIsWritten, othersOfSave
<1>2. CASE PowerCut
    <2>0. PICK n \in 0..Rows, hashIsLost \in BOOLEAN :
              file' = [s \in Saves |->
                          IF file[s].synced THEN file[s]
                          ELSE [file[s] EXCEPT !.rows = Min({n, @}),
                                               !.hash = IF hashIsLost THEN NoHash ELSE @]]
        BY <1>2 DEF PowerCut
    <2>1. \A s \in Saves : file[s].synced => file'[s] = file[s]
        BY <2>0
    <2>2. /\ save' = NoSave /\ target' \in {target, durable} /\ durable' = target'
          /\ loaded' = loaded
        BY <1>2 DEF PowerCut
    <2>3. \A t \in {target, durable, loaded.number} \ {0} : t \in Saves /\ file[t].synced
        BY DEF FileIInv, FileTypeOK, Saves, IsOnDisk, LoadedIsOnDisk
    <2>4. \A t \in {target, durable, loaded.number}' \ {0} : file'[t].hash = Rows
        BY <2>1, <2>2, <2>3 DEF AllIsWritten
    <2> QED
        BY <2>2, <2>4, NoSaveIsIdle DEF AllIsWritten
<1>3. CASE Damage
    <2>1. \A s \in Saves : file'[s].hash = file[s].hash
        BY <1>3 DEF Damage, FileIInv, FileTypeOK, Files
    <2>2. {target, durable, loaded.number} \ {0} \subseteq Saves
        BY DEF FileIInv, FileTypeOK, Saves
    <2>3. save'.at = "idle"
        BY <1>3 DEF Damage, FileIInv, FileTypeOK, SaveStates, SaveIsOnItsOwn
    <2> QED
        BY <1>3, <2>1, <2>2, <2>3 DEF Damage, AllIsWritten
<1> QED
    BY <1>1, <1>2, <1>3

LEMMA AllStaysWritten ==
    ASSUME WritesSucceed
    PROVE  FileSpec => []AllIsWritten
<1>1. FileIInv /\ AllIsWritten /\ [FileNext]_fileVars => AllIsWritten'
    BY WritingIsComplete, NamingIsComplete, FaultsAreComplete DEF FileNext, SaveStep
<1> QED
    BY <1>1, NothingIsWritten, FileInvariant, PTL DEF FileSpec

\* Whatever is cut off, and whenever: the name stands for a file that is on disk
\* with the rows that were there when it was hashed, no finished save is lost, and
\* what a disk has damaged is not loaded (persistencefile.cpp:149, 419-467).  After
\* a write that failed these may be fewer rows than there should be.
THEOREM SavesSurvive ==
    FileSpec => [](FileTypeOK /\ FileIsWhole /\ FinishedIsKept /\ DamagedIsNotLoaded)
<1>1. FileIInv => FileTypeOK /\ FileIsWhole /\ FinishedIsKept /\ DamagedIsNotLoaded
    BY DEF FileIInv, IsOnDisk, LoadedIsOnDisk, FileIsWhole, DamagedIsNotLoaded
<1> QED
    BY <1>1, FileInvariant, PTL

\* As long as no write fails, the file that the name stands for has all its rows,
\* whichever step is cut off or fails otherwise; and what a start loads always has,
\* also when a disk damages files (persistencefile.cpp:149, 419-467).
THEOREM SavesAreComplete ==
    ASSUME WritesSucceed
    PROVE  FileSpec => [](FileIsComplete /\ (loaded.number # 0 => loaded.rows = Rows))
<1>1. FileIInv /\ AllIsWritten => FileIsComplete /\ (loaded.number # 0 => loaded.rows = Rows)
    BY DEF FileIInv, AllIsWritten, IsOnDisk, LoadedIsOnDisk, FileIsComplete
<1> QED
    BY <1>1, FileInvariant, AllStaysWritten, PTL

-----------------------------------------------------------------------------
(* Time                                                                      *)

\* No step but a load changes what was loaded, or the session in its file.
LEMMA LoadedStays ==
    ASSUME FileIInv, [FileNext]_fileVars, ~Load
    PROVE  /\ loaded' = loaded
           /\ loaded.number # 0 => file'[loaded.number].session = file[loaded.number].session
<1>0. loaded.number # 0 => loaded.number \in Saves
    BY DEF FileIInv, FileTypeOK, Saves
<1>1. CASE OpenWrite \/ WriteRow \/ hashFile \/ FlushAndSync
    <2>1. \A n \in Saves : n # started => file'[n] = file[n]
        BY <1>1 DEF FileIInv, FileTypeOK, OpenWrite, WriteRow, hashFile, FlushAndSync, MayFail
    <2>2. loaded.number # started
        BY <1>1 DEF FileIInv, SaveIsOnItsOwn, OpenWrite, WriteRow, hashFile, FlushAndSync
    <2> QED
        BY <1>0, <1>1, <2>1, <2>2
            DEF OpenWrite, WriteRow, hashFile, FlushAndSync, othersOfSave
<1>2. CASE PowerCut
    BY <1>0, <1>2 DEF FileIInv, LoadedIsOnDisk, PowerCut
<1>3. CASE Damage
    <2>1. PICK n \in 0..(file[target].rows - 1) : file' = [file EXCEPT ![target].rows = n]
        BY <1>3 DEF Damage
    <2> QED
        BY <1>0, <1>3, <2>1 DEF FileIInv, FileTypeOK, Files, Damage
<1>4. CASE \/ StartSave \/ WriteFails \/ Rename \/ SyncDirectory \/ Discard \/ QuitBroker
           \/ Kill \/ MoveAside \/ UNCHANGED fileVars
    BY <1>4 DEF StartSave, WriteFails, Rename, SyncDirectory, Discard, QuitBroker, Kill,
        MoveAside, fileVars, othersOfSave
<1> QED
    BY <1>1, <1>2, <1>3, <1>4 DEF FileNext, SaveStep

\* What is left of an expiry and of a delay after some time.
LEMMA TimeOfLoad ==
    ASSUME NEW s \in Sessions, NEW savedAt \in {0} \cup Clock, NEW time \in Clock,
           \A t \in Clock : t < Word \div 2
    PROVE  LET age == persistence_state_age(readInt64(savedAt), time)
               elapsed == Max({0, time - savedAt})
           IN  /\ compensatedSessionExpiry(s.expiry, age) = Max({0, s.expiry - elapsed})
               /\ stateAgecompensatedWillDelay(s, age)
                     = Max({0, s.delay - s.queuedAge - elapsed})
<1> DEFINE age == persistence_state_age(readInt64(savedAt), time)
           elapsed == Max({0, time - savedAt})
<1>1. savedAt \in Nat /\ time \in Nat /\ savedAt < Word \div 2
    BY ClockAssumption, WordAssumption
<1>2. readInt64(savedAt) = savedAt
    BY <1>1, OneWord
<1>3. elapsed = (IF 0 >= time - savedAt THEN 0 ELSE time - savedAt)
    BY <1>1, MaxOfTwo
<1>4. age = elapsed /\ age \in Nat
    BY <1>1, <1>2, <1>3 DEF persistence_state_age
<1>5. s.expiry \in Nat /\ s.delay \in Nat /\ s.queuedAge \in Nat
    BY SessionsAssumption
<1> HIDE DEF age, elapsed
<1>6. Max({0, s.expiry - age}) = IF 0 >= s.expiry - age THEN 0 ELSE s.expiry - age
    BY <1>4, <1>5, MaxOfTwo
<1>7. Max({0, s.delay - s.queuedAge - age})
          = IF 0 >= s.delay - s.queuedAge - age THEN 0 ELSE s.delay - s.queuedAge - age
    BY <1>4, <1>5, MaxOfTwo
<1>8. compensatedSessionExpiry(s.expiry, age) = Max({0, s.expiry - elapsed})
    BY <1>4, <1>5, <1>6 DEF compensatedSessionExpiry
<1>9. stateAgecompensatedWillDelay(s, age) = Max({0, s.delay - s.queuedAge - elapsed})
    BY <1>4, <1>5, <1>7 DEF stateAgecompensatedWillDelay
<1> QED
    BY <1>8, <1>9 DEF age, elapsed

LEMMA LoadGoesOnInTime ==
    ASSUME FileIInv, Load, \A t \in Clock : t < Word \div 2
    PROVE  TimeWentOn'
<1>1. CASE target = 0
    BY <1>1, NothingLoadedHasNoFile DEF Load, TimeWentOn
<1>2. CASE target # 0
    <2> DEFINE f == file[target]
    <2>1. f.session \in Sessions /\ f.savedAt \in {0} \cup Clock
        BY <1>2 DEF FileIInv, FileTypeOK, Files, Saves
    <2>2. PICK time \in Clock :
              loaded' = LET age == persistence_state_age(readInt64(f.savedAt), time)
                        IN  [number |-> target, rows |-> f.rows,
                             elapsed |-> Max({0, time - f.savedAt}),
                             expiry |-> compensatedSessionExpiry(f.session.expiry, age),
                             delay |-> stateAgecompensatedWillDelay(f.session, age)]
        BY <1>2 DEF Load
    <2>3. file' = file
        BY DEF Load
    <2> QED
        BY <2>1, <2>2, <2>3, TimeOfLoad DEF TimeWentOn
<1> QED
    BY <1>1, <1>2

LEMMA TimeInvariant ==
    ASSUME \A t \in Clock : t < Word \div 2
    PROVE  FileSpec => []TimeWentOn
<1>1. FileInit => TimeWentOn
    BY NothingLoadedHasNoFile DEF FileInit, TimeWentOn
<1>2. FileIInv /\ TimeWentOn /\ [FileNext]_fileVars => TimeWentOn'
    BY LoadedStays, LoadGoesOnInTime DEF TimeWentOn
<1> QED
    BY <1>1, <1>2, FileInvariant, PTL DEF FileSpec

\* A state file survives, and the sessions in it go on as if the broker had not
\* been away, as long as the clock fits in half a word: until 2038
\* (sessionsandsubscriptionsdb.cpp:226-253).
THEOREM FileAlwaysSurvives ==
    ASSUME \A t \in Clock : t < Word \div 2
    PROVE  FileSpec => []FileSurvives
<1>1. FileIsWhole /\ FinishedIsKept /\ DamagedIsNotLoaded /\ TimeWentOn => FileSurvives
    BY DEF FileSurvives
<1> QED
    BY <1>1, SavesSurvive, TimeInvariant, PTL

-----------------------------------------------------------------------------
(* Tasks: sequences and the least of a set of numbers                        *)

LEMMA HasLeast ==
    ASSUME NEW T, T \subseteq Nat, T # {}
    PROVE  \E m \in T : \A k \in T : m <= k
<1>1. PICK m \in T : \A k \in T : ~ (<<k, m>> \in OpToRel(<, Nat))
    BY NatLessThanWellFounded, WFMin
<1>2. \A k \in T : ~ (k < m)
    BY <1>1 DEF OpToRel
<1> QED
    BY <1>2

Numbered(n) == [i \in 1..n |-> i]

LEMMA OneMorePushed ==
    ASSUME NEW s \in Seq(Nat), NEW n \in Nat, s = Numbered(n)
    PROVE  Append(s, n + 1) = Numbered(n + 1)
<1>1. /\ Append(s, n + 1) \in Seq(Nat) /\ Len(Append(s, n + 1)) = n + 1
      /\ \A i \in 1..(n + 1) : Append(s, n + 1)[i] = i
    BY DEF Numbered
<1>2. /\ Numbered(n + 1) \in Seq(Nat) /\ Len(Numbered(n + 1)) = n + 1
      /\ \A i \in 1..(n + 1) : Numbered(n + 1)[i] = i
    BY IsASeq DEF Numbered
<1> QED
    BY <1>1, <1>2, SeqEqual

LEMMA PushedLast ==
    ASSUME NEW s \in Seq(Nat), NEW t \in Seq(Nat), NEW u \in Seq(Nat), NEW x \in Nat
    PROVE  s \o t \o Append(u, x) = Append(s \o t \o u, x)
<1>1. s \o t \in Seq(Nat) /\ s \o t \o u \in Seq(Nat) /\ <<x>> \in Seq(Nat)
    BY ConcatProperties
<1>2. Append(u, x) = u \o <<x>> /\ Append(s \o t \o u, x) = (s \o t \o u) \o <<x>>
    BY <1>1, AppendIsConcat
<1> QED
    BY <1>1, <1>2, ConcatAssociative

LEMMA FirstMoves ==
    ASSUME NEW s \in Seq(Nat), NEW t \in Seq(Nat), t # <<>>
    PROVE  /\ Append(s, Head(t)) \in Seq(Nat) /\ Tail(t) \in Seq(Nat)
           /\ Append(s, Head(t)) \o Tail(t) = s \o t
<1>1. /\ Head(t) \in Nat /\ Tail(t) \in Seq(Nat) /\ Len(Tail(t)) = Len(t) - 1 /\ Len(t) \in Nat \ {0}
      /\ \A i \in 1..Len(Tail(t)) : Tail(t)[i] = t[i + 1]
      /\ Head(t) = t[1]
    BY HeadTailProperties
<1> DEFINE u == Append(s, Head(t))
<1>2. u \in Seq(Nat) /\ Len(u) = Len(s) + 1 /\ u[Len(s) + 1] = t[1] /\ \A i \in 1..Len(s) : u[i] = s[i]
    BY <1>1
<1>3. /\ u \o Tail(t) \in Seq(Nat) /\ Len(u \o Tail(t)) = Len(u) + Len(Tail(t))
      /\ \A i \in 1..Len(u) + Len(Tail(t)) :
            (u \o Tail(t))[i] = IF i <= Len(u) THEN u[i] ELSE Tail(t)[i - Len(u)]
    BY <1>1, <1>2, ConcatProperties
<1>4. /\ s \o t \in Seq(Nat) /\ Len(s \o t) = Len(s) + Len(t)
      /\ \A i \in 1..Len(s) + Len(t) : (s \o t)[i] = IF i <= Len(s) THEN s[i] ELSE t[i - Len(s)]
    BY ConcatProperties
<1>5. Len(s) \in Nat /\ Len(u \o Tail(t)) = Len(s \o t)
    BY <1>1, <1>2, <1>3, <1>4
<1> HIDE DEF u
<1>6. ASSUME NEW i \in 1..Len(s \o t)
      PROVE  (u \o Tail(t))[i] = (s \o t)[i]
    <2>0. i \in 1..(Len(s) + Len(t)) /\ i \in 1..(Len(u) + Len(Tail(t)))
        BY <1>1, <1>2, <1>4, <1>5
    <2>1. CASE i <= Len(s)
        BY <2>0, <2>1, <1>1, <1>2, <1>3, <1>4, <1>5
    <2>2. CASE i = Len(s) + 1
        BY <2>0, <2>2, <1>1, <1>2, <1>3, <1>4, <1>5
    <2>3. CASE i > Len(s) + 1
        <3>1. i - Len(u) \in 1..Len(Tail(t)) /\ (i - Len(u)) + 1 = i - Len(s)
            BY <2>0, <2>3, <1>1, <1>2, <1>5
        <3> QED
            BY <3>1, <2>0, <2>3, <1>1, <1>2, <1>3, <1>4, <1>5
    <2> QED
        BY <2>1, <2>2, <2>3, <2>0, <1>5
<1>7. u \o Tail(t) = s \o t
    BY <1>3, <1>4, <1>5, <1>6, SeqEqual
<1> QED
    BY <1>1, <1>2, <1>7 DEF u

-----------------------------------------------------------------------------
(* Tasks that are pushed: the inductive invariant                            *)

ImmediateTypes ==
    /\ taskQueue \in Seq(Nat) /\ performed \in Seq(Nat) /\ pushed \in Nat
    /\ eventFd \in BOOLEAN
    /\ adder \in [Adders -> {"outside", "wakes"}]
    /\ loop \in [at : {"epoll", "takes", "performs", "stopped"}, batch : Seq(Nat),
                 running : BOOLEAN]

ImmediateIInv ==
    /\ ImmediateTypes
    /\ TasksInOrder /\ NoLostWakeup
    /\ loop.at # "performs" => loop.batch = <<>>

LEMMA ImmediateStart == TasksInit => ImmediateIInv
<1> SUFFICES ASSUME TasksInit PROVE ImmediateIInv
    OBVIOUS
<1>1. ImmediateTypes
    <2>1. loop = [at |-> "epoll", batch |-> <<>>, running |-> TRUE] /\ <<>> \in Seq(Nat)
        BY EmptySeq DEF TasksInit
    <2>2. loop \in [at : {"epoll", "takes", "performs", "stopped"}, batch : Seq(Nat),
                    running : BOOLEAN]
        BY <2>1
    <2> QED
        BY <2>1, <2>2 DEF TasksInit, ImmediateTypes
<1>2. performed \o loop.batch \o taskQueue = <<>> /\ Numbered(0) = <<>>
    <2>1. <<>> \in Seq(Nat) /\ <<>> \o <<>> = <<>>
        OBVIOUS
    <2>2. Numbered(0) = <<>>
        BY EmptySeq DEF Numbered
    <2> QED
        BY <2>1, <2>2 DEF TasksInit
<1>3. TasksInOrder
    BY <1>2 DEF TasksInit, TasksInOrder, Numbered
<1> QED
    BY <1>1, <1>3 DEF TasksInit, ImmediateIInv, NoLostWakeup

LEMMA PushKeepsOrder ==
    ASSUME ImmediateIInv, Push, NEW p \in Seq(Nat), NEW b \in Seq(Nat),
           p \o b = performed \o loop.batch
    PROVE  /\ taskQueue' \in Seq(Nat) /\ taskQueue' # <<>> /\ pushed' \in Nat
           /\ p \o b \o taskQueue' = Numbered(pushed')
<1>1. /\ taskQueue \in Seq(Nat) /\ pushed + 1 \in Nat /\ pushed \in Nat
      /\ taskQueue' = Append(taskQueue, pushed + 1) /\ pushed' = pushed + 1
    BY DEF ImmediateIInv, ImmediateTypes, Push
<1>2. taskQueue' \in Seq(Nat) /\ taskQueue' # <<>>
    BY <1>1, AppendProperties
<1>3. p \o b \o taskQueue = Numbered(pushed)
    BY DEF ImmediateIInv, TasksInOrder, Numbered
<1>4. p \o b \o Append(taskQueue, pushed + 1) = Append(p \o b \o taskQueue, pushed + 1)
    BY <1>1, PushedLast
<1>5. p \o b \in Seq(Nat) /\ p \o b \o taskQueue \in Seq(Nat)
    BY <1>1, ConcatProperties
<1> QED
    BY <1>1, <1>2, <1>3, <1>4, <1>5, OneMorePushed

LEMMA ImmediateStep ==
    ASSUME ImmediateIInv, ImmediateNext
    PROVE  ImmediateIInv'
<1> USE DEF ImmediateIInv
<1>0. /\ taskQueue \in Seq(Nat) /\ performed \in Seq(Nat) /\ loop.batch \in Seq(Nat)
      /\ performed \o loop.batch \in Seq(Nat)
      /\ performed \o loop.batch \o taskQueue = Numbered(pushed)
    BY ConcatProperties DEF ImmediateTypes, TasksInOrder, Numbered
<1>1. ASSUME NEW a \in Adders, PushTask(a)
      PROVE  ImmediateIInv'
    <2>1. /\ taskQueue' \in Seq(Nat) /\ taskQueue' # <<>> /\ pushed' \in Nat
          /\ performed \o loop.batch \o taskQueue' = Numbered(pushed')
        BY <1>0, <1>1, PushKeepsOrder DEF PushTask
    <2>2. ImmediateTypes'
        BY <1>1, <2>1 DEF PushTask, ImmediateTypes
    <2>3. TasksInOrder'
        BY <1>1, <2>1 DEF PushTask, TasksInOrder, Numbered
    <2>4. NoLostWakeup'
        <3>1. CASE taskQueue = <<>>
            <4>1. adder'[a] = "wakes"
                BY <1>1, <3>1 DEF PushTask, ImmediateTypes
            <4> QED
                BY <4>1 DEF NoLostWakeup
        <3>2. CASE taskQueue # <<>>
            <4>1. /\ eventFd' = eventFd /\ loop' = loop
                  /\ \A b \in Adders : adder[b] = "wakes" => adder'[b] = "wakes"
                BY <1>1 DEF PushTask, ImmediateTypes
            <4> QED
                BY <4>1, <3>2 DEF NoLostWakeup
        <3> QED
            BY <3>1, <3>2
    <2> QED
        BY <1>1, <2>2, <2>3, <2>4 DEF PushTask
<1>2. ASSUME NEW a \in Adders, WakeUp(a)
      PROVE  ImmediateIInv'
    BY <1>2 DEF WakeUp, ImmediateTypes, TasksInOrder, NoLostWakeup
<1>3. CASE ResetEventFd
    <2>1. loop'.at = "takes" /\ loop'.batch = loop.batch
        BY <1>3 DEF ResetEventFd, ImmediateTypes
    <2> QED
        BY <1>3, <2>1 DEF ResetEventFd, ImmediateTypes, TasksInOrder, NoLostWakeup
<1>4. CASE TakeTasks
    <2>1. /\ loop'.at = "performs" /\ loop'.batch = taskQueue /\ loop.batch = <<>>
          /\ taskQueue' = <<>> /\ performed' = performed /\ pushed' = pushed
        BY <1>4 DEF TakeTasks, ImmediateTypes
    <2>2. performed \o taskQueue \o <<>> = performed \o <<>> \o taskQueue
        BY <1>0, ConcatEmptySeq, ConcatProperties
    <2>3. TasksInOrder'
        BY <2>1, <2>2 DEF TasksInOrder
    <2>4. ImmediateTypes'
        BY <1>4 DEF TakeTasks, ImmediateTypes
    <2> QED
        BY <2>1, <2>3, <2>4 DEF NoLostWakeup
<1>5. CASE PerformOne
    <2>0. /\ loop.at = "performs" /\ loop.batch # <<>>
          /\ performed' = Append(performed, Head(loop.batch))
          /\ loop'.batch = Tail(loop.batch) /\ loop'.at = "performs"
          /\ loop' \in [at : {"epoll", "takes", "performs", "stopped"}, batch : {Tail(loop.batch)},
                        running : BOOLEAN]
          /\ adder' = adder
        BY <1>5 DEF PerformOne, ImmediateTypes
    <2>1. /\ performed' \in Seq(Nat) /\ loop'.batch \in Seq(Nat)
          /\ performed' \o loop'.batch = performed \o loop.batch
        <3>1. /\ Append(performed, Head(loop.batch)) \in Seq(Nat) /\ Tail(loop.batch) \in Seq(Nat)
              /\ Append(performed, Head(loop.batch)) \o Tail(loop.batch) = performed \o loop.batch
            BY <1>0, <2>0, FirstMoves
        <3> QED
            BY <3>1, <2>0
    <2>2. CASE UNCHANGED <<taskQueue, eventFd, pushed>>
        <3>1. ImmediateTypes'
            BY <2>0, <2>1, <2>2 DEF ImmediateTypes
        <3>2. TasksInOrder'
            BY <2>1, <2>2 DEF TasksInOrder
        <3> QED
            BY <2>0, <2>2, <3>1, <3>2 DEF NoLostWakeup
    <2>3. CASE Push /\ eventFd' = (eventFd \/ taskQueue = <<>>)
        <3>0. /\ taskQueue' \in Seq(Nat) /\ pushed' \in Nat
              /\ performed' \o loop'.batch \o taskQueue' = Numbered(pushed')
            BY <2>1, <2>3, PushKeepsOrder
        <3>1. ImmediateTypes'
            BY <2>0, <2>1, <2>3, <3>0 DEF ImmediateTypes
        <3>2. TasksInOrder'
            BY <3>0 DEF TasksInOrder, Numbered
        <3>3. NoLostWakeup'
            BY <2>0, <2>3 DEF NoLostWakeup
        <3> QED
            BY <2>0, <3>1, <3>2, <3>3
    <2> QED
        BY <1>5, <2>2, <2>3 DEF PerformOne
<1>6. CASE EndOfBatch
    <2>1. /\ loop.at = "performs" /\ loop.batch = <<>> /\ loop'.batch = <<>>
          /\ loop' \in [at : {"epoll", "stopped"}, batch : {<<>>}, running : BOOLEAN]
        BY <1>6 DEF EndOfBatch, ImmediateTypes
    <2>2. UNCHANGED <<taskQueue, eventFd, adder, pushed, performed>>
        BY <1>6 DEF EndOfBatch
    <2>3. ImmediateTypes'
        BY <2>1, <2>2, EmptySeq DEF ImmediateTypes
    <2> QED
        BY <2>1, <2>2, <2>3 DEF TasksInOrder, NoLostWakeup
<1> QED
    BY <1>1, <1>2, <1>3, <1>4, <1>5, <1>6 DEF ImmediateNext, LoopGoesOn

LEMMA ImmediateUnchanged ==
    ASSUME ImmediateIInv, UNCHANGED immediateVars
    PROVE  ImmediateIInv'
BY DEF ImmediateIInv, ImmediateTypes, TasksInOrder, NoLostWakeup, immediateVars

-----------------------------------------------------------------------------
(* Delayed tasks: the inductive invariant                                    *)

Entries == [n : Nat, id : TaskIds, at : Nat, repeat : BOOLEAN, interval : TaskDelays]

DelayedTypes ==
    /\ ticks \in Nat /\ delayedMade \in 0..MaxDelayed /\ nextId \in 0..(MaxTaskIds - 1)
    /\ queuedTasks \subseteq Entries
    /\ \A q \in queuedTasks : q.n \in 1..delayedMade
    /\ tasks \in [TaskIds -> 0..delayedMade]
    /\ erased \subseteq 1..delayedMade /\ due \subseteq 1..delayedMade
    /\ fired \in [1..MaxDelayed -> Nat]

\* A task is in the queue once, has one id, and is not performed before it is made.
OneEntryAndId ==
    /\ \A q, r \in queuedTasks : q.n = r.n => q = r
    /\ \A i, j \in TaskIds : tasks[i] # 0 /\ tasks[i] = tasks[j] => i = j
    /\ \A n \in 1..MaxDelayed : n > delayedMade => fired[n] = 0

\* Who is erased has no id.
ErasedHasNoId == \A n \in erased, i \in TaskIds : tasks[i] # n

DelayedIInv == DelayedTypes /\ OneEntryAndId /\ ErasedHasNoId /\ OnceAtItsTime

LEMMA DelayedStart == TasksInit => DelayedIInv
<1> SUFFICES ASSUME TasksInit PROVE DelayedIInv
    OBVIOUS
<1>1. DelayedTypes
    BY TaskBoundsAssumption, TaskIdsAssumption DEF TasksInit, DelayedTypes
<1>2. OneEntryAndId /\ ErasedHasNoId
    BY DEF TasksInit, OneEntryAndId, ErasedHasNoId
<1>3. OnceAtItsTime
    BY DEF TasksInit, OnceAtItsTime
<1> QED
    BY <1>1, <1>2, <1>3 DEF DelayedIInv

LEMMA IdIsFree ==
    ASSUME nextId \in 0..(MaxTaskIds - 1), \E i \in TaskIds : tasks[i] = 0
    PROVE  FreeAfter(nextId) \in TaskIds /\ tasks[FreeAfter(nextId)] = 0
<1> DEFINE id(k) == (nextId + k) % MaxTaskIds
           steps == {k \in 1..MaxTaskIds : id(k) # 0 /\ tasks[id(k)] = 0}
<1>1. PICK i \in TaskIds : tasks[i] = 0
    OBVIOUS
<1>2. /\ MaxTaskIds \in Nat /\ MaxTaskIds > 1
      /\ i \in 1..(MaxTaskIds - 1) /\ nextId \in 0..(MaxTaskIds - 1)
    BY TaskIdsAssumption DEF TaskIds
<1>3. \E k \in 1..MaxTaskIds : id(k) = i
    <2>1. CASE nextId < i
        <3>1. i - nextId \in 1..MaxTaskIds /\ nextId + (i - nextId) = i
            BY <1>2, <2>1
        <3>2. i % MaxTaskIds = i
            BY <1>2
        <3> QED
            BY <3>1, <3>2
    <2>2. CASE nextId >= i
        <3>1. /\ (i - nextId) + MaxTaskIds \in 1..MaxTaskIds
              /\ nextId + ((i - nextId) + MaxTaskIds) = i + MaxTaskIds
            BY <1>2, <2>2
        <3>2. (i + MaxTaskIds) % MaxTaskIds = i
            BY <1>2
        <3> QED
            BY <3>1, <3>2
    <2> QED
        BY <2>1, <2>2, <1>2
<1>4. steps \subseteq Nat /\ steps # {}
    <2>1. PICK k \in 1..MaxTaskIds : id(k) = i
        BY <1>3
    <2>2. k \in steps
        BY <2>1, <1>1, <1>2
    <2>3. 1..MaxTaskIds \subseteq Nat
        BY <1>2
    <2> QED
        BY <2>2, <2>3
<1>5. \E k \in steps : \A j \in steps : k <= j
    BY <1>4, HasLeast
<1>6. PICK k \in steps : FreeAfter(nextId) = id(k)
    BY <1>5 DEF FreeAfter
<1>7. id(k) \in 0..(MaxTaskIds - 1)
    BY <1>2
<1> QED
    BY <1>2, <1>6, <1>7 DEF TaskIds

LEMMA AddKeeps ==
    ASSUME DelayedIInv, NEW d \in TaskDelays, NEW repeat \in BOOLEAN, addTask(d, repeat)
    PROVE  DelayedIInv'
<1> USE DEF DelayedIInv
<1> DEFINE n == delayedMade + 1
           i == FreeAfter(nextId)
           e == [n |-> n, id |-> i, at |-> ticks + d, repeat |-> repeat, interval |-> d]
<1>0. /\ delayedMade \in Nat /\ MaxDelayed \in Nat /\ delayedMade < MaxDelayed /\ n \in 1..MaxDelayed
      /\ n \notin 1..delayedMade
    BY TaskBoundsAssumption DEF DelayedTypes, addTask
<1>1. i \in TaskIds /\ tasks[i] = 0
    BY IdIsFree DEF DelayedTypes, addTask
<1>2. /\ delayedMade' = n /\ nextId' = i
      /\ tasks' = [tasks EXCEPT ![i] = n]
      /\ queuedTasks' = queuedTasks \cup {e}
      /\ UNCHANGED <<ticks, erased, due, fired>>
    BY DEF addTask
<1>3. /\ e \in Entries /\ e.n = n /\ e.id = i
      /\ \A q \in queuedTasks : q.n \in 1..delayedMade /\ q.n # n /\ q.id \in TaskIds
    BY <1>0, <1>1, TaskDelaysAssumption DEF DelayedTypes, Entries
<1>4. /\ tasks' \in [TaskIds -> 0..n] /\ tasks'[i] = n
      /\ \A j \in TaskIds : j # i => tasks'[j] = tasks[j]
      /\ \A j \in TaskIds : tasks[j] \in 0..delayedMade /\ tasks[j] # n
    BY <1>0, <1>1, <1>2 DEF DelayedTypes
<1> HIDE DEF n, i, e
<1>5. DelayedTypes'
    <2>1. nextId' \in 0..(MaxTaskIds - 1)
        BY <1>1, <1>2, TaskIdsAssumption DEF TaskIds
    <2>2. queuedTasks' \subseteq Entries /\ \A q \in queuedTasks' : q.n \in 1..n
        BY <1>0, <1>2, <1>3 DEF DelayedTypes, n
    <2>3. erased \subseteq 1..n /\ due \subseteq 1..n /\ n \in 0..MaxDelayed
        BY <1>0 DEF DelayedTypes, n
    <2> QED
        BY <2>1, <2>2, <2>3, <1>2, <1>4 DEF DelayedTypes
<1>6. OneEntryAndId'
    <2>1. \A q, r \in queuedTasks' : q.n = r.n => q = r
        BY <1>2, <1>3 DEF OneEntryAndId
    <2>2. \A j, k \in TaskIds : tasks'[j] # 0 /\ tasks'[j] = tasks'[k] => j = k
        BY <1>1, <1>4 DEF OneEntryAndId
    <2>3. \A m \in 1..MaxDelayed : m > n => fired[m] = 0
        BY <1>0 DEF OneEntryAndId, n
    <2> QED
        BY <2>1, <2>2, <2>3, <1>2 DEF OneEntryAndId
<1>7. ErasedHasNoId'
    <2>1. n \notin erased
        BY <1>0 DEF DelayedTypes
    <2> QED
        BY <1>1, <1>2, <1>4, <2>1 DEF ErasedHasNoId
<1>8. OnceAtItsTime'
    <2>1. fired[n] = 0 /\ n \notin due
        BY <1>0 DEF DelayedTypes, OneEntryAndId, n
    <2>2. \A q \in queuedTasks' : ~q.repeat => fired'[q.n] = 0 /\ q.n \notin due'
        BY <2>1, <1>2, <1>3 DEF OnceAtItsTime
    <2>3. ASSUME NEW m \in (1..n) \ erased
          PROVE  \/ fired[m] > 0 \/ m \in due
                 \/ \E q \in queuedTasks' : q.n = m /\ tasks'[q.id] = m
        <3>1. CASE m = n
            BY <3>1, <1>2, <1>3, <1>4
        <3>2. CASE m \in 1..delayedMade
            <4>1. ASSUME NEW q \in queuedTasks, q.n = m, tasks[q.id] = m
                  PROVE  q \in queuedTasks' /\ tasks'[q.id] = m
                <5>1. q.id # i
                    BY <3>2, <4>1, <1>1
                <5> QED
                    BY <5>1, <4>1, <1>2, <1>3, <1>4
            <4> QED
                BY <3>2, <4>1 DEF OnceAtItsTime
        <3> QED
            BY <3>1, <3>2, <1>0 DEF n
    <2> QED
        BY <2>2, <2>3, <1>2 DEF OnceAtItsTime
<1> QED
    BY <1>5, <1>6, <1>7, <1>8

LEMMA EraseKeeps ==
    ASSUME DelayedIInv, NEW id \in TaskIds, eraseTask(id)
    PROVE  DelayedIInv'
<1> USE DEF DelayedIInv
<1>1. /\ tasks[id] # 0 /\ erased' = erased \cup {tasks[id]}
      /\ tasks' = [tasks EXCEPT ![id] = 0]
      /\ UNCHANGED <<ticks, queuedTasks, nextId, delayedMade, due, fired>>
    BY DEF eraseTask
<1>2. /\ tasks' \in [TaskIds -> 0..delayedMade] /\ tasks'[id] = 0
      /\ \A j \in TaskIds : j # id => tasks'[j] = tasks[j]
      /\ \A j \in TaskIds : j # id => tasks'[j] # tasks[id]
      /\ tasks[id] \in 1..delayedMade /\ delayedMade \in Nat
      /\ \A n \in erased : n \in 1..delayedMade
    BY <1>1, TaskBoundsAssumption DEF DelayedTypes, OneEntryAndId
<1>3. DelayedTypes'
    BY <1>1, <1>2 DEF DelayedTypes
<1>4. OneEntryAndId'
    BY <1>1, <1>2 DEF OneEntryAndId
<1>5. ErasedHasNoId'
    <2>1. ASSUME NEW n \in erased', NEW i \in TaskIds
          PROVE  tasks'[i] # n
        <3>1. n # 0
            BY <1>1, <1>2
        <3> QED
            BY <3>1, <1>1, <1>2, <2>1 DEF ErasedHasNoId
    <2> QED
        BY <2>1 DEF ErasedHasNoId
<1>6. OnceAtItsTime'
    <2>1. ASSUME NEW n \in (1..delayedMade) \ erased'
          PROVE  \/ fired[n] > 0 \/ n \in due
                 \/ \E q \in queuedTasks : q.n = n /\ tasks'[q.id] = n
        <3>1. ASSUME NEW q \in queuedTasks, q.n = n, tasks[q.id] = n
              PROVE  tasks'[q.id] = n
            <4>1. q.id \in TaskIds /\ q.id # id
                BY <3>1, <1>1 DEF DelayedTypes, Entries
            <4> QED
                BY <3>1, <4>1, <1>2
        <3> QED
            BY <3>1, <1>1 DEF OnceAtItsTime
    <2> QED
        BY <2>1, <1>1 DEF OnceAtItsTime
<1> QED
    BY <1>3, <1>4, <1>5, <1>6

\* The task of an entry that is due and has its id still.
LEMMA CollectKeeps ==
    ASSUME DelayedIInv, CollectDue
    PROVE  DelayedIInv' /\ ~PerformsErased
<1> USE DEF DelayedIInv
<1> DEFINE over == {q \in queuedTasks : q.at <= ticks}
           live == {q \in over : Functions(q) # {}}
           again(q) == [q EXCEPT !.at = ticks + q.interval]
<1>1. /\ due = {} /\ due' = UNION {Functions(q) : q \in over}
      /\ queuedTasks' = (queuedTasks \ over) \cup {again(q) : q \in {r \in live : r.repeat}}
      /\ tasks' = [i \in TaskIds |->
                      IF \E q \in live : q.id = i /\ ~q.repeat THEN 0 ELSE tasks[i]]
      /\ UNCHANGED <<ticks, nextId, delayedMade, erased, fired>>
    BY DEF CollectDue
<1>2. \A q \in queuedTasks : /\ q \in Entries /\ q.id \in TaskIds /\ q.n \in 1..delayedMade
                              /\ q.repeat \in BOOLEAN
    BY DEF DelayedTypes, Entries
<1>3. \A q \in live : q \in queuedTasks /\ tasks[q.id] = q.n /\ Functions(q) = {q.n}
    BY DEF Functions
<1>4. \A q \in over : tasks[q.id] = q.n => q \in live
    BY DEF Functions
<1>5. \A n : n \in due' <=> \E q \in live : q.n = n
    <2>1. \A n : n \in due' <=> \E q \in over : n \in Functions(q)
        BY <1>1
    <2> QED
        BY <2>1, <1>3
<1>6. \A q \in queuedTasks : again(q) \in Entries /\ again(q).n = q.n /\ again(q).id = q.id
                             /\ again(q).repeat = q.repeat
    BY TaskDelaysAssumption DEF DelayedTypes, Entries
<1>7. /\ over \subseteq queuedTasks /\ live \subseteq over
      /\ \A q \in queuedTasks' : \/ q \in queuedTasks /\ q \notin over
                                \/ \E r \in live : r.repeat /\ q = again(r)
      /\ \A q \in queuedTasks : q \notin over => q \in queuedTasks'
      /\ \A r \in live : r.repeat => again(r) \in queuedTasks'
    BY <1>1
<1>8. /\ \A i \in TaskIds : tasks'[i] = 0 \/ tasks'[i] = tasks[i]
      /\ \A i \in TaskIds : (\A q \in live : q.id = i => q.repeat) => tasks'[i] = tasks[i]
      /\ tasks' \in [TaskIds -> 0..delayedMade]
    <2>1. \A i \in TaskIds : tasks[i] \in 0..delayedMade /\ 0 \in 0..delayedMade
        BY TaskBoundsAssumption DEF DelayedTypes
    <2> QED
        BY <1>1, <1>2, <1>3, <2>1
<1> HIDE DEF over, live, again
<1>9. DelayedTypes'
    <2>1. \A q \in queuedTasks' : q \in Entries /\ q.n \in 1..delayedMade
        BY <1>2, <1>3, <1>6, <1>7
    <2>2. due' \subseteq 1..delayedMade
        BY <1>2, <1>3, <1>5
    <2> QED
        BY <2>1, <2>2, <1>1, <1>8 DEF DelayedTypes
<1>10. OneEntryAndId'
    <2>1. \A q, r \in queuedTasks' : q.n = r.n => q = r
        <3>1. ASSUME NEW q \in queuedTasks', NEW r \in queuedTasks', q.n = r.n
              PROVE  q = r
            <4>1. PICK p \in queuedTasks : p.n = q.n /\ (p \in over => q = again(p)) /\ (p \notin over => q = p)
                BY <1>3, <1>6, <1>7
            <4>2. PICK s \in queuedTasks : s.n = r.n /\ (s \in over => r = again(s)) /\ (s \notin over => r = s)
                BY <1>3, <1>6, <1>7
            <4>3. p = s
                BY <4>1, <4>2, <3>1 DEF OneEntryAndId
            <4> QED
                BY <4>1, <4>2, <4>3
        <3> QED
            BY <3>1
    <2>2. \A i, j \in TaskIds : tasks'[i] # 0 /\ tasks'[i] = tasks'[j] => i = j
        BY <1>8 DEF OneEntryAndId
    <2> QED
        BY <2>1, <2>2, <1>1 DEF OneEntryAndId
<1>11. ErasedHasNoId'
    <2>1. \A n \in erased : n # 0
        BY DEF DelayedTypes
    <2> QED
        BY <2>1, <1>1, <1>8 DEF ErasedHasNoId
<1>12. OnceAtItsTime'
    <2>1. ASSUME NEW q \in queuedTasks', ~q.repeat
          PROVE  fired[q.n] = 0 /\ q.n \notin due'
        <3>1. q \in queuedTasks /\ q \notin over
            BY <2>1, <1>3, <1>6, <1>7
        <3>2. fired[q.n] = 0
            BY <2>1, <3>1 DEF OnceAtItsTime
        <3>3. \A r \in live : r.n # q.n
            BY <3>1, <1>3, <1>7 DEF OneEntryAndId
        <3> QED
            BY <3>2, <3>3, <1>5
    <2>2. ASSUME NEW n \in (1..delayedMade) \ erased
          PROVE  \/ fired[n] > 0 \/ n \in due'
                 \/ \E q \in queuedTasks' : q.n = n /\ tasks'[q.id] = n
        <3>1. CASE \E q \in queuedTasks : q.n = n /\ tasks[q.id] = n
            <4>1. PICK q \in queuedTasks : q.n = n /\ tasks[q.id] = n
                BY <3>1
            <4>2. CASE q \in over
                BY <4>1, <4>2, <1>4, <1>5
            <4>3. CASE q \notin over
                <5>1. q \in queuedTasks'
                    BY <4>3, <1>7
                <5>2. \A r \in live : r.id # q.id
                    <6>1. ASSUME NEW r \in live, r.id = q.id
                          PROVE  FALSE
                        <7>1. r \in queuedTasks /\ r.n = q.n /\ r \in over
                            BY <4>1, <6>1, <1>3, <1>7
                        <7> QED
                            BY <7>1, <4>3 DEF OneEntryAndId
                    <6> QED
                        BY <6>1
                <5>3. tasks'[q.id] = tasks[q.id]
                    BY <5>2, <1>2, <1>8
                <5> QED
                    BY <4>1, <5>1, <5>3
            <4> QED
                BY <4>2, <4>3
        <3> QED
            BY <3>1, <1>1 DEF OnceAtItsTime
    <2> QED
        BY <2>1, <2>2, <1>1 DEF OnceAtItsTime
<1>13. ~PerformsErased
    <2>1. ASSUME NEW n \in erased, n \in due'
          PROVE  FALSE
        <3>1. PICK q \in live : q.n = n
            BY <2>1, <1>5
        <3> QED
            BY <3>1, <1>2, <1>3 DEF ErasedHasNoId
    <2> QED
        BY <2>1 DEF PerformsErased
<1> QED
    BY <1>9, <1>10, <1>11, <1>12, <1>13

LEMMA PerformKeeps ==
    ASSUME DelayedIInv, NEW n \in 1..MaxDelayed, PerformDue(n)
    PROVE  DelayedIInv'
<1> USE DEF DelayedIInv
<1>1. /\ n \in due /\ due' = due \ {n} /\ n \in 1..delayedMade
      /\ fired' = [fired EXCEPT ![n] = @ + 1]
      /\ UNCHANGED <<ticks, queuedTasks, tasks, nextId, delayedMade, erased>>
    BY DEF PerformDue, DelayedTypes
<1>2. /\ fired' \in [1..MaxDelayed -> Nat] /\ fired'[n] > 0
      /\ \A m \in 1..MaxDelayed : m # n => fired'[m] = fired[m]
    BY <1>1 DEF DelayedTypes
<1>3. DelayedTypes'
    BY <1>1, <1>2 DEF DelayedTypes
<1>4. OneEntryAndId' /\ ErasedHasNoId'
    BY <1>1, <1>2, TaskBoundsAssumption DEF OneEntryAndId, ErasedHasNoId, DelayedTypes
<1>5. OnceAtItsTime'
    <2>0. /\ \A q \in queuedTasks : q.n \in 1..MaxDelayed
          /\ \A m \in 1..delayedMade : m \in 1..MaxDelayed
        BY TaskBoundsAssumption DEF DelayedTypes
    <2>1. \A q \in queuedTasks : ~q.repeat => fired'[q.n] = 0 /\ q.n \notin due'
        BY <2>0, <1>1, <1>2 DEF OnceAtItsTime
    <2>2. \A m \in (1..delayedMade) \ erased :
              \/ fired'[m] > 0 \/ m \in due'
              \/ \E q \in queuedTasks : q.n = m /\ tasks[q.id] = m
        BY <2>0, <1>1, <1>2 DEF OnceAtItsTime
    <2> QED
        BY <2>1, <2>2, <1>1 DEF OnceAtItsTime
<1> QED
    BY <1>3, <1>4, <1>5

LEMMA DelayedStep ==
    ASSUME DelayedIInv, DelayedNext
    PROVE  DelayedIInv' /\ ~PerformsErased
<1>1. ASSUME due' \subseteq due
      PROVE  ~PerformsErased
    BY <1>1 DEF PerformsErased
<1>2. ASSUME NEW d \in TaskDelays, NEW repeat \in BOOLEAN, addTask(d, repeat)
      PROVE  DelayedIInv' /\ ~PerformsErased
    BY <1>1, <1>2, AddKeeps DEF addTask
<1>3. ASSUME NEW id \in TaskIds, eraseTask(id)
      PROVE  DelayedIInv' /\ ~PerformsErased
    BY <1>1, <1>3, EraseKeeps DEF eraseTask
<1>4. ASSUME NEW n \in 1..MaxDelayed, PerformDue(n)
      PROVE  DelayedIInv' /\ ~PerformsErased
    BY <1>1, <1>4, PerformKeeps DEF PerformDue
<1>5. CASE TimePasses
    <2>1. ticks' \in Nat /\ UNCHANGED <<queuedTasks, tasks, nextId, delayedMade, erased, due, fired>>
        BY <1>5 DEF TimePasses, DelayedIInv, DelayedTypes
    <2> QED
        BY <1>1, <2>1 DEF DelayedIInv, DelayedTypes, OneEntryAndId, ErasedHasNoId, OnceAtItsTime
<1> QED
    BY <1>2, <1>3, <1>4, <1>5, CollectKeeps DEF DelayedNext

LEMMA DelayedUnchanged ==
    ASSUME DelayedIInv, UNCHANGED delayedVars
    PROVE  DelayedIInv' /\ ~PerformsErased
BY DEF DelayedIInv, DelayedTypes, OneEntryAndId, ErasedHasNoId, OnceAtItsTime, delayedVars,
       PerformsErased

-----------------------------------------------------------------------------
(* What holds of every behaviour                                             *)

LEMMA TasksStep ==
    ASSUME ImmediateIInv, DelayedIInv, [TasksNext]_taskVars
    PROVE  ImmediateIInv' /\ DelayedIInv' /\ ~PerformsErased
<1>1. CASE ImmediateNext
    <2>1. UNCHANGED delayedVars
        BY <1>1 DEF ImmediateNext, LoopGoesOn, PushTask, WakeUp, ResetEventFd, TakeTasks, PerformOne,
                    EndOfBatch
    <2> QED
        BY <1>1, <2>1, ImmediateStep, DelayedUnchanged
<1>2. CASE DelayedNext
    <2>1. UNCHANGED immediateVars
        BY <1>2 DEF DelayedNext, addTask, eraseTask, CollectDue, PerformDue, TimePasses
    <2> QED
        BY <1>2, <2>1, DelayedStep, ImmediateUnchanged
<1>3. CASE UNCHANGED taskVars
    BY <1>3, ImmediateUnchanged, DelayedUnchanged DEF taskVars, immediateVars, delayedVars
<1> QED
    BY <1>1, <1>2, <1>3 DEF TasksNext

-----------------------------------------------------------------------------
(* Keep-alive: the inductive invariant                                       *)

ConnRecords == [at : {"connected", "loggedIn"}, outgoing : BOOLEAN, fd : Fds, keepalive : Nat,
                lastActivity : Nat, since : Nat, pinged : Nat]

KaTypes ==
    /\ now \in Nat /\ nextCheck \in Nat
    /\ conns \in [KaClients -> {NotYet, Destroyed} \cup ConnRecords]
    /\ by_fd \in [Fds -> KaClients \cup {NoClient}]
    /\ fdHeld \subseteq KaClients
    /\ checks \subseteq [client : KaClients, at : Nat, recheck : BOOLEAN]

\* No time passes beyond a check, and what was due before is no longer queued.
InTime ==
    /\ now <= nextCheck /\ nextCheck <= now + CheckInterval
    /\ \A k \in checks : nextCheck < k.at + CheckInterval
    /\ \A c \in KaClients : Alive(c) => conns[c].lastActivity <= now /\ conns[c].pinged <= now

\* A descriptor is that of one client as long as the client exists.
FdsDiffer ==
    /\ \A f \in Fds, c \in KaClients : by_fd[f] = c => Alive(c) /\ conns[c].fd = f
    /\ \A c, d \in KaClients : Alive(c) /\ Alive(d) /\ conns[c].fd = conns[d].fd => c = d
    /\ \A k \in checks, c \in KaClients : k.client = c => Alive(c)

\* At t: the check that a connection waits for, in time for its silence and for its next ping.
Watches(k, r, t) ==
    /\ k.recheck
    /\ IF r.outgoing
       THEN /\ k.at <= r.lastActivity + OneAndAHalf(r.keepalive) + r.keepalive
            /\ k.at <= (IF r.at = "loggedIn" THEN r.pinged ELSE t) + r.keepalive
       ELSE \/ k.at <= r.lastActivity + OneAndAHalf(r.keepalive) + MinDelay + 1
            \/ k.at <= r.since + UnauthDelay

NeedsCheck(r) == r.keepalive # 0 /\ (r.outgoing \/ r.at = "loggedIn")

Watched ==
    \A c \in KaClients : IsIn(c) /\ NeedsCheck(conns[c]) =>
        \E k \in checks : k.client = c /\ Watches(k, conns[c], now)

KaIInv == KaTypes /\ InTime /\ FdsDiffer /\ Watched

LEMMA WhoIsAlive ==
    ASSUME KaTypes
    PROVE  /\ \A c \in KaClients : Alive(c) <=> conns[c] \in ConnRecords
           /\ \A r \in ConnRecords : r \notin {NotYet, Destroyed}
           /\ Destroyed # NotYet
<1>1. NotYet.at = "none" /\ Destroyed.at = "destroyed"
    BY DEF NotYet, Destroyed
<1>2. \A r \in ConnRecords : r.at \in {"connected", "loggedIn"}
    BY DEF ConnRecords
<1> QED
    BY <1>1, <1>2 DEF KaTypes, Alive

LEMMA WhoIsIn ==
    ASSUME KaTypes, FdsDiffer
    PROVE  /\ \A c \in KaClients : IsIn(c) <=> \E f \in Fds : by_fd[f] = c
           /\ \A c \in KaClients : IsIn(c) =>
                 /\ Alive(c) /\ conns[c] \in ConnRecords
                 /\ conns[c].fd \in Fds /\ by_fd[conns[c].fd] = c
<1>1. \A c \in KaClients : IsIn(c) <=> \E f \in Fds : by_fd[f] = c
    BY DEF IsIn, Range, KaTypes
<1>2. ASSUME NEW c \in KaClients, IsIn(c)
      PROVE  /\ Alive(c) /\ conns[c] \in ConnRecords
             /\ conns[c].fd \in Fds /\ by_fd[conns[c].fd] = c
    <2>1. PICK f \in Fds : by_fd[f] = c
        BY <1>1, <1>2
    <2>2. c # NoClient
        BY NoClientAssumption DEF NoClient
    <2> QED
        BY <2>1, <2>2, WhoIsAlive DEF FdsDiffer
<1> QED
    BY <1>1, <1>2

LEMMA Halves ==
    ASSUME NEW k \in Nat
    PROVE  OneAndAHalf(k) \in Nat
BY DEF OneAndAHalf

LEMMA SecondsAreNat ==
    ASSUME NEW r \in ConnRecords, NEW t \in Nat
    PROVE  SecondsTillAction(r, t) \in Nat
<1>1. /\ r.keepalive \in Nat /\ r.lastActivity \in Nat /\ OneAndAHalf(r.keepalive) \in Nat
      /\ UnauthDelay \in Nat /\ MinDelay \in Nat
    BY Halves, DelaysAssumption DEF ConnRecords
<1> DEFINE left == r.lastActivity + OneAndAHalf(r.keepalive) + 2 - t
<1>2. left \in Int /\ (left >= MinDelay => left \in Nat)
    BY <1>1
<1> HIDE DEF left
<1>3. SecondsTillAction(r, t) \in {r.keepalive, UnauthDelay, 0, MinDelay, left}
    BY DEF SecondsTillAction, left
<1>4. SecondsTillAction(r, t) = left => left >= MinDelay \/ left \in Nat
    BY <1>1, <1>2 DEF SecondsTillAction, left
<1> QED
    BY <1>1, <1>2, <1>3, <1>4

\* A check after which there is another one.
OneOfMany(c, r) == NextCheck(c, r, TRUE)

LEMMA ChecksToCome ==
    ASSUME NEW c \in KaClients, NEW r \in ConnRecords, now \in Nat, NEW again \in BOOLEAN
    PROVE  /\ NextCheck(c, r, again) \subseteq [client : {c}, at : Nat, recheck : BOOLEAN]
           /\ \A k \in NextCheck(c, r, again) : k.at > now
<1>1. SecondsTillAction(r, now) \in Nat
    BY SecondsAreNat
<1>2. CASE SecondsTillAction(r, now) = 0
    BY <1>2 DEF NextCheck
<1>3. CASE SecondsTillAction(r, now) # 0
    <2> DEFINE k == [client |-> c, at |-> now + SecondsTillAction(r, now), recheck |-> again]
    <2>1. NextCheck(c, r, again) = {k}
        BY <1>3 DEF NextCheck
    <2>2. k \in [client : {c}, at : Nat, recheck : BOOLEAN] /\ k.at > now
        BY <1>1, <1>3
    <2> QED
        BY <2>1, <2>2
<1> QED
    BY <1>2, <1>3

LEMMA CheckToCome ==
    ASSUME NEW c \in KaClients, NEW r \in ConnRecords, now \in Nat, SecondsTillAction(r, now) # 0
    PROVE  \E k \in OneOfMany(c, r) :
              k.client = c /\ k.recheck /\ k.at = now + SecondsTillAction(r, now)
<1> DEFINE k == [client |-> c, at |-> now + SecondsTillAction(r, now), recheck |-> TRUE]
<1>1. OneOfMany(c, r) = {k}
    BY DEF NextCheck, OneOfMany
<1>2. k.client = c /\ k.recheck /\ k.at = now + SecondsTillAction(r, now)
    OBVIOUS
<1> QED
    BY <1>1, <1>2

\* The next check of a client that is not silent is in time.
LEMMA NextIsInTime ==
    ASSUME NEW c \in KaClients, NEW r \in ConnRecords, now \in Nat, NEW s \in ConnRecords,
           NeedsCheck(r), now <= r.lastActivity + OneAndAHalf(r.keepalive),
           s.outgoing = r.outgoing, s.at = r.at, s.keepalive = r.keepalive,
           s.lastActivity = r.lastActivity, s.at = "loggedIn" /\ s.outgoing => s.pinged = now
    PROVE  \E k \in OneOfMany(c, r) : k.client = c /\ Watches(k, s, now)
<1> DEFINE h == OneAndAHalf(r.keepalive)
           sec == SecondsTillAction(r, now)
<1>1. /\ r.keepalive \in Nat \ {0} /\ r.lastActivity \in Nat /\ h \in Nat
      /\ UnauthDelay \in Nat /\ MinDelay \in Nat \ {0} /\ now <= r.lastActivity + h
      /\ r.outgoing \in BOOLEAN
    BY Halves, DelaysAssumption DEF ConnRecords, NeedsCheck
<1>2. CASE r.outgoing
    <2>1. sec = r.keepalive
        BY <1>2 DEF SecondsTillAction
    <2>2. PICK k \in OneOfMany(c, r) : k.client = c /\ k.recheck /\ k.at = now + r.keepalive
        BY <1>1, <2>1, CheckToCome
    <2>3. k.at <= r.lastActivity + h + r.keepalive
        BY <1>1, <2>2
    <2>4. s.at = "loggedIn" => k.at <= s.pinged + s.keepalive
        BY <1>1, <1>2, <2>2
    <2>5. k.at <= now + s.keepalive
        BY <1>1, <1>2, <2>2
    <2> QED
        BY <1>2, <2>2, <2>3, <2>4, <2>5 DEF Watches
<1>3. CASE ~r.outgoing
    <2> DEFINE left == r.lastActivity + h + 2 - now
    <2>0. r.at = "loggedIn"
        BY <1>3 DEF NeedsCheck
    <2>1. sec = IF left < MinDelay THEN MinDelay ELSE left
        BY <1>1, <1>3, <2>0 DEF SecondsTillAction
    <2>2. left \in Int /\ sec # 0
        BY <1>1, <2>1
    <2>3. PICK k \in OneOfMany(c, r) : k.client = c /\ k.recheck /\ k.at = now + sec
        BY <2>2, CheckToCome
    <2>4. k.at <= r.lastActivity + h + MinDelay + 1
        <3>1. CASE left < MinDelay
            BY <1>1, <2>1, <2>3, <3>1
        <3>2. CASE ~(left < MinDelay)
            BY <1>1, <2>1, <2>3, <3>2
        <3> QED
            BY <3>1, <3>2
    <2> QED
        BY <1>3, <2>3, <2>4 DEF Watches
<1> QED
    BY <1>1, <1>2, <1>3

LEMMA KaStart == KaInit => KaIInv
<1> SUFFICES ASSUME KaInit PROVE KaIInv
    OBVIOUS
<1>1. \A c \in KaClients : ~Alive(c) /\ ~IsIn(c) /\ \A f \in Fds : by_fd[f] # c
    <2>1. \A c \in KaClients : c # NoClient
        BY NoClientAssumption DEF NoClient
    <2> QED
        BY <2>1 DEF KaInit, Alive, IsIn, Range
<1>2. KaTypes
    BY DelaysAssumption DEF KaInit, KaTypes
<1>3. InTime
    BY <1>1, DelaysAssumption DEF KaInit, InTime
<1>4. FdsDiffer
    BY <1>1 DEF KaInit, FdsDiffer
<1>5. Watched
    BY <1>1 DEF Watched
<1> QED
    BY <1>2, <1>3, <1>4, <1>5 DEF KaIInv

\* A connection that changes, with what is queued for it.
LEMMA OneChanges ==
    ASSUME KaIInv, NEW c \in KaClients, IsIn(c), NEW r \in ConnRecords,
           r.fd = conns[c].fd, r.lastActivity <= now, r.pinged <= now,
           conns' = [conns EXCEPT ![c] = r],
           NEW added \in SUBSET [client : {c}, at : Nat, recheck : BOOLEAN],
           \A k \in added : k.at > now,
           checks' = checks \cup added,
           UNCHANGED <<now, by_fd, fdHeld, nextCheck>>,
           NeedsCheck(r) => \E k \in checks' : k.client = c /\ Watches(k, r, now)
    PROVE  KaIInv'
<1> USE DEF KaIInv
<1>0. /\ Alive(c) /\ now \in Nat /\ nextCheck \in Nat /\ CheckInterval \in Nat
      /\ \A d \in KaClients : Alive(d) <=> conns[d] \in ConnRecords
    BY WhoIsIn, WhoIsAlive, DelaysAssumption DEF KaTypes
<1>1. /\ conns'[c] = r /\ \A d \in KaClients : d # c => conns'[d] = conns[d]
      /\ conns' \in [KaClients -> {NotYet, Destroyed} \cup ConnRecords]
    BY DEF KaTypes
<1>2. KaTypes'
    BY <1>1 DEF KaTypes
<1>3. \A d \in KaClients : Alive(d)' <=> Alive(d)
    BY <1>0, <1>1, WhoIsAlive DEF Alive
<1>4. InTime'
    <2>1. \A k \in added : nextCheck < k.at + CheckInterval
        BY <1>0 DEF InTime
    <2>2. \A d \in KaClients : Alive(d)' => conns'[d].lastActivity <= now /\ conns'[d].pinged <= now
        BY <1>1, <1>3 DEF InTime
    <2> QED
        BY <2>1, <2>2 DEF InTime
<1>5. FdsDiffer'
    <2>1. \A d \in KaClients : conns'[d].fd = conns[d].fd
        BY <1>1
    <2>4. \A f \in Fds, d \in KaClients : by_fd'[f] = d => Alive(d)' /\ conns'[d].fd = f
        BY <2>1, <1>3 DEF FdsDiffer
    <2>5. \A d, e \in KaClients : Alive(d)' /\ Alive(e)' /\ conns'[d].fd = conns'[e].fd => d = e
        BY <2>1, <1>3 DEF FdsDiffer
    <2>6. \A k \in checks', d \in KaClients : k.client = d => Alive(d)'
        BY <1>0, <1>3 DEF FdsDiffer
    <2> QED
        BY <2>4, <2>5, <2>6 DEF FdsDiffer
<1>6. Watched'
    <2>1. ASSUME NEW d \in KaClients, IsIn(d)', NeedsCheck(conns'[d])
          PROVE  \E k \in checks' : k.client = d /\ Watches(k, conns'[d], now')
        <3>1. IsIn(d)
            BY <2>1 DEF IsIn
        <3>2. CASE d = c
            BY <3>2, <2>1, <1>1 DEF Watches
        <3>3. CASE d # c
            BY <3>1, <3>3, <2>1, <1>1 DEF Watched, Watches
        <3> QED
            BY <3>2, <3>3
    <2> QED
        BY <2>1 DEF Watched, NeedsCheck
<1> QED
    BY <1>2, <1>4, <1>5, <1>6

LEMMA AcceptKeeps ==
    ASSUME KaIInv, NEW c \in KaClients, NEW fd \in Fds, NEW outgoing \in BOOLEAN,
           NEW keep \in KeepAlives \cup {DefaultKeepAlive}, Accept(c, fd, outgoing, keep)
    PROVE  KaIInv'
<1> USE DEF KaIInv
<1> DEFINE r == [at |-> "connected", outgoing |-> outgoing, fd |-> fd, lastActivity |-> now,
                 keepalive |-> keep, since |-> now, pinged |-> now]
           added == NextCheck(c, r, outgoing)
<1>0. /\ now \in Nat /\ nextCheck \in Nat /\ CheckInterval \in Nat /\ keep \in Nat
      /\ \A d \in KaClients : Alive(d) <=> conns[d] \in ConnRecords
      /\ c # NoClient
    BY WhoIsAlive, KeepAlivesAssumption, DelaysAssumption, NoClientAssumption DEF KaTypes, NoClient
<1>1. /\ conns[c] = NotYet /\ fd \in FreeFds
      /\ conns' = [conns EXCEPT ![c] = r] /\ by_fd' = [by_fd EXCEPT ![fd] = c]
      /\ checks' = checks \cup added
      /\ UNCHANGED <<now, fdHeld, nextCheck>>
    BY DEF Accept
<1>2. /\ r \in ConnRecords /\ r.fd = fd /\ r.lastActivity = now /\ r.pinged = now
      /\ r.outgoing = outgoing /\ r.at = "connected" /\ r.keepalive = keep
    BY <1>0 DEF ConnRecords
<1> HIDE DEF r
<1>3. /\ added \subseteq [client : {c}, at : Nat, recheck : BOOLEAN]
      /\ \A k \in added : k.at > now
    BY <1>0, <1>2, ChecksToCome DEF added
<1>4. NeedsCheck(r) => \E k \in added : k.client = c /\ Watches(k, r, now)
    <2> SUFFICES ASSUME NeedsCheck(r) PROVE \E k \in added : k.client = c /\ Watches(k, r, now)
        OBVIOUS
    <2>1. outgoing = TRUE
        BY <1>2 DEF NeedsCheck
    <2>2. now <= r.lastActivity + OneAndAHalf(r.keepalive)
        BY <1>0, <1>2, Halves
    <2>3. \E k \in OneOfMany(c, r) : k.client = c /\ Watches(k, r, now)
        BY <1>0, <1>2, <2>2, NextIsInTime
    <2>4. added = OneOfMany(c, r)
        BY <2>1 DEF added, OneOfMany
    <2> QED
        BY <2>3, <2>4
<1> HIDE DEF added
<1>5. /\ conns'[c] = r /\ \A d \in KaClients : d # c => conns'[d] = conns[d]
      /\ conns' \in [KaClients -> {NotYet, Destroyed} \cup ConnRecords]
      /\ by_fd'[fd] = c /\ \A f \in Fds : f # fd => by_fd'[f] = by_fd[f]
      /\ by_fd' \in [Fds -> KaClients \cup {NoClient}]
    BY <1>1, <1>2 DEF KaTypes
<1>6. KaTypes'
    BY <1>0, <1>1, <1>3, <1>5 DEF KaTypes
<1>7. /\ ~Alive(c) /\ Alive(c)'
      /\ \A d \in KaClients : d # c => (Alive(d)' <=> Alive(d))
      /\ \A d \in KaClients : Alive(d) => conns[d].fd # fd
    BY <1>1, <1>2, <1>5, WhoIsAlive DEF Alive, FreeFds
<1>8. InTime'
    <2>1. \A k \in added : nextCheck < k.at + CheckInterval
        BY <1>0, <1>3 DEF InTime
    <2>2. \A d \in KaClients : Alive(d)' => conns'[d].lastActivity <= now /\ conns'[d].pinged <= now
        BY <1>0, <1>2, <1>5, <1>7 DEF InTime
    <2> QED
        BY <2>1, <2>2, <1>1 DEF InTime
<1>9. FdsDiffer'
    <2>4. \A f \in Fds, d \in KaClients : by_fd'[f] = d => Alive(d)' /\ conns'[d].fd = f
        BY <1>2, <1>5, <1>7 DEF FdsDiffer
    <2>5. \A d, e \in KaClients : Alive(d)' /\ Alive(e)' /\ conns'[d].fd = conns'[e].fd => d = e
        BY <1>2, <1>5, <1>7 DEF FdsDiffer
    <2>6. \A k \in checks', d \in KaClients : k.client = d => Alive(d)'
        BY <1>1, <1>3, <1>7 DEF FdsDiffer
    <2> QED
        BY <2>4, <2>5, <2>6 DEF FdsDiffer
<1>10. Watched'
    <2>1. ASSUME NEW d \in KaClients, IsIn(d)', NeedsCheck(conns'[d])
          PROVE  \E k \in checks' : k.client = d /\ Watches(k, conns'[d], now')
        <3>2. CASE d = c
            BY <3>2, <2>1, <1>1, <1>4, <1>5 DEF Watches
        <3>3. CASE d # c
            <4>1. PICK f \in DOMAIN by_fd' : by_fd'[f] = d
                BY <2>1 DEF IsIn, Range
            <4>2. f \in Fds /\ by_fd[f] = d
                BY <4>1, <3>3, <1>5
            <4>3. IsIn(d)
                BY <4>2 DEF IsIn, Range, KaTypes
            <4> QED
                BY <4>3, <3>3, <2>1, <1>1, <1>5 DEF Watched, Watches
        <3> QED
            BY <3>2, <3>3
    <2> QED
        BY <2>1 DEF Watched, NeedsCheck
<1> QED
    BY <1>6, <1>8, <1>9, <1>10

LEMMA ActivityKeeps ==
    ASSUME KaIInv, NEW c \in KaClients, Activity(c)
    PROVE  KaIInv'
<1> DEFINE r == [conns[c] EXCEPT !.lastActivity = now]
<1>1. /\ IsIn(c) /\ conns' = [conns EXCEPT ![c] = r] /\ checks' = checks \cup {}
      /\ UNCHANGED <<now, by_fd, fdHeld, nextCheck>>
    BY DEF Activity
<1>2. Alive(c) /\ conns[c] \in ConnRecords /\ now \in Nat
    BY <1>1, WhoIsIn DEF KaIInv, KaTypes
<1>3. /\ r \in ConnRecords /\ r.fd = conns[c].fd /\ r.lastActivity = now /\ r.pinged = conns[c].pinged
      /\ r.outgoing = conns[c].outgoing /\ r.at = conns[c].at /\ r.keepalive = conns[c].keepalive
      /\ r.since = conns[c].since
    BY <1>2 DEF ConnRecords
<1>4. /\ conns[c].lastActivity <= now /\ conns[c].pinged <= now
      /\ conns[c].lastActivity \in Nat /\ r.keepalive \in Nat /\ OneAndAHalf(r.keepalive) \in Nat
      /\ MinDelay \in Nat
    BY <1>2, <1>3, Halves, DelaysAssumption DEF KaIInv, InTime, ConnRecords
<1>5. NeedsCheck(r) => \E k \in checks' : k.client = c /\ Watches(k, r, now)
    <2> SUFFICES ASSUME NeedsCheck(r) PROVE \E k \in checks : k.client = c /\ Watches(k, r, now)
        BY <1>1
    <2>1. PICK k \in checks : k.client = c /\ Watches(k, conns[c], now)
        BY <1>1, <1>3 DEF KaIInv, Watched, NeedsCheck
    <2>2. k.at \in Nat
        BY DEF KaIInv, KaTypes
    <2>3. Watches(k, r, now)
        BY <1>3, <1>4, <2>1, <2>2, <1>2 DEF Watches
    <2> QED
        BY <2>1, <2>3
<1> HIDE DEF r
<1>6. {} \in SUBSET [client : {c}, at : Nat, recheck : BOOLEAN] /\ \A k \in {} : k.at > now
    OBVIOUS
<1>7. r.lastActivity <= now /\ r.pinged <= now
    BY <1>2, <1>3, <1>4
<1> QED
    BY <1>1, <1>3, <1>5, <1>6, <1>7, OneChanges

LEMMA ConnectKeeps ==
    ASSUME KaIInv, NEW c \in KaClients, NEW keep \in KeepAlives, Connect(c, keep)
    PROVE  KaIInv'
<1> DEFINE r == [conns[c] EXCEPT !.lastActivity = now, !.keepalive = keep]
<1>1. /\ IsIn(c) /\ conns' = [conns EXCEPT ![c] = r] /\ checks' = checks \cup {}
      /\ conns[c].at = "connected" /\ ~conns[c].outgoing
      /\ UNCHANGED <<now, by_fd, fdHeld, nextCheck>>
    BY DEF Connect
<1>2. Alive(c) /\ conns[c] \in ConnRecords /\ now \in Nat /\ keep \in Nat
    BY <1>1, WhoIsIn, KeepAlivesAssumption DEF KaIInv, KaTypes
<1>3. /\ r \in ConnRecords /\ r.fd = conns[c].fd /\ r.lastActivity = now /\ r.pinged = conns[c].pinged
      /\ ~NeedsCheck(r)
    BY <1>1, <1>2 DEF ConnRecords, NeedsCheck
<1>4. r.lastActivity <= now /\ r.pinged <= now
    BY <1>2, <1>3 DEF KaIInv, InTime
<1> HIDE DEF r
<1>5. {} \in SUBSET [client : {c}, at : Nat, recheck : BOOLEAN] /\ \A k \in {} : k.at > now
    OBVIOUS
<1> QED
    BY <1>1, <1>3, <1>4, <1>5, OneChanges

LEMMA LogInKeeps ==
    ASSUME KaIInv, NEW c \in KaClients, LogIn(c)
    PROVE  KaIInv'
<1> DEFINE r == [conns[c] EXCEPT !.at = "loggedIn", !.since = now, !.pinged = now]
           added == IF conns[c].outgoing THEN {} ELSE OneOfMany(c, conns[c])
<1>1. /\ IsIn(c) /\ conns' = [conns EXCEPT ![c] = r] /\ checks' = checks \cup added
      /\ conns[c].at = "connected"
      /\ UNCHANGED <<now, by_fd, fdHeld, nextCheck>>
    BY DEF LogIn, OneOfMany
<1>2. Alive(c) /\ conns[c] \in ConnRecords /\ now \in Nat
    BY <1>1, WhoIsIn DEF KaIInv, KaTypes
<1>3. /\ r \in ConnRecords /\ r.fd = conns[c].fd /\ r.lastActivity = conns[c].lastActivity
      /\ r.outgoing = conns[c].outgoing /\ r.at = "loggedIn" /\ r.keepalive = conns[c].keepalive
      /\ r.since = now /\ r.pinged = now
    BY <1>2 DEF ConnRecords
<1>4. /\ r.lastActivity <= now /\ r.pinged <= now
    BY <1>2, <1>3 DEF KaIInv, InTime
<1>5. /\ added \in SUBSET [client : {c}, at : Nat, recheck : BOOLEAN]
      /\ \A k \in added : k.at > now
    <2>1. CASE conns[c].outgoing
        BY <2>1
    <2>2. CASE ~conns[c].outgoing
        BY <2>2, <1>2, ChecksToCome DEF OneOfMany
    <2> QED
        BY <2>1, <2>2
<1>6. NeedsCheck(r) => \E k \in checks' : k.client = c /\ Watches(k, r, now)
    <2> SUFFICES ASSUME NeedsCheck(r) PROVE \E k \in checks' : k.client = c /\ Watches(k, r, now)
        OBVIOUS
    <2>1. CASE conns[c].outgoing
        <3>1. PICK k \in checks : k.client = c /\ Watches(k, conns[c], now)
            BY <1>1, <1>3, <2>1 DEF KaIInv, Watched, NeedsCheck
        <3>2. Watches(k, r, now)
            BY <1>1, <1>3, <2>1, <3>1 DEF Watches
        <3> QED
            BY <3>1, <3>2, <1>1
    <2>2. CASE ~conns[c].outgoing
        <3>1. SecondsTillAction(conns[c], now) = UnauthDelay /\ UnauthDelay # 0
            BY <1>1, <2>2, DelaysAssumption DEF SecondsTillAction
        <3>2. PICK k \in OneOfMany(c, conns[c]) : k.client = c /\ k.recheck /\ k.at = now + UnauthDelay
            BY <1>2, <3>1, CheckToCome
        <3>3. k \in checks'
            BY <1>1, <2>2, <3>2
        <3>4. k.at <= r.since + UnauthDelay
            BY <3>2, <1>2, <1>3, DelaysAssumption
        <3>5. Watches(k, r, now)
            BY <1>3, <2>2, <3>2, <3>4 DEF Watches
        <3> QED
            BY <3>2, <3>3, <3>5
    <2> QED
        BY <2>1, <2>2
<1> HIDE DEF r, added
<1> QED
    BY <1>1, <1>3, <1>4, <1>5, <1>6, OneChanges

\* Clients leave, and those to whom the last reference was theirs are destroyed.
Drops(died, cn, next) ==
    /\ died \subseteq KaClients
    /\ cn \in [KaClients -> {NotYet, Destroyed} \cup ConnRecords]
    /\ conns' = Destroy(died, cn)
    /\ \A c \in KaClients : Alive(c) <=> cn[c] \in ConnRecords
    /\ \A c \in KaClients : Alive(c) => cn[c].fd = conns[c].fd
    /\ by_fd' \in [Fds -> KaClients \cup {NoClient}]
    /\ \A f \in Fds : by_fd'[f] = by_fd[f] \/ by_fd'[f] = NoClient
    /\ \A c \in died, f \in Fds : by_fd'[f] # c
    /\ next \subseteq [client : KaClients, at : Nat, recheck : BOOLEAN]
    /\ \A k \in next, c \in KaClients : k.client = c => Alive(c)
    /\ checks' = {k \in next : k.client \notin died}

LEMMA SomeGo ==
    ASSUME KaIInv, NEW died, NEW cn, NEW next, Drops(died, cn, next)
    PROVE  /\ FdsDiffer'
           /\ conns' \in [KaClients -> {NotYet, Destroyed} \cup ConnRecords]
           /\ checks' \subseteq [client : KaClients, at : Nat, recheck : BOOLEAN]
           /\ \A c \in KaClients : Alive(c)' => Alive(c) /\ conns'[c] = cn[c]
           /\ \A c \in KaClients : IsIn(c)' =>
                 /\ IsIn(c) /\ conns'[c] = cn[c]
                 /\ \A k \in next : k.client = c => k \in checks'
<1> USE DEF KaIInv, Drops
<1>1. /\ \A c \in died : conns'[c] = Destroyed
      /\ \A c \in KaClients : c \notin died => conns'[c] = cn[c]
      /\ conns' \in [KaClients -> {NotYet, Destroyed} \cup ConnRecords]
    BY DEF Destroy
<1>2. \A c \in KaClients : Alive(c)' <=> c \notin died /\ Alive(c)
    <2>1. \A c \in KaClients : cn[c] \in ConnRecords <=> cn[c] \notin {NotYet, Destroyed}
        BY WhoIsAlive
    <2> QED
        BY <1>1, <2>1 DEF Alive
<1>3. \A c \in KaClients : IsIn(c)' <=> \E f \in Fds : by_fd'[f] = c
    BY DEF IsIn, Range
<1>4. \A c \in KaClients, f \in Fds : by_fd'[f] = c => by_fd[f] = c /\ c \notin died
    BY NoClientAssumption DEF NoClient
<1>5. \A c \in KaClients : IsIn(c)' => IsIn(c) /\ c \notin died
    BY <1>3, <1>4, WhoIsIn
<1>6. FdsDiffer'
    <2>1. \A f \in Fds, d \in KaClients : by_fd'[f] = d => Alive(d)' /\ conns'[d].fd = f
        BY <1>1, <1>2, <1>4 DEF FdsDiffer
    <2>2. \A d, e \in KaClients : Alive(d)' /\ Alive(e)' /\ conns'[d].fd = conns'[e].fd => d = e
        BY <1>1, <1>2 DEF FdsDiffer
    <2>3. \A k \in checks', d \in KaClients : k.client = d => Alive(d)'
        BY <1>2
    <2> QED
        BY <2>1, <2>2, <2>3 DEF FdsDiffer
<1> QED
    BY <1>1, <1>2, <1>5, <1>6

LEMMA RemoveKeeps ==
    ASSUME KaIInv, NEW died \in SUBSET KaClients,
           conns' = Destroy(died, conns),
           by_fd' \in [Fds -> KaClients \cup {NoClient}],
           \A f \in Fds : by_fd'[f] = by_fd[f] \/ by_fd'[f] = NoClient,
           \A c \in died, f \in Fds : by_fd'[f] # c,
           checks' = checks \ ChecksOf(died), fdHeld' \subseteq KaClients,
           UNCHANGED <<now, nextCheck>>
    PROVE  KaIInv'
<1> USE DEF KaIInv
<1>1. checks' = {k \in checks : k.client \notin died}
    BY DEF ChecksOf
<1>2. /\ conns \in [KaClients -> {NotYet, Destroyed} \cup ConnRecords]
      /\ \A c \in KaClients : Alive(c) <=> conns[c] \in ConnRecords
      /\ checks \in SUBSET [client : KaClients, at : Nat, recheck : BOOLEAN]
      /\ \A k \in checks, c \in KaClients : k.client = c => Alive(c)
      /\ \A c \in KaClients : Alive(c) => conns[c].fd = conns[c].fd
    BY WhoIsAlive DEF KaTypes, FdsDiffer
<1>3. /\ FdsDiffer'
      /\ conns' \in [KaClients -> {NotYet, Destroyed} \cup ConnRecords]
      /\ checks' \subseteq [client : KaClients, at : Nat, recheck : BOOLEAN]
      /\ \A c \in KaClients : Alive(c)' => Alive(c) /\ conns'[c] = conns[c]
      /\ \A c \in KaClients : IsIn(c)' =>
            /\ IsIn(c) /\ conns'[c] = conns[c]
            /\ \A k \in checks : k.client = c => k \in checks'
    <2>1. Drops(died, conns, checks)
        BY <1>1, <1>2 DEF Drops
    <2> QED
        BY <2>1, SomeGo
<1>4. KaTypes'
    BY <1>3 DEF KaTypes
<1>5. InTime'
    BY <1>1, <1>3 DEF InTime
<1>6. Watched'
    BY <1>3 DEF Watched, NeedsCheck, Watches
<1> QED
    BY <1>3, <1>4, <1>5, <1>6

LEMMA CheckKeeps ==
    ASSUME KaIInv, doKeepAliveCheck
    PROVE  KaIInv' /\ ~RemovesActive
<1> USE DEF KaIInv
<1> DEFINE cn == [c \in KaClients |-> IF Pinged(c) THEN [conns[c] EXCEPT !.pinged = now] ELSE conns[c]]
           died == {c \in Range(by_fd) \ {NoClient} : c \notin Range(FdsAfter) \cup fdHeld}
           next == (checks \ Due) \cup Rechecked
<1>1. /\ nextCheck = now /\ nextCheck' = now + CheckInterval /\ now' = now /\ fdHeld' = fdHeld
      /\ by_fd' = FdsAfter /\ conns' = Destroy(died, cn)
      /\ checks' = {k \in next : k.client \notin died}
    BY DEF doKeepAliveCheck
<1>2. /\ now \in Nat /\ CheckInterval \in Nat \ {0}
      /\ \A c \in KaClients : Alive(c) <=> conns[c] \in ConnRecords
      /\ \A r \in ConnRecords : r \notin {NotYet, Destroyed}
    BY WhoIsAlive, DelaysAssumption DEF KaTypes
<1>3. /\ \A k \in checks : k.client \in KaClients /\ Alive(k.client) /\ k.at \in Nat
      /\ Due \subseteq checks /\ \A k \in checks : k \notin Due <=> k.at > now
      /\ DueClients \subseteq KaClients /\ \A c \in DueClients : Alive(c)
      /\ ToRecheck \subseteq DueClients /\ ToRemove \subseteq DueClients
    BY <1>2 DEF KaTypes, FdsDiffer, Due, DueClients, ToRecheck, ToRemove
<1>4. /\ \A f \in Fds : by_fd'[f] = by_fd[f] \/ by_fd'[f] = NoClient
      /\ by_fd' \in [Fds -> KaClients \cup {NoClient}]
      /\ \A c \in ToRemove, f \in Fds : by_fd'[f] # c
    <2>1. \A c \in ToRemove : c \in KaClients /\ c # NoClient
        BY <1>3, NoClientAssumption DEF NoClient
    <2> QED
        BY <2>1, <1>1 DEF FdsAfter, KaTypes, FdsDiffer
<1>5. died \in SUBSET KaClients /\ \A c \in died, f \in Fds : by_fd'[f] # c
    BY <1>1, <1>4 DEF Range, KaTypes
<1>6. /\ cn \in [KaClients -> {NotYet, Destroyed} \cup ConnRecords]
      /\ \A c \in KaClients : Alive(c) <=> cn[c] \in ConnRecords
      /\ \A c \in KaClients : Alive(c) =>
            /\ cn[c].fd = conns[c].fd /\ cn[c].at = conns[c].at
            /\ cn[c].outgoing = conns[c].outgoing /\ cn[c].keepalive = conns[c].keepalive
            /\ cn[c].lastActivity = conns[c].lastActivity /\ cn[c].since = conns[c].since
            /\ cn[c].pinged = IF Pinged(c) THEN now ELSE conns[c].pinged
    <2>1. ASSUME NEW c \in KaClients, Pinged(c)
          PROVE  /\ Alive(c) /\ cn[c] \in ConnRecords
                 /\ cn[c].fd = conns[c].fd /\ cn[c].at = conns[c].at
                 /\ cn[c].outgoing = conns[c].outgoing /\ cn[c].keepalive = conns[c].keepalive
                 /\ cn[c].lastActivity = conns[c].lastActivity /\ cn[c].since = conns[c].since
                 /\ cn[c].pinged = now
        <3>1. conns[c] \in ConnRecords /\ Alive(c)
            BY <2>1, <1>2, <1>3 DEF Pinged
        <3> QED
            BY <2>1, <3>1, <1>2 DEF ConnRecords
    <2>2. \A c \in KaClients : ~Pinged(c) => cn[c] = conns[c]
        OBVIOUS
    <2>3. cn \in [KaClients -> {NotYet, Destroyed} \cup ConnRecords]
        BY <2>1, <2>2 DEF KaTypes
    <2> HIDE DEF cn
    <2> QED
        BY <2>1, <2>2, <2>3, <1>2
<1>7. /\ next \in SUBSET [client : KaClients, at : Nat, recheck : BOOLEAN]
      /\ \A k \in next, c \in KaClients : k.client = c => Alive(c)
      /\ \A k \in next : k.at > now
      /\ \A c \in ToRecheck : \A k \in OneOfMany(c, conns[c]) : k \in next
    <2>1. \A k \in Rechecked : \E c \in ToRecheck : k \in OneOfMany(c, conns[c])
        BY DEF Rechecked, OneOfMany
    <2>2. \A c \in ToRecheck : \A k \in OneOfMany(c, conns[c]) : k \in Rechecked
        BY DEF Rechecked, OneOfMany
    <2>3. ASSUME NEW c \in ToRecheck
          PROVE  /\ c \in KaClients /\ Alive(c)
                 /\ OneOfMany(c, conns[c]) \subseteq [client : {c}, at : Nat, recheck : BOOLEAN]
                 /\ \A k \in OneOfMany(c, conns[c]) : k.at > now
        <3>1. c \in KaClients /\ Alive(c) /\ conns[c] \in ConnRecords
            BY <1>2, <1>3
        <3> QED
            BY <3>1, <1>2, ChecksToCome DEF OneOfMany
    <2>4. \A k \in Rechecked : /\ k \in [client : KaClients, at : Nat, recheck : BOOLEAN]
                               /\ k.at > now /\ Alive(k.client)
        BY <2>1, <2>3
    <2>5. \A k \in checks \ Due : /\ k \in [client : KaClients, at : Nat, recheck : BOOLEAN]
                                 /\ k.at > now /\ Alive(k.client)
        BY <1>3 DEF KaTypes
    <2> QED
        BY <2>2, <2>4, <2>5
<1> HIDE DEF cn, died, next
<1>8. /\ FdsDiffer'
      /\ conns' \in [KaClients -> {NotYet, Destroyed} \cup ConnRecords]
      /\ checks' \subseteq [client : KaClients, at : Nat, recheck : BOOLEAN]
      /\ \A c \in KaClients : Alive(c)' => Alive(c) /\ conns'[c] = cn[c]
      /\ \A c \in KaClients : IsIn(c)' =>
            /\ IsIn(c) /\ conns'[c] = cn[c]
            /\ \A k \in next : k.client = c => k \in checks'
    <2>1. \A c \in KaClients : Alive(c) => cn[c].fd = conns[c].fd
        BY <1>6
    <2>2. conns' = Destroy(died, cn) /\ checks' = {k \in next : k.client \notin died}
        BY <1>1
    <2>3. /\ cn \in [KaClients -> {NotYet, Destroyed} \cup ConnRecords]
          /\ \A c \in KaClients : Alive(c) <=> cn[c] \in ConnRecords
        BY <1>6
    <2>4. /\ next \in SUBSET [client : KaClients, at : Nat, recheck : BOOLEAN]
          /\ \A k \in next, c \in KaClients : k.client = c => Alive(c)
        BY <1>7
    <2>5. Drops(died, cn, next)
        BY <2>1, <2>2, <2>3, <2>4, <1>4, <1>5 DEF Drops
    <2> QED
        BY <2>5, SomeGo
<1>9. KaTypes'
    BY <1>1, <1>2, <1>4, <1>8 DEF KaTypes
<1>10. InTime'
    <2>1. \A k \in checks' : nextCheck' < k.at + CheckInterval
        <3>1. ASSUME NEW k \in checks'
              PROVE  nextCheck' < k.at + CheckInterval
            <4>1. k \in next /\ k.at \in Nat /\ k.at > now
                BY <1>1, <1>7
            <4> QED
                BY <4>1, <1>1, <1>2
        <3> QED
            BY <3>1
    <2>2. \A c \in KaClients : Alive(c)' => conns'[c].lastActivity <= now /\ conns'[c].pinged <= now
        BY <1>2, <1>6, <1>8 DEF InTime
    <2> QED
        BY <2>1, <2>2, <1>1, <1>2 DEF InTime
<1>11. Watched'
    <2>1. ASSUME NEW c \in KaClients, IsIn(c)', NeedsCheck(conns'[c])
          PROVE  \E k \in checks' : k.client = c /\ Watches(k, conns'[c], now')
        <3>1. /\ IsIn(c) /\ Alive(c) /\ conns[c] \in ConnRecords /\ conns'[c] = cn[c]
              /\ NeedsCheck(conns[c]) /\ cn[c] \in ConnRecords
              /\ \A k \in next : k.client = c => k \in checks'
            BY <2>1, <1>6, <1>8, WhoIsIn DEF NeedsCheck
        <3>2. PICK k \in checks : k.client = c /\ Watches(k, conns[c], now)
            BY <3>1 DEF Watched
        <3>3. CASE k \notin Due
            <4>1. k \in next
                BY <3>3 DEF next
            <4>2. /\ conns[c].pinged <= cn[c].pinged /\ conns[c].pinged \in Nat /\ cn[c].pinged \in Nat
                  /\ conns[c].keepalive \in Nat /\ k.at \in Nat
                BY <3>1, <1>2, <1>3, <1>6 DEF InTime, ConnRecords
            <4>3. Watches(k, cn[c], now)
                BY <3>1, <3>2, <4>2, <1>6 DEF Watches
            <4> QED
                BY <3>1, <3>2, <4>1, <4>3, <1>1
        <3>4. CASE k \in Due
            <4>1. c \in DueClients /\ k.recheck
                BY <3>2, <3>4 DEF DueClients, Watches
            <4>2. c \notin ToRemove
                BY <2>1, <1>4 DEF IsIn, Range
            <4>3. c \in ToRecheck
                BY <3>2, <3>4, <4>1, <4>2 DEF ToRecheck
            <4>4. now <= conns[c].lastActivity + OneAndAHalf(conns[c].keepalive)
                <5>1. ~keepAliveExpired(c) /\ conns[c].keepalive # 0
                    BY <4>1, <4>2, <3>1 DEF ToRemove, NeedsCheck
                <5>2. /\ conns[c].keepalive \in Nat /\ conns[c].lastActivity \in Nat
                      /\ OneAndAHalf(conns[c].keepalive) \in Nat
                    BY <3>1, Halves DEF ConnRecords
                <5> QED
                    BY <5>1, <5>2, <1>2 DEF keepAliveExpired
            <4>5. cn[c].at = "loggedIn" /\ cn[c].outgoing => cn[c].pinged = now
                BY <3>1, <4>1, <1>6 DEF Pinged
            <4>6. /\ cn[c].outgoing = conns[c].outgoing /\ cn[c].at = conns[c].at
                  /\ cn[c].keepalive = conns[c].keepalive /\ cn[c].lastActivity = conns[c].lastActivity
                BY <3>1, <1>6
            <4>7. PICK j \in OneOfMany(c, conns[c]) : j.client = c /\ Watches(j, cn[c], now)
                BY <3>1, <4>4, <4>5, <4>6, <1>2, NextIsInTime
            <4>8. j \in next
                BY <4>3, <4>7, <1>7
            <4> QED
                BY <3>1, <4>7, <4>8, <1>1
        <3> QED
            BY <3>3, <3>4
    <2> QED
        BY <2>1 DEF Watched, NeedsCheck
<1>12. ~RemovesActive
    <2>1. ASSUME NEW c \in KaClients, IsIn(c), by_fd'[conns[c].fd] # c,
                 now <= conns[c].lastActivity + OneAndAHalf(conns[c].keepalive)
          PROVE  FALSE
        <3>1. /\ Alive(c) /\ conns[c] \in ConnRecords /\ conns[c].fd \in Fds
              /\ by_fd[conns[c].fd] = c
            BY <2>1, WhoIsIn
        <3>2. PICK d \in ToRemove : conns[d].fd = conns[c].fd
            BY <2>1, <3>1, <1>1 DEF FdsAfter
        <3>3. d = c
            BY <3>1, <3>2, <1>3 DEF FdsDiffer
        <3>4. conns[c].lastActivity + OneAndAHalf(conns[c].keepalive) < now
            BY <3>2, <3>3 DEF ToRemove, keepAliveExpired
        <3>5. conns[c].lastActivity + OneAndAHalf(conns[c].keepalive) \in Nat
            BY <3>1, Halves DEF ConnRecords
        <3> QED
            BY <2>1, <3>4, <3>5, <1>2
    <2> QED
        BY <2>1 DEF RemovesActive
<1> QED
    BY <1>8, <1>9, <1>10, <1>11, <1>12

LEMMA KaStep ==
    ASSUME KaIInv, [KaNext]_kaVars
    PROVE  KaIInv' /\ ~RemovesActive
<1>0. ASSUME nextCheck' = nextCheck
      PROVE  ~RemovesActive
    BY <1>0, DelaysAssumption DEF RemovesActive, doKeepAliveCheck, KaIInv, KaTypes
<1>1. ASSUME NEW c \in KaClients, NEW fd \in Fds, NEW outgoing \in BOOLEAN,
             NEW k \in KeepAlives \cup {DefaultKeepAlive}, Accept(c, fd, outgoing, k)
      PROVE  KaIInv' /\ ~RemovesActive
    BY <1>0, <1>1, AcceptKeeps DEF Accept
<1>2. ASSUME NEW c \in KaClients, Activity(c)
      PROVE  KaIInv' /\ ~RemovesActive
    BY <1>0, <1>2, ActivityKeeps DEF Activity
<1>3. ASSUME NEW c \in KaClients, NEW k \in KeepAlives, Connect(c, k)
      PROVE  KaIInv' /\ ~RemovesActive
    BY <1>0, <1>3, ConnectKeeps DEF Connect
<1>4. ASSUME NEW c \in KaClients, LogIn(c)
      PROVE  KaIInv' /\ ~RemovesActive
    BY <1>0, <1>4, LogInKeeps DEF LogIn
<1>5. ASSUME NEW c \in KaClients, RemoveClient(c)
      PROVE  KaIInv' /\ ~RemovesActive
    <2> DEFINE died == {c} \ fdHeld
    <2>1. /\ IsIn(c) /\ by_fd' = [by_fd EXCEPT ![conns[c].fd] = NoClient]
          /\ conns' = Destroy(died, conns) /\ checks' = checks \ ChecksOf(died)
          /\ UNCHANGED <<now, fdHeld, nextCheck>>
        BY <1>5 DEF RemoveClient
    <2>2. conns[c].fd \in Fds /\ c # NoClient
        BY <2>1, WhoIsIn, NoClientAssumption DEF KaIInv, NoClient
    <2>3. /\ by_fd' \in [Fds -> KaClients \cup {NoClient}]
          /\ \A f \in Fds : by_fd'[f] = by_fd[f] \/ by_fd'[f] = NoClient
          /\ \A f \in Fds : by_fd'[f] # c
        BY <2>1, <2>2 DEF KaIInv, KaTypes, FdsDiffer
    <2>4. died \in SUBSET KaClients /\ \A d \in died, f \in Fds : by_fd'[f] # d
        BY <2>3
    <2>5. fdHeld' \subseteq KaClients
        BY <2>1 DEF KaIInv, KaTypes
    <2> HIDE DEF died
    <2>6. KaIInv'
        BY <2>1, <2>3, <2>4, <2>5, RemoveKeeps
    <2> QED
        BY <1>0, <2>1, <2>6
<1>6. ASSUME NEW c \in KaClients, Hold(c)
      PROVE  KaIInv' /\ ~RemovesActive
    <2>1. /\ fdHeld' = fdHeld \cup {c} /\ UNCHANGED <<now, conns, by_fd, checks, nextCheck>>
        BY <1>6 DEF Hold
    <2>2. KaIInv'
        BY <2>1 DEF KaIInv, KaTypes, InTime, FdsDiffer, Watched, Alive, IsIn
    <2> QED
        BY <1>0, <2>1, <2>2
<1>7. ASSUME NEW c \in KaClients, Release(c)
      PROVE  KaIInv' /\ ~RemovesActive
    <2> DEFINE died == {c} \ Range(by_fd)
    <2>1. /\ fdHeld' = fdHeld \ {c}
          /\ conns' = Destroy(died, conns) /\ checks' = checks \ ChecksOf(died)
          /\ UNCHANGED <<now, by_fd, nextCheck>>
        BY <1>7 DEF Release
    <2>2. /\ by_fd' \in [Fds -> KaClients \cup {NoClient}] /\ fdHeld' \subseteq KaClients
          /\ \A f \in Fds : by_fd'[f] = by_fd[f] \/ by_fd'[f] = NoClient
        BY <2>1 DEF KaIInv, KaTypes
    <2>3. died \in SUBSET KaClients /\ \A d \in died, f \in Fds : by_fd'[f] # d
        BY <2>1 DEF Range, KaIInv, KaTypes
    <2> HIDE DEF died
    <2>4. KaIInv'
        BY <2>1, <2>2, <2>3, RemoveKeeps
    <2> QED
        BY <1>0, <2>1, <2>4
<1>8. CASE Tick
    <2>1. /\ now' = now + 1 /\ now < nextCheck /\ UNCHANGED <<conns, by_fd, fdHeld, checks, nextCheck>>
        BY <1>8 DEF Tick
    <2>2. KaTypes' /\ InTime' /\ FdsDiffer'
        <3>1. /\ now \in Nat /\ nextCheck \in Nat /\ CheckInterval \in Nat
              /\ \A c \in KaClients : Alive(c) => conns[c].lastActivity \in Nat /\ conns[c].pinged \in Nat
            BY WhoIsAlive, DelaysAssumption DEF KaIInv, KaTypes, ConnRecords
        <3> QED
            BY <2>1, <3>1 DEF KaIInv, KaTypes, InTime, FdsDiffer, Alive
    <2>3. Watched'
        <3>1. ASSUME NEW c \in KaClients, IsIn(c), NeedsCheck(conns[c])
              PROVE  \E k \in checks : k.client = c /\ Watches(k, conns[c], now')
            <4>1. PICK k \in checks : k.client = c /\ Watches(k, conns[c], now)
                BY <3>1 DEF KaIInv, Watched
            <4>2. k.at \in Nat /\ conns[c].keepalive \in Nat /\ now \in Nat
                BY <3>1, WhoIsIn DEF KaIInv, KaTypes, ConnRecords
            <4>3. Watches(k, conns[c], now')
                BY <2>1, <4>1, <4>2 DEF Watches
            <4> QED
                BY <4>1, <4>3
        <3> QED
            BY <2>1, <3>1 DEF Watched, IsIn, NeedsCheck
    <2> QED
        BY <1>0, <2>1, <2>2, <2>3 DEF KaIInv
<1>9. CASE UNCHANGED kaVars
    <2>1. KaIInv'
        BY <1>9 DEF kaVars, KaIInv, KaTypes, InTime, FdsDiffer, Watched, Alive, IsIn
    <2> QED
        BY <1>0, <1>9, <2>1 DEF kaVars
<1> QED
    BY <1>1, <1>2, <1>3, <1>4, <1>5, <1>6, <1>7, <1>8, <1>9, CheckKeeps DEF KaNext

LEMMA WatchedInTime == KaIInv => ChecksAreKept
<1> SUFFICES ASSUME KaIInv PROVE ChecksAreKept
    OBVIOUS
<1> USE DEF KaIInv
<1>1. ASSUME NEW c \in KaClients, IsIn(c), conns[c].at = "loggedIn", conns[c].keepalive # 0
      PROVE  /\ \/ now <= Latest(conns[c])
                \/ now <= conns[c].since + UnauthDelay + CheckInterval
             /\ conns[c].outgoing => now <= conns[c].pinged + conns[c].keepalive + CheckInterval
    <2> DEFINE r == conns[c]
               h == OneAndAHalf(r.keepalive)
    <2>1. PICK k \in checks : k.client = c /\ Watches(k, r, now)
        BY <1>1 DEF Watched, NeedsCheck
    <2>2. r \in ConnRecords
        BY <1>1, WhoIsIn
    <2>3. /\ r.keepalive \in Nat /\ r.lastActivity \in Nat /\ r.since \in Nat /\ r.pinged \in Nat
          /\ r.outgoing \in BOOLEAN /\ h \in Nat /\ k.at \in Nat /\ now \in Nat /\ nextCheck \in Nat
          /\ MinDelay \in Nat /\ UnauthDelay \in Nat /\ CheckInterval \in Nat
          /\ r.at = "loggedIn"
        BY <1>1, <2>2, Halves, DelaysAssumption DEF KaTypes, ConnRecords
    <2> HIDE DEF r, h
    <2>4. now < k.at + CheckInterval
        BY <2>3 DEF InTime
    <2>5. CASE r.outgoing
        <3>1. k.at <= r.lastActivity + h + r.keepalive /\ k.at <= r.pinged + r.keepalive
            BY <2>1, <2>3, <2>5 DEF Watches, h
        <3>2. Latest(r) = r.lastActivity + h + CheckInterval + r.keepalive
            BY <2>5 DEF Latest, h
        <3> QED
            BY <2>3, <2>4, <3>1, <3>2 DEF r
    <2>6. CASE ~r.outgoing
        <3>1. k.at <= r.lastActivity + h + MinDelay + 1 \/ k.at <= r.since + UnauthDelay
            BY <2>1, <2>6 DEF Watches, h
        <3>2. Latest(r) = r.lastActivity + h + CheckInterval + MinDelay
            BY <2>6 DEF Latest, h
        <3>3. now <= Latest(r) \/ now <= r.since + UnauthDelay + CheckInterval
            BY <2>3, <2>4, <3>1, <3>2
        <3> QED
            BY <2>6, <3>3 DEF r
    <2> QED
        BY <2>3, <2>5, <2>6
<1> QED
    BY <1>1 DEF ChecksAreKept, SilentIsRemoved, BridgeIsPinged


(* A worker that has to do both finds every silent client in time and performs *)
(* every task once, whatever the order of its work (threaddata.cpp:1180, 1224; *)
(* queuedtasks.cpp:65).                                                       *)
THEOREM WorkStaysKept == KaSpec /\ TasksSpec => []WorkIsKept
<1>1. KaInit => KaIInv
    BY KaStart
<1>2. KaIInv /\ [KaNext]_kaVars => KaIInv'
    BY KaStep
<1>3. TasksInit => ImmediateIInv /\ DelayedIInv
    BY ImmediateStart, DelayedStart
<1>4. ImmediateIInv /\ DelayedIInv /\ [TasksNext]_taskVars => (ImmediateIInv /\ DelayedIInv)'
    BY TasksStep
<1>5. KaIInv /\ ImmediateIInv /\ DelayedIInv => WorkIsKept
    BY WatchedInTime DEF ImmediateIInv, DelayedIInv, TasksAreKept, WorkIsKept
<1> QED
    BY <1>1, <1>2, <1>3, <1>4, <1>5, PTL DEF KaSpec, TasksSpec

(* No step removes a client that was not silent, also when its descriptor was  *)
(* another client's before, and none makes a delayed task due that was erased, *)
(* also when its id is used again (threaddata.cpp:1299, queuedtasks.cpp:73).   *)
THEOREM NothingStrayIsEverDone == KaSpec /\ TasksSpec => NothingStrayIsDone
<1>1. KaInit => KaIInv
    BY KaStart
<1>2. KaIInv /\ [KaNext]_kaVars => KaIInv' /\ ~RemovesActive
    BY KaStep
<1>3. TasksInit => ImmediateIInv /\ DelayedIInv
    BY ImmediateStart, DelayedStart
<1>4. ImmediateIInv /\ DelayedIInv /\ [TasksNext]_taskVars =>
          (ImmediateIInv /\ DelayedIInv)' /\ ~PerformsErased
    BY TasksStep
<1>5. /\ KaIInv /\ [KaNext]_kaVars
      /\ ImmediateIInv /\ DelayedIInv /\ [TasksNext]_taskVars
      => [~RemovesActive /\ ~PerformsErased]_<<kaVars, taskVars>>
    BY <1>2, <1>4
<1> QED
    BY <1>1, <1>2, <1>3, <1>4, <1>5, PTL DEF KaSpec, TasksSpec, NothingStrayIsDone
-----------------------------------------------------------------------------
(* The stop: the inductive invariant.  What a worker has still to do (its batch *)
(* and its queue) is in order and fits what it did, nobody is told before all    *)
(* wills are published, and every client that can be told is told, or is going   *)
(* to be, before its thread ends.                                             *)

Items(s) == {s[i] : i \in 1..Len(s)}

\* Is b in its place after a?  Wills and disconnects come once, a client is told once, and
\* the clients are collected when all were told.
MayFollow(a, b) ==
    /\ a.kind = b.kind => /\ a.kind \notin {"wills", "disconnects"}
                          /\ a.kind = "tell" => a.clients # b.clients
    /\ a.kind = "collect" => b.kind # "tell"
InPlace(q) == \A i, j \in 1..Len(q) : i < j => MayFollow(q[i], q[j])

\* What a worker has still to do, and what a client was sent from the start.
Ahead(w) == turn[w].batch \o work[w]
Story(c) == onWire[c] \o unsent[c]

Early == main \in {"runs", "wills", "waitsForWills", "disconnects"}
Before(w) == Early \/ \E k \in Items(Ahead(w)) : k.kind = "disconnects"
Reachable(c) == c \in (Stayed \cap Mqtt5Clients) \ StuckClients

TurnsEnd ==
    \A w \in Workers :
        /\ turn[w].at # "turn" => turn[w].batch = <<>> /\ turn[w].events = {} /\ turn[w].ready = {}
        /\ runs[w].finished => turn[w].at = "ended"
        /\ turn[w].at = "ended" => ~runs[w].running

Addressed(w, k) ==
    /\ k.kind = "tell" => \E c \in Connections : /\ k.clients = {c} /\ Worker[c] = w
                                                 /\ Disconnect \notin Items(Story(c))
    /\ k.kind = "remove" => \A c \in k.clients : c \notin Mqtt5Clients /\ Worker[c] = w
    /\ k.kind = "collect" => \A c \in Connections : Reachable(c) /\ Worker[c] = w => c \in k.clients
JobFits(w, k) ==
    /\ Addressed(w, k)
    /\ k.kind = "wills" => main \notin {"runs", "wills"} /\ ~runs[w].allWillsQueued
    /\ k.kind = "disconnects" => ~Early
    /\ k.kind = "ended" /\ Early => k.clients \subseteq gone
    /\ Before(w) => k.kind \in {"wills", "disconnects", "ended"}
JobsFit == \A w \in Workers : InPlace(Ahead(w)) /\ \A k \in Items(Ahead(w)) : JobFits(w, k)

Gathers(w) == "collect" \in woken[w] \cup turn[w].events
Quits(w) == ~runs[w].running \/ \E k \in Items(Ahead(w)) : k.kind = "quit"

NothingYet ==
    /\ \A w \in Workers : Before(w) => runs[w].running /\ ~Gathers(w)
    /\ \A c \in Connections : Before(Worker[c]) =>
          /\ stopStage[c] = "NotInitiated" /\ c \in byFd \cup gone
          /\ Disconnect \notin Items(Story(c))

Once(s) == \A i, j \in 1..Len(s) : s[i] = s[j] => i = j
Preceded(s, D) == \A j \in 1..Len(s) : s[j] = Disconnect =>
                       \A d \in D : \E i \in 1..(j - 1) : s[i] = d
WillsRight ==
    /\ main \in {"runs", "wills"} => \A w \in Workers : ~runs[w].allWillsQueued
    /\ main \in {"runs", "wills", "waitsForWills"} \/ \A w \in Workers : runs[w].allWillsQueued
    /\ \A d \in Stayed : runs[Worker[d]].allWillsQueued \/ d \in hasWill
    /\ \A c \in Connections : Once(Story(c)) /\ hasWill \cap Items(Story(c)) = {}
    /\ \A c, d \in Stayed : runs[Worker[d]].allWillsQueued => d \in Items(Story(c))
    /\ \A c \in Connections : Reachable(c) => Preceded(Story(c), Stayed)

Told(c) == Disconnect \in Items(Story(c))
OnWire(c) == Disconnect \in Items(onWire[c])
ClientFits(c) ==
    /\ stopStage[c] # "NotInitiated" => Told(c)
    /\ c \in byFd \/ OnWire(c)
    /\ Told(c) \/ Before(Worker[c]) \/ Job("tell", {c}) \in Items(Ahead(Worker[c]))
    /\ Gathers(Worker[c]) => c \in collected[Worker[c]] /\ Told(c)
    /\ Quits(Worker[c]) => Told(c) /\ (OnWire(c) \/ c \in turn[Worker[c]].ready)
ClientsFit == \A c \in Connections : Reachable(c) => ClientFits(c)

Turns == [at : {"epoll", "turn", "ended"}, batch : Seq(StopJobs),
          events : SUBSET {"tasks", "collect"}, ready : SUBSET Connections]
Flags == [running : BOOLEAN, allWillsQueued : BOOLEAN, finished : BOOLEAN]
StopShape ==
    /\ main \in {"runs", "wills", "waitsForWills", "disconnects", "waitsForQuit",
                "waitsForFinish", "waitsForSaver", "saves", "ended"}
    /\ saver \in {"idle", "saves", "stopped"} /\ saverRuns \in BOOLEAN
    /\ work \in [Workers -> Seq(StopJobs)] /\ turn \in [Workers -> Turns]
    /\ woken \in [Workers -> SUBSET {"tasks", "collect"}]
    /\ collected \in [Workers -> SUBSET Connections]
    /\ runs \in [Workers -> [running : BOOLEAN, allWillsQueued : BOOLEAN, finished : BOOLEAN]]
    /\ byFd \subseteq Connections /\ hasWill \subseteq Connections /\ gone \subseteq Connections
    /\ unsent \in [Connections -> Seq(StopPackets)] /\ onWire \in [Connections -> Seq(StopPackets)]
    /\ stopStage \in [Connections -> {"NotInitiated", "SendPendingAppData", "Now"}]

SaverFits == main \in {"saves", "ended"} => saver = "stopped"

StopIInv ==
    /\ StopShape /\ TurnsEnd /\ JobsFit /\ NothingYet /\ WillsRight /\ ClientsFit /\ SaverFits

-----------------------------------------------------------------------------
(* Sequences                                                                 *)

LEMMA ItemsOfConcat ==
    ASSUME NEW S, NEW s \in Seq(S), NEW t \in Seq(S)
    PROVE  /\ s \o t \in Seq(S)
           /\ Items(s \o t) = Items(s) \cup Items(t)
<1>1. /\ s \o t \in Seq(S) /\ Len(s \o t) = Len(s) + Len(t) /\ Len(s) \in Nat /\ Len(t) \in Nat
      /\ \A i \in 1..(Len(s) + Len(t)) : (s \o t)[i] = IF i <= Len(s) THEN s[i] ELSE t[i - Len(s)]
    BY ConcatProperties, LenProperties
<1>2. ASSUME NEW i \in 1..Len(t)
      PROVE  i + Len(s) \in 1..Len(s \o t) /\ (s \o t)[i + Len(s)] = t[i]
    <2>1. i + Len(s) \in 1..(Len(s) + Len(t)) /\ ~(i + Len(s) <= Len(s)) /\ (i + Len(s)) - Len(s) = i
        BY <1>1
    <2> QED
        BY <1>1, <2>1
<1>3. Items(t) \subseteq Items(s \o t)
    BY <1>2 DEF Items
<1>4. Items(s) \subseteq Items(s \o t)
    BY <1>1 DEF Items
<1>5. Items(s \o t) \subseteq Items(s) \cup Items(t)
    <2>1. ASSUME NEW i \in 1..(Len(s) + Len(t)), ~(i <= Len(s))
          PROVE  i - Len(s) \in 1..Len(t)
        BY <1>1, <2>1
    <2> QED
        BY <1>1, <2>1 DEF Items
<1> QED
    BY <1>1, <1>3, <1>4, <1>5

LEMMA ItemsOfTail ==
    ASSUME NEW S, NEW s \in Seq(S), s # <<>>
    PROVE  /\ Tail(s) \in Seq(S) /\ Len(Tail(s)) = Len(s) - 1 /\ Len(s) \in Nat \ {0}
           /\ \A i \in 1..Len(Tail(s)) : Tail(s)[i] = s[i + 1] /\ i + 1 \in 1..Len(s)
           /\ Head(s) = s[1] /\ Head(s) \in Items(s) /\ Items(Tail(s)) \subseteq Items(s)
           /\ Items(s) = {Head(s)} \cup Items(Tail(s))
<1>1. /\ Tail(s) \in Seq(S) /\ Len(Tail(s)) = Len(s) - 1 /\ Len(s) \in Nat \ {0}
      /\ \A i \in 1..Len(Tail(s)) : Tail(s)[i] = s[i + 1]
      /\ Head(s) = s[1]
    BY HeadTailProperties, EmptySeq, LenProperties
<1>2. \A i \in 1..Len(Tail(s)) : i + 1 \in 1..Len(s)
    BY <1>1
<1>3. 1 \in 1..Len(s) /\ Head(s) \in Items(s)
    BY <1>1 DEF Items
<1>4. Items(Tail(s)) \subseteq Items(s)
    BY <1>1, <1>2 DEF Items
<1>5. Items(s) \subseteq {Head(s)} \cup Items(Tail(s))
    <2>1. ASSUME NEW i \in 1..Len(s), i # 1
          PROVE  s[i] \in Items(Tail(s))
        <3>1. i - 1 \in 1..Len(Tail(s)) /\ (i - 1) + 1 = i
            BY <1>1, <2>1
        <3> QED
            BY <1>1, <3>1 DEF Items
    <2> QED
        BY <1>1, <2>1 DEF Items
<1> QED
    BY <1>1, <1>2, <1>3, <1>4, <1>5

LEMMA TailOfConcat ==
    ASSUME NEW S, NEW s \in Seq(S), NEW t \in Seq(S), s # <<>>
    PROVE  /\ Head(s \o t) = Head(s) /\ Tail(s \o t) = Tail(s) \o t /\ s \o t # <<>>
           /\ s \o t \in Seq(S)
<1>1. /\ s \o t \in Seq(S) /\ Len(s \o t) = Len(s) + Len(t) /\ Len(s) \in Nat \ {0} /\ Len(t) \in Nat
      /\ \A i \in 1..(Len(s) + Len(t)) : (s \o t)[i] = IF i <= Len(s) THEN s[i] ELSE t[i - Len(s)]
    BY ConcatProperties, LenProperties, EmptySeq
<1>2. s \o t # <<>>
    BY <1>1
<1>3. /\ Tail(s) \in Seq(S) /\ Len(Tail(s)) = Len(s) - 1
      /\ \A i \in 1..Len(Tail(s)) : Tail(s)[i] = s[i + 1]
    BY ItemsOfTail
<1>4. /\ Tail(s \o t) \in Seq(S) /\ Len(Tail(s \o t)) = Len(s \o t) - 1
      /\ \A i \in 1..Len(Tail(s \o t)) : Tail(s \o t)[i] = (s \o t)[i + 1]
    BY <1>1, <1>2, ItemsOfTail
<1>5. /\ Tail(s) \o t \in Seq(S) /\ Len(Tail(s) \o t) = Len(Tail(s)) + Len(t)
      /\ \A i \in 1..(Len(Tail(s)) + Len(t)) :
            (Tail(s) \o t)[i] = IF i <= Len(Tail(s)) THEN Tail(s)[i] ELSE t[i - Len(Tail(s))]
    BY <1>3, ConcatProperties
<1>6. Len(Tail(s \o t)) = Len(Tail(s) \o t)
    BY <1>1, <1>3, <1>4, <1>5
<1>7. ASSUME NEW i \in 1..Len(Tail(s \o t))
      PROVE  Tail(s \o t)[i] = (Tail(s) \o t)[i]
    <2>1. /\ i \in Nat /\ i + 1 \in 1..(Len(s) + Len(t)) /\ i \in 1..(Len(Tail(s)) + Len(t))
          /\ i + 1 <= Len(s) <=> i <= Len(Tail(s))
          /\ (i + 1) - Len(s) = i - Len(Tail(s))
        BY <1>1, <1>3, <1>4
    <2>2. i <= Len(Tail(s)) => i \in 1..Len(Tail(s))
        BY <1>3, <1>1
    <2> QED
        BY <1>1, <1>3, <1>4, <1>5, <2>1, <2>2
<1>8. Tail(s \o t) = Tail(s) \o t
    BY <1>4, <1>5, <1>6, <1>7, SeqEqual
<1>9. Head(s \o t) = Head(s)
    <2>1. Head(s \o t) = (s \o t)[1] /\ Head(s) = s[1]
        BY <1>1, <1>2, ItemsOfTail
    <2>2. 1 \in 1..(Len(s) + Len(t)) /\ 1 <= Len(s)
        BY <1>1
    <2> QED
        BY <1>1, <2>1, <2>2
<1> QED
    BY <1>1, <1>2, <1>8, <1>9

LEMMA InPlaceTail ==
    ASSUME NEW S, NEW q \in Seq(S), q # <<>>, InPlace(q)
    PROVE  InPlace(Tail(q)) /\ \A b \in Items(Tail(q)) : MayFollow(Head(q), b)
<1>1. /\ Len(Tail(q)) = Len(q) - 1 /\ Len(q) \in Nat \ {0} /\ Head(q) = q[1]
      /\ \A i \in 1..Len(Tail(q)) : Tail(q)[i] = q[i + 1] /\ i + 1 \in 1..Len(q)
    BY ItemsOfTail
<1>2. ASSUME NEW i \in 1..Len(Tail(q)), NEW j \in 1..Len(Tail(q)), i < j
      PROVE  MayFollow(Tail(q)[i], Tail(q)[j])
    <2>1. i + 1 < j + 1 /\ i + 1 \in 1..Len(q) /\ j + 1 \in 1..Len(q)
        BY <1>1, <1>2
    <2> QED
        BY <1>1, <2>1 DEF InPlace
<1>3. ASSUME NEW i \in 1..Len(Tail(q))
      PROVE  MayFollow(Head(q), Tail(q)[i])
    <2>1. 1 < i + 1 /\ i + 1 \in 1..Len(q) /\ 1 \in 1..Len(q)
        BY <1>1
    <2> QED
        BY <1>1, <2>1 DEF InPlace
<1> QED
    BY <1>2, <1>3 DEF InPlace, Items

LEMMA InPlaceConcat ==
    ASSUME NEW S, NEW q \in Seq(S), NEW r \in Seq(S), InPlace(q), InPlace(r),
           \A a \in Items(q), b \in Items(r) : MayFollow(a, b)
    PROVE  InPlace(q \o r)
<1>1. /\ Len(q \o r) = Len(q) + Len(r) /\ Len(q) \in Nat /\ Len(r) \in Nat
      /\ \A i \in 1..(Len(q) + Len(r)) : (q \o r)[i] = IF i <= Len(q) THEN q[i] ELSE r[i - Len(q)]
    BY ConcatProperties, LenProperties
<1> SUFFICES ASSUME NEW i \in 1..(Len(q) + Len(r)), NEW j \in 1..(Len(q) + Len(r)), i < j
             PROVE  MayFollow((q \o r)[i], (q \o r)[j])
    BY <1>1 DEF InPlace
<1>2. CASE j <= Len(q)
    <2>1. i \in 1..Len(q) /\ j \in 1..Len(q) /\ i <= Len(q)
        BY <1>1, <1>2
    <2> QED
        BY <1>1, <1>2, <2>1 DEF InPlace
<1>3. CASE i <= Len(q) /\ ~(j <= Len(q))
    <2>1. i \in 1..Len(q) /\ j - Len(q) \in 1..Len(r)
        BY <1>1, <1>3
    <2> QED
        BY <1>1, <1>3, <2>1 DEF Items
<1>4. CASE ~(i <= Len(q))
    <2>1. /\ i - Len(q) \in 1..Len(r) /\ j - Len(q) \in 1..Len(r) /\ i - Len(q) < j - Len(q)
          /\ ~(j <= Len(q))
        BY <1>1, <1>4
    <2> QED
        BY <1>1, <1>4, <2>1 DEF InPlace
<1> QED
    BY <1>1, <1>2, <1>3, <1>4

LEMMA OnceConcat ==
    ASSUME NEW S, NEW s \in Seq(S), NEW t \in Seq(S), Once(s), Once(t), Items(s) \cap Items(t) = {}
    PROVE  Once(s \o t)
<1>1. /\ Len(s \o t) = Len(s) + Len(t) /\ Len(s) \in Nat /\ Len(t) \in Nat
      /\ \A i \in 1..(Len(s) + Len(t)) : (s \o t)[i] = IF i <= Len(s) THEN s[i] ELSE t[i - Len(s)]
    BY ConcatProperties, LenProperties
<1>2. ASSUME NEW i \in 1..(Len(s) + Len(t))
      PROVE  /\ i <= Len(s) => i \in 1..Len(s) /\ (s \o t)[i] = s[i]
             /\ ~(i <= Len(s)) => i - Len(s) \in 1..Len(t) /\ (s \o t)[i] = t[i - Len(s)]
             /\ i \in Nat
    BY <1>1
<1> SUFFICES ASSUME NEW i \in 1..(Len(s) + Len(t)), NEW j \in 1..(Len(s) + Len(t)),
                    (s \o t)[i] = (s \o t)[j]
             PROVE  i = j
    BY <1>1 DEF Once
<1>3. CASE i <= Len(s) /\ j <= Len(s)
    BY <1>2, <1>3 DEF Once
<1>4. CASE ~(i <= Len(s)) /\ ~(j <= Len(s))
    <2>1. i - Len(s) = j - Len(s)
        BY <1>2, <1>4 DEF Once
    <2> QED
        BY <2>1, <1>1, <1>2
<1>5. CASE i <= Len(s) /\ ~(j <= Len(s))
    <2>1. (s \o t)[i] \in Items(s) /\ (s \o t)[j] \in Items(t)
        BY <1>2, <1>5 DEF Items
    <2> QED
        BY <2>1
<1>6. CASE ~(i <= Len(s)) /\ j <= Len(s)
    <2>1. (s \o t)[i] \in Items(t) /\ (s \o t)[j] \in Items(s)
        BY <1>2, <1>6 DEF Items
    <2> QED
        BY <2>1
<1> QED
    BY <1>3, <1>4, <1>5, <1>6

LEMMA PrecededConcat ==
    ASSUME NEW S, NEW D, NEW s \in Seq(S), NEW t \in Seq(S), Preceded(s, D),
           Disconnect \notin Items(t) \/ D \subseteq Items(s)
    PROVE  Preceded(s \o t, D)
<1>1. /\ Len(s \o t) = Len(s) + Len(t) /\ Len(s) \in Nat /\ Len(t) \in Nat
      /\ \A i \in 1..(Len(s) + Len(t)) : (s \o t)[i] = IF i <= Len(s) THEN s[i] ELSE t[i - Len(s)]
    BY ConcatProperties, LenProperties
<1> SUFFICES ASSUME NEW j \in 1..(Len(s) + Len(t)), (s \o t)[j] = Disconnect, NEW d \in D
             PROVE  \E i \in 1..(j - 1) : (s \o t)[i] = d
    BY <1>1 DEF Preceded
<1>2. CASE j <= Len(s)
    <2>1. j \in 1..Len(s) /\ s[j] = Disconnect
        BY <1>1, <1>2
    <2>2. PICK i \in 1..(j - 1) : s[i] = d
        BY <2>1 DEF Preceded
    <2>3. i \in 1..(Len(s) + Len(t)) /\ i <= Len(s)
        BY <1>1, <1>2, <2>2
    <2> QED
        BY <1>1, <2>2, <2>3
<1>3. CASE ~(j <= Len(s))
    <2>1. j - Len(s) \in 1..Len(t) /\ t[j - Len(s)] = Disconnect
        BY <1>1, <1>3
    <2>2. PICK i \in 1..Len(s) : s[i] = d
        BY <2>1 DEF Items
    <2>3. i \in 1..(Len(s) + Len(t)) /\ i <= Len(s) /\ i \in 1..(j - 1)
        BY <1>1, <1>3, <2>2
    <2> QED
        BY <1>1, <2>2, <2>3
<1> QED
    BY <1>2, <1>3

LEMMA ItemsOfOne ==
    /\ Items(<<>>) = {} /\ Once(<<>>) /\ InPlace(<<>>)
    /\ \A x : Items(<<x>>) = {x} /\ Once(<<x>>) /\ InPlace(<<x>>)
BY DEF Items, Once, InPlace

LEMMA AddedAtEnd ==
    ASSUME NEW S, NEW s \in Seq(S), NEW t \in Seq(S), NEW u \in Seq(S)
    PROVE  s \o (t \o u) = (s \o t) \o u
BY ConcatAssociative

LEMMA OneAdded ==
    ASSUME NEW S, NEW s \in Seq(S), NEW x \in S
    PROVE  Append(s, x) = s \o <<x>> /\ <<x>> \in Seq(S) /\ Append(s, x) \in Seq(S)
BY AppendIsConcat, AppendProperties

LEMMA OneAddedAfter ==
    ASSUME NEW S, NEW s \in Seq(S), NEW t \in Seq(S), NEW x \in S
    PROVE  s \o Append(t, x) = (s \o t) \o <<x>>
<1> DEFINE one == <<x>>
<1>1. one \in Seq(S) /\ Append(t, x) = t \o one
    BY OneAdded
<1> HIDE DEF one
<1>2. s \o (t \o one) = (s \o t) \o one
    BY <1>1, AddedAtEnd
<1> QED
    BY <1>1, <1>2 DEF one

\* The wills of a set of clients, one after the other.
LEMMA WillsOfSet ==
    ASSUME NEW T \in SUBSET Connections
    PROVE  /\ SetToSeq(T) \in Seq(T) /\ Items(SetToSeq(T)) = T /\ Once(SetToSeq(T))
<1>1. IsFiniteSet(T)
    BY ConnectionsAssumption, FS_Subset
<1>2. Cardinality(T) \in Nat /\ ExistsBijection(1..Cardinality(T), T)
    BY <1>1, FS_CardinalityType
<1>3. PICK g \in Bijection(1..Cardinality(T), T) : TRUE
    BY <1>2 DEF ExistsBijection
<1>4. g \in [1..Cardinality(T) -> T] /\ IsInjective(g)
    BY <1>3 DEF Bijection, Injection, IsInjective
<1> DEFINE f == SetToSeq(T)
<1>5. f \in [1..Cardinality(T) -> T] /\ IsInjective(f)
    BY <1>4 DEF SetToSeq
<1> HIDE DEF f
<1>6. f \in Seq(T) /\ Len(f) = Cardinality(T)
    BY <1>2, <1>5
<1>7. f \in Injection(1..Cardinality(T), T)
    BY <1>5 DEF Injection, IsInjective
<1>8. f \in Surjection(1..Cardinality(T), T)
    <2>1. IsFiniteSet(1..Cardinality(T)) /\ Cardinality(1..Cardinality(T)) = Cardinality(T)
        BY <1>2, FS_Interval
    <2> QED
        BY <1>1, <1>7, <2>1, FS_Injection
<1>9. \A x \in T : \E i \in 1..Cardinality(T) : f[i] = x
    BY <1>8 DEF Surjection
<1>10. Items(f) = T
    BY <1>5, <1>6, <1>9 DEF Items
<1>11. Once(f)
    BY <1>5, <1>6 DEF Once, IsInjective
<1> QED
    BY <1>6, <1>10, <1>11 DEF f

-----------------------------------------------------------------------------
(* What steps have in common                                                 *)

LEMMA ShapeIsType == StopShape <=> StopTypeOK
<1>1. Range(Stops) = {"runs", "wills", "waitsForWills", "disconnects", "waitsForQuit",
                      "waitsForFinish", "waitsForSaver", "saves", "ended"}
    <2>1. DOMAIN Stops = 1..9
        BY DEF Stops
    <2>2. Range(Stops) = {Stops[i] : i \in 1..9}
        BY <2>1 DEF Range
    <2> QED
        BY <2>2 DEF Stops
<1> QED
    BY <1>1 DEF StopShape, StopTypeOK, Turns

LEMMA Sequences ==
    ASSUME StopShape
    PROVE  /\ \A w \in Workers : /\ turn[w] \in Turns /\ turn[w].batch \in Seq(StopJobs)
                                 /\ work[w] \in Seq(StopJobs) /\ Ahead(w) \in Seq(StopJobs)
           /\ \A c \in Connections : /\ onWire[c] \in Seq(StopPackets) /\ unsent[c] \in Seq(StopPackets)
                                     /\ Story(c) \in Seq(StopPackets) /\ Worker[c] \in Workers
                                     /\ Items(onWire[c]) \subseteq Items(Story(c))
<1>1. ASSUME NEW w \in Workers
      PROVE  /\ turn[w] \in Turns /\ turn[w].batch \in Seq(StopJobs)
             /\ work[w] \in Seq(StopJobs) /\ Ahead(w) \in Seq(StopJobs)
    <2>1. turn[w] \in Turns /\ work[w] \in Seq(StopJobs)
        BY DEF StopShape
    <2>2. turn[w].batch \in Seq(StopJobs)
        BY <2>1 DEF Turns
    <2> QED
        BY <2>1, <2>2, ConcatProperties DEF Ahead
<1>2. ASSUME NEW c \in Connections
      PROVE  /\ onWire[c] \in Seq(StopPackets) /\ unsent[c] \in Seq(StopPackets)
             /\ Story(c) \in Seq(StopPackets) /\ Worker[c] \in Workers
             /\ Items(onWire[c]) \subseteq Items(Story(c))
    <2>1. onWire[c] \in Seq(StopPackets) /\ unsent[c] \in Seq(StopPackets)
        BY DEF StopShape
    <2>2. Worker[c] \in Workers
        BY WorkerAssumption
    <2> QED
        BY <2>1, <2>2, ItemsOfConcat DEF Story
<1> QED
    BY <1>1, <1>2

\* The main thread goes on.
GoesOn ==
    /\ Early' => Early
    /\ main' \in {"runs", "wills"} => main \in {"runs", "wills"}

\* A job that is not done yet fits after a step that does not forestall it.
LEMMA JobStillFits ==
    ASSUME StopIInv, GoesOn, gone \subseteq gone',
           NEW w \in Workers, NEW k \in Items(Ahead(w)), Before(w)' => Before(w),
           k.kind = "wills" => runs'[w].allWillsQueued = runs[w].allWillsQueued,
           \A c \in Connections : k.kind = "tell" /\ k.clients = {c} /\ Disconnect \in Items(Story(c)')
                                      => Disconnect \in Items(Story(c))
    PROVE  JobFits(w, k)'
<1>1. JobFits(w, k)
    BY DEF StopIInv, JobsFit
<1>2. \A c \in Connections : Reachable(c)' => Reachable(c)
    BY DEF Reachable, Stayed
<1>3. Addressed(w, k)'
    <2>1. (k.kind = "tell" => \E c \in Connections : /\ k.clients = {c} /\ Worker[c] = w
                                                     /\ Disconnect \notin Items(Story(c)))'
        BY <1>1 DEF JobFits, Addressed
    <2>2. (k.kind = "collect" => \A c \in Connections : Reachable(c) /\ Worker[c] = w => c \in k.clients)'
        BY <1>1, <1>2 DEF JobFits, Addressed
    <2> QED
        BY <1>1, <2>1, <2>2 DEF JobFits, Addressed
<1>4. (/\ k.kind = "wills" => main \notin {"runs", "wills"} /\ ~runs[w].allWillsQueued
       /\ k.kind = "disconnects" => ~Early
       /\ k.kind = "ended" /\ Early => k.clients \subseteq gone
       /\ Before(w) => k.kind \in {"wills", "disconnects", "ended"})'
    BY <1>1 DEF JobFits, GoesOn
<1> QED
    BY <1>3, <1>4 DEF JobFits

\* A worker takes the first job or none, and gets others.
LEMMA WorkOfOne ==
    ASSUME StopIInv, GoesOn, gone \subseteq gone',
           NEW w \in Workers, NEW q \in Seq(StopJobs), NEW new \in Seq(StopJobs),
           q = Ahead(w) \/ (Ahead(w) # <<>> /\ q = Tail(Ahead(w))),
           Ahead(w)' = q \o new,
           InPlace(new), \A a \in Items(q), b \in Items(new) : MayFollow(a, b),
           \A k \in Items(new) : JobFits(w, k)' /\ (k.kind = "disconnects" => Before(w)),
           \/ runs'[w].allWillsQueued = runs[w].allWillsQueued
           \/ \A k \in Items(q) : k.kind # "wills",
           \A c \in Connections : Worker[c] = w =>
               \/ Disconnect \in Items(Story(c)') => Disconnect \in Items(Story(c))
               \/ \A k \in Items(q) : ~(k.kind = "tell" /\ k.clients = {c})
    PROVE  /\ Before(w)' => Before(w)
           /\ Items(Ahead(w)') = Items(q) \cup Items(new) /\ Items(q) \subseteq Items(Ahead(w))
           /\ InPlace(Ahead(w)') /\ \A k \in Items(Ahead(w)') : JobFits(w, k)'
<1>1. /\ Ahead(w) \in Seq(StopJobs) /\ Items(q) \subseteq Items(Ahead(w)) /\ InPlace(q)
    <2>1. Ahead(w) \in Seq(StopJobs) /\ InPlace(Ahead(w))
        BY Sequences DEF StopIInv, JobsFit
    <2>2. Ahead(w) # <<>> =>
              Items(Tail(Ahead(w))) \subseteq Items(Ahead(w)) /\ InPlace(Tail(Ahead(w)))
        BY <2>1, ItemsOfTail, InPlaceTail
    <2> QED
        BY <2>1, <2>2
<1>2. Items(Ahead(w)') = Items(q) \cup Items(new) /\ InPlace(Ahead(w)')
    BY <1>1, ItemsOfConcat, InPlaceConcat
<1>3. Before(w)' => Before(w)
    <2>1. ASSUME NEW k \in Items(Ahead(w)'), k.kind = "disconnects"
          PROVE  Before(w)
        <3>1. k \in Items(new) \/ k \in Items(Ahead(w))
            BY <1>1, <1>2
        <3> QED
            BY <2>1, <3>1 DEF Before
    <2> QED
        BY <2>1 DEF Before, GoesOn
<1>4. ASSUME NEW k \in Items(Ahead(w)'), k \notin Items(new)
      PROVE  JobFits(w, k)'
    <2>1. k \in Items(Ahead(w)) /\ k \in Items(q)
        BY <1>1, <1>2, <1>4
    <2>2. k.kind = "wills" => runs'[w].allWillsQueued = runs[w].allWillsQueued
        BY <2>1
    <2>3. ASSUME NEW c \in Connections, k.kind = "tell", k.clients = {c}, Disconnect \in Items(Story(c)')
          PROVE  Disconnect \in Items(Story(c))
        <3>1. PICK d \in Connections : k.clients = {d} /\ Worker[d] = w
            BY <2>1, <2>3 DEF StopIInv, JobsFit, JobFits, Addressed
        <3>2. d = c
            BY <3>1, <2>3
        <3> QED
            BY <2>1, <2>3, <3>1, <3>2
    <2> QED
        BY <1>3, <2>1, <2>2, <2>3, JobStillFits
<1> QED
    BY <1>1, <1>2, <1>3, <1>4

\* What a worker has before it stays the same.
LEMMA SameWorkOf ==
    ASSUME StopIInv, GoesOn, gone \subseteq gone', NEW v \in Workers, Ahead(v)' = Ahead(v),
           runs'[v].allWillsQueued = runs[v].allWillsQueued,
           \A c \in Connections : Worker[c] = v =>
               (Disconnect \in Items(Story(c)') => Disconnect \in Items(Story(c)))
    PROVE  /\ Before(v)' => Before(v)
           /\ InPlace(Ahead(v)') /\ \A k \in Items(Ahead(v)') : JobFits(v, k)'
<1>1. Before(v)' => Before(v)
    BY DEF Before, GoesOn
<1>2. ASSUME NEW k \in Items(Ahead(v)')
      PROVE  JobFits(v, k)'
    <2>1. ASSUME NEW c \in Connections, k.kind = "tell", k.clients = {c}, Disconnect \in Items(Story(c)')
          PROVE  Disconnect \in Items(Story(c))
        <3>1. PICK d \in Connections : k.clients = {d} /\ Worker[d] = v
            BY <2>1 DEF StopIInv, JobsFit, JobFits, Addressed
        <3>2. d = c
            BY <3>1, <2>1
        <3> QED
            BY <2>1, <3>1, <3>2
    <2> QED
        BY <1>1, <2>1, JobStillFits
<1> QED
    BY <1>1, <1>2 DEF StopIInv, JobsFit

\* A step of one worker.
LEMMA WorkStep ==
    ASSUME StopIInv, UNCHANGED main, gone \subseteq gone',
           NEW w \in Workers, NEW q \in Seq(StopJobs), NEW new \in Seq(StopJobs),
           q = Ahead(w) \/ (Ahead(w) # <<>> /\ q = Tail(Ahead(w))),
           Ahead(w)' = q \o new, \A v \in Workers \ {w} : Ahead(v)' = Ahead(v),
           InPlace(new), \A a \in Items(q), b \in Items(new) : MayFollow(a, b),
           \A k \in Items(new) : JobFits(w, k)' /\ k.kind # "disconnects",
           \/ runs'[w].allWillsQueued = runs[w].allWillsQueued
           \/ \A k \in Items(q) : k.kind # "wills",
           \A v \in Workers \ {w} : runs'[v].allWillsQueued = runs[v].allWillsQueued,
           \A c \in Connections :
               \/ Disconnect \in Items(Story(c)') => Disconnect \in Items(Story(c))
               \/ Worker[c] = w /\ \A k \in Items(q) : ~(k.kind = "tell" /\ k.clients = {c})
    PROVE  /\ JobsFit' /\ \A v \in Workers : Before(v)' => Before(v)
           /\ Items(Ahead(w)') = Items(q) \cup Items(new) /\ Items(q) \subseteq Items(Ahead(w))
<1>1. GoesOn
    BY DEF GoesOn, Early
<1>2. /\ Before(w)' => Before(w)
      /\ Items(Ahead(w)') = Items(q) \cup Items(new) /\ Items(q) \subseteq Items(Ahead(w))
      /\ InPlace(Ahead(w)') /\ \A k \in Items(Ahead(w)') : JobFits(w, k)'
    <2>1. \A k \in Items(new) : JobFits(w, k)' /\ (k.kind = "disconnects" => Before(w))
        OBVIOUS
    <2>2. \A c \in Connections : Worker[c] = w =>
              \/ Disconnect \in Items(Story(c)') => Disconnect \in Items(Story(c))
              \/ \A k \in Items(q) : ~(k.kind = "tell" /\ k.clients = {c})
        OBVIOUS
    <2>3. q = Ahead(w) \/ (Ahead(w) # <<>> /\ q = Tail(Ahead(w)))
        OBVIOUS
    <2>4. Ahead(w)' = q \o new
        OBVIOUS
    <2>5. \A a \in Items(q), b \in Items(new) : MayFollow(a, b)
        OBVIOUS
    <2>6. \/ runs'[w].allWillsQueued = runs[w].allWillsQueued
          \/ \A k \in Items(q) : k.kind # "wills"
        OBVIOUS
    <2> QED
        BY ONLY StopIInv, gone \subseteq gone', InPlace(new), new \in Seq(StopJobs), q \in Seq(StopJobs),
                w \in Workers, <1>1, <2>1, <2>2, <2>3, <2>4, <2>5, <2>6, WorkOfOne, ZenonT(60)
<1>3. ASSUME NEW v \in Workers \ {w}
      PROVE  /\ Before(v)' => Before(v)
             /\ InPlace(Ahead(v)') /\ \A k \in Items(Ahead(v)') : JobFits(v, k)'
    BY <1>1, SameWorkOf
<1> QED
    BY <1>2, <1>3 DEF JobsFit

\* A job is done that queues none.
LEMMA JobDone ==
    ASSUME StopIInv, UNCHANGED main, gone \subseteq gone', NEW w \in Workers,
           Ahead(w) # <<>>, Ahead(w)' = Tail(Ahead(w)), \A v \in Workers \ {w} : Ahead(v)' = Ahead(v),
           \/ runs'[w].allWillsQueued = runs[w].allWillsQueued
           \/ \A k \in Items(Tail(Ahead(w))) : k.kind # "wills",
           \A v \in Workers \ {w} : runs'[v].allWillsQueued = runs[v].allWillsQueued,
           \A c \in Connections :
               \/ Disconnect \in Items(Story(c)') => Disconnect \in Items(Story(c))
               \/ Worker[c] = w /\ \A k \in Items(Tail(Ahead(w))) : ~(k.kind = "tell" /\ k.clients = {c})
    PROVE  JobsFit' /\ \A v \in Workers : Before(v)' => Before(v)
<1> DEFINE q == Tail(Ahead(w))
<1>1. q \in Seq(StopJobs) /\ Items(q) \subseteq Items(Ahead(w)) /\ InPlace(q)
    <2>1. Ahead(w) \in Seq(StopJobs) /\ InPlace(Ahead(w))
        BY Sequences DEF StopIInv, JobsFit
    <2> QED
        BY <2>1, ItemsOfTail, InPlaceTail
<1>2. Ahead(w)' = q
    OBVIOUS
<1>3. GoesOn
    BY DEF GoesOn, Early
<1>4. \A v \in Workers : Before(v)' => Before(v)
    BY <1>1, <1>2 DEF Before, Early
<1>5. ASSUME NEW k \in Items(q)
      PROVE  JobFits(w, k)'
    <2>1. k \in Items(Ahead(w)) /\ JobFits(w, k)
        BY <1>1 DEF StopIInv, JobsFit
    <2>2. k.kind = "wills" => runs'[w].allWillsQueued = runs[w].allWillsQueued
        OBVIOUS
    <2>3. ASSUME NEW c \in Connections, k.kind = "tell", k.clients = {c}, Disconnect \in Items(Story(c)')
          PROVE  Disconnect \in Items(Story(c))
        BY <2>3
    <2> QED
        BY <1>3, <1>4, <2>1, <2>2, <2>3, JobStillFits
<1>6. ASSUME NEW v \in Workers \ {w}
      PROVE  InPlace(Ahead(v)') /\ \A k \in Items(Ahead(v)') : JobFits(v, k)'
    <2>1. \A c \in Connections : Worker[c] = v =>
              (Disconnect \in Items(Story(c)') => Disconnect \in Items(Story(c)))
        OBVIOUS
    <2> QED
        BY <1>3, <2>1, SameWorkOf
<1> QED
    BY <1>1, <1>2, <1>4, <1>5, <1>6 DEF JobsFit

\* Without a job that is taken or added.
LEMMA SameWork ==
    ASSUME StopIInv, GoesOn, gone \subseteq gone',
           \A v \in Workers : Ahead(v)' = Ahead(v),
           \A v \in Workers : runs'[v].allWillsQueued = runs[v].allWillsQueued,
           \A c \in Connections : Disconnect \in Items(Story(c)') => Disconnect \in Items(Story(c))
    PROVE  JobsFit' /\ \A v \in Workers : Before(v)' => Before(v)
<1>1. ASSUME NEW v \in Workers
      PROVE  /\ Before(v)' => Before(v)
             /\ InPlace(Ahead(v)') /\ \A k \in Items(Ahead(v)') : JobFits(v, k)'
    BY SameWorkOf
<1> QED
    BY <1>1 DEF JobsFit

\* Without a new will.
LEMMA WillsStay ==
    ASSUME StopIInv, gone \subseteq gone', UNCHANGED main,
           \A c \in Connections : Story(c)' = Story(c),
           hasWill' = hasWill,
           \A v \in Workers : runs'[v].allWillsQueued = runs[v].allWillsQueued
    PROVE  WillsRight'
<1>1. Stayed' \subseteq Stayed /\ Stayed \subseteq Connections
    BY DEF Stayed
<1>2. \A c \in Connections : Worker[c] \in Workers
    BY WorkerAssumption
<1>3. \A c \in Connections : Reachable(c)' => Reachable(c)
    BY <1>1 DEF Reachable
<1>4. \A c \in Connections : Reachable(c)' => Preceded(Story(c)', Stayed')
    BY <1>1, <1>3 DEF StopIInv, WillsRight, Preceded
<1>5. (/\ main \in {"runs", "wills"} => \A w \in Workers : ~runs[w].allWillsQueued
       /\ main \in {"runs", "wills", "waitsForWills"} \/ \A w \in Workers : runs[w].allWillsQueued)'
    BY DEF StopIInv, WillsRight
<1>6. (\A d \in Stayed : runs[Worker[d]].allWillsQueued \/ d \in hasWill)'
    BY <1>1, <1>2 DEF StopIInv, WillsRight
<1>7. (\A c \in Connections : Once(Story(c)) /\ hasWill \cap Items(Story(c)) = {})'
    BY DEF StopIInv, WillsRight
<1>8. (\A c, d \in Stayed : runs[Worker[d]].allWillsQueued => d \in Items(Story(c)))'
    BY <1>1, <1>2 DEF StopIInv, WillsRight
<1> QED
    BY <1>4, <1>5, <1>6, <1>7, <1>8 DEF WillsRight

LEMMA NothingYetStays ==
    ASSUME StopIInv, \A v \in Workers : Before(v)' => Before(v), gone \subseteq gone',
           \A v \in Workers : Before(v)' =>
               runs'[v].running = runs[v].running,
           \A v \in Workers : Before(v)' => (Gathers(v)' => Gathers(v)),
           \A c \in Connections : Before(Worker[c])' => stopStage'[c] = stopStage[c],
           \A c \in Connections : Before(Worker[c])' =>
               (c \in byFd => c \in byFd' \cup gone'),
           \A c \in Connections : Before(Worker[c])' =>
               (Disconnect \in Items(Story(c)') => Disconnect \in Items(Story(c)))
    PROVE  NothingYet'
<1>1. NothingYet
    BY DEF StopIInv
<1>2. ASSUME NEW v \in Workers, Before(v)'
      PROVE  runs'[v].running /\ ~Gathers(v)'
    BY <1>1, <1>2 DEF NothingYet
<1>3. ASSUME NEW c \in Connections, Before(Worker[c])'
      PROVE  /\ stopStage'[c] = "NotInitiated" /\ c \in byFd' \cup gone'
             /\ Disconnect \notin Items(Story(c)')
    <2>1. Before(Worker[c])
        BY <1>3, WorkerAssumption
    <2> QED
        BY <1>1, <1>3, <2>1 DEF NothingYet
<1> QED
    BY <1>2, <1>3 DEF NothingYet

\* What a client is to be sent before its thread ends stays so.
LEMMA ClientsStay ==
    ASSUME ClientsFit, gone \subseteq gone',
           \A c \in Connections : Told(c) => Told(c)',
           \A c \in Connections : OnWire(c) => OnWire(c)',
           \A c \in Connections : Reachable(c)' => stopStage'[c] = stopStage[c] \/ Told(c)',
           \A c \in Connections : Reachable(c)' => (c \in byFd => c \in byFd' \/ OnWire(c)'),
           \A c \in Connections : Reachable(c)' =>
               (Before(Worker[c]) => \/ Before(Worker[c])'
                                     \/ Job("tell", {c}) \in Items(Ahead(Worker[c])')),
           \A c \in Connections : Reachable(c)' =>
               (Job("tell", {c}) \in Items(Ahead(Worker[c])) =>
                    Told(c)' \/ Job("tell", {c}) \in Items(Ahead(Worker[c])')),
           \A c \in Connections : Reachable(c)' =>
               (Gathers(Worker[c])' =>
                    \/ Gathers(Worker[c]) /\ collected'[Worker[c]] = collected[Worker[c]]
                    \/ c \in collected'[Worker[c]] /\ Told(c)'),
           \A c \in Connections : Reachable(c)' =>
               (Quits(Worker[c])' =>
                    \/ Quits(Worker[c])
                    \/ Told(c)' /\ (OnWire(c)' \/ c \in turn'[Worker[c]].ready)),
           \A c \in Connections : Reachable(c)' =>
               (Told(c) /\ c \in turn[Worker[c]].ready => OnWire(c)' \/ c \in turn'[Worker[c]].ready)
    PROVE  ClientsFit'
<1> SUFFICES ASSUME NEW c \in Connections, Reachable(c)'
             PROVE  ClientFits(c)'
    BY DEF ClientsFit
<1>1. ClientFits(c)
    BY DEF ClientsFit, Reachable, Stayed
<1>2. Told(c) => Told(c)'
    OBVIOUS
<1>3. OnWire(c) => OnWire(c)'
    OBVIOUS
<1>4. stopStage'[c] # "NotInitiated" => Told(c)'
    BY <1>1, <1>2 DEF ClientFits
<1>5. c \in byFd' \/ OnWire(c)'
    BY <1>1, <1>3 DEF ClientFits
<1>6. Told(c)' \/ Before(Worker[c])' \/ Job("tell", {c}) \in Items(Ahead(Worker[c])')
    BY <1>1, <1>2 DEF ClientFits
<1>7. Gathers(Worker[c])' => c \in collected'[Worker[c]] /\ Told(c)'
    BY <1>1, <1>2 DEF ClientFits
<1>8. Quits(Worker[c])' => Told(c)' /\ (OnWire(c)' \/ c \in turn'[Worker[c]].ready)
    BY <1>1, <1>2, <1>3 DEF ClientFits
<1> QED
    BY <1>4, <1>5, <1>6, <1>7, <1>8 DEF ClientFits, Job

-----------------------------------------------------------------------------
(* The main thread                                                           *)

\* A step that queues nothing.
LEMMA MainMoves ==
    ASSUME StopIInv, UNCHANGED <<work, woken, collected, turn, runs, clientVars>>,
           main' \in {"runs", "wills", "waitsForWills", "disconnects", "waitsForQuit",
                      "waitsForFinish", "waitsForSaver", "saves", "ended"},
           saver' \in {"idle", "saves", "stopped"}, saverRuns' \in BOOLEAN, SaverFits',
           Early' <=> Early, main' \in {"runs", "wills"} <=> main \in {"runs", "wills"},
           main' \in {"runs", "wills", "waitsForWills"} \/ \A w \in Workers : runs[w].allWillsQueued
    PROVE  StopIInv'
<1>1. UNCHANGED <<work, woken, collected, turn, runs, byFd, hasWill, unsent, onWire, stopStage, gone>>
    BY DEF clientVars
<1>2. StopShape' /\ TurnsEnd' /\ GoesOn
    BY <1>1 DEF StopIInv, StopShape, TurnsEnd, GoesOn
<1>3. /\ \A v \in Workers : Ahead(v)' = Ahead(v)
      /\ \A c \in Connections : Story(c)' = Story(c)
    BY <1>1 DEF Ahead, Story
<1>4. JobsFit' /\ \A v \in Workers : Before(v)' = Before(v)
    <2>1. JobsFit'
        BY <1>1, <1>2, <1>3, SameWork
    <2> QED
        BY <2>1, <1>3 DEF Before
<1>5. NothingYet'
    <2>1. \A v \in Workers : Gathers(v)' = Gathers(v)
        BY <1>1 DEF Gathers
    <2> QED
        BY <1>1, <1>3, <1>4, <2>1, NothingYetStays
<1>6. WillsRight'
    BY <1>1, <1>3 DEF StopIInv, WillsRight, Stayed, Reachable
<1>7. ClientsFit'
    BY <1>1, <1>3, <1>4, WorkerAssumption
        DEF StopIInv, ClientsFit, ClientFits, Stayed, Reachable, Told, OnWire, Gathers, Quits
<1> QED
    BY <1>2, <1>4, <1>5, <1>6, <1>7 DEF StopIInv

\* One job for every worker.
LEMMA MainQueues ==
    ASSUME StopIInv, NEW kind \in {"wills", "disconnects"}, QueueForAll(kind),
           UNCHANGED <<saverVars, collected, turn, runs, clientVars>>,
           \/ kind = "wills" /\ main = "wills" /\ main' = "waitsForWills"
           \/ kind = "disconnects" /\ main = "disconnects" /\ main' = "waitsForQuit"
    PROVE  StopIInv'
<1> DEFINE job == Job(kind, {})
<1>1. UNCHANGED <<saver, saverRuns, collected, turn, runs, byFd, hasWill, unsent, onWire, stopStage, gone>>
    BY DEF clientVars, saverVars
<1>2. Early /\ GoesOn /\ (kind = "wills" => Early') /\ (kind = "disconnects" => ~Early')
    BY DEF Early, GoesOn
<1>3. /\ \A w \in Workers : Before(w) /\ runs[w].running /\ ~runs[w].finished
      /\ \A w \in Workers : work'[w] = Append(work[w], job)
    <2>1. \A w \in Workers : Before(w) /\ runs[w].running /\ ~runs[w].finished
        BY <1>2 DEF Before, StopIInv, NothingYet, TurnsEnd
    <2> QED
        BY <2>1 DEF QueueForAll
<1>4. job \in StopJobs /\ job.kind = kind
    BY DEF Job, StopJobs
<1> HIDE DEF job
<1>5. \A w \in Workers : /\ Ahead(w) \in Seq(StopJobs) /\ turn[w].batch \in Seq(StopJobs)
                          /\ work[w] \in Seq(StopJobs) /\ Ahead(w)' = Ahead(w) \o <<job>>
    <2> SUFFICES ASSUME NEW w \in Workers
                 PROVE  /\ Ahead(w) \in Seq(StopJobs) /\ turn[w].batch \in Seq(StopJobs)
                        /\ work[w] \in Seq(StopJobs) /\ Ahead(w)' = Ahead(w) \o <<job>>
        OBVIOUS
    <2>1. turn[w].batch \in Seq(StopJobs) /\ work[w] \in Seq(StopJobs) /\ Ahead(w) \in Seq(StopJobs)
        BY Sequences DEF StopIInv
    <2>2. Ahead(w)' = turn[w].batch \o Append(work[w], job)
        BY <1>1, <1>3 DEF Ahead
    <2>3. turn[w].batch \o Append(work[w], job) = (turn[w].batch \o work[w]) \o <<job>>
        <3> DEFINE batch == turn[w].batch
                   queue == work[w]
        <3>1. batch \in Seq(StopJobs) /\ queue \in Seq(StopJobs)
            BY <2>1
        <3> HIDE DEF batch, queue
        <3>2. batch \o Append(queue, job) = (batch \o queue) \o <<job>>
            BY <1>4, <3>1, OneAddedAfter
        <3> QED
            BY <3>2 DEF batch, queue
    <2> QED
        BY <2>1, <2>2, <2>3 DEF Ahead
<1>6. StopShape' /\ TurnsEnd' /\ SaverFits'
    <2>1. work' \in [Workers -> Seq(StopJobs)]
        <3>1. \A w \in Workers : work'[w] \in Seq(StopJobs)
            BY <1>3, <1>4, <1>5, OneAdded
        <3> QED
            BY <3>1 DEF QueueForAll
    <2>2. woken' \in [Workers -> SUBSET {"tasks", "collect"}]
        BY DEF QueueForAll, StopIInv, StopShape
    <2>3. main' \in {"waitsForWills", "waitsForQuit"}
        OBVIOUS
    <2>4. StopShape'
        BY <1>1, <2>1, <2>2, <2>3 DEF StopIInv, StopShape
    <2>5. TurnsEnd'
        BY <1>1 DEF StopIInv, TurnsEnd
    <2> QED
        BY <2>3, <2>4, <2>5 DEF SaverFits
<1>7. \A c \in Connections : Story(c)' = Story(c)
    BY <1>1 DEF Story
<1>8. ASSUME NEW w \in Workers
      PROVE  /\ Before(w)'
             /\ Items(Ahead(w)') = Items(Ahead(w)) \cup {job}
             /\ InPlace(Ahead(w)') /\ \A k \in Items(Ahead(w)') : JobFits(w, k)'
    <2>1. InPlace(<<job>>) /\ Items(<<job>>) = {job} /\ <<job>> \in Seq(StopJobs)
        BY <1>4, ItemsOfOne
    <2>2. \A a \in Items(Ahead(w)) : MayFollow(a, job)
        <3>1. ASSUME NEW a \in Items(Ahead(w))
              PROVE  a.kind # kind
            <4>1. JobFits(w, a)
                BY DEF StopIInv, JobsFit
            <4> QED
                BY <1>2, <4>1 DEF JobFits
        <3> QED
            BY <1>4, <3>1 DEF MayFollow
    <2>3. JobFits(w, job)'
        <3>1. kind = "wills" => ~runs[w].allWillsQueued
            BY DEF StopIInv, WillsRight
        <3> QED
            BY <1>1, <1>2, <1>4, <3>1 DEF JobFits, Addressed
    <2>4. /\ Items(Ahead(w)') = Items(Ahead(w)) \cup Items(<<job>>)
          /\ InPlace(Ahead(w)') /\ \A k \in Items(Ahead(w)') : JobFits(w, k)'
        <3>1. gone \subseteq gone' /\ runs'[w].allWillsQueued = runs[w].allWillsQueued
            BY <1>1
        <3>2. Ahead(w) \in Seq(StopJobs) /\ Ahead(w)' = Ahead(w) \o <<job>>
            BY <1>5
        <3>3. \A a \in Items(Ahead(w)), b \in Items(<<job>>) : MayFollow(a, b)
            BY <2>1, <2>2
        <3>4. \A k \in Items(<<job>>) : JobFits(w, k)' /\ (k.kind = "disconnects" => Before(w))
            BY <1>3, <2>1, <2>3
        <3>5. \A c \in Connections : Worker[c] = w =>
                  \/ Disconnect \in Items(Story(c)') => Disconnect \in Items(Story(c))
                  \/ \A k \in Items(Ahead(w)) : ~(k.kind = "tell" /\ k.clients = {c})
            BY <1>7
        <3>6. Ahead(w) = Ahead(w) \/ (Ahead(w) # <<>> /\ Ahead(w) = Tail(Ahead(w)))
            OBVIOUS
        <3>7. \/ runs'[w].allWillsQueued = runs[w].allWillsQueued
              \/ \A k \in Items(Ahead(w)) : k.kind # "wills"
            BY <3>1
        <3>8. GoesOn /\ InPlace(<<job>>) /\ <<job>> \in Seq(StopJobs)
            BY <1>2, <2>1
        <3> HIDE DEF job
        <3> QED
            BY <3>1, <3>2, <3>3, <3>4, <3>5, <3>6, <3>7, <3>8, WorkOfOne, ZenonT(60)
    <2>5. Before(w)'
        <3>1. kind = "wills" => Before(w)'
            BY <1>2 DEF Before
        <3>2. kind = "disconnects" => Before(w)'
            BY <1>4, <2>1, <2>4 DEF Before
        <3> QED
            BY <3>1, <3>2
    <2> QED
        BY <2>1, <2>4, <2>5
<1>9. JobsFit'
    BY <1>8 DEF JobsFit
<1>10. NothingYet'
    <2>1. \A w \in Workers : Gathers(w)' = Gathers(w)
        BY <1>1 DEF Gathers, QueueForAll, StopIInv, StopShape
    <2> QED
        BY <1>1, <1>3, <1>7, <2>1, NothingYetStays
<1>11. WillsRight'
    <2>1. main' = "waitsForWills" \/ \A w \in Workers : runs[w].allWillsQueued
        BY DEF StopIInv, WillsRight
    <2> QED
        BY <1>1, <1>7, <2>1 DEF StopIInv, WillsRight, Stayed, Reachable
<1>12. ClientsFit'
    <2> SUFFICES ASSUME NEW c \in Connections, Reachable(c)'
                 PROVE  ClientFits(c)'
        BY DEF ClientsFit
    <2>1. ClientFits(c)
        BY <1>1 DEF StopIInv, ClientsFit, Reachable, Stayed
    <2>2. Worker[c] \in Workers
        BY WorkerAssumption
    <2>3. Told(c)' = Told(c) /\ OnWire(c)' = OnWire(c)
        BY <1>1, <1>7 DEF Told, OnWire
    <2>4. Gathers(Worker[c])' = Gathers(Worker[c])
        BY <1>1, <2>2 DEF Gathers, QueueForAll, StopIInv, StopShape
    <2>5. Before(Worker[c])'
        BY <1>1, <1>3, <1>8, <2>2
    <2>6. Quits(Worker[c])' => Quits(Worker[c])
        BY <1>1, <1>4, <1>8, <2>2 DEF Quits
    <2> QED
        BY <1>1, <2>1, <2>3, <2>4, <2>5, <2>6 DEF ClientFits
<1> QED
    BY <1>6, <1>9, <1>10, <1>11, <1>12 DEF StopIInv

LEMMA MainSteps ==
    ASSUME StopIInv, "wills" \notin WaitsExpire,
           StopListening \/ MainStep \/ SaverStarts \/ SaverStep
    PROVE  StopIInv'
<1>1. StopShape /\ SaverFits /\ WillsRight
    BY DEF StopIInv
<1>2. CASE StopListening
    <2>1. main = "runs" /\ main' = "wills" /\ saver' = saver /\ saverRuns' = FALSE
        BY <1>2 DEF StopListening
    <2> QED
        BY <1>1, <1>2, <2>1, MainMoves DEF StopListening, StopShape, SaverFits, Early
<1>3. CASE QueueSendWills
    BY <1>3, MainQueues DEF QueueSendWills
<1>4. CASE QueueSendDisconnects
    BY <1>4, MainQueues DEF QueueSendDisconnects
<1>5. CASE WaitForWillsQueued
    <2>1. \A w \in Workers : runs[w].running
        BY <1>5 DEF WaitForWillsQueued, StopIInv, NothingYet, Before, Early
    <2>2. \A w \in Workers : runs[w].allWillsQueued
        BY <1>5, <2>1 DEF WaitForWillsQueued
    <2> QED
        BY <1>1, <1>5, <2>2, MainMoves DEF WaitForWillsQueued, StopShape, SaverFits, saverVars, Early
<1>6. CASE WaitForQuit \/ WaitForFinish \/ WaitForSaver \/ SaveAtEnd
    <2>1. /\ main \in {"waitsForQuit", "waitsForFinish", "waitsForSaver", "saves"}
          /\ main' \in {"waitsForFinish", "waitsForSaver", "saves", "ended"}
          /\ UNCHANGED <<saverVars, work, woken, collected, turn, runs, clientVars>>
          /\ main' \in {"saves", "ended"} => main = "saves" \/ saver = "stopped"
        BY <1>6 DEF WaitForQuit, WaitForFinish, WaitForSaver, SaveAtEnd
    <2>2. \A w \in Workers : runs[w].allWillsQueued
        BY <1>1, <2>1 DEF WillsRight
    <2> QED
        BY <1>1, <2>1, <2>2, MainMoves DEF StopShape, SaverFits, saverVars, Early
<1>7. CASE SaverStarts \/ SaverStep
    <2>1. /\ UNCHANGED <<main, saverRuns, work, woken, collected, turn, runs, clientVars>>
          /\ saver' \in {"idle", "saves", "stopped"} /\ saver # "stopped"
        BY <1>7 DEF SaverStarts, SaverStep
    <2> QED
        BY <1>1, <2>1, MainMoves DEF StopShape, SaverFits, Early, WillsRight
<1> QED
    BY <1>2, <1>3, <1>4, <1>5, <1>6, <1>7 DEF MainStep

-----------------------------------------------------------------------------
(* The turns of a worker                                                     *)

\* A step that performs no job and queues none.
LEMMA TurnSteps ==
    ASSUME StopIInv, NEW w \in Workers, Epoll(w) \/ TakeWork(w) \/ ClientsHandled(w)
    PROVE  StopIInv'
<1>1. UNCHANGED <<main, saver, saverRuns, collected, byFd, hasWill, unsent, onWire, stopStage, gone>>
    BY DEF Epoll, TakeWork, ClientsHandled, clientVars, saverVars
<1>2. StopShape /\ TurnsEnd /\ ClientsFit /\ SaverFits
    BY DEF StopIInv
<1>3. turn[w] \in Turns /\ work[w] \in Seq(StopJobs) /\ turn[w].batch \in Seq(StopJobs)
    BY Sequences, <1>2
<1>4. \A v \in Workers \ {w} : /\ turn'[v] = turn[v] /\ work'[v] = work[v] /\ woken'[v] = woken[v]
                               /\ runs'[v] = runs[v]
    BY <1>2 DEF Epoll, TakeWork, ClientsHandled, StopShape
<1>5. /\ turn'[w] \in Turns /\ work'[w] \in Seq(StopJobs) /\ woken'[w] \in SUBSET {"tasks", "collect"}
      /\ turn' \in [Workers -> Turns] /\ work' \in [Workers -> Seq(StopJobs)]
      /\ woken' \in [Workers -> SUBSET {"tasks", "collect"}]
      /\ runs' \in [Workers -> [running : BOOLEAN, allWillsQueued : BOOLEAN, finished : BOOLEAN]]
      /\ runs'[w].running = runs[w].running /\ runs'[w].allWillsQueued = runs[w].allWillsQueued
      /\ Ahead(w)' = Ahead(w) /\ (Gathers(w)' => Gathers(w)) /\ turn[w].ready \subseteq turn'[w].ready
      /\ turn'[w].at # "turn" =>
            turn'[w].batch = <<>> /\ turn'[w].events = {} /\ turn'[w].ready = {}
      /\ runs'[w].finished => turn'[w].at = "ended"
      /\ turn'[w].at = "ended" => ~runs'[w].running
    <2>1. CASE Epoll(w)
        <3>1. /\ turn' = [turn EXCEPT ![w] = [at |-> "turn", batch |-> <<>>, events |-> woken[w],
                                              ready |-> Writable(w)]]
              /\ UNCHANGED <<work, woken, runs>> /\ turn[w].at = "epoll"
            BY <2>1 DEF Epoll
        <3>2. Writable(w) \subseteq Connections
            BY <1>2 DEF Writable, ClientsOf, StopShape
        <3>3. turn[w].batch = <<>> /\ turn[w].ready = {} /\ ~runs[w].finished
            BY <1>2, <3>1 DEF TurnsEnd
        <3>4. /\ turn'[w] = [at |-> "turn", batch |-> <<>>, events |-> woken[w], ready |-> Writable(w)]
              /\ turn'[w] \in Turns /\ turn' \in [Workers -> Turns]
            BY <1>2, <3>1, <3>2 DEF StopShape, Turns
        <3>5. Ahead(w)' = Ahead(w) /\ Gathers(w)' = Gathers(w)
            BY <1>2, <3>1, <3>3, <3>4 DEF Ahead, Gathers, TurnsEnd
        <3> QED
            BY <1>2, <1>3, <3>1, <3>3, <3>4, <3>5 DEF StopShape
    <2>2. CASE TakeWork(w)
        <3>1. /\ turn[w].at = "turn" /\ turn[w].batch = <<>>
              /\ turn'[w] = [at |-> "turn", batch |-> work[w], events |-> turn[w].events \ {"tasks"},
                             ready |-> turn[w].ready]
              /\ turn' = [turn EXCEPT ![w] = turn'[w]]
              /\ work' = [work EXCEPT ![w] = <<>>]
              /\ woken' = [woken EXCEPT ![w] = @ \ {"tasks"}]
              /\ UNCHANGED runs
            BY <1>2 , <2>2 DEF TakeWork, StopShape
        <3>2. turn'[w] \in Turns /\ turn' \in [Workers -> Turns]
            <4>1. turn[w].events \in SUBSET {"tasks", "collect"} /\ turn[w].ready \in SUBSET Connections
                BY <1>3 DEF Turns
            <4>2. turn'[w] \in Turns
                BY <1>3, <3>1, <4>1 DEF Turns
            <4> QED
                BY <1>2, <3>1, <4>2 DEF StopShape
        <3>3. work'[w] = <<>> /\ work' \in [Workers -> Seq(StopJobs)]
            BY <1>2, <3>1, EmptySeq DEF StopShape
        <3>4. woken'[w] = woken[w] \ {"tasks"} /\ woken' \in [Workers -> SUBSET {"tasks", "collect"}]
            BY <1>2, <3>1 DEF StopShape
        <3>5. Ahead(w)' = Ahead(w)
            <4>1. turn'[w].batch = work[w] /\ work'[w] = <<>> /\ turn[w].batch = <<>>
                BY <3>1, <3>3
            <4>2. Ahead(w)' = work[w] \o <<>> /\ Ahead(w) = <<>> \o work[w]
                BY <4>1 DEF Ahead
            <4> QED
                BY <1>3, <4>2, ConcatEmptySeq
        <3>6. Gathers(w)' => Gathers(w)
            BY <3>1, <3>4 DEF Gathers
        <3>7. ~runs[w].finished
            BY <1>2, <3>1 DEF TurnsEnd
        <3> QED
            BY <1>2, <3>1, <3>2, <3>3, <3>4, <3>5, <3>6, <3>7, EmptySeq DEF StopShape
    <2>3. CASE ClientsHandled(w)
        <3>1. /\ turn[w].batch = <<>> /\ turn[w].events = {} /\ turn[w].ready = {}
              /\ turn'[w] = [at |-> IF runs[w].running THEN "epoll" ELSE "ended", batch |-> <<>>,
                             events |-> {}, ready |-> {}]
              /\ turn' = [turn EXCEPT ![w] = turn'[w]]
              /\ runs' = [runs EXCEPT ![w].finished = ~runs[w].running]
              /\ UNCHANGED <<work, woken>>
            BY <1>2, <2>3 DEF ClientsHandled, ClientsAreNext, StopShape, IdleTurn
        <3>2. turn'[w] \in Turns /\ turn' \in [Workers -> Turns]
            <4>1. turn'[w] \in Turns
                BY <3>1, EmptySeq DEF Turns
            <4> QED
                BY <1>2, <3>1, <4>1 DEF StopShape
        <3>3. /\ runs'[w].running = runs[w].running /\ runs'[w].allWillsQueued = runs[w].allWillsQueued
              /\ runs'[w].finished = ~runs[w].running
              /\ runs' \in [Workers -> [running : BOOLEAN, allWillsQueued : BOOLEAN, finished : BOOLEAN]]
            <4>1. runs[w] \in Flags
                BY <1>2 DEF StopShape, Flags
            <4>2. runs'[w] = [runs[w] EXCEPT !.finished = ~runs[w].running]
                BY <1>2, <3>1 DEF StopShape
            <4>3. /\ runs'[w] \in Flags /\ runs'[w].running = runs[w].running
                  /\ runs'[w].allWillsQueued = runs[w].allWillsQueued
                  /\ runs'[w].finished = ~runs[w].running
                BY <4>1, <4>2 DEF Flags
            <4>4. runs' \in [Workers -> Flags]
                BY <1>2, <3>1, <4>3 DEF StopShape, Flags
            <4> QED
                BY <4>3, <4>4 DEF Flags
        <3>4. Ahead(w)' = Ahead(w) /\ (Gathers(w)' => Gathers(w))
            BY <3>1 DEF Ahead, Gathers
        <3> QED
            BY <1>2, <1>3, <3>1, <3>2, <3>3, <3>4 DEF StopShape
    <2> QED
        BY <2>1, <2>2, <2>3
<1>6. StopShape' /\ SaverFits'
    BY <1>1, <1>2, <1>5 DEF StopShape, SaverFits
<1>7. TurnsEnd'
    <2>1. ASSUME NEW v \in Workers
          PROVE  /\ turn'[v].at # "turn" =>
                        turn'[v].batch = <<>> /\ turn'[v].events = {} /\ turn'[v].ready = {}
                 /\ runs'[v].finished => turn'[v].at = "ended"
                 /\ turn'[v].at = "ended" => ~runs'[v].running
        <3>1. CASE v = w
            BY <1>5, <3>1
        <3>2. CASE v # w
            BY <1>2, <1>4, <3>2 DEF TurnsEnd
        <3> QED
            BY <3>1, <3>2
    <2> QED
        BY <2>1 DEF TurnsEnd
<1>8. /\ \A v \in Workers : Ahead(v)' = Ahead(v) /\ (Gathers(v)' => Gathers(v))
      /\ \A v \in Workers : /\ runs'[v].running = runs[v].running
                            /\ runs'[v].allWillsQueued = runs[v].allWillsQueued
                            /\ turn[v].ready \subseteq turn'[v].ready
      /\ \A c \in Connections : Story(c)' = Story(c)
      /\ GoesOn
    <2>1. \A v \in Workers \ {w} : Ahead(v)' = Ahead(v) /\ Gathers(v)' = Gathers(v)
        BY <1>4 DEF Ahead, Gathers
    <2> QED
        BY <1>1, <1>4, <1>5, <2>1 DEF Story, GoesOn, Early
<1>9. JobsFit' /\ \A v \in Workers : Before(v)' = Before(v)
    <2>1. JobsFit'
        BY <1>1, <1>8, SameWork
    <2> QED
        BY <1>1, <1>8, <2>1 DEF Before, Early
<1>10. NothingYet'
    BY <1>1, <1>8, <1>9, NothingYetStays
<1>11. WillsRight'
    BY <1>1, <1>8, WillsStay
<1>12. ClientsFit'
    <2>1. /\ \A c \in Connections : Told(c)' = Told(c) /\ OnWire(c)' = OnWire(c)
          /\ \A v \in Workers : Quits(v)' = Quits(v)
        BY <1>1, <1>8 DEF Told, OnWire, Quits
    <2>2. \A c \in Connections : Worker[c] \in Workers
        BY WorkerAssumption
    <2>3. \A c \in Connections : c \in turn[Worker[c]].ready => c \in turn'[Worker[c]].ready
        BY <1>8, <2>2
    <2> QED
        BY <1>1, <1>2, <1>8, <1>9, <2>1, <2>2, <2>3, ClientsStay
<1> QED
    BY <1>6, <1>7, <1>9, <1>10, <1>11, <1>12 DEF StopIInv

-----------------------------------------------------------------------------
(* The jobs of a worker                                                      *)

LEMMA WithBatch ==
    ASSUME NEW t \in Turns, NEW b \in Seq(StopJobs), NEW u, u = [t EXCEPT !.batch = b]
    PROVE  u \in Turns /\ u.at = t.at /\ u.batch = b /\ u.events = t.events /\ u.ready = t.ready
<1>1. /\ t.at \in {"epoll", "turn", "ended"} /\ t.events \in SUBSET {"tasks", "collect"}
      /\ t.ready \in SUBSET Connections
    BY DEF Turns
<1>2. u = [at |-> t.at, batch |-> b, events |-> t.events, ready |-> t.ready]
    BY DEF Turns
<1> QED
    BY <1>1, <1>2 DEF Turns

\* The first job is taken; what it queues comes last.
LEMMA JobTaken ==
    ASSUME StopIInv, NEW w \in Workers, turn[w].at = "turn", turn[w].batch # <<>>,
           turn' = [turn EXCEPT ![w].batch = Tail(@)]
    PROVE  LET job == Head(turn[w].batch)
               q == Tail(Ahead(w))
           IN  /\ job \in StopJobs /\ job \in Items(Ahead(w)) /\ JobFits(w, job)
               /\ Ahead(w) # <<>> /\ q \in Seq(StopJobs)
               /\ Items(Ahead(w)) = {job} \cup Items(q)
               /\ \A b \in Items(q) : MayFollow(job, b)
               /\ turn' \in [Workers -> Turns]
               /\ \A v \in Workers : /\ turn'[v].at = turn[v].at /\ turn'[v].events = turn[v].events
                                     /\ turn'[v].ready = turn[v].ready
                                     /\ turn[v].at # "turn" => turn'[v].batch = turn[v].batch
               /\ \A v \in Workers \ {w} : work'[v] = work[v] => Ahead(v)' = Ahead(v)
               /\ work'[w] = work[w] => Ahead(w)' = q
               /\ \A new \in Seq(StopJobs) : work'[w] = work[w] \o new => Ahead(w)' = q \o new
<1> DEFINE batch == turn[w].batch
           queue == work[w]
<1>1. StopShape
    BY DEF StopIInv
<1>2. batch \in Seq(StopJobs) /\ batch # <<>> /\ queue \in Seq(StopJobs) /\ turn[w] \in Turns
    BY <1>1, Sequences
<1>3. Ahead(w) = batch \o queue
    BY DEF Ahead
<1>4. /\ turn'[w] = [turn[w] EXCEPT !.batch = Tail(batch)]
      /\ \A v \in Workers \ {w} : turn'[v] = turn[v]
    BY <1>1 DEF StopShape
<1>5. turn'[w].batch = Tail(batch)
    BY <1>2, <1>4 DEF Turns
<1> HIDE DEF batch, queue
<1>6. /\ Head(Ahead(w)) = Head(batch) /\ Tail(Ahead(w)) = Tail(batch) \o queue /\ Ahead(w) # <<>>
      /\ Ahead(w) \in Seq(StopJobs)
    BY <1>2, <1>3, TailOfConcat
<1>7. /\ Tail(batch) \in Seq(StopJobs) /\ Tail(Ahead(w)) \in Seq(StopJobs)
      /\ Head(batch) \in StopJobs /\ Head(batch) \in Items(Ahead(w))
      /\ Items(Ahead(w)) = {Head(batch)} \cup Items(Tail(Ahead(w)))
    BY <1>2, <1>6, ItemsOfTail, HeadTailProperties
<1>8. JobFits(w, Head(batch)) /\ \A b \in Items(Tail(Ahead(w))) : MayFollow(Head(batch), b)
    <2>1. InPlace(Ahead(w)) /\ JobFits(w, Head(batch))
        BY <1>7 DEF StopIInv, JobsFit
    <2> QED
        BY <1>6, <2>1, InPlaceTail
<1>9. turn' \in [Workers -> Turns]
    <2>1. turn'[w] \in Turns
        <3> DEFINE rest == Tail(batch)
        <3>1. rest \in Seq(StopJobs) /\ turn'[w] = [turn[w] EXCEPT !.batch = rest]
            BY <1>4, <1>7
        <3> HIDE DEF rest
        <3> QED
            BY <1>2, <3>1, WithBatch
    <2>2. turn' \in [Workers -> Turns]
        BY <1>1, <1>4, <2>1 DEF StopShape
    <2> QED
        BY <2>2
<1>10. \A v \in Workers : /\ turn'[v].at = turn[v].at /\ turn'[v].events = turn[v].events
                          /\ turn'[v].ready = turn[v].ready
                          /\ turn[v].at # "turn" => turn'[v].batch = turn[v].batch
    <2>1. /\ turn'[w].at = turn[w].at /\ turn'[w].events = turn[w].events
          /\ turn'[w].ready = turn[w].ready
        BY <1>2, <1>4 DEF Turns
    <2> QED
        BY <1>4, <2>1
<1>11. \A v \in Workers \ {w} : work'[v] = work[v] => Ahead(v)' = Ahead(v)
    BY <1>4 DEF Ahead
<1>12. work'[w] = work[w] => Ahead(w)' = Tail(Ahead(w))
    BY <1>5, <1>6 DEF Ahead, queue
<1>13. ASSUME NEW new \in Seq(StopJobs), work'[w] = work[w] \o new
       PROVE  Ahead(w)' = Tail(Ahead(w)) \o new
    <2>1. Ahead(w)' = Tail(batch) \o (queue \o new)
        BY <1>5, <1>13 DEF Ahead, queue
    <2>2. Tail(batch) \o (queue \o new) = (Tail(batch) \o queue) \o new
        <3> DEFINE rest == Tail(batch)
        <3>1. rest \in Seq(StopJobs) /\ queue \in Seq(StopJobs)
            BY <1>2, <1>7
        <3> HIDE DEF rest
        <3>2. rest \o (queue \o new) = (rest \o queue) \o new
            BY <3>1, AddedAtEnd
        <3> QED
            BY <3>2 DEF rest
    <2> QED
        BY <1>6, <2>1, <2>2
<1> QED
    BY <1>6, <1>7, <1>8, <1>9, <1>10, <1>11, <1>12, <1>13 DEF batch

\* A job that has no other effect on the clients than what is said of them.
LEMMA PublishedWills ==
    ASSUME StopShape, WillsRight, NEW clients \in SUBSET Connections, PublishWills(clients),
           onWire' = onWire
    PROVE  /\ hasWill' \subseteq hasWill /\ unsent' \in [Connections -> Seq(StopPackets)]
           /\ \A d \in hasWill : d \notin clients => d \in hasWill'
           /\ \A c \in Connections :
                 /\ Items(Story(c)) \subseteq Items(Story(c)')
                 /\ Disconnect \in Items(Story(c)') => Disconnect \in Items(Story(c))
                 /\ c \in byFd => clients \cap hasWill \subseteq Items(Story(c)')
                 /\ Once(Story(c)') /\ hasWill' \cap Items(Story(c)') = {}
                 /\ \A D : Preceded(Story(c), D) => Preceded(Story(c)', D)
<1> DEFINE T == clients \cap hasWill
           wills == SetToSeq(T)
<1>1. T \in SUBSET Connections /\ T \subseteq hasWill /\ hasWill' = hasWill \ clients
    BY DEF PublishWills
<1>2. wills \in Seq(T) /\ Items(wills) = T /\ Once(wills)
    BY <1>1, WillsOfSet
<1>3. /\ \A c \in Connections : unsent'[c] = IF c \in byFd THEN unsent[c] \o wills ELSE unsent[c]
      /\ unsent' = [c \in Connections |-> unsent'[c]]
    BY DEF PublishWills
<1> HIDE DEF wills
<1>4. wills \in Seq(StopPackets) /\ Disconnect \notin T
    <2>1. T \subseteq StopPackets /\ Disconnect \notin T
        BY <1>1, ConnectionsAssumption DEF StopPackets
    <2> HIDE DEF T
    <2> QED
        BY <1>2, <2>1, SeqMonotonic
<1> HIDE DEF T
<1>5. ASSUME NEW c \in Connections
      PROVE  /\ unsent'[c] \in Seq(StopPackets)
             /\ c \in byFd => Story(c)' = Story(c) \o wills
             /\ c \notin byFd => Story(c)' = Story(c)
    <2> DEFINE wire == onWire[c]
               buffer == unsent[c]
    <2>1. wire \in Seq(StopPackets) /\ buffer \in Seq(StopPackets)
        BY Sequences
    <2>2. /\ Story(c) = wire \o buffer
          /\ c \in byFd => Story(c)' = wire \o (buffer \o wills)
          /\ c \notin byFd => Story(c)' = wire \o buffer
          /\ unsent'[c] = IF c \in byFd THEN buffer \o wills ELSE buffer
        BY <1>3 DEF Story
    <2> HIDE DEF wire, buffer
    <2>3. wire \o (buffer \o wills) = (wire \o buffer) \o wills /\ buffer \o wills \in Seq(StopPackets)
        BY <1>4, <2>1, AddedAtEnd, ItemsOfConcat
    <2> QED
        BY <2>1, <2>2, <2>3
<1>6. unsent' \in [Connections -> Seq(StopPackets)]
    BY <1>3, <1>5
<1>7. ASSUME NEW c \in Connections
      PROVE  /\ Items(Story(c)) \subseteq Items(Story(c)')
             /\ Disconnect \in Items(Story(c)') => Disconnect \in Items(Story(c))
             /\ c \in byFd => T \subseteq Items(Story(c)')
             /\ Once(Story(c)') /\ hasWill' \cap Items(Story(c)') = {}
             /\ \A D : Preceded(Story(c), D) => Preceded(Story(c)', D)
    <2> DEFINE s == Story(c)
    <2>1. s \in Seq(StopPackets) /\ Once(s) /\ hasWill \cap Items(s) = {}
        BY Sequences DEF WillsRight
    <2>2. CASE c \notin byFd
        BY <1>1, <1>5, <2>1, <2>2
    <2>3. CASE c \in byFd
        <3>1. Story(c)' = s \o wills
            BY <1>5, <2>3
        <3> HIDE DEF s
        <3>2. Items(s \o wills) = Items(s) \cup T
            BY <1>2, <1>4, <2>1, ItemsOfConcat
        <3>3. Items(s) \cap Items(wills) = {}
            BY <1>1, <1>2, <2>1
        <3>4. Once(s \o wills)
            BY <1>2, <1>4, <2>1, <3>3, OnceConcat
        <3>5. hasWill' \cap Items(s \o wills) = {}
            BY <1>1, <2>1, <3>2 DEF T
        <3>6. ASSUME NEW D, Preceded(s, D)
              PROVE  Preceded(s \o wills, D)
            BY <1>2, <1>4, <2>1, <3>6, PrecededConcat
        <3>7. Disconnect \in Items(s \o wills) => Disconnect \in Items(s)
            BY <1>4, <3>2
        <3> QED
            BY <2>3, <3>1, <3>2, <3>4, <3>5, <3>6, <3>7 DEF s
    <2> QED
        BY <2>2, <2>3
<1> QED
    BY <1>1, <1>6, <1>7 DEF T

\* The events of a loop end with it.
LEMMA TurnsEndStays ==
    ASSUME TurnsEnd,
           \A v \in Workers : /\ turn'[v].at = turn[v].at /\ turn'[v].events = turn[v].events
                              /\ turn'[v].ready = turn[v].ready
                              /\ turn[v].at # "turn" => turn'[v].batch = turn[v].batch,
           \A v \in Workers : runs'[v].finished = runs[v].finished,
           \A v \in Workers : runs'[v].running => runs[v].running
    PROVE  TurnsEnd'
BY DEF TurnsEnd

\* A worker gives itself jobs.
LEMMA OwnQueued ==
    ASSUME StopShape, NEW w \in Workers, NEW new \in Seq(StopJobs), QueueOwn(w, new)
    PROVE  /\ work' \in [Workers -> Seq(StopJobs)] /\ work'[w] = work[w] \o new
           /\ \A v \in Workers \ {w} : work'[v] = work[v]
           /\ woken' \in [Workers -> SUBSET {"tasks", "collect"}]
           /\ \A v \in Workers : "collect" \in woken'[v] => "collect" \in woken[v]
<1> DEFINE queue == work[w]
<1>1. queue \in Seq(StopJobs)
    BY Sequences
<1>2. /\ work' = [work EXCEPT ![w] = queue \o new]
      /\ woken' = [woken EXCEPT ![w] = @ \cup {"tasks"}]
    BY DEF QueueOwn
<1> HIDE DEF queue
<1>3. queue \o new \in Seq(StopJobs)
    BY <1>1, ItemsOfConcat
<1>4. work' \in [Workers -> Seq(StopJobs)] /\ work'[w] = queue \o new
    BY <1>2, <1>3 DEF StopShape
<1>5. /\ \A v \in Workers \ {w} : work'[v] = work[v]
      /\ woken' \in [Workers -> SUBSET {"tasks", "collect"}]
      /\ \A v \in Workers : "collect" \in woken'[v] => "collect" \in woken[v]
    BY <1>2 DEF StopShape
<1> QED
    BY <1>4, <1>5 DEF queue

\* A job that sends nothing.
LEMMA QuietJob ==
    ASSUME StopIInv, NEW w \in Workers, turn[w].at = "turn", turn[w].batch # <<>>,
           turn' = [turn EXCEPT ![w].batch = Tail(@)],
           UNCHANGED <<main, saver, saverRuns, hasWill, unsent, onWire, gone>>,
           NEW new \in Seq(StopJobs), work'[w] = work[w] \o new,
           \A v \in Workers \ {w} : work'[v] = work[v],
           work' \in [Workers -> Seq(StopJobs)], woken' \in [Workers -> SUBSET {"tasks", "collect"}],
           collected' \in [Workers -> SUBSET Connections], runs' \in [Workers -> Flags],
           byFd' \subseteq Connections,
           stopStage' \in [Connections -> {"NotInitiated", "SendPendingAppData", "Now"}],
           \A v \in Workers : runs'[v].finished = runs[v].finished,
           \A v \in Workers : runs'[v].allWillsQueued = runs[v].allWillsQueued,
           \A v \in Workers : runs'[v].running => runs[v].running,
           ~Early, \A b \in Items(Tail(Ahead(w))) : b.kind # "disconnects",
           InPlace(new), \A a \in Items(Tail(Ahead(w))), b \in Items(new) : MayFollow(a, b),
           \A k \in Items(new) : Addressed(w, k) /\ k.kind \notin {"wills", "disconnects", "quit"}
    PROVE  /\ StopShape' /\ TurnsEnd' /\ JobsFit' /\ WillsRight' /\ SaverFits' /\ ~Before(w)'
           /\ \A v \in Workers : Before(v)' => Before(v)
           /\ \A v \in Workers \ {w} : Before(v)' = Before(v) /\ Ahead(v)' = Ahead(v)
           /\ Items(Ahead(w)') = Items(Tail(Ahead(w))) \cup Items(new)
           /\ Items(Tail(Ahead(w))) \subseteq Items(Ahead(w))
           /\ \A c \in Connections : /\ Story(c)' = Story(c) /\ Told(c)' = Told(c) /\ OnWire(c)' = OnWire(c)
                                     /\ Reachable(c)' = Reachable(c)
<1> DEFINE q == Tail(Ahead(w))
<1>1. StopShape /\ TurnsEnd /\ SaverFits
    BY DEF StopIInv
<1>2. /\ Ahead(w) # <<>> /\ q \in Seq(StopJobs) /\ Items(q) \subseteq Items(Ahead(w))
      /\ turn' \in [Workers -> Turns]
      /\ \A v \in Workers : /\ turn'[v].at = turn[v].at /\ turn'[v].events = turn[v].events
                            /\ turn'[v].ready = turn[v].ready
                            /\ turn[v].at # "turn" => turn'[v].batch = turn[v].batch
      /\ \A v \in Workers \ {w} : Ahead(v)' = Ahead(v)
      /\ Ahead(w)' = q \o new
    BY JobTaken
<1>3. StopShape' /\ TurnsEnd' /\ SaverFits'
    <2>1. StopShape' /\ SaverFits'
        BY <1>1, <1>2 DEF StopShape, SaverFits, Flags
    <2> QED
        BY <1>1, <1>2, <2>1, TurnsEndStays
<1>4. \A c \in Connections : /\ Story(c)' = Story(c) /\ Told(c)' = Told(c) /\ OnWire(c)' = OnWire(c)
                             /\ Reachable(c)' = Reachable(c)
    BY DEF Story, Told, OnWire, Reachable, Stayed
<1>5. WillsRight'
    BY <1>4, WillsStay
<1>6. ~Early'
    BY DEF Early
<1> HIDE DEF q
<1>7. Items(q \o new) = Items(q) \cup Items(new)
    BY <1>2, ItemsOfConcat
<1>8. ~Before(w)'
    BY <1>2, <1>6, <1>7 DEF Before, q
<1>9. \A k \in Items(new) : JobFits(w, k)' /\ k.kind # "disconnects"
    <2> SUFFICES ASSUME NEW k \in Items(new)
                 PROVE  JobFits(w, k)'
        OBVIOUS
    <2>1. Addressed(w, k) /\ k.kind \notin {"wills", "disconnects", "quit"}
        OBVIOUS
    <2>2. Addressed(w, k)'
        BY <1>4, <2>1 DEF Addressed
    <2> QED
        BY <1>6, <1>8, <2>1, <2>2 DEF JobFits
<1>10. /\ JobsFit' /\ \A v \in Workers : Before(v)' => Before(v)
       /\ Items(Ahead(w)') = Items(q) \cup Items(new)
    <2>1. Ahead(w) # <<>> /\ q = Tail(Ahead(w))
        BY <1>2 DEF q
    <2>2. \A a \in Items(q), b \in Items(new) : MayFollow(a, b)
        BY <2>1
    <2>3. UNCHANGED main /\ gone \subseteq gone'
        OBVIOUS
    <2> QED
        <3>1. q = Ahead(w) \/ (Ahead(w) # <<>> /\ q = Tail(Ahead(w)))
            BY <2>1
        <3>2. \/ runs'[w].allWillsQueued = runs[w].allWillsQueued
              \/ \A k \in Items(q) : k.kind # "wills"
            OBVIOUS
        <3>3. \A c \in Connections :
                  \/ Disconnect \in Items(Story(c)') => Disconnect \in Items(Story(c))
                  \/ Worker[c] = w /\ \A k \in Items(q) : ~(k.kind = "tell" /\ k.clients = {c})
            BY <1>4
        <3>4. \A v \in Workers \ {w} : Ahead(v)' = Ahead(v)
            BY <1>2
        <3>6. \A v \in Workers \ {w} : runs'[v].allWillsQueued = runs[v].allWillsQueued
            OBVIOUS
        <3>7. UNCHANGED main
            OBVIOUS
        <3>8. gone \subseteq gone'
            OBVIOUS
        <3>5. Ahead(w)' = q \o new /\ q \in Seq(StopJobs)
            BY <1>2
        <3> QED
            BY ONLY StopIInv, InPlace(new), new \in Seq(StopJobs), w \in Workers,
                    <1>9, <2>2, <3>1, <3>2, <3>3, <3>4, <3>5, <3>6, <3>7, <3>8, WorkStep, ZenonT(60)
<1>11. \A v \in Workers \ {w} : Before(v)' = Before(v) /\ Ahead(v)' = Ahead(v)
    BY <1>2 DEF Before, Early
<1> QED
    BY <1>2, <1>3, <1>4, <1>5, <1>8, <1>10, <1>11 DEF q

\* What is said of a job that a thread gets after it told its clients.
LEMMA LateJob ==
    ASSUME StopIInv, NEW w \in Workers, turn[w].at = "turn", turn[w].batch # <<>>,
           turn' = [turn EXCEPT ![w].batch = Tail(@)],
           Head(turn[w].batch).kind \notin {"wills", "ended"}
    PROVE  /\ ~Early /\ \A b \in Items(Tail(Ahead(w))) : b.kind # "disconnects"
           /\ Head(turn[w].batch).kind # "disconnects" => ~Before(w)
<1> DEFINE job == Head(turn[w].batch)
<1>1. /\ JobFits(w, job) /\ job \in Items(Ahead(w))
      /\ Items(Ahead(w)) = {job} \cup Items(Tail(Ahead(w)))
      /\ \A b \in Items(Tail(Ahead(w))) : MayFollow(job, b)
    BY JobTaken
<1>2. CASE job.kind = "disconnects"
    <2>1. ~Early
        BY <1>1, <1>2 DEF JobFits
    <2> QED
        BY <1>1, <1>2, <2>1 DEF MayFollow
<1>3. CASE job.kind # "disconnects"
    <2>1. ~Before(w)
        BY <1>1, <1>3 DEF JobFits
    <2> QED
        BY <1>1, <1>3, <2>1 DEF Before
<1> QED
    BY <1>2, <1>3

LEMMA DoesCollect ==
    ASSUME StopIInv, NEW w \in Workers, PerformJob(w), Head(turn[w].batch).kind = "collect",
           Collect(w, Head(turn[w].batch).clients)
    PROVE  StopIInv'
<1> DEFINE job == Head(turn[w].batch)
           q == Tail(Ahead(w))
<1>1. /\ UNCHANGED <<main, saver, saverRuns, work, runs, byFd, hasWill, unsent, onWire, stopStage, gone>>
      /\ turn[w].at = "turn" /\ turn[w].batch # <<>> /\ turn' = [turn EXCEPT ![w].batch = Tail(@)]
      /\ collected' = [collected EXCEPT ![w] = job.clients]
      /\ woken' = [woken EXCEPT ![w] = @ \cup {"collect"}]
    BY DEF PerformJob, Collect, saverVars, clientVars
<1>2. /\ job \in StopJobs /\ JobFits(w, job) /\ Items(Ahead(w)) = {job} \cup Items(q)
      /\ \A b \in Items(q) : MayFollow(job, b)
      /\ \A v \in Workers : turn'[v].events = turn[v].events /\ turn'[v].ready = turn[v].ready
    BY <1>1, JobTaken
<1>3. /\ ~Early /\ ~Before(w) /\ \A b \in Items(q) : b.kind # "disconnects"
    BY <1>1, LateJob
<1>4. StopShape /\ ClientsFit
    BY DEF StopIInv
<1>5. job.clients \in SUBSET Connections
    BY <1>2 DEF StopJobs
<1>6. /\ StopShape' /\ TurnsEnd' /\ JobsFit' /\ WillsRight' /\ SaverFits' /\ ~Before(w)'
      /\ \A v \in Workers : Before(v)' => Before(v)
      /\ \A v \in Workers \ {w} : Before(v)' = Before(v) /\ Ahead(v)' = Ahead(v)
      /\ Items(Ahead(w)') = Items(q) \cup Items(<<>>) /\ Items(q) \subseteq Items(Ahead(w))
      /\ \A c \in Connections : /\ Story(c)' = Story(c) /\ Told(c)' = Told(c) /\ OnWire(c)' = OnWire(c)
                                /\ Reachable(c)' = Reachable(c)
    <2>1. <<>> \in Seq(StopJobs) /\ Items(<<>>) = {} /\ InPlace(<<>>)
        BY EmptySeq, ItemsOfOne
    <2>2. work'[w] = work[w] \o <<>>
        BY <1>1, <1>4, Sequences, ConcatEmptySeq
    <2>3. /\ collected' \in [Workers -> SUBSET Connections]
          /\ woken' \in [Workers -> SUBSET {"tasks", "collect"}]
          /\ work' \in [Workers -> Seq(StopJobs)] /\ runs' \in [Workers -> Flags]
          /\ byFd' \subseteq Connections
          /\ stopStage' \in [Connections -> {"NotInitiated", "SendPendingAppData", "Now"}]
        BY <1>1, <1>4, <1>5 DEF StopShape, Flags
    <2> QED
        BY <1>1, <1>3, <2>1, <2>2, <2>3, QuietJob
<1>7. \A v \in Workers \ {w} : Gathers(v)' = Gathers(v) /\ Quits(v)' = Quits(v) /\ collected'[v] = collected[v]
    BY <1>1, <1>2, <1>4, <1>6 DEF Gathers, Quits, StopShape
<1>8. Quits(w)' => Quits(w)
    BY <1>1, <1>6, ItemsOfOne DEF Quits
<1>9. NothingYet'
    BY <1>1, <1>6, <1>7, NothingYetStays
<1>10. ASSUME NEW c \in Connections, Reachable(c), Worker[c] = w
       PROVE  c \in collected'[w] /\ Told(c)
    <2>1. c \in collected'[w]
        BY <1>1, <1>2, <1>4, <1>10 DEF JobFits, Addressed, StopShape
    <2>2. Job("tell", {c}) \notin Items(Ahead(w))
        <3>1. Job("tell", {c}).kind = "tell"
            BY DEF Job
        <3> QED
            BY <1>2, <3>1 DEF MayFollow
    <2> QED
        BY <1>3, <1>4, <1>10, <2>1, <2>2 DEF ClientsFit, ClientFits
<1>11. ClientsFit'
    <2>1. ASSUME NEW c \in Connections, Reachable(c)'
          PROVE  /\ stopStage'[c] = stopStage[c] /\ (c \in byFd => c \in byFd')
                 /\ Before(Worker[c]) => Before(Worker[c])'
                 /\ Job("tell", {c}) \in Items(Ahead(Worker[c])) =>
                        Told(c)' \/ Job("tell", {c}) \in Items(Ahead(Worker[c])')
                 /\ Gathers(Worker[c])' =>
                        \/ Gathers(Worker[c]) /\ collected'[Worker[c]] = collected[Worker[c]]
                        \/ c \in collected'[Worker[c]] /\ Told(c)'
                 /\ Quits(Worker[c])' => Quits(Worker[c])
                 /\ c \in turn[Worker[c]].ready => c \in turn'[Worker[c]].ready
        <3>1. Worker[c] \in Workers
            BY WorkerAssumption
        <3>2. CASE Worker[c] = w
            BY <1>1, <1>2, <1>3, <1>6, <1>8, <1>10, <2>1, <3>2
        <3>3. CASE Worker[c] # w
            BY <1>1, <1>2, <1>6, <1>7, <2>1, <3>1, <3>3
        <3> QED
            BY <3>2, <3>3
    <2> QED
        BY <1>1, <1>4, <1>6, <2>1, ClientsStay
<1> QED
    BY <1>6, <1>9, <1>11 DEF StopIInv

\* A job that queues others, or none, and tells nobody.
LEMMA QuietOfClients ==
    ASSUME StopIInv, NEW w \in Workers, PerformJob(w), UNCHANGED <<collected, runs, onWire, unsent, gone>>,
           StopShape', TurnsEnd', JobsFit', WillsRight', SaverFits', ~Before(w)',
           \A v \in Workers : Before(v)' => Before(v),
           \A v \in Workers \ {w} : Before(v)' = Before(v) /\ Ahead(v)' = Ahead(v),
           \A v \in Workers : "collect" \in woken'[v] => "collect" \in woken[v],
           \A k \in Items(Ahead(w)') : k.kind = "quit" => k \in Items(Ahead(w)),
           \A c \in Connections : Before(Worker[c])' =>
               stopStage'[c] = stopStage[c] /\ (c \in byFd => c \in byFd'),
           \A c \in Connections : Reachable(c) =>
               stopStage'[c] = stopStage[c] /\ (c \in byFd => c \in byFd'),
           \A c \in Connections : Reachable(c) /\ Worker[c] = w =>
               (Before(w) \/ Job("tell", {c}) \in Items(Ahead(w)) =>
                     Job("tell", {c}) \in Items(Ahead(w)'))
    PROVE  StopIInv'
<1>1. /\ turn[w].at = "turn" /\ turn[w].batch # <<>> /\ turn' = [turn EXCEPT ![w].batch = Tail(@)]
      /\ UNCHANGED main
    BY DEF PerformJob
<1>2. \A v \in Workers : turn'[v].events = turn[v].events /\ turn'[v].ready = turn[v].ready
    BY <1>1, JobTaken
<1>3. \A c \in Connections : /\ Story(c)' = Story(c) /\ Told(c)' = Told(c) /\ OnWire(c)' = OnWire(c)
                             /\ Reachable(c)' = Reachable(c)
    BY DEF Story, Told, OnWire, Reachable, Stayed
<1>4. \A v \in Workers : (Gathers(v)' => Gathers(v)) /\ (Quits(v)' => Quits(v))
    <2>1. \A v \in Workers : Gathers(v)' => Gathers(v)
        BY <1>2 DEF Gathers
    <2>2. \A v \in Workers \ {w} : Quits(v)' => Quits(v)
        BY DEF Quits
    <2>3. Quits(w)' => Quits(w)
        BY DEF Quits
    <2> QED
        BY <2>1, <2>2, <2>3
<1>5. NothingYet'
    BY <1>3, <1>4, NothingYetStays
<1>6. ClientsFit'
    <2>1. ASSUME NEW c \in Connections, Reachable(c)'
          PROVE  /\ stopStage'[c] = stopStage[c] /\ (c \in byFd => c \in byFd')
                 /\ Before(Worker[c]) => \/ Before(Worker[c])'
                                         \/ Job("tell", {c}) \in Items(Ahead(Worker[c])')
                 /\ Job("tell", {c}) \in Items(Ahead(Worker[c])) =>
                        Job("tell", {c}) \in Items(Ahead(Worker[c])')
                 /\ Gathers(Worker[c])' => Gathers(Worker[c])
                 /\ Quits(Worker[c])' => Quits(Worker[c])
                 /\ c \in turn[Worker[c]].ready => c \in turn'[Worker[c]].ready
        <3>1. Worker[c] \in Workers
            BY WorkerAssumption
        <3>2. Reachable(c)
            BY <1>3, <2>1
        <3>3. CASE Worker[c] = w
            BY <1>2, <1>4, <3>2, <3>3
        <3>4. CASE Worker[c] # w
            BY <1>2, <1>4, <3>1, <3>2, <3>4
        <3> QED
            BY <3>3, <3>4
    <2>2. ClientsFit /\ gone \subseteq gone'
        BY DEF StopIInv
    <2> QED
        BY <1>3, <2>1, <2>2, ClientsStay
<1> QED
    BY <1>5, <1>6 DEF StopIInv

LEMMA DoesRemove ==
    ASSUME StopIInv, NEW w \in Workers, PerformJob(w), Head(turn[w].batch).kind = "remove",
           RemoveQueued(w, Head(turn[w].batch).clients)
    PROVE  StopIInv'
<1> DEFINE job == Head(turn[w].batch)
           q == Tail(Ahead(w))
           next == Job("ended", job.clients)
           new == <<next>>
<1>1. /\ UNCHANGED <<main, saver, saverRuns, collected, runs, hasWill, unsent, onWire, stopStage, gone>>
      /\ turn[w].at = "turn" /\ turn[w].batch # <<>> /\ turn' = [turn EXCEPT ![w].batch = Tail(@)]
      /\ byFd' = byFd \ job.clients /\ QueueOwn(w, new)
    BY DEF PerformJob, RemoveQueued, saverVars
<1>2. /\ job \in StopJobs /\ JobFits(w, job) /\ Items(Ahead(w)) = {job} \cup Items(q)
    BY <1>1, JobTaken
<1>3. /\ ~Early /\ ~Before(w) /\ \A b \in Items(q) : b.kind # "disconnects"
    BY <1>1, LateJob
<1>4. StopShape
    BY DEF StopIInv
<1>5. next \in StopJobs /\ next.kind = "ended"
    BY <1>2 DEF StopJobs, Job
<1> HIDE DEF next
<1>6. new \in Seq(StopJobs) /\ Items(new) = {next} /\ InPlace(new)
    BY <1>5, ItemsOfOne
<1> HIDE DEF new
<1>7. /\ work' \in [Workers -> Seq(StopJobs)] /\ work'[w] = work[w] \o new
      /\ \A v \in Workers \ {w} : work'[v] = work[v]
      /\ woken' \in [Workers -> SUBSET {"tasks", "collect"}]
      /\ \A v \in Workers : "collect" \in woken'[v] => "collect" \in woken[v]
    BY <1>1, <1>4, <1>6, OwnQueued
<1>8. /\ StopShape' /\ TurnsEnd' /\ JobsFit' /\ WillsRight' /\ SaverFits' /\ ~Before(w)'
      /\ \A v \in Workers : Before(v)' => Before(v)
      /\ \A v \in Workers \ {w} : Before(v)' = Before(v) /\ Ahead(v)' = Ahead(v)
      /\ Items(Ahead(w)') = Items(q) \cup Items(new) /\ Items(q) \subseteq Items(Ahead(w))
    <2>1. /\ collected' \in [Workers -> SUBSET Connections]
          /\ runs' \in [Workers -> Flags] /\ byFd' \subseteq Connections
          /\ stopStage' \in [Connections -> {"NotInitiated", "SendPendingAppData", "Now"}]
        BY <1>1, <1>4 DEF StopShape, Flags
    <2>2. \A k \in Items(new) : Addressed(w, k) /\ k.kind \notin {"wills", "disconnects", "quit"}
        BY <1>5, <1>6 DEF Addressed
    <2>3. \A a \in Items(q), b \in Items(new) : MayFollow(a, b)
        BY <1>5, <1>6 DEF MayFollow
    <2> QED
        BY <1>1, <1>3, <1>6, <1>7, <2>1, <2>2, <2>3, QuietJob
<1>9. \A c \in Connections : Reachable(c) => stopStage'[c] = stopStage[c] /\ (c \in byFd => c \in byFd')
    BY <1>1, <1>2 DEF JobFits, Addressed, Reachable
<1>10. \A c \in Connections : Before(Worker[c])' =>
           stopStage'[c] = stopStage[c] /\ (c \in byFd => c \in byFd')
    BY <1>1, <1>2, <1>8 DEF JobFits, Addressed
<1>11. \A k \in Items(Ahead(w)') : k.kind = "quit" => k \in Items(Ahead(w))
    BY <1>5, <1>6, <1>8
<1>12. \A c \in Connections : Reachable(c) /\ Worker[c] = w =>
           (Before(w) \/ Job("tell", {c}) \in Items(Ahead(w)) =>
                 Job("tell", {c}) \in Items(Ahead(w)'))
    <2>1. \A c : Job("tell", {c}).kind = "tell"
        BY DEF Job
    <2> QED
        BY <1>2, <1>3, <1>8, <2>1
<1> QED
    BY <1>1, <1>7, <1>8, <1>9, <1>10, <1>11, <1>12, QuietOfClients

LEMMA DoesQuit ==
    ASSUME StopIInv, NEW w \in Workers, PerformJob(w), Head(turn[w].batch).kind = "quit", QuitLoop(w)
    PROVE  StopIInv'
<1> DEFINE job == Head(turn[w].batch)
           q == Tail(Ahead(w))
<1>1. /\ UNCHANGED <<main, saver, saverRuns, work, woken, collected, byFd, hasWill, unsent, onWire,
                     stopStage, gone>>
      /\ turn[w].at = "turn" /\ turn[w].batch # <<>> /\ turn' = [turn EXCEPT ![w].batch = Tail(@)]
      /\ runs' = [runs EXCEPT ![w].running = FALSE]
    BY DEF PerformJob, QuitLoop, saverVars, clientVars
<1>2. /\ job \in Items(Ahead(w)) /\ Items(Ahead(w)) = {job} \cup Items(q)
      /\ \A v \in Workers : turn'[v].events = turn[v].events /\ turn'[v].ready = turn[v].ready
    BY <1>1, JobTaken
<1>3. /\ ~Early /\ ~Before(w) /\ \A b \in Items(q) : b.kind # "disconnects"
    BY <1>1, LateJob
<1>4. StopShape /\ ClientsFit
    BY DEF StopIInv
<1>5. /\ runs' \in [Workers -> Flags] /\ ~runs'[w].running
      /\ \A v \in Workers \ {w} : runs'[v] = runs[v]
      /\ \A v \in Workers : /\ runs'[v].finished = runs[v].finished
                            /\ runs'[v].allWillsQueued = runs[v].allWillsQueued
                            /\ runs'[v].running => runs[v].running
    <2>1. runs[w] \in Flags
        BY <1>4 DEF StopShape, Flags
    <2>2. runs'[w] = [runs[w] EXCEPT !.running = FALSE] /\ \A v \in Workers \ {w} : runs'[v] = runs[v]
        BY <1>1, <1>4 DEF StopShape
    <2>3. /\ runs'[w] \in Flags /\ ~runs'[w].running
          /\ runs'[w].finished = runs[w].finished /\ runs'[w].allWillsQueued = runs[w].allWillsQueued
        BY <2>1, <2>2 DEF Flags
    <2>4. runs' \in [Workers -> Flags]
        BY <1>1, <1>4, <2>3 DEF StopShape, Flags
    <2> QED
        BY <2>2, <2>3, <2>4
<1>6. /\ StopShape' /\ TurnsEnd' /\ JobsFit' /\ WillsRight' /\ SaverFits' /\ ~Before(w)'
      /\ \A v \in Workers : Before(v)' => Before(v)
      /\ \A v \in Workers \ {w} : Before(v)' = Before(v) /\ Ahead(v)' = Ahead(v)
      /\ Items(Ahead(w)') = Items(q) \cup Items(<<>>) /\ Items(q) \subseteq Items(Ahead(w))
      /\ \A c \in Connections : /\ Story(c)' = Story(c) /\ Told(c)' = Told(c) /\ OnWire(c)' = OnWire(c)
                                /\ Reachable(c)' = Reachable(c)
    <2>1. <<>> \in Seq(StopJobs) /\ Items(<<>>) = {} /\ InPlace(<<>>)
        BY EmptySeq, ItemsOfOne
    <2>2. work'[w] = work[w] \o <<>>
        BY <1>1, <1>4, Sequences, ConcatEmptySeq
    <2>3. /\ collected' \in [Workers -> SUBSET Connections]
          /\ woken' \in [Workers -> SUBSET {"tasks", "collect"}]
          /\ work' \in [Workers -> Seq(StopJobs)] /\ byFd' \subseteq Connections
          /\ stopStage' \in [Connections -> {"NotInitiated", "SendPendingAppData", "Now"}]
        BY <1>1, <1>4 DEF StopShape
    <2> QED
        BY <1>1, <1>3, <1>5, <2>1, <2>2, <2>3, QuietJob
<1>7. \A v \in Workers : Gathers(v)' = Gathers(v) /\ (Quits(v)' => Quits(v))
    <2>1. \A v \in Workers : Gathers(v)' = Gathers(v)
        BY <1>1, <1>2 DEF Gathers
    <2>2. Quits(w)
        BY <1>2 DEF Quits
    <2>3. \A v \in Workers \ {w} : Quits(v)' => Quits(v)
        BY <1>5, <1>6 DEF Quits
    <2> QED
        BY <2>1, <2>2, <2>3
<1>8. NothingYet'
    <2>1. \A v \in Workers : Before(v)' => runs'[v].running = runs[v].running
        BY <1>5, <1>6
    <2> QED
        BY <1>1, <1>6, <1>7, <2>1, NothingYetStays
<1>9. ClientsFit'
    <2>1. ASSUME NEW c \in Connections
          PROVE  /\ Before(Worker[c]) => Before(Worker[c])'
                 /\ Job("tell", {c}) \in Items(Ahead(Worker[c])) =>
                        Job("tell", {c}) \in Items(Ahead(Worker[c])')
                 /\ Gathers(Worker[c])' = Gathers(Worker[c])
                 /\ Quits(Worker[c])' => Quits(Worker[c])
                 /\ c \in turn[Worker[c]].ready => c \in turn'[Worker[c]].ready
        <3>1. Worker[c] \in Workers /\ Job("tell", {c}).kind = "tell"
            BY WorkerAssumption DEF Job
        <3>2. CASE Worker[c] = w
            BY <1>2, <1>3, <1>6, <1>7, <3>1, <3>2
        <3>3. CASE Worker[c] # w
            BY <1>2, <1>6, <1>7, <3>1, <3>3
        <3> QED
            BY <3>2, <3>3
    <2> QED
        BY <1>1, <1>4, <1>6, <2>1, ClientsStay
<1> QED
    BY <1>6, <1>8, <1>9 DEF StopIInv

\* The client is told by its socket only.
LEMMA DoesTellOld ==
    ASSUME StopIInv, NEW w \in Workers, PerformJob(w), Head(turn[w].batch).kind = "tell",
           NEW d \in Connections, d \in Head(turn[w].batch).clients, d \notin Mqtt5Clients,
           stopStage' = [stopStage EXCEPT ![d] = "Now"], QueueOwn(w, <<Job("remove", {d})>>),
           UNCHANGED <<collected, runs, byFd, hasWill, unsent, onWire, gone>>
    PROVE  StopIInv'
<1> DEFINE job == Head(turn[w].batch)
           q == Tail(Ahead(w))
           next == Job("remove", {d})
           new == <<next>>
<1>1. /\ UNCHANGED <<main, saver, saverRuns>>
      /\ turn[w].at = "turn" /\ turn[w].batch # <<>> /\ turn' = [turn EXCEPT ![w].batch = Tail(@)]
    BY DEF PerformJob, saverVars
<1>2. /\ job \in StopJobs /\ JobFits(w, job) /\ Items(Ahead(w)) = {job} \cup Items(q)
    BY <1>1, JobTaken
<1>3. /\ ~Early /\ ~Before(w) /\ \A b \in Items(q) : b.kind # "disconnects"
    BY <1>1, LateJob
<1>4. StopShape
    BY DEF StopIInv
<1>5. next \in StopJobs /\ next.kind = "remove" /\ next.clients = {d} /\ job.clients = {d} /\ Worker[d] = w
    <2>1. PICK c \in Connections : job.clients = {c} /\ Worker[c] = w
        BY <1>2 DEF JobFits, Addressed
    <2>2. c = d
        BY <2>1
    <2>3. next \in StopJobs /\ next.kind = "remove" /\ next.clients = {d}
        BY DEF StopJobs, Job
    <2> QED
        BY <2>1, <2>2, <2>3
<1> HIDE DEF next
<1>6. new \in Seq(StopJobs) /\ Items(new) = {next} /\ InPlace(new) /\ QueueOwn(w, new)
    <2>1. QueueOwn(w, new)
        BY DEF next
    <2> QED
        BY <1>5, <2>1, ItemsOfOne
<1> HIDE DEF new
<1>7. /\ work' \in [Workers -> Seq(StopJobs)] /\ work'[w] = work[w] \o new
      /\ \A v \in Workers \ {w} : work'[v] = work[v]
      /\ woken' \in [Workers -> SUBSET {"tasks", "collect"}]
      /\ \A v \in Workers : "collect" \in woken'[v] => "collect" \in woken[v]
    BY <1>4, <1>6, OwnQueued
<1>8. /\ StopShape' /\ TurnsEnd' /\ JobsFit' /\ WillsRight' /\ SaverFits' /\ ~Before(w)'
      /\ \A v \in Workers : Before(v)' => Before(v)
      /\ \A v \in Workers \ {w} : Before(v)' = Before(v) /\ Ahead(v)' = Ahead(v)
      /\ Items(Ahead(w)') = Items(q) \cup Items(new) /\ Items(q) \subseteq Items(Ahead(w))
    <2>1. /\ collected' \in [Workers -> SUBSET Connections]
          /\ runs' \in [Workers -> Flags] /\ byFd' \subseteq Connections
          /\ stopStage' \in [Connections -> {"NotInitiated", "SendPendingAppData", "Now"}]
        BY <1>4 DEF StopShape, Flags
    <2>2. \A k \in Items(new) : Addressed(w, k) /\ k.kind \notin {"wills", "disconnects", "quit"}
        BY <1>5, <1>6 DEF Addressed
    <2>3. \A a \in Items(q), b \in Items(new) : MayFollow(a, b)
        BY <1>5, <1>6 DEF MayFollow
    <2> QED
        BY <1>1, <1>3, <1>6, <1>7, <2>1, <2>2, <2>3, QuietJob
<1>9. \A c \in Connections : c # d => stopStage'[c] = stopStage[c]
    BY <1>4 DEF StopShape
<1>10. \A k \in Items(Ahead(w)') : k.kind = "quit" => k \in Items(Ahead(w))
    BY <1>5, <1>6, <1>8
<1>11. \A c \in Connections : Reachable(c) /\ Worker[c] = w =>
           (Before(w) \/ Job("tell", {c}) \in Items(Ahead(w)) =>
                 Job("tell", {c}) \in Items(Ahead(w)'))
    <2>1. ASSUME NEW c \in Connections, Reachable(c)
          PROVE  Job("tell", {c}) # job
        BY <1>5, <2>1 DEF Job, Reachable
    <2> QED
        BY <1>2, <1>3, <1>8, <2>1
<1>12. \A c \in Connections : Reachable(c) => stopStage'[c] = stopStage[c] /\ (c \in byFd => c \in byFd')
    BY <1>9 DEF Reachable
<1>13. \A c \in Connections : Before(Worker[c])' =>
           stopStage'[c] = stopStage[c] /\ (c \in byFd => c \in byFd')
    BY <1>5, <1>8, <1>9
<1> QED
    BY <1>1, <1>7, <1>8, <1>10, <1>11, <1>12, <1>13, QuietOfClients

\* The clients are told one after the other, and then collected.
LEMMA DoesDisconnects ==
    ASSUME StopIInv, NEW w \in Workers, PerformJob(w), Head(turn[w].batch).kind = "disconnects",
           SendAllDisconnects(w)
    PROVE  StopIInv'
<1> DEFINE job == Head(turn[w].batch)
           q == Tail(Ahead(w))
           clients == SetToSeq(ClientsOf(w))
           tells == [i \in 1..Len(clients) |-> Job("tell", {clients[i]})]
           last == Job("collect", ClientsOf(w))
           new == tells \o <<last>>
<1>1. /\ UNCHANGED <<main, saver, saverRuns, collected, runs, byFd, hasWill, unsent, onWire, stopStage, gone>>
      /\ turn[w].at = "turn" /\ turn[w].batch # <<>> /\ turn' = [turn EXCEPT ![w].batch = Tail(@)]
      /\ QueueOwn(w, new)
    BY DEF PerformJob, SendAllDisconnects, saverVars, clientVars
<1>2. /\ job \in StopJobs /\ JobFits(w, job) /\ job \in Items(Ahead(w))
      /\ Items(Ahead(w)) = {job} \cup Items(q)
    BY <1>1, JobTaken
<1>3. /\ ~Early /\ Before(w) /\ \A b \in Items(q) : b.kind # "disconnects"
    BY <1>1, <1>2, LateJob DEF Before
<1>4. StopShape
    BY DEF StopIInv
<1>5. ClientsOf(w) \in SUBSET Connections /\ \A c \in ClientsOf(w) : Worker[c] = w
    BY <1>4 DEF ClientsOf, StopShape
<1>6. clients \in Seq(ClientsOf(w)) /\ Items(clients) = ClientsOf(w) /\ Once(clients)
    BY <1>5, WillsOfSet
<1> HIDE DEF clients
<1>7. Len(clients) \in Nat /\ \A i \in 1..Len(clients) : clients[i] \in ClientsOf(w)
    BY <1>6, LenProperties, ElementOfSeq
<1>8. /\ tells \in Seq(StopJobs) /\ Len(tells) = Len(clients)
      /\ \A i \in 1..Len(clients) : tells[i] = Job("tell", {clients[i]})
    <2>1. \A i \in 1..Len(clients) : Job("tell", {clients[i]}) \in StopJobs
        BY <1>5, <1>7 DEF StopJobs, Job
    <2> QED
        BY <1>7, <2>1
<1> HIDE DEF tells
<1>9. Items(tells) = {Job("tell", {c}) : c \in ClientsOf(w)}
    <2>1. Items(tells) = {tells[i] : i \in 1..Len(clients)}
        BY <1>8 DEF Items
    <2>2. \A c : c \in ClientsOf(w) <=> \E i \in 1..Len(clients) : c = clients[i]
        BY <1>6 DEF Items
    <2>3. ASSUME NEW c \in ClientsOf(w)
          PROVE  Job("tell", {c}) \in Items(tells)
        BY <1>8, <2>1, <2>2
    <2>4. ASSUME NEW i \in 1..Len(clients)
          PROVE  \E c \in ClientsOf(w) : tells[i] = Job("tell", {c})
        BY <1>8, <2>2
    <2> QED
        BY <2>1, <2>3, <2>4
<1>10. last \in StopJobs /\ last.kind = "collect" /\ last.clients = ClientsOf(w)
    BY <1>5 DEF StopJobs, Job
<1> HIDE DEF last
<1>11. <<last>> \in Seq(StopJobs) /\ Items(<<last>>) = {last} /\ InPlace(<<last>>)
    BY <1>10, ItemsOfOne
<1>12. \A c : Job("tell", {c}).kind = "tell" /\ Job("tell", {c}).clients = {c}
    BY DEF Job
<1>13. InPlace(tells)
    <2> SUFFICES ASSUME NEW i \in 1..Len(clients), NEW j \in 1..Len(clients), i < j
                 PROVE  MayFollow(tells[i], tells[j])
        BY <1>8 DEF InPlace
    <2>1. clients[i] # clients[j]
        BY <1>6, <1>7 DEF Once
    <2> QED
        <3>1. /\ tells[i].kind = "tell" /\ tells[i].clients = {clients[i]}
              /\ tells[j].kind = "tell" /\ tells[j].clients = {clients[j]}
            BY <1>8, <1>12
        <3> QED
            BY <2>1, <3>1 DEF MayFollow
<1>14. /\ new \in Seq(StopJobs) /\ Items(new) = Items(tells) \cup {last} /\ InPlace(new)
    <2>1. \A a \in Items(tells), b \in Items(<<last>>) : MayFollow(a, b)
        BY <1>9, <1>10, <1>11, <1>12 DEF MayFollow
    <2> DEFINE one == <<last>>
    <2>2. one \in Seq(StopJobs) /\ Items(one) = {last} /\ InPlace(one)
        BY <1>11
    <2>3. \A a \in Items(tells), b \in Items(one) : MayFollow(a, b)
        BY <2>1
    <2> HIDE DEF one
    <2>4. /\ tells \o one \in Seq(StopJobs) /\ Items(tells \o one) = Items(tells) \cup Items(one)
          /\ InPlace(tells \o one)
        BY <1>8, <1>13, <2>2, <2>3, ItemsOfConcat, InPlaceConcat
    <2> QED
        BY <2>2, <2>4 DEF one
<1> HIDE DEF new
<1>15. /\ work' \in [Workers -> Seq(StopJobs)] /\ work'[w] = work[w] \o new
       /\ \A v \in Workers \ {w} : work'[v] = work[v]
       /\ woken' \in [Workers -> SUBSET {"tasks", "collect"}]
       /\ \A v \in Workers : "collect" \in woken'[v] => "collect" \in woken[v]
    BY <1>1, <1>4, <1>14, OwnQueued
<1>16. \A a \in Items(q) : a.kind \notin {"collect", "tell", "disconnects"}
    BY <1>2, <1>3 DEF StopIInv, JobsFit, JobFits
<1>17. \A c \in Connections : Worker[c] = w => /\ c \in byFd \cup gone
                                               /\ Disconnect \notin Items(Story(c))
    BY <1>3 DEF StopIInv, NothingYet
<1>18. /\ StopShape' /\ TurnsEnd' /\ JobsFit' /\ WillsRight' /\ SaverFits' /\ ~Before(w)'
       /\ \A v \in Workers : Before(v)' => Before(v)
       /\ \A v \in Workers \ {w} : Before(v)' = Before(v) /\ Ahead(v)' = Ahead(v)
       /\ Items(Ahead(w)') = Items(q) \cup Items(new) /\ Items(q) \subseteq Items(Ahead(w))
    <2>1. /\ collected' \in [Workers -> SUBSET Connections]
          /\ runs' \in [Workers -> Flags] /\ byFd' \subseteq Connections
          /\ stopStage' \in [Connections -> {"NotInitiated", "SendPendingAppData", "Now"}]
        BY <1>1, <1>4 DEF StopShape, Flags
    <2>2. \A k \in Items(new) : Addressed(w, k) /\ k.kind \notin {"wills", "disconnects", "quit"}
        <3>1. ASSUME NEW c \in ClientsOf(w)
              PROVE  Addressed(w, Job("tell", {c}))
            BY <1>5, <1>12, <1>17 DEF Addressed
        <3>2. Addressed(w, last)
            BY <1>10, <1>17 DEF Addressed, Reachable, Stayed, ClientsOf
        <3> QED
            BY <1>9, <1>10, <1>12, <1>14, <3>1, <3>2
    <2>3. \A a \in Items(q), b \in Items(new) : MayFollow(a, b)
        BY <1>9, <1>10, <1>12, <1>14, <1>16 DEF MayFollow
    <2> QED
        BY <1>1, <1>3, <1>14, <1>15, <2>1, <2>2, <2>3, QuietJob
<1>19. \A k \in Items(Ahead(w)') : k.kind = "quit" => k \in Items(Ahead(w))
    BY <1>9, <1>10, <1>12, <1>14, <1>18
<1>20. \A c \in Connections : Reachable(c) /\ Worker[c] = w =>
           (Before(w) \/ Job("tell", {c}) \in Items(Ahead(w)) =>
                 Job("tell", {c}) \in Items(Ahead(w)'))
    <2>1. \A c \in Connections : Reachable(c) /\ Worker[c] = w => c \in ClientsOf(w)
        BY <1>17 DEF Reachable, Stayed, ClientsOf
    <2> QED
        BY <1>9, <1>14, <1>18, <2>1
<1> QED
    BY <1>1, <1>15, <1>18, <1>19, <1>20, QuietOfClients

\* The DISCONNECT comes after all wills.
LEMMA DoesTell ==
    ASSUME StopIInv, NEW w \in Workers, PerformJob(w), Head(turn[w].batch).kind = "tell",
           NEW d \in Connections, d \in Head(turn[w].batch).clients, d \in Mqtt5Clients,
           stopStage' = [stopStage EXCEPT ![d] = "SendPendingAppData"],
           unsent' = [unsent EXCEPT ![d] = Append(@, Disconnect)],
           UNCHANGED <<work, woken, collected, runs, byFd, hasWill, onWire, gone>>
    PROVE  StopIInv'
<1> DEFINE job == Head(turn[w].batch)
           q == Tail(Ahead(w))
<1>1. /\ UNCHANGED <<main, saver, saverRuns>>
      /\ turn[w].at = "turn" /\ turn[w].batch # <<>> /\ turn' = [turn EXCEPT ![w].batch = Tail(@)]
    BY DEF PerformJob, saverVars
<1>2. /\ job \in StopJobs /\ JobFits(w, job) /\ Items(Ahead(w)) = {job} \cup Items(q)
      /\ Ahead(w) # <<>> /\ q \in Seq(StopJobs) /\ \A b \in Items(q) : MayFollow(job, b)
      /\ turn' \in [Workers -> Turns]
      /\ \A v \in Workers : /\ turn'[v].at = turn[v].at /\ turn'[v].events = turn[v].events
                            /\ turn'[v].ready = turn[v].ready
                            /\ turn[v].at # "turn" => turn'[v].batch = turn[v].batch
      /\ \A v \in Workers \ {w} : Ahead(v)' = Ahead(v)
      /\ Ahead(w)' = q
    BY <1>1, JobTaken
<1>3. ~Early /\ ~Before(w)
    BY <1>1, LateJob
<1>4. StopShape /\ TurnsEnd /\ WillsRight /\ ClientsFit /\ SaverFits
    BY DEF StopIInv
<1>5. job.clients = {d} /\ Worker[d] = w /\ Disconnect \notin Items(Story(d))
    <2>1. PICK c \in Connections : job.clients = {c} /\ Worker[c] = w /\ Disconnect \notin Items(Story(c))
        BY <1>2 DEF JobFits, Addressed
    <2>2. c = d
        BY <2>1
    <2> QED
        BY <2>1, <2>2
<1>6. /\ unsent' \in [Connections -> Seq(StopPackets)]
      /\ \A c \in Connections \ {d} : Story(c)' = Story(c)
      /\ Story(d)' = Story(d) \o <<Disconnect>> /\ Story(d) \in Seq(StopPackets)
      /\ Disconnect \in StopPackets
    <2> DEFINE wire == onWire[d]
               buffer == unsent[d]
    <2>1. wire \in Seq(StopPackets) /\ buffer \in Seq(StopPackets) /\ Disconnect \in StopPackets
        BY <1>4, Sequences DEF StopPackets
    <2>2. unsent' = [unsent EXCEPT ![d] = Append(buffer, Disconnect)]
        OBVIOUS
    <2>3. Story(d) = wire \o buffer
        BY DEF Story
    <2> HIDE DEF wire, buffer
    <2>4. /\ Append(buffer, Disconnect) \in Seq(StopPackets)
          /\ wire \o Append(buffer, Disconnect) = (wire \o buffer) \o <<Disconnect>>
          /\ wire \o buffer \in Seq(StopPackets)
        BY <2>1, OneAdded, OneAddedAfter, ItemsOfConcat
    <2>5. /\ unsent' \in [Connections -> Seq(StopPackets)] /\ unsent'[d] = Append(buffer, Disconnect)
          /\ \A c \in Connections \ {d} : unsent'[c] = unsent[c]
        BY <1>4, <2>2, <2>4 DEF StopShape
    <2>6. Story(d)' = wire \o Append(buffer, Disconnect)
        BY <2>5 DEF Story, wire
    <2> QED
        BY <2>1, <2>3, <2>4, <2>5, <2>6 DEF Story
<1>7. /\ stopStage' \in [Connections -> {"NotInitiated", "SendPendingAppData", "Now"}]
      /\ \A c \in Connections \ {d} : stopStage'[c] = stopStage[c]
    BY <1>4 DEF StopShape
<1>8. StopShape' /\ TurnsEnd' /\ SaverFits'
    <2>1. StopShape' /\ SaverFits'
        BY <1>1, <1>2, <1>4, <1>6, <1>7 DEF StopShape, SaverFits
    <2> QED
        BY <1>2, <1>4, <2>1, TurnsEndStays
<1>9. /\ Items(Story(d)') = Items(Story(d)) \cup {Disconnect} /\ Once(Story(d)')
      /\ \A D : Preceded(Story(d), D) /\ D \subseteq Items(Story(d)) => Preceded(Story(d)', D)
    <2> DEFINE one == <<Disconnect>>
               s == Story(d)
    <2>1. one \in Seq(StopPackets) /\ Items(one) = {Disconnect} /\ Once(one)
        BY <1>6, ItemsOfOne
    <2>2. s \in Seq(StopPackets) /\ Once(s) /\ Disconnect \notin Items(s) /\ Story(d)' = s \o one
        BY <1>4, <1>5, <1>6 DEF WillsRight
    <2> HIDE DEF one, s
    <2>3. Items(s \o one) = Items(s) \cup {Disconnect}
        BY <2>1, <2>2, ItemsOfConcat
    <2>4. Once(s \o one)
        <3>1. Items(s) \cap Items(one) = {}
            BY <2>1, <2>2
        <3> QED
            BY <2>1, <2>2, <3>1, OnceConcat
    <2>5. ASSUME NEW D, Preceded(s, D), D \subseteq Items(s)
          PROVE  Preceded(s \o one, D)
        BY <2>1, <2>2, <2>5, PrecededConcat
    <2> QED
        BY <2>2, <2>3, <2>4, <2>5 DEF s
<1>10. /\ \A c \in Connections : /\ Items(Story(c)) \subseteq Items(Story(c)')
                                 /\ Told(c) => Told(c)'
                                 /\ OnWire(c)' = OnWire(c)
                                 /\ Reachable(c)' = Reachable(c)
       /\ Told(d)' /\ Stayed' = Stayed
    BY <1>6, <1>9 DEF Told, OnWire, Reachable, Stayed
<1>11. WillsRight'
    <2>1. Stayed \subseteq Connections /\ Disconnect \notin Connections /\ hasWill \subseteq Connections
        BY <1>4, ConnectionsAssumption DEF Stayed, StopShape
    <2>2. \A v \in Workers : runs[v].allWillsQueued
        BY <1>3, <1>4 DEF WillsRight, Early
    <2>3. (/\ main \in {"runs", "wills"} => \A v \in Workers : ~runs[v].allWillsQueued
           /\ main \in {"runs", "wills", "waitsForWills"} \/ \A v \in Workers : runs[v].allWillsQueued
           /\ \A e \in Stayed : runs[Worker[e]].allWillsQueued \/ e \in hasWill)'
        BY <1>1, <1>4, <1>10 DEF WillsRight
    <2>4. (\A c \in Connections : Once(Story(c)) /\ hasWill \cap Items(Story(c)) = {})'
        <3>1. \A c \in Connections \ {d} : Once(Story(c)') /\ hasWill \cap Items(Story(c)') = {}
            BY <1>4, <1>6 DEF WillsRight
        <3>2. Once(Story(d)') /\ hasWill \cap Items(Story(d)') = {}
            BY <1>4, <1>9, <2>1 DEF WillsRight
        <3> QED
            BY <3>1, <3>2
    <2>5. (\A c, e \in Stayed : runs[Worker[e]].allWillsQueued => e \in Items(Story(c)))'
        BY <1>4, <1>10, <2>1 DEF WillsRight
    <2>6. (\A c \in Connections : Reachable(c) => Preceded(Story(c), Stayed))'
        <3>1. Reachable(d) => Stayed \subseteq Items(Story(d))
            BY <1>4, <2>1, <2>2, WorkerAssumption DEF WillsRight, Reachable
        <3>2. Reachable(d) => Preceded(Story(d)', Stayed)
            BY <1>4, <1>9, <3>1 DEF WillsRight
        <3>3. \A c \in Connections \ {d} : Reachable(c) => Preceded(Story(c)', Stayed)
            BY <1>4, <1>6 DEF WillsRight
        <3> QED
            BY <1>10, <3>2, <3>3
    <2> QED
        BY <2>3, <2>4, <2>5, <2>6 DEF WillsRight
<1>12. \A b \in Items(q) : ~(b.kind = "tell" /\ b.clients = {d})
    BY <1>2, <1>5 DEF MayFollow
<1> HIDE DEF q
<1>13. /\ JobsFit' /\ \A v \in Workers : Before(v)' => Before(v)
       /\ Items(Ahead(w)') = Items(q)
    <2>1. Ahead(w) # <<>> /\ Ahead(w)' = Tail(Ahead(w))
        BY <1>2 DEF q
    <2>2. \A v \in Workers : runs'[v].allWillsQueued = runs[v].allWillsQueued
        OBVIOUS
    <2>3. \A c \in Connections :
              \/ Disconnect \in Items(Story(c)') => Disconnect \in Items(Story(c))
              \/ Worker[c] = w /\ \A k \in Items(Tail(Ahead(w))) : ~(k.kind = "tell" /\ k.clients = {c})
        BY <1>5, <1>6, <1>12 DEF q
    <2>4. UNCHANGED main /\ gone \subseteq gone' /\ \A v \in Workers \ {w} : Ahead(v)' = Ahead(v)
        BY <1>1, <1>2
    <2>5. JobsFit' /\ \A v \in Workers : Before(v)' => Before(v)
        BY <2>1, <2>2, <2>3, <2>4, JobDone
    <2> QED
        BY <2>1, <2>5 DEF q
<1>14. ~Before(w)' /\ \A v \in Workers \ {w} : Before(v)' = Before(v)
    BY <1>1, <1>2, <1>3, <1>13 DEF Before, Early
<1>15. \A v \in Workers : Gathers(v)' = Gathers(v) /\ (Quits(v)' => Quits(v))
    <2>1. \A v \in Workers : Gathers(v)' = Gathers(v)
        BY <1>2 DEF Gathers
    <2>2. Quits(w)' => Quits(w)
        BY <1>2, <1>13 DEF Quits, q
    <2>3. \A v \in Workers \ {w} : Quits(v)' => Quits(v)
        BY <1>2 DEF Quits
    <2> QED
        BY <2>1, <2>2, <2>3
<1>16. NothingYet'
    <2>1. \A c \in Connections : Before(Worker[c])' => c # d
        BY <1>5, <1>14
    <2>2. \A c \in Connections : Before(Worker[c])' =>
              (Disconnect \in Items(Story(c)') => Disconnect \in Items(Story(c)))
        BY <1>6, <2>1
    <2>3. \A c \in Connections : Before(Worker[c])' => stopStage'[c] = stopStage[c]
        BY <1>7, <2>1
    <2> QED
        BY <1>13, <1>15, <2>2, <2>3, NothingYetStays
<1>17. ClientsFit'
    <2>1. ASSUME NEW c \in Connections
          PROVE  /\ stopStage'[c] = stopStage[c] \/ Told(c)'
                 /\ Before(Worker[c]) => Before(Worker[c])'
                 /\ Job("tell", {c}) \in Items(Ahead(Worker[c])) =>
                        Told(c)' \/ Job("tell", {c}) \in Items(Ahead(Worker[c])')
                 /\ Gathers(Worker[c])' = Gathers(Worker[c])
                 /\ Quits(Worker[c])' => Quits(Worker[c])
                 /\ c \in turn[Worker[c]].ready => c \in turn'[Worker[c]].ready
        <3>1. Worker[c] \in Workers /\ Job("tell", {c}).clients = {c}
            BY WorkerAssumption DEF Job
        <3>2. CASE c = d
            BY <1>2, <1>3, <1>5, <1>10, <1>15, <3>1, <3>2
        <3>3. CASE c # d /\ Worker[c] = w
            <4>1. Job("tell", {c}) # job
                BY <1>5, <3>1, <3>3
            <4>2. Items(Ahead(w)) = {job} \cup Items(q)
                BY <1>2 DEF q
            <4> QED
                BY <1>2, <1>3, <1>7, <1>13, <1>15, <3>1, <3>3, <4>1, <4>2
        <3>4. CASE Worker[c] # w
            BY <1>2, <1>5, <1>7, <1>14, <1>15, <3>1, <3>4
        <3> QED
            BY <3>2, <3>3, <3>4
    <2> QED
        BY <1>4, <1>10, <2>1, ClientsStay
<1> QED
    BY <1>8, <1>11, <1>13, <1>16, <1>17 DEF StopIInv

\* A job that publishes wills: those of the clients of a thread, or of a client that ended.
LEMMA DoesPublish ==
    ASSUME StopIInv, NEW w \in Workers, PerformJob(w), NEW clients \in SUBSET Connections,
           PublishWills(clients), UNCHANGED <<work, woken, collected, byFd, onWire, stopStage, gone>>,
           runs' \in [Workers -> Flags], \A v \in Workers \ {w} : runs'[v] = runs[v],
           runs'[w].running = runs[w].running, runs'[w].finished = runs[w].finished,
           runs[w].allWillsQueued => runs'[w].allWillsQueued,
           \/ Early /\ clients \subseteq gone /\ runs'[w].allWillsQueued = runs[w].allWillsQueued
           \/ ~Early /\ runs'[w].allWillsQueued = runs[w].allWillsQueued
           \/ /\ main = "waitsForWills" /\ clients = ClientsOf(w) /\ ~runs[w].allWillsQueued
              /\ runs'[w].allWillsQueued /\ \A k \in Items(Tail(Ahead(w))) : k.kind # "wills",
           Head(turn[w].batch).kind \in {"wills", "ended"}
    PROVE  StopIInv'
<1> DEFINE job == Head(turn[w].batch)
           q == Tail(Ahead(w))
<1>1. /\ UNCHANGED <<main, saver, saverRuns>>
      /\ turn[w].at = "turn" /\ turn[w].batch # <<>> /\ turn' = [turn EXCEPT ![w].batch = Tail(@)]
    BY DEF PerformJob, saverVars
<1>2. /\ job \in StopJobs /\ JobFits(w, job) /\ Items(Ahead(w)) = {job} \cup Items(q)
      /\ Ahead(w) # <<>> /\ q \in Seq(StopJobs) /\ \A b \in Items(q) : MayFollow(job, b)
      /\ turn' \in [Workers -> Turns]
      /\ \A v \in Workers : /\ turn'[v].at = turn[v].at /\ turn'[v].events = turn[v].events
                            /\ turn'[v].ready = turn[v].ready
                            /\ turn[v].at # "turn" => turn'[v].batch = turn[v].batch
      /\ \A v \in Workers \ {w} : Ahead(v)' = Ahead(v)
      /\ Ahead(w)' = q
    BY <1>1, JobTaken
<1>3. StopShape /\ TurnsEnd /\ WillsRight /\ ClientsFit /\ SaverFits /\ NothingYet
    BY DEF StopIInv
<1>4. /\ hasWill' \subseteq hasWill /\ unsent' \in [Connections -> Seq(StopPackets)]
      /\ \A d \in hasWill : d \notin clients => d \in hasWill'
      /\ \A c \in Connections :
            /\ Items(Story(c)) \subseteq Items(Story(c)')
            /\ Disconnect \in Items(Story(c)') => Disconnect \in Items(Story(c))
            /\ c \in byFd => clients \cap hasWill \subseteq Items(Story(c)')
            /\ Once(Story(c)') /\ hasWill' \cap Items(Story(c)') = {}
            /\ \A D : Preceded(Story(c), D) => Preceded(Story(c)', D)
    BY <1>3, PublishedWills
<1>5. StopShape' /\ TurnsEnd' /\ SaverFits'
    <2>1. StopShape' /\ SaverFits'
        BY <1>1, <1>2, <1>3, <1>4 DEF StopShape, SaverFits, Flags
    <2>2. \A v \in Workers : /\ runs'[v].finished = runs[v].finished
                             /\ runs'[v].running = runs[v].running
        OBVIOUS
    <2> QED
        BY <1>2, <1>3, <2>1, <2>2, TurnsEndStays
<1>6. \A c \in Connections : /\ Told(c)' = Told(c) /\ OnWire(c)' = OnWire(c)
                             /\ Reachable(c)' = Reachable(c)
    <2>1. \A c \in Connections : OnWire(c)' = OnWire(c) /\ Reachable(c)' = Reachable(c)
        BY DEF OnWire, Reachable, Stayed
    <2>2. \A c \in Connections : Told(c)' <=> Told(c)
        BY <1>4 DEF Told
    <2> QED
        BY <2>1, <2>2 DEF Told
<1>7. JobsFit' /\ \A v \in Workers : Before(v)' => Before(v)
    <2>1. Ahead(w)' = Tail(Ahead(w))
        BY <1>2
    <2>2. \/ runs'[w].allWillsQueued = runs[w].allWillsQueued
          \/ \A k \in Items(Tail(Ahead(w))) : k.kind # "wills"
        OBVIOUS
    <2>3. \A v \in Workers \ {w} : runs'[v].allWillsQueued = runs[v].allWillsQueued
        OBVIOUS
    <2>4. \A c \in Connections :
              \/ Disconnect \in Items(Story(c)') => Disconnect \in Items(Story(c))
              \/ Worker[c] = w /\ \A k \in Items(Tail(Ahead(w))) : ~(k.kind = "tell" /\ k.clients = {c})
        BY <1>4
    <2>5. UNCHANGED main /\ gone \subseteq gone' /\ Ahead(w) # <<>>
          /\ \A v \in Workers \ {w} : Ahead(v)' = Ahead(v)
        BY <1>1, <1>2
    <2> QED
        BY <2>1, <2>2, <2>3, <2>4, <2>5, JobDone
<1>8. /\ \A v \in Workers : Before(v) => Before(v)'
      /\ \A v \in Workers : Gathers(v)' = Gathers(v) /\ (Quits(v)' => Quits(v))
      /\ \A k \in Items(Ahead(w)) : k.kind = "tell" => k \in Items(Ahead(w)')
    <2>1. \A v \in Workers \ {w} : Before(v) => Before(v)'
        BY <1>1, <1>2 DEF Before, Early
    <2>2. Before(w) => Before(w)'
        BY <1>1, <1>2 DEF Before, Early
    <2>3. \A v \in Workers : Gathers(v)' = Gathers(v)
        BY <1>2 DEF Gathers
    <2>4. Quits(w)' => Quits(w)
        BY <1>2 DEF Quits
    <2>5. \A v \in Workers \ {w} : Quits(v)' => Quits(v)
        BY <1>2 DEF Quits
    <2>6. \A k \in Items(Ahead(w)) : k.kind = "tell" => k \in Items(Ahead(w)')
        BY <1>2
    <2> QED
        BY <2>1, <2>2, <2>3, <2>4, <2>5, <2>6
<1>9. NothingYet'
    <2>1. \A v \in Workers : runs'[v].running = runs[v].running
        OBVIOUS
    <2> QED
        BY <1>4, <1>7, <1>8, <2>1, NothingYetStays
<1>10. WillsRight'
    <2>1. Stayed' = Stayed /\ Stayed \subseteq Connections /\ \A c \in Connections : Worker[c] \in Workers
        BY WorkerAssumption DEF Stayed
    <2>2. (/\ main \in {"runs", "wills"} => \A v \in Workers : ~runs[v].allWillsQueued
           /\ main \in {"runs", "wills", "waitsForWills"} \/ \A v \in Workers : runs[v].allWillsQueued)'
        BY <1>1, <1>3 DEF WillsRight, Early
    <2>3. (\A e \in Stayed : runs[Worker[e]].allWillsQueued \/ e \in hasWill)'
        <3> SUFFICES ASSUME NEW e \in Stayed
                     PROVE  runs'[Worker[e]].allWillsQueued \/ e \in hasWill'
            BY <2>1
        <3>1. runs[Worker[e]].allWillsQueued \/ e \in hasWill
            BY <1>3 DEF WillsRight
        <3>2. CASE runs[Worker[e]].allWillsQueued
            BY <2>1, <3>2
        <3>3. CASE e \in hasWill /\ e \notin clients
            BY <1>4, <3>3
        <3>4. CASE ~runs[Worker[e]].allWillsQueued /\ e \in clients
            <4>1. Early /\ e \notin gone
                BY <1>3, <2>1, <3>4 DEF WillsRight, Early, Stayed
            <4>2. clients = ClientsOf(w) /\ runs'[w].allWillsQueued
                BY <3>4, <4>1
            <4> QED
                BY <3>4, <4>2 DEF ClientsOf
        <3> QED
            BY <3>1, <3>2, <3>3, <3>4
    <2>4. (\A c \in Connections : Once(Story(c)) /\ hasWill \cap Items(Story(c)) = {})'
        BY <1>4
    <2>5. (\A c, e \in Stayed : runs[Worker[e]].allWillsQueued => e \in Items(Story(c)))'
        <3> SUFFICES ASSUME NEW c \in Stayed, NEW e \in Stayed, runs'[Worker[e]].allWillsQueued
                     PROVE  e \in Items(Story(c)')
            BY <2>1
        <3>1. CASE runs[Worker[e]].allWillsQueued
            BY <1>3, <1>4, <2>1, <3>1 DEF WillsRight
        <3>2. CASE ~runs[Worker[e]].allWillsQueued
            <4>1. Worker[e] = w /\ e \in hasWill
                BY <1>3, <2>1, <3>2 DEF WillsRight
            <4>2. main = "waitsForWills" /\ clients = ClientsOf(w)
                BY <3>2, <4>1
            <4>3. c \in byFd /\ e \in byFd
                BY <1>3, <4>2 DEF NothingYet, Before, Early, Stayed
            <4> QED
                BY <1>4, <2>1, <4>1, <4>2, <4>3 DEF ClientsOf
        <3> QED
            BY <3>1, <3>2
    <2>6. (\A c \in Connections : Reachable(c) => Preceded(Story(c), Stayed))'
        BY <1>3, <1>4, <1>6, <2>1 DEF WillsRight
    <2> QED
        BY <2>2, <2>3, <2>4, <2>5, <2>6 DEF WillsRight
<1>11. ClientsFit'
    <2>1. ASSUME NEW c \in Connections
          PROVE  /\ Before(Worker[c]) => Before(Worker[c])'
                 /\ Job("tell", {c}) \in Items(Ahead(Worker[c])) =>
                        Job("tell", {c}) \in Items(Ahead(Worker[c])')
                 /\ Gathers(Worker[c])' = Gathers(Worker[c])
                 /\ Quits(Worker[c])' => Quits(Worker[c])
                 /\ c \in turn[Worker[c]].ready => c \in turn'[Worker[c]].ready
        <3>1. Worker[c] \in Workers /\ Job("tell", {c}).kind = "tell"
            BY WorkerAssumption DEF Job
        <3>2. CASE Worker[c] = w
            BY <1>2, <1>8, <3>1, <3>2
        <3>3. CASE Worker[c] # w
            BY <1>2, <1>8, <3>1, <3>3
        <3> QED
            BY <3>2, <3>3
    <2> QED
        BY <1>3, <1>6, <2>1, ClientsStay
<1> QED
    BY <1>5, <1>7, <1>9, <1>10, <1>11 DEF StopIInv

LEMMA Performs ==
    ASSUME StopIInv, NEW w \in Workers, PerformJob(w)
    PROVE  StopIInv'
<1> DEFINE job == Head(turn[w].batch)
           q == Tail(Ahead(w))
<1>1. /\ turn[w].at = "turn" /\ turn[w].batch # <<>> /\ turn' = [turn EXCEPT ![w].batch = Tail(@)]
      /\ Perform(w, job) /\ StopShape
    BY DEF PerformJob, StopIInv
<1>2. /\ job \in StopJobs /\ JobFits(w, job) /\ \A b \in Items(q) : MayFollow(job, b)
    BY <1>1, JobTaken
<1>3. runs \in [Workers -> Flags] /\ job.clients \in SUBSET Connections /\ ClientsOf(w) \in SUBSET Connections
    BY <1>1, <1>2 DEF StopShape, Flags, StopJobs, ClientsOf
<1>4. CASE job.kind = "wills" /\ SendAllWills(w)
    <2>1. /\ PublishWills(ClientsOf(w)) /\ runs' = [runs EXCEPT ![w].allWillsQueued = TRUE]
          /\ UNCHANGED <<work, woken, collected, byFd, onWire, stopStage, gone>>
        BY <1>4 DEF SendAllWills
    <2>2. main \notin {"runs", "wills"} /\ ~runs[w].allWillsQueued
        BY <1>2, <1>4 DEF JobFits
    <2>3. main = "waitsForWills"
        BY <2>2 DEF StopIInv, WillsRight
    <2>4. \A k \in Items(q) : k.kind # "wills"
        BY <1>2, <1>4 DEF MayFollow
    <2>5. /\ runs' \in [Workers -> Flags] /\ \A v \in Workers \ {w} : runs'[v] = runs[v]
          /\ runs'[w].running = runs[w].running /\ runs'[w].finished = runs[w].finished
          /\ runs'[w].allWillsQueued
        <3>1. runs[w] \in Flags
            BY <1>3
        <3>2. runs'[w] = [runs[w] EXCEPT !.allWillsQueued = TRUE] /\ \A v \in Workers \ {w} : runs'[v] = runs[v]
            BY <1>3, <2>1
        <3>3. /\ runs'[w] \in Flags /\ runs'[w].allWillsQueued
              /\ runs'[w].finished = runs[w].finished /\ runs'[w].running = runs[w].running
            BY <3>1, <3>2 DEF Flags
        <3>4. runs' \in [Workers -> Flags]
            BY <1>3, <2>1, <3>3
        <3> QED
            BY <3>2, <3>3, <3>4
    <2> QED
        BY <1>3, <1>4, <2>1, <2>2, <2>3, <2>4, <2>5, DoesPublish
<1>5. CASE job.kind = "disconnects" /\ SendAllDisconnects(w)
    BY <1>5, DoesDisconnects
<1>6. CASE job.kind = "tell" /\ \E c \in job.clients : Tell(w, c)
    <2>1. PICK d \in job.clients : Tell(w, d)
        BY <1>6
    <2>2. d \in Connections
        BY <1>3
    <2>3. CASE d \in Mqtt5Clients
        BY <1>6, <2>1, <2>2, <2>3, DoesTell DEF Tell
    <2>4. CASE d \notin Mqtt5Clients
        BY <1>6, <2>1, <2>2, <2>4, DoesTellOld DEF Tell
    <2> QED
        BY <2>3, <2>4
<1>7. CASE job.kind = "collect" /\ Collect(w, job.clients)
    BY <1>7, DoesCollect
<1>8. CASE job.kind = "remove" /\ RemoveQueued(w, job.clients)
    BY <1>8, DoesRemove
<1>9. CASE /\ job.kind = "ended" /\ PublishWills(job.clients)
           /\ UNCHANGED <<work, woken, collected, runs, byFd, onWire, stopStage, gone>>
    <2>1. Early => job.clients \subseteq gone
        BY <1>2, <1>9 DEF JobFits
    <2>2. /\ runs' \in [Workers -> Flags] /\ \A v \in Workers : runs'[v] = runs[v]
        BY <1>3, <1>9
    <2> QED
        BY <1>3, <1>9, <2>1, <2>2, DoesPublish
<1>10. CASE job.kind = "quit" /\ QuitLoop(w)
    BY <1>10, DoesQuit
<1> QED
    BY <1>1, <1>4, <1>5, <1>6, <1>7, <1>8, <1>9, <1>10 DEF Perform

-----------------------------------------------------------------------------
(* The ready clients                                                         *)

\* What a worker does beside its jobs: nothing is sent, and jobs are only added.
LEMMA QuietStep ==
    ASSUME StopIInv, NEW w \in Workers, UNCHANGED <<main, hasWill>>, gone \subseteq gone',
           \A c \in Connections : Story(c)' = Story(c),
           NEW new \in Seq(StopJobs), work'[w] = work[w] \o new,
           \A v \in Workers \ {w} : work'[v] = work[v],
           \A v \in Workers : turn'[v].batch = turn[v].batch,
           \A v \in Workers : runs'[v] = runs[v],
           InPlace(new), \A a \in Items(Ahead(w)), b \in Items(new) : MayFollow(a, b),
           \A k \in Items(new) : JobFits(w, k)' /\ k.kind # "disconnects"
    PROVE  /\ JobsFit' /\ WillsRight' /\ \A v \in Workers : Before(v)' = Before(v)
           /\ \A v \in Workers \ {w} : Ahead(v)' = Ahead(v)
           /\ Items(Ahead(w)') = Items(Ahead(w)) \cup Items(new)
<1>1. Ahead(w)' = Ahead(w) \o new /\ Ahead(w) \in Seq(StopJobs)
    <2> DEFINE batch == turn[w].batch
               queue == work[w]
    <2>1. batch \in Seq(StopJobs) /\ queue \in Seq(StopJobs) /\ Ahead(w) \in Seq(StopJobs)
        BY Sequences DEF StopIInv
    <2>2. Ahead(w) = batch \o queue /\ Ahead(w)' = batch \o (queue \o new)
        BY DEF Ahead
    <2> HIDE DEF batch, queue
    <2> QED
        BY <2>1, <2>2, AddedAtEnd
<1>2. \A v \in Workers \ {w} : Ahead(v)' = Ahead(v)
    BY DEF Ahead
<1>3. JobsFit' /\ Items(Ahead(w)') = Items(Ahead(w)) \cup Items(new)
    <2>1. Ahead(w) = Ahead(w) \/ (Ahead(w) # <<>> /\ Ahead(w) = Tail(Ahead(w)))
        OBVIOUS
    <2>2. UNCHANGED main
        OBVIOUS
    <2>3. \/ runs'[w].allWillsQueued = runs[w].allWillsQueued
          \/ \A k \in Items(Ahead(w)) : k.kind # "wills"
        OBVIOUS
    <2>4. \A v \in Workers \ {w} : runs'[v].allWillsQueued = runs[v].allWillsQueued
        OBVIOUS
    <2>5. \A c \in Connections :
              \/ Disconnect \in Items(Story(c)') => Disconnect \in Items(Story(c))
              \/ Worker[c] = w /\ \A k \in Items(Ahead(w)) : ~(k.kind = "tell" /\ k.clients = {c})
        OBVIOUS
    <2>6. Ahead(w)' = Ahead(w) \o new
        BY <1>1
    <2>7. Ahead(w) \in Seq(StopJobs)
        BY <1>1
    <2>8. \A k \in Items(new) : JobFits(w, k)' /\ k.kind # "disconnects"
        OBVIOUS
    <2>9. \A a \in Items(Ahead(w)), b \in Items(new) : MayFollow(a, b)
        OBVIOUS
    <2> QED
        BY ONLY StopIInv, gone \subseteq gone', InPlace(new), new \in Seq(StopJobs), w \in Workers,
                <1>2, <2>1, <2>2, <2>3, <2>4, <2>5, <2>6, <2>7, <2>8, <2>9, WorkStep, ZenonT(60)
<1>4. \A v \in Workers : Before(v)' = Before(v)
    <2>1. Before(w)' <=> Before(w)
        BY <1>3 DEF Before, Early
    <2> QED
        BY <1>2, <2>1 DEF Before, Early
<1>5. WillsRight'
    BY WillsStay
<1> QED
    BY <1>2, <1>3, <1>4, <1>5

LEMMA Disconnects ==
    ASSUME StopIInv, NEW w \in Workers, DisconnectingAll(w)
    PROVE  StopIInv'
<1> DEFINE next == Job("quit", {})
           new == <<next>>
           woke == collected[w] \cap byFd
<1>1. /\ UNCHANGED <<main, saver, saverRuns, runs, byFd, hasWill, unsent, onWire, stopStage, gone>>
      /\ turn[w].at = "turn" /\ turn[w].batch = <<>> /\ "collect" \in turn[w].events
      /\ collected' = [collected EXCEPT ![w] = {}]
      /\ work' = [work EXCEPT ![w] = Append(@, next)]
      /\ woken' = [woken EXCEPT ![w] = (@ \ {"collect"}) \cup {"tasks"}]
    BY DEF DisconnectingAll, clientVars, saverVars
<1>2. StopShape /\ TurnsEnd /\ NothingYet /\ ClientsFit /\ SaverFits
    BY DEF StopIInv
<1>3. next \in StopJobs /\ next.kind = "quit"
    BY DEF StopJobs, Job
<1> HIDE DEF next
<1>4. new \in Seq(StopJobs) /\ Items(new) = {next} /\ InPlace(new)
    BY <1>3, ItemsOfOne
<1>5. /\ work' \in [Workers -> Seq(StopJobs)] /\ work'[w] = work[w] \o new
      /\ \A v \in Workers \ {w} : work'[v] = work[v]
    <2> DEFINE queue == work[w]
    <2>1. queue \in Seq(StopJobs)
        BY <1>2, Sequences
    <2>2. work' = [work EXCEPT ![w] = Append(queue, next)]
        BY <1>1
    <2> HIDE DEF queue
    <2>3. Append(queue, next) \in Seq(StopJobs) /\ Append(queue, next) = queue \o new
        BY <1>3, <2>1, OneAdded
    <2>4. work' \in [Workers -> Seq(StopJobs)] /\ work'[w] = Append(queue, next)
        BY <1>2, <2>2, <2>3 DEF StopShape
    <2>5. \A v \in Workers \ {w} : work'[v] = work[v]
        BY <1>2, <2>2 DEF StopShape
    <2> QED
        BY <2>3, <2>4, <2>5 DEF queue
<1> HIDE DEF new
<1>6. /\ turn'[w] = [at |-> turn[w].at, batch |-> turn[w].batch, events |-> turn[w].events \ {"collect"},
                     ready |-> turn[w].ready \cup woke]
      /\ turn' = [turn EXCEPT ![w] = turn'[w]]
    BY <1>2 DEF DisconnectingAll, MakeReady, StopShape
<1>7. turn' \in [Workers -> Turns]
    <2>1. turn[w] \in Turns /\ woke \subseteq Connections
        BY <1>2 DEF StopShape
    <2>2. /\ turn[w].at \in {"epoll", "turn", "ended"} /\ turn[w].events \in SUBSET {"tasks", "collect"}
          /\ turn[w].ready \in SUBSET Connections /\ turn[w].batch \in Seq(StopJobs)
        BY <2>1 DEF Turns
    <2> HIDE DEF woke
    <2>3. turn'[w] \in Turns
        BY <1>6, <2>1, <2>2 DEF Turns
    <2> QED
        BY <1>2, <1>6, <2>3 DEF StopShape
<1>8. /\ \A v \in Workers \ {w} : turn'[v] = turn[v] /\ collected'[v] = collected[v] /\ woken'[v] = woken[v]
      /\ \A v \in Workers : turn'[v].at = turn[v].at /\ turn'[v].batch = turn[v].batch
      /\ \A v \in Workers : turn[v].ready \subseteq turn'[v].ready
      /\ turn'[w].ready = turn[w].ready \cup woke
      /\ woken' \in [Workers -> SUBSET {"tasks", "collect"}]
      /\ collected' \in [Workers -> SUBSET Connections]
    <2>1. \A v \in Workers \ {w} : turn'[v] = turn[v] /\ collected'[v] = collected[v] /\ woken'[v] = woken[v]
        BY <1>1, <1>2, <1>6 DEF StopShape
    <2>2. /\ turn'[w].at = turn[w].at /\ turn'[w].batch = turn[w].batch
          /\ turn'[w].ready = turn[w].ready \cup woke
        BY <1>6
    <2>3. /\ woken' \in [Workers -> SUBSET {"tasks", "collect"}]
          /\ collected' \in [Workers -> SUBSET Connections]
        BY <1>1, <1>2 DEF StopShape
    <2> QED
        BY <2>1, <2>2, <2>3
<1>9. ~Gathers(w)' /\ Gathers(w)
    <2>1. turn'[w].events = turn[w].events \ {"collect"} /\ woken'[w] = (woken[w] \ {"collect"}) \cup {"tasks"}
        BY <1>1, <1>2, <1>6 DEF StopShape
    <2> QED
        BY <1>1, <2>1 DEF Gathers
<1>10. ~Before(w)
    BY <1>2, <1>9 DEF NothingYet
<1>11. StopShape' /\ SaverFits'
    BY <1>1, <1>2, <1>5, <1>7, <1>8 DEF StopShape, SaverFits
<1>12. TurnsEnd'
    <2>1. \A v \in Workers \ {w} : turn'[v] = turn[v]
        BY <1>8
    <2>2. turn'[w].at = "turn"
        BY <1>1, <1>8
    <2>3. ~runs[w].finished
        BY <1>1, <1>2 DEF TurnsEnd
    <2> QED
        BY <1>1, <1>2, <2>1, <2>2, <2>3 DEF TurnsEnd
<1>13. \A c \in Connections : /\ Story(c)' = Story(c) /\ Told(c)' = Told(c) /\ OnWire(c)' = OnWire(c)
                              /\ Reachable(c)' = Reachable(c)
    BY <1>1 DEF Story, Told, OnWire, Reachable, Stayed
<1>14. ~Before(w)'
    <2>1. Ahead(w)' = Ahead(w) \o new /\ Items(Ahead(w) \o new) = Items(Ahead(w)) \cup Items(new)
        <3> DEFINE batch == turn[w].batch
                   queue == work[w]
        <3>1. batch \in Seq(StopJobs) /\ queue \in Seq(StopJobs) /\ Ahead(w) \in Seq(StopJobs)
            BY <1>2, Sequences
        <3>2. Ahead(w) = batch \o queue /\ Ahead(w)' = batch \o (queue \o new)
            BY <1>5, <1>8 DEF Ahead
        <3> HIDE DEF batch, queue
        <3>3. batch \o (queue \o new) = (batch \o queue) \o new
            BY <1>4, <3>1, AddedAtEnd
        <3>4. Items(Ahead(w) \o new) = Items(Ahead(w)) \cup Items(new)
            BY <1>4, <3>1, ItemsOfConcat
        <3> QED
            BY <3>2, <3>3, <3>4
    <2> QED
        BY <1>1, <1>3, <1>4, <1>10, <2>1 DEF Before, Early
<1>15. /\ JobsFit' /\ WillsRight' /\ \A v \in Workers : Before(v)' = Before(v)
       /\ \A v \in Workers \ {w} : Ahead(v)' = Ahead(v)
       /\ Items(Ahead(w)') = Items(Ahead(w)) \cup Items(new)
    <2>1. \A a \in Items(Ahead(w)), b \in Items(new) : MayFollow(a, b)
        BY <1>3, <1>4 DEF MayFollow
    <2>2. \A k \in Items(new) : JobFits(w, k)' /\ k.kind # "disconnects"
        BY <1>3, <1>4, <1>14 DEF JobFits, Addressed
    <2>3. /\ UNCHANGED <<main, hasWill>> /\ gone \subseteq gone'
          /\ \A v \in Workers : runs'[v] = runs[v]
          /\ \A v \in Workers : turn'[v].batch = turn[v].batch
          /\ \A c \in Connections : Story(c)' = Story(c)
        BY <1>1, <1>8, <1>13
    <2> QED
        BY <1>4, <1>5, <2>1, <2>2, <2>3, QuietStep
<1>16. \A v \in Workers \ {w} : Gathers(v)' = Gathers(v) /\ Quits(v)' = Quits(v)
    BY <1>1, <1>8, <1>15 DEF Gathers, Quits
<1>17. NothingYet'
    <2>1. \A v \in Workers : Gathers(v)' => Gathers(v)
        BY <1>9, <1>16
    <2> QED
        BY <1>1, <1>13, <1>15, <2>1, NothingYetStays
<1>18. ClientsFit'
    <2>1. ASSUME NEW c \in Connections, Reachable(c)'
          PROVE  /\ Before(Worker[c]) => Before(Worker[c])'
                 /\ Job("tell", {c}) \in Items(Ahead(Worker[c])) =>
                        Job("tell", {c}) \in Items(Ahead(Worker[c])')
                 /\ Gathers(Worker[c])' =>
                        Gathers(Worker[c]) /\ collected'[Worker[c]] = collected[Worker[c]]
                 /\ Quits(Worker[c])' =>
                        \/ Quits(Worker[c])
                        \/ Told(c)' /\ (OnWire(c)' \/ c \in turn'[Worker[c]].ready)
                 /\ c \in turn[Worker[c]].ready => c \in turn'[Worker[c]].ready
        <3>1. Worker[c] \in Workers
            BY WorkerAssumption
        <3>2. CASE Worker[c] = w
            <4>1. ClientFits(c)
                BY <1>2, <1>13, <2>1 DEF ClientsFit
            <4>2. c \in collected[w] /\ Told(c) /\ (c \in byFd \/ OnWire(c))
                BY <1>9, <3>2, <4>1 DEF ClientFits
            <4>3. Told(c)' /\ (OnWire(c)' \/ c \in turn'[w].ready)
                BY <1>8, <1>13, <4>2
            <4> QED
                BY <1>8, <1>9, <1>15, <3>2, <4>3
        <3>3. CASE Worker[c] # w
            BY <1>8, <1>15, <1>16, <3>1, <3>3
        <3> QED
            BY <3>2, <3>3
    <2> QED
        BY <1>1, <1>2, <1>13, <2>1, ClientsStay
<1> QED
    BY <1>11, <1>12, <1>15, <1>17, <1>18 DEF StopIInv

\* The job that ends a client can always be added.
LEMMA EndQueued ==
    ASSUME StopIInv, NEW w \in Workers, NEW d \in Connections, UNCHANGED <<main, hasWill, runs>>,
           gone \subseteq gone', QueueOwn(w, <<Job("ended", {d})>>), Early => d \in gone',
           \A c \in Connections : Story(c)' = Story(c),
           \A v \in Workers : turn'[v].batch = turn[v].batch
    PROVE  /\ JobsFit' /\ WillsRight' /\ \A v \in Workers : Before(v)' = Before(v)
           /\ work' \in [Workers -> Seq(StopJobs)] /\ woken' \in [Workers -> SUBSET {"tasks", "collect"}]
           /\ \A v \in Workers : "collect" \in woken'[v] => "collect" \in woken[v]
           /\ \A v \in Workers : Items(Ahead(v)) \subseteq Items(Ahead(v)')
           /\ \A v \in Workers : \A k \in Items(Ahead(v)') : k.kind = "quit" => k \in Items(Ahead(v))
<1> DEFINE next == Job("ended", {d})
           new == <<next>>
<1>1. next \in StopJobs /\ next.kind = "ended" /\ next.clients = {d}
    BY DEF StopJobs, Job
<1>2. QueueOwn(w, new)
    OBVIOUS
<1> HIDE DEF next
<1>3. new \in Seq(StopJobs) /\ Items(new) = {next} /\ InPlace(new)
    BY <1>1, ItemsOfOne
<1> HIDE DEF new
<1>4. /\ work' \in [Workers -> Seq(StopJobs)] /\ work'[w] = work[w] \o new
      /\ \A v \in Workers \ {w} : work'[v] = work[v]
      /\ woken' \in [Workers -> SUBSET {"tasks", "collect"}]
      /\ \A v \in Workers : "collect" \in woken'[v] => "collect" \in woken[v]
    BY <1>2, <1>3, OwnQueued DEF StopIInv
<1>5. \A a \in Items(Ahead(w)), b \in Items(new) : MayFollow(a, b)
    BY <1>1, <1>3 DEF MayFollow
<1>6. \A k \in Items(new) : JobFits(w, k)' /\ k.kind # "disconnects"
    BY <1>1, <1>3 DEF JobFits, Addressed, Early
<1>7. /\ UNCHANGED <<main, hasWill>> /\ \A v \in Workers : runs'[v] = runs[v]
    OBVIOUS
<1>8. /\ JobsFit' /\ WillsRight' /\ \A v \in Workers : Before(v)' = Before(v)
      /\ \A v \in Workers \ {w} : Ahead(v)' = Ahead(v)
      /\ Items(Ahead(w)') = Items(Ahead(w)) \cup Items(new)
    BY <1>3, <1>4, <1>5, <1>6, <1>7, QuietStep
<1>9. Items(Ahead(w)) \subseteq Items(Ahead(w)')
      /\ \A k \in Items(Ahead(w)') : k.kind = "quit" => k \in Items(Ahead(w))
    BY <1>1, <1>3, <1>8
<1> QED
    BY <1>4, <1>8, <1>9

LEMMA Leaves ==
    ASSUME StopIInv, NEW d \in Connections, Leave(d)
    PROVE  StopIInv'
<1> DEFINE w == Worker[d]
<1>1. /\ UNCHANGED <<main, saver, saverRuns, collected, turn, runs, hasWill, unsent, onWire, stopStage>>
      /\ byFd' = byFd \ {d} /\ gone' = gone \cup {d} /\ QueueOwn(w, <<Job("ended", {d})>>) /\ w \in Workers
    BY WorkerAssumption DEF Leave, saverVars
<1>2. StopShape /\ TurnsEnd /\ NothingYet /\ ClientsFit /\ SaverFits
    BY DEF StopIInv
<1>3. \A c \in Connections : /\ Story(c)' = Story(c) /\ Told(c)' = Told(c) /\ OnWire(c)' = OnWire(c)
                             /\ Reachable(c)' => c # d
    BY <1>1 DEF Story, Told, OnWire, Reachable, Stayed
<1> HIDE DEF w
<1>4. /\ JobsFit' /\ WillsRight' /\ \A v \in Workers : Before(v)' = Before(v)
      /\ work' \in [Workers -> Seq(StopJobs)] /\ woken' \in [Workers -> SUBSET {"tasks", "collect"}]
      /\ \A v \in Workers : "collect" \in woken'[v] => "collect" \in woken[v]
      /\ \A v \in Workers : Items(Ahead(v)) \subseteq Items(Ahead(v)')
      /\ \A v \in Workers : \A k \in Items(Ahead(v)') : k.kind = "quit" => k \in Items(Ahead(v))
    BY <1>1, <1>3, EndQueued
<1>5. StopShape' /\ TurnsEnd' /\ SaverFits'
    BY <1>1, <1>2, <1>4 DEF StopShape, TurnsEnd, SaverFits
<1>6. \A v \in Workers : (Gathers(v)' => Gathers(v)) /\ (Quits(v)' => Quits(v))
    BY <1>1, <1>4 DEF Gathers, Quits
<1>7. NothingYet'
    BY <1>1, <1>3, <1>4, <1>6, NothingYetStays
<1>8. ClientsFit'
    BY <1>1, <1>2, <1>3, <1>4, <1>6, WorkerAssumption, ClientsStay
<1> QED
    BY <1>4, <1>5, <1>7, <1>8 DEF StopIInv

LEMMA HandlesClient ==
    ASSUME StopIInv, NEW w \in Workers, NEW d \in Connections, HandleClient(w, d)
    PROVE  StopIInv'
<1> DEFINE taken == d \notin StuckClients
           ends == stopStage[d] = "Now" \/ (stopStage[d] = "SendPendingAppData" /\ taken)
<1>1. /\ UNCHANGED <<main, saver, saverRuns, collected, runs, hasWill, gone>>
      /\ turn[w].at = "turn" /\ turn[w].events = {} /\ turn[w].batch = <<>>
      /\ turn' = [turn EXCEPT ![w].ready = @ \ {d}]
      /\ taken => onWire' = [onWire EXCEPT ![d] = @ \o unsent[d]] /\ unsent' = [unsent EXCEPT ![d] = <<>>]
      /\ ~taken => UNCHANGED <<onWire, unsent>>
      /\ stopStage' = IF ends THEN [stopStage EXCEPT ![d] = "Now"] ELSE stopStage
      /\ byFd' = IF ends THEN byFd \ {d} ELSE byFd
      /\ (ends /\ d \in byFd) => QueueOwn(w, <<Job("ended", {d})>>)
      /\ ~(ends /\ d \in byFd) => UNCHANGED <<work, woken>>
    BY DEF HandleClient, ClientsAreNext, saverVars
<1>2. StopShape /\ TurnsEnd /\ NothingYet /\ ClientsFit /\ SaverFits
    BY DEF StopIInv
<1>3. /\ onWire' \in [Connections -> Seq(StopPackets)] /\ unsent' \in [Connections -> Seq(StopPackets)]
      /\ \A c \in Connections : /\ Story(c)' = Story(c) /\ (OnWire(c) => OnWire(c)')
      /\ taken => onWire'[d] = Story(d)
    <2>1. CASE taken
        <3> DEFINE wire == onWire[d]
                   buffer == unsent[d]
        <3>1. wire \in Seq(StopPackets) /\ buffer \in Seq(StopPackets)
            BY <1>2, Sequences
        <3>2. /\ onWire' = [onWire EXCEPT ![d] = wire \o buffer] /\ unsent' = [unsent EXCEPT ![d] = <<>>]
              /\ Story(d) = wire \o buffer
            BY <1>1, <2>1 DEF Story
        <3>3. OnWire(d) <=> Disconnect \in Items(wire)
            BY DEF OnWire
        <3> HIDE DEF wire, buffer
        <3>4. /\ wire \o buffer \in Seq(StopPackets)
              /\ Items(wire \o buffer) = Items(wire) \cup Items(buffer)
            BY <3>1, ItemsOfConcat
        <3>5. (wire \o buffer) \o <<>> = wire \o buffer
            BY <3>4, ConcatEmptySeq
        <3>6. /\ onWire' \in [Connections -> Seq(StopPackets)] /\ onWire'[d] = wire \o buffer
              /\ unsent' \in [Connections -> Seq(StopPackets)] /\ unsent'[d] = <<>>
              /\ \A c \in Connections \ {d} : onWire'[c] = onWire[c] /\ unsent'[c] = unsent[c]
            BY <1>2, <3>2, <3>4, EmptySeq DEF StopShape
        <3>7. Story(d)' = Story(d) /\ (OnWire(d) => OnWire(d)')
            BY <3>2, <3>3, <3>4, <3>5, <3>6 DEF Story, OnWire
        <3>8. \A c \in Connections \ {d} : Story(c)' = Story(c) /\ OnWire(c)' = OnWire(c)
            BY <3>6 DEF Story, OnWire
        <3> QED
            BY <3>2, <3>6, <3>7, <3>8
    <2>2. CASE ~taken
        BY <1>1, <1>2, <2>2 DEF StopShape, Story, OnWire
    <2> QED
        BY <2>1, <2>2
<1>4. \A c \in Connections : Told(c)' = Told(c) /\ Reachable(c)' = Reachable(c)
    BY <1>1, <1>3 DEF Told, Reachable, Stayed
<1>5. /\ turn' \in [Workers -> Turns]
      /\ \A v \in Workers : /\ turn'[v].at = turn[v].at /\ turn'[v].batch = turn[v].batch
                            /\ turn'[v].events = turn[v].events /\ turn'[v].ready \subseteq turn[v].ready
                            /\ \A c \in turn[v].ready : c # d => c \in turn'[v].ready
    <2>1. turn[w] \in Turns
        BY <1>2 DEF StopShape
    <2>2. turn'[w] = [turn[w] EXCEPT !.ready = @ \ {d}] /\ \A v \in Workers \ {w} : turn'[v] = turn[v]
        BY <1>1, <1>2 DEF StopShape
    <2>3. /\ turn'[w].at = turn[w].at /\ turn'[w].batch = turn[w].batch
          /\ turn'[w].events = turn[w].events /\ turn'[w].ready = turn[w].ready \ {d}
        BY <2>1, <2>2 DEF Turns
    <2>4. turn'[w] \in Turns
        <3>1. /\ turn[w].at \in {"epoll", "turn", "ended"} /\ turn[w].events \in SUBSET {"tasks", "collect"}
              /\ turn[w].ready \in SUBSET Connections /\ turn[w].batch \in Seq(StopJobs)
            BY <2>1 DEF Turns
        <3>2. turn'[w] = [at |-> turn[w].at, batch |-> turn[w].batch, events |-> turn[w].events,
                          ready |-> turn[w].ready \ {d}]
            BY <2>1, <2>2 DEF Turns
        <3> QED
            BY <3>1, <3>2 DEF Turns
    <2>5. turn' \in [Workers -> Turns]
        BY <1>1, <1>2, <2>4 DEF StopShape
    <2> QED
        BY <2>2, <2>3, <2>5
<1>6. ends => ~Early /\ ~Before(Worker[d])
    <2>1. ends => stopStage[d] # "NotInitiated"
        OBVIOUS
    <2> QED
        BY <1>2, <2>1 DEF NothingYet, Before
<1> HIDE DEF ends, taken
<1>7. /\ JobsFit' /\ WillsRight' /\ \A v \in Workers : Before(v)' = Before(v)
      /\ work' \in [Workers -> Seq(StopJobs)] /\ woken' \in [Workers -> SUBSET {"tasks", "collect"}]
      /\ \A v \in Workers : "collect" \in woken'[v] => "collect" \in woken[v]
      /\ \A v \in Workers : Items(Ahead(v)) \subseteq Items(Ahead(v)')
      /\ \A v \in Workers : \A k \in Items(Ahead(v)') : k.kind = "quit" => k \in Items(Ahead(v))
    <2>1. CASE ends /\ d \in byFd
        BY <1>1, <1>3, <1>5, <1>6, <2>1, EndQueued
    <2>2. CASE ~(ends /\ d \in byFd)
        <3>1. /\ \A v \in Workers : Ahead(v)' = Ahead(v) /\ GoesOn
              /\ work' = work /\ woken' = woken
            BY <1>1, <1>5, <2>2 DEF Ahead, GoesOn, Early
        <3>2. JobsFit'
            BY <1>1, <1>3, <3>1, SameWork
        <3>3. WillsRight'
            BY <1>1, <1>3, WillsStay
        <3>4. \A v \in Workers : Before(v)' = Before(v)
            BY <1>1, <3>1 DEF Before, Early
        <3> QED
            BY <1>2, <3>1, <3>2, <3>3, <3>4 DEF StopShape
    <2> QED
        BY <2>1, <2>2
<1>8. /\ byFd' \subseteq Connections /\ \A c \in byFd : c # d => c \in byFd'
      /\ stopStage' \in [Connections -> {"NotInitiated", "SendPendingAppData", "Now"}]
      /\ \A c \in Connections : c # d => stopStage'[c] = stopStage[c]
      /\ ~ends => stopStage' = stopStage /\ byFd' = byFd
    BY <1>1, <1>2 DEF StopShape
<1>9. StopShape' /\ SaverFits'
    BY <1>1, <1>2, <1>3, <1>5, <1>7, <1>8 DEF StopShape, SaverFits
<1>10. TurnsEnd'
    BY <1>1, <1>2, <1>5 DEF TurnsEnd
<1>11. \A v \in Workers : (Gathers(v)' => Gathers(v)) /\ (Quits(v)' => Quits(v))
    BY <1>1, <1>5, <1>7 DEF Gathers, Quits
<1>12. NothingYet'
    <2>1. \A c \in Connections : Before(Worker[c])' => stopStage'[c] = stopStage[c] /\ (c \in byFd => c \in byFd')
        BY <1>6, <1>7, <1>8, WorkerAssumption
    <2> QED
        BY <1>1, <1>3, <1>7, <1>11, <2>1, NothingYetStays
<1>13. ClientsFit'
    <2>1. Reachable(d) => taken /\ (Told(d) => OnWire(d)')
        BY <1>3 DEF Reachable, taken, Told, OnWire
    <2>2. Reachable(d) /\ ends => Told(d) /\ OnWire(d)'
        BY <1>2, <2>1 DEF ClientsFit, ClientFits, ends
    <2>3. ASSUME NEW c \in Connections, Reachable(c)'
          PROVE  /\ stopStage'[c] = stopStage[c] \/ Told(c)'
                 /\ c \in byFd => c \in byFd' \/ OnWire(c)'
                 /\ Told(c) /\ c \in turn[Worker[c]].ready => OnWire(c)' \/ c \in turn'[Worker[c]].ready
        <3>1. Worker[c] \in Workers
            BY WorkerAssumption
        <3>2. CASE c = d
            BY <1>4, <1>8, <2>1, <2>2, <2>3, <3>2
        <3>3. CASE c # d
            BY <1>5, <1>8, <3>1, <3>3
        <3> QED
            BY <3>2, <3>3
    <2>4. \A c \in Connections : /\ Worker[c] \in Workers
                                 /\ Before(Worker[c]) => Before(Worker[c])'
                                 /\ Job("tell", {c}) \in Items(Ahead(Worker[c])) =>
                                        Job("tell", {c}) \in Items(Ahead(Worker[c])')
                                 /\ Gathers(Worker[c])' => Gathers(Worker[c])
                                 /\ Quits(Worker[c])' => Quits(Worker[c])
        BY <1>7, <1>11, WorkerAssumption
    <2> QED
        BY <1>1, <1>2, <1>3, <1>4, <2>3, <2>4, ClientsStay
<1> QED
    BY <1>7, <1>9, <1>10, <1>12, <1>13 DEF StopIInv

-----------------------------------------------------------------------------
(* The stop as a whole                                                       *)

LEMMA StopStarts ==
    ASSUME StopInit
    PROVE  StopIInv
<1>1. \A w \in Workers : /\ turn[w] = IdleTurn /\ work[w] = <<>> /\ woken[w] = {} /\ collected[w] = {}
                         /\ runs[w] = [running |-> TRUE, allWillsQueued |-> FALSE, finished |-> FALSE]
    BY DEF StopInit
<1>2. StopShape
    <2>1. IdleTurn \in Turns /\ <<>> \in Seq(StopJobs) /\ <<>> \in Seq(StopPackets)
        BY EmptySeq DEF IdleTurn, Turns
    <2> QED
        BY <2>1 DEF StopInit, StopShape
<1>3. TurnsEnd
    BY <1>1 DEF TurnsEnd, IdleTurn
<1>4. /\ \A w \in Workers : Ahead(w) = <<>>
      /\ \A c \in Connections : Story(c) = <<>> /\ stopStage[c] = "NotInitiated"
      /\ main = "runs" /\ byFd = Connections /\ hasWill = Connections /\ gone = {}
    <2>1. <<>> \o <<>> = <<>>
        BY EmptySeq, ConcatEmptySeq
    <2>2. \A w \in Workers : turn[w].batch = <<>>
        BY <1>1 DEF IdleTurn
    <2>3. \A w \in Workers : Ahead(w) = <<>>
        BY <1>1, <2>1, <2>2 DEF Ahead
    <2>4. \A c \in Connections : Story(c) = <<>>
        BY <2>1 DEF Story, StopInit
    <2> QED
        BY <2>3, <2>4 DEF StopInit
<1>5. JobsFit
    BY <1>4, ItemsOfOne DEF JobsFit
<1>6. NothingYet
    BY <1>1, <1>4, ItemsOfOne DEF NothingYet, Gathers, IdleTurn
<1>7. WillsRight
    BY <1>1, <1>4, ItemsOfOne, WorkerAssumption DEF WillsRight, Preceded, Stayed
<1>8. ClientsFit
    BY <1>1, <1>4, ItemsOfOne, WorkerAssumption
        DEF ClientsFit, ClientFits, Before, Early, Gathers, Quits, IdleTurn
<1>9. SaverFits
    BY <1>4 DEF SaverFits
<1> QED
    BY <1>2, <1>3, <1>5, <1>6, <1>7, <1>8, <1>9 DEF StopIInv

LEMMA StopGoesOn ==
    ASSUME StopIInv, "wills" \notin WaitsExpire, [StopNext]_stopVars
    PROVE  StopIInv'
<1>1. CASE StopListening \/ MainStep \/ SaverStarts \/ SaverStep
    BY <1>1, MainSteps
<1>2. ASSUME NEW w \in Workers, WorkerStep(w)
      PROVE  StopIInv'
    BY <1>2, TurnSteps, Performs, Disconnects, HandlesClient DEF WorkerStep
<1>3. ASSUME NEW c \in Connections, Leave(c)
      PROVE  StopIInv'
    BY <1>3, Leaves
<1>4. CASE UNCHANGED stopVars
    <2>1. UNCHANGED <<main, saver, saverRuns, work, woken, collected, turn, runs, clientVars>>
        BY <1>4 DEF stopVars, clientVars
    <2> QED
        BY <2>1, MainMoves DEF StopIInv, StopShape, SaverFits, Early, WillsRight
<1> QED
    BY <1>1, <1>2, <1>3, <1>4 DEF StopNext

\* What comes once is counted once.
LEMMA CountedOnce ==
    ASSUME NEW S, NEW s \in Seq(S), Once(s), NEW p
    PROVE  CountOf(p, s) <= 1 /\ (CountOf(p, s) = 1 <=> p \in Items(s))
<1> DEFINE D == {i \in DOMAIN s : s[i] = p}
<1>1. DOMAIN s = 1..Len(s) /\ CountOf(p, s) = Cardinality(D)
    BY LenProperties DEF CountOf
<1>2. CASE p \in Items(s)
    <2>1. PICK i \in 1..Len(s) : s[i] = p
        BY <1>2 DEF Items
    <2>2. D = {i}
        BY <1>1, <2>1 DEF Once
    <2>3. Cardinality(D) = 1
        BY <2>2, FS_Singleton
    <2> QED
        BY <1>1, <1>2, <2>3
<1>3. CASE p \notin Items(s)
    <2>1. D = {}
        BY <1>1, <1>3 DEF Items
    <2>2. Cardinality(D) = 0
        BY <2>1, FS_EmptySet
    <2> QED
        BY <1>1, <1>3, <2>2
<1> QED
    BY <1>2, <1>3

LEMMA StopIsOrdered ==
    ASSUME StopIInv
    PROVE  StopInOrder
<1>1. StopShape /\ TurnsEnd /\ WillsRight /\ ClientsFit /\ SaverFits
    BY DEF StopIInv
<1>2. ASSUME NEW c \in Connections
      PROVE  /\ onWire[c] \in Seq(StopPackets) /\ Once(onWire[c])
             /\ unsent[c] \o onWire[c] \in Seq(StopPackets) /\ Once(unsent[c] \o onWire[c])
             /\ \A i \in 1..Len(onWire[c]) : onWire[c][i] = Story(c)[i] /\ i \in 1..Len(Story(c))
             /\ Len(onWire[c]) \in Nat
    <2> DEFINE wire == onWire[c]
               buffer == unsent[c]
    <2>1. wire \in Seq(StopPackets) /\ buffer \in Seq(StopPackets) /\ Story(c) = wire \o buffer
        BY <1>1, Sequences DEF Story
    <2>2. Once(Story(c))
        BY <1>1 DEF WillsRight
    <2> HIDE DEF wire, buffer
    <2>3. /\ Len(wire \o buffer) = Len(wire) + Len(buffer) /\ Len(wire) \in Nat /\ Len(buffer) \in Nat
          /\ \A i \in 1..(Len(wire) + Len(buffer)) :
                (wire \o buffer)[i] = IF i <= Len(wire) THEN wire[i] ELSE buffer[i - Len(wire)]
        BY <2>1, ConcatProperties, LenProperties
    <2>4. /\ \A i \in 1..Len(wire) : i \in 1..Len(wire \o buffer) /\ (wire \o buffer)[i] = wire[i]
          /\ \A i \in 1..Len(buffer) : /\ i + Len(wire) \in 1..Len(wire \o buffer)
                                       /\ ~(i + Len(wire) <= Len(wire))
                                       /\ (i + Len(wire)) - Len(wire) = i
        BY <2>3
    <2>5. \A i \in 1..Len(buffer) : (wire \o buffer)[i + Len(wire)] = buffer[i]
        BY <2>3, <2>4
    <2>6. Once(wire)
        BY <2>1, <2>2, <2>4 DEF Once
    <2>7. Once(buffer)
        <3>1. ASSUME NEW i \in 1..Len(buffer), NEW j \in 1..Len(buffer), buffer[i] = buffer[j]
              PROVE  i = j
            <4>1. (wire \o buffer)[i + Len(wire)] = (wire \o buffer)[j + Len(wire)]
                BY <2>5, <3>1
            <4>2. i + Len(wire) \in 1..Len(wire \o buffer) /\ j + Len(wire) \in 1..Len(wire \o buffer)
                BY <2>4
            <4>3. i + Len(wire) = j + Len(wire)
                BY <2>1, <2>2, <4>1, <4>2 DEF Once
            <4> QED
                BY <2>3, <4>3
        <3> QED
            BY <3>1 DEF Once
    <2>8. Items(buffer) \cap Items(wire) = {}
        <3>1. ASSUME NEW i \in 1..Len(wire), NEW j \in 1..Len(buffer), wire[i] = buffer[j]
              PROVE  FALSE
            <4>1. i = j + Len(wire)
                BY <2>1, <2>2, <2>4, <2>5, <3>1 DEF Once
            <4> QED
                BY <2>3, <2>4, <4>1
        <3> QED
            BY <3>1 DEF Items
    <2>9. buffer \o wire \in Seq(StopPackets) /\ Once(buffer \o wire)
        BY <2>1, <2>6, <2>7, <2>8, ItemsOfConcat, OnceConcat
    <2> QED
        BY <2>1, <2>3, <2>4, <2>6, <2>9 DEF wire, buffer
<1>3. \A c \in Connections : CountOf(Disconnect, onWire[c]) = 1 <=> OnWire(c)
    BY <1>2, CountedOnce DEF OnWire
<1>4. ToldBeforeStop
    <2> SUFFICES ASSUME NEW c \in (Stayed \cap Mqtt5Clients) \ StuckClients, runs[Worker[c]].finished
                 PROVE  OnWire(c)
        BY <1>3 DEF ToldBeforeStop, Stayed
    <2>1. c \in Connections /\ Reachable(c) /\ Worker[c] \in Workers
        BY WorkerAssumption DEF Reachable, Stayed
    <2>2. turn[Worker[c]].ready = {} /\ Quits(Worker[c])
        BY <1>1, <2>1 DEF TurnsEnd, Quits
    <2> QED
        BY <1>1, <2>1, <2>2 DEF ClientsFit, ClientFits
<1>5. WillsComeFirst
    <2> SUFFICES ASSUME NEW c \in (Stayed \cap Mqtt5Clients) \ StuckClients, OnWire(c), NEW d \in Stayed
                 PROVE  \E i, j \in DOMAIN onWire[c] :
                            i < j /\ onWire[c][i] = d /\ onWire[c][j] = Disconnect
        BY <1>3 DEF WillsComeFirst, Stayed
    <2>1. c \in Connections /\ Reachable(c)
        BY DEF Reachable, Stayed
    <2>2. PICK j \in 1..Len(onWire[c]) : onWire[c][j] = Disconnect
        BY DEF OnWire, Items
    <2>3. Preceded(Story(c), Stayed) /\ j \in 1..Len(Story(c)) /\ Story(c)[j] = Disconnect
        BY <1>1, <1>2, <2>1, <2>2 DEF WillsRight
    <2>4. PICK i \in 1..(j - 1) : Story(c)[i] = d
        BY <2>3 DEF Preceded
    <2>5. i \in 1..Len(onWire[c]) /\ i < j
        BY <1>2, <2>1, <2>2, <2>4
    <2>6. DOMAIN onWire[c] = 1..Len(onWire[c])
        BY <1>2, <2>1, LenProperties
    <2> QED
        BY <1>2, <2>1, <2>2, <2>4, <2>5, <2>6
<1>6. WillsOnce
    BY <1>2, CountedOnce DEF WillsOnce
<1>7. SavesApart
    BY <1>1 DEF SaverFits, SavesApart
<1> QED
    BY <1>4, <1>5, <1>6, <1>7 DEF StopInOrder

\* The broker stops in order, with any number of threads and clients: who can be told is told
\* before its thread ends, after all wills, which come once, and one thread saves.  The wait
\* for the wills must not expire, the other waits may (mainapp.cpp:912-990).
THEOREM StopStaysInOrder ==
    ASSUME "wills" \notin WaitsExpire
    PROVE  StopSpec => [](StopTypeOK /\ StopInOrder)
<1>1. StopInit => StopIInv
    BY StopStarts
<1>2. StopIInv /\ [StopNext]_stopVars => StopIInv'
    BY StopGoesOn
<1>3. StopIInv => StopTypeOK /\ StopInOrder
    BY StopIsOrdered, ShapeIsType DEF StopIInv
<1> QED
    BY <1>1, <1>2, <1>3, PTL DEF StopSpec

=============================================================================
