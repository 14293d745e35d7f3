----------------------------- MODULE StateFile ------------------------------
(* One state file: how it is saved, and how it is loaded after a stop, a crash *)
(* or a power cut (persistencefile.cpp; persistencefunctions.cpp:22-62;        *)
(* sessionsandsubscriptionsdb.cpp; retainedmessagesdb.cpp).  A save writes to  *)
(* a temporary file of its own, hashes it, syncs it, renames it to the target  *)
(* and syncs the directory.  A load verifies the hash, and ages what it finds  *)
(* by the time that has passed since the save.                                *)
EXTENDS Integers, FiniteSetsExt

CONSTANTS
    MaxSaves,       \* bound on the saves
    Rows,           \* rows in a complete file
    FailingSteps,   \* steps of a save that may fail
    MaxDamage,      \* bound on the files the disk damages
    Clock,          \* what the wall clock may say
    Word,           \* 2^32: 64 bit numbers are read as two words
    Sessions        \* [expiry, delay, queuedAge]: the session that is saved

ASSUME FileBoundsAssumption == {MaxSaves, Rows, MaxDamage} \subseteq Nat
ASSUME FailingStepsAssumption == FailingSteps \subseteq {"open", "write", "flush", "rename"}
ASSUME ClockAssumption == Clock \subseteq Nat
ASSUME WordAssumption == Word \in Nat /\ Word > 0 /\ Word % 2 = 0
ASSUME SessionsAssumption == Sessions \subseteq [expiry : Nat, delay : Nat, queuedAge : Nat]

VARIABLES
    save,       \* [at, rows]: where the save is, and the rows it has written
    started,    \* how many saves were started: the number of the newest
    file,       \* number -> the file this save wrote
    target,     \* the file the name stands for, 0 for none
    durable,    \* the same, as it is on disk
    finished,   \* the newest save that was finished
    quits,      \* is the broker quitting?
    broker,     \* "runs" or "off"
    loaded,     \* what the last start loaded
    damages     \* how many files were damaged

fileVars == <<save, started, file, target, durable, finished, quits, broker, loaded, damages>>

-----------------------------------------------------------------------------
Saves == 1..MaxSaves
NoHash == -1
NoSave == [at |-> "idle", rows |-> 0]
NothingLoaded == [number |-> 0, rows |-> 0, elapsed |-> 0, expiry |-> 0, delay |-> 0]

SaveStates ==
    [at : {"idle", "opens", "writes", "hashes", "flushes", "renames", "syncs"}, rows : 0..Rows]
Files ==
    [rows : 0..Rows, hash : {NoHash} \cup 0..Rows, synced : BOOLEAN, savedAt : {0} \cup Clock,
     session : Sessions]

FileTypeOK ==
    /\ save \in SaveStates
    /\ started \in 0..MaxSaves /\ finished \in 0..MaxSaves
    /\ file \in [Saves -> Files]
    /\ target \in 0..MaxSaves /\ durable \in 0..MaxSaves
    /\ quits \in BOOLEAN /\ broker \in {"runs", "off"}
    /\ loaded.number \in 0..MaxSaves
    /\ damages \in 0..MaxDamage

FileInit ==
    /\ save = NoSave /\ started = 0
    /\ \E s \in Sessions :
          file = [n \in Saves |-> [rows |-> 0, hash |-> NoHash, synced |-> FALSE, savedAt |-> 0,
                                   session |-> s]]
    /\ target = 0 /\ durable = 0 /\ finished = 0
    /\ quits = FALSE /\ broker = "runs"
    /\ loaded = NothingLoaded /\ damages = 0

othersOfSave == <<quits, broker, loaded, damages>>

-----------------------------------------------------------------------------
(* Saving, by one thread at a time.                                           *)
MayFail(step) == step \in FailingSteps /\ save' = NoSave

StartSave ==
    /\ broker = "runs" /\ save.at = "idle" /\ started < MaxSaves
    /\ started' = started + 1
    /\ save' = [at |-> "opens", rows |-> 0]
    /\ UNCHANGED <<file, target, durable, finished, othersOfSave>>

\* openWrite, and the time stamp.
OpenWrite ==
    /\ save.at = "opens"
    /\ \/ MayFail("open") /\ UNCHANGED file
       \/ /\ save' = [save EXCEPT !.at = "writes"]
          /\ \E now \in Clock, s \in Sessions :
                file' = [file EXCEPT ![started].savedAt = now, ![started].session = s]
    /\ UNCHANGED <<started, target, durable, finished, othersOfSave>>

\* writeCheck; when it throws, the destructor closes the file all the same.
WriteRow ==
    /\ save.at = "writes"
    /\ IF save.rows < Rows
       THEN /\ file' = [file EXCEPT ![started].rows = save.rows + 1]
            /\ save' = [save EXCEPT !.rows = @ + 1]
       ELSE save' = [save EXCEPT !.at = "hashes"] /\ UNCHANGED file
    /\ UNCHANGED <<started, target, durable, finished, othersOfSave>>

WriteFails ==
    /\ save.at = "writes" /\ "write" \in FailingSteps
    /\ save' = [save EXCEPT !.at = "hashes"]
    /\ UNCHANGED <<started, file, target, durable, finished, othersOfSave>>

\* dontSaveTmpFile, by a background save.
Discard ==
    /\ save.at = "writes" /\ quits
    /\ save' = NoSave
    /\ UNCHANGED <<started, file, target, durable, finished, othersOfSave>>

hashFile ==
    /\ save.at = "hashes"
    /\ file' = [file EXCEPT ![started].hash = file[started].rows]
    /\ save' = [save EXCEPT !.at = "flushes"]
    /\ UNCHANGED <<started, target, durable, finished, othersOfSave>>

\* Mutant: the data is not synced before the rename.
FlushOnly ==
    /\ save.at = "flushes"
    /\ \/ MayFail("flush")
       \/ save' = [save EXCEPT !.at = "renames"]
    /\ UNCHANGED <<file, started, target, durable, finished, othersOfSave>>

\* fflush and fsync of the file.
FlushAndSync ==
    /\ save.at = "flushes"
    /\ \/ MayFail("flush") /\ UNCHANGED file
       \/ /\ save' = [save EXCEPT !.at = "renames"]
          /\ file' = [file EXCEPT ![started].synced = TRUE]
    /\ UNCHANGED <<started, target, durable, finished, othersOfSave>>

Rename ==
    /\ save.at = "renames"
    /\ \/ MayFail("rename") /\ UNCHANGED target
       \/ save' = [save EXCEPT !.at = "syncs"] /\ target' = started
    /\ UNCHANGED <<started, file, durable, finished, othersOfSave>>

\* fsync of the directory.
SyncDirectory ==
    /\ save.at = "syncs"
    /\ durable' = target
    /\ finished' = started /\ save' = NoSave
    /\ UNCHANGED <<started, file, target, othersOfSave>>

QuitBroker ==
    /\ broker = "runs" /\ ~quits
    /\ quits' = TRUE
    /\ UNCHANGED <<save, started, file, target, durable, finished, broker, loaded, damages>>

-----------------------------------------------------------------------------
(* Faults.                                                                   *)
Kill ==
    /\ broker = "runs"
    /\ broker' = "off" /\ save' = NoSave
    /\ UNCHANGED <<started, file, target, durable, finished, quits, loaded, damages>>

\* What was not synced may be lost: rows, the hash, and the rename.
PowerCut ==
    /\ broker = "runs"
    /\ broker' = "off" /\ save' = NoSave
    /\ target' \in {target, durable} /\ durable' = target'
    /\ \E n \in 0..Rows, hashIsLost \in BOOLEAN :
          file' = [s \in Saves |->
                      IF file[s].synced THEN file[s]
                      ELSE [file[s] EXCEPT !.rows = Min({n, @}),
                                           !.hash = IF hashIsLost THEN NoHash ELSE @]]
    /\ UNCHANGED <<started, finished, quits, loaded, damages>>

Damage ==
    /\ broker = "off" /\ target # 0 /\ damages < MaxDamage
    /\ file[target].rows > 0
    /\ damages' = damages + 1
    /\ \E n \in 0..(file[target].rows - 1) : file' = [file EXCEPT ![target].rows = n]
    /\ UNCHANGED <<save, started, target, durable, finished, quits, broker, loaded>>

-----------------------------------------------------------------------------
(* Loading.                                                                  *)

\* The lower word is shifted as an int, and its sign extended.
readInt64(v) == LET low == v % Word IN IF low < Word \div 2 THEN v ELSE low - Word

\* Mutant: the clock never goes back.
ageSince(savedAt, now) == now - savedAt

persistence_state_age(savedAt, now) == IF savedAt > now THEN 0 ELSE now - savedAt

compensatedSessionExpiry(expiry, age) == IF age > expiry THEN 0 ELSE expiry - age

stateAgecompensatedWillDelay(s, age) ==
    LET left == IF s.queuedAge < s.delay THEN s.delay - s.queuedAge ELSE 0
    IN  IF age > left THEN 0 ELSE left - age

verifyHash(f) == f.hash = f.rows

\* A start without a file, or with one that is right.
Load ==
    /\ broker = "off"
    /\ target # 0 => verifyHash(file[target])
    /\ broker' = "runs" /\ quits' = FALSE
    /\ IF target = 0 THEN loaded' = NothingLoaded
       ELSE LET f == file[target]
            IN \E now \in Clock :
                  LET age == persistence_state_age(readInt64(f.savedAt), now)
                  IN  loaded' = [number |-> target, rows |-> f.rows,
                                 elapsed |-> Max({0, now - f.savedAt}),
                                 expiry |-> compensatedSessionExpiry(f.session.expiry, age),
                                 delay |-> stateAgecompensatedWillDelay(f.session, age)]
    /\ UNCHANGED <<save, started, file, target, durable, finished, damages>>

\* One that is not is moved aside, and the start fails.
MoveAside ==
    /\ broker = "off" /\ target # 0 /\ ~verifyHash(file[target])
    /\ target' = 0 /\ durable' = 0
    /\ UNCHANGED <<save, started, file, finished, quits, broker, loaded, damages>>

SaveStep ==
    \/ OpenWrite \/ WriteRow \/ WriteFails \/ hashFile \/ FlushAndSync \/ Rename \/ SyncDirectory
FileNext ==
    \/ StartSave \/ SaveStep \/ Discard \/ QuitBroker
    \/ Kill \/ PowerCut \/ Damage
    \/ Load \/ MoveAside

FileSpec == FileInit /\ [][FileNext]_fileVars

-----------------------------------------------------------------------------
(* At every moment, whatever is then cut off, the name stands for none or for  *)
(* a file that is on disk as it was hashed, never for a torn one              *)
(* (persistencefile.cpp:421-467).                                            *)
FileIsWhole ==
    damages = 0 =>
        \A t \in {target, durable} \ {0} : file[t].hash = file[t].rows /\ file[t].synced

(* The file has all rows.  A failing write breaks this: the destructor hashes  *)
(* what there is and renames it over the last good file.                      *)
FileIsComplete == damages = 0 => \A t \in {target, durable} \ {0} : file[t].rows = Rows

(* A save that was finished is not lost, and a later start never goes back     *)
(* behind it (persistencefile.cpp:457-463).                                  *)
FinishedIsKept ==
    damages = 0 => target >= finished /\ durable >= finished

(* What a disk has damaged is never loaded (persistencefile.cpp:149).         *)
DamagedIsNotLoaded == loaded.number # 0 => loaded.rows = file[loaded.number].hash

(* A session and its delayed will go on as if the broker had not been away,    *)
(* also when the clock was set back (sessionsandsubscriptionsdb.cpp:226-253).  *)
TimeWentOn ==
    loaded.number # 0 =>
        LET s == file[loaded.number].session
        IN  /\ loaded.expiry = Max({0, s.expiry - loaded.elapsed})
            /\ loaded.delay = Max({0, s.delay - s.queuedAge - loaded.elapsed})
(* After a crash or a power cut at any step there is a file that was saved, or *)
(* none was (persistencefile.cpp:419), and it is loaded as if there had been no    *)
(* stop (sessionsandsubscriptionsdb.cpp:230).                                *)
FileSurvives == FileIsWhole /\ FinishedIsKept /\ DamagedIsNotLoaded /\ TimeWentOn
=============================================================================
