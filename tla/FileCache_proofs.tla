---------------------------- MODULE FileCache_proofs ----------------------------
(***************************************************************************)
(* Proofs about FileCache: without a fault, whoever was told that it has the  *)
(* key has it and no increment is lost, for any number of processes.         *)
(***************************************************************************)
EXTENDS FileCache, TLAPS

FileEntry == [condition : Conditions, by : Procs \cup {Nobody}, count : Nat]

LEMMA FileType ==
    ASSUME NEW c \in Conditions, NEW p \in Procs, NEW n \in Nat
    PROVE  /\ File(c, p, n) \in FileEntry
           /\ File(c, p, n).condition = c /\ File(c, p, n).by = p
  BY DEF File, FileEntry

LEMMA MissingType == Missing \in FileEntry /\ Missing.condition = "missing"
  BY DEF Missing, File, FileEntry, Conditions

LEMMA FileInitTyped == FileInit => FileTypeOK
  BY MissingType DEF FileInit, FileTypeOK, FileEntry, Doings, Inner

LEMMA IncrementedType ==
    ASSUME FileTypeOK, NEW p \in Procs
    PROVE  Incremented(p) \in FileEntry /\ Incremented(p).by = p
<1> DEFINE e == seen[p]
<1>1. e \in FileEntry /\ e.condition \in Conditions /\ e.count + 1 \in Nat
  BY DEF FileTypeOK, FileEntry
<1>2. {"expired", "endless"} \subseteq Conditions
  BY DEF Conditions
<1> HIDE DEF e
<1>3. CASE e.condition = "lapsed"
  BY <1>1, <1>2, <1>3, FileType DEF Incremented, e
<1>4. CASE e.condition # "lapsed" /\ IsLive(e)
  BY <1>1, <1>2, <1>4, FileType DEF Incremented, e
<1>5. CASE e.condition # "lapsed" /\ ~IsLive(e)
  BY <1>1, <1>2, <1>5, FileType DEF Incremented, e
<1> QED BY <1>3, <1>4, <1>5

\* Every step keeps the types: a file that is there was written by a process.
LEMMA FileStepTyped == FileTypeOK /\ [FileNext]_fileVars => FileTypeOK'
<1> SUFFICES ASSUME FileTypeOK, [FileNext]_fileVars PROVE FileTypeOK'
  OBVIOUS
<1> USE DEF Doings, Inner
<1>1. ASSUME NEW p \in Procs,
             FileGet(p) \/ FilePrune(p) \/ FilePruneLock(p) \/ FilePeek(p) \/ FileIncrement(p)
             \/ FileRelease(p) \/ FileLock(p) \/ FileSeeStale(p) \/ FileBreak(p)
             \/ FileTimeOut(p) \/ FileUnlock(p)
      PROVE  FileTypeOK'
  BY <1>1 DEF FileGet, FilePrune, FilePruneLock, FilePeek, FileIncrement, FileRelease,
              FileLock, FileSeeStale, FileBreak, FileTimeOut, FileUnlock, Unlock, Goes,
              FileTypeOK
<1>2. ASSUME NEW p \in Procs, FileUnlink(p) \/ FileForget(p) \/ FileFlush(p) PROVE FileTypeOK'
  BY <1>2, MissingType
  DEF FileUnlink, FileForget, FileFlush, Replace, Goes, FileTypeOK, FileEntry
<1>3. ASSUME NEW p \in Procs, FilePut(p) PROVE FileTypeOK'
  <2>1. file' \in FileEntry /\ file'.by \in Procs
    BY <1>3, FileType DEF FilePut, Replace, Conditions
  <2> QED BY <1>3, <2>1 DEF FilePut, FileTypeOK, FileEntry
<1>4. ASSUME NEW p \in Procs, FileAdd(p) PROVE FileTypeOK'
  <2>1. file' \in FileEntry /\ (file'.condition # "missing" => file'.by \in Procs)
    <3>1. file' = File("empty", p, 0) \/ file' = file
      BY <1>4 DEF FileAdd, Replace
    <3>2. File("empty", p, 0) \in FileEntry /\ File("empty", p, 0).by = p
      BY FileType DEF Conditions
    <3> QED BY <3>1, <3>2 DEF FileTypeOK, FileEntry
  <2> QED BY <1>4, <2>1 DEF FileAdd, Goes, FileTypeOK, FileEntry
<1>5. ASSUME NEW p \in Procs, FileFill(p) PROVE FileTypeOK'
  <2>1. file' \in FileEntry /\ (file'.condition # "missing" => file'.by \in Procs)
    <3>1. file' = File("live", p, 0) \/ file' = file
      BY <1>5 DEF FileFill, Replace
    <3>2. File("live", p, 0) \in FileEntry /\ File("live", p, 0).by = p
      BY FileType DEF Conditions
    <3> QED BY <3>1, <3>2 DEF FileTypeOK, FileEntry
  <2> QED BY <1>5, <2>1 DEF FileFill, Obtained, Goes, FileTypeOK, FileEntry
<1>6. ASSUME NEW p \in Procs, FileRead(p) PROVE FileTypeOK'
  BY <1>6 DEF FileRead, Goes, FileTypeOK
<1>7. ASSUME NEW p \in Procs, FileWrite(p) PROVE FileTypeOK'
  <2>1. file' \in FileEntry /\ (file'.condition # "missing" => file'.by \in Procs)
    BY <1>7, FileType, MissingType, IncrementedType
    DEF FileWrite, WriteAdded, WriteIncremented, UnlinkReleased, Conditions
  <2>2. holders' \subseteq Procs
    BY <1>7 DEF FileWrite, WriteAdded, WriteIncremented, UnlinkReleased, Obtained, FileTypeOK
  <2> QED BY <1>7, <2>1, <2>2, MissingType DEF FileWrite, Goes, FileTypeOK, FileEntry
<1>8. ASSUME NEW p \in Procs, FileKilled(p) PROVE FileTypeOK'
  BY <1>8, MissingType DEF FileKilled, FileTypeOK, FileEntry
<1>9. CASE FileExpires
  <2>1. file' \in FileEntry /\ (file'.condition # "missing" => file'.by \in Procs)
    BY <1>9 DEF FileExpires, FileTypeOK, FileEntry, Conditions
  <2>2. \A e \in FileEntry : Lapsed(e) \in FileEntry
    BY DEF Lapsed, FileEntry, Conditions
  <2> QED BY <1>9, <2>1, <2>2 DEF FileExpires, FileTypeOK, FileEntry
<1>10. CASE FileLockAges
  BY <1>10 DEF FileLockAges, FileTypeOK
<1>11. CASE UNCHANGED fileVars
  BY <1>11 DEF fileVars, FileTypeOK
<1> QED
  BY <1>1, <1>2, <1>3, <1>4, <1>5, <1>6, <1>7, <1>8, <1>9, <1>10, <1>11 DEF FileNext

LEMMA FaultsGrow == [FileNext]_fileVars => faults \subseteq faults' /\ usage' = usage
<1> SUFFICES ASSUME [FileNext]_fileVars PROVE faults \subseteq faults' /\ usage' = usage
  OBVIOUS
<1>1. ASSUME NEW p \in Procs,
             \/ FileGet(p) \/ FilePrune(p) \/ FileUnlink(p) \/ FilePruneLock(p)
             \/ FilePut(p) \/ FileForget(p) \/ FileFlush(p) \/ FileAdd(p) \/ FileFill(p)
      PROVE  faults \subseteq faults' /\ usage' = usage
  BY <1>1 DEF FileGet, FilePrune, FileUnlink, FilePruneLock, FilePut, FileForget, FileFlush,
              FileAdd, FileFill, Replace
<1>2. ASSUME NEW p \in Procs,
             \/ FilePeek(p) \/ FileIncrement(p) \/ FileRelease(p)
             \/ FileLock(p) \/ FileSeeStale(p) \/ FileBreak(p) \/ FileTimeOut(p)
             \/ FileRead(p) \/ FileWrite(p) \/ FileUnlock(p) \/ FileKilled(p)
      PROVE  faults \subseteq faults' /\ usage' = usage
  BY <1>2 DEF FilePeek, FileIncrement, FileRelease, FileLock, FileSeeStale, FileBreak,
              FileTimeOut, FileRead, FileWrite, FileUnlock, FileKilled, Unlock
<1>3. CASE FileExpires \/ FileLockAges \/ UNCHANGED fileVars
  BY <1>3 DEF FileExpires, FileLockAges, fileVars
<1> QED BY <1>1, <1>2, <1>3 DEF FileNext

-----------------------------------------------------------------------------

\* Who is in add() or releaseLock(), before it has an answer.
Asks(p) ==
    \/ doing[p] \in {"filling", "peeking", "locking", "locked", "writing"}
    \/ doing[p] = "breaking" /\ op[p] # "prune"

\* Who asks for the key, or gives it back, does not have it; it does not prune; and a lock
\* is not counted up, nor a counter held.
AskersHaveNothing ==
    /\ \A p \in Procs : Asks(p) => p \notin holders /\ op[p] # "prune"
    /\ usage = "lock" => \A p \in Procs : op[p] # "increment"
    /\ usage = "counter" => holders = {}

LEMMA InitAskers == FileInit => AskersHaveNothing
  BY DEF FileInit, AskersHaveNothing, Asks

LEMMA StepAskers == FileTypeOK /\ AskersHaveNothing /\ [FileNext]_fileVars => AskersHaveNothing'
<1> SUFFICES ASSUME FileTypeOK, AskersHaveNothing, [FileNext]_fileVars
             PROVE  AskersHaveNothing'
  OBVIOUS
<1> USE DEF Goes, FileTypeOK, AskersHaveNothing, Asks
<1>1. ASSUME NEW p \in Procs,
             FileGet(p) \/ FilePrune(p) \/ FileUnlink(p) \/ FilePruneLock(p)
      PROVE  AskersHaveNothing'
  BY <1>1 DEF FileGet, FilePrune, FileUnlink, FilePruneLock
<1>2. ASSUME NEW p \in Procs, FilePut(p) \/ FileForget(p) \/ FileFlush(p)
      PROVE  AskersHaveNothing'
  BY <1>2 DEF FilePut, FileForget, FileFlush
<1>3. ASSUME NEW p \in Procs, FileAdd(p) PROVE AskersHaveNothing'
  BY <1>3 DEF FileAdd
<1>4. ASSUME NEW p \in Procs, FileFill(p) PROVE AskersHaveNothing'
  BY <1>4 DEF FileFill, Obtained
<1>5. ASSUME NEW p \in Procs, FilePeek(p) \/ FileIncrement(p) \/ FileRelease(p)
      PROVE  AskersHaveNothing'
  BY <1>5 DEF FilePeek, FileIncrement, FileRelease
<1>6. ASSUME NEW p \in Procs,
             FileLock(p) \/ FileSeeStale(p) \/ FileBreak(p) \/ FileTimeOut(p) \/ FileUnlock(p)
      PROVE  AskersHaveNothing'
  BY <1>6 DEF FileLock, FileSeeStale, FileBreak, FileTimeOut, FileUnlock
<1>7. ASSUME NEW p \in Procs, FileRead(p) PROVE AskersHaveNothing'
  BY <1>7 DEF FileRead
<1>8. ASSUME NEW p \in Procs, FileWrite(p) PROVE AskersHaveNothing'
  BY <1>8 DEF FileWrite, WriteAdded, WriteIncremented, UnlinkReleased, Obtained
<1>9. ASSUME NEW p \in Procs, FileKilled(p) PROVE AskersHaveNothing'
  BY <1>9 DEF FileKilled
<1>10. CASE FileExpires \/ FileLockAges \/ UNCHANGED fileVars
  BY <1>10 DEF FileExpires, FileLockAges, fileVars
<1> QED
  BY <1>1, <1>2, <1>3, <1>4, <1>5, <1>6, <1>7, <1>8, <1>9, <1>10 DEF FileNext

-----------------------------------------------------------------------------

\* The .lock file excludes: who is behind it has a fresh one, alone.
Exclusive ==
    faults = {} =>
        /\ \A p \in Procs : doing[p] \in Inner => entryLock = "fresh"
        /\ \A p, q \in Procs : doing[p] \in Inner /\ doing[q] \in Inner => p = q

LEMMA InitExclusive == FileInit => Exclusive
  BY DEF FileInit, Exclusive, Inner

LEMMA StepExclusive == FileTypeOK /\ Exclusive /\ [FileNext]_fileVars => Exclusive'
<1> SUFFICES ASSUME FileTypeOK, Exclusive, [FileNext]_fileVars, faults' = {}
             PROVE  Exclusive'
  BY DEF Exclusive
<1>0. faults = {}
  BY FaultsGrow
<1> USE <1>0 DEF Goes, FileTypeOK, Exclusive, Inner
<1>1. ASSUME NEW p \in Procs,
             FileGet(p) \/ FilePrune(p) \/ FileUnlink(p) \/ FilePruneLock(p)
      PROVE  Exclusive'
  BY <1>1 DEF FileGet, FilePrune, FileUnlink, FilePruneLock
<1>2. ASSUME NEW p \in Procs, FilePut(p) \/ FileForget(p) PROVE Exclusive'
  BY <1>2 DEF FilePut, FileForget
<1>3. ASSUME NEW p \in Procs, FileFlush(p) PROVE Exclusive'
  BY <1>3 DEF FileFlush
<1>4. ASSUME NEW p \in Procs,
             FileAdd(p) \/ FileFill(p) \/ FilePeek(p) \/ FileIncrement(p) \/ FileRelease(p)
      PROVE  Exclusive'
  BY <1>4 DEF FileAdd, FileFill, FilePeek, FileIncrement, FileRelease
<1>5. ASSUME NEW p \in Procs, FileLock(p) PROVE Exclusive'
  BY <1>5 DEF FileLock, Lockable
<1>6. ASSUME NEW p \in Procs, FileSeeStale(p) \/ FileTimeOut(p) PROVE Exclusive'
  BY <1>6 DEF FileSeeStale, FileTimeOut
<1>7. ASSUME NEW p \in Procs, FileBreak(p) \/ FileUnlock(p) PROVE Exclusive'
  <2>1. ~Others(p, Inner)
    BY <1>7 DEF FileBreak, FileUnlock, Unlock, Fault
  <2> QED BY <1>7, <2>1 DEF FileBreak, FileUnlock, Unlock, Others
<1>8. ASSUME NEW p \in Procs, FileRead(p) \/ FileWrite(p) \/ FileKilled(p) PROVE Exclusive'
  BY <1>8 DEF FileRead, FileWrite, FileKilled
<1>9. CASE FileLockAges
  BY <1>9 DEF FileLockAges, Fault
<1>10. CASE FileExpires \/ UNCHANGED fileVars
  BY <1>10 DEF FileExpires, fileVars
<1> QED
  BY <1>1, <1>2, <1>3, <1>4, <1>5, <1>6, <1>7, <1>8, <1>9, <1>10 DEF FileNext

-----------------------------------------------------------------------------

\* For a lock, without a fault: the file that a process is filling is its own, what a
\* process read before it writes still holds, and nobody fills a file meanwhile.
Undisturbed ==
    usage = "lock" /\ faults = {} =>
        /\ \A p \in Procs : doing[p] = "filling" => file.condition = "empty" /\ file.by = p
        /\ \A p \in Procs : doing[p] = "writing" =>
              /\ op[p] = "add" => ~IsLive(file)
              /\ op[p] = "release" => file.by = p
              /\ \A q \in Procs : doing[q] # "filling"

LEMMA InitUndisturbed == FileInit => Undisturbed /\ KeyIsKept
  BY DEF FileInit, Undisturbed, KeyIsKept

FileInv == FileTypeOK /\ AskersHaveNothing /\ Exclusive /\ Undisturbed /\ KeyIsKept

\* A step that leaves the file, its readers' answers and the holders alone.
LEMMA FileKept ==
    ASSUME FileInv, [FileNext]_fileVars, file' = file, holders' \subseteq holders,
           \A p \in Procs : /\ doing'[p] = "filling" => doing[p] = "filling"
                            /\ doing'[p] = "writing" => doing[p] = "writing" /\ op'[p] = op[p]
    PROVE  Undisturbed' /\ KeyIsKept'
  BY FaultsGrow DEF FileInv, Undisturbed, KeyIsKept, IsLive

\* A file that its creator fills is empty, so that nobody has the key.
LEMMA StepUndisturbed == FileInv /\ [FileNext]_fileVars => Undisturbed' /\ KeyIsKept'
<1> SUFFICES ASSUME FileInv, [FileNext]_fileVars, faults' = {}
             PROVE  Undisturbed' /\ KeyIsKept'
  BY DEF Undisturbed, KeyIsKept
<1>0. faults = {} /\ usage' = usage
  BY FaultsGrow
<1>a. ASSUME usage # "lock" PROVE Undisturbed' /\ KeyIsKept'
  <2>1. FileTypeOK' /\ AskersHaveNothing'
    BY FileStepTyped, StepAskers DEF FileInv
  <2>2. holders' = {}
    BY <1>0, <1>a, <2>1 DEF AskersHaveNothing, FileTypeOK
  <2> QED BY <1>0, <1>a, <2>2 DEF Undisturbed, KeyIsKept
<1> SUFFICES ASSUME usage = "lock" PROVE Undisturbed' /\ KeyIsKept'
  BY <1>a
<1> USE <1>0
<1>1. ASSUME NEW p \in Procs, FileGet(p) \/ FilePrune(p) \/ FilePruneLock(p)
      PROVE  Undisturbed' /\ KeyIsKept'
  BY <1>1, FileKept DEF FileGet, FilePrune, FilePruneLock, Goes, FileInv, FileTypeOK
<1>2. ASSUME NEW p \in Procs, FileUnlink(p) PROVE Undisturbed' /\ KeyIsKept'
  <2>1. ~IsLive(file) /\ ~BeingFilled /\ ~Others(p, {"writing"})
    BY <1>2 DEF FileUnlink, Fault
  <2>2. holders' = {}
    BY <1>2, <2>1 DEF FileUnlink, FileInv, KeyIsKept, FileTypeOK
  <2>3. \A q \in Procs : doing'[q] # "filling" /\ doing'[q] # "writing"
    BY <1>2, <2>1 DEF FileUnlink, Goes, BeingFilled, Others, FileInv, Undisturbed, FileTypeOK
  <2> QED BY <2>2, <2>3 DEF Undisturbed, KeyIsKept
<1>3. ASSUME NEW p \in Procs, FilePut(p) \/ FileForget(p) \/ FileFlush(p)
      PROVE  Undisturbed' /\ KeyIsKept'
  BY <1>3 DEF FilePut, FileForget, FileFlush
<1>4. ASSUME NEW p \in Procs, FileAdd(p) PROVE Undisturbed' /\ KeyIsKept'
  <2>1. CASE file # Missing
    BY <1>4, <2>1, FileKept DEF FileAdd, Goes, FileInv, FileTypeOK
  <2>2. CASE file = Missing
    <3>1. file.condition = "missing" /\ ~IsLive(file)
      BY <2>2, MissingType DEF IsLive
    <3>2. holders = {} /\ \A q \in Procs : doing[q] # "filling"
      BY <3>1 DEF FileInv, KeyIsKept, Undisturbed, FileTypeOK
    <3>3. file'.condition = "empty" /\ file'.by = p
      BY <1>4, <2>2, FileType DEF FileAdd, Replace, Conditions
    <3>4. ~Others(p, {"writing"}) /\ doing' = [doing EXCEPT ![p] = "filling"]
      BY <1>4, <2>2 DEF FileAdd, Replace, Goes, Fault
    <3>5. \A q \in Procs : doing'[q] # "writing" /\ (doing'[q] = "filling" => q = p)
      BY <3>2, <3>4 DEF Others, FileInv, FileTypeOK
    <3>6. holders' = {}
      BY <1>4, <3>2 DEF FileAdd
    <3> QED BY <3>3, <3>5, <3>6 DEF Undisturbed, KeyIsKept
  <2> QED BY <2>1, <2>2
<1>5. ASSUME NEW p \in Procs, FileFill(p) PROVE Undisturbed' /\ KeyIsKept'
  <2>1. file.condition = "empty" /\ file.by = p
    BY <1>5 DEF FileFill, Goes, FileInv, Undisturbed
  <2>2. holders = {}
    BY <2>1 DEF FileInv, KeyIsKept, IsLive, FileTypeOK
  <2>3. file' = File("live", p, 0) /\ ~Others(p, {"writing"}) /\ holders' = {p}
    BY <1>5, <2>1, <2>2 DEF FileFill, Replace, Fault, Obtained
  <2>4. \A q \in Procs : doing'[q] # "writing" /\ doing'[q] # "filling"
    BY <1>5, <2>1, <2>3 DEF FileFill, Goes, Others, FileInv, Undisturbed, FileTypeOK
  <2>5. IsLive(file') /\ file'.by = p
    BY <2>3, FileType DEF IsLive, Conditions
  <2> QED BY <2>3, <2>4, <2>5 DEF Undisturbed, KeyIsKept, IsLive
<1>6. ASSUME NEW p \in Procs, FilePeek(p) \/ FileIncrement(p) \/ FileRelease(p)
      PROVE  Undisturbed' /\ KeyIsKept'
  BY <1>6, FileKept DEF FilePeek, FileIncrement, FileRelease, Goes, FileInv, FileTypeOK
<1>7. ASSUME NEW p \in Procs,
             FileLock(p) \/ FileSeeStale(p) \/ FileBreak(p) \/ FileTimeOut(p) \/ FileUnlock(p)
      PROVE  Undisturbed' /\ KeyIsKept'
  BY <1>7, FileKept DEF FileLock, FileSeeStale, FileBreak, FileTimeOut, FileUnlock, Goes,
                        FileInv, FileTypeOK
<1>8. ASSUME NEW p \in Procs, FileRead(p) PROVE Undisturbed' /\ KeyIsKept'
  <2>1. CASE ~Wants(p)
    BY <1>8, <2>1, FileKept DEF FileRead, Goes, FileInv, FileTypeOK
  <2>2. CASE Wants(p)
    <3>1. ~BeingFilled /\ doing[p] = "locked" /\ doing' = [doing EXCEPT ![p] = "writing"]
      BY <1>8, <2>2 DEF FileRead, Goes, Fault
    <3>2. \A q \in Procs : doing[q] # "filling"
      BY <3>1 DEF BeingFilled, FileInv, Undisturbed
    <3>3. op[p] \in {"add", "release"}
      BY <3>1 DEF FileInv, AskersHaveNothing, Asks, FileTypeOK
    <3>4. /\ op[p] = "add" => ~IsLive(file)
          /\ op[p] = "release" => file.by = p
      BY <2>2, <3>3 DEF Wants
    <3>5. file' = file /\ op' = op /\ holders' = holders
      BY <1>8 DEF FileRead
    <3> QED
      BY <3>1, <3>2, <3>4, <3>5 DEF FileInv, Undisturbed, KeyIsKept, IsLive, FileTypeOK
  <2> QED BY <2>1, <2>2
<1>9. ASSUME NEW p \in Procs, FileWrite(p) PROVE Undisturbed' /\ KeyIsKept'
  <2>1. doing[p] = "writing" /\ \A q \in Procs : doing[q] # "filling"
    BY <1>9 DEF FileWrite, Goes, FileInv, Undisturbed
  <2>2. \A q \in Procs : doing'[q] # "filling" /\ doing'[q] # "writing"
    BY <1>9, <2>1 DEF FileWrite, Goes, FileInv, Exclusive, Inner, FileTypeOK
  <2>3. op[p] \in {"add", "release"} /\ p \notin holders
    BY <2>1 DEF FileInv, AskersHaveNothing, Asks, FileTypeOK
  <2>4. holders = {}
    BY <2>1, <2>3 DEF FileInv, Undisturbed, KeyIsKept, FileTypeOK
  <2>5. CASE op[p] = "add"
    <3>1. file' = File("live", p, 0) /\ holders' = {p}
      BY <1>9, <2>4, <2>5 DEF FileWrite, WriteAdded, WriteIncremented, UnlinkReleased, Obtained
    <3>2. file'.condition = "live" /\ file'.by = p
      BY <3>1, FileType DEF Conditions
    <3> QED BY <2>2, <3>1, <3>2 DEF Undisturbed, KeyIsKept, IsLive
  <2>6. CASE op[p] = "release"
    <3>1. holders' = {}
      BY <1>9, <2>4, <2>6 DEF FileWrite, WriteAdded, WriteIncremented, UnlinkReleased
    <3> QED BY <2>2, <3>1 DEF Undisturbed, KeyIsKept
  <2> QED BY <2>3, <2>5, <2>6
<1>10. ASSUME NEW p \in Procs, FileKilled(p) PROVE Undisturbed' /\ KeyIsKept'
  BY <1>10, FileKept DEF FileKilled, FileInv, FileTypeOK
<1>11. CASE FileExpires
  <2>1. file'.by = file.by /\ file'.condition = "expired" /\ IsLive(file)
    BY <1>11 DEF FileExpires, FileInv, FileTypeOK, IsLive
  <2>2. holders' = {}
    BY <1>11 DEF FileExpires, FileInv, KeyIsKept, FileTypeOK
  <2>3. \A q \in Procs : doing[q] # "filling"
    BY <2>1 DEF FileInv, Undisturbed, IsLive
  <2>4. doing' = doing /\ op' = op /\ ~IsLive(file')
    BY <1>11, <2>1 DEF FileExpires, IsLive
  <2> QED BY <2>1, <2>2, <2>3, <2>4 DEF FileInv, Undisturbed, KeyIsKept, IsLive
<1>12. CASE FileLockAges \/ UNCHANGED fileVars
  BY <1>12, FileKept DEF FileLockAges, fileVars
<1> QED
  BY <1>1, <1>2, <1>3, <1>4, <1>5, <1>6, <1>7, <1>8, <1>9, <1>10, <1>11, <1>12 DEF FileNext

\* Whoever add() told that it has the key has it until it releases it or it expires,
\* unless one of the named faults has hit (file-cache-store.ts, add and releaseLock).
THEOREM KeyStays == FileSpec => []KeyIsKept
<1>1. FileInit => FileInv
  BY FileInitTyped, InitAskers, InitExclusive, InitUndisturbed DEF FileInv
<1>2. FileInv /\ [FileNext]_fileVars => FileInv'
  BY FileStepTyped, StepAskers, StepExclusive, StepUndisturbed DEF FileInv
<1>3. FileInv => KeyIsKept
  BY DEF FileInv
<1> QED BY <1>1, <1>2, <1>3, PTL DEF FileSpec

-----------------------------------------------------------------------------

\* The counter that a process is about to write back is the one that is there, unless it has
\* run out since: who replaces it under a process that has read it is a fault.
ReadHolds ==
    /\ file.condition # "lapsed"
    /\ faults = {} =>
          \A p \in Procs : doing[p] = "writing" /\ op[p] = "increment" =>
             \/ seen[p] = file
             \/ seen[p].condition = "lapsed" /\ file.condition = "expired"

LEMMA InitReads == FileInit => ReadHolds
  BY MissingType DEF FileInit, ReadHolds

\* A step that leaves the file alone, and nobody about to write but who was.
LEMMA ReadKept ==
    ASSUME FileTypeOK, ReadHolds, [FileNext]_fileVars, file' = file,
           \A p \in Procs : doing'[p] = "writing" =>
              doing[p] = "writing" /\ op'[p] = op[p] /\ seen'[p] = seen[p]
    PROVE  ReadHolds'
  BY FaultsGrow DEF ReadHolds

\* A step of `p' that replaces the file is a fault if anybody else is about to write.
LEMMA ReadReplaced ==
    ASSUME FileTypeOK, ReadHolds, NEW p \in Procs, file'.condition # "lapsed",
           doing'[p] # "writing", \A q \in Procs \ {p} : doing'[q] = doing[q],
           Others(p, {"writing"}) => faults' # {}
    PROVE  ReadHolds'
  BY DEF ReadHolds, Others

LEMMA StepReads == FileInv /\ ReadHolds /\ [FileNext]_fileVars => ReadHolds'
<1> SUFFICES ASSUME FileInv, ReadHolds, [FileNext]_fileVars PROVE ReadHolds'
  OBVIOUS
<1>0. FileTypeOK
  BY DEF FileInv
<1> USE <1>0
<1>1. ASSUME NEW p \in Procs,
             \/ FileGet(p) \/ FilePrune(p) \/ FilePruneLock(p) \/ FilePeek(p)
             \/ FileIncrement(p) \/ FileRelease(p) \/ FileLock(p) \/ FileSeeStale(p)
             \/ FileBreak(p) \/ FileTimeOut(p) \/ FileUnlock(p)
      PROVE  ReadHolds'
  BY <1>1, ReadKept
  DEF FileGet, FilePrune, FilePruneLock, FilePeek, FileIncrement, FileRelease, FileLock,
      FileSeeStale, FileBreak, FileTimeOut, FileUnlock, Goes, FileTypeOK
<1>2. ASSUME NEW p \in Procs, FileUnlink(p) PROVE ReadHolds'
  BY <1>2, ReadReplaced, MissingType DEF FileUnlink, Goes, Fault, FileTypeOK
<1>3. ASSUME NEW p \in Procs, FilePut(p) \/ FileForget(p) PROVE ReadHolds'
  <2>1. file'.condition # "lapsed"
    BY <1>3, FileType, MissingType DEF FilePut, FileForget, Replace, Conditions
  <2> QED BY <1>3, <2>1, ReadReplaced DEF FilePut, FileForget, Replace, Fault
<1>4. ASSUME NEW p \in Procs, FileFlush(p) PROVE ReadHolds'
  BY <1>4, MissingType DEF FileFlush, ReadHolds
<1>5. ASSUME NEW p \in Procs, FileAdd(p) PROVE ReadHolds'
  <2>1. CASE file # Missing
    BY <1>5, <2>1, ReadKept DEF FileAdd, Goes, FileTypeOK
  <2>2. CASE file = Missing
    <3>1. file'.condition # "lapsed"
      BY <1>5, <2>2, FileType DEF FileAdd, Replace, Conditions
    <3> QED BY <1>5, <2>2, <3>1, ReadReplaced DEF FileAdd, Replace, Goes, Fault, FileTypeOK
  <2> QED BY <2>1, <2>2
<1>6. ASSUME NEW p \in Procs, FileFill(p) PROVE ReadHolds'
  <2>1. CASE file' = file
    BY <1>6, <2>1, ReadKept DEF FileFill, Goes, FileTypeOK
  <2>2. CASE file' # file
    <3>1. Replace(p, File("live", p, 0))
      BY <1>6, <2>2 DEF FileFill
    <3>2. file'.condition # "lapsed"
      BY <3>1, FileType DEF Replace, Conditions
    <3> QED BY <1>6, <3>1, <3>2, ReadReplaced DEF FileFill, Replace, Goes, Fault, FileTypeOK
  <2> QED BY <2>1, <2>2
<1>7. ASSUME NEW p \in Procs, FileRead(p) PROVE ReadHolds'
  <2>1. ASSUME NEW q \in Procs, q # p, doing'[q] = "writing"
        PROVE  doing[q] = "writing" /\ seen'[q] = seen[q]
    BY <1>7, <2>1 DEF FileRead, Goes, FileTypeOK
  <2>2. op[p] = "increment" => seen'[p] = file
    BY <1>7 DEF FileRead, FileTypeOK
  <2>3. file' = file /\ op' = op /\ faults \subseteq faults'
    BY <1>7 DEF FileRead
  <2> QED BY <2>1, <2>2, <2>3 DEF ReadHolds
<1>8. ASSUME NEW p \in Procs, FileWrite(p) PROVE ReadHolds'
  <2>1. file'.condition # "lapsed"
    BY <1>8, FileType, MissingType
    DEF FileWrite, WriteAdded, WriteIncremented, UnlinkReleased, Incremented, IsLive,
        Conditions, File
  <2>2. faults = {} => ~Others(p, {"writing"})
    BY <1>8 DEF FileWrite, Goes, Others, FileInv, Exclusive, Inner
  <2>3. faults' = faults
    BY <1>8 DEF FileWrite
  <2> QED BY <1>8, <2>1, <2>2, <2>3, ReadReplaced DEF FileWrite, Goes, FileTypeOK
<1>9. ASSUME NEW p \in Procs, FileKilled(p) PROVE ReadHolds'
  BY <1>9, ReadKept DEF FileKilled, FileTypeOK
<1>10. CASE FileExpires
  <2>1. file.condition = "live" /\ file'.condition = "expired"
    BY <1>10 DEF FileExpires, FileTypeOK
  <2>2. \A e \in FileEntry : e.condition \in {"live", "lapsed"} => Lapsed(e).condition = "lapsed"
    BY DEF Lapsed, FileEntry
  <2>3. \A p \in Procs : seen[p] \in FileEntry /\ seen'[p] = Lapsed(seen[p])
    BY <1>10 DEF FileExpires, FileTypeOK, FileEntry
  <2>4. doing' = doing /\ op' = op /\ faults' = faults
    BY <1>10 DEF FileExpires
  <2> QED BY <2>1, <2>2, <2>3, <2>4 DEF ReadHolds
<1>11. CASE FileLockAges \/ UNCHANGED fileVars
  BY <1>11, ReadKept DEF FileLockAges, fileVars
<1> QED
  BY <1>1, <1>2, <1>3, <1>4, <1>5, <1>6, <1>7, <1>8, <1>9, <1>10, <1>11 DEF FileNext

\* What a process writes back counts one more than the counter it read.
LEMMA CountsUp ==
    ASSUME FileTypeOK, ReadHolds, faults = {}, NEW p \in Procs, WriteIncremented(p),
           doing[p] = "writing"
    PROVE  \/ IsLive(file) /\ file'.count = file.count + 1 /\ file'.condition = file.condition
           \/ file.condition = "expired" /\ file'.condition = "expired"
           \/ ~IsLive(file) /\ file'.count = 1 /\ file'.condition = "endless"
<1>1. file' = Incremented(p)
  BY DEF WriteIncremented
<1>2. CASE seen[p] = file /\ IsLive(file)
  BY <1>1, <1>2 DEF Incremented, File, IsLive
<1>3. CASE seen[p] = file /\ ~IsLive(file)
  BY <1>1, <1>3 DEF Incremented, File, ReadHolds
<1>4. CASE seen[p].condition = "lapsed" /\ file.condition = "expired"
  BY <1>1, <1>4 DEF Incremented, File, IsLive
<1> QED BY <1>2, <1>3, <1>4 DEF ReadHolds, WriteIncremented

\* No increment is lost and none starts a new window, unless one of the named faults has hit
\* (file-cache-store.ts, increment).
THEOREM IncrementsCount == FileSpec => IncrementIsAtomic
<1>1. FileInit => FileInv /\ ReadHolds
  BY FileInitTyped, InitAskers, InitExclusive, InitUndisturbed, InitReads DEF FileInv
<1>2. FileInv /\ ReadHolds /\ [FileNext]_fileVars => FileInv' /\ ReadHolds'
  BY FileStepTyped, StepAskers, StepExclusive, StepUndisturbed, StepReads DEF FileInv
<1>3. FileInv /\ ReadHolds /\ [FileNext]_fileVars =>
        [ faults' = {} =>
          \A p \in Procs : WriteIncremented(p) /\ doing[p] = "writing" =>
              \/ IsLive(file) /\ file'.count = file.count + 1
                              /\ file'.condition = file.condition
              \/ file.condition = "expired" /\ file'.condition = "expired"
              \/ ~IsLive(file) /\ file'.count = 1 /\ file'.condition = "endless" ]_fileVars
  BY FaultsGrow, CountsUp DEF FileInv
<1> QED BY <1>1, <1>2, <1>3, PTL DEF FileSpec, IncrementIsAtomic
=============================================================================
