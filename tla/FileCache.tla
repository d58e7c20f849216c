------------------------------ MODULE FileCache ------------------------------
(***************************************************************************)
(* One key of the FileCacheStore (file-cache-store.ts): its entry file, and   *)
(* the .lock file beside it that writers who have to read first take.  A step *)
(* is one file operation of one process.  The key is a lock (add,             *)
(* releaseLock) or a counter (add, increment, put, forget); anything may read *)
(* it, prune it, flush the store or be killed.                               *)
(***************************************************************************)
EXTENDS Integers

CONSTANTS
    Procs,      \* processes
    Nobody,     \* who wrote a missing file
    MaxCount    \* BOUND: a counter that high is not incremented

ASSUME FileCacheAssumption == MaxCount \in Nat /\ Nobody \notin Procs

VARIABLES
    usage,      \* what the key is
    file,       \* the entry file
    entryLock,  \* the .lock file: none, fresh, or older than STALE_LOCK_MS
    doing,      \* process -> where it stands
    op,         \* process -> what it takes the .lock file for
    seen,       \* process -> the entry it read under the .lock file
    holders,    \* processes whose add() returned true, until they release or it expires
    \* History, read by no action:
    faults      \* what has happened so far that a step of one process may not survive

fileVars == <<usage, file, entryLock, doing, op, seen, holders, faults>>

(***************************************************************************)
(* idle       between calls                  breaking   saw a stale .lock file:  *)
(* unlinking  read an expired entry: about              about to unlink it       *)
(*            to unlink it                   locked     has the .lock file       *)
(* filling    created the file: about to     writing    read the entry: about to *)
(*            write it                                  replace or unlink it     *)
(* peeking    the file was there: about to   unlocking  about to unlink the      *)
(*            read it                                   .lock file               *)
(* locking    in acquireEntryLock()                                              *)
(***************************************************************************)
Inner == {"locked", "writing", "unlocking"}
Doings == Inner \cup {"idle", "unlinking", "filling", "peeking", "locking", "breaking"}

\* A file is missing, created and still empty, or holds an entry: one that will expire,
\* one that never will, or one that has expired; "lapsed" is one that has since it was read.
Conditions == {"missing", "empty", "live", "endless", "expired", "lapsed"}

File(condition, p, n) == [condition |-> condition, by |-> p, count |-> n]

Missing == File("missing", Nobody, 0)

IsLive(e) == e.condition \in {"live", "endless"}

FileInit ==
    /\ usage \in {"lock", "counter"}
    /\ file = Missing
    /\ entryLock = "none"
    /\ doing = [p \in Procs |-> "idle"]
    /\ op = [p \in Procs |-> "add"]
    /\ seen = [p \in Procs |-> Missing]
    /\ holders = {}
    /\ faults = {}

Goes(p, from, to) ==
    /\ doing[p] = from
    /\ doing' = [doing EXCEPT ![p] = to]

\* The file is empty because its creator is still at it.
BeingFilled == file.condition = "empty" /\ doing[file.by] = "filling"

Others(p, places) == \E q \in Procs \ {p} : doing[q] \in places

Fault(what, happens) == IF happens THEN {what} ELSE {}

\* `p', without the .lock file, makes the file `e', over the head of whoever has it and
\* has read the entry.
Replace(p, e) ==
    /\ file' = e
    /\ faults' = faults \cup Fault("overtaken", Others(p, {"writing"}))

\* `p' removes the .lock file, whoever has it by now.
Unlock(p) ==
    /\ entryLock' = "none"
    /\ faults' = faults \cup Fault("broken", Others(p, Inner))

-----------------------------------------------------------------------------
(* get(), prune() *)

FileGet(p) ==
    /\ file.condition = "expired"
    /\ Goes(p, "idle", "unlinking")
    /\ UNCHANGED <<usage, file, entryLock, op, seen, holders, faults>>

\* prune() takes an entry it cannot read for dead weight.
FilePrune(p) ==
    /\ file.condition \in {"expired", "empty"}
    /\ Goes(p, "idle", "unlinking")
    /\ UNCHANGED <<usage, file, entryLock, op, seen, holders, faults>>

FileUnlink(p) ==
    /\ Goes(p, "unlinking", "idle")
    /\ file' = Missing
    /\ faults' = faults \cup Fault("unlinked", IsLive(file) \/ BeingFilled)
                        \cup Fault("overtaken", Others(p, {"writing"}))
    /\ UNCHANGED <<usage, entryLock, op, seen, holders>>

\* A .lock file on a key nothing writes again.
FilePruneLock(p) ==
    /\ entryLock = "stale"
    /\ Goes(p, "idle", "breaking")
    /\ op' = [op EXCEPT ![p] = "prune"]
    /\ UNCHANGED <<usage, file, entryLock, seen, holders, faults>>

-----------------------------------------------------------------------------
(* put(), forget(), flush(): no .lock file *)

FilePut(p) ==
    /\ usage = "counter" /\ doing[p] = "idle"
    /\ Replace(p, File("live", p, 1))
    /\ UNCHANGED <<usage, entryLock, doing, op, seen, holders>>

FileForget(p) ==
    /\ usage = "counter" /\ doing[p] = "idle"
    /\ Replace(p, Missing)
    /\ UNCHANGED <<usage, entryLock, doing, op, seen, holders>>

\* rm -rf, of the .lock files too.
FileFlush(p) ==
    /\ doing[p] = "idle"
    /\ file' = Missing
    /\ entryLock' = "none"
    /\ faults' = faults \cup {"flushed"}
    /\ UNCHANGED <<usage, doing, op, seen, holders>>

-----------------------------------------------------------------------------
(* add(), increment(), releaseLock() *)

\* open(path, "wx").
FileAdd(p) ==
    /\ p \notin holders
    /\ op' = [op EXCEPT ![p] = "add"]
    /\ IF file = Missing
       THEN Goes(p, "idle", "filling") /\ Replace(p, File("empty", p, 0))
       ELSE Goes(p, "idle", "peeking") /\ UNCHANGED <<file, faults>>
    /\ UNCHANGED <<usage, entryLock, seen, holders>>

Obtained(p) == holders' = IF usage = "lock" THEN holders \cup {p} ELSE holders

\* Through the handle: of no effect if the file has been replaced since.
FileFill(p) ==
    /\ Goes(p, "filling", "idle")
    /\ IF file.condition = "empty" /\ file.by = p
       THEN Replace(p, File("live", p, 0))
       ELSE UNCHANGED <<file, faults>>
    /\ Obtained(p)
    /\ UNCHANGED <<usage, entryLock, op, seen>>

\* An empty file does not parse: as good as none.
FilePeek(p) ==
    /\ Goes(p, "peeking", IF IsLive(file) THEN "idle" ELSE "locking")
    /\ faults' = faults \cup Fault("torn", BeingFilled)
    /\ UNCHANGED <<usage, file, entryLock, op, seen, holders>>

FileIncrement(p) ==
    /\ usage = "counter" /\ file.count < MaxCount
    /\ Goes(p, "idle", "locking")
    /\ op' = [op EXCEPT ![p] = "increment"]
    /\ UNCHANGED <<usage, file, entryLock, seen, holders, faults>>

FileRelease(p) ==
    /\ usage = "lock"
    /\ Goes(p, "idle", "locking")
    /\ op' = [op EXCEPT ![p] = "release"]
    /\ holders' = holders \ {p}
    /\ UNCHANGED <<usage, file, entryLock, seen, faults>>

-----------------------------------------------------------------------------
(* withEntryLock() *)

\* Mutant: any .lock file is taken for a stale one.
LockableAlways == TRUE

Lockable == entryLock = "none"

FileLock(p) ==
    /\ Lockable
    /\ Goes(p, "locking", "locked")
    /\ entryLock' = "fresh"
    /\ UNCHANGED <<usage, file, op, seen, holders, faults>>

FileSeeStale(p) ==
    /\ entryLock = "stale"
    /\ Goes(p, "locking", "breaking")
    /\ UNCHANGED <<usage, file, entryLock, op, seen, holders, faults>>

FileBreak(p) ==
    /\ Goes(p, "breaking", IF op[p] = "prune" THEN "idle" ELSE "locking")
    /\ Unlock(p)
    /\ UNCHANGED <<usage, file, op, seen, holders>>

\* The call throws.
FileTimeOut(p) ==
    /\ entryLock # "none"
    /\ Goes(p, "locking", "idle")
    /\ UNCHANGED <<usage, file, entryLock, op, seen, holders, faults>>

Wants(p) ==
    CASE op[p] = "add"       -> ~IsLive(file)
      [] op[p] = "release"   -> IsLive(file) /\ file.by = p
      [] op[p] = "increment" -> TRUE

FileRead(p) ==
    /\ Goes(p, "locked", IF Wants(p) THEN "writing" ELSE "unlocking")
    /\ seen' = IF op[p] = "increment" THEN [seen EXCEPT ![p] = file] ELSE seen
    /\ faults' = faults \cup Fault("torn", BeingFilled)
    /\ UNCHANGED <<usage, file, entryLock, op, holders>>

\* Mutant: the counter starts a new window with each hit.
IncrementedAnew(p) ==
    LET e == seen[p] IN File("live", p, IF IsLive(e) THEN e.count + 1 ELSE 1)

\* A counter keeps its expiry, which may be past by now; a new one has none.
Incremented(p) ==
    LET e == seen[p] IN
    CASE e.condition = "lapsed" -> File("expired", p, e.count + 1)
      [] IsLive(e)              -> File(e.condition, p, e.count + 1)
      [] OTHER                  -> File("endless", p, 1)

WriteAdded(p) == op[p] = "add" /\ file' = File("live", p, 0) /\ Obtained(p)

WriteIncremented(p) ==
    op[p] = "increment" /\ file' = Incremented(p) /\ UNCHANGED holders

UnlinkReleased(p) == op[p] = "release" /\ file' = Missing /\ UNCHANGED holders

FileWrite(p) ==
    /\ Goes(p, "writing", "unlocking")
    /\ WriteAdded(p) \/ WriteIncremented(p) \/ UnlinkReleased(p)
    /\ seen' = [seen EXCEPT ![p] = Missing]
    /\ UNCHANGED <<usage, entryLock, op, faults>>

FileUnlock(p) ==
    /\ Goes(p, "unlocking", "idle")
    /\ Unlock(p)
    /\ UNCHANGED <<usage, file, op, seen, holders>>

-----------------------------------------------------------------------------
(* Time, and processes that are killed *)

Lapsed(e) == IF e.condition = "live" THEN [e EXCEPT !.condition = "lapsed"] ELSE e

FileExpires ==
    /\ file.condition = "live"
    /\ file' = [file EXCEPT !.condition = "expired"]
    /\ seen' = [p \in Procs |-> Lapsed(seen[p])]
    /\ holders' = holders \ {file.by}
    /\ UNCHANGED <<usage, entryLock, doing, op, faults>>

\* More than STALE_LOCK_MS after the .lock file was created.
FileLockAges ==
    /\ entryLock = "fresh"
    /\ entryLock' = "stale"
    /\ faults' = faults \cup Fault("stalled", \E p \in Procs : doing[p] \in Inner)
    /\ UNCHANGED <<usage, file, doing, op, seen, holders>>

FileKilled(p) ==
    /\ doing[p] # "idle" \/ p \in holders
    /\ doing' = [doing EXCEPT ![p] = "idle"]
    /\ seen' = [seen EXCEPT ![p] = Missing]
    /\ holders' = holders \ {p}
    /\ UNCHANGED <<usage, file, entryLock, op, faults>>

FileNext ==
    \/ \E p \in Procs :
          \/ FileGet(p) \/ FilePrune(p) \/ FileUnlink(p) \/ FilePruneLock(p)
          \/ FilePut(p) \/ FileForget(p) \/ FileFlush(p)
          \/ FileAdd(p) \/ FileFill(p) \/ FilePeek(p) \/ FileIncrement(p) \/ FileRelease(p)
          \/ FileLock(p) \/ FileSeeStale(p) \/ FileBreak(p) \/ FileTimeOut(p)
          \/ FileRead(p) \/ FileWrite(p) \/ FileUnlock(p)
          \/ FileKilled(p)
    \/ FileExpires \/ FileLockAges

FileSpec == FileInit /\ [][FileNext]_fileVars

-----------------------------------------------------------------------------
(* Properties *)

FileTypeOK ==
    /\ usage \in {"lock", "counter"}
    /\ file \in [condition : Conditions, by : Procs \cup {Nobody}, count : Nat]
    /\ file.condition # "missing" => file.by \in Procs
    /\ entryLock \in {"none", "fresh", "stale"}
    /\ doing \in [Procs -> Doings]
    /\ op \in [Procs -> {"add", "increment", "release", "prune"}]
    /\ seen \in [Procs -> [condition : Conditions, by : Procs \cup {Nobody}, count : Nat]]
    /\ holders \subseteq Procs

\* Whoever add() told that it has the key does have it, until it releases it or it
\* expires, whatever others read, release, break or leave behind, unless a fault named
\* below has hit (file-cache-store.ts, add, releaseLock).
KeyIsKept ==
    faults = {} => \A p \in holders : IsLive(file) /\ file.by = p

\* An increment that is written counts one more than the counter that is there, of the
\* same expiry; one that is not there, or has expired, starts at 1 (file-cache-store.ts,
\* increment).
IncrementIsAtomic ==
    [][ faults' = {} =>
          \A p \in Procs : WriteIncremented(p) /\ doing[p] = "writing" =>
              \/ IsLive(file) /\ file'.count = file.count + 1
                              /\ file'.condition = file.condition
              \/ file.condition = "expired" /\ file'.condition = "expired"
              \/ ~IsLive(file) /\ file'.count = 1 /\ file'.condition = "endless" ]_fileVars
=============================================================================
