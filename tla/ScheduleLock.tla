----------------------------- MODULE ScheduleLock -----------------------------
(***************************************************************************)
(* The lock file behind withoutOverlapping() (schedule-lock.ts) and the way   *)
(* runTask() uses it (run-due-tasks.ts): processes that cron starts try to    *)
(* take the lock of one task, run it, and release the lock.                   *)
(*                                                                           *)
(* A step is one file operation with the in-memory work behind it.  A file    *)
(* is known by the process that created it: whoever has it open goes on       *)
(* writing to it when its name has been removed or given to another file.     *)
(***************************************************************************)
EXTENDS Integers, FiniteSets

CONSTANTS
    Processes,   \* BOUND: the attempts made, one a process
    Expiry,      \* expiresAfterMs
    Stale,       \* RECLAIM_STALE_MS
    Scenarios,   \* sets of mishaps; one of them may happen
    None,        \* no file
    MaxTime,     \* BOUND: the clock stops here
    MaxCrashes   \* BOUND: processes killed

(***************************************************************************)
(* torn       others act, or the writer dies, between the creation of a file  *)
(*            and the write of its content                                    *)
(* meanwhile  a task ends while another process is in acquire()               *)
(* stall      a task outlives its lock, or a reclaimer its marker             *)
(* reclaimer  a process dies inside the critical section of reclaim()         *)
(***************************************************************************)
Mishaps == {"torn", "meanwhile", "stall", "reclaimer"}

ASSUME ScheduleLockAssumption ==
    /\ None \notin Processes
    /\ Expiry \in Nat \ {0} /\ Stale \in Nat \ {0}
    /\ Scenarios \subseteq SUBSET Mishaps
    /\ MaxTime \in Nat /\ MaxCrashes \in Nat

VARIABLES
    now,
    allowed,    \* the mishaps of this behaviour
    pc,         \* process -> where it stands
    lock,       \* whose file is at the lock's path, or None
    due,        \* process -> expiresAt of the record it writes
    written,    \* processes whose record is in their lock file
    marker,     \* whose file is at the reclaim marker's path, or None
    markedAt,   \* process -> when its marker was created, then the time it holds
    stamped,    \* processes whose marker has its time in it
    crashes

lockVars == <<lock, due, written>>
markerVars == <<marker, markedAt, stamped>>
vars == <<now, allowed, pc, lockVars, markerVars, crashes>>

(***************************************************************************)
(* new        about to open the lock file       checking   about to re-read    *)
(* writing    lock file created, empty          removing   about to remove the *)
(* looking    about to read the record                     lock file           *)
(* claiming   about to create the marker        reopening  about to create it  *)
(* waiting    about to read another's marker    rewriting  created, empty      *)
(* clearing   about to remove a stale one       yielding   lost, about to      *)
(* retrying   about to create it once more                 remove the marker   *)
(* stamping   marker created, empty             winning    won, likewise       *)
(* running    acquire() returned true           over       through             *)
(* dead       killed                                                           *)
(***************************************************************************)
Section == {"stamping", "checking", "removing", "reopening", "rewriting", "yielding", "winning"}
Acquiring == Section \cup {"looking", "claiming", "waiting", "clearing", "retrying"}
Empty == {"writing", "stamping", "rewriting"}
Places == Acquiring \cup {"new", "writing", "running", "over", "dead"}

Init ==
    /\ now = 0
    /\ allowed \in Scenarios
    /\ pc = [p \in Processes |-> "new"]
    /\ lock = None /\ due = [p \in Processes |-> 0] /\ written = {}
    /\ marker = None /\ markedAt = [p \in Processes |-> 0] /\ stamped = {}
    /\ crashes = 0

Go(p, place) == pc' = [pc EXCEPT ![p] = place]

-----------------------------------------------------------------------------
(* acquire() *)

\* Mutant: the sign of the expiry.
DueBefore == now - Expiry

DueAt == now + Expiry

\* write(): open(..., "wx"), or EEXIST.
CreateLock(p, from, created, exists) ==
    /\ pc[p] = from
    /\ IF lock = None
       THEN lock' = p /\ due' = [due EXCEPT ![p] = DueAt] /\ Go(p, created)
       ELSE Go(p, exists) /\ UNCHANGED <<lock, due>>
    /\ UNCHANGED <<now, allowed, written, markerVars, crashes>>

\* write(): the record.
WriteLock(p, from, to) ==
    /\ pc[p] = from
    /\ written' = written \cup {p}
    /\ Go(p, to)
    /\ UNCHANGED <<now, allowed, lock, due, markerVars, crashes>>

\* A record that can be read and has not expired.
Live == lock \in written /\ now < due[lock]

Look(p) ==
    /\ pc[p] = "looking"
    /\ Go(p, IF Live THEN "over" ELSE "claiming")
    /\ UNCHANGED <<now, allowed, lockVars, markerVars, crashes>>

-----------------------------------------------------------------------------
(* reclaim() *)

\* createMarker(): open(..., "wx"), or EEXIST.
CreateMarker(p, from, exists) ==
    /\ pc[p] = from
    /\ IF marker = None
       THEN marker' = p /\ markedAt' = [markedAt EXCEPT ![p] = now] /\ Go(p, "stamping")
       ELSE Go(p, exists) /\ UNCHANGED <<marker, markedAt>>
    /\ UNCHANGED <<now, allowed, lockVars, stamped, crashes>>

\* createMarker(): the time.
StampMarker(p) ==
    /\ pc[p] = "stamping"
    /\ markedAt' = [markedAt EXCEPT ![p] = now]
    /\ stamped' = stamped \cup {p}
    /\ Go(p, "checking")
    /\ UNCHANGED <<now, allowed, lockVars, marker, crashes>>

Old(m) == now - markedAt[m] >= Stale

\* Mutants: an empty marker reads as one of 1970; markers never age.
IsStaleOrEmpty(m) == m \notin stamped \/ Old(m)
IsStaleNever(m) == FALSE

\* A marker that cannot be parsed counts as just created.
IsStale(m) == m \in stamped /\ Old(m)

\* clearStaleMarker(), the read: gone, live, or left by a process that died.
ReadMarker(p) ==
    /\ pc[p] = "waiting"
    /\ Go(p, IF marker = None THEN "retrying"
             ELSE IF IsStale(marker) THEN "clearing" ELSE "over")
    /\ UNCHANGED <<now, allowed, lockVars, markerVars, crashes>>

\* clearStaleMarker(), the rm: whatever is at the path by now.
ClearMarker(p) ==
    /\ pc[p] = "clearing"
    /\ marker' = None
    /\ Go(p, "retrying")
    /\ UNCHANGED <<now, allowed, lockVars, markedAt, stamped, crashes>>

\* Mutant: without the second look.
AbandonedAnyway == TRUE

\* Under exclusion: no record, or one that has expired.
Abandoned == ~Live

Recheck(p) ==
    /\ pc[p] = "checking"
    /\ Go(p, IF Abandoned THEN "removing" ELSE "yielding")
    /\ UNCHANGED <<now, allowed, lockVars, markerVars, crashes>>

\* rm of the lock file: whatever is at the path by now.
RemoveLock(p) ==
    /\ pc[p] = "removing"
    /\ lock' = None
    /\ Go(p, "reopening")
    /\ UNCHANGED <<now, allowed, due, written, markerVars, crashes>>

\* finally: rm of the marker.
Leave(p, from, to) ==
    /\ pc[p] = from
    /\ marker' = None
    /\ Go(p, to)
    /\ UNCHANGED <<now, allowed, lockVars, markedAt, stamped, crashes>>

-----------------------------------------------------------------------------
(* The rest of runTask(), and what surrounds it *)

\* release(), when the task has run: rm of the lock file, whoever's it is by now.
Release(p) ==
    /\ pc[p] = "running"
    /\ "meanwhile" \in allowed \/ \A q \in Processes : pc[q] \notin Acquiring
    /\ lock' = None
    /\ Go(p, "over")
    /\ UNCHANGED <<now, allowed, due, written, markerVars, crashes>>

Crash(p) ==
    /\ crashes < MaxCrashes
    /\ crashes' = crashes + 1
    /\ pc[p] \notin {"new", "over", "dead"}
    /\ pc[p] \in Empty => "torn" \in allowed
    /\ pc[p] \in Section \ {"stamping"} => "reclaimer" \in allowed
    /\ Go(p, "dead")
    /\ UNCHANGED <<now, allowed, lockVars, markerVars>>

\* Whether a task or a reclaimer is past its time at `t'.
Overdue(p, t) ==
    \/ pc[p] \in {"writing", "rewriting", "winning", "running"} /\ due[p] <= t
    \/ pc[p] \in Section \ {"stamping"} /\ markedAt[p] + Stale <= t

Second ==
    /\ now < MaxTime
    /\ now' = now + 1
    /\ "stall" \in allowed \/ \A p \in Processes : ~Overdue(p, now + 1)
    /\ UNCHANGED <<allowed, pc, lockVars, markerVars, crashes>>

\* No process but `p' has a file of its own that is still empty.
Undisturbed(p) ==
    "torn" \in allowed \/ \A q \in Processes \ {p} : pc[q] \notin Empty

Acquire(p) ==
    \/ CreateLock(p, "new", "writing", "looking") \/ WriteLock(p, "writing", "running")
    \/ Look(p)
    \/ CreateMarker(p, "claiming", "waiting") \/ StampMarker(p)
    \/ ReadMarker(p) \/ ClearMarker(p) \/ CreateMarker(p, "retrying", "over")
    \/ Recheck(p) \/ RemoveLock(p)
    \/ CreateLock(p, "reopening", "rewriting", "yielding")
    \/ WriteLock(p, "rewriting", "winning")
    \/ Leave(p, "yielding", "over") \/ Leave(p, "winning", "running")

Advance(p) == Undisturbed(p) /\ Acquire(p)

Next ==
    \/ \E p \in Processes :
          \/ Advance(p)
          \/ Undisturbed(p) /\ (Release(p) \/ Crash(p))
    \/ Second

Spec == Init /\ [][Next]_vars

\* An acquire() that has begun goes on until it ends or its process dies.
Fairness == \A p \in Processes : WF_vars(Advance(p))

FairSpec == Spec /\ Fairness

-----------------------------------------------------------------------------
(* Properties *)

\* The types of the files and of the processes.
TypeOK ==
    /\ now \in 0..MaxTime /\ allowed \in Scenarios
    /\ pc \in [Processes -> Places]
    /\ lock \in Processes \cup {None} /\ marker \in Processes \cup {None}
    /\ due \in [Processes -> 0..(MaxTime + Expiry)] /\ written \subseteq Processes
    /\ markedAt \in [Processes -> 0..MaxTime] /\ stamped \subseteq Processes
    /\ crashes \in 0..MaxCrashes

\* Exactly one process at a time is inside the critical section of reclaim(), torn files
\* and tasks that end meanwhile notwithstanding.  Where a process died inside it, or
\* stays in it for RECLAIM_STALE_MS, the code gives this up (reclaim()).
OneReclaimer ==
    allowed \cap {"stall", "reclaimer"} = {} =>
        \A p, q \in Processes : p # q => ~(pc[p] \in Section /\ pc[q] \in Section)

\* A task does not overlap itself.
NoOverlap == \A p, q \in Processes : p # q => ~(pc[p] = "running" /\ pc[q] = "running")

\* What the protocol was built for: where locks are only ever left behind by processes
\* that died at work, the reclaimers of one expired lock and the newcomers on the fast
\* path never both run the task (acquire(), reclaim()).
ReclaimExcludes == allowed = {} => NoOverlap

\* Acquisition is atomic: two processes run a task at once only when one outlived its
\* lock, or a reclaimer had died.
AcquireExcludes == allowed \cap {"stall", "reclaimer"} = {} => NoOverlap

\* Nobody is in the way of `p': the others are through or dead, and what they left has
\* aged past its limits.
Free(p) ==
    /\ pc[p] = "new"
    /\ \A q \in Processes \ {p} : pc[q] \in {"over", "dead"}
    /\ ~Live
    /\ marker = None \/ Old(marker)

\* A crashed process does not block its task for ever: an attempt that nobody is in the
\* way of gets the lock (schedule-locker.ts, acquire).
CrashNeverBlocks == \A p \in Processes : Free(p) ~> pc[p] \in {"running", "dead"}

\* The same, unless a marker was left empty.
Recovers ==
    \A p \in Processes : "torn" \notin allowed /\ Free(p) ~> pc[p] \in {"running", "dead"}
=============================================================================
