------------------------------ MODULE UniqueJobs ------------------------------
(***************************************************************************)
(* The uniqueness lock of one unique job (unique-jobs.ts): taken by whoever   *)
(* dispatches the job (queue-manager.ts), given back by the worker that ends  *)
(* it (queue-work.ts), neither of which knows of the other.  The queue is     *)
(* what it promises: a copy is handed to one worker, and comes back if that   *)
(* worker dies.                                                              *)
(***************************************************************************)
EXTENDS CacheStore, FiniteSets

CONSTANTS
    Dispatchers,   \* processes that dispatch the job
    Pool,          \* worker processes
    UniqueFor,     \* uniqueFor(), seconds
    Copies         \* BOUND: copies of the job ever pushed

ASSUME UniqueJobsAssumption ==
    /\ UniqueFor \in Nat /\ Absent \notin Copies
    /\ "unique" \in Keys /\ Absent \notin Entries(Dispatchers)

VARIABLES
    unique,      \* static unique
    pushing,     \* dispatchers that hold the lock and have not pushed yet
    copies,      \* copy -> where it stands
    hand,        \* worker -> the copy it has reserved, or Absent
    ending,      \* workers whose copy is gone and whose release is due
    started,     \* workers whose handler is running
    reclaimed,   \* copies whose worker died, which may have burned their attempts
    lapses       \* History, read by no action: what has happened so far that takes a
                 \* lock from its job, or a job from its lock

uniqueVars == <<cache, unique, pushing, copies, hand, ending, started, reclaimed, lapses>>

UniqueInit ==
    /\ unique \in {"untilFinished", "untilProcessing"}
    /\ pushing = {} /\ ending = {} /\ started = {} /\ reclaimed = {}
    /\ copies = [i \in Copies |-> "unborn"]
    /\ hand = [w \in Pool |-> Absent]
    /\ lapses = {}

Pending == {i \in Copies : copies[i] \in {"queued", "reserved"}}

Lapse(what) == lapses' = lapses \cup {what}

-----------------------------------------------------------------------------
(* QueueManager.dispatch() *)

\* Mutant: the lock has no lifetime.
NoLifetime == Forever

\* uniqueFor(), or the connection's, or an hour.
UniqueTtl == UniqueFor

\* acquireUniqueLock(): one try; a lock that is held drops the dispatch.
Dispatch(d) ==
    /\ d \notin pushing
    /\ ~Has("unique")
    /\ Add("unique", d, UniqueTtl)
    /\ pushing' = pushing \cup {d}
    /\ UNCHANGED <<unique, copies, hand, ending, started, reclaimed, lapses>>

Push(d) ==
    /\ d \in pushing
    /\ \E i \in Copies :
          /\ copies[i] = "unborn"
          /\ copies' = [copies EXCEPT ![i] = "queued"]
    /\ pushing' = pushing \ {d}
    /\ UNCHANGED <<cache, unique, hand, ending, started, reclaimed, lapses>>

\* The push throws, the transaction it waits for rolls back, the process dies.
NeverPush(d) ==
    /\ d \in pushing
    /\ pushing' = pushing \ {d}
    /\ Lapse("unpushed")
    /\ UNCHANGED <<cache, unique, copies, hand, ending, started, reclaimed>>

-----------------------------------------------------------------------------
(* processJob() *)

Reserve(w) ==
    /\ hand[w] = Absent /\ w \notin ending
    /\ \E i \in Copies :
          /\ copies[i] = "queued"
          /\ copies' = [copies EXCEPT ![i] = "reserved"]
          /\ hand' = [hand EXCEPT ![w] = i]
    /\ UNCHANGED <<cache, unique, pushing, ending, started, reclaimed, lapses>>

Start(w) ==
    /\ hand[w] # Absent /\ w \notin started
    /\ started' = started \cup {w}
    /\ IF unique = "untilProcessing" THEN Forget("unique") ELSE UNCHANGED cache
    /\ UNCHANGED <<unique, pushing, copies, hand, ending, reclaimed, lapses>>

Leave(w, place) ==
    /\ copies' = [copies EXCEPT ![hand[w]] = place]
    /\ hand' = [hand EXCEPT ![w] = Absent]
    /\ started' = started \ {w}

\* Mutant: the lock is given back before the job is gone.
DueWhen(place) == place = "queued"

\* delete() and fail() end the job, release() does not.
ReleaseDue(place) == place # "queued" /\ unique = "untilFinished"

\* Succeeded, failed for good, or released to be tried again; failed before the start
\* if its attempts are burned.
Leaves(w, place) ==
    /\ hand[w] # Absent
    /\ w \in started \/ (place = "failed" /\ hand[w] \in reclaimed)
    /\ Leave(w, place)
    /\ ending' = IF ReleaseDue(place) THEN ending \cup {w} ELSE ending
    /\ UNCHANGED <<cache, unique, pushing, reclaimed, lapses>>

\* A payload that cannot be decoded, an unknown class: failJob() without a job.
LeavesUndecoded(w) ==
    /\ hand[w] # Absent /\ w \notin started
    /\ Leave(w, "failed")
    /\ Lapse("undecoded")
    /\ UNCHANGED <<cache, unique, pushing, ending, reclaimed>>

\* Mutant: only the dispatcher's own token would do, and a worker has none.
ForceReleaseOwned(w) == ReleaseLock("unique", w)

ForceRelease(w) == Forget("unique")

\* releaseUniqueLock(): forceRelease(), whoever holds the lock by then.
EndUnique(w) ==
    /\ w \in ending
    /\ ending' = ending \ {w}
    /\ ForceRelease(w)
    /\ UNCHANGED <<unique, pushing, copies, hand, started, reclaimed, lapses>>

\* A worker dies.  Its copy comes back once its reservation has expired.
WorkerDies(w) ==
    /\ hand[w] # Absent \/ w \in ending
    /\ IF hand[w] # Absent THEN Leave(w, "queued") ELSE UNCHANGED <<copies, hand, started>>
    /\ ending' = ending \ {w}
    /\ reclaimed' = IF hand[w] # Absent THEN reclaimed \cup {hand[w]} ELSE reclaimed
    /\ Lapse("died")
    /\ UNCHANGED <<cache, unique, pushing>>

\* queue:retry: a failed copy goes back without a lock.
Retry(i) ==
    /\ copies[i] = "failed"
    /\ copies' = [copies EXCEPT ![i] = "queued"]
    /\ reclaimed' = reclaimed \ {i}
    /\ Lapse("retried")
    /\ UNCHANGED <<cache, unique, pushing, hand, ending, started>>

UniqueSecond ==
    /\ cache' = Later
    /\ IF /\ Has("unique") /\ Later["unique"] = Absent
          /\ pushing # {} \/ Pending # {} \/ ending # {}
       THEN Lapse("expired") ELSE UNCHANGED lapses
    /\ UNCHANGED <<unique, pushing, copies, hand, ending, started, reclaimed>>

UniqueNext ==
    \/ \E d \in Dispatchers : Dispatch(d) \/ Push(d) \/ NeverPush(d)
    \/ \E w \in Pool :
          \/ Reserve(w) \/ Start(w)
          \/ Leaves(w, "done") \/ Leaves(w, "failed") \/ Leaves(w, "queued")
          \/ LeavesUndecoded(w) \/ EndUnique(w) \/ WorkerDies(w)
    \/ \E i \in Copies : Retry(i)
    \/ UniqueSecond

UniqueSpec == StoreInit /\ UniqueInit /\ [][UniqueNext]_uniqueVars

-----------------------------------------------------------------------------
(* Properties *)

\* untilFinished: one copy is pending at most, while being pushed, queued or run, as
\* long as the lock outlives its job and no failed copy is retried (unique-jobs.ts).
OnePending ==
    unique = "untilFinished" /\ lapses \cap {"expired", "retried"} = {}
    => Cardinality(Pending) + Cardinality(pushing) <= 1

\* A dispatch is dropped only where the job is under way: the lock is never held for a
\* job that is not there, unless a push failed, a worker died or a copy could not be
\* decoded (queue-manager.ts, dispatch).
DropJustified ==
    Has("unique") =>
        \/ Pending # {} \/ pushing # {} \/ ending # {}
        \/ lapses \cap {"unpushed", "died", "undecoded"} # {}

\* A lock that is left behind ends: uniqueFor() is the crash safety net.
Reopens == Has("unique") /\ Pending = {} ~> ~Has("unique") \/ Pending # {}
=============================================================================
