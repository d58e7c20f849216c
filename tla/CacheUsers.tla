------------------------------ MODULE CacheUsers ------------------------------
(***************************************************************************)
(* The users of the cache, each with keys of its own, and a store under it.   *)
(* A call to the store touches one key, so what one user does is out of the   *)
(* others' sight: a behaviour has one of them, and TLC sees all in one run.   *)
(***************************************************************************)
EXTENDS RateLimits, CachedMap, UniqueJobs, CacheLocks, FileCache

VARIABLE use   \* whose behaviour this is

usersVars == <<limitVars, mapVars, uniqueVars, lockVars, fileVars, use>>

Init ==
    /\ use \in {"limit", "map", "unique", "locks", "file"}
    /\ StoreInit /\ LimitInit /\ MapInit /\ UniqueInit /\ LocksInit /\ FileInit
    \* what the others are set to does not matter
    /\ use # "limit" => lookers = {}
    /\ use # "map" => listening
    /\ use # "unique" => unique = "untilFinished"
    /\ use # "locks" => remembering /\ \A seconds \in LockFor : lockFor <= seconds
    /\ use # "file" => usage = "lock"

\* All but the cache.
limitOwn == <<lookers, step, admitted, erased>>
mapOwn == <<listening, table, unsaved, at, inTransaction, todo, copy, writes, mishaps>>
uniqueOwn == <<unique, pushing, copies, hand, ending, started, reclaimed, lapses>>
lockOwn == <<remembering, lockFor, spot, patience, expired, strays>>

Next ==
    /\ UNCHANGED use
    /\ \/ use = "limit" /\ LimitNext /\ UNCHANGED <<mapOwn, uniqueOwn, lockOwn, fileVars>>
       \/ use = "map" /\ MapNext /\ UNCHANGED <<limitOwn, uniqueOwn, lockOwn, fileVars>>
       \/ use = "unique" /\ UniqueNext /\ UNCHANGED <<limitOwn, mapOwn, lockOwn, fileVars>>
       \/ use = "locks" /\ LocksNext /\ UNCHANGED <<limitOwn, mapOwn, uniqueOwn, fileVars>>
       \/ use = "file" /\ FileNext /\ UNCHANGED <<limitVars, mapOwn, uniqueOwn, lockOwn>>

\* Time passes.  A call on the limiter or the map that has begun goes on to its end, and a
\* transaction is not left open; a caller of the lock that has only the store to call does
\* so.  Nothing makes a callback end, a lock's holder live to release it, a dispatcher push
\* or a worker work.
Fairness ==
    /\ WF_limitVars(use = "limit" /\ LimitSecond)
    /\ \A c \in Clients : WF_limitVars(use = "limit" /\ Finish(c))
    /\ WF_mapVars(use = "map" /\ MapSecond)
    /\ \A s \in Sessions :
          WF_mapVars(use = "map" /\ Go(s)) /\ WF_mapVars(use = "map" /\ End(s))
    /\ WF_uniqueVars(use = "unique" /\ UniqueSecond)
    /\ WF_lockVars(use = "locks" /\ LockSecond)
    /\ \A c \in Callers : WF_lockVars(use = "locks" /\ Proceed(c))

Spec == Init /\ [][Next]_usersVars /\ Fairness

-----------------------------------------------------------------------------

\* Every user's variables have their types, and an entry has time left or no expiry.
CacheTypeOK ==
    /\ LimitTypeOK /\ MapTypeOK /\ LocksTypeOK /\ FileTypeOK
    /\ hand \in [Pool -> Copies \cup {Absent}]
    /\ \A i \in Copies : copies[i] = "reserved" <=> \E w \in Pool : hand[w] = i
    /\ \A k \in Keys : Has(k) => cache[k].ttl \in Nat \cup {Forever}
=============================================================================
