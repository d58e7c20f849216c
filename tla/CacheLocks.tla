------------------------------ MODULE CacheLocks ------------------------------
(***************************************************************************)
(* One Lock (lock.ts) and the callers that want it: jobs behind               *)
(* WithoutOverlapping, which try once, or callers of rememberViaLock()        *)
(* (cache-store-helpers.ts), which wait, look again and, when they have       *)
(* waited long enough, go on without the lock.  Any of them may die.          *)
(***************************************************************************)
EXTENDS CacheStore

CONSTANTS
    Callers,    \* jobs or requests; each call makes a Lock with an owner of its own
    LockFor,    \* automaticReleaseAfterSeconds: one of these
    Patience,   \* maximumWaitForSeconds of rememberViaLock()
    ValueTtl    \* ttlSeconds of the remembered value

ASSUME CacheLocksAssumption ==
    /\ LockFor \subseteq Nat /\ Patience \in Nat /\ ValueTtl \in Nat
    /\ {"lock", "value"} \subseteq Keys /\ Absent \notin Entries(Callers)

VARIABLES
    remembering,   \* whether the callers are those of rememberViaLock()
    lockFor,       \* their automaticReleaseAfterSeconds
    spot,          \* caller -> where it stands
    patience,      \* caller -> the seconds it will still wait
    \* History, read by no action:
    expired,       \* callers whose lock expired while they had it
    strays         \* what has happened so far that lets two compute at once

lockVars == <<cache, remembering, lockFor, spot, patience, expired, strays>>

(***************************************************************************)
(* idle       between calls                  inside     runs the callback       *)
(* waiting    in acquire()                   leaving    about to release()      *)
(* holding    acquired: about to look again  outside    computes without it     *)
(* late       timed out: about to look again                                    *)
(***************************************************************************)
Having == {"holding", "inside", "leaving"}
Spots == Having \cup {"idle", "waiting", "late", "outside"}

LocksInit ==
    /\ remembering \in BOOLEAN
    /\ lockFor \in LockFor
    /\ spot = [c \in Callers |-> "idle"]
    /\ patience = [c \in Callers |-> 0]
    /\ expired = {}
    /\ strays = {}

Step(c, from, to) ==
    /\ spot[c] = from
    /\ spot' = [spot EXCEPT ![c] = to]

\* Mutant: without the floor, a lifetime of 0 seconds is none at all.
TtlUnfloored(seconds) == IF seconds = 0 THEN Forever ELSE seconds

LockTtl(seconds) == IF seconds < 1 THEN 1 ELSE seconds

-----------------------------------------------------------------------------

\* handle() makes the lock; rememberViaLock() only after a miss.
Call(c) ==
    /\ remembering => ~Has("value")
    /\ Step(c, "idle", "waiting")
    /\ patience' = [patience EXCEPT ![c] = IF remembering THEN Patience ELSE 0]
    /\ UNCHANGED <<cache, remembering, lockFor, expired, strays>>

Acquire(c) ==
    /\ ~Has("lock")
    /\ Step(c, "waiting", IF remembering THEN "holding" ELSE "inside")
    /\ Add("lock", c, LockTtl(lockFor))
    /\ UNCHANGED <<remembering, lockFor, patience, expired, strays>>

\* LockTimeoutError: a job is released or skipped, rememberViaLock() looks again.
TimeOut(c) ==
    /\ Has("lock") /\ patience[c] = 0
    /\ Step(c, "waiting", IF remembering THEN "late" ELSE "idle")
    /\ UNCHANGED <<cache, remembering, lockFor, patience, expired, strays>>

\* Mutant: what the caller read before it waited is still so.
LooksOnce == TRUE

StillMissing == ~Has("value")

LookAgain(c) ==
    /\ Step(c, "holding", IF StillMissing THEN "inside" ELSE "leaving")
    /\ UNCHANGED <<cache, remembering, lockFor, patience, expired, strays>>

LookLate(c) ==
    /\ Step(c, "late", IF StillMissing THEN "outside" ELSE "idle")
    /\ strays' = IF StillMissing THEN strays \cup {"outside"} ELSE strays
    /\ UNCHANGED <<cache, remembering, lockFor, patience, expired>>

\* The job ends; compute() stores its value, unless the callback throws.
Compute(c) ==
    /\ Step(c, "inside", "leaving") \/ Step(c, "outside", "idle")
    /\ \/ remembering /\ Put("value", c, ValueTtl)
       \/ UNCHANGED cache
    /\ UNCHANGED <<remembering, lockFor, patience, expired, strays>>

Release(c) ==
    /\ Step(c, "leaving", "idle")
    /\ ReleaseLock("lock", c)
    /\ expired' = expired \ {c}
    /\ UNCHANGED <<remembering, lockFor, patience, strays>>

Dies(c) ==
    /\ spot[c] # "idle"
    /\ spot' = [spot EXCEPT ![c] = "idle"]
    /\ expired' = expired \ {c}
    /\ UNCHANGED <<cache, remembering, lockFor, patience, strays>>

\* A caller that never came back may come back as another, with the same name: it has
\* no lock of its own before the old one is gone.
LockSecond ==
    /\ cache' = Later
    /\ patience' = [c \in Callers |-> IF patience[c] = 0 THEN 0 ELSE patience[c] - 1]
    /\ expired' = expired \cup
          {c \in Callers : spot[c] \in Having /\ Holds("lock", c) /\ Later["lock"] = Absent}
    /\ strays' = IF expired' # expired THEN strays \cup {"expired"} ELSE strays
    /\ UNCHANGED <<remembering, lockFor, spot>>

Proceed(c) == Acquire(c) \/ TimeOut(c) \/ LookAgain(c) \/ LookLate(c)

LocksNext ==
    \/ \E c \in Callers : Call(c) \/ Proceed(c) \/ Compute(c) \/ Release(c) \/ Dies(c)
    \/ LockSecond

LocksSpec == StoreInit /\ LocksInit /\ [][LocksNext]_lockVars

-----------------------------------------------------------------------------
(* Properties *)

LocksTypeOK ==
    /\ lockFor \in LockFor
    /\ spot \in [Callers -> Spots]
    /\ patience \in [Callers -> 0..Patience]
    /\ expired \subseteq Callers
    /\ Has("lock") => cache["lock"].value \in Callers

\* A caller has its lock until it releases it or it expires, whatever other callers
\* release (lock.ts, release): so two are inside only if one's lock has expired.
HolderHolds ==
    \A c \in Callers : spot[c] \in Having /\ c \notin expired => Holds("lock", c)

\* Nobody computes a value that is there already, unless a lock expired or a caller
\* waited too long for it (cache-store-helpers.ts, rememberViaLock).
SingleFlight ==
    remembering /\ Has("value") /\ strays = {} =>
        \A c \in Callers : spot[c] # "inside"

\* A lock whose holder died does not stay, however short the lifetime asked for
\* (lock.ts, acquire): nobody is locked out for good.
LockReopens == Has("lock") ~> ~Has("lock")
=============================================================================
