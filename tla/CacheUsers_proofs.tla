--------------------------- MODULE CacheUsers_proofs ---------------------------
(***************************************************************************)
(* Proofs about the users of the cache, for any number of clients, callers,   *)
(* dispatchers, workers and sessions: a lock is its holder's until it is      *)
(* released or expires; no counter is left without an expiry, and a limit is  *)
(* passed only by what its two named gaps let through; how many copies of a   *)
(* unique job are pending; and a cached map is stale only for a named reason. *)
(***************************************************************************)
EXTENDS FileCache_proofs, CacheUsers, FiniteSetTheorems

\* Time takes entries away and changes the value of none.
LEMMA AgedEntry ==
    ASSUME NEW values, Absent \notin Entries(values), NEW e \in Entries(values) \cup {Absent}
    PROVE  /\ Aged(e) \in Entries(values) \cup {Absent}
           /\ Aged(e) # Absent => e # Absent /\ Aged(e).value = e.value
                                  /\ (Aged(e).ttl = Forever => e.ttl = Forever)
  BY DEF Aged, Entry, Entries, Forever

LEMMA LaterEntries ==
    ASSUME NEW values, Absent \notin Entries(values),
           cache \in [Keys -> Entries(values) \cup {Absent}], cache' = Later
    PROVE  /\ cache' \in [Keys -> Entries(values) \cup {Absent}]
           /\ \A k \in Keys : cache'[k] = Aged(cache[k])
  BY AgedEntry DEF Later

-----------------------------------------------------------------------------
(* Locks, and remember() under one *)

\* LocksTypeOK is not inductive without the type of the whole cache.
LocksTyped ==
    /\ cache \in [Keys -> Entries(Callers) \cup {Absent}]
    /\ remembering \in BOOLEAN
    /\ lockFor \in LockFor
    /\ spot \in [Callers -> Spots]
    /\ patience \in [Callers -> 0..Patience]
    /\ expired \subseteq Callers

\* LockTtl is a lifetime.
LEMMA LockTtlType == ASSUME LocksTyped PROVE LockTtl(lockFor) \in Nat
  BY CacheLocksAssumption DEF LocksTyped, LockTtl

LEMMA LocksInitTyped == StoreInit /\ LocksInit => LocksTyped
  BY CacheLocksAssumption DEF StoreInit, LocksInit, LocksTyped, Spots

\* Every step keeps the types: what is stored is an entry of a caller.
LEMMA LocksStepTyped == LocksTyped /\ [LocksNext]_lockVars => LocksTyped'
<1> SUFFICES ASSUME LocksTyped, [LocksNext]_lockVars PROVE LocksTyped'
  OBVIOUS
<1> USE CacheLocksAssumption
<1>1. ASSUME NEW c \in Callers, Call(c) PROVE LocksTyped'
  BY <1>1 DEF Call, Step, LocksTyped, Spots
<1>2. ASSUME NEW c \in Callers, Acquire(c) PROVE LocksTyped'
  <2>1. Entry(c, LockTtl(lockFor)) \in Entries(Callers)
    BY LockTtlType DEF Entry, Entries
  <2>2. cache' \in [Keys -> Entries(Callers) \cup {Absent}]
    BY <1>2, <2>1 DEF Acquire, Add, Put, LocksTyped
  <2> QED BY <1>2, <2>2 DEF Acquire, Step, LocksTyped, Spots, Having
<1>3. ASSUME NEW c \in Callers, TimeOut(c) PROVE LocksTyped'
  BY <1>3 DEF TimeOut, Step, LocksTyped, Spots
<1>4. ASSUME NEW c \in Callers, LookAgain(c) PROVE LocksTyped'
  BY <1>4 DEF LookAgain, Step, LocksTyped, Spots, Having
<1>5. ASSUME NEW c \in Callers, LookLate(c) PROVE LocksTyped'
  BY <1>5 DEF LookLate, Step, LocksTyped, Spots
<1>6. ASSUME NEW c \in Callers, Compute(c) PROVE LocksTyped'
  <2>1. Entry(c, ValueTtl) \in Entries(Callers)
    BY DEF Entry, Entries
  <2>2. cache' \in [Keys -> Entries(Callers) \cup {Absent}]
    BY <1>6, <2>1 DEF Compute, Put, LocksTyped
  <2> QED BY <1>6, <2>2 DEF Compute, Step, LocksTyped, Spots, Having
<1>7. ASSUME NEW c \in Callers, Release(c) PROVE LocksTyped'
  <2>1. cache' \in [Keys -> Entries(Callers) \cup {Absent}]
    BY <1>7 DEF Release, ReleaseLock, Forget, LocksTyped
  <2> QED BY <1>7, <2>1 DEF Release, Step, LocksTyped, Spots
<1>8. ASSUME NEW c \in Callers, Dies(c) PROVE LocksTyped'
  BY <1>8 DEF Dies, LocksTyped, Spots
<1>9. CASE LockSecond
  BY <1>9, LaterEntries, CacheLocksAssumption DEF LockSecond, LocksTyped
<1>10. CASE UNCHANGED lockVars
  BY <1>10 DEF lockVars, LocksTyped
<1> QED
  BY <1>1, <1>2, <1>3, <1>4, <1>5, <1>6, <1>7, <1>8, <1>9, <1>10 DEF LocksNext, Proceed

-----------------------------------------------------------------------------

\* At most one caller has the lock, but for those it expired under: they hold one entry.
LEMMA InitHolds == StoreInit /\ LocksInit => HolderHolds
  BY DEF LocksInit, HolderHolds, Having

\* The lock of a holder is touched by its own release and by its expiry only: others that
\* acquire find it there, and what they release is theirs.
LEMMA StepHolds == LocksTyped /\ HolderHolds /\ [LocksNext]_lockVars => HolderHolds'
<1> SUFFICES ASSUME LocksTyped, HolderHolds, [LocksNext]_lockVars,
                    NEW d \in Callers, (spot[d] \in Having /\ d \notin expired)'
             PROVE  Holds("lock", d)'
  BY DEF HolderHolds
<1> USE CacheLocksAssumption
<1>1. ASSUME NEW c \in Callers, Call(c) PROVE Holds("lock", d)'
  BY <1>1 DEF Call, Step, LocksTyped, Having, HolderHolds, Holds, Has
<1>2. ASSUME NEW c \in Callers, Acquire(c) PROVE Holds("lock", d)'
  <2>1. /\ cache["lock"] = Absent
        /\ cache' = [cache EXCEPT !["lock"] = Entry(c, LockTtl(lockFor))]
    BY <1>2 DEF Acquire, Add, Put, Has
  <2>2. Entry(c, LockTtl(lockFor)) \in Entries(Callers)
    BY LockTtlType DEF Entry, Entries
  <2>3. d = c
    BY <1>2, <2>1 DEF Acquire, Step, LocksTyped, HolderHolds, Holds, Has
  <2> QED BY <2>1, <2>2, <2>3 DEF Holds, Has, LocksTyped, Entry
<1>3. ASSUME NEW c \in Callers, TimeOut(c) PROVE Holds("lock", d)'
  BY <1>3 DEF TimeOut, Step, LocksTyped, Having, HolderHolds, Holds, Has
<1>4. ASSUME NEW c \in Callers, LookAgain(c) PROVE Holds("lock", d)'
  BY <1>4 DEF LookAgain, Step, LocksTyped, Having, HolderHolds, Holds, Has
<1>5. ASSUME NEW c \in Callers, LookLate(c) PROVE Holds("lock", d)'
  BY <1>5 DEF LookLate, Step, LocksTyped, Having, HolderHolds, Holds, Has
<1>6. ASSUME NEW c \in Callers, Compute(c) PROVE Holds("lock", d)'
  <2>1. cache'["lock"] = cache["lock"]
    BY <1>6 DEF Compute, Put, LocksTyped
  <2>2. spot[d] \in Having /\ d \notin expired
    BY <1>6 DEF Compute, Step, LocksTyped, Having
  <2> QED BY <2>1, <2>2 DEF HolderHolds, Holds, Has
<1>7. ASSUME NEW c \in Callers, Release(c) PROVE Holds("lock", d)'
  <2>1. d # c
    BY <1>7 DEF Release, Step, LocksTyped, Having
  <2>2. Holds("lock", d)
    BY <1>7, <2>1 DEF Release, Step, LocksTyped, HolderHolds
  <2>3. cache' = cache
    BY <1>7, <2>1, <2>2 DEF Release, ReleaseLock, Holds
  <2> QED BY <2>2, <2>3 DEF Holds, Has
<1>8. ASSUME NEW c \in Callers, Dies(c) PROVE Holds("lock", d)'
  BY <1>8 DEF Dies, LocksTyped, Having, HolderHolds, Holds, Has
<1>9. CASE LockSecond
  <2>1. spot[d] \in Having /\ d \notin expired
    BY <1>9 DEF LockSecond
  <2>2. Holds("lock", d)
    BY <2>1 DEF HolderHolds
  <2>3. Later["lock"] # Absent
    BY <1>9, <2>1, <2>2 DEF LockSecond
  <2>4. cache'["lock"] = Aged(cache["lock"])
    BY <1>9, LaterEntries, CacheLocksAssumption DEF LockSecond, LocksTyped
  <2>5. cache["lock"] \in Entries(Callers) \cup {Absent}
    BY DEF LocksTyped
  <2> QED BY <1>9, <2>2, <2>3, <2>4, <2>5, AgedEntry, CacheLocksAssumption DEF LockSecond, Holds, Has, LocksTyped
<1>10. CASE UNCHANGED lockVars
  BY <1>10 DEF lockVars, HolderHolds, Holds, Has
<1> QED
  BY <1>1, <1>2, <1>3, <1>4, <1>5, <1>6, <1>7, <1>8, <1>9, <1>10 DEF LocksNext, Proceed

\* A caller has its lock until it releases it or it expires, whatever the others do
\* (lock.ts, acquire and release).
THEOREM LockIsHeld == LocksSpec => []HolderHolds
<1>1. StoreInit /\ LocksInit => LocksTyped /\ HolderHolds
  BY LocksInitTyped, InitHolds
<1>2. LocksTyped /\ HolderHolds /\ [LocksNext]_lockVars => LocksTyped' /\ HolderHolds'
  BY LocksStepTyped, StepHolds
<1> QED BY <1>1, <1>2, PTL DEF LocksSpec

-----------------------------------------------------------------------------

\* While nothing has strayed, no lock has expired under its caller and nobody computes
\* outside: with HolderHolds, one at most is inside.
NoStrays ==
    strays = {} => expired = {} /\ \A c \in Callers : spot[c] # "outside"

LEMMA InitFlight == StoreInit /\ LocksInit => NoStrays /\ SingleFlight
  BY DEF StoreInit, LocksInit, NoStrays, SingleFlight

LEMMA StepNoStrays == LocksTyped /\ NoStrays /\ [LocksNext]_lockVars => NoStrays'
<1> SUFFICES ASSUME LocksTyped, NoStrays, [LocksNext]_lockVars PROVE NoStrays'
  OBVIOUS
<1>1. ASSUME NEW c \in Callers, Call(c) \/ Acquire(c) \/ TimeOut(c) \/ LookAgain(c)
      PROVE  NoStrays'
  BY <1>1 DEF Call, Acquire, TimeOut, LookAgain, Step, LocksTyped, NoStrays
<1>2. ASSUME NEW c \in Callers, LookLate(c) PROVE NoStrays'
  BY <1>2 DEF LookLate, Step, LocksTyped, NoStrays
<1>3. ASSUME NEW c \in Callers, Compute(c) \/ Release(c) \/ Dies(c) PROVE NoStrays'
  BY <1>3 DEF Compute, Release, Dies, Step, LocksTyped, NoStrays
<1>4. CASE LockSecond
  BY <1>4 DEF LockSecond, LocksTyped, NoStrays
<1>5. CASE UNCHANGED lockVars
  BY <1>5 DEF lockVars, NoStrays
<1> QED BY <1>1, <1>2, <1>3, <1>4, <1>5 DEF LocksNext, Proceed

\* The caller that stores the value is the one that has the lock, so nobody else is
\* computing by then; who gets the lock afterwards looks again and finds it.
LEMMA StepFlight ==
    LocksTyped /\ HolderHolds /\ NoStrays /\ SingleFlight /\ [LocksNext]_lockVars => SingleFlight'
<1> SUFFICES ASSUME LocksTyped, HolderHolds, NoStrays, SingleFlight, [LocksNext]_lockVars,
                    (remembering /\ Has("value") /\ strays = {})',
                    NEW d \in Callers, spot'[d] = "inside"
             PROVE  FALSE
  BY DEF SingleFlight
<1> USE CacheLocksAssumption
<1>1. ASSUME NEW c \in Callers, Call(c) \/ TimeOut(c) \/ LookLate(c) PROVE FALSE
  BY <1>1 DEF Call, TimeOut, LookLate, Step, LocksTyped, SingleFlight, Has
<1>2. ASSUME NEW c \in Callers, Acquire(c) PROVE FALSE
  <2>1. cache'["value"] = cache["value"]
    BY <1>2 DEF Acquire, Add, Put, LocksTyped
  <2> QED BY <1>2, <2>1 DEF Acquire, Step, LocksTyped, SingleFlight, Has
<1>3. ASSUME NEW c \in Callers, LookAgain(c) PROVE FALSE
  BY <1>3 DEF LookAgain, StillMissing, Step, LocksTyped, SingleFlight, Has
<1>4. ASSUME NEW c \in Callers, Compute(c) PROVE FALSE
  <2>1. strays = {} /\ remembering /\ expired = {} /\ spot[c] # "outside"
    BY <1>4 DEF Compute, NoStrays
  <2>2. spot[c] = "inside" /\ spot[d] = "inside" /\ c # d
    BY <1>4, <2>1 DEF Compute, Step, LocksTyped
  <2> QED BY <2>1, <2>2 DEF HolderHolds, Holds, Having
<1>5. ASSUME NEW c \in Callers, Release(c) PROVE FALSE
  <2>1. cache'["value"] = cache["value"]
    BY <1>5 DEF Release, ReleaseLock, Forget, LocksTyped
  <2> QED BY <1>5, <2>1 DEF Release, Step, LocksTyped, SingleFlight, Has
<1>6. ASSUME NEW c \in Callers, Dies(c) PROVE FALSE
  BY <1>6 DEF Dies, LocksTyped, SingleFlight, Has
<1>7. CASE LockSecond
  <2>1. strays = {} /\ remembering /\ spot[d] = "inside"
    BY <1>7 DEF LockSecond
  <2>2. cache'["value"] = Aged(cache["value"]) /\ cache["value"] \in Entries(Callers) \cup {Absent}
    BY <1>7, LaterEntries, CacheLocksAssumption DEF LockSecond, LocksTyped
  <2>3. Has("value")
    BY <2>2, AgedEntry, CacheLocksAssumption DEF Has, LocksTyped
  <2> QED BY <2>1, <2>3 DEF SingleFlight
<1>8. CASE UNCHANGED lockVars
  BY <1>8 DEF lockVars, SingleFlight, Has
<1> QED BY <1>1, <1>2, <1>3, <1>4, <1>5, <1>6, <1>7, <1>8 DEF LocksNext, Proceed

\* Nobody computes a value that is there, unless a lock expired under its caller or a
\* caller waited too long (cache-store-helpers.ts, rememberViaLock).
THEOREM ComputedOnce == LocksSpec => []SingleFlight
<1> DEFINE Inv == LocksTyped /\ HolderHolds /\ NoStrays /\ SingleFlight
<1>1. StoreInit /\ LocksInit => Inv
  BY LocksInitTyped, InitHolds, InitFlight
<1>2. Inv /\ [LocksNext]_lockVars => Inv'
  BY LocksStepTyped, StepHolds, StepNoStrays, StepFlight
<1>3. Inv => SingleFlight
  OBVIOUS
<1> QED BY <1>1, <1>2, <1>3, PTL DEF LocksSpec

-----------------------------------------------------------------------------
(* The rate limiter *)

Stored == Entries(Nat)

\* The counter counts, which LimitTypeOK does not say.
LimitTyped ==
    /\ LimitTypeOK
    /\ cache \in [Keys -> Stored \cup {Absent}]
    /\ Has("counter") => cache["counter"].value \in Nat

\* What the limiter stores are entries.
LEMMA EntryStored ==
    ASSUME NEW v \in Nat, NEW t \in Nat \cup {Forever}
    PROVE  /\ Entry(v, t) \in Stored /\ Entry(v, t) # Absent
           /\ Entry(v, t).value = v /\ Entry(v, t).ttl = t
  BY RateLimitsAssumption DEF Stored, Entry, Entries

LEMMA CountType == LimitTyped => Count("counter") \in Nat
  BY DEF LimitTyped, Count

\* What each call to the store does to the counter.
LEMMA PutCounter ==
    ASSUME LimitTyped, NEW v \in Nat, NEW t \in Nat \cup {Forever}, Put("counter", v, t)
    PROVE  /\ cache' \in [Keys -> Stored \cup {Absent}]
           /\ cache'["counter"] = Entry(v, t)
           /\ Has("counter")' /\ Count("counter")' = v
<1>1. Entry(v, t) \in Stored /\ Entry(v, t) # Absent /\ Entry(v, t).value = v
  BY EntryStored
<1>2. /\ cache' \in [Keys -> Stored \cup {Absent}]
      /\ cache'["counter"] = Entry(v, t)
  BY <1>1, RateLimitsAssumption DEF Put, LimitTyped
<1> QED BY <1>1, <1>2 DEF Has, Count

LEMMA PutTimer ==
    ASSUME LimitTyped, Add("timer", 0, Decay) \/ Forget("timer")
    PROVE  /\ cache' \in [Keys -> Stored \cup {Absent}]
           /\ cache'["counter"] = cache["counter"]
  BY EntryStored, RateLimitsAssumption DEF Add, Put, Forget, LimitTyped

LEMMA ForgetCounter ==
    ASSUME LimitTyped, Forget("counter")
    PROVE  /\ cache' \in [Keys -> Stored \cup {Absent}]
           /\ ~Has("counter")' /\ Count("counter")' = 0
  BY RateLimitsAssumption DEF Forget, LimitTyped, Has, Count

\* An increment keeps the expiry of the counter; one it creates has none.
LEMMA IncrementCounter ==
    ASSUME LimitTyped, Increment("counter")
    PROVE  /\ cache' \in [Keys -> Stored \cup {Absent}]
           /\ Has("counter")' /\ Count("counter")' = Count("counter") + 1
           /\ cache'["counter"].ttl =
                IF Has("counter") THEN cache["counter"].ttl ELSE Forever
<1> DEFINE t == IF Has("counter") THEN cache["counter"].ttl ELSE Forever
<1>1. cache["counter"] \in Stored \cup {Absent}
  BY RateLimitsAssumption DEF LimitTyped
<1>2. t \in Nat \cup {Forever}
  BY <1>1 DEF Has, Stored, Entries
<1>3. Count("counter") + 1 \in Nat
  BY CountType
<1>4. Put("counter", Count("counter") + 1, t)
  BY DEF Increment
<1>5. cache'["counter"] = Entry(Count("counter") + 1, t)
  BY <1>2, <1>3, <1>4, PutCounter
<1>6. cache' \in [Keys -> Stored \cup {Absent}] /\ Has("counter")' /\ Count("counter")' = Count("counter") + 1
  BY <1>2, <1>3, <1>4, PutCounter
<1>7. Entry(Count("counter") + 1, t).ttl = t
  BY <1>2, <1>3, EntryStored
<1> QED BY <1>5, <1>6, <1>7

LEMMA SeededCounter ==
    ASSUME LimitTyped, Add("counter", 0, Decay)
    PROVE  /\ cache' \in [Keys -> Stored \cup {Absent}]
           /\ Has("counter")' /\ Count("counter")' = Count("counter")
           /\ IF Has("counter") THEN cache' = cache ELSE cache'["counter"].ttl = Decay
<1>1. CASE Has("counter")
  BY <1>1 DEF Add, LimitTyped, Has, Count
<1>2. CASE ~Has("counter")
  <2>1. Put("counter", 0, Decay) /\ Count("counter") = 0
    BY <1>2 DEF Add, Count
  <2> QED BY <1>2, <2>1, PutCounter, EntryStored, RateLimitsAssumption
<1> QED BY <1>1, <1>2

-----------------------------------------------------------------------------

LEMMA LimitInitTyped == StoreInit /\ LimitInit => LimitTyped
  BY RateLimitsAssumption DEF StoreInit, LimitInit, LimitTyped, LimitTypeOK, Steps, Has

LEMMA LimitStepTyped == LimitTyped /\ [LimitNext]_limitVars => LimitTyped'
<1> SUFFICES ASSUME LimitTyped, [LimitNext]_limitVars PROVE LimitTyped'
  OBVIOUS
<1>0. Count("counter") \in Nat /\ 0 \in Nat /\ 1 \in Nat
  BY CountType
<1>1. ASSUME NEW c \in Clients, Attempts(c) \/ CheckTimer(c) PROVE LimitTyped'
  BY <1>1 DEF Attempts, CheckTimer, Turn, SameLife, LimitTyped, LimitTypeOK, Steps, Has
<1>2. ASSUME NEW c \in Clients, ResetAttempts(c) \/ Clear(c) PROVE LimitTyped'
  BY <1>2, ForgetCounter DEF ResetAttempts, Clear, Turn, Life, LimitTyped, LimitTypeOK, Steps
<1>3. ASSUME NEW c \in Clients, SeedTimer(c) \/ ClearTimer(c) PROVE LimitTyped'
  BY <1>3, PutTimer DEF SeedTimer, ClearTimer, Turn, SameLife, LimitTyped, LimitTypeOK, Steps, Has
<1>4. ASSUME NEW c \in Clients, SeedCounter(c) PROVE LimitTyped'
  BY <1>0, <1>4, SeededCounter DEF SeedCounter, Turn, SameLife, LimitTyped, LimitTypeOK, Steps, Count
<1>5. ASSUME NEW c \in Clients, Hit(c) PROVE LimitTyped'
  <2>1. cache' \in [Keys -> Stored \cup {Absent}] /\ (Has("counter") => cache["counter"].value \in Nat)'
    BY <1>0, <1>5, IncrementCounter DEF Hit, Count
  <2>2. admitted' \in Nat /\ erased' \in Nat /\ lookers' \subseteq Clients
    BY <1>5 DEF Hit, LimitTyped, LimitTypeOK
  <2>3. step' \in [Clients -> Steps]
    BY <1>5 DEF Hit, Turn, LimitTyped, LimitTypeOK, Steps
  <2> QED BY <2>1, <2>2, <2>3 DEF LimitTyped, LimitTypeOK
<1>6. ASSUME NEW c \in Clients, Pin(c) PROVE LimitTyped'
  <2>1. cache' \in [Keys -> Stored \cup {Absent}] /\ (Has("counter") => cache["counter"].value \in Nat)'
    BY <1>0, <1>6, PutCounter, RateLimitsAssumption DEF Pin, Count
  <2>2. admitted' \in Nat /\ erased' \in Nat /\ lookers' \subseteq Clients
    BY <1>0, <1>6 DEF Pin, LimitTyped, LimitTypeOK
  <2>3. step' \in [Clients -> Steps]
    BY <1>6 DEF Pin, Turn, LimitTyped, LimitTypeOK, Steps
  <2> QED BY <2>1, <2>2, <2>3 DEF LimitTyped, LimitTypeOK
<1>7. CASE LimitSecond
  <2>1. cache["counter"] \in Stored \cup {Absent} /\ cache'["counter"] = Aged(cache["counter"])
    BY <1>7, LaterEntries, RateLimitsAssumption DEF LimitSecond, LimitTyped, Stored
  <2>2. (Has("counter") => cache["counter"].value \in Nat)'
    BY <2>1, AgedEntry, RateLimitsAssumption DEF LimitTyped, Has, Stored
  <2>3. cache' \in [Keys -> Stored \cup {Absent}]
    BY <1>7, LaterEntries, RateLimitsAssumption DEF LimitSecond, LimitTyped, Stored
  <2> QED BY <1>7, <2>2, <2>3 DEF LimitSecond, Life, LimitTyped, LimitTypeOK
<1>8. CASE UNCHANGED limitVars
  BY <1>8 DEF limitVars, LimitTyped, LimitTypeOK, Has
<1> QED BY <1>1, <1>2, <1>3, <1>4, <1>5, <1>6, <1>7, <1>8 DEF LimitNext, Begin, Finish

-----------------------------------------------------------------------------

LEMMA InitEndless == StoreInit /\ LimitInit => NeverEndless
  BY RateLimitsAssumption DEF StoreInit, NeverEndless, Has

\* Only the increment that creates the counter leaves it without an expiry; it counts 1,
\* and its caller goes on to pin.  Nobody leaves "pinning" but by giving it one.
LEMMA StepEndless == LimitTyped /\ NeverEndless /\ [LimitNext]_limitVars => NeverEndless'
<1> SUFFICES ASSUME LimitTyped, NeverEndless, [LimitNext]_limitVars,
                    Has("counter")', cache'["counter"].ttl = Forever
             PROVE  \E d \in Clients : step'[d] = "pinning"
  BY DEF NeverEndless
<1>1. ASSUME NEW c \in Clients, Attempts(c) \/ CheckTimer(c)
      PROVE  \E d \in Clients : step'[d] = "pinning"
  BY <1>1 DEF Attempts, CheckTimer, Turn, NeverEndless, LimitTyped, LimitTypeOK, Has
<1>2. ASSUME NEW c \in Clients, ResetAttempts(c) \/ Clear(c)
      PROVE  FALSE
  BY <1>2, ForgetCounter DEF ResetAttempts, Clear
<1>3. ASSUME NEW c \in Clients, SeedTimer(c) \/ ClearTimer(c)
      PROVE  \E d \in Clients : step'[d] = "pinning"
  BY <1>3, PutTimer DEF SeedTimer, ClearTimer, Turn, NeverEndless, LimitTyped, LimitTypeOK, Has
<1>4. ASSUME NEW c \in Clients, SeedCounter(c)
      PROVE  \E d \in Clients : step'[d] = "pinning"
  <2>1. Has("counter") /\ cache' = cache
    BY <1>4, SeededCounter, RateLimitsAssumption DEF SeedCounter, Forever
  <2> QED BY <1>4, <2>1 DEF SeedCounter, Turn, NeverEndless, LimitTyped, LimitTypeOK
<1>5. ASSUME NEW c \in Clients, Hit(c)
      PROVE  \E d \in Clients : step'[d] = "pinning"
  <2>1. CASE Has("counter")
    <3>1. cache["counter"].ttl = Forever
      BY <1>5, <2>1, IncrementCounter DEF Hit
    <3>2. PICK d \in Clients : step[d] = "pinning"
      BY <2>1, <3>1 DEF NeverEndless
    <3> QED BY <1>5, <3>2 DEF Hit, Turn, LimitTyped, LimitTypeOK
  <2>2. CASE ~Has("counter")
    BY <1>5, <2>2 DEF Hit, Turn, IsFirstHit, Count, LimitTyped, LimitTypeOK
  <2> QED BY <2>1, <2>2
<1>6. ASSUME NEW c \in Clients, Pin(c)
      PROVE  FALSE
  <2>1. cache'["counter"] = Entry(1, Decay)
    BY <1>6, PutCounter, RateLimitsAssumption DEF Pin
  <2> QED BY <2>1, EntryStored, RateLimitsAssumption DEF Forever
<1>7. CASE LimitSecond
  <2>1. cache["counter"] \in Stored \cup {Absent} /\ cache'["counter"] = Aged(cache["counter"])
    BY <1>7, LaterEntries, RateLimitsAssumption DEF LimitSecond, LimitTyped, Stored
  <2>2. Has("counter") /\ cache["counter"].ttl = Forever
    BY <2>1, AgedEntry, RateLimitsAssumption DEF Has, LimitTyped, Stored
  <2> QED BY <1>7, <2>2 DEF LimitSecond, NeverEndless
<1>8. CASE UNCHANGED limitVars
  BY <1>8 DEF limitVars, NeverEndless, Has
<1> QED BY <1>1, <1>2, <1>3, <1>4, <1>5, <1>6, <1>7, <1>8 DEF LimitNext, Begin, Finish

\* A counter without an expiry, which would lock its key out for good, is about to be
\* given one (rate-limiter.ts, increment).
THEOREM CountersEnd == LimitSpec => []NeverEndless
<1>1. StoreInit /\ LimitInit => LimitTyped /\ NeverEndless
  BY LimitInitTyped, InitEndless
<1>2. LimitTyped /\ NeverEndless /\ [LimitNext]_limitVars => LimitTyped' /\ NeverEndless'
  BY LimitStepTyped, StepEndless
<1> QED BY <1>1, <1>2, PTL DEF LimitSpec

-----------------------------------------------------------------------------

\* The lookers that have looked and not hit yet.
Committed == {c \in lookers : step[c] \in {"allowed", "seeding", "counting"}}

\* Whoever was let through was counted, in the counter or in what a pin overwrote; and a
\* looker that was told to go on will add one to whatever has been let through by then.
Counted ==
    /\ admitted <= Count("counter") + erased
    /\ admitted + Cardinality(Committed) <= Max + erased + Cardinality(lookers)

LEMMA ClientSets ==
    ASSUME NEW S \in SUBSET Clients
    PROVE  IsFiniteSet(S) /\ Cardinality(S) \in Nat
  BY RateLimitsAssumption, FS_Subset, FS_CardinalityType

LEMMA Fewer ==
    ASSUME NEW S \in SUBSET Clients, NEW T \in SUBSET S
    PROVE  Cardinality(T) <= Cardinality(S)
  BY ClientSets, FS_Subset

LEMMA InitCounted == StoreInit /\ LimitInit => Counted
<1> SUFFICES ASSUME StoreInit, LimitInit PROVE Counted
  OBVIOUS
<1>1. Cardinality(Committed) = 0
  BY FS_EmptySet, RateLimitsAssumption DEF LimitInit, Committed
<1>2. Cardinality(lookers) \in Nat
  BY ClientSets, RateLimitsAssumption DEF LimitInit
<1>3. Count("counter") = 0
  BY RateLimitsAssumption DEF StoreInit, Count, Has
<1> QED
  BY <1>1, <1>2, <1>3, RateLimitsAssumption DEF LimitInit, Counted

\* The two ways a step leaves the sum within its bound: it lets nobody through and commits
\* nobody new, or it starts from a count that leaves room.
LEMMA StepCounted == LimitTyped /\ LimitTyped' /\ Counted /\ [LimitNext]_limitVars => Counted'
<1> SUFFICES ASSUME LimitTyped, LimitTyped', Counted, [LimitNext]_limitVars PROVE Counted'
  OBVIOUS
<1> DEFINE n == Cardinality(Committed)  m == Cardinality(Committed')  l == Cardinality(lookers)
<1>0. /\ Count("counter") \in Nat /\ Count("counter")' \in Nat
      /\ admitted \in Nat /\ erased \in Nat /\ Max \in Nat \ {0}
      /\ admitted' \in Nat /\ erased' \in Nat
      /\ lookers' = lookers /\ lookers \in SUBSET Clients
  <2>1. Count("counter") \in Nat
    BY CountType
  <2>2. Count("counter")' \in Nat
    BY DEF LimitTyped, Count
  <2>3. lookers' = lookers
    BY DEF LimitNext, Begin, Finish, LimitSecond, limitVars, Attempts, CheckTimer, ResetAttempts,
           SeedTimer, SeedCounter, Hit, Pin, Clear, ClearTimer
  <2> QED BY <2>1, <2>2, <2>3, RateLimitsAssumption DEF LimitTyped, LimitTypeOK
<1>00. n \in Nat /\ m \in Nat /\ l \in Nat /\ n <= l /\ m <= l
  <2>1. Committed \in SUBSET lookers /\ Committed' \in SUBSET lookers
    BY <1>0 DEF Committed
  <2> QED BY <1>0, <2>1, ClientSets, Fewer
<1>000. Committed' = {c \in lookers : step'[c] \in {"allowed", "seeding", "counting"}}
  BY <1>0 DEF Committed
<1>a. ASSUME Committed' \subseteq Committed PROVE m <= n
  BY <1>0, <1>a, Fewer DEF Committed
<1> DEFINE Goal == /\ admitted' <= Count("counter")' + erased'
                   /\ admitted' + m <= Max + erased' + l
<1> SUFFICES Goal
  BY <1>0 DEF Counted
<1>c. /\ admitted <= Count("counter") + erased
      /\ admitted + n <= Max + erased + l
  BY DEF Counted
<1> HIDE DEF n, m, l
<1>1. ASSUME NEW c \in Clients, Attempts(c)
      PROVE  Goal
  <2>1. Count("counter")' = Count("counter") /\ admitted' = admitted /\ erased' = erased
    BY <1>1 DEF Attempts, SameLife, Count, Has
  <2>2. CASE Count("counter") >= Max
    <3>1. Committed' \subseteq Committed
      BY <1>000, <1>1, <2>2 DEF Attempts, Turn, Committed, LimitTyped, LimitTypeOK
    <3> QED BY <1>0, <1>00, <1>a, <1>c, <2>1, <3>1
  <2>3. CASE ~(Count("counter") >= Max)
    BY <1>0, <1>00, <1>c, <2>1, <2>3
  <2> QED BY <2>2, <2>3
<1>2. ASSUME NEW c \in Clients, CheckTimer(c) \/ SeedTimer(c) \/ ClearTimer(c) \/ SeedCounter(c)
      PROVE  Goal
  <2>1. Count("counter")' = Count("counter") /\ admitted' = admitted /\ erased' = erased
    BY <1>2, PutTimer, SeededCounter
    DEF CheckTimer, SeedTimer, ClearTimer, SeedCounter, SameLife, Count, Has
  <2>2. Committed' \subseteq Committed
    BY <1>000, <1>2
    DEF CheckTimer, SeedTimer, ClearTimer, SeedCounter, Turn, Committed, LimitTyped, LimitTypeOK
  <2> QED BY <1>0, <1>00, <1>a, <1>c, <2>1, <2>2
<1>3. ASSUME NEW c \in Clients, ResetAttempts(c) \/ Clear(c)
      PROVE  Goal
  <2>1. admitted' = 0 /\ erased' = 0
    BY <1>3 DEF ResetAttempts, Clear, Life
  <2> QED BY <1>0, <1>00, <2>1
<1>4. ASSUME NEW c \in Clients, Hit(c)
      PROVE  Goal
  <2>1. Count("counter")' = Count("counter") + 1 /\ erased' = erased
    BY <1>4, IncrementCounter DEF Hit
  <2>2. CASE c \in lookers
    <3>1. admitted' = admitted + 1
      BY <1>4, <2>2 DEF Hit
    <3>2. Committed' = Committed \ {c} /\ c \in Committed
      BY <1>000, <1>4, <2>2 DEF Hit, Turn, Committed, LimitTyped, LimitTypeOK
    <3>3. IsFiniteSet(Committed)
      BY <1>0, ClientSets DEF Committed
    <3>4. m = n - 1
      BY <3>2, <3>3, FS_RemoveElement DEF m, n
    <3> QED BY <1>0, <1>00, <1>c, <2>1, <3>1, <3>4
  <2>3. CASE c \notin lookers
    <3>1. Committed' \subseteq Committed
      BY <1>000, <1>4, <2>3 DEF Hit, Turn, Committed, LimitTyped, LimitTypeOK
    <3>2. CASE Exceeded(Count("counter") + 1)
      BY <1>0, <1>00, <1>4, <1>a, <1>c, <2>1, <2>3, <3>1, <3>2 DEF Hit
    <3>3. CASE ~Exceeded(Count("counter") + 1)
      <4>1. admitted' = admitted + 1
        BY <1>4, <3>3 DEF Hit
      <4> QED BY <1>0, <1>00, <1>c, <2>1, <3>3, <4>1 DEF Exceeded
    <3> QED BY <3>2, <3>3
  <2> QED BY <2>2, <2>3
<1>5. ASSUME NEW c \in Clients, Pin(c)
      PROVE  Goal
  <2>1. Count("counter")' = 1
    BY <1>5, PutCounter, RateLimitsAssumption DEF Pin
  <2>2. admitted' = admitted
    BY <1>5 DEF Pin
  <2>3. erased' = IF Count("counter") > 1 THEN erased + Count("counter") - 1 ELSE erased
    BY <1>5 DEF Pin
  <2>4. Committed' \subseteq Committed
    BY <1>000, <1>5 DEF Pin, Turn, Committed, LimitTyped, LimitTypeOK
  <2> QED BY <1>0, <1>00, <1>a, <1>c, <2>1, <2>2, <2>3, <2>4
<1>6. CASE LimitSecond
  <2>1. Committed' \subseteq Committed
    BY <1>0, <1>6 DEF LimitSecond, Committed
  <2>2. CASE Aged(cache["counter"]) = Absent
    BY <1>0, <1>00, <1>6, <2>2 DEF LimitSecond, Life
  <2>3. CASE Aged(cache["counter"]) # Absent
    <3>1. /\ cache["counter"] \in Stored \cup {Absent}
          /\ cache'["counter"] = Aged(cache["counter"])
      BY <1>6, LaterEntries, RateLimitsAssumption DEF LimitSecond, LimitTyped, Stored
    <3>2. Count("counter")' = Count("counter")
      BY <2>3, <3>1, AgedEntry, RateLimitsAssumption DEF Count, Has, LimitTyped, Stored
    <3>3. admitted' = admitted /\ erased' = erased
      BY <1>6, <2>3 DEF LimitSecond, Life
    <3> QED BY <1>0, <1>00, <1>a, <1>c, <2>1, <3>2, <3>3
  <2> QED BY <2>2, <2>3
<1>7. CASE UNCHANGED limitVars
  <2>1. Committed' \subseteq Committed
    BY <1>0, <1>7 DEF limitVars, Committed
  <2>2. Count("counter")' = Count("counter") /\ admitted' = admitted /\ erased' = erased
    BY <1>7 DEF limitVars, Count, Has
  <2> QED BY <1>0, <1>00, <1>a, <1>c, <2>1, <2>2
<1> QED BY <1>1, <1>2, <1>3, <1>4, <1>5, <1>6, <1>7 DEF LimitNext, Begin, Finish

\* A limit lets more calls through than it says only by the hits that a pin overwrote and by
\* the clients that looked before they hit, one each (rate-limiter.ts, rate-limited.ts).
THEOREM LimitHolds == LimitSpec => []OverLimitExplained
<1> DEFINE Inv == LimitTyped /\ Counted
<1>1. StoreInit /\ LimitInit => Inv
  BY LimitInitTyped, InitCounted
<1>2. Inv /\ [LimitNext]_limitVars => Inv'
  BY LimitStepTyped, StepCounted
<1>3. Inv => OverLimitExplained
  <2> SUFFICES ASSUME LimitTyped, Counted PROVE OverLimitExplained
    OBVIOUS
  <2>1. Cardinality(Committed) \in Nat /\ Cardinality(lookers) \in Nat
    BY ClientSets DEF Committed, LimitTyped, LimitTypeOK
  <2> QED BY <2>1, RateLimitsAssumption DEF Counted, OverLimitExplained, LimitTyped, LimitTypeOK
<1> QED BY <1>1, <1>2, <1>3, PTL DEF LimitSpec

-----------------------------------------------------------------------------
(* Unique jobs *)

\* A worker's copy is reserved, and no other worker's.
UniqueTyped ==
    /\ cache \in [Keys -> Entries(Dispatchers) \cup {Absent}]
    /\ unique \in {"untilFinished", "untilProcessing"}
    /\ pushing \subseteq Dispatchers
    /\ copies \in [Copies -> {"unborn", "queued", "reserved", "done", "failed"}]
    /\ hand \in [Pool -> Copies \cup {Absent}]
    /\ ending \subseteq Pool /\ started \subseteq Pool
    /\ reclaimed \subseteq Copies
    /\ \A w \in Pool : hand[w] # Absent => copies[hand[w]] = "reserved"
    /\ \A v, w \in Pool : hand[v] # Absent /\ hand[v] = hand[w] => v = w
    /\ \A w \in started : hand[w] # Absent

LEMMA Forgotten ==
    ASSUME UniqueTyped, Forget("unique")
    PROVE  /\ cache' \in [Keys -> Entries(Dispatchers) \cup {Absent}]
           /\ ~Has("unique")'
  BY UniqueJobsAssumption DEF UniqueTyped, Forget, Has

LEMMA Taken ==
    ASSUME UniqueTyped, NEW d \in Dispatchers, Dispatch(d)
    PROVE  /\ cache' \in [Keys -> Entries(Dispatchers) \cup {Absent}]
           /\ Has("unique")'
<1>1. Entry(d, UniqueTtl) \in Entries(Dispatchers) /\ Entry(d, UniqueTtl) # Absent
  BY UniqueJobsAssumption DEF Entry, Entries, UniqueTtl
<1>2. cache' = [cache EXCEPT !["unique"] = Entry(d, UniqueTtl)]
  BY DEF Dispatch, Add, Put
<1> QED BY <1>1, <1>2, UniqueJobsAssumption DEF UniqueTyped, Has

\* The worker's copy goes to `place', and nobody else's moves.
LEMMA Left ==
    ASSUME UniqueTyped, NEW w \in Pool, hand[w] # Absent,
           NEW place \in {"queued", "done", "failed"}, Leave(w, place)
    PROVE  /\ copies' \in [Copies -> {"unborn", "queued", "reserved", "done", "failed"}]
           /\ hand' \in [Pool -> Copies \cup {Absent}]
           /\ \A v \in Pool : hand'[v] # Absent => copies'[hand'[v]] = "reserved"
           /\ \A u, v \in Pool : hand'[u] # Absent /\ hand'[u] = hand'[v] => u = v
           /\ started' \subseteq Pool /\ \A v \in started' : hand'[v] # Absent
           /\ hand[w] \in Pending
           /\ \A v \in started' : v \in started /\ hand'[v] = hand[v]
           /\ Pending' = IF place = "queued" THEN Pending ELSE Pending \ {hand[w]}
<1>1. /\ copies' = [copies EXCEPT ![hand[w]] = place]
      /\ hand' = [hand EXCEPT ![w] = Absent]
      /\ started' = started \ {w}
      /\ hand[w] \in Copies /\ copies[hand[w]] = "reserved"
  BY UniqueJobsAssumption DEF Leave, UniqueTyped
<1>2. /\ copies' \in [Copies -> {"unborn", "queued", "reserved", "done", "failed"}]
      /\ hand' \in [Pool -> Copies \cup {Absent}]
  BY <1>1 DEF UniqueTyped
<1>3. \A v \in Pool : hand'[v] # Absent => v # w /\ hand'[v] = hand[v] /\ hand[v] # hand[w]
  BY <1>1 DEF UniqueTyped
<1>4. \A v \in Pool : hand'[v] # Absent => copies'[hand'[v]] = "reserved"
  BY <1>1, <1>3 DEF UniqueTyped
<1>5. \A u, v \in Pool : hand'[u] # Absent /\ hand'[u] = hand'[v] => u = v
  BY <1>3 DEF UniqueTyped
<1>6. started' \subseteq Pool /\ \A v \in started' : v \in started /\ hand'[v] = hand[v] /\ hand'[v] # Absent
  BY <1>1 DEF UniqueTyped
<1>7. hand[w] \in Pending
  BY <1>1 DEF Pending
<1>8. Pending' = IF place = "queued" THEN Pending ELSE Pending \ {hand[w]}
  BY <1>1 DEF Pending, UniqueTyped
<1> QED BY <1>2, <1>4, <1>5, <1>6, <1>7, <1>8

-----------------------------------------------------------------------------

LEMMA UniqueInitTyped == StoreInit /\ UniqueInit => UniqueTyped
  BY UniqueJobsAssumption DEF StoreInit, UniqueInit, UniqueTyped

LEMMA UniqueStepTyped == UniqueTyped /\ [UniqueNext]_uniqueVars => UniqueTyped'
<1> SUFFICES ASSUME UniqueTyped, [UniqueNext]_uniqueVars PROVE UniqueTyped'
  OBVIOUS
<1>1. ASSUME NEW d \in Dispatchers, Dispatch(d) PROVE UniqueTyped'
  BY <1>1, Taken DEF Dispatch, UniqueTyped
<1>2. ASSUME NEW d \in Dispatchers, Push(d) PROVE UniqueTyped'
  BY <1>2, UniqueJobsAssumption DEF Push, UniqueTyped
<1>3. ASSUME NEW d \in Dispatchers, NeverPush(d) PROVE UniqueTyped'
  BY <1>3 DEF NeverPush, UniqueTyped
<1>4. ASSUME NEW w \in Pool, Reserve(w) PROVE UniqueTyped'
  <2>1. PICK i \in Copies : /\ copies[i] = "queued"
                            /\ copies' = [copies EXCEPT ![i] = "reserved"]
                            /\ hand' = [hand EXCEPT ![w] = i]
    BY <1>4 DEF Reserve
  <2>2. \A v \in Pool : v # w => hand'[v] = hand[v] /\ hand[v] # i
    BY <2>1, UniqueJobsAssumption DEF UniqueTyped
  <2>3. hand'[w] = i /\ copies'[i] = "reserved"
    BY <2>1 DEF UniqueTyped
  <2>4. \A v \in Pool : hand'[v] # Absent => copies'[hand'[v]] = "reserved"
    BY <2>1, <2>2, <2>3, UniqueJobsAssumption DEF UniqueTyped
  <2>5. \A u, v \in Pool : hand'[u] # Absent /\ hand'[u] = hand'[v] => u = v
    BY <2>2, <2>3 DEF UniqueTyped
  <2>6. /\ copies' \in [Copies -> {"unborn", "queued", "reserved", "done", "failed"}]
        /\ hand' \in [Pool -> Copies \cup {Absent}]
    BY <2>1 DEF UniqueTyped
  <2>7. \A v \in started : hand'[v] # Absent
    BY <2>2, <2>3, UniqueJobsAssumption DEF UniqueTyped
  <2> QED BY <1>4, <2>4, <2>5, <2>6, <2>7 DEF Reserve, UniqueTyped
<1>5. ASSUME NEW w \in Pool, Start(w) PROVE UniqueTyped'
  <2>1. cache' \in [Keys -> Entries(Dispatchers) \cup {Absent}]
    BY <1>5, Forgotten DEF Start, UniqueTyped
  <2> QED BY <1>5, <2>1 DEF Start, UniqueTyped
<1>6. ASSUME NEW w \in Pool, NEW place \in {"queued", "done", "failed"}, Leaves(w, place)
      PROVE  UniqueTyped'
  BY <1>6, Left DEF Leaves, UniqueTyped
<1>7. ASSUME NEW w \in Pool, LeavesUndecoded(w) PROVE UniqueTyped'
  BY <1>7, Left DEF LeavesUndecoded, UniqueTyped
<1>8. ASSUME NEW w \in Pool, EndUnique(w) PROVE UniqueTyped'
  BY <1>8, Forgotten DEF EndUnique, ForceRelease, UniqueTyped
<1>9. ASSUME NEW w \in Pool, WorkerDies(w) PROVE UniqueTyped'
  <2>1. CASE hand[w] # Absent
    BY <1>9, <2>1, Left DEF WorkerDies, UniqueTyped
  <2>2. CASE hand[w] = Absent
    BY <1>9, <2>2 DEF WorkerDies, UniqueTyped
  <2> QED BY <2>1, <2>2
<1>10. ASSUME NEW i \in Copies, Retry(i) PROVE UniqueTyped'
  BY <1>10 DEF Retry, UniqueTyped
<1>11. CASE UniqueSecond
  BY <1>11, LaterEntries, UniqueJobsAssumption DEF UniqueSecond, UniqueTyped
<1>12. CASE UNCHANGED uniqueVars
  BY <1>12 DEF uniqueVars, UniqueTyped
<1> QED
  BY <1>1, <1>2, <1>3, <1>4, <1>5, <1>6, <1>7, <1>8, <1>9, <1>10, <1>11, <1>12 DEF UniqueNext

-----------------------------------------------------------------------------

Lone(S) == \A x, y \in S : x = y

Kept == unique = "untilFinished" /\ lapses \cap {"expired", "retried"} = {}

\* While the lock outlives its job, one copy, or its dispatcher, or the worker that owes
\* its release has it, and it is there.  A worker that ends the job therefore finds its own
\* lock, though it asks for no owner.
OneAround ==
    Kept =>
        /\ Lone(Pending) /\ Lone(pushing) /\ Lone(ending)
        /\ Pending = {} \/ pushing = {}
        /\ Pending = {} \/ ending = {}
        /\ pushing = {} \/ ending = {}
        /\ Pending # {} \/ pushing # {} \/ ending # {} => Has("unique")

LEMMA InitOneAround == StoreInit /\ UniqueInit => OneAround
  BY DEF UniqueInit, OneAround, Lone, Pending

LEMMA StepOneAround == UniqueTyped /\ OneAround /\ [UniqueNext]_uniqueVars => OneAround'
<1> SUFFICES ASSUME UniqueTyped, OneAround, [UniqueNext]_uniqueVars, Kept' PROVE OneAround'
  BY DEF OneAround
<1>1. ASSUME NEW d \in Dispatchers, Dispatch(d) PROVE OneAround'
  BY <1>1, Taken DEF Dispatch, OneAround, Kept, Lone, Pending
<1>2. ASSUME NEW d \in Dispatchers, Push(d) PROVE OneAround'
  <2>1. PICK i \in Copies : copies[i] = "unborn" /\ copies' = [copies EXCEPT ![i] = "queued"]
    BY <1>2 DEF Push
  <2>2. Pending' = Pending \cup {i}
    BY <2>1 DEF Pending, UniqueTyped
  <2> QED BY <1>2, <2>2 DEF Push, OneAround, Kept, Lone, Has
<1>3. ASSUME NEW d \in Dispatchers, NeverPush(d) PROVE OneAround'
  <2>1. Pending' = Pending
    BY <1>3 DEF NeverPush, Pending
  <2> QED BY <1>3, <2>1 DEF NeverPush, Lapse, OneAround, Kept, Lone, Has
<1>4. ASSUME NEW w \in Pool, Reserve(w) PROVE OneAround'
  <2>1. Pending' = Pending
    BY <1>4 DEF Reserve, Pending, UniqueTyped
  <2> QED BY <1>4, <2>1 DEF Reserve, OneAround, Kept, Lone, Has
<1>5. ASSUME NEW w \in Pool, Start(w) PROVE OneAround'
  <2>1. Pending' = Pending /\ cache' = cache
    BY <1>5 DEF Start, Pending, Kept
  <2> QED BY <1>5, <2>1 DEF Start, OneAround, Kept, Lone, Has
<1>6. ASSUME NEW w \in Pool, NEW place \in {"queued", "done", "failed"}, Leaves(w, place)
      PROVE  OneAround'
  <2>1. /\ hand[w] \in Pending
        /\ Pending' = IF place = "queued" THEN Pending ELSE Pending \ {hand[w]}
    BY <1>6, Left DEF Leaves
  <2>2. ending' = IF place = "queued" THEN ending ELSE ending \cup {w}
    BY <1>6 DEF Leaves, ReleaseDue, Kept
  <2> QED BY <1>6, <2>1, <2>2 DEF Leaves, OneAround, Kept, Lone, Has
<1>7. ASSUME NEW w \in Pool, LeavesUndecoded(w) PROVE OneAround'
  <2>1. Pending' \subseteq Pending
    BY <1>7, Left DEF LeavesUndecoded
  <2> QED BY <1>7, <2>1 DEF LeavesUndecoded, Lapse, OneAround, Kept, Lone, Has
<1>8. ASSUME NEW w \in Pool, EndUnique(w) PROVE OneAround'
  <2>1. Pending' = Pending
    BY <1>8 DEF EndUnique, Pending
  <2> QED BY <1>8, <2>1 DEF EndUnique, OneAround, Kept, Lone
<1>9. ASSUME NEW w \in Pool, WorkerDies(w) PROVE OneAround'
  <2>1. Pending' = Pending
    BY <1>9, Left DEF WorkerDies, Pending
  <2> QED BY <1>9, <2>1 DEF WorkerDies, Lapse, OneAround, Kept, Lone, Has
<1>10. ASSUME NEW i \in Copies, Retry(i) PROVE FALSE
  BY <1>10 DEF Retry, Lapse, Kept
<1>11. CASE UniqueSecond
  <2>1. Pending' = Pending
    BY <1>11 DEF UniqueSecond, Pending
  <2>2. Has("unique") /\ (Pending # {} \/ pushing # {} \/ ending # {}) => Has("unique")'
    BY <1>11 DEF UniqueSecond, Lapse, Kept, Has
  <2> QED BY <1>11, <2>1, <2>2 DEF UniqueSecond, Lapse, OneAround, Kept, Lone
<1>12. CASE UNCHANGED uniqueVars
  BY <1>12 DEF uniqueVars, OneAround, Kept, Lone, Pending, Has
<1> QED
  BY <1>1, <1>2, <1>3, <1>4, <1>5, <1>6, <1>7, <1>8, <1>9, <1>10, <1>11, <1>12 DEF UniqueNext

LEMMA LoneSize ==
    ASSUME NEW S, Lone(S)
    PROVE  Cardinality(S) \in {0, 1} /\ (S = {} => Cardinality(S) = 0)
<1>1. CASE S = {}
  BY <1>1, FS_EmptySet
<1>2. CASE S # {}
  <2>1. PICK x : S = {x}
    BY <1>2 DEF Lone
  <2> QED BY <2>1, FS_Singleton
<1> QED BY <1>1, <1>2

\* One copy of a unique job is pending at most, as long as its lock outlives it and no
\* failed copy is retried (unique-jobs.ts).
THEOREM OneCopyPending == UniqueSpec => []OnePending
<1>1. StoreInit /\ UniqueInit => UniqueTyped /\ OneAround
  BY UniqueInitTyped, InitOneAround
<1>2. UniqueTyped /\ OneAround /\ [UniqueNext]_uniqueVars => UniqueTyped' /\ OneAround'
  BY UniqueStepTyped, StepOneAround
<1>3. OneAround => OnePending
  BY LoneSize DEF OneAround, Kept, OnePending
<1> QED BY <1>1, <1>2, <1>3, PTL DEF UniqueSpec

-----------------------------------------------------------------------------

\* With untilProcessing a lock belongs to a copy that no worker has started: its start is
\* what would have released it.
Backed ==
    /\ reclaimed # {} => "died" \in lapses
    /\ Has("unique") /\ lapses \cap {"unpushed", "died", "undecoded"} = {} =>
          \/ pushing # {}
          \/ \E i \in Pending : \A w \in started : hand[w] # i
          \/ unique = "untilFinished" /\ (Pending # {} \/ ending # {})

LEMMA InitBacked == StoreInit /\ UniqueInit => Backed
  BY UniqueJobsAssumption DEF StoreInit, UniqueInit, Backed, Has

LEMMA StepBacked == UniqueTyped /\ Backed /\ [UniqueNext]_uniqueVars => Backed'
<1> SUFFICES ASSUME UniqueTyped, Backed, [UniqueNext]_uniqueVars PROVE Backed'
  OBVIOUS
<1>1. ASSUME NEW d \in Dispatchers, Dispatch(d) PROVE Backed'
  BY <1>1 DEF Dispatch, Backed
<1>2. ASSUME NEW d \in Dispatchers, Push(d) PROVE Backed'
  <2>1. PICK i \in Copies : copies[i] = "unborn" /\ copies' = [copies EXCEPT ![i] = "queued"]
    BY <1>2 DEF Push
  <2>2. i \in Pending'
    BY <2>1 DEF Pending, UniqueTyped
  <2>3. \A w \in started : hand[w] # i
    BY <2>1, UniqueJobsAssumption DEF UniqueTyped
  <2> QED BY <1>2, <2>2, <2>3 DEF Push, Backed
<1>3. ASSUME NEW d \in Dispatchers, NeverPush(d) PROVE Backed'
  BY <1>3 DEF NeverPush, Lapse, Backed
<1>4. ASSUME NEW w \in Pool, Reserve(w) PROVE Backed'
  <2>1. Pending' = Pending
    BY <1>4 DEF Reserve, Pending, UniqueTyped
  <2>2. \A v \in started : hand'[v] = hand[v]
    BY <1>4 DEF Reserve, UniqueTyped
  <2> QED BY <1>4, <2>1, <2>2 DEF Reserve, Backed, Has
<1>5. ASSUME NEW w \in Pool, Start(w) PROVE Backed'
  <2>1. CASE unique = "untilProcessing"
    BY <1>5, <2>1, Forgotten DEF Start, Backed
  <2>2. CASE unique # "untilProcessing"
    <3>1. Pending' = Pending /\ cache' = cache /\ unique = "untilFinished"
      BY <1>5, <2>2 DEF Start, Pending, UniqueTyped
    <3> QED BY <1>5, <3>1 DEF Start, Backed, Has
  <2> QED BY <2>1, <2>2
<1>6. ASSUME NEW w \in Pool, NEW place \in {"queued", "done", "failed"}, Leaves(w, place)
      PROVE  Backed'
  <2>1. /\ \A v \in started' : v \in started /\ hand'[v] = hand[v]
        /\ hand[w] \in Pending
        /\ Pending' = IF place = "queued" THEN Pending ELSE Pending \ {hand[w]}
    BY <1>6, Left DEF Leaves
  <2>2. /\ ending' = IF place # "queued" /\ unique = "untilFinished" THEN ending \cup {w} ELSE ending
        /\ unique' = unique /\ pushing' = pushing /\ lapses' = lapses /\ reclaimed' = reclaimed
        /\ cache' = cache
    BY <1>6 DEF Leaves, ReleaseDue
  <2>3. CASE "died" \in lapses
    BY <2>2, <2>3 DEF Backed
  <2>4. CASE "died" \notin lapses /\ unique = "untilFinished"
    BY <2>1, <2>2, <2>4 DEF Backed, Has
  <2>5. CASE "died" \notin lapses /\ unique = "untilProcessing"
    <3>1. w \in started
      BY <1>6, <2>5 DEF Leaves, Backed
    <3>2. ASSUME NEW i \in Pending, \A v \in started : hand[v] # i
          PROVE  i \in Pending' /\ \A v \in started' : hand'[v] # i
      BY <2>1, <3>1, <3>2
    <3> QED BY <2>2, <2>5, <3>2 DEF Backed, Has
  <2> QED BY <2>3, <2>4, <2>5 DEF UniqueTyped
<1>7. ASSUME NEW w \in Pool, LeavesUndecoded(w) PROVE Backed'
  BY <1>7 DEF LeavesUndecoded, Lapse, Backed
<1>8. ASSUME NEW w \in Pool, EndUnique(w) PROVE Backed'
  BY <1>8, Forgotten DEF EndUnique, ForceRelease, Backed
<1>9. ASSUME NEW w \in Pool, WorkerDies(w) PROVE Backed'
  BY <1>9 DEF WorkerDies, Lapse, Backed
<1>10. ASSUME NEW i \in Copies, Retry(i) PROVE Backed'
  <2>1. Pending \subseteq Pending'
    BY <1>10 DEF Retry, Pending, UniqueTyped
  <2> QED BY <1>10, <2>1 DEF Retry, Lapse, Backed, Has
<1>11. CASE UniqueSecond
  <2>1. Pending' = Pending
    BY <1>11 DEF UniqueSecond, Pending
  <2>2. lapses \subseteq lapses'
    BY <1>11 DEF UniqueSecond, Lapse
  <2>3. Has("unique")' => Has("unique")
    BY <1>11, LaterEntries, AgedEntry, UniqueJobsAssumption DEF UniqueSecond, UniqueTyped, Has
  <2> QED BY <1>11, <2>1, <2>2, <2>3 DEF UniqueSecond, Backed
<1>12. CASE UNCHANGED uniqueVars
  BY <1>12 DEF uniqueVars, Backed, Pending, Has
<1> QED
  BY <1>1, <1>2, <1>3, <1>4, <1>5, <1>6, <1>7, <1>8, <1>9, <1>10, <1>11, <1>12 DEF UniqueNext

\* A dispatch is dropped only where the job is under way, unless a push failed, a worker
\* died or a copy could not be decoded (queue-manager.ts, dispatch).
THEOREM DropsAreJustified == UniqueSpec => []DropJustified
<1>1. StoreInit /\ UniqueInit => UniqueTyped /\ Backed
  BY UniqueInitTyped, InitBacked
<1>2. UniqueTyped /\ Backed /\ [UniqueNext]_uniqueVars => UniqueTyped' /\ Backed'
  BY UniqueStepTyped, StepBacked
<1>3. Backed => DropJustified
  BY DEF Backed, DropJustified
<1> QED BY <1>1, <1>2, <1>3, PTL DEF UniqueSpec

-----------------------------------------------------------------------------
(* Cached maps *)

Rows == [Settings -> Values]

\* MapTypeOK is not inductive without the type of the cache.
MapTyped == MapTypeOK /\ cache \in [Keys -> Entries([Settings -> Nat]) \cup {Absent}]

LEMMA RowsAreEntries == ASSUME NEW r \in Rows PROVE Entry(r, MapExpiry) \in Entries([Settings -> Nat])
<1>1. r \in [Settings -> Nat]
  BY CachedMapAssumption DEF Rows, Values
<1> QED BY <1>1, CachedMapAssumption DEF Entry, Entries, MapExpiry

\* What a session sees are rows: committed ones, or its own.
LEMMA SeenType == ASSUME MapTyped, NEW s \in Sessions PROVE Seen(s) \in Rows
  BY DEF MapTyped, MapTypeOK, Seen, Rows, Unwritten

LEMMA MapInitTyped == StoreInit /\ MapInit => MapTyped
  BY CachedMapAssumption
  DEF StoreInit, MapInit, MapTyped, MapTypeOK, Blank, NothingUnsaved, Values, Places

\* The type of the values a write in progress may leave in a row.
LEMMA WrittenValue == ASSUME MapTyped, NEW v \in {0, writes} PROVE v \in Values
  BY CachedMapAssumption DEF MapTyped, MapTypeOK, Values

LEMMA MapStepTyped == MapTyped /\ [MapNext]_mapVars => MapTyped'
<1> SUFFICES ASSUME MapTyped, [MapNext]_mapVars PROVE MapTyped'
  OBVIOUS
<1> USE CachedMapAssumption
<1>1. ASSUME NEW s \in Sessions, Read(s) PROVE MapTyped'
  BY <1>1 DEF Read, Move, MapTyped, MapTypeOK, Places
<1>2. ASSUME NEW s \in Sessions, Load(s) PROVE MapTyped'
  BY <1>2, SeenType DEF Load, Move, MapTyped, MapTypeOK, Places, Rows
<1>3. ASSUME NEW s \in Sessions, Store(s) PROVE MapTyped'
  <2>1. copy[s] \in Rows /\ Blank \in Rows
    BY DEF MapTyped, MapTypeOK, Rows, Blank, Values
  <2>2. Entry(copy[s], MapExpiry) \in Entries([Settings -> Nat])
    BY <2>1, RowsAreEntries
  <2>3. cache' \in [Keys -> Entries([Settings -> Nat]) \cup {Absent}]
    BY <1>3, <2>2 DEF Store, Put, MapTyped
  <2> QED BY <1>3, <2>1, <2>3 DEF Store, Move, MapTyped, MapTypeOK, Places, Rows
<1>4. ASSUME NEW s \in Sessions, NEW ks \in SUBSET Settings, Write(s, ks) PROVE MapTyped'
  <2>1. writes' \in 0..MaxWrites
    BY <1>4 DEF Write, MapTyped, MapTypeOK
  <2>2. todo' \in [Sessions -> SUBSET Settings]
    BY <1>4 DEF Write, MapTyped, MapTypeOK
  <2> QED BY <1>4, <2>1, <2>2 DEF Write, Move, MapTyped, MapTypeOK, Places
<1>5. ASSUME NEW s \in Sessions, WriteRow(s) PROVE MapTyped'
  <2>1. PICK k \in todo[s], v \in {0, writes} :
          /\ \E from \in {"writing", "owing"} :
                Move(s, from, IF listening THEN "notifying"
                              ELSE IF todo[s] = {k} THEN "forgetting" ELSE "owing")
          /\ todo' = [todo EXCEPT ![s] = @ \ {k}]
          /\ IF s \in inTransaction
             THEN unsaved' = [unsaved EXCEPT ![s][k] = v] /\ UNCHANGED table
             ELSE table' = [table EXCEPT ![k] = v] /\ UNCHANGED unsaved
    BY <1>5 DEF WriteRow
  <2>2. v \in Values /\ k \in Settings
    BY WrittenValue DEF MapTyped, MapTypeOK
  <2>3. at' \in [Sessions -> Places]
    BY <2>1 DEF Move, MapTyped, MapTypeOK, Places, Owing
  <2>4. todo' \in [Sessions -> SUBSET Settings]
    BY <2>1 DEF MapTyped, MapTypeOK
  <2>5. /\ table' \in [Settings -> Values]
        /\ unsaved' \in [Sessions -> [Settings -> Values \cup {Unwritten}]]
    <3>1. [unsaved[s] EXCEPT ![k] = v] \in [Settings -> Values \cup {Unwritten}]
      BY <2>2 DEF MapTyped, MapTypeOK
    <3>2. CASE s \in inTransaction
      BY <2>1, <3>1, <3>2 DEF MapTyped, MapTypeOK
    <3>3. CASE s \notin inTransaction
      BY <2>1, <2>2, <3>3 DEF MapTyped, MapTypeOK
    <3> QED BY <3>2, <3>3
  <2> QED BY <1>5, <2>3, <2>4, <2>5 DEF WriteRow, MapTyped, MapTypeOK
<1>6. ASSUME NEW s \in Sessions, Notify(s) \/ ForgetCache(s) PROVE MapTyped'
  <2>1. cache' \in [Keys -> Entries([Settings -> Nat]) \cup {Absent}]
    BY <1>6 DEF Notify, ForgetCache, ForgetMap, Forget, MapTyped
  <2> QED
    BY <1>6, <2>1 DEF Notify, ForgetCache, Move, MapTyped, MapTypeOK, Places, Owing
<1>7. ASSUME NEW s \in Sessions, WriteThrows(s) PROVE MapTyped'
  BY <1>7 DEF WriteThrows, Move, MapTyped, MapTypeOK, Places
<1>8. ASSUME NEW s \in Sessions, Transact(s) PROVE MapTyped'
  BY <1>8 DEF Transact, MapTyped, MapTypeOK
<1>9. ASSUME NEW s \in Sessions, End(s) PROVE MapTyped'
  <2>1. table' \in [Settings -> Values]
    BY <1>9, SeenType DEF End, MapTyped, MapTypeOK, Rows
  <2>2. unsaved' \in [Sessions -> [Settings -> Values \cup {Unwritten}]]
    BY <1>9 DEF End, MapTyped, MapTypeOK, NothingUnsaved
  <2> QED BY <1>9, <2>1, <2>2 DEF End, MapTyped, MapTypeOK
<1>10. CASE MapSecond
  <2>1. cache' \in [Keys -> Entries([Settings -> Nat]) \cup {Absent}]
    BY <1>10, AgedEntry, CachedMapAssumption DEF MapSecond, Later, MapTyped
  <2> QED BY <1>10, <2>1 DEF MapSecond, MapTyped, MapTypeOK
<1>11. CASE UNCHANGED mapVars
  BY <1>11 DEF mapVars, MapTyped, MapTypeOK
<1> QED
  BY <1>1, <1>2, <1>3, <1>4, <1>5, <1>6, <1>7, <1>8, <1>9, <1>10, <1>11 DEF MapNext, Go

-----------------------------------------------------------------------------

\* Without a mishap, a fill in flight holds the table's rows ...
FillsAreFresh == mishaps = {} => \A s \in Sessions : at[s] = "storing" => copy[s] = table

\* ... and a map that is stale is so because of a write outside a transaction, which has
\* yet to forget it.  One inside a transaction explains nothing: it has not changed the
\* table, and by the time it commits it owes nothing any more.
StaleIsOwed ==
    mishaps = {} /\ Outdated =>
        \E s \in Sessions : at[s] \in Owing /\ s \notin inTransaction

LEMMA InitFresh == StoreInit /\ MapInit => FillsAreFresh /\ StaleIsOwed
  BY CachedMapAssumption DEF StoreInit, MapInit, FillsAreFresh, StaleIsOwed, Outdated, Has

\* Mishaps are never forgotten.
LEMMA MishapsGrow == [MapNext]_mapVars => mishaps \subseteq mishaps'
  BY DEF MapNext, Go, Read, Load, Store, Write, WriteRow, Notify, ForgetCache, WriteThrows,
         Transact, End, MapSecond, Suffer, mapVars

\* A write, or a commit, that finds a fill in flight with other rows is a mishap.
LEMMA StepFresh == MapTyped /\ FillsAreFresh /\ [MapNext]_mapVars => FillsAreFresh'
<1> SUFFICES ASSUME MapTyped, FillsAreFresh, [MapNext]_mapVars, mishaps' = {},
                    NEW t \in Sessions, at'[t] = "storing"
             PROVE  copy'[t] = table'
  BY DEF FillsAreFresh
<1>0. mishaps = {}
  BY MishapsGrow
<1>1. ASSUME NEW s \in Sessions, Read(s) PROVE copy'[t] = table'
  BY <1>0, <1>1 DEF Read, Move, MapTyped, MapTypeOK, FillsAreFresh
<1>2. ASSUME NEW s \in Sessions, Load(s) PROVE copy'[t] = table'
  <2>1. Seen(s) = table
    BY <1>2 DEF Load, Suffer
  <2> QED BY <1>0, <1>2, <2>1 DEF Load, Move, MapTyped, MapTypeOK, FillsAreFresh
<1>3. ASSUME NEW s \in Sessions, Store(s) PROVE copy'[t] = table'
  BY <1>0, <1>3 DEF Store, Move, MapTyped, MapTypeOK, FillsAreFresh
<1>4. ASSUME NEW s \in Sessions, NEW ks \in SUBSET Settings, Write(s, ks)
      PROVE  copy'[t] = table'
  BY <1>0, <1>4 DEF Write, Move, MapTyped, MapTypeOK, FillsAreFresh
<1>5. ASSUME NEW s \in Sessions, WriteRow(s) \/ End(s) PROVE copy'[t] = table'
  BY <1>5 DEF WriteRow, End, Suffer, Overtaken
<1>6. ASSUME NEW s \in Sessions, Notify(s) \/ ForgetCache(s) \/ WriteThrows(s)
      PROVE  copy'[t] = table'
  BY <1>0, <1>6 DEF Notify, ForgetCache, WriteThrows, Move, MapTyped, MapTypeOK, FillsAreFresh
<1>7. ASSUME NEW s \in Sessions, Transact(s) PROVE copy'[t] = table'
  BY <1>0, <1>7 DEF Transact, FillsAreFresh
<1>8. CASE MapSecond \/ UNCHANGED mapVars
  BY <1>0, <1>8 DEF MapSecond, mapVars, FillsAreFresh
<1> QED BY <1>1, <1>2, <1>3, <1>4, <1>5, <1>6, <1>7, <1>8 DEF MapNext, Go

\* A session that stays where it was still owes what it owed.
LEMMA StillOwed ==
    ASSUME StaleIsOwed, mishaps = {}, Outdated,
           \A t \in Sessions :
              at[t] \in Owing /\ t \notin inTransaction
                => at'[t] \in Owing /\ t \notin inTransaction'
    PROVE  \E t \in Sessions : at'[t] \in Owing /\ t \notin inTransaction'
  BY DEF StaleIsOwed

\* The map goes stale by a row written outside a transaction, and is forgotten before
\* that write is over.
LEMMA StepOwed == MapTyped /\ FillsAreFresh /\ StaleIsOwed /\ [MapNext]_mapVars => StaleIsOwed'
<1> SUFFICES ASSUME MapTyped, FillsAreFresh, StaleIsOwed, [MapNext]_mapVars,
                    mishaps' = {}, Outdated'
             PROVE  \E t \in Sessions : at'[t] \in Owing /\ t \notin inTransaction'
  BY DEF StaleIsOwed
<1> DEFINE StillOwing ==
      \A t \in Sessions :
         at[t] \in Owing /\ t \notin inTransaction => at'[t] \in Owing /\ t \notin inTransaction'
<1> DEFINE Owed == \E t \in Sessions : at'[t] \in Owing /\ t \notin inTransaction'
<1> USE CachedMapAssumption
<1>0. mishaps = {}
  BY MishapsGrow
<1>a. Outdated /\ StillOwing => Owed
  BY <1>0, StillOwed
<1>1. ASSUME NEW s \in Sessions, Read(s) PROVE Owed
  <2>1. StillOwing BY <1>1 DEF Read, Move, MapTyped, MapTypeOK, Owing
  <2>2. Outdated BY <1>1 DEF Read, Outdated, Has
  <2> QED BY <1>a, <2>1, <2>2
<1>2. ASSUME NEW s \in Sessions, Load(s) PROVE Owed
  <2>1. StillOwing BY <1>2 DEF Load, Move, MapTyped, MapTypeOK, Owing
  <2>2. Outdated BY <1>2 DEF Load, Outdated, Has
  <2> QED BY <1>a, <2>1, <2>2
<1>3. ASSUME NEW s \in Sessions, Store(s) PROVE Owed
  <2>1. copy[s] = table /\ table' = table
    BY <1>0, <1>3 DEF Store, Move, FillsAreFresh
  <2>2. cache'["map"].value = copy[s]
    BY <1>3 DEF Store, Put, Entry, MapTyped
  <2> QED BY <2>1, <2>2 DEF Outdated
<1>4. ASSUME NEW s \in Sessions, NEW ks \in SUBSET Settings, Write(s, ks) PROVE Owed
  <2>1. StillOwing BY <1>4 DEF Write, Move, MapTyped, MapTypeOK, Owing
  <2>2. Outdated BY <1>4 DEF Write, Outdated, Has
  <2> QED BY <1>a, <2>1, <2>2
<1>5. ASSUME NEW s \in Sessions, WriteRow(s) PROVE Owed
  <2>1. at'[s] \in Owing /\ \A t \in Sessions \ {s} : at'[t] = at[t]
    BY <1>5 DEF WriteRow, Move, MapTyped, MapTypeOK, Owing
  <2>2. inTransaction' = inTransaction /\ cache' = cache
    BY <1>5 DEF WriteRow
  <2>3. CASE s \notin inTransaction
    BY <2>1, <2>2, <2>3
  <2>4. CASE s \in inTransaction
    <3>1. table' = table
      BY <1>5, <2>4 DEF WriteRow
    <3>2. Outdated /\ StillOwing
      BY <2>1, <2>2, <3>1 DEF Outdated, Has
    <3> QED BY <1>a, <3>2
  <2> QED BY <2>3, <2>4
<1>6. ASSUME NEW s \in Sessions, Notify(s) \/ ForgetCache(s) PROVE Owed
  <2>1. cache'["map"] = Absent
    BY <1>6 DEF Notify, ForgetCache, ForgetMap, Forget, MapTyped
  <2> QED BY <2>1 DEF Outdated, Has
<1>7. ASSUME NEW s \in Sessions, WriteThrows(s) PROVE Owed
  <2>1. ~(at[s] = "owing" /\ s \notin inTransaction) /\ inTransaction' = inTransaction
    BY <1>7 DEF WriteThrows, Suffer
  <2>2. at[s] \in {"writing", "owing"} /\ \A t \in Sessions \ {s} : at'[t] = at[t]
    BY <1>7 DEF WriteThrows, Move, MapTyped, MapTypeOK
  <2>3. StillOwing
    BY <2>1, <2>2 DEF Owing
  <2>4. Outdated BY <1>7 DEF WriteThrows, Outdated, Has
  <2> QED BY <1>a, <2>3, <2>4
<1>8. ASSUME NEW s \in Sessions, Transact(s) PROVE Owed
  <2>1. StillOwing BY <1>8 DEF Transact, Owing
  <2>2. Outdated BY <1>8 DEF Transact, Outdated, Has
  <2> QED BY <1>a, <2>1, <2>2
<1>9. ASSUME NEW s \in Sessions, End(s) PROVE Owed
  <2>1. StillOwing BY <1>9 DEF End
  <2>2. cache' = cache /\ Has("map")
    BY <1>9 DEF End, Outdated, Has
  <2>3. table' = table
    BY <1>9, <2>2 DEF End, Suffer
  <2>4. Outdated BY <2>2, <2>3 DEF Outdated, Has
  <2> QED BY <1>a, <2>1, <2>4
<1>10. CASE MapSecond
  <2>1. StillOwing BY <1>10 DEF MapSecond
  <2>2. cache'["map"] = Aged(cache["map"]) /\ table' = table
    BY <1>10 DEF MapSecond, Later
  <2>3. cache["map"] \in Entries([Settings -> Nat]) \cup {Absent}
    BY DEF MapTyped
  <2>4. Outdated BY <2>2, <2>3, AgedEntry, CachedMapAssumption DEF Outdated, Has, MapTyped
  <2> QED BY <1>a, <2>1, <2>4
<1>11. CASE UNCHANGED mapVars
  <2>1. StillOwing /\ Outdated BY <1>11 DEF mapVars, Outdated, Has
  <2> QED BY <1>a, <2>1
<1> QED
  BY <1>1, <1>2, <1>3, <1>4, <1>5, <1>6, <1>7, <1>8, <1>9, <1>10, <1>11 DEF MapNext, Go

\* A cached map that differs from the table has a write that is about to forget it, or a
\* named mishap behind it (settings-registry.ts, setMany and forgetCache).
THEOREM StaleHasCause == MapSpec => []StaleExplained
<1> DEFINE Inv == MapTyped /\ FillsAreFresh /\ StaleIsOwed
<1>1. StoreInit /\ MapInit => Inv
  BY MapInitTyped, InitFresh
<1>2. Inv /\ [MapNext]_mapVars => Inv'
  BY MapStepTyped, StepFresh, StepOwed
<1>3. Inv => StaleExplained
  BY DEF StaleIsOwed, StaleExplained
<1> QED BY <1>1, <1>2, <1>3, PTL DEF MapSpec

-----------------------------------------------------------------------------
(* All of them over one store *)

\* A copy is reserved only in the hand of a worker.
InHand == \A i \in Copies : copies[i] = "reserved" => \E w \in Pool : hand[w] = i

LEMMA StepInHand == UniqueTyped /\ InHand /\ [UniqueNext]_uniqueVars => InHand'
<1> SUFFICES ASSUME UniqueTyped, InHand, [UniqueNext]_uniqueVars PROVE InHand'
  OBVIOUS
<1> USE UniqueJobsAssumption
<1>1. ASSUME NEW d \in Dispatchers, Dispatch(d) \/ Push(d) \/ NeverPush(d) PROVE InHand'
  BY <1>1 DEF Dispatch, Push, NeverPush, InHand, UniqueTyped
<1>2. ASSUME NEW w \in Pool, Reserve(w) PROVE InHand'
  <2>1. PICK i \in Copies : /\ copies' = [copies EXCEPT ![i] = "reserved"]
                            /\ hand' = [hand EXCEPT ![w] = i]
    BY <1>2 DEF Reserve
  <2>2. hand'[w] = i /\ \A v \in Pool : v # w => hand'[v] = hand[v]
    BY <2>1 DEF UniqueTyped
  <2>3. \A k \in Copies : k # i => copies'[k] = copies[k] /\ hand[w] # k
    BY <1>2, <2>1 DEF Reserve, UniqueTyped
  <2> QED BY <2>2, <2>3 DEF InHand
<1>3. ASSUME NEW w \in Pool, Start(w) \/ EndUnique(w) PROVE InHand'
  BY <1>3 DEF Start, EndUnique, InHand
<1>4. ASSUME NEW w \in Pool, hand[w] # Absent,
             NEW place \in {"queued", "done", "failed"}, Leave(w, place)
      PROVE  InHand'
  <2>1. hand[w] \in Copies /\ copies'[hand[w]] # "reserved"
    BY <1>4 DEF Leave, UniqueTyped
  <2>2. \A k \in Copies : k # hand[w] => copies'[k] = copies[k]
    BY <1>4 DEF Leave, UniqueTyped
  <2>3. \A v \in Pool : v # w => hand'[v] = hand[v]
    BY <1>4 DEF Leave, UniqueTyped
  <2> QED BY <2>1, <2>2, <2>3 DEF InHand
<1>5. ASSUME NEW w \in Pool,
             \/ Leaves(w, "done") \/ Leaves(w, "failed") \/ Leaves(w, "queued")
             \/ LeavesUndecoded(w)
      PROVE  InHand'
  BY <1>4, <1>5 DEF Leaves, LeavesUndecoded
<1>6. ASSUME NEW w \in Pool, WorkerDies(w) PROVE InHand'
  BY <1>4, <1>6 DEF WorkerDies, InHand
<1>7. ASSUME NEW i \in Copies, Retry(i) PROVE InHand'
  BY <1>7 DEF Retry, InHand, UniqueTyped
<1>8. CASE UniqueSecond \/ UNCHANGED uniqueVars
  BY <1>8 DEF UniqueSecond, uniqueVars, InHand
<1> QED BY <1>1, <1>2, <1>3, <1>5, <1>6, <1>7, <1>8 DEF UniqueNext

\* Nobody but the callers of a lock sets its key.
LEMMA LimitSparesLock ==
    ASSUME LimitTyped, [LimitNext]_limitVars, ~Has("lock")
    PROVE  ~Has("lock")'
<1> USE RateLimitsAssumption, CacheLocksAssumption
<1>1. ASSUME NEW c \in Clients,
             \/ Attempts(c) \/ CheckTimer(c) \/ ResetAttempts(c) \/ SeedTimer(c)
             \/ SeedCounter(c) \/ Hit(c) \/ Pin(c) \/ Clear(c) \/ ClearTimer(c)
      PROVE  ~Has("lock")'
  BY <1>1 DEF Attempts, CheckTimer, ResetAttempts, SeedTimer, SeedCounter, Hit, Pin, Clear,
              ClearTimer, Increment, Add, Put, Forget, Has, LimitTyped
<1>2. CASE LimitSecond
  BY <1>2 DEF LimitSecond, Later, Aged, Has, LimitTyped
<1>3. CASE UNCHANGED limitVars
  BY <1>3 DEF limitVars, Has
<1> QED BY <1>1, <1>2, <1>3 DEF LimitNext, Begin, Finish

LEMMA MapSparesLock ==
    ASSUME MapTyped, [MapNext]_mapVars, ~Has("lock")
    PROVE  ~Has("lock")'
<1> USE CachedMapAssumption, CacheLocksAssumption
<1>1. ASSUME NEW s \in Sessions,
             \/ Read(s) \/ Load(s) \/ WriteRow(s) \/ WriteThrows(s) \/ Transact(s) \/ End(s)
             \/ \E ks \in SUBSET Settings : Write(s, ks)
      PROVE  ~Has("lock")'
  BY <1>1 DEF Read, Load, WriteRow, WriteThrows, Transact, End, Write, Has
<1>2. ASSUME NEW s \in Sessions, Store(s) \/ Notify(s) \/ ForgetCache(s) PROVE ~Has("lock")'
  BY <1>2 DEF Store, Notify, ForgetCache, ForgetMap, Put, Forget, Has, MapTyped
<1>3. CASE MapSecond
  BY <1>3 DEF MapSecond, Later, Aged, Has, MapTyped
<1>4. CASE UNCHANGED mapVars
  BY <1>4 DEF mapVars, Has
<1> QED BY <1>1, <1>2, <1>3, <1>4 DEF MapNext, Go

LEMMA UniqueSparesLock ==
    ASSUME UniqueTyped, [UniqueNext]_uniqueVars, ~Has("lock")
    PROVE  ~Has("lock")'
<1> USE UniqueJobsAssumption, CacheLocksAssumption
<1>1. ASSUME NEW d \in Dispatchers, Dispatch(d) \/ Push(d) \/ NeverPush(d) PROVE ~Has("lock")'
  BY <1>1 DEF Dispatch, Push, NeverPush, Add, Put, Has, UniqueTyped
<1>2. ASSUME NEW w \in Pool,
             \/ Reserve(w) \/ Start(w) \/ LeavesUndecoded(w) \/ EndUnique(w) \/ WorkerDies(w)
             \/ Leaves(w, "done") \/ Leaves(w, "failed") \/ Leaves(w, "queued")
      PROVE  ~Has("lock")'
  BY <1>2 DEF Reserve, Start, Leaves, LeavesUndecoded, EndUnique, WorkerDies, ForceRelease,
              Forget, Has, UniqueTyped
<1>3. ASSUME NEW i \in Copies, Retry(i) PROVE ~Has("lock")'
  BY <1>3 DEF Retry, Has
<1>4. CASE UniqueSecond
  BY <1>4 DEF UniqueSecond, Later, Aged, Has, UniqueTyped
<1>5. CASE UNCHANGED uniqueVars
  BY <1>5 DEF uniqueVars, Has
<1> QED BY <1>1, <1>2, <1>3, <1>4, <1>5 DEF UniqueNext

\* The types of what a user keeps outside the cache.
OwnTyped ==
    /\ LimitTypeOK /\ MapTypeOK /\ FileTypeOK
    /\ lockFor \in LockFor /\ spot \in [Callers -> Spots]
    /\ patience \in [Callers -> 0..Patience] /\ expired \subseteq Callers
    /\ hand \in [Pool -> Copies \cup {Absent}]
    /\ \A i \in Copies : copies[i] = "reserved" <=> \E w \in Pool : hand[w] = i

\* The user of a behaviour finds its own entries in the cache.
UsersTyped ==
    /\ OwnTyped
    /\ use = "limit" => LimitTyped
    /\ use = "map" => MapTyped
    /\ use = "unique" => UniqueTyped
    /\ use = "locks" => LocksTyped
    /\ use = "file" => StoreInit
    /\ use # "locks" => ~Has("lock")
    /\ use \in {"limit", "map", "unique", "locks", "file"}

LEMMA UsersInit == Init => UsersTyped
<1> SUFFICES ASSUME Init PROVE UsersTyped
  OBVIOUS
<1>1. LimitTyped /\ MapTyped /\ UniqueTyped /\ LocksTyped /\ FileTypeOK
  BY LimitInitTyped, MapInitTyped, UniqueInitTyped, LocksInitTyped, FileInitTyped DEF Init
<1>2. ~Has("lock")
  BY CacheLocksAssumption DEF Init, StoreInit, Has
<1>3. \A i \in Copies : copies[i] # "reserved" /\ \A w \in Pool : hand[w] # i
  BY UniqueJobsAssumption DEF Init, UniqueInit
<1>4. OwnTyped
  BY <1>1, <1>3 DEF OwnTyped, LimitTyped, MapTyped, UniqueTyped, LocksTyped
<1> QED BY <1>1, <1>2, <1>4 DEF UsersTyped, Init

\* What the user of a behaviour does keeps its types, and the others' variables.
LEMMA UsersStep == UsersTyped /\ [Next]_usersVars => UsersTyped'
<1> SUFFICES ASSUME UsersTyped, [Next]_usersVars PROVE UsersTyped'
  OBVIOUS
<1> USE DEF limitOwn, mapOwn, uniqueOwn, lockOwn
<1>1. CASE use = "limit" /\ LimitNext /\ UNCHANGED <<mapOwn, uniqueOwn, lockOwn, fileVars, use>>
  <2>1. LimitTyped' /\ ~Has("lock")'
    BY <1>1, LimitStepTyped, LimitSparesLock DEF UsersTyped
  <2>2. OwnTyped'
    BY <1>1, <2>1 DEF UsersTyped, OwnTyped, LimitTyped, MapTypeOK, FileTypeOK, fileVars
  <2> QED BY <1>1, <2>1, <2>2 DEF UsersTyped
<1>2. CASE use = "map" /\ MapNext /\ UNCHANGED <<limitOwn, uniqueOwn, lockOwn, fileVars, use>>
  <2>1. MapTyped' /\ ~Has("lock")'
    BY <1>2, MapStepTyped, MapSparesLock DEF UsersTyped
  <2>2. OwnTyped'
    BY <1>2, <2>1 DEF UsersTyped, OwnTyped, MapTyped, LimitTypeOK, FileTypeOK, fileVars
  <2> QED BY <1>2, <2>1, <2>2 DEF UsersTyped
<1>3. CASE use = "unique" /\ UniqueNext /\ UNCHANGED <<limitOwn, mapOwn, lockOwn, fileVars, use>>
  <2>1. UniqueTyped' /\ ~Has("lock")'
    BY <1>3, UniqueStepTyped, UniqueSparesLock DEF UsersTyped
  <2>2. \A i \in Copies : copies'[i] = "reserved" <=> \E w \in Pool : hand'[w] = i
    <3>1. InHand'
      BY <1>3, StepInHand DEF UsersTyped, OwnTyped, InHand
    <3> QED BY <2>1, <3>1, UniqueJobsAssumption DEF InHand, UniqueTyped
  <2>3. OwnTyped'
    BY <1>3, <2>1, <2>2
    DEF UsersTyped, OwnTyped, UniqueTyped, LimitTypeOK, MapTypeOK, FileTypeOK, fileVars
  <2> QED BY <1>3, <2>1, <2>3 DEF UsersTyped
<1>4. CASE use = "locks" /\ LocksNext /\ UNCHANGED <<limitOwn, mapOwn, uniqueOwn, fileVars, use>>
  <2>1. LocksTyped'
    BY <1>4, LocksStepTyped DEF UsersTyped
  <2>2. OwnTyped'
    BY <1>4, <2>1
    DEF UsersTyped, OwnTyped, LocksTyped, LimitTypeOK, MapTypeOK, FileTypeOK, fileVars
  <2> QED BY <1>4, <2>1, <2>2 DEF UsersTyped
<1>5. CASE use = "file" /\ FileNext /\ UNCHANGED <<limitVars, mapOwn, uniqueOwn, lockOwn, use>>
  <2>1. FileTypeOK' /\ cache' = cache
    BY <1>5, FileStepTyped DEF UsersTyped, OwnTyped, limitVars
  <2>2. OwnTyped'
    BY <1>5, <2>1 DEF UsersTyped, OwnTyped, LimitTypeOK, MapTypeOK, limitVars
  <2> QED BY <1>5, <2>1, <2>2 DEF UsersTyped, StoreInit, Has
<1>6. CASE UNCHANGED usersVars
  <2>1. UNCHANGED <<cache, use>> /\ OwnTyped'
    BY <1>6 DEF usersVars, UsersTyped, OwnTyped, limitVars, mapVars, uniqueVars, lockVars,
                fileVars, LimitTypeOK, MapTypeOK, FileTypeOK
  <2>2. /\ LimitTyped => LimitTyped'
        /\ MapTyped => MapTyped'
        /\ UniqueTyped => UniqueTyped'
        /\ LocksTyped => LocksTyped'
    BY <1>6, LimitStepTyped, MapStepTyped, UniqueStepTyped, LocksStepTyped DEF usersVars
  <2> QED BY <2>1, <2>2 DEF UsersTyped, StoreInit, Has
<1> QED BY <1>1, <1>2, <1>3, <1>4, <1>5, <1>6 DEF Next

LEMMA UsersTypes == UsersTyped => CacheTypeOK
<1> SUFFICES ASSUME UsersTyped PROVE CacheTypeOK
  OBVIOUS
<1>1. \A k \in Keys : Has(k) => cache[k].ttl \in Nat \cup {Forever}
  BY DEF UsersTyped, LimitTyped, Stored, MapTyped, UniqueTyped, LocksTyped, StoreInit, Has,
         Entries
<1>2. Has("lock") => cache["lock"].value \in Callers
  BY CacheLocksAssumption DEF UsersTyped, LocksTyped, Entries, Has
<1> QED BY <1>1, <1>2 DEF CacheTypeOK, UsersTyped, OwnTyped, LocksTypeOK

\* Over one store, every user's variables keep their types, and an entry has time left
\* or no expiry (cache-manager.ts, its stores and their users).
THEOREM CacheTypes == Spec => []CacheTypeOK
<1> QED BY UsersInit, UsersStep, UsersTypes, PTL DEF Spec
=============================================================================
