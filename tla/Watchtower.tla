------------------------------ MODULE Watchtower ------------------------------
(***************************************************************************)
(* One process of watchtower: the pool of workers that a Supervisor keeps up  *)
(* (supervisor.ts), the poll and the end of a job in each of them             *)
(* (watchtower-worker.ts over queue-work.ts), and the rows of its one queue   *)
(* in the WatchtowerQueueDriver.  A statement or transaction is one step.     *)
(* No job outlives its reservation here (QueueWork has the ones that do).     *)
(***************************************************************************)
EXTENDS Integers, FiniteSets, Sequences, SequencesExt

CONSTANTS
    Dispatches,            \* the jobs
    Children,              \* names for the workers of the pool
    NoJob,
    ConfiguredWorkers,     \* "workers" of the process
    CrashLoopThreshold,    \* of the supervisor
    MaxAttempts,           \* of a job
    MaxEvents              \* BOUND: workers that exit, pauses, retries, clears and signals

ASSUME WatchtowerAssumption ==
    /\ ConfiguredWorkers \in Nat \ {0} /\ CrashLoopThreshold \in Nat \ {0}
    /\ MaxAttempts \in Nat \ {0} /\ MaxEvents \in Nat
    /\ NoJob \notin Dispatches /\ IsFiniteSet(Children)

VARIABLES
    fifo,          \* "fifo" of the process
    line,          \* the rows by available_at, then id
    dueCount,      \* so many of them, the first ones, are due
    taken,         \* those that are reserved
    lapsed,        \* those of them that have been so for retryAfter seconds
    attempts,      \* job -> attempts
    outcome,       \* job -> where it is
    life,          \* child -> whether the supervisor has it, and how it is doing
    place,         \* child -> where its loop stands
    on,            \* child -> the job it runs
    failures,      \* consecutiveFailures, told apart up to 2
    backingOff,    \* restartAfter lies ahead
    exits,         \* recentExits that are in the window
    surrendered, stopping,
    paused,        \* the key of watchtower:pause
    events         \* so many of what MaxEvents bounds

rowVars == <<line, dueCount, taken, lapsed, attempts, outcome>>
poolVars == <<life, failures, backingOff, exits, surrendered, stopping>>
workerVars == <<place, on>>

watchVars == <<fifo, rowVars, poolVars, workerVars, paused, events>>

Alive == {"young", "old"}
Dead == {"dead young", "dead old"}

WatchInit ==
    /\ fifo \in BOOLEAN
    /\ line = <<>> /\ dueCount = 0 /\ taken = {} /\ lapsed = {}
    /\ attempts = [j \in Dispatches |-> 0]
    /\ outcome = [j \in Dispatches |-> "absent"]
    /\ life = [c \in Children |-> "absent"]
    /\ place = [c \in Children |-> "polling"]
    /\ on = [c \in Children |-> NoJob]
    /\ failures = 0 /\ backingOff = FALSE /\ exits = 0
    /\ surrendered = FALSE /\ stopping = FALSE /\ paused = FALSE /\ events = 0

Event == events < MaxEvents /\ events' = events + 1

Position(j) == CHOOSE p \in DOMAIN line : line[p] = j

Least(x, y) == IF x < y THEN x ELSE y

-----------------------------------------------------------------------------
(* The rows *)

\* Behind every row that is due, or among those that are not.
InsertRow(j) ==
    /\ \/ line' = InsertAt(line, dueCount + 1, j) /\ dueCount' = dueCount + 1
       \/ /\ \E p \in dueCount + 1..Len(line) + 1 : line' = InsertAt(line, p, j)
          /\ UNCHANGED dueCount
    /\ attempts' = [attempts EXCEPT ![j] = 0]
    /\ outcome' = [outcome EXCEPT ![j] = "queued"]
    /\ UNCHANGED <<fifo, taken, lapsed, poolVars, workerVars, paused>>

WatchPush(j) == outcome[j] = "absent" /\ InsertRow(j) /\ UNCHANGED events

\* requeue(): due at once.
WatchRetry(j) ==
    /\ outcome[j] = "failed" /\ Event
    /\ InsertRow(j) /\ dueCount' = dueCount + 1

\* queue:clear deletes what is reserved, too.
WatchClear ==
    /\ line # <<>> /\ Event
    /\ line' = <<>> /\ dueCount' = 0 /\ taken' = {} /\ lapsed' = {}
    /\ outcome' = [j \in Dispatches |-> IF j \in ToSet(line) THEN "cleared" ELSE outcome[j]]
    /\ UNCHANGED <<fifo, attempts, poolVars, workerVars, paused>>

ComesDue ==
    /\ dueCount < Len(line)
    /\ dueCount' = dueCount + 1
    /\ UNCHANGED <<fifo, line, taken, lapsed, attempts, outcome, poolVars, workerVars,
                   paused, events>>

Abandoned == {j \in taken : \A c \in Children : on[c] # j}

ReservationOver ==
    /\ \E j \in Abandoned \ lapsed : lapsed' = lapsed \cup {j}
    /\ UNCHANGED <<fifo, line, dueCount, taken, attempts, outcome, poolVars, workerVars,
                   paused, events>>

-----------------------------------------------------------------------------
(* A worker *)

\* reserve(): whether its process is paused.  No cooldown is ever recorded (see ReleaseRow).
Look(c) ==
    /\ life[c] \in Alive /\ ~stopping /\ place[c] = "polling" /\ ~paused
    /\ place' = [place EXCEPT ![c] = "cleared"]
    /\ UNCHANGED <<fifo, rowVars, poolVars, on, paused, events>>

\* Mutant: nothing takes a row back from a worker that died.
UnreservedOnly == {p \in 1..dueCount : line[p] \notin taken}

Eligible == {p \in 1..dueCount : line[p] \notin taken \/ line[p] \in lapsed}

PopFor(c) ==
    /\ life[c] \in Alive /\ place[c] = "cleared"
    /\ IF Eligible = {}
       THEN place' = [place EXCEPT ![c] = "polling"] /\ UNCHANGED <<rowVars, on>>
       ELSE LET j == line[CHOOSE p \in Eligible : \A q \in Eligible : p <= q] IN
            /\ place' = [place EXCEPT ![c] = "running"]
            /\ on' = [on EXCEPT ![c] = j]
            /\ attempts' = [attempts EXCEPT ![j] = @ + IF j \in taken THEN 1 ELSE 0]
            /\ taken' = taken \cup {j} /\ lapsed' = lapsed \ {j}
            /\ UNCHANGED <<line, dueCount, outcome>>
    /\ UNCHANGED <<fifo, poolVars, paused, events>>

\* The job of c has a row unless queue:clear has deleted it.
EndsJob(c) ==
    /\ life[c] \in Alive /\ place[c] = "running"
    /\ place' = [place EXCEPT ![c] = "polling"]
    /\ on' = [on EXCEPT ![c] = NoJob]
    /\ taken' = taken \ {on[c]}
    /\ UNCHANGED <<fifo, lapsed, poolVars, paused, events>>

\* Mutant: the end of a job is recorded, and its row is kept.
KeepRow(j) == UNCHANGED <<line, dueCount>>

RemoveRow(j) ==
    IF j \in ToSet(line)
    THEN line' = RemoveAt(line, Position(j)) /\ dueCount' = dueCount - 1
    ELSE UNCHANGED <<line, dueCount>>

DeleteRow(c) ==
    /\ EndsJob(c) /\ RemoveRow(on[c])
    /\ outcome' = [outcome EXCEPT ![on[c]] = "done"]
    /\ UNCHANGED attempts

FailRow(c) ==
    /\ EndsJob(c) /\ RemoveRow(on[c])
    /\ outcome' = [outcome EXCEPT ![on[c]] = "failed"]
    /\ UNCHANGED attempts

\* The loop ends a job through the connection's driver, which is never fifo: available_at is
\* set anew, to now or later.  Of the rows due this very second, the id decides.
ReleaseRow(c) ==
    LET j == on[c] IN
    /\ attempts[j] + 1 < MaxAttempts
    /\ EndsJob(c)
    /\ IF j \notin ToSet(line)
       THEN UNCHANGED <<line, dueCount, attempts>>
       ELSE LET others == RemoveAt(line, Position(j)) IN
            /\ \/ /\ \E p \in Position(j)..dueCount : line' = InsertAt(others, p, j)
                  /\ UNCHANGED dueCount
               \/ /\ \E p \in dueCount..Len(line) : line' = InsertAt(others, p, j)
                  /\ dueCount' = dueCount - 1
            /\ attempts' = [attempts EXCEPT ![j] = @ + 1]
    /\ UNCHANGED outcome

\* A job whose attempts were used up by workers that died is failed unrun.
EndJob(c) ==
    /\ on[c] # NoJob
    /\ \/ attempts[on[c]] < MaxAttempts /\ DeleteRow(c)
       \/ FailRow(c)
       \/ ReleaseRow(c)

Leaves(c) ==
    /\ life[c] \in Alive
    /\ life' = [life EXCEPT ![c] = IF @ = "young" THEN "dead young" ELSE "dead old"]
    /\ place' = [place EXCEPT ![c] = "polling"]
    /\ on' = [on EXCEPT ![c] = NoJob]
    /\ UNCHANGED <<fifo, rowVars, failures, backingOff, exits, surrendered, stopping, paused>>

\* It is killed, its memory or its time is used up, or watchtower:restart was called.
WorkerExits(c) == Leaves(c) /\ ~stopping /\ Event

\* It was signalled, and it is between two jobs; or the shutdown has timed out.
StopsWorker(c) == Leaves(c) /\ stopping /\ UNCHANGED events

-----------------------------------------------------------------------------
(* The supervisor *)

\* Mutant: a fifo process gets the workers it asks for.
AsConfigured(isFifo) == ConfiguredWorkers

WorkerCountFor(isFifo) == IF isFifo THEN 1 ELSE ConfiguredWorkers

\* reap(): what is dead goes.  A worker that had survived long enough resets the count of
\* failures, in the order in which the workers are held.
Reap(dead) ==
    LET young == Cardinality({c \in dead : life[c] = "dead young"}) IN
    IF dead = {}
    THEN UNCHANGED <<failures, backingOff, exits, surrendered>>
    ELSE /\ IF \E c \in dead : life[c] = "dead old"
            THEN \E k \in 0..young : failures' = Least(k, 2)
            ELSE failures' = Least(failures + young, 2)
         /\ backingOff' = (failures' = 2)
         /\ exits' = exits + Cardinality(dead)
         /\ surrendered' = (surrendered \/ exits' >= CrashLoopThreshold)

Spawned(here) ==
    {new \in SUBSET (Children \ here) : Cardinality(here \cup new) = WorkerCountFor(fifo)}

Tick ==
    LET dead == {c \in Children : life[c] \in Dead}
        here == {c \in Children : life[c] \in Alive}
    IN /\ ~stopping
       /\ Reap(dead)
       /\ \E new \in
            IF surrendered' \/ backingOff' \/ Spawned(here) = {} THEN {{}} ELSE Spawned(here) :
            life' = [c \in Children |-> CASE c \in new -> "young"
                                          [] c \in here -> life[c]
                                          [] OTHER -> "absent"]
       /\ UNCHANGED <<fifo, rowVars, stopping, workerVars, paused, events>>

\* A signal; or every pool has been given up.
Shutdown ==
    /\ ~stopping /\ stopping' = TRUE
    /\ IF surrendered THEN UNCHANGED events ELSE Event
    /\ UNCHANGED <<fifo, rowVars, life, failures, backingOff, exits, surrendered, workerVars,
                   paused>>

BackoffOver ==
    /\ backingOff /\ backingOff' = FALSE
    /\ UNCHANGED <<fifo, rowVars, life, failures, exits, surrendered, stopping, workerVars,
                   paused, events>>

WindowSlides ==
    /\ exits > 0 /\ exits' = exits - 1
    /\ UNCHANGED <<fifo, rowVars, life, failures, backingOff, surrendered, stopping, workerVars,
                   paused, events>>

Survives(c) ==
    /\ life[c] = "young" /\ life' = [life EXCEPT ![c] = "old"]
    /\ UNCHANGED <<fifo, rowVars, failures, backingOff, exits, surrendered, stopping, workerVars,
                   paused, events>>

\* watchtower:pause and watchtower:unpause
Pause ==
    /\ paused' = ~paused
    /\ IF paused THEN UNCHANGED events ELSE Event
    /\ UNCHANGED <<fifo, rowVars, poolVars, workerVars>>

Works(c) == Look(c) \/ PopFor(c) \/ EndJob(c)

WatchNext ==
    \/ \E j \in Dispatches : WatchPush(j) \/ WatchRetry(j)
    \/ WatchClear \/ ComesDue \/ ReservationOver
    \/ \E c \in Children : Works(c) \/ WorkerExits(c) \/ StopsWorker(c) \/ Survives(c)
    \/ Tick \/ Shutdown \/ BackoffOver \/ WindowSlides \/ Pause

WatchSpec == WatchInit /\ [][WatchNext]_watchVars

-----------------------------------------------------------------------------
(* Properties *)

WatchTypeOK ==
    /\ fifo \in BOOLEAN /\ paused \in BOOLEAN
    /\ ToSet(line) = {j \in Dispatches : outcome[j] = "queued"} /\ IsInjective(line)
    /\ dueCount \in 0..Len(line)
    /\ taken \subseteq ToSet(line) /\ lapsed \subseteq taken
    /\ \A c \in Children : on[c] # NoJob <=> place[c] = "running"
    /\ \A c \in Children : place[c] # "polling" => life[c] \in Alive
    /\ failures \in 0..2 /\ exits \in Nat
    /\ Cardinality({c \in Children : life[c] # "absent"}) <= WorkerCountFor(fifo)

\* In a fifo process a job overtakes no row but one whose worker has died in it
\* (watchtower-config.ts, workerCountFor; watchtower-queue-driver.ts, eligible).
InTurn ==
    fifo => \A c \in Children, p \in DOMAIN line :
        line[p] = on[c] => \A q \in 1..p - 1 : line[q] \in Abandoned

\* The rows that were released and not reserved since.
Released == {j \in ToSet(line) \ taken : attempts[j] > 0}

\* A fifo process that released a job runs that one before it continues with the others
\* (docs/watchtower/README.md, "Strict ordering with fifo").
FifoHolds ==
    fifo => \A c \in Children : on[c] # NoJob => Released = {}

\* A job of a process that is not paused, stopped or given up for good ends, though
\* workers die in it and the supervisor backs off (supervisor.ts, tick; eligible()).
WatchSettles ==
    <>[](~paused /\ ~stopping /\ ~surrendered)
        => \A j \in Dispatches : outcome[j] = "queued" ~> outcome[j] # "queued"
=============================================================================
