------------------------------ MODULE QueueWork ------------------------------
(***************************************************************************)
(* queue:work (commands/queue-work.ts) draining the database driver: several *)
(* worker processes, the code that dispatches jobs, the operators who run    *)
(* queue:retry, queue:forget, queue:flush and queue:clear, and the clock.    *)
(*                                                                           *)
(* A step of a worker is one call to the driver with the in-memory work      *)
(* around it.  Between two steps every other process may run, the clock may  *)
(* advance and the worker may be killed.                                     *)
(***************************************************************************)
EXTENDS DatabaseQueue

CONSTANTS
    Workers,            \* worker processes
    Operators,          \* people at a console
    ChainOf,            \* head of a dispatch -> the classes chained behind it
    Tries,              \* --tries, or the job's maxAttempts
    Delays,             \* delays a dispatch, a backoff() or a middleware may ask for
    DeletesWhenMissing, \* classes with deleteWhenMissingModels
    Refusable,          \* links a worker may decline to push: a class its registry does
                        \* not know, a uniqueness lock another dispatch holds
    Prompt,             \* TRUE: a job ends within RetryAfter, as the docs demand
    Commands,           \* BOUND: the queue: commands operators use
    MaxRetries,         \* BOUND: queue:retry commands run
    MaxCrashes,         \* BOUND: workers killed
    MaxOutages          \* BOUND: driver calls that throw

Heads == DOMAIN ChainOf

SetOf(chain) == {chain[k] : k \in DOMAIN chain}

\* The jobs of one dispatch: a head and the links chained behind it.
Line(h) == {h} \cup SetOf(ChainOf[h])

ASSUME QueueWorkAssumption ==
    /\ Heads \subseteq Jobs
    /\ \A j \in Heads : ChainOf[j] \in Seq(Jobs)
    /\ Tries \in Nat
    /\ Delays \subseteq Nat
    /\ Prompt \in BOOLEAN
    /\ MaxRetries \in Nat /\ MaxCrashes \in Nat /\ MaxOutages \in Nat

\* Each dispatch has classes of its own: see Jobs.
ASSUME LinesAssumption == \A g, h \in Heads : g # h => Line(g) \cap Line(h) = {}

VARIABLES
    phase,      \* worker -> where its loop stands
    held,       \* worker -> the QueuedJob in its memory, or None
    cands,      \* worker -> candidate rows its SQLite pop() has read
    reading,    \* operator -> the failed job its queue:retry has read, or None
    dispatched, \* heads dispatched so far
    retries, crashes, outages,  \* how often each has happened
    \* History, read by no action:
    starts,     \* id -> how often a handler was started for that row
    done,       \* jobs whose handler succeeded
    dropped,    \* jobs given up on purpose: cleared, forgotten, skipped, duplicate
    lost        \* jobs nothing will ever run, with no record left of them

workerVars == <<phase, held, cands>>
spent == <<retries, crashes, outages>>
historyVars == <<starts, done, dropped, lost>>
vars == <<dbVars, workerVars, reading, dispatched, spent, historyVars>>

(***************************************************************************)
(* idle      about to call pop()                                            *)
(* popping   SQLite: candidates read, none reserved yet                     *)
(* reserved  a job in hand, not yet started                                 *)
(* running   JobProcessing fired, handle() at work                          *)
(* chaining  the job's row deleted, the next link not yet pushed            *)
(* caught    in the catch block, after the handler had already succeeded    *)
(* threw     an error escaped processJob(): the process is gone             *)
(* down      the process was killed                                         *)
(***************************************************************************)
Phases == {"idle", "popping", "reserved", "running", "chaining", "caught", "threw", "down"}

Holding(w) == phase[w] \in {"reserved", "running", "caught"}

JobsOf(q) == {q.job} \cup SetOf(q.chain)

Init ==
    /\ DbInit
    /\ phase = [w \in Workers |-> "idle"]
    /\ held = [w \in Workers |-> None]
    /\ cands = [w \in Workers |-> {}]
    /\ reading = [o \in Operators |-> None]
    /\ dispatched = {}
    /\ retries = 0 /\ crashes = 0 /\ outages = 0
    /\ starts = [i \in Ids |-> 0]
    /\ done = {} /\ dropped = {} /\ lost = {}

-----------------------------------------------------------------------------
(* reserve(): pop() *)

Take(w, q) ==
    /\ held' = [held EXCEPT ![w] = q]
    /\ phase' = [phase EXCEPT ![w] = "reserved"]

Pop(w) ==
    /\ dialect # "sqlite"
    /\ phase[w] = "idle"
    /\ \E row \in Eligible : PopBySkipLocked(row) /\ Take(w, Queued(row))
    /\ UNCHANGED <<now, dialect, failed, nextId, cands, reading, dispatched,
                   spent, historyVars>>

\* popByConditionalUpdate(), the SELECT
ReadCandidates(w) ==
    /\ dialect = "sqlite"
    /\ phase[w] = "idle"
    /\ Eligible # {}
    /\ cands' = [cands EXCEPT ![w] = Batch]
    /\ phase' = [phase EXCEPT ![w] = "popping"]
    /\ UNCHANGED <<dbVars, held, reading, dispatched, spent, historyVars>>

\* popByConditionalUpdate(), one turn of the loop: won, or on to the next
TryCandidate(w) ==
    /\ phase[w] = "popping"
    /\ \E row \in cands[w] :
          /\ IsFirst(row, cands[w])
          /\ IF StillAsRead(row)
             THEN /\ ReserveCandidate(row)
                  /\ Take(w, Queued(row))
                  /\ cands' = [cands EXCEPT ![w] = {}]
             ELSE /\ cands' = [cands EXCEPT ![w] = @ \ {row}]
                  /\ phase' = [phase EXCEPT ![w] =
                                   IF cands[w] = {row} THEN "idle" ELSE "popping"]
                  /\ UNCHANGED <<jobs, held>>
    /\ UNCHANGED <<now, dialect, failed, nextId, reading, dispatched,
                   spent, historyVars>>

-----------------------------------------------------------------------------
(* processJob() *)

\* The worker is through with the job in hand.
Done(w) ==
    /\ phase' = [phase EXCEPT ![w] = "idle"]
    /\ held' = [held EXCEPT ![w] = None]

\* failJob(): an INSERT that violates the primary key escapes the loop.
FailHeld(w) ==
    /\ IF FailConflicts(held[w])
       THEN /\ phase' = [phase EXCEPT ![w] = "threw"]
            /\ held' = [held EXCEPT ![w] = None]
            /\ UNCHANGED <<jobs, failed>>
       ELSE FailRow(held[w]) /\ Done(w)
    /\ UNCHANGED <<now, dialect, nextId, cands, reading, dispatched,
                   spent, historyVars>>

\* An unregistered class, attempts burned before the job could start, or a
\* payload that does not decode, which may happen to any job.
FailUnstarted(w) ==
    /\ phase[w] = "reserved"
    /\ FailHeld(w)

\* SkipJobMissingModelError: the row is deleted, the chain goes with it.
SkipMissing(w) ==
    /\ phase[w] = "reserved"
    /\ held[w].job \in DeletesWhenMissing
    /\ DeleteRow(held[w].id)
    /\ dropped' = dropped \cup JobsOf(held[w])
    /\ Done(w)
    /\ UNCHANGED <<now, dialect, failed, nextId, cands, reading, dispatched,
                   spent, starts, done, lost>>

Start(w) ==
    /\ phase[w] = "reserved"
    /\ held[w].attempts < Tries
    /\ phase' = [phase EXCEPT ![w] = "running"]
    /\ starts' = [starts EXCEPT ![held[w].id] = @ + 1]
    /\ UNCHANGED <<dbVars, held, cands, reading, dispatched, spent,
                   done, dropped, lost>>

\* handle() returned: delete(); a job with a chain goes on to its next link.
Succeed(w) ==
    /\ phase[w] = "running"
    /\ DeleteRow(held[w].id)
    /\ done' = done \cup {held[w].job}
    /\ IF held[w].chain = <<>>
       THEN Done(w)
       ELSE phase' = [phase EXCEPT ![w] = "chaining"] /\ UNCHANGED held
    /\ UNCHANGED <<now, dialect, failed, nextId, cands, reading, dispatched,
                   spent, starts, dropped, lost>>

LastAttempt(w) == held[w].attempts + 1 >= Tries

\* The catch block's release: a ReleaseJobError or any other error, with
\* attempts to spare.  A row that is gone takes its chain with it.
ReleaseHeld(w, delay) ==
    /\ phase[w] \in {"running", "caught"}
    /\ ~LastAttempt(w)
    /\ ReleaseRow(held[w], delay)
    /\ lost' = IF phase[w] = "caught" /\ jobs[held[w].id] = None
               THEN lost \cup SetOf(held[w].chain) ELSE lost
    /\ Done(w)
    /\ UNCHANGED <<now, dialect, failed, nextId, cands, reading, dispatched,
                   spent, starts, done, dropped>>

\* The catch block's failJob: the last attempt, or a retryUntil() deadline
\* that has passed (any job may have one).
FailStarted(w) ==
    /\ phase[w] \in {"running", "caught"}
    /\ FailHeld(w)

\* dispatchNextInChain(): push the next link with the rest behind it.
PushNext(w) ==
    /\ phase[w] = "chaining"
    /\ Push(Head(held[w].chain), Tail(held[w].chain), 0)
    /\ Done(w)
    /\ UNCHANGED <<now, dialect, failed, cands, reading, dispatched,
                   spent, historyVars>>

\* The next link's class is unknown, or its uniqueness lock is taken: logged,
\* and the chain stops here.
StopChain(w) ==
    /\ phase[w] = "chaining"
    /\ Head(held[w].chain) \in Refusable
    /\ dropped' = dropped \cup SetOf(held[w].chain)
    /\ Done(w)
    /\ UNCHANGED <<dbVars, cands, reading, dispatched, spent,
                   starts, done, lost>>

-----------------------------------------------------------------------------
(* Faults *)

\* A driver call throws inside the try: delete() after the handler succeeded,
\* or the push of the next link.
ThrowInTry(w) ==
    /\ outages < MaxOutages
    /\ outages' = outages + 1
    /\ phase[w] \in {"running", "chaining"}
    /\ done' = done \cup {held[w].job}
    /\ phase' = [phase EXCEPT ![w] = "caught"]
    /\ UNCHANGED <<dbVars, held, cands, reading, dispatched, retries, crashes,
                   starts, dropped, lost>>

\* release(), fail() or a skip's delete() throws: nothing catches it.
ThrowOutOfLoop(w) ==
    /\ outages < MaxOutages
    /\ outages' = outages + 1
    /\ Holding(w)
    /\ phase' = [phase EXCEPT ![w] = "threw"]
    /\ held' = [held EXCEPT ![w] = None]
    /\ lost' = IF phase[w] = "caught" /\ jobs[held[w].id] = None
               THEN lost \cup SetOf(held[w].chain) ELSE lost
    /\ UNCHANGED <<dbVars, cands, reading, dispatched, retries, crashes,
                   starts, done, dropped>>

\* kill -9, at any point.  BOUND: early enough for the job to be reclaimed.
Crash(w) ==
    /\ crashes < MaxCrashes
    /\ now + RetryAfter <= MaxTime
    /\ crashes' = crashes + 1
    /\ phase[w] \notin {"down", "threw"}
    /\ phase' = [phase EXCEPT ![w] = "down"]
    /\ held' = [held EXCEPT ![w] = None]
    /\ cands' = [cands EXCEPT ![w] = {}]
    /\ lost' = IF \/ phase[w] = "chaining"
                  \/ phase[w] = "caught" /\ jobs[held[w].id] = None
               THEN lost \cup SetOf(held[w].chain) ELSE lost
    /\ UNCHANGED <<dbVars, reading, dispatched, retries, outages, starts, done, dropped>>

\* The supervisor the worker assumes starts a fresh process.
Restart(w) ==
    /\ phase[w] \in {"down", "threw"}
    /\ phase' = [phase EXCEPT ![w] = "idle"]
    /\ UNCHANGED <<dbVars, held, cands, reading, dispatched, spent, historyVars>>

-----------------------------------------------------------------------------
(* Everyone else *)

\* QueueManager.dispatch(), each head once
Dispatch(j, delay) ==
    /\ j \notin dispatched
    /\ dispatched' = dispatched \cup {j}
    /\ Push(j, ChainOf[j], delay)
    /\ UNCHANGED <<now, dialect, failed, workerVars, reading, spent, historyVars>>

\* queue:retry, the SELECT of its transaction
RetryRead(o, i) ==
    /\ retries < MaxRetries
    /\ retries' = retries + 1
    /\ reading[o] = None
    /\ failed[i] # None
    /\ reading' = [reading EXCEPT ![o] = [id |-> i, row |-> failed[i]]]
    /\ UNCHANGED <<dbVars, workerVars, dispatched, crashes, outages, historyVars>>

\* queue:retry, its writes.  SQLite aborts a transaction whose snapshot is
\* stale; the other engines, at their default isolation, let it commit.
RetryWrite(o) ==
    /\ reading[o] # None
    /\ LET r == reading[o] IN
       IF dialect = "sqlite" /\ failed[r.id] # r.row
       THEN UNCHANGED <<jobs, failed, nextId>>
       ELSE RetryRow(r.id, r.row)
    /\ reading' = [reading EXCEPT ![o] = None]
    /\ UNCHANGED <<now, dialect, workerVars, dispatched, spent, historyVars>>

\* queue:forget
Forget(o, i) ==
    /\ reading[o] = None
    /\ failed[i] # None
    /\ ForgetRow(i)
    /\ dropped' = dropped \cup JobsOf(failed[i])
    /\ UNCHANGED <<now, dialect, jobs, nextId, workerVars, reading, dispatched,
                   spent, starts, done, lost>>

\* queue:flush, without --hours
Flush(o) ==
    /\ reading[o] = None
    /\ \E i \in Ids : failed[i] # None
    /\ FlushRows
    /\ dropped' = dropped \cup UNION {JobsOf(failed[i]) : i \in {k \in Ids : failed[k] # None}}
    /\ UNCHANGED <<now, dialect, jobs, nextId, workerVars, reading, dispatched,
                   spent, starts, done, lost>>

\* queue:clear: every row of the queue, reserved ones included
Clear(o) ==
    /\ reading[o] = None
    /\ \E i \in Ids : jobs[i] # None
    /\ ClearRows
    /\ dropped' = dropped \cup UNION {JobsOf(jobs[i]) : i \in {k \in Ids : jobs[k] # None}}
    /\ UNCHANGED <<now, dialect, failed, nextId, workerVars, reading, dispatched,
                   spent, starts, done, lost>>

\* Whether the row a worker works on would become eligible again at `t'.
Overrun(w, t) ==
    /\ Holding(w)
    /\ jobs[held[w].id] # None
    /\ jobs[held[w].id].reservedAt <= t - RetryAfter

\* One second.  The docs ask for a retryAfter longer than any job takes: under
\* Prompt, time does not carry a working worker past its reservation.
Second ==
    /\ Tick
    /\ Prompt => \A w \in Workers : ~Overrun(w, now + 1)
    /\ UNCHANGED <<dialect, jobs, failed, nextId, workerVars, reading, dispatched,
                   spent, historyVars>>

-----------------------------------------------------------------------------

Work(w) ==
    \/ Pop(w) \/ ReadCandidates(w) \/ TryCandidate(w)
    \/ FailUnstarted(w) \/ SkipMissing(w) \/ Start(w)
    \/ Succeed(w) \/ FailStarted(w)
    \/ \E delay \in Delays : ReleaseHeld(w, delay)
    \/ PushNext(w) \/ StopChain(w)

Fault(w) == ThrowInTry(w) \/ ThrowOutOfLoop(w) \/ Crash(w)

Console(o) ==
    \/ "retry" \in Commands /\ \E i \in Ids : RetryRead(o, i)
    \/ RetryWrite(o)
    \/ "forget" \in Commands /\ \E i \in Ids : Forget(o, i)
    \/ "flush" \in Commands /\ Flush(o)
    \/ "clear" \in Commands /\ Clear(o)

Next ==
    \/ \E w \in Workers : Work(w) \/ Fault(w) \/ Restart(w)
    \/ \E j \in Heads, delay \in Delays : Dispatch(j, delay)
    \/ \E o \in Operators : Console(o)
    \/ Second

Spec == Init /\ [][Next]_vars

(***************************************************************************)
(* A worker's event loop always comes back to what it awaits, a supervisor  *)
(* restarts a process that ended, an open transaction ends, and time passes.*)
(* Nothing is assumed of dispatchers, of what operators start, or of faults.*)
(***************************************************************************)
Fairness ==
    /\ \A w \in Workers : WF_vars(Work(w)) /\ WF_vars(Restart(w))
    /\ \A o \in Operators : WF_vars(RetryWrite(o))
    /\ WF_vars(Second)

FairSpec == Spec /\ Fairness

-----------------------------------------------------------------------------
(* Properties *)

\* The types of the tables and of the workers' memory.
TypeOK ==
    /\ now \in Time /\ dialect \in Dialects
    /\ jobs \in [Ids -> JobRow \cup {None}]
    /\ failed \in [Ids -> FailedRow \cup {None}]
    /\ nextId \in 1..(MaxId + 1)
    /\ phase \in [Workers -> Phases]
    /\ held \in [Workers -> QueuedJob \cup {None}]
    /\ cands \in [Workers -> SUBSET JobRow]
    /\ reading \in [Operators -> [id : Ids, row : FailedRow] \cup {None}]
    /\ dispatched \subseteq Heads
    /\ retries \in 0..MaxRetries
    /\ crashes \in 0..MaxCrashes /\ outages \in 0..MaxOutages
    /\ starts \in [Ids -> Nat]
    /\ done \subseteq Jobs /\ dropped \subseteq Jobs /\ lost \subseteq Jobs

\* Two workers never work on the same row: pop() gives a row to one worker and
\* to no other until it has ended with it (database-queue-driver.ts, pop and
\* the visibility timeout).  Needs the documented retryAfter.
ExclusiveReservation ==
    \A v, w \in Workers :
        v # w /\ Holding(v) /\ Holding(w) => held[v].id # held[w].id

\* No job id is in jobs and in failed_jobs at once, however late a worker calls
\* fail(): its INSERT and DELETE, and those of retry(), are one transaction.
OneTable == \A i \in Ids : jobs[i] = None \/ failed[i] = None

\* Where a job, or a link behind one, is recorded.
RowsOf(j) == {i \in Ids : jobs[i] # None /\ j \in JobsOf(jobs[i])}
FailuresOf(j) == {i \in Ids : failed[i] # None /\ j \in JobsOf(failed[i])}
LinkedBy(j) == {w \in Workers : phase[w] = "chaining" /\ j \in SetOf(held[w].chain)}

\* A job waits in one place: no reclaim, release, failure, retry or chain push
\* makes a second copy of it.  Needs the documented retryAfter.
AtMostOneCopy ==
    \A j \in Jobs :
        Cardinality(RowsOf(j)) + Cardinality(FailuresOf(j)) + Cardinality(LinkedBy(j)) <= 1

\* Whatever stalls, crashes or races there are, a job that was dispatched is
\* recorded somewhere, ran, was given up on purpose, or was lost in one of the
\* two windows `lost' names: between the delete of a job and the push of the
\* link behind it, by a crash or by a push that throws.
NoJobLost ==
    \A h \in dispatched : \A j \in Line(h) :
        \/ RowsOf(j) # {} \/ FailuresOf(j) # {} \/ LinkedBy(j) # {}
        \/ j \in done \cup dropped \cup lost
        \/ \E w \in Workers : phase[w] = "caught" /\ j \in SetOf(held[w].chain)

\* A handler is started at most Tries times for one row, crashes and reclaims
\* counted (queue-work.ts, the check before the run).  SQLite can forget an
\* attempt: see NotBeforeDue.
RunsBounded == dialect # "sqlite" => \A i \in Ids : starts[i] <= Tries

\* Nothing escapes processJob(): the loop never throws.
LoopNeverThrows == \A w \in Workers : phase[w] # "threw"

\* A row changes hands only when its reservation was given up or had expired.
ReservationRespected ==
    [][\A i \in Ids :
         jobs[i] # None /\ jobs'[i] # None /\ jobs[i].reservedAt # NotReserved
         /\ jobs'[i].reservedAt # jobs[i].reservedAt
         => jobs'[i].reservedAt = NotReserved \/ Expired(jobs[i])]_vars

\* pop() takes a row only once its delay has passed.
NotBeforeDue ==
    [][\A i \in Ids :
         jobs[i] # None /\ jobs'[i] # None /\ jobs'[i].reservedAt # jobs[i].reservedAt
         => jobs'[i].reservedAt = NotReserved \/ jobs[i].availableAt <= now]_vars

-----------------------------------------------------------------------------
(* What the queue promises *)

\* Where a job is still to be run, or being run.
Waits(j) ==
    \/ RowsOf(j) # {} \/ LinkedBy(j) # {}
    \/ \E w \in Workers : Holding(w) /\ j \in JobsOf(held[w])

\* Where a job stands; when several of these are true of it, the first counts.
StatusOf(j) ==
    IF j \in done THEN "done"
    ELSE IF Waits(j) THEN "waiting"
    ELSE IF FailuresOf(j) # {} THEN "failed"
    ELSE IF j \in dropped THEN "dropped"
    ELSE IF j \in lost THEN "lost"
    ELSE "absent"

Contract == INSTANCE JobContract WITH status <- [j \in Jobs |-> StatusOf(j)]

\* The queue and its workers keep the contract of JobContract.
ContractHolds == Contract!Spec

\* No job waits for ever.
EveryJobSettles == Contract!Settles
=============================================================================
