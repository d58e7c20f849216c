---------------------------- MODULE DatabaseQueue ----------------------------
(***************************************************************************)
(* The database queue driver (database-queue-driver.ts) and its two tables. *)
(* Every operation is an operator on the tables; QueueWork.tla puts the     *)
(* processes that call them on top.                                         *)
(*                                                                          *)
(* `timestamp()' truncates to whole seconds before anything is stored or    *)
(* compared, so an instant is the number of whole seconds since the start.  *)
(* A job is known by its class: payloads are not interpreted here.          *)
(***************************************************************************)
EXTENDS Integers, Sequences, FiniteSets

CONSTANTS
    Jobs,         \* job classes; each dispatch and each chain link has its own
    Dialects,     \* the engines considered, a subset of {"sqlite", "mysql", "postgres"}
    RetryAfter,   \* retryAfterSeconds, the visibility timeout
    PopBatch,     \* popBatchSize, the candidates one SQLite pop() reads
    None,         \* no row, no job
    MaxTime,      \* BOUND: the clock stops here
    MaxId         \* BOUND: rows the jobs table ever holds

ASSUME RetryAfterAssumption == RetryAfter \in Nat
ASSUME BoundsAssumption == MaxTime \in Nat /\ MaxId \in Nat /\ PopBatch \in Nat \ {0}

VARIABLES
    now,      \* the clock all processes read, in seconds
    dialect,  \* the engine behind the connection, fixed when the driver is built
    jobs,     \* the jobs table: id -> row, or None
    failed,   \* the failed_jobs table: id -> row, or None
    nextId    \* AUTOINCREMENT: the next id, never reused

dbVars == <<now, dialect, jobs, failed, nextId>>

NotReserved == -1
Ids == 1..MaxId
Time == 0..MaxTime

JobRow == [id : Ids, job : Jobs, chain : Seq(Jobs), attempts : Nat,
           availableAt : Time, reservedAt : Time \cup {NotReserved}]

FailedRow == [job : Jobs, chain : Seq(Jobs)]

\* What pop() hands to a worker: a copy of the row, not the row.
QueuedJob == [id : Ids, job : Jobs, chain : Seq(Jobs), attempts : Nat]

ASSUME NoneAssumption ==
    /\ None \notin Jobs
    /\ None \notin JobRow
    /\ None \notin FailedRow
    /\ None \notin QueuedJob

DbInit ==
    /\ now = 0
    /\ dialect \in Dialects
    /\ jobs = [i \in Ids |-> None]
    /\ failed = [i \in Ids |-> None]
    /\ nextId = 1

\* `delay' seconds from now. A due date past the horizon falls on the horizon,
\* so that work put off to the end of time is still due then.
Later(delay) == IF now + delay <= MaxTime THEN now + delay ELSE MaxTime

NewRow(job, chain, delay) ==
    [id |-> nextId, job |-> job, chain |-> chain, attempts |-> 0,
     availableAt |-> Later(delay), reservedAt |-> NotReserved]

Push(job, chain, delay) ==
    /\ nextId <= MaxId
    /\ jobs' = [jobs EXCEPT ![nextId] = NewRow(job, chain, delay)]
    /\ nextId' = nextId + 1

-----------------------------------------------------------------------------
(* Reserving *)

Expired(row) == row.reservedAt # NotReserved /\ row.reservedAt <= now - RetryAfter

\* Mutant: without the visibility timeout, only unreserved rows are eligible.
EligibleNeverReclaims ==
    {jobs[i] : i \in {k \in Ids : /\ jobs[k] # None
                                  /\ jobs[k].availableAt <= now
                                  /\ jobs[k].reservedAt = NotReserved}}

Eligible ==
    {jobs[i] : i \in {k \in Ids : /\ jobs[k] # None
                                  /\ jobs[k].availableAt <= now
                                  /\ jobs[k].reservedAt = NotReserved \/ Expired(jobs[k])}}

\* ORDER BY available_at, id
Before(r, s) ==
    \/ r.availableAt < s.availableAt
    \/ r.availableAt = s.availableAt /\ r.id < s.id

IsFirst(r, rows) == r \in rows /\ \A s \in rows : s = r \/ Before(r, s)

\* The candidates of one SQLite pop(): the first PopBatch eligible rows.
Batch == {r \in Eligible : Cardinality({s \in Eligible : Before(s, r)}) < PopBatch}

\* Mutants: a reclaim does not count; it gives an attempt back.
AttemptsOnUncounted(row) == row.attempts

AttemptsOnRefunded(row) ==
    IF row.reservedAt = NotReserved THEN row.attempts ELSE row.attempts - 1

\* A reclaimed job burned an attempt on the worker that held it.
AttemptsOn(row) == IF row.reservedAt = NotReserved THEN row.attempts ELSE row.attempts + 1

Queued(row) == [id |-> row.id, job |-> row.job, chain |-> row.chain,
                attempts |-> AttemptsOn(row)]

\* SELECT ... FOR UPDATE SKIP LOCKED LIMIT 1 and the UPDATE, one transaction.
PopBySkipLocked(row) ==
    /\ IsFirst(row, Eligible)
    /\ jobs' = [jobs EXCEPT ![row.id] =
                    [@ EXCEPT !.reservedAt = now, !.attempts = AttemptsOn(row)]]

\* Mutant: UPDATE ... WHERE id = ?, without the reserved_at predicate.
StillAsReadById(row) == jobs[row.id] # None

\* Whether the conditional UPDATE for a candidate read earlier finds its row.
StillAsRead(row) == jobs[row.id] # None /\ jobs[row.id].reservedAt = row.reservedAt

\* The UPDATE sets attempts only when it reclaims.
AttemptsAfter(row) == IF row.reservedAt = NotReserved
                      THEN jobs[row.id].attempts ELSE row.attempts + 1

\* The conditional UPDATE.
ReserveCandidate(row) ==
    /\ StillAsRead(row)
    /\ jobs' = [jobs EXCEPT ![row.id] =
                    [@ EXCEPT !.reservedAt = now, !.attempts = AttemptsAfter(row)]]

-----------------------------------------------------------------------------
(* Ending a reservation: each by id alone, whoever holds the row by then *)

ReleaseRow(q, delay) ==
    IF jobs[q.id] = None
    THEN UNCHANGED jobs
    ELSE jobs' = [jobs EXCEPT ![q.id] =
                      [@ EXCEPT !.attempts = q.attempts + 1,
                                !.availableAt = Later(delay),
                                !.reservedAt = NotReserved]]

DeleteRow(id) == jobs' = [jobs EXCEPT ![id] = None]

\* failed_jobs.id is the job's own id and the primary key: a second INSERT throws.
FailConflicts(q) == failed[q.id] # None

\* Mutants: the job's row is kept; the chain is not recorded.
FailRowKept(q) ==
    /\ ~FailConflicts(q)
    /\ failed' = [failed EXCEPT ![q.id] = [job |-> q.job, chain |-> q.chain]]
    /\ UNCHANGED jobs

FailRowWithoutChain(q) ==
    /\ ~FailConflicts(q)
    /\ failed' = [failed EXCEPT ![q.id] = [job |-> q.job, chain |-> <<>>]]
    /\ DeleteRow(q.id)

\* One transaction: INSERT INTO failed_jobs, DELETE FROM jobs.
FailRow(q) ==
    /\ ~FailConflicts(q)
    /\ failed' = [failed EXCEPT ![q.id] = [job |-> q.job, chain |-> q.chain]]
    /\ DeleteRow(q.id)

-----------------------------------------------------------------------------
(* The operator's commands *)

\* Mutants: the failed row is kept; the chain is dropped.
RetryRowKept(id, row) == Push(row.job, row.chain, 0) /\ UNCHANGED failed

RetryRowWithoutChain(id, row) ==
    /\ Push(row.job, <<>>, 0)
    /\ failed' = [failed EXCEPT ![id] = None]

\* The writes of retry(): a fresh row, the failed row gone. The rows were read
\* earlier in the same transaction (`row').
RetryRow(id, row) ==
    /\ Push(row.job, row.chain, 0)
    /\ failed' = [failed EXCEPT ![id] = None]

ForgetRow(id) == failed' = [failed EXCEPT ![id] = None]

FlushRows == failed' = [i \in Ids |-> None]

ClearRows == jobs' = [i \in Ids |-> None]

Tick == now < MaxTime /\ now' = now + 1
=============================================================================
