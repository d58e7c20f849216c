-------------------------- MODULE QueueWork_proofs --------------------------
(***************************************************************************)
(* Proofs about QueueWork, for any number of workers, jobs, rows and        *)
(* operators, any clock and any number of faults.                           *)
(***************************************************************************)
EXTENDS QueueWork, TLAPS

-----------------------------------------------------------------------------
(* The inductive invariants *)

\* The phases in which a worker has a job in its memory.
Owning(w) == phase[w] \in {"reserved", "running", "chaining", "caught"}

\* A worker between pop() and the end of processJob() has a job in hand, and one
\* about to push a link has a chain.
MemoryOK ==
    \A w \in Workers :
        /\ Owning(w) => held[w] # None
        /\ phase[w] = "chaining" => held[w].chain # <<>>

\* Ids come from nextId and are never used again.
IdsOK ==
    /\ \A i \in Ids : jobs[i] # None => jobs[i].id = i /\ i < nextId
    /\ \A w \in Workers : held[w] # None => held[w].id < nextId

\* What SQLite's pop() read was free, or had expired and stays so.
CandidatesOK ==
    \A w \in Workers : \A r \in cands[w] :
        r.reservedAt = NotReserved \/ r.reservedAt <= now - RetryAfter

\* The row of a job in hand, while it is there, is reserved and not expired.
ReservedOK ==
    \A w \in Workers :
        Owning(w) /\ jobs[held[w].id] # None =>
            /\ phase[w] # "chaining"
            /\ jobs[held[w].id].reservedAt # NotReserved
            /\ jobs[held[w].id].reservedAt > now - RetryAfter

\* No row is in the hands of two workers.
OwnersDiffer ==
    \A v, w \in Workers :
        v # w /\ Owning(v) /\ Owning(w) => held[v].id # held[w].id

\* The inductive invariant behind ExclusiveReservation.
Owned == CandidatesOK /\ ReservedOK /\ OwnersDiffer

\* A failed row's id has been handed out, and its job's row is gone.
Apart == OneTable /\ \A i \in Ids : failed[i] # None => i < nextId

\* The job in hand has not been recorded as failed, and no worker has ended.
NotYetFailed ==
    /\ \A w \in Workers : Owning(w) => failed[held[w].id] = None
    /\ LoopNeverThrows

-----------------------------------------------------------------------------
(* Type correctness *)

\* The inductive form of the type invariant.
Typed == TypeOK /\ MemoryOK /\ IdsOK

USE RetryAfterAssumption, BoundsAssumption, QueueWorkAssumption

\* A due date is on the clock.
LEMMA LaterInTime ==
    ASSUME NEW delay \in Nat, now \in Time
    PROVE  Later(delay) \in Time
  BY DEF Later, Time

\* What is chained behind a job is a set of jobs.
LEMMA ChainJobs ==
    ASSUME NEW chain \in Seq(Jobs)
    PROVE  SetOf(chain) \subseteq Jobs
  BY DEF SetOf

\* The jobs of a row, a failed row or a job in hand are jobs.
LEMMA JobsOfJobs ==
    ASSUME NEW q, q.job \in Jobs, q.chain \in Seq(Jobs)
    PROVE  JobsOf(q) \subseteq Jobs
  BY ChainJobs DEF JobsOf

\* push() puts a row in the table.
LEMMA PushTyped ==
    ASSUME TypeOK, NEW job \in Jobs, NEW chain \in Seq(Jobs), NEW delay \in Nat,
           Push(job, chain, delay)
    PROVE  /\ jobs' \in [Ids -> JobRow \cup {None}] /\ nextId' \in 1..(MaxId + 1)
           /\ IdsOK /\ (\A w \in Workers : held'[w] # None => held'[w] = held[w]) => IdsOK'
  <1>1. NewRow(job, chain, delay) \in JobRow
    BY LaterInTime DEF NewRow, JobRow, TypeOK, Push, Ids, Time, NotReserved
  <1>2. jobs' \in [Ids -> JobRow \cup {None}] /\ nextId' \in 1..(MaxId + 1)
    BY <1>1 DEF Push, TypeOK, Ids
  <1>3. ASSUME IdsOK, \A w \in Workers : held'[w] # None => held'[w] = held[w]
        PROVE  IdsOK'
    <2>1. ASSUME NEW i \in Ids, jobs'[i] # None
          PROVE  jobs'[i].id = i /\ i < nextId'
      BY <1>3, <2>1 DEF Push, NewRow, IdsOK, TypeOK, Ids
    <2>2. ASSUME NEW w \in Workers, held'[w] # None
          PROVE  held'[w].id < nextId'
      BY <1>3, <2>2 DEF Push, IdsOK, TypeOK, Ids, QueuedJob
    <2>3. QED
      BY <2>1, <2>2 DEF IdsOK
  <1>4. QED
    BY <1>2, <1>3

\* A job that pop() hands over is a QueuedJob.
LEMMA QueuedTyped ==
    ASSUME NEW row \in JobRow
    PROVE  Queued(row) \in QueuedJob
  BY DEF Queued, QueuedJob, JobRow, AttemptsOn

\* What pop() may choose from are rows of the table, free or expired.
LEMMA EligibleRows ==
    ASSUME TypeOK, NEW row \in Eligible
    PROVE  /\ row \in JobRow
           /\ IdsOK => jobs[row.id] = row
           /\ row.availableAt <= now
           /\ row.reservedAt = NotReserved \/ row.reservedAt <= now - RetryAfter
  BY NoneAssumption DEF Eligible, TypeOK, Expired, IdsOK

\* Reserving a row changes its reservation and its count, nothing else.
LEMMA ReserveTyped ==
    ASSUME TypeOK, IdsOK, NEW id \in Ids, jobs[id] # None, NEW n \in Nat,
           jobs' = [jobs EXCEPT ![id] = [@ EXCEPT !.reservedAt = now, !.attempts = n]]
    PROVE  /\ jobs' \in [Ids -> JobRow \cup {None}]
           /\ \A i \in Ids : jobs'[i] # None => jobs[i] # None /\ jobs'[i].id = i
  <1>1. jobs[id] \in JobRow
    BY DEF TypeOK
  <1>2. [jobs[id] EXCEPT !.reservedAt = now, !.attempts = n] \in JobRow
    BY <1>1 DEF TypeOK, JobRow
  <1>3. QED
    BY <1>1, <1>2, NoneAssumption DEF TypeOK, IdsOK, JobRow

\* release() keeps the row and its id: only the count, due date and reservation change.
LEMMA ReleaseTyped ==
    ASSUME TypeOK, IdsOK, NEW q \in QueuedJob, NEW delay \in Nat, ReleaseRow(q, delay)
    PROVE  /\ jobs' \in [Ids -> JobRow \cup {None}]
           /\ \A i \in Ids : jobs'[i] # None => jobs[i] # None /\ jobs'[i].id = i
  <1>1. CASE jobs[q.id] = None
    BY <1>1 DEF ReleaseRow, TypeOK, IdsOK
  <1>2. CASE jobs[q.id] # None
    <2> DEFINE row == [jobs[q.id] EXCEPT !.attempts = q.attempts + 1,
                                         !.availableAt = Later(delay),
                                         !.reservedAt = NotReserved]
    <2>1. q.id \in Ids /\ jobs[q.id] \in JobRow /\ jobs[q.id].id = q.id
      BY <1>2 DEF TypeOK, QueuedJob, IdsOK
    <2>2. Later(delay) \in Time /\ q.attempts + 1 \in Nat
      BY LaterInTime DEF TypeOK, QueuedJob
    <2>3. row \in JobRow /\ row.id = q.id
      BY <2>1, <2>2 DEF JobRow
    <2>4. jobs' = [jobs EXCEPT ![q.id] = row]
      BY <1>2 DEF ReleaseRow
    <2>5. QED
      BY <1>2, <2>1, <2>3, <2>4 DEF TypeOK, IdsOK
  <1>3. QED
    BY <1>1, <1>2

\* Empty tables and idle workers are typed.
LEMMA TypedInit == Init => Typed
  BY DEF Init, DbInit, Typed, TypeOK, MemoryOK, IdsOK, Owning, Phases, Ids, Time, Heads

\* failJob() either ends with the job or throws.
LEMMA FailTyped ==
    ASSUME Typed, NEW w \in Workers, Owning(w), FailHeld(w)
    PROVE  /\ failed' \in [Ids -> FailedRow \cup {None}]
           /\ jobs' \in [Ids -> JobRow \cup {None}]
           /\ \A i \in Ids : jobs'[i] # None => jobs'[i] = jobs[i]
           /\ phase' \in [Workers -> Phases]
           /\ held' = [held EXCEPT ![w] = None]
           /\ phase' = [phase EXCEPT ![w] = "idle"] \/ phase' = [phase EXCEPT ![w] = "threw"]
  <1>1. held[w] \in QueuedJob
    BY DEF Typed, TypeOK, MemoryOK
  <1>2. [job |-> held[w].job, chain |-> held[w].chain] \in FailedRow
    BY <1>1 DEF QueuedJob, FailedRow
  <1>3. QED
    BY <1>1, <1>2 DEF FailHeld, FailRow, DeleteRow, Done, Typed, TypeOK, Phases, QueuedJob

\* Every step of a worker, an operator, a dispatcher or the clock keeps the types.
LEMMA TypedStep == Typed /\ [Next]_vars => Typed'
  <1> SUFFICES ASSUME Typed, [Next]_vars PROVE Typed'
    OBVIOUS
  <1> USE NoneAssumption DEF dbVars, workerVars, spent, historyVars
  <1>1. ASSUME NEW w \in Workers, Pop(w) PROVE Typed'
    <2>1. PICK row \in Eligible : PopBySkipLocked(row) /\ Take(w, Queued(row))
      BY <1>1 DEF Pop
    <2>2. row \in JobRow /\ jobs[row.id] = row /\ row.id \in Ids
      BY EligibleRows DEF JobRow, Typed
    <2>3. Queued(row) \in QueuedJob /\ Queued(row).id = row.id /\ AttemptsOn(row) \in Nat
      BY <2>2, QueuedTyped DEF Queued, AttemptsOn, JobRow
    <2>4. /\ jobs' \in [Ids -> JobRow \cup {None}]
          /\ \A i \in Ids : jobs'[i] # None => jobs[i] # None /\ jobs'[i].id = i
      BY <2>1, <2>2, <2>3, ReserveTyped DEF PopBySkipLocked, Typed
    <2>5. TypeOK' /\ MemoryOK'
      BY <1>1, <2>1, <2>3, <2>4 DEF Typed, Pop, Take, TypeOK, MemoryOK, Owning, Phases
    <2>6. IdsOK'
      BY <1>1, <2>1, <2>2, <2>3, <2>4 DEF Typed, Pop, Take, TypeOK, IdsOK
    <2>7. QED
      BY <2>5, <2>6 DEF Typed
  <1>2. ASSUME NEW w \in Workers, ReadCandidates(w) PROVE Typed'
    <2>1. Batch \subseteq JobRow
      BY EligibleRows DEF Batch, Typed
    <2>2. QED
      BY <1>2, <2>1 DEF ReadCandidates, Typed, TypeOK, MemoryOK, IdsOK, Owning, Phases
  <1>3. ASSUME NEW w \in Workers, TryCandidate(w) PROVE Typed'
    <2>1. PICK row \in cands[w] :
            \/ /\ StillAsRead(row)
               /\ ReserveCandidate(row)
               /\ Take(w, Queued(row))
               /\ cands' = [cands EXCEPT ![w] = {}]
            \/ /\ cands' = [cands EXCEPT ![w] = @ \ {row}]
               /\ phase' = [phase EXCEPT ![w] =
                                IF cands[w] = {row} THEN "idle" ELSE "popping"]
               /\ UNCHANGED <<jobs, held>>
      BY <1>3 DEF TryCandidate
    <2>2. row \in JobRow /\ row.id \in Ids
      BY DEF Typed, TypeOK, JobRow
    <2>3. CASE StillAsRead(row) /\ ReserveCandidate(row) /\ Take(w, Queued(row))
               /\ cands' = [cands EXCEPT ![w] = {}]
      <3>1. Queued(row) \in QueuedJob /\ Queued(row).id = row.id
        BY <2>2, QueuedTyped DEF Queued
      <3>2. /\ jobs' \in [Ids -> JobRow \cup {None}]
            /\ \A i \in Ids : jobs'[i] # None => jobs[i] # None /\ jobs'[i].id = i
        <4>1. jobs[row.id] # None
          BY <2>3 DEF StillAsRead
        <4>2. AttemptsAfter(row) \in Nat
          BY <2>2, <4>1 DEF Typed, TypeOK, JobRow, AttemptsAfter
        <4>3. QED
          BY <2>2, <2>3, <4>1, <4>2, ReserveTyped DEF ReserveCandidate, Typed
      <3>3. jobs[row.id] # None
        BY <2>3 DEF StillAsRead
      <3>4. TypeOK' /\ MemoryOK'
        BY <1>3, <2>3, <3>1, <3>2
        DEF Typed, TryCandidate, Take, TypeOK, MemoryOK, Owning, Phases
      <3>5. IdsOK'
        BY <1>3, <2>2, <2>3, <3>1, <3>2, <3>3
        DEF Typed, TryCandidate, Take, TypeOK, IdsOK
      <3>6. QED
        BY <3>4, <3>5 DEF Typed
    <2>4. CASE /\ cands' = [cands EXCEPT ![w] = @ \ {row}]
               /\ phase' = [phase EXCEPT ![w] =
                                IF cands[w] = {row} THEN "idle" ELSE "popping"]
               /\ UNCHANGED <<jobs, held>>
      BY <1>3, <2>4 DEF TryCandidate, Typed, TypeOK, MemoryOK, IdsOK, Owning, Phases
    <2>5. QED
      BY <2>1, <2>3, <2>4
  <1>4. ASSUME NEW w \in Workers, FailUnstarted(w) \/ FailStarted(w) PROVE Typed'
    <2>1. Owning(w) /\ FailHeld(w)
      BY <1>4 DEF FailUnstarted, FailStarted, Owning
    <2>2. TypeOK' /\ MemoryOK'
      <3>1. TypeOK'
        BY <2>1, FailTyped DEF FailHeld, Typed, TypeOK
      <3>2. ~Owning(w)'
        BY <2>1, FailTyped DEF Owning, Typed, TypeOK
      <3>3. \A v \in Workers : v # w => phase'[v] = phase[v] /\ held'[v] = held[v]
        BY <2>1, FailTyped DEF Typed, TypeOK
      <3>4. MemoryOK'
        BY <3>2, <3>3 DEF Typed, MemoryOK, Owning
      <3>5. QED
        BY <3>1, <3>4
    <2>3. IdsOK'
      BY <2>1, FailTyped DEF FailHeld, Typed, TypeOK, IdsOK
    <2>4. QED
      BY <2>2, <2>3 DEF Typed
  <1>5. ASSUME NEW w \in Workers, SkipMissing(w) PROVE Typed'
    <2>1. held[w] \in QueuedJob
      BY <1>5 DEF SkipMissing, Typed, TypeOK, MemoryOK, Owning
    <2>2. JobsOf(held[w]) \subseteq Jobs
      BY <2>1, JobsOfJobs DEF QueuedJob
    <2>3. QED
      BY <1>5, <2>1, <2>2
      DEF SkipMissing, DeleteRow, Done, Typed, TypeOK, MemoryOK, IdsOK, Owning, Phases, QueuedJob
  <1>6. ASSUME NEW w \in Workers, Start(w) PROVE Typed'
    <2>1. held[w] \in QueuedJob
      BY <1>6 DEF Start, Typed, TypeOK, MemoryOK, Owning
    <2>2. QED
      BY <1>6, <2>1 DEF Start, Typed, TypeOK, MemoryOK, IdsOK, Owning, Phases, QueuedJob
  <1>7. ASSUME NEW w \in Workers, Succeed(w) PROVE Typed'
    <2>1. held[w] \in QueuedJob
      BY <1>7 DEF Succeed, Typed, TypeOK, MemoryOK, Owning
    <2>2. /\ jobs' \in [Ids -> JobRow \cup {None}]
          /\ \A i \in Ids : jobs'[i] # None => jobs'[i] = jobs[i]
      BY <1>7 DEF Succeed, DeleteRow, Typed, TypeOK
    <2>3. /\ phase' = [phase EXCEPT ![w] = "idle"] /\ held' = [held EXCEPT ![w] = None]
          \/ /\ phase' = [phase EXCEPT ![w] = "chaining"] /\ held' = held
             /\ held[w].chain # <<>>
      BY <1>7 DEF Succeed, Done
    <2>4. TypeOK'
      BY <1>7, <2>1, <2>2, <2>3 DEF Succeed, Typed, TypeOK, Phases, QueuedJob
    <2>5. MemoryOK'
      BY <1>7, <2>1, <2>3 DEF Succeed, Typed, TypeOK, MemoryOK, Owning
    <2>6. IdsOK'
      BY <1>7, <2>2, <2>3 DEF Succeed, Typed, TypeOK, IdsOK
    <2>7. QED
      BY <2>4, <2>5, <2>6 DEF Typed
  <1>8. ASSUME NEW w \in Workers, NEW delay \in Delays, ReleaseHeld(w, delay) PROVE Typed'
    <2>1. held[w] \in QueuedJob /\ delay \in Nat
      BY <1>8 DEF ReleaseHeld, Typed, TypeOK, MemoryOK, Owning
    <2>2. SetOf(held[w].chain) \subseteq Jobs
      BY <2>1, ChainJobs DEF QueuedJob
    <2>3. /\ jobs' \in [Ids -> JobRow \cup {None}]
          /\ \A i \in Ids : jobs'[i] # None => jobs[i] # None /\ jobs'[i].id = i
      BY <1>8, <2>1, ReleaseTyped DEF ReleaseHeld, Typed
    <2>4. QED
      BY <1>8, <2>2, <2>3
      DEF ReleaseHeld, Done, Typed, TypeOK, MemoryOK, IdsOK, Owning, Phases
  <1>9. ASSUME NEW w \in Workers, PushNext(w) PROVE Typed'
    <2>1. held[w] \in QueuedJob /\ held[w].chain # <<>>
      BY <1>9 DEF PushNext, Typed, TypeOK, MemoryOK, Owning
    <2>2. Head(held[w].chain) \in Jobs /\ Tail(held[w].chain) \in Seq(Jobs)
      BY <2>1 DEF QueuedJob
    <2>3. Push(Head(held[w].chain), Tail(held[w].chain), 0)
      BY <1>9 DEF PushNext
    <2>4. \A v \in Workers : held'[v] # None => held'[v] = held[v]
      BY <1>9 DEF PushNext, Done, Typed, TypeOK
    <2>5. jobs' \in [Ids -> JobRow \cup {None}] /\ nextId' \in 1..(MaxId + 1) /\ IdsOK'
      BY <2>2, <2>3, <2>4, PushTyped DEF Typed
    <2>6. QED
      BY <1>9, <2>5 DEF PushNext, Done, Typed, TypeOK, MemoryOK, Owning, Phases
  <1>10. ASSUME NEW w \in Workers, StopChain(w) PROVE Typed'
    <2>1. held[w] \in QueuedJob
      BY <1>10 DEF StopChain, Typed, TypeOK, MemoryOK, Owning
    <2>2. SetOf(held[w].chain) \subseteq Jobs
      BY <2>1, ChainJobs DEF QueuedJob
    <2>3. QED
      BY <1>10, <2>2 DEF StopChain, Done, Typed, TypeOK, MemoryOK, IdsOK, Owning, Phases
  <1>11. ASSUME NEW w \in Workers, ThrowInTry(w) PROVE Typed'
    <2>1. held[w] \in QueuedJob
      BY <1>11 DEF ThrowInTry, Typed, TypeOK, MemoryOK, Owning
    <2>2. QED
      BY <1>11, <2>1
      DEF ThrowInTry, Typed, TypeOK, MemoryOK, IdsOK, Owning, Phases, QueuedJob
  <1>12. ASSUME NEW w \in Workers, ThrowOutOfLoop(w) PROVE Typed'
    <2>1. held[w] \in QueuedJob
      BY <1>12 DEF ThrowOutOfLoop, Holding, Typed, TypeOK, MemoryOK, Owning
    <2>2. SetOf(held[w].chain) \subseteq Jobs
      BY <2>1, ChainJobs DEF QueuedJob
    <2>3. QED
      BY <1>12, <2>2 DEF ThrowOutOfLoop, Typed, TypeOK, MemoryOK, IdsOK, Owning, Phases
  <1>13. ASSUME NEW w \in Workers, Crash(w) PROVE Typed'
    <2>1. Owning(w) => SetOf(held[w].chain) \subseteq Jobs
      BY ChainJobs DEF Typed, TypeOK, MemoryOK, QueuedJob
    <2>2. QED
      BY <1>13, <2>1 DEF Crash, Typed, TypeOK, MemoryOK, IdsOK, Owning, Phases
  <1>14. ASSUME NEW w \in Workers, Restart(w) PROVE Typed'
    BY <1>14 DEF Restart, Typed, TypeOK, MemoryOK, IdsOK, Owning, Phases
  <1>15. ASSUME NEW j \in Heads, NEW delay \in Delays, Dispatch(j, delay) PROVE Typed'
    <2>1. jobs' \in [Ids -> JobRow \cup {None}] /\ nextId' \in 1..(MaxId + 1) /\ IdsOK'
      BY <1>15, PushTyped DEF Dispatch, Typed, workerVars
    <2>2. QED
      BY <1>15, <2>1 DEF Dispatch, Typed, TypeOK, MemoryOK, Owning
  <1>16. ASSUME NEW o \in Operators, NEW i \in Ids, RetryRead(o, i) PROVE Typed'
    BY <1>16 DEF RetryRead, Typed, TypeOK, MemoryOK, IdsOK, Owning
  <1>17. ASSUME NEW o \in Operators, RetryWrite(o) PROVE Typed'
    <2>1. reading[o] \in [id : Ids, row : FailedRow]
      BY <1>17 DEF RetryWrite, Typed, TypeOK
    <2>2. CASE UNCHANGED <<jobs, failed, nextId>>
      BY <1>17, <2>2 DEF RetryWrite, Typed, TypeOK, MemoryOK, IdsOK, Owning
    <2>3. CASE RetryRow(reading[o].id, reading[o].row)
      <3>1. jobs' \in [Ids -> JobRow \cup {None}] /\ nextId' \in 1..(MaxId + 1) /\ IdsOK'
        BY <1>17, <2>1, <2>3, PushTyped DEF RetryWrite, RetryRow, FailedRow, Typed
      <3>2. QED
        BY <1>17, <2>1, <2>3, <3>1 DEF RetryWrite, RetryRow, Typed, TypeOK, MemoryOK, Owning
    <2>4. QED
      BY <1>17, <2>2, <2>3 DEF RetryWrite
  <1>18. ASSUME NEW o \in Operators, NEW i \in Ids, Forget(o, i) PROVE Typed'
    <2>1. JobsOf(failed[i]) \subseteq Jobs
      BY <1>18, JobsOfJobs DEF Forget, Typed, TypeOK, FailedRow
    <2>2. QED
      BY <1>18, <2>1 DEF Forget, ForgetRow, Typed, TypeOK, MemoryOK, IdsOK, Owning
  <1>19. ASSUME NEW o \in Operators, Flush(o) PROVE Typed'
    <2>1. \A i \in Ids : failed[i] # None => JobsOf(failed[i]) \subseteq Jobs
      BY JobsOfJobs DEF Typed, TypeOK, FailedRow
    <2>2. dropped' \subseteq Jobs
      BY <1>19, <2>1 DEF Flush, Typed, TypeOK
    <2>3. QED
      BY <1>19, <2>2 DEF Flush, FlushRows, Typed, TypeOK, MemoryOK, IdsOK, Owning
  <1>20. ASSUME NEW o \in Operators, Clear(o) PROVE Typed'
    <2>1. \A i \in Ids : jobs[i] # None => JobsOf(jobs[i]) \subseteq Jobs
      BY JobsOfJobs DEF Typed, TypeOK, JobRow
    <2>2. dropped' \subseteq Jobs
      BY <1>20, <2>1 DEF Clear, Typed, TypeOK
    <2>3. QED
      BY <1>20, <2>2 DEF Clear, ClearRows, Typed, TypeOK, MemoryOK, IdsOK, Owning
  <1>21. ASSUME Second PROVE Typed'
    BY <1>21 DEF Second, Tick, Time, Typed, TypeOK, MemoryOK, IdsOK, Owning
  <1>22. ASSUME UNCHANGED vars PROVE Typed'
    BY <1>22 DEF vars, Typed, TypeOK, MemoryOK, IdsOK, Owning
  <1>23. QED
    BY <1>1, <1>2, <1>3, <1>4, <1>5, <1>6, <1>7, <1>8, <1>9, <1>10, <1>11, <1>12, <1>13,
       <1>14, <1>15, <1>16, <1>17, <1>18, <1>19, <1>20, <1>21, <1>22
    DEF Next, Work, Fault, Console

\* The tables and the workers' memory hold what their types say, whatever stalls,
\* crashes or fails (database-queue-driver.ts, queue-work.ts).
THEOREM TypeCorrect == Spec => []TypeOK
  <1>1. Spec => []Typed
    BY TypedInit, TypedStep, PTL DEF Spec
  <1>2. Typed => TypeOK
    BY DEF Typed
  <1>3. QED
    BY <1>1, <1>2, PTL

-----------------------------------------------------------------------------
(* One owner per row *)

\* At the start no worker has a job in hand.
LEMMA OwnedInit == Init => Owned
  BY DEF Init, Owned, CandidatesOK, ReservedOK, OwnersDiffer, Owning

\* A row that is free or expired is in nobody's hands.
LEMMA FreeRowUnowned ==
    ASSUME Typed, ReservedOK, NEW id \in Ids, jobs[id] # None,
           jobs[id].reservedAt = NotReserved \/ jobs[id].reservedAt <= now - RetryAfter
    PROVE  \A w \in Workers : Owning(w) => held[w].id # id
  <1> SUFFICES ASSUME NEW w \in Workers, Owning(w), held[w].id = id PROVE FALSE
    OBVIOUS
  <1>1. jobs[id].reservedAt # NotReserved /\ jobs[id].reservedAt > now - RetryAfter
    BY DEF ReservedOK
  <1>2. jobs[id].reservedAt \in Int /\ now - RetryAfter \in Int
    BY DEF Typed, TypeOK, JobRow, Time, NotReserved
  <1>3. QED
    BY <1>1, <1>2

\* The new owner of a row that nobody owned is its only one.
LEMMA TakeOwned ==
    ASSUME Typed, Owned, RetryAfter > 0, NEW w \in Workers, ~Owning(w),
           NEW id \in Ids, NEW n \in Nat, NEW q \in QueuedJob, q.id = id, jobs[id] # None,
           \A v \in Workers : Owning(v) => held[v].id # id,
           jobs' = [jobs EXCEPT ![id] = [@ EXCEPT !.reservedAt = now, !.attempts = n]],
           Take(w, q), now' = now
    PROVE  ReservedOK' /\ OwnersDiffer'
  <1>1. jobs[id] \in JobRow /\ now \in Time
    BY DEF Typed, TypeOK
  <1>2. /\ jobs'[id].reservedAt = now /\ now # NotReserved /\ now > now - RetryAfter
        /\ \A i \in Ids : i # id => jobs'[i] = jobs[i]
    <2>1. jobs'[id] = [jobs[id] EXCEPT !.reservedAt = now, !.attempts = n]
      BY DEF Typed, TypeOK
    <2>2. jobs'[id].reservedAt = now
      BY <1>1, <2>1 DEF JobRow
    <2>3. now # NotReserved /\ now > now - RetryAfter
      BY <1>1 DEF Time, NotReserved
    <2>4. QED
      BY <2>2, <2>3 DEF Typed, TypeOK
  <1>3. /\ held'[w] = q /\ phase'[w] = "reserved"
        /\ \A v \in Workers : v # w => held'[v] = held[v] /\ phase'[v] = phase[v]
    BY DEF Take, Typed, TypeOK
  <1>4. \A v \in Workers : Owning(v) => held[v].id \in Ids /\ held[v].id # id
    BY NoneAssumption DEF Typed, TypeOK, MemoryOK, QueuedJob
  <1>5. ReservedOK'
    BY <1>2, <1>3, <1>4 DEF Owned, ReservedOK, Owning
  <1>6. OwnersDiffer'
    BY <1>3, <1>4 DEF Owned, OwnersDiffer, Owning
  <1>7. QED
    BY <1>5, <1>6

\* A worker that ends with its job, or keeps it in the same phase, takes nothing
\* from the others: only its own row may have changed.
LEMMA OthersOwned ==
    ASSUME Typed, Owned, NEW w \in Workers, now' = now,
           \A v \in Workers : v # w => held'[v] = held[v] /\ phase'[v] = phase[v],
           \A i \in Ids : ~(Owning(w) /\ i = held[w].id) => jobs'[i] = jobs[i] \/ jobs'[i] = None,
           Owning(w)' => /\ Owning(w) /\ held'[w] = held[w]
                         /\ jobs'[held[w].id] # None =>
                               /\ phase'[w] # "chaining"
                               /\ jobs'[held[w].id] = jobs[held[w].id]
    PROVE  ReservedOK' /\ OwnersDiffer'
  <1>1. \A v \in Workers : Owning(v) => held[v].id \in Ids
    BY NoneAssumption DEF Typed, TypeOK, MemoryOK, QueuedJob
  <1>2. \A v \in Workers : v # w /\ Owning(v) /\ Owning(w) => held[v].id # held[w].id
    BY DEF Owned, OwnersDiffer
  <1>3. \A v \in Workers : v # w => (Owning(v)' <=> Owning(v))
    BY DEF Owning
  <1>4. OwnersDiffer'
    BY <1>2, <1>3 DEF Owned, OwnersDiffer
  <1>5. ASSUME NEW v \in Workers, Owning(v)', jobs'[held'[v].id] # None
        PROVE  /\ phase'[v] # "chaining"
               /\ jobs'[held'[v].id].reservedAt # NotReserved
               /\ jobs'[held'[v].id].reservedAt > now' - RetryAfter
    <2>1. CASE v # w
      BY <1>1, <1>2, <1>3, <1>5, <2>1 DEF Owned, ReservedOK
    <2>2. CASE v = w
      BY <1>1, <1>5, <2>2 DEF Owned, ReservedOK
    <2>3. QED
      BY <2>1, <2>2
  <1>6. QED
    BY <1>4, <1>5 DEF ReservedOK

\* With the documented retryAfter, no step gives a row a second owner.
LEMMA OwnedStep ==
    ASSUME Prompt, RetryAfter > 0, Typed, Typed', Owned, [Next]_vars
    PROVE  Owned'
  <1> USE NoneAssumption DEF dbVars, workerVars, spent, historyVars
  <1>1. ASSUME NEW w \in Workers, Pop(w) PROVE Owned'
    <2>1. PICK row \in Eligible : PopBySkipLocked(row) /\ Take(w, Queued(row))
      BY <1>1 DEF Pop
    <2>2. /\ row \in JobRow /\ jobs[row.id] = row /\ row.id \in Ids
          /\ row.reservedAt = NotReserved \/ row.reservedAt <= now - RetryAfter
      BY EligibleRows DEF JobRow, Typed
    <2>3. Queued(row) \in QueuedJob /\ Queued(row).id = row.id /\ AttemptsOn(row) \in Nat
      BY <2>2, QueuedTyped DEF Queued, AttemptsOn, JobRow
    <2>4. \A v \in Workers : Owning(v) => held[v].id # row.id
      BY <2>2, FreeRowUnowned DEF Owned
    <2>5. ~Owning(w) /\ now' = now
      BY <1>1 DEF Pop, Owning
    <2>6. ReservedOK' /\ OwnersDiffer'
      BY <2>1, <2>2, <2>3, <2>4, <2>5, TakeOwned DEF PopBySkipLocked
    <2>7. QED
      BY <1>1, <2>6 DEF Pop, Owned, CandidatesOK
  <1>2. ASSUME NEW w \in Workers, ReadCandidates(w) PROVE Owned'
    <2>1. \A r \in Batch : r.reservedAt = NotReserved \/ r.reservedAt <= now - RetryAfter
      BY EligibleRows DEF Batch, Typed
    <2>2. CandidatesOK'
      BY <1>2, <2>1 DEF ReadCandidates, Owned, CandidatesOK, Typed, TypeOK
    <2>3. ReservedOK' /\ OwnersDiffer'
      BY <1>2, OthersOwned DEF ReadCandidates, Owning, Typed, TypeOK
    <2>4. QED
      BY <2>2, <2>3 DEF Owned
  <1>3. ASSUME NEW w \in Workers, TryCandidate(w) PROVE Owned'
    <2>1. PICK row \in cands[w] :
            \/ /\ StillAsRead(row)
               /\ ReserveCandidate(row)
               /\ Take(w, Queued(row))
               /\ cands' = [cands EXCEPT ![w] = {}]
            \/ /\ cands' = [cands EXCEPT ![w] = @ \ {row}]
               /\ phase' = [phase EXCEPT ![w] =
                                IF cands[w] = {row} THEN "idle" ELSE "popping"]
               /\ UNCHANGED <<jobs, held>>
      BY <1>3 DEF TryCandidate
    <2>2. row \in JobRow /\ row.id \in Ids
      BY DEF Typed, TypeOK, JobRow
    <2>3. CandidatesOK'
      <3>1. now' = now /\ \A v \in Workers : cands'[v] \subseteq cands[v]
        <4>1. CASE cands' = [cands EXCEPT ![w] = {}]
          BY <1>3, <4>1 DEF TryCandidate, Typed, TypeOK
        <4>2. CASE cands' = [cands EXCEPT ![w] = cands[w] \ {row}]
          BY <1>3, <4>2 DEF TryCandidate, Typed, TypeOK
        <4>3. QED
          BY <2>1, <4>1, <4>2
      <3>2. QED
        BY <3>1 DEF Owned, CandidatesOK
    <2>4. ~Owning(w) /\ now' = now
      BY <1>3 DEF TryCandidate, Owning
    <2>5. CASE StillAsRead(row) /\ ReserveCandidate(row) /\ Take(w, Queued(row))
      <3>1. Queued(row) \in QueuedJob /\ Queued(row).id = row.id
        BY <2>2, QueuedTyped DEF Queued
      <3>2. /\ jobs[row.id] # None
            /\ jobs[row.id].reservedAt = NotReserved
               \/ jobs[row.id].reservedAt <= now - RetryAfter
        BY <2>5 DEF StillAsRead, Owned, CandidatesOK
      <3>3. \A v \in Workers : Owning(v) => held[v].id # row.id
        BY <2>2, <3>2, FreeRowUnowned DEF Owned
      <3>4. AttemptsAfter(row) \in Nat
        BY <2>2, <3>2 DEF Typed, TypeOK, JobRow, AttemptsAfter
      <3>5. ReservedOK' /\ OwnersDiffer'
        BY <2>2, <2>4, <2>5, <3>1, <3>2, <3>3, <3>4, TakeOwned DEF ReserveCandidate
      <3>6. QED
        BY <2>3, <3>5 DEF Owned
    <2>6. CASE /\ phase' = [phase EXCEPT ![w] =
                                IF cands[w] = {row} THEN "idle" ELSE "popping"]
               /\ UNCHANGED <<jobs, held>>
      <3>1. ~Owning(w)' /\ \A v \in Workers : v # w => phase'[v] = phase[v]
        BY <2>6 DEF Owning, Typed, TypeOK
      <3>2. ReservedOK' /\ OwnersDiffer'
        BY <2>4, <2>6, <3>1, OthersOwned
      <3>3. QED
        BY <2>3, <3>2 DEF Owned
    <2>7. QED
      BY <2>1, <2>5, <2>6
  <1>4. ASSUME NEW w \in Workers,
               \/ FailUnstarted(w) \/ FailStarted(w) \/ SkipMissing(w) \/ StopChain(w)
               \/ ThrowOutOfLoop(w) \/ Crash(w) \/ Restart(w)
               \/ \E delay \in Delays : ReleaseHeld(w, delay)
        PROVE  Owned'
    <2>1. /\ ~Owning(w)' /\ now' = now
          /\ \A v \in Workers : v # w => held'[v] = held[v] /\ phase'[v] = phase[v]
      <3>1. CASE FailUnstarted(w) \/ FailStarted(w)
        BY <3>1 DEF FailUnstarted, FailStarted, FailHeld, Done, Owning, Typed, TypeOK
      <3>2. CASE SkipMissing(w) \/ StopChain(w) \/ \E delay \in Delays : ReleaseHeld(w, delay)
        BY <3>2 DEF SkipMissing, StopChain, ReleaseHeld, Done, Owning, Typed, TypeOK
      <3>3. CASE ThrowOutOfLoop(w) \/ Crash(w) \/ Restart(w)
        BY <3>3 DEF ThrowOutOfLoop, Crash, Restart, Owning, Typed, TypeOK
      <3>4. QED
        BY <1>4, <3>1, <3>2, <3>3
    <2>5. CandidatesOK'
      <3>1. UNCHANGED cands \/ cands' = [cands EXCEPT ![w] = {}]
        BY <1>4
        DEF FailUnstarted, FailStarted, FailHeld, SkipMissing, StopChain, ThrowOutOfLoop,
            Crash, Restart, ReleaseHeld
      <3>2. QED
        BY <2>1, <3>1 DEF Owned, CandidatesOK, Typed, TypeOK
    <2>2. \A i \in Ids : ~(Owning(w) /\ i = held[w].id) => jobs'[i] = jobs[i]
      BY <1>4
      DEF FailUnstarted, FailStarted, FailHeld, FailRow, SkipMissing, StopChain, ThrowOutOfLoop,
          Crash, Restart, ReleaseHeld, ReleaseRow, DeleteRow, Owning, Typed, TypeOK
    <2>3. ReservedOK' /\ OwnersDiffer'
      BY <2>1, <2>2, OthersOwned
    <2>4. QED
      BY <2>3, <2>5 DEF Owned
  <1>5. ASSUME NEW w \in Workers, Start(w) \/ Succeed(w) \/ ThrowInTry(w) PROVE Owned'
    <2>1. /\ Owning(w) /\ now' = now /\ held[w].id \in Ids
          /\ \A v \in Workers : v # w => held'[v] = held[v] /\ phase'[v] = phase[v]
          /\ CandidatesOK'
      BY <1>5 DEF Start, Succeed, ThrowInTry, Done, Owning, Owned, CandidatesOK,
                  Typed, TypeOK, MemoryOK, QueuedJob
    <2>2. \A i \in Ids : i # held[w].id => jobs'[i] = jobs[i]
      BY <1>5 DEF Start, Succeed, ThrowInTry, DeleteRow, Typed, TypeOK
    <2>3. Owning(w)' => /\ held'[w] = held[w]
                        /\ jobs'[held[w].id] # None =>
                              /\ phase'[w] # "chaining"
                              /\ jobs'[held[w].id] = jobs[held[w].id]
      BY <1>5, <2>1 DEF Start, Succeed, ThrowInTry, DeleteRow, Done, Owning, Typed, TypeOK
    <2>4. ReservedOK' /\ OwnersDiffer'
      BY <2>1, <2>2, <2>3, OthersOwned
    <2>5. QED
      BY <2>1, <2>4 DEF Owned
  <1>6. ASSUME NEW w \in Workers, PushNext(w) PROVE Owned'
    <2>1. \A v \in Workers : Owning(v) => held[v].id \in Ids /\ held[v].id # nextId
      BY DEF Typed, TypeOK, MemoryOK, IdsOK, QueuedJob, Ids
    <2>2. \A i \in Ids : i # nextId => jobs'[i] = jobs[i]
      BY <1>6 DEF PushNext, Push, Typed, TypeOK
    <2>3. /\ ~Owning(w)' /\ now' = now
          /\ \A v \in Workers : v # w => held'[v] = held[v] /\ phase'[v] = phase[v]
      BY <1>6 DEF PushNext, Done, Owning, Typed, TypeOK
    <2>4. QED
      BY <1>6, <2>1, <2>2, <2>3
      DEF PushNext, Owned, CandidatesOK, ReservedOK, OwnersDiffer, Owning
  <1>7. ASSUME UNCHANGED <<now, workerVars>>,
               \A i \in Ids : i < nextId => jobs'[i] = jobs[i] \/ jobs'[i] = None
        PROVE  Owned'
    <2>1. \A v \in Workers : Owning(v) => held[v].id \in Ids /\ held[v].id < nextId
      BY DEF Typed, TypeOK, MemoryOK, IdsOK, QueuedJob
    <2>2. QED
      BY <1>7, <2>1 DEF Owned, CandidatesOK, ReservedOK, OwnersDiffer, Owning
  <1>8. ASSUME \/ \E j \in Heads, delay \in Delays : Dispatch(j, delay)
               \/ \E o \in Operators : Console(o)
        PROVE  Owned'
    <2>1. UNCHANGED <<now, workerVars>>
      BY <1>8 DEF Dispatch, Console, RetryRead, RetryWrite, Forget, Flush, Clear
    <2>2. \A i \in Ids : i < nextId => jobs'[i] = jobs[i] \/ jobs'[i] = None
      BY <1>8 DEF Dispatch, Console, RetryRead, RetryWrite, RetryRow, Push, Forget, Flush, Clear,
                  ClearRows, Typed, TypeOK
    <2>3. QED
      BY <1>7, <2>1, <2>2
  <1>9. ASSUME Second PROVE Owned'
    <2>1. /\ now' = now + 1 /\ now \in Int
          /\ \A v \in Workers : ~Overrun(v, now + 1)
          /\ UNCHANGED <<jobs, workerVars>>
      BY <1>9 DEF Second, Tick, Typed, TypeOK, Time
    <2>2. CandidatesOK'
      <3> SUFFICES ASSUME NEW v \in Workers, NEW r \in cands[v]
                   PROVE  r.reservedAt = NotReserved \/ r.reservedAt <= now + 1 - RetryAfter
        BY <2>1 DEF CandidatesOK
      <3>1. r.reservedAt \in Int
        BY DEF Typed, TypeOK, JobRow, Time, NotReserved
      <3>2. QED
        BY <2>1, <3>1 DEF Owned, CandidatesOK
    <2>3. ReservedOK'
      <3> SUFFICES ASSUME NEW v \in Workers, Owning(v), jobs[held[v].id] # None
                   PROVE  /\ phase[v] # "chaining"
                          /\ jobs[held[v].id].reservedAt # NotReserved
                          /\ jobs[held[v].id].reservedAt > now + 1 - RetryAfter
        BY <2>1 DEF ReservedOK, Owning
      <3>1. phase[v] # "chaining" /\ jobs[held[v].id].reservedAt # NotReserved
        BY DEF Owned, ReservedOK
      <3>2. ~(jobs[held[v].id].reservedAt <= now + 1 - RetryAfter)
        BY <2>1, <3>1 DEF Overrun, Holding, Owning
      <3>3. jobs[held[v].id].reservedAt \in Int
        BY DEF Typed, TypeOK, MemoryOK, QueuedJob, JobRow, Time, NotReserved
      <3>4. QED
        BY <2>1, <3>1, <3>2, <3>3
    <2>4. OwnersDiffer'
      BY <2>1 DEF Owned, OwnersDiffer, Owning
    <2>5. QED
      BY <2>2, <2>3, <2>4 DEF Owned
  <1>10. ASSUME UNCHANGED vars PROVE Owned'
    BY <1>10 DEF vars, Owned, CandidatesOK, ReservedOK, OwnersDiffer, Owning
  <1>11. QED
    BY <1>1, <1>2, <1>3, <1>4, <1>5, <1>6, <1>8, <1>9, <1>10 DEF Next, Work, Fault

\* Two workers never work on one row: a job that ends within its visibility
\* timeout, as the docs ask, is in one worker's hands at a time, on either kind
\* of engine (pop(), database-queue-driver.ts).
THEOREM Exclusive ==
    ASSUME Prompt, RetryAfter > 0
    PROVE  Spec => []ExclusiveReservation
  <1>1. Init => Typed /\ Owned
    BY TypedInit, OwnedInit
  <1>2. Typed /\ Owned /\ [Next]_vars => Typed' /\ Owned'
    BY TypedStep, OwnedStep
  <1>3. Typed /\ Owned => ExclusiveReservation
    BY DEF Owned, OwnersDiffer, Owning, Holding, ExclusiveReservation
  <1>4. QED
    BY <1>1, <1>2, <1>3, PTL DEF Spec

\* A reservation changes hands only when it was given up or had expired: SQLite's
\* conditional UPDATE never takes a row from a worker inside its visibility
\* timeout, however old the candidates it tries (popByConditionalUpdate).
THEOREM Respected == Spec => ReservationRespected
  <1> DEFINE Kept(i) == jobs[i] # None /\ jobs'[i] # None /\ jobs[i].reservedAt # NotReserved
                        /\ jobs'[i].reservedAt # jobs[i].reservedAt
                        => jobs'[i].reservedAt = NotReserved \/ Expired(jobs[i])
  <1>1. Init => Typed /\ CandidatesOK
    BY TypedInit DEF Init, CandidatesOK
  <1>2. Typed /\ CandidatesOK /\ [Next]_vars => Typed' /\ CandidatesOK'
    <2> SUFFICES ASSUME Typed, CandidatesOK, [Next]_vars, Typed' PROVE CandidatesOK'
      BY TypedStep
    <2>1. now' \in Int /\ now \in Int /\ now <= now'
      BY DEF Typed, TypeOK, Time, Next, Work, Fault, Console, vars, dbVars, Second, Tick, Pop,
             ReadCandidates, TryCandidate, FailUnstarted, FailStarted, FailHeld, SkipMissing,
             Start, Succeed, ReleaseHeld, PushNext, StopChain, ThrowInTry, ThrowOutOfLoop,
             Crash, Restart, Dispatch, RetryRead, RetryWrite, Forget, Flush, Clear
    <2>2. \A w \in Workers : cands'[w] \subseteq cands[w] \cup Eligible
      <3>1. ASSUME NEW w \in Workers, ReadCandidates(w)
            PROVE  cands' = [cands EXCEPT ![w] = Batch] /\ Batch \subseteq Eligible
        BY <3>1 DEF ReadCandidates, Batch
      <3>2. ASSUME NEW w \in Workers, TryCandidate(w) \/ Crash(w)
            PROVE  \E S : cands' = [cands EXCEPT ![w] = S] /\ S \subseteq cands[w]
        BY <3>2 DEF TryCandidate, Crash
      <3>3. \/ \E w \in Workers : ReadCandidates(w) \/ TryCandidate(w) \/ Crash(w)
            \/ UNCHANGED cands
        BY DEF Next, Work, Fault, Console, vars, workerVars, Second, Pop, FailUnstarted,
               FailStarted, FailHeld, SkipMissing, Start, Succeed, ReleaseHeld, PushNext,
               StopChain, ThrowInTry, ThrowOutOfLoop, Restart, Dispatch, RetryRead,
               RetryWrite, Forget, Flush, Clear
      <3>4. QED
        BY <3>1, <3>2, <3>3 DEF Typed, TypeOK
    <2>3. ASSUME NEW w \in Workers, NEW r \in cands'[w]
          PROVE  r.reservedAt = NotReserved \/ r.reservedAt <= now' - RetryAfter
      <3>1. r.reservedAt \in Int
        BY DEF Typed, TypeOK, JobRow, Time, NotReserved
      <3>2. r.reservedAt = NotReserved \/ r.reservedAt <= now - RetryAfter
        BY <2>2, EligibleRows DEF CandidatesOK, Typed
      <3>3. QED
        BY <2>1, <3>1, <3>2
    <2>4. QED
      BY <2>3 DEF CandidatesOK
  <1>3. Typed /\ CandidatesOK /\ [Next]_vars => \A i \in Ids : Kept(i)
    <2> SUFFICES ASSUME Typed, CandidatesOK, [Next]_vars, NEW i \in Ids,
                        jobs[i] # None, jobs'[i] # None, jobs[i].reservedAt # NotReserved,
                        jobs'[i].reservedAt # jobs[i].reservedAt
                 PROVE  jobs'[i].reservedAt = NotReserved \/ Expired(jobs[i])
      OBVIOUS
    <2> USE NoneAssumption
    <2>0. jobs[i] \in JobRow /\ i < nextId
      BY DEF Typed, TypeOK, IdsOK
    <2>1. ASSUME NEW w \in Workers, Pop(w) PROVE Expired(jobs[i])
      <3>1. PICK row \in Eligible : PopBySkipLocked(row)
        BY <2>1 DEF Pop
      <3>2. jobs[row.id] = row /\ (row.reservedAt = NotReserved \/ row.reservedAt <= now - RetryAfter)
        BY <3>1, EligibleRows DEF Typed
      <3>3. i = row.id
        BY <3>1 DEF PopBySkipLocked, Typed, TypeOK
      <3>4. QED
        BY <3>2, <3>3 DEF Expired
    <2>2. ASSUME NEW w \in Workers, TryCandidate(w) PROVE Expired(jobs[i])
      <3>1. PICK row \in cands[w] : StillAsRead(row) /\ ReserveCandidate(row)
        BY <2>2 DEF TryCandidate
      <3>2. i = row.id
        BY <3>1 DEF ReserveCandidate, Typed, TypeOK
      <3>3. QED
        BY <3>1, <3>2 DEF StillAsRead, CandidatesOK, Expired
    <2>3. ASSUME NEW w \in Workers, NEW delay \in Delays, ReleaseHeld(w, delay)
          PROVE  jobs'[i].reservedAt = NotReserved
      <3>1. held[w] \in QueuedJob
        BY <2>3 DEF ReleaseHeld, Typed, TypeOK, MemoryOK, Owning
      <3>2. i = held[w].id
        BY <2>3, <3>1 DEF ReleaseHeld, ReleaseRow, Typed, TypeOK, QueuedJob
      <3>3. jobs' = [jobs EXCEPT ![i] = [@ EXCEPT !.attempts = held[w].attempts + 1,
                                                  !.availableAt = Later(delay),
                                                  !.reservedAt = NotReserved]]
        BY <2>3, <3>2 DEF ReleaseHeld, ReleaseRow
      <3>4. QED
        BY <2>0, <3>3 DEF JobRow, Typed, TypeOK
    <2>4. ASSUME \A k \in Ids : k < nextId => jobs'[k] = jobs[k] \/ jobs'[k] = None PROVE FALSE
      BY <2>0, <2>4
    <2>5. ASSUME NEW w \in Workers,
                 \/ FailUnstarted(w) \/ FailStarted(w) \/ SkipMissing(w) \/ Start(w)
                 \/ Succeed(w) \/ PushNext(w) \/ StopChain(w) \/ ReadCandidates(w)
                 \/ ThrowInTry(w) \/ ThrowOutOfLoop(w) \/ Crash(w) \/ Restart(w)
          PROVE  FALSE
      <3>1. \A k \in Ids : k < nextId => jobs'[k] = jobs[k] \/ jobs'[k] = None
        BY <2>5 DEF FailUnstarted, FailStarted, FailHeld, FailRow, SkipMissing, Start, Succeed,
                    DeleteRow, PushNext, Push, StopChain, ReadCandidates, ThrowInTry,
                    ThrowOutOfLoop, Crash, Restart, Typed, TypeOK, dbVars
      <3>2. QED
        BY <2>4, <3>1
    <2>6. ASSUME \/ \E j \in Heads, delay \in Delays : Dispatch(j, delay)
                 \/ \E o \in Operators : Console(o)
                 \/ Second
                 \/ UNCHANGED vars
          PROVE  FALSE
      <3>1. \A k \in Ids : k < nextId => jobs'[k] = jobs[k] \/ jobs'[k] = None
        BY <2>6 DEF Dispatch, Push, Console, RetryRead, RetryWrite, RetryRow, Forget, Flush,
                    Clear, ClearRows, Second, Typed, TypeOK, vars, dbVars
      <3>2. QED
        BY <2>4, <3>1
    <2>7. QED
      BY <2>1, <2>2, <2>3, <2>5, <2>6 DEF Next, Work, Fault
  <1>4. [][\A i \in Ids : Kept(i)]_vars <=> ReservationRespected
    BY DEF ReservationRespected
  <1>5. QED
    BY <1>1, <1>2, <1>3, <1>4, PTL DEF Spec

-----------------------------------------------------------------------------
(* jobs and failed_jobs *)

\* At the start both tables are empty.
LEMMA ApartInit == Init => Apart
  BY DEF Init, DbInit, Apart, OneTable

\* No step leaves an id in both tables: fail() moves it, retry() takes a new one.
LEMMA ApartStep ==
    ASSUME Typed, Apart, [Next]_vars
    PROVE  Apart'
  <1> USE NoneAssumption
  <1>1. ASSUME NEW w \in Workers, FailUnstarted(w) \/ FailStarted(w) PROVE Apart'
    <2>1. held[w] # None /\ held[w].id < nextId /\ held[w].id \in Ids /\ nextId' = nextId
      BY <1>1 DEF FailUnstarted, FailStarted, FailHeld, Owning, Typed, TypeOK, MemoryOK, IdsOK,
                  QueuedJob
    <2>2. CASE UNCHANGED <<jobs, failed>>
      BY <2>1, <2>2 DEF Apart, OneTable
    <2>3. CASE FailRow(held[w])
      BY <2>1, <2>3 DEF FailRow, DeleteRow, Apart, OneTable, Typed, TypeOK
    <2>4. QED
      BY <1>1, <2>2, <2>3 DEF FailUnstarted, FailStarted, FailHeld
  <1>2. ASSUME /\ \A i \in Ids : jobs'[i] # None => jobs[i] # None \/ i = nextId
               /\ \A i \in Ids : failed'[i] # None => failed[i] # None
               /\ nextId \in Nat /\ (nextId' = nextId \/ nextId' = nextId + 1)
        PROVE  Apart'
    BY <1>2 DEF Apart, OneTable, Ids
  <1>3. nextId \in Nat
    BY DEF Typed, TypeOK
  <1>4. ASSUME NEW w \in Workers,
               \/ Pop(w) \/ ReadCandidates(w) \/ TryCandidate(w) \/ SkipMissing(w) \/ Start(w)
               \/ Succeed(w) \/ PushNext(w) \/ StopChain(w)
               \/ ThrowInTry(w) \/ ThrowOutOfLoop(w) \/ Crash(w) \/ Restart(w)
               \/ \E delay \in Delays : ReleaseHeld(w, delay)
        PROVE  Apart'
    <2>1. \A i \in Ids : jobs'[i] # None => jobs[i] # None \/ i = nextId
      <3>1. ASSUME NEW row \in Eligible, PopBySkipLocked(row)
            PROVE  \A i \in Ids : jobs'[i] # None => jobs[i] # None
        <4>1. row.id \in Ids /\ jobs[row.id] # None
          BY EligibleRows DEF JobRow, Typed
        <4>2. \A i \in Ids : i # row.id => jobs'[i] = jobs[i]
          BY <3>1, <4>1 DEF PopBySkipLocked, Typed, TypeOK
        <4>3. QED
          BY <4>1, <4>2
      <3>2. ASSUME NEW row, ReserveCandidate(row)
            PROVE  \A i \in Ids : jobs'[i] # None => jobs[i] # None
        BY <3>2 DEF ReserveCandidate, StillAsRead, Typed, TypeOK
      <3>3. ASSUME NEW q, NEW delay, ReleaseRow(q, delay)
            PROVE  \A i \in Ids : jobs'[i] # None => jobs[i] # None
        BY <3>3 DEF ReleaseRow, Typed, TypeOK
      <3>4. CASE Pop(w) \/ TryCandidate(w) \/ \E delay \in Delays : ReleaseHeld(w, delay)
        BY <3>1, <3>2, <3>3, <3>4 DEF Pop, TryCandidate, ReleaseHeld
      <3>5. CASE SkipMissing(w) \/ Succeed(w)
        BY <3>5 DEF SkipMissing, Succeed, DeleteRow, Typed, TypeOK
      <3>6. CASE PushNext(w)
        BY <3>6 DEF PushNext, Push, Typed, TypeOK
      <3>7. CASE \/ ReadCandidates(w) \/ Start(w) \/ StopChain(w)
                 \/ ThrowInTry(w) \/ ThrowOutOfLoop(w) \/ Crash(w) \/ Restart(w)
        BY <3>7 DEF ReadCandidates, Start, StopChain, ThrowInTry, ThrowOutOfLoop, Crash,
                    Restart, dbVars
      <3>8. QED
        BY <1>4, <3>4, <3>5, <3>6, <3>7
    <2>2. /\ UNCHANGED failed
          /\ nextId' = nextId \/ nextId' = nextId + 1
      BY <1>4
      DEF Pop, ReadCandidates, TryCandidate, SkipMissing, Start, Succeed, PushNext, Push,
          StopChain, ThrowInTry, ThrowOutOfLoop, Crash, Restart, ReleaseHeld, dbVars
    <2>3. QED
      BY <1>2, <1>3, <2>1, <2>2
  <1>5. ASSUME \/ \E j \in Heads, delay \in Delays : Dispatch(j, delay)
               \/ \E o \in Operators : Console(o)
               \/ Second \/ UNCHANGED vars
        PROVE  Apart'
    <2>1. \A i \in Ids : jobs'[i] # None => jobs[i] # None \/ i = nextId
      BY <1>5 DEF Dispatch, Push, Console, RetryRead, RetryWrite, RetryRow, Forget, Flush, Clear,
                  ClearRows, Second, vars, dbVars, Typed, TypeOK
    <2>2. /\ \A i \in Ids : failed'[i] # None => failed[i] # None
          /\ nextId' = nextId \/ nextId' = nextId + 1
      BY <1>5 DEF Dispatch, Push, Console, RetryRead, RetryWrite, RetryRow, Forget, ForgetRow,
                  Flush, FlushRows, Clear, Second, vars, dbVars, Typed, TypeOK
    <2>3. QED
      BY <1>2, <1>3, <2>1, <2>2
  <1>6. QED
    BY <1>1, <1>4, <1>5 DEF Next, Work, Fault

\* No id is in both tables: a late fail() moves the row whoever holds it, and a
\* retry gives the job a new id (fail and retry, database-queue-driver.ts).
THEOREM Separate == Spec => []OneTable
  <1>1. Typed /\ Apart /\ [Next]_vars => Typed' /\ Apart'
    BY TypedStep, ApartStep
  <1>2. Apart => OneTable
    BY DEF Apart
  <1>3. QED
    BY <1>1, <1>2, TypedInit, ApartInit, PTL DEF Spec

\* fail() never meets its own id in failed_jobs, so nothing escapes processJob():
\* with a job that ends within its visibility timeout and a database that answers,
\* the worker loop never throws (queue-work.ts, "Why the loop never throws").
THEOREM NeverThrows ==
    ASSUME Prompt, RetryAfter > 0, MaxOutages = 0
    PROVE  Spec => []LoopNeverThrows
  <1> USE NoneAssumption
  <1>1. Init => NotYetFailed
    BY DEF Init, NotYetFailed, Owning, LoopNeverThrows
  <1>2. ASSUME Typed, Typed', Owned, Apart, NotYetFailed, [Next]_vars
        PROVE  NotYetFailed'
    <2>0. \A v \in Workers : Owning(v) => held[v].id \in Ids /\ failed[held[v].id] = None
      BY <1>2 DEF NotYetFailed, Typed, TypeOK, MemoryOK, QueuedJob
    <2>1. ASSUME NEW w \in Workers, Pop(w) PROVE NotYetFailed'
      <3>1. PICK row \in Eligible : PopBySkipLocked(row) /\ Take(w, Queued(row))
        BY <2>1 DEF Pop
      <3>2. jobs[row.id] = row /\ row # None /\ row.id \in Ids
        BY <1>2, EligibleRows DEF Typed, JobRow
      <3>3. failed[Queued(row).id] = None
        BY <1>2, <3>2 DEF Apart, OneTable, Queued
      <3>4. QED
        BY <1>2, <2>0, <2>1, <3>1, <3>3
        DEF Pop, Take, NotYetFailed, LoopNeverThrows, Owning, Typed, TypeOK
    <2>2. ASSUME NEW w \in Workers, TryCandidate(w) PROVE NotYetFailed'
      <3>1. PICK row \in cands[w] :
              \/ StillAsRead(row) /\ Take(w, Queued(row))
              \/ /\ phase' = [phase EXCEPT ![w] =
                                  IF cands[w] = {row} THEN "idle" ELSE "popping"]
                 /\ UNCHANGED <<jobs, held>>
        BY <2>2 DEF TryCandidate
      <3>2. row.id \in Ids
        BY <1>2 DEF Typed, TypeOK, JobRow
      <3>3. CASE StillAsRead(row) /\ Take(w, Queued(row))
        <4>1. failed[Queued(row).id] = None
          BY <1>2, <3>2, <3>3 DEF Apart, OneTable, Queued, StillAsRead
        <4>2. QED
          BY <1>2, <2>0, <2>2, <3>3, <4>1
          DEF TryCandidate, Take, NotYetFailed, LoopNeverThrows, Owning, Typed, TypeOK
      <3>4. CASE /\ phase' = [phase EXCEPT ![w] =
                                  IF cands[w] = {row} THEN "idle" ELSE "popping"]
                 /\ UNCHANGED <<jobs, held>>
        BY <1>2, <2>0, <2>2, <3>4
        DEF TryCandidate, NotYetFailed, LoopNeverThrows, Owning, Typed, TypeOK
      <3>5. QED
        BY <3>1, <3>3, <3>4
    <2>3. ASSUME NEW w \in Workers, FailUnstarted(w) \/ FailStarted(w) PROVE NotYetFailed'
      <3>1. Owning(w) /\ FailHeld(w)
        BY <2>3 DEF FailUnstarted, FailStarted, Owning
      <3>2. ~FailConflicts(held[w])
        BY <2>0, <3>1 DEF FailConflicts
      <3>3. \A v \in Workers : v # w /\ Owning(v) => held[v].id # held[w].id
        BY <1>2, <3>1 DEF Owned, OwnersDiffer
      <3>4. /\ failed' = [failed EXCEPT ![held[w].id] =
                              [job |-> held[w].job, chain |-> held[w].chain]]
            /\ Done(w)
        BY <3>1, <3>2 DEF FailHeld, FailRow
      <3>5. QED
        BY <1>2, <2>0, <3>1, <3>3, <3>4
        DEF Done, NotYetFailed, LoopNeverThrows, Owning, Typed, TypeOK
    <2>4. ASSUME NEW w \in Workers, ThrowInTry(w) \/ ThrowOutOfLoop(w) PROVE FALSE
      BY <1>2, <2>4 DEF ThrowInTry, ThrowOutOfLoop, Typed, TypeOK
    <2>5. ASSUME NEW w \in Workers,
                 \/ ReadCandidates(w) \/ SkipMissing(w) \/ Start(w) \/ Succeed(w)
                 \/ PushNext(w) \/ StopChain(w) \/ Crash(w) \/ Restart(w)
                 \/ \E delay \in Delays : ReleaseHeld(w, delay)
          PROVE  NotYetFailed'
      <3>1. /\ UNCHANGED failed
            /\ Owning(w)' => Owning(w) /\ held'[w] = held[w]
            /\ phase'[w] # "threw"
            /\ \A v \in Workers : v # w => held'[v] = held[v] /\ phase'[v] = phase[v]
        BY <1>2, <2>5
        DEF ReadCandidates, SkipMissing, Start, Succeed, PushNext, StopChain, Crash, Restart,
            ReleaseHeld, Done, Owning, dbVars, Typed, TypeOK
      <3>2. QED
        BY <1>2, <2>0, <3>1 DEF NotYetFailed, LoopNeverThrows, Owning
    <2>6. ASSUME \/ \E j \in Heads, delay \in Delays : Dispatch(j, delay)
                 \/ \E o \in Operators : Console(o)
                 \/ Second \/ UNCHANGED vars
          PROVE  NotYetFailed'
      <3>1. UNCHANGED <<phase, held>>
        BY <2>6 DEF Dispatch, Console, RetryRead, RetryWrite, Forget, Flush, Clear, Second,
                    vars, workerVars
      <3>2. \A i \in Ids : failed'[i] # None => failed[i] # None
        BY <1>2, <2>6
        DEF Dispatch, Console, RetryRead, RetryWrite, RetryRow, Forget, ForgetRow, Flush,
            FlushRows, Clear, Second, vars, dbVars, Typed, TypeOK
      <3>3. QED
        BY <1>2, <2>0, <3>1, <3>2 DEF NotYetFailed, LoopNeverThrows, Owning
    <2>7. QED
      BY <1>2, <2>1, <2>2, <2>3, <2>4, <2>5, <2>6 DEF Next, Work, Fault
  <1>3. Typed /\ Owned /\ Apart /\ NotYetFailed /\ [Next]_vars
        => Typed' /\ Owned' /\ Apart' /\ NotYetFailed'
    BY <1>2, TypedStep, OwnedStep, ApartStep
  <1>4. NotYetFailed => LoopNeverThrows
    BY DEF NotYetFailed
  <1>5. QED
    BY <1>1, <1>3, <1>4, TypedInit, OwnedInit, ApartInit, PTL DEF Spec
=============================================================================
