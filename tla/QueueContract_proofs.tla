------------------------ MODULE QueueContract_proofs ------------------------
(***************************************************************************)
(* What the queue promises about a job, proved for any number of workers,   *)
(* jobs, rows and operators: it is never lost unrecorded, it is never in    *)
(* two places, its handler starts a bounded number of times, and its status *)
(* moves as JobContract allows.                                             *)
(***************************************************************************)
EXTENDS QueueWork_proofs, FiniteSetTheorems

USE RetryAfterAssumption, BoundsAssumption, QueueWorkAssumption

-----------------------------------------------------------------------------
(* One content per id *)

\* The job and the chain of a row, a candidate or a job in hand.
Content(q) == [job |-> q.job, chain |-> q.chain]

RowsAgree(content) == \A i \in Ids : jobs[i] # None => Content(jobs[i]) = content[i]

FailuresAgree(content) == \A i \in Ids : failed[i] # None => failed[i] = content[i]

HandsAgree(content) ==
    \A w \in Workers : held[w] # None => Content(held[w]) = content[held[w].id]

CandidatesAgree(content) ==
    \A w \in Workers : \A r \in cands[w] : r.id < nextId /\ Content(r) = content[r.id]

ReadingAgrees(content) ==
    \A o \in Operators :
        reading[o] # None =>
            reading[o].id < nextId /\ reading[o].row = content[reading[o].id]

\* What was ever stored under an id belongs to one dispatch.
LinesAgree(content) ==
    \A i \in Ids : i < nextId => \E h \in dispatched : JobsOf(content[i]) \subseteq Line(h)

\* `content' says what each id stands for, wherever a copy of it is kept.
Agree(content) ==
    /\ RowsAgree(content) /\ FailuresAgree(content) /\ HandsAgree(content)
    /\ CandidatesAgree(content) /\ ReadingAgrees(content) /\ LinesAgree(content)

Meanings == [Ids -> FailedRow \cup {None}]

\* All copies of an id - its row, its failed row, the copies workers and
\* operators hold - are of one job and one chain.
OneContent == \E content \in Meanings : Agree(content)

\* A copy has the jobs of what it is a copy of.
LEMMA JobsOfContent ==
    ASSUME NEW q
    PROVE  JobsOf(Content(q)) = JobsOf(q)
  BY DEF JobsOf, Content

\* At the start there is no copy of anything.
LEMMA OneContentInit == Init => OneContent
  <1> SUFFICES ASSUME Init PROVE Agree([i \in Ids |-> None])
    BY DEF OneContent, Meanings
  <1> QED
    BY DEF Init, DbInit, Agree, RowsAgree, FailuresAgree, HandsAgree, CandidatesAgree,
           ReadingAgrees, LinesAgree, Ids

\* push() gives a fresh id its meaning; the other ids keep theirs.
LEMMA PushAgrees ==
    ASSUME Typed, NEW content \in Meanings, Agree(content), Apart,
           NEW job \in Jobs, NEW chain \in Seq(Jobs), NEW delay \in Nat, Push(job, chain, delay),
           dispatched \subseteq dispatched',
           \E h \in dispatched' : {job} \cup SetOf(chain) \subseteq Line(h),
           \A i \in Ids : failed'[i] # None => failed'[i] = failed[i],
           \A w \in Workers : held'[w] # None => held'[w] = held[w],
           \A o \in Operators : reading'[o] # None => reading'[o] = reading[o],
           UNCHANGED cands
    PROVE  \E meaning \in Meanings : Agree(meaning) /\ Agree(meaning)'
  <1> USE NoneAssumption
  <1>1. nextId \in Ids /\ nextId' = nextId + 1
    BY DEF Push, Ids, Typed, TypeOK
  <1>2. PICK meaning \in Meanings :
          /\ meaning[nextId] = [job |-> job, chain |-> chain]
          /\ \A i \in Ids : i < nextId => meaning[i] = content[i]
    <2> DEFINE given == [content EXCEPT ![nextId] = [job |-> job, chain |-> chain]]
    <2>1. [job |-> job, chain |-> chain] \in FailedRow
      BY DEF FailedRow
    <2>2. /\ given \in Meanings /\ given[nextId] = [job |-> job, chain |-> chain]
          /\ \A i \in Ids : i < nextId => given[i] = content[i]
      BY <1>1, <2>1 DEF Meanings, Ids
    <2>3. QED
      BY <2>2
  <1>3. /\ \A i \in Ids : jobs[i] # None => i < nextId
        /\ \A i \in Ids : failed[i] # None => i < nextId
        /\ \A w \in Workers : held[w] # None => held[w].id \in Ids /\ held[w].id < nextId
        /\ \A w \in Workers : \A r \in cands[w] : r.id \in Ids /\ r.id < nextId
        /\ \A o \in Operators : reading[o] # None => reading[o].id \in Ids /\ reading[o].id < nextId
    BY DEF Typed, TypeOK, IdsOK, Apart, Agree, CandidatesAgree, ReadingAgrees, QueuedJob, JobRow
  <1>4. Agree(meaning)
    BY <1>2, <1>3 DEF Agree, RowsAgree, FailuresAgree, HandsAgree, CandidatesAgree,
                      ReadingAgrees, LinesAgree
  <1>5. RowsAgree(meaning)'
    <2>1. ASSUME NEW i \in Ids, jobs'[i] # None, i # nextId
          PROVE  jobs'[i] = jobs[i]
      BY <2>1 DEF Push, Typed, TypeOK
    <2>2. Content(jobs'[nextId]) = [job |-> job, chain |-> chain]
      BY <1>1 DEF Push, NewRow, Content, Typed, TypeOK
    <2>3. QED
      BY <1>2, <1>4, <2>1, <2>2 DEF Agree, RowsAgree
  <1>6. FailuresAgree(meaning)' /\ HandsAgree(meaning)'
    BY <1>4 DEF Agree, FailuresAgree, HandsAgree
  <1>7. CandidatesAgree(meaning)' /\ ReadingAgrees(meaning)'
    BY <1>1, <1>3, <1>4 DEF Agree, CandidatesAgree, ReadingAgrees, Ids
  <1>8. LinesAgree(meaning)'
    <2>1. JobsOf(meaning[nextId]) = {job} \cup SetOf(chain)
      BY <1>2 DEF JobsOf
    <2>2. ASSUME NEW i \in Ids, i < nextId', i # nextId
          PROVE  i < nextId
      BY <1>1, <2>2 DEF Ids
    <2>3. QED
      BY <1>4, <2>1, <2>2 DEF Agree, LinesAgree
  <1>9. QED
    BY <1>2, <1>4, <1>5, <1>6, <1>7, <1>8 DEF Agree

\* A step that brings no new id keeps what each id stands for, when every copy it
\* makes is of something that was there.
LEMMA CopiesAgree ==
    ASSUME NEW content, Agree(content), nextId' = nextId, dispatched' = dispatched,
           \A i \in Ids : jobs'[i] # None =>
               jobs[i] # None /\ Content(jobs'[i]) = Content(jobs[i]),
           \A i \in Ids : failed'[i] # None => failed'[i] = content[i],
           \A w \in Workers : held'[w] # None => Content(held'[w]) = content[held'[w].id],
           CandidatesAgree(content)', ReadingAgrees(content)'
    PROVE  Agree(content)'
  BY DEF Agree, RowsAgree, FailuresAgree, HandsAgree, LinesAgree

\* A reservation or a release changes neither the job nor the chain of a row.
LEMMA RowContent ==
    ASSUME Typed, NEW id \in Ids, jobs[id] # None, NEW n, NEW due, NEW res,
           \/ jobs' = [jobs EXCEPT ![id] = [@ EXCEPT !.reservedAt = res, !.attempts = n]]
           \/ jobs' = [jobs EXCEPT ![id] = [@ EXCEPT !.attempts = n, !.availableAt = due,
                                                     !.reservedAt = res]]
    PROVE  \A i \in Ids : jobs'[i] # None =>
               jobs[i] # None /\ Content(jobs'[i]) = Content(jobs[i])
  <1>1. jobs[id] \in JobRow
    BY DEF Typed, TypeOK
  <1>2. jobs'[id].job = jobs[id].job /\ jobs'[id].chain = jobs[id].chain
    <2>1. CASE jobs' = [jobs EXCEPT ![id] = [@ EXCEPT !.reservedAt = res, !.attempts = n]]
      <3>1. jobs'[id] = [jobs[id] EXCEPT !.reservedAt = res, !.attempts = n]
        BY <2>1 DEF Typed, TypeOK
      <3>2. QED
        BY <1>1, <3>1 DEF JobRow
    <2>2. CASE jobs' = [jobs EXCEPT ![id] = [@ EXCEPT !.attempts = n, !.availableAt = due,
                                                      !.reservedAt = res]]
      <3>1. jobs'[id] = [jobs[id] EXCEPT !.attempts = n, !.availableAt = due,
                                         !.reservedAt = res]
        BY <2>2 DEF Typed, TypeOK
      <3>2. QED
        BY <1>1, <3>1 DEF JobRow
    <2>3. QED
      BY <2>1, <2>2
  <1>3. \A i \in Ids : i # id => jobs'[i] = jobs[i]
    BY DEF Typed, TypeOK
  <1>4. QED
    BY <1>2, <1>3 DEF Content

\* ... and the row stays in the table.
LEMMA RowKept ==
    ASSUME Typed, NEW id \in Ids, jobs[id] # None,
           NEW n \in Nat, NEW due \in Time, NEW res \in Time \cup {NotReserved},
           \/ jobs' = [jobs EXCEPT ![id] = [@ EXCEPT !.reservedAt = res, !.attempts = n]]
           \/ jobs' = [jobs EXCEPT ![id] = [@ EXCEPT !.attempts = n, !.availableAt = due,
                                                     !.reservedAt = res]]
    PROVE  \A i \in Ids : jobs[i] # None => jobs'[i] # None
  <1>1. jobs[id] \in JobRow
    BY DEF Typed, TypeOK
  <1>2. /\ [jobs[id] EXCEPT !.reservedAt = res, !.attempts = n] \in JobRow
        /\ [jobs[id] EXCEPT !.attempts = n, !.availableAt = due, !.reservedAt = res] \in JobRow
    BY <1>1 DEF JobRow
  <1>3. \A i \in Ids : jobs'[i] = jobs[i] \/ jobs'[i] \in JobRow
    BY <1>2 DEF Typed, TypeOK
  <1>4. QED
    BY <1>3, NoneAssumption

\* A reservation keeps every row, and makes none.
LEMMA ReservedRowKept ==
    ASSUME Typed, NEW id \in Ids, jobs[id] # None, NEW n \in Nat,
           jobs' = [jobs EXCEPT ![id] = [@ EXCEPT !.reservedAt = now, !.attempts = n]]
    PROVE  \A i \in Ids : jobs[i] # None <=> jobs'[i] # None
  <1>1. now \in Time
    BY DEF Typed, TypeOK
  <1>2. \A i \in Ids : jobs[i] # None => jobs'[i] # None
    BY <1>1, RowKept
  <1>3. \A i \in Ids : jobs'[i] # None => jobs[i] # None
    BY RowContent
  <1>4. QED
    BY <1>2, <1>3

\* Deleting rows, or leaving them alone, changes the content of none.
LEMMA DeletedContent ==
    ASSUME \A i \in Ids : jobs'[i] = jobs[i] \/ jobs'[i] = None
    PROVE  \A i \in Ids : jobs'[i] # None =>
               jobs[i] # None /\ Content(jobs'[i]) = Content(jobs[i])
  OBVIOUS

\* No step changes what an id stands for.
LEMMA AgreeStep ==
    ASSUME Typed, Typed', Apart, OneContent, [Next]_vars
    PROVE  \E content \in Meanings : Agree(content) /\ Agree(content)'
  <1> USE NoneAssumption
  <1>0. PICK content \in Meanings : Agree(content)
    BY DEF OneContent
  <1> USE DEF dbVars, workerVars, spent, historyVars
  <1> SUFFICES ASSUME ~\E meaning \in Meanings : Agree(meaning) /\ Agree(meaning)'
               PROVE  Agree(content)'
    BY <1>0
  <1>a. ASSUME UNCHANGED cands PROVE nextId' = nextId => CandidatesAgree(content)'
    BY <1>0, <1>a DEF Agree, CandidatesAgree
  <1>b. ASSUME UNCHANGED reading PROVE nextId' = nextId => ReadingAgrees(content)'
    BY <1>0, <1>b DEF Agree, ReadingAgrees
  <1>c. /\ \A i \in Ids : failed[i] # None => failed[i] = content[i]
        /\ \A v \in Workers : held[v] # None => Content(held[v]) = content[held[v].id]
        /\ \A i \in Ids : jobs[i] # None => Content(jobs[i]) = content[i]
        /\ \A v \in Workers : \A r \in cands[v] : r.id < nextId /\ Content(r) = content[r.id]
    BY <1>0 DEF Agree, FailuresAgree, HandsAgree, RowsAgree, CandidatesAgree
  <1>1. ASSUME NEW w \in Workers, Pop(w) PROVE Agree(content)'
    <2>1. PICK row \in Eligible : PopBySkipLocked(row) /\ Take(w, Queued(row))
      BY <1>1 DEF Pop
    <2>2. row \in JobRow /\ jobs[row.id] = row /\ row.id \in Ids /\ row # None
      BY EligibleRows DEF JobRow, Typed
    <2>3. \A i \in Ids : jobs'[i] # None =>
              jobs[i] # None /\ Content(jobs'[i]) = Content(jobs[i])
      BY <2>1, <2>2, RowContent DEF PopBySkipLocked
    <2>4. Content(Queued(row)) = content[row.id] /\ Queued(row).id = row.id
      BY <1>c, <2>2 DEF Queued, Content
    <2>5. \A v \in Workers : held'[v] # None => Content(held'[v]) = content[held'[v].id]
      BY <1>c, <2>1, <2>4 DEF Take, Typed, TypeOK
    <2>6. QED
      BY <1>0, <1>1, <1>a, <1>b, <1>c, <2>3, <2>5, CopiesAgree DEF Pop
  <1>2. ASSUME NEW w \in Workers, ReadCandidates(w) PROVE Agree(content)'
    <2>1. \A r \in Batch : r.id < nextId /\ Content(r) = content[r.id]
      <3> SUFFICES ASSUME NEW r \in Eligible PROVE r.id < nextId /\ Content(r) = content[r.id]
        BY DEF Batch
      <3>1. r.id \in Ids /\ jobs[r.id] = r /\ r # None
        BY EligibleRows DEF JobRow, Typed
      <3>2. QED
        BY <1>c, <3>1 DEF Typed, IdsOK
    <2>2. CandidatesAgree(content)'
      BY <1>2, <1>c, <2>1 DEF ReadCandidates, CandidatesAgree, Typed, TypeOK
    <2>3. QED
      BY <1>0, <1>2, <1>b, <1>c, <2>2, CopiesAgree DEF ReadCandidates
  <1>3. ASSUME NEW w \in Workers, TryCandidate(w) PROVE Agree(content)'
    <2>1. PICK row \in cands[w] :
            \/ /\ StillAsRead(row)
               /\ ReserveCandidate(row)
               /\ Take(w, Queued(row))
               /\ cands' = [cands EXCEPT ![w] = {}]
            \/ /\ cands' = [cands EXCEPT ![w] = @ \ {row}]
               /\ UNCHANGED <<jobs, held>>
      BY <1>3 DEF TryCandidate
    <2>2. row \in JobRow /\ row.id \in Ids
      BY DEF Typed, TypeOK, JobRow
    <2>3. CandidatesAgree(content)'
      <3>1. CASE cands' = [cands EXCEPT ![w] = {}]
        BY <1>3, <1>c, <3>1 DEF TryCandidate, CandidatesAgree, Typed, TypeOK
      <3>2. CASE cands' = [cands EXCEPT ![w] = cands[w] \ {row}]
        BY <1>3, <1>c, <3>2 DEF TryCandidate, CandidatesAgree, Typed, TypeOK
      <3>3. QED
        BY <2>1, <3>1, <3>2
    <2>4. CASE StillAsRead(row) /\ ReserveCandidate(row) /\ Take(w, Queued(row))
      <3>1. \A i \in Ids : jobs'[i] # None =>
                jobs[i] # None /\ Content(jobs'[i]) = Content(jobs[i])
        BY <2>2, <2>4, RowContent DEF ReserveCandidate, StillAsRead
      <3>2. Content(Queued(row)) = content[row.id] /\ Queued(row).id = row.id
        BY <1>c, <2>2 DEF Queued, Content
      <3>3. \A v \in Workers : held'[v] # None => Content(held'[v]) = content[held'[v].id]
        BY <1>c, <2>4, <3>2 DEF Take, Typed, TypeOK
      <3>4. QED
        BY <1>0, <1>3, <1>b, <1>c, <2>3, <3>1, <3>3, CopiesAgree DEF TryCandidate
    <2>5. CASE UNCHANGED <<jobs, held>>
      BY <1>0, <1>3, <1>b, <1>c, <2>3, <2>5, CopiesAgree DEF TryCandidate
    <2>6. QED
      BY <2>1, <2>4, <2>5
  <1>4. ASSUME NEW w \in Workers, FailUnstarted(w) \/ FailStarted(w) PROVE Agree(content)'
    <2>1. Owning(w) /\ FailHeld(w)
      BY <1>4 DEF FailUnstarted, FailStarted, Owning
    <2>2. held[w] # None /\ held[w].id \in Ids /\ held' = [held EXCEPT ![w] = None]
      BY <2>1, FailTyped DEF Typed, TypeOK, MemoryOK, QueuedJob
    <2>3. \A i \in Ids : failed'[i] # None => failed'[i] = content[i]
      BY <1>c, <2>1, <2>2 DEF FailHeld, FailRow, Content, Typed, TypeOK
    <2>4. \A v \in Workers : held'[v] # None => held'[v] = held[v]
      BY <2>2 DEF Typed, TypeOK
    <2>5. \A i \in Ids : jobs'[i] # None => jobs'[i] = jobs[i]
      BY <2>1, FailTyped
    <2>6. /\ nextId' = nextId /\ dispatched' = dispatched
          /\ UNCHANGED cands /\ UNCHANGED reading
      BY <2>1 DEF FailHeld
    <2>7. QED
      BY <1>0, <1>a, <1>b, <1>c, <2>3, <2>4, <2>5, <2>6, CopiesAgree
  <1>5. ASSUME NEW w \in Workers,
               \/ SkipMissing(w) \/ Start(w) \/ Succeed(w) \/ StopChain(w)
               \/ ThrowInTry(w) \/ ThrowOutOfLoop(w) \/ Crash(w) \/ Restart(w)
        PROVE  Agree(content)'
    <2>1. \A i \in Ids : jobs'[i] = jobs[i] \/ jobs'[i] = None
      BY <1>5 DEF SkipMissing, Start, Succeed, StopChain, ThrowInTry, ThrowOutOfLoop, Crash,
                  Restart, DeleteRow, Typed, TypeOK
    <2>2. \A v \in Workers : held'[v] # None => held'[v] = held[v]
      BY <1>5 DEF SkipMissing, Start, Succeed, StopChain, ThrowInTry, ThrowOutOfLoop, Crash,
                  Restart, Done, Typed, TypeOK
    <2>3. /\ nextId' = nextId /\ dispatched' = dispatched
          /\ UNCHANGED failed /\ UNCHANGED reading
          /\ UNCHANGED cands \/ cands' = [cands EXCEPT ![w] = {}]
      BY <1>5 DEF SkipMissing, Start, Succeed, StopChain, ThrowInTry, ThrowOutOfLoop, Crash,
                  Restart
    <2>4. CandidatesAgree(content)'
      BY <1>c, <2>3 DEF CandidatesAgree, Typed, TypeOK
    <2>5. QED
      BY <1>0, <1>b, <1>c, <2>1, <2>2, <2>3, <2>4, CopiesAgree
  <1>6. ASSUME NEW w \in Workers, NEW delay \in Delays, ReleaseHeld(w, delay)
        PROVE  Agree(content)'
    <2>1. held[w] \in QueuedJob /\ held[w].id \in Ids
      BY <1>6 DEF ReleaseHeld, Typed, TypeOK, MemoryOK, Owning, QueuedJob
    <2>2. \A i \in Ids : jobs'[i] # None =>
              jobs[i] # None /\ Content(jobs'[i]) = Content(jobs[i])
      <3>1. CASE jobs[held[w].id] = None
        BY <1>6, <3>1 DEF ReleaseHeld, ReleaseRow
      <3>2. CASE jobs[held[w].id] # None
        BY <1>6, <2>1, <3>2, RowContent DEF ReleaseHeld, ReleaseRow
      <3>3. QED
        BY <3>1, <3>2
    <2>3. \A v \in Workers : held'[v] # None => held'[v] = held[v]
      BY <1>6 DEF ReleaseHeld, Done, Typed, TypeOK
    <2>4. QED
      BY <1>0, <1>6, <1>a, <1>b, <1>c, <2>2, <2>3, CopiesAgree DEF ReleaseHeld
  <1>7. ASSUME NEW w \in Workers, PushNext(w) PROVE Agree(content)'
    <2>1. /\ held[w] \in QueuedJob /\ held[w].chain # <<>> /\ held[w] # None
          /\ held[w].id \in Ids /\ held[w].id < nextId
      BY <1>7 DEF PushNext, Typed, TypeOK, MemoryOK, IdsOK, Owning, QueuedJob
    <2>2. Head(held[w].chain) \in Jobs /\ Tail(held[w].chain) \in Seq(Jobs)
      BY <2>1 DEF QueuedJob
    <2>3. \E h \in dispatched :
             {Head(held[w].chain)} \cup SetOf(Tail(held[w].chain)) \subseteq Line(h)
      <3>1. {Head(held[w].chain)} \cup SetOf(Tail(held[w].chain)) \subseteq JobsOf(held[w])
        BY <2>1 DEF JobsOf, SetOf, QueuedJob
      <3>2. JobsOf(held[w]) = JobsOf(content[held[w].id])
        BY <1>c, <2>1, JobsOfContent
      <3>3. QED
        BY <1>0, <2>1, <3>1, <3>2 DEF Agree, LinesAgree
    <2>4. QED
      BY <1>0, <1>7, <2>2, <2>3, PushAgrees DEF PushNext, Done, Typed, TypeOK
  <1>8. ASSUME NEW j \in Heads, NEW delay \in Delays, Dispatch(j, delay) PROVE Agree(content)'
    <2>1. {j} \cup SetOf(ChainOf[j]) \subseteq Line(j)
      BY DEF Line
    <2>2. QED
      BY <1>0, <1>8, <2>1, PushAgrees DEF Dispatch, Heads
  <1>9. ASSUME NEW o \in Operators, NEW i \in Ids, RetryRead(o, i) PROVE Agree(content)'
    <2>1. failed[i] = content[i] /\ i < nextId
      BY <1>9, <1>c DEF RetryRead, Apart
    <2>2. ReadingAgrees(content)'
      BY <1>0, <1>9, <2>1 DEF RetryRead, Agree, ReadingAgrees, Typed, TypeOK
    <2>3. QED
      BY <1>0, <1>9, <1>a, <1>c, <2>2, CopiesAgree DEF RetryRead
  <1>10. ASSUME NEW o \in Operators, RetryWrite(o) PROVE Agree(content)'
    <2>1. /\ reading[o] \in [id : Ids, row : FailedRow] /\ reading[o].id < nextId
          /\ reading[o].row = content[reading[o].id]
      BY <1>0, <1>10 DEF RetryWrite, Typed, TypeOK, Agree, ReadingAgrees
    <2>2. \A p \in Operators : reading'[p] # None => reading'[p] = reading[p]
      BY <1>10 DEF RetryWrite, Typed, TypeOK
    <2>3. CASE UNCHANGED <<jobs, failed, nextId>>
      <3>1. ReadingAgrees(content)'
        BY <1>0, <2>2, <2>3 DEF Agree, ReadingAgrees
      <3>2. QED
        BY <1>0, <1>10, <1>a, <1>c, <2>3, <3>1, CopiesAgree DEF RetryWrite
    <2>4. CASE RetryRow(reading[o].id, reading[o].row)
      <3>1. reading[o].row \in FailedRow /\ reading[o].id \in Ids
        BY <2>1
      <3>2. \E h \in dispatched :
               {reading[o].row.job} \cup SetOf(reading[o].row.chain) \subseteq Line(h)
        BY <1>0, <2>1, <3>1 DEF Agree, LinesAgree, JobsOf
      <3>3. \A i \in Ids : failed'[i] # None => failed'[i] = failed[i]
        BY <2>4 DEF RetryRow, Typed, TypeOK
      <3>4. QED
        BY <1>0, <1>10, <2>2, <2>4, <3>1, <3>2, <3>3, PushAgrees
        DEF RetryWrite, RetryRow, FailedRow
    <2>5. QED
      BY <1>10, <2>3, <2>4 DEF RetryWrite
  <1>11. ASSUME \/ \E o \in Operators : \/ \E i \in Ids : Forget(o, i)
                                        \/ Flush(o) \/ Clear(o)
                \/ Second \/ UNCHANGED vars
         PROVE  Agree(content)'
    <2>1. /\ \A i \in Ids : jobs'[i] = jobs[i] \/ jobs'[i] = None
          /\ \A i \in Ids : failed'[i] = failed[i] \/ failed'[i] = None
      BY <1>11 DEF Forget, ForgetRow, Flush, FlushRows, Clear, ClearRows, Second, vars,
                   Typed, TypeOK
    <2>2. /\ nextId' = nextId /\ dispatched' = dispatched
          /\ UNCHANGED cands /\ UNCHANGED reading /\ UNCHANGED held
      BY <1>11 DEF Forget, Flush, Clear, Second, vars
    <2>3. QED
      BY <1>0, <1>a, <1>b, <1>c, <2>1, <2>2, CopiesAgree
  <1>12. QED
    BY <1>1, <1>2, <1>3, <1>4, <1>5, <1>6, <1>7, <1>8, <1>9, <1>10, <1>11
    DEF Next, Work, Fault, Console

\* A chain is its head and what is behind it.
LEMMA ChainSplits ==
    ASSUME NEW chain \in Seq(Jobs), chain # <<>>
    PROVE  /\ Head(chain) \in Jobs /\ Tail(chain) \in Seq(Jobs)
           /\ SetOf(chain) = {Head(chain)} \cup SetOf(Tail(chain))
  <1>1. Head(chain) \in Jobs /\ Tail(chain) \in Seq(Jobs) /\ Len(chain) \in Nat \ {0}
    OBVIOUS
  <1>2. SetOf(chain) \subseteq {Head(chain)} \cup SetOf(Tail(chain))
    <2>0. chain[1] = Head(chain) /\ DOMAIN chain = 1..Len(chain)
          /\ DOMAIN Tail(chain) = 1..Len(Tail(chain))
      BY <1>1
    <2> SUFFICES ASSUME NEW k \in 1..Len(chain)
                 PROVE  chain[k] \in {Head(chain)} \cup SetOf(Tail(chain))
      BY <2>0 DEF SetOf
    <2>1. CASE k = 1
      BY <2>0, <2>1
    <2>2. CASE k # 1
      <3>1. k - 1 \in DOMAIN Tail(chain) /\ Tail(chain)[k - 1] = chain[k]
        BY <1>1, <2>2
      <3>2. QED
        BY <3>1 DEF SetOf
    <2>3. QED
      BY <2>1, <2>2
  <1>3. {Head(chain)} \cup SetOf(Tail(chain)) \subseteq SetOf(chain)
    BY <1>1 DEF SetOf
  <1>4. QED
    BY <1>1, <1>2, <1>3

\* A row, a failed row and a job in hand have the jobs of their id.
LEMMA AgreeJobs ==
    ASSUME NEW content, Agree(content)
    PROVE  /\ \A i \in Ids : jobs[i] # None => JobsOf(jobs[i]) = JobsOf(content[i])
           /\ \A i \in Ids : failed[i] # None => JobsOf(failed[i]) = JobsOf(content[i])
           /\ \A w \in Workers : held[w] # None => JobsOf(held[w]) = JobsOf(content[held[w].id])
  BY JobsOfContent DEF Agree, RowsAgree, FailuresAgree, HandsAgree

\* push() stores the job and its chain under the fresh id.
LEMMA PushStores ==
    ASSUME Typed, NEW job \in Jobs, NEW chain \in Seq(Jobs), NEW delay \in Nat,
           Push(job, chain, delay), NEW content, RowsAgree(content)'
    PROVE  /\ nextId \in Ids /\ jobs'[nextId] # None
           /\ JobsOf(content[nextId]) = {job} \cup SetOf(chain)
           /\ \A i \in Ids : i # nextId => jobs'[i] = jobs[i]
           /\ jobs[nextId] = None
  <1>1. nextId \in Ids /\ jobs' = [jobs EXCEPT ![nextId] = NewRow(job, chain, delay)]
    BY DEF Push, Ids, Typed, TypeOK
  <1>2. NewRow(job, chain, delay) \in JobRow
    BY <1>1, LaterInTime DEF NewRow, JobRow, NotReserved, Typed, TypeOK
  <1>3. jobs'[nextId] = NewRow(job, chain, delay) /\ jobs'[nextId] # None
    BY <1>1, <1>2, NoneAssumption DEF Typed, TypeOK
  <1>4. JobsOf(content[nextId]) = JobsOf(NewRow(job, chain, delay))
    BY <1>1, <1>3, JobsOfContent DEF RowsAgree
  <1>5. JobsOf(NewRow(job, chain, delay)) = {job} \cup SetOf(chain)
    BY DEF NewRow, JobsOf
  <1>6. QED
    BY <1>1, <1>3, <1>4, <1>5 DEF Typed, TypeOK, IdsOK

-----------------------------------------------------------------------------
(* No job is lost unrecorded *)

Stored(i) == jobs[i] # None \/ failed[i] # None

\* The chain a worker has in its memory, and perhaps nowhere else.
Carries(w, j) == phase[w] \in {"chaining", "caught"} /\ j \in SetOf(held[w].chain)

\* What NoJobLost asks of a job, said of ids and what they stand for.
Accounted(content, j) ==
    \/ \E i \in Ids : Stored(i) /\ j \in JobsOf(content[i])
    \/ \E w \in Workers : Carries(w, j)
    \/ j \in done \cup dropped \cup lost

\* The two ways of saying it agree.
LEMMA AccountedIsRecorded ==
    ASSUME NEW content, Agree(content)
    PROVE  NoJobLost <=> \A h \in dispatched : \A j \in Line(h) : Accounted(content, j)
  BY AgreeJobs DEF NoJobLost, Accounted, RowsOf, FailuresOf, LinkedBy, Carries, Stored

\* A job that is still stored, still carried or settled is still accounted for.
LEMMA StillAccounted ==
    ASSUME NEW content, NEW j, Accounted(content, j),
           \A i \in Ids : Stored(i) /\ j \in JobsOf(content[i]) => Accounted(content, j)',
           \A w \in Workers : Carries(w, j) => Accounted(content, j)',
           done \cup dropped \cup lost \subseteq done' \cup dropped' \cup lost'
    PROVE  Accounted(content, j)'
  BY DEF Accounted

\* No step drops a job without writing down why.
LEMMA AccountedStep ==
    ASSUME Typed, Typed', Apart, NEW content \in Meanings, Agree(content), Agree(content)',
           NEW j, Accounted(content, j), [Next]_vars
    PROVE  Accounted(content, j)'
  <1> USE NoneAssumption DEF dbVars, workerVars, spent, historyVars
  <1>a. done \cup dropped \cup lost \subseteq done' \cup dropped' \cup lost'
    BY DEF Next, Work, Fault, Console, vars, Second, Pop, ReadCandidates, TryCandidate,
           FailUnstarted, FailStarted, FailHeld, SkipMissing, Start, Succeed, ReleaseHeld,
           PushNext, StopChain, ThrowInTry, ThrowOutOfLoop, Crash, Restart, Dispatch,
           RetryRead, RetryWrite, Forget, Flush, Clear
  <1>b. ASSUME \A i \in Ids : Stored(i) => Stored(i)',
               \A w \in Workers : Carries(w, j) => Carries(w, j)'
        PROVE  Accounted(content, j)'
    BY <1>a, <1>b, StillAccounted DEF Accounted
  <1>c. \A w \in Workers : Owning(w) =>
            /\ held[w] \in QueuedJob /\ held[w].id \in Ids
            /\ JobsOf(held[w]) = JobsOf(content[held[w].id])
            /\ SetOf(held[w].chain) \subseteq JobsOf(content[held[w].id])
    <2> SUFFICES ASSUME NEW w \in Workers, Owning(w)
                 PROVE  /\ held[w] \in QueuedJob /\ held[w].id \in Ids
                        /\ JobsOf(held[w]) = JobsOf(content[held[w].id])
                        /\ SetOf(held[w].chain) \subseteq JobsOf(content[held[w].id])
      OBVIOUS
    <2>1. held[w] # None /\ held[w] \in QueuedJob /\ held[w].id \in Ids
      BY DEF Typed, TypeOK, MemoryOK, QueuedJob
    <2>2. JobsOf(held[w]) = JobsOf(content[held[w].id])
      BY <2>1, AgreeJobs
    <2>3. SetOf(held[w].chain) \subseteq JobsOf(held[w])
      BY DEF JobsOf
    <2>4. QED
      BY <2>1, <2>2, <2>3
  <1>1. ASSUME NEW w \in Workers, Pop(w) PROVE Accounted(content, j)'
    <2>1. PICK row \in Eligible : PopBySkipLocked(row) /\ Take(w, Queued(row))
      BY <1>1 DEF Pop
    <2>2. row \in JobRow /\ jobs[row.id] = row /\ row.id \in Ids
      BY EligibleRows DEF JobRow, Typed
    <2>3. \A i \in Ids : jobs[i] # None => jobs'[i] # None
      <3>1. AttemptsOn(row) \in Nat /\ now \in Time
        BY <2>2 DEF JobRow, AttemptsOn, Typed, TypeOK
      <3>2. QED
        BY <2>1, <2>2, <3>1, ReservedRowKept DEF PopBySkipLocked
    <2>4. QED
      BY <1>1, <1>b, <2>1, <2>3 DEF Pop, Take, Stored, Carries, Typed, TypeOK
  <1>2. ASSUME NEW w \in Workers, TryCandidate(w) PROVE Accounted(content, j)'
    <2>1. \A i \in Ids : jobs[i] # None => jobs'[i] # None
      <3> SUFFICES ASSUME NEW row \in cands[w], ReserveCandidate(row), NEW i \in Ids,
                          jobs[i] # None
                   PROVE  jobs'[i] # None
        BY <1>2 DEF TryCandidate
      <3>1. row.id \in Ids /\ row \in JobRow
        BY DEF Typed, TypeOK, JobRow
      <3>2. jobs[row.id] # None /\ now \in Time
        BY DEF ReserveCandidate, StillAsRead, Typed, TypeOK
      <3>3. AttemptsAfter(row) \in Nat
        BY <3>1, <3>2 DEF AttemptsAfter, JobRow, Typed, TypeOK
      <3>4. jobs' = [jobs EXCEPT ![row.id] =
                         [@ EXCEPT !.reservedAt = now, !.attempts = AttemptsAfter(row)]]
        BY DEF ReserveCandidate
      <3>5. QED
        BY <3>1, <3>2, <3>3, <3>4, ReservedRowKept
    <2>2. \A v \in Workers : v # w => phase'[v] = phase[v] /\ held'[v] = held[v]
      BY <1>2 DEF TryCandidate, Take, Typed, TypeOK
    <2>3. ~Carries(w, j) /\ UNCHANGED failed
      BY <1>2 DEF TryCandidate, Carries
    <2>4. QED
      BY <1>b, <2>1, <2>2, <2>3 DEF Stored, Carries
  <1>3. ASSUME \/ \E w \in Workers : ReadCandidates(w) \/ Start(w) \/ Restart(w)
               \/ \E o \in Operators, i \in Ids : RetryRead(o, i)
               \/ Second \/ UNCHANGED vars
        PROVE  Accounted(content, j)'
    BY <1>3, <1>b DEF ReadCandidates, Start, Restart, RetryRead, Second, vars, Stored, Carries,
                      Typed, TypeOK
  <1>4. ASSUME NEW w \in Workers, FailUnstarted(w) \/ FailStarted(w)
        PROVE  Accounted(content, j)'
    <2>1. Owning(w) /\ FailHeld(w)
      BY <1>4 DEF FailUnstarted, FailStarted, Owning
    <2>2. \A i \in Ids : i = held[w].id => Stored(i)'
      <3>1. [job |-> held[w].job, chain |-> held[w].chain] \in FailedRow
        BY <1>c, <2>1 DEF FailedRow, QueuedJob
      <3>2. held[w].id \in Ids /\ failed'[held[w].id] # None
        BY <1>c, <2>1, <3>1 DEF FailHeld, FailRow, FailConflicts, Typed, TypeOK
      <3>3. QED
        BY <3>2 DEF Stored
    <2>3. \A i \in Ids : Stored(i) => Stored(i)'
      <3>1. \A i \in Ids : i # held[w].id => jobs'[i] = jobs[i] /\ failed'[i] = failed[i]
        BY <2>1 DEF FailHeld, FailRow, DeleteRow, Typed, TypeOK
      <3>2. QED
        BY <2>2, <3>1 DEF Stored
    <2>4. \A v \in Workers : v # w => phase'[v] = phase[v] /\ held'[v] = held[v]
      BY <2>1 DEF FailHeld, Done, Typed, TypeOK
    <2>5. \A v \in Workers : Carries(v, j) => Accounted(content, j)'
      <3>1. CASE Carries(w, j)
        BY <1>c, <2>1, <2>2, <3>1 DEF Accounted, Carries
      <3>2. QED
        BY <2>4, <3>1 DEF Accounted, Carries
    <2>6. QED
      BY <1>a, <2>3, <2>5, StillAccounted DEF Accounted
  <1>5. ASSUME NEW w \in Workers, SkipMissing(w) PROVE Accounted(content, j)'
    <2>1. Owning(w) /\ ~Carries(w, j)
      BY <1>5 DEF SkipMissing, Owning, Carries
    <2>2. JobsOf(content[held[w].id]) \subseteq dropped'
      BY <1>5, <1>c, <2>1 DEF SkipMissing
    <2>3. /\ \A v \in Workers : v # w => phase'[v] = phase[v] /\ held'[v] = held[v]
          /\ \A i \in Ids : i # held[w].id => jobs'[i] = jobs[i]
          /\ UNCHANGED failed
      BY <1>5 DEF SkipMissing, DeleteRow, Done, Typed, TypeOK
    <2>4. \A i \in Ids : Stored(i) /\ j \in JobsOf(content[i]) => Accounted(content, j)'
      BY <2>2, <2>3 DEF Stored, Accounted
    <2>5. \A v \in Workers : Carries(v, j) => Accounted(content, j)'
      BY <2>1, <2>3 DEF Carries, Accounted
    <2>6. QED
      BY <1>a, <2>4, <2>5, StillAccounted
  <1>6. ASSUME NEW w \in Workers, Succeed(w) PROVE Accounted(content, j)'
    <2>1. Owning(w) /\ ~Carries(w, j)
      BY <1>6 DEF Succeed, Owning, Carries
    <2>2. /\ \A v \in Workers : v # w => phase'[v] = phase[v] /\ held'[v] = held[v]
          /\ \A i \in Ids : i # held[w].id => jobs'[i] = jobs[i]
          /\ UNCHANGED failed
      BY <1>6 DEF Succeed, DeleteRow, Done, Typed, TypeOK
    <2>3. ASSUME j \in JobsOf(content[held[w].id]) PROVE Accounted(content, j)'
      <3>1. CASE j = held[w].job
        BY <1>6, <3>1 DEF Succeed, Accounted
      <3>2. CASE j \in SetOf(held[w].chain)
        <4>1. held[w].chain # <<>>
          BY <3>2 DEF SetOf
        <4>2. Carries(w, j)'
          BY <1>6, <3>2, <4>1 DEF Succeed, Carries, Typed, TypeOK
        <4>3. QED
          BY <4>2 DEF Accounted
      <3>3. QED
        BY <1>c, <2>1, <2>3, <3>1, <3>2 DEF JobsOf
    <2>4. \A i \in Ids : Stored(i) /\ j \in JobsOf(content[i]) => Accounted(content, j)'
      BY <2>2, <2>3 DEF Stored, Accounted
    <2>5. \A v \in Workers : Carries(v, j) => Accounted(content, j)'
      BY <2>1, <2>2 DEF Carries, Accounted
    <2>6. QED
      BY <1>a, <2>4, <2>5, StillAccounted
  <1>7. ASSUME NEW w \in Workers, NEW delay \in Delays, ReleaseHeld(w, delay)
        PROVE  Accounted(content, j)'
    <2>1. Owning(w) /\ held[w].id \in Ids
      BY <1>7, <1>c DEF ReleaseHeld, Owning
    <2>2. /\ \A v \in Workers : v # w => phase'[v] = phase[v] /\ held'[v] = held[v]
          /\ UNCHANGED failed
      BY <1>7 DEF ReleaseHeld, Done, Typed, TypeOK
    <2>3. \A i \in Ids : Stored(i) => Stored(i)'
      <3>1. CASE jobs[held[w].id] = None
        BY <1>7, <2>2, <3>1 DEF ReleaseHeld, ReleaseRow, Stored
      <3>2. CASE jobs[held[w].id] # None
        <4>1. held[w].attempts + 1 \in Nat /\ delay \in Nat
          BY <1>c, <2>1 DEF QueuedJob
        <4>2. Later(delay) \in Time
          BY <4>1, LaterInTime DEF Typed, TypeOK
        <4>3. \A i \in Ids : jobs[i] # None => jobs'[i] # None
          BY <1>7, <2>1, <3>2, <4>1, <4>2, RowKept DEF ReleaseHeld, ReleaseRow
        <4>4. QED
          BY <2>2, <4>3 DEF Stored
      <3>3. QED
        BY <3>1, <3>2
    <2>4. ASSUME Carries(w, j) PROVE Accounted(content, j)'
      <3>1. phase[w] = "caught"
        BY <1>7, <2>4 DEF ReleaseHeld, Carries
      <3>2. CASE jobs[held[w].id] = None
        BY <1>7, <2>4, <3>1, <3>2 DEF ReleaseHeld, Carries, Accounted
      <3>3. CASE jobs[held[w].id] # None
        BY <1>c, <2>1, <2>3, <2>4, <3>3 DEF Stored, Carries, Accounted
      <3>4. QED
        BY <3>2, <3>3
    <2>5. \A v \in Workers : Carries(v, j) => Accounted(content, j)'
      BY <2>2, <2>4 DEF Carries, Accounted
    <2>6. QED
      BY <1>a, <2>3, <2>5, StillAccounted DEF Accounted
  <1>8. ASSUME NEW w \in Workers, PushNext(w) PROVE Accounted(content, j)'
    <2>1. Owning(w) /\ held[w].chain # <<>> /\ held[w].chain \in Seq(Jobs)
      BY <1>8, <1>c DEF PushNext, Owning, QueuedJob, Typed, MemoryOK
    <2>2. /\ nextId \in Ids /\ jobs'[nextId] # None
          /\ JobsOf(content[nextId]) = SetOf(held[w].chain)
          /\ \A i \in Ids : jobs[i] # None => jobs'[i] # None
      <3>1. /\ Head(held[w].chain) \in Jobs /\ Tail(held[w].chain) \in Seq(Jobs)
            /\ SetOf(held[w].chain) = {Head(held[w].chain)} \cup SetOf(Tail(held[w].chain))
        BY <2>1, ChainSplits
      <3>2. RowsAgree(content)' /\ Push(Head(held[w].chain), Tail(held[w].chain), 0)
        BY <1>8 DEF PushNext, Agree
      <3>3. QED
        BY <3>1, <3>2, PushStores
    <2>3. /\ \A v \in Workers : v # w => phase'[v] = phase[v] /\ held'[v] = held[v]
          /\ UNCHANGED failed
      BY <1>8 DEF PushNext, Done, Typed, TypeOK
    <2>4. \A v \in Workers : Carries(v, j) => Accounted(content, j)'
      BY <2>2, <2>3 DEF Carries, Accounted, Stored
    <2>5. QED
      BY <1>a, <2>2, <2>3, <2>4, StillAccounted DEF Accounted, Stored
  <1>9. ASSUME NEW w \in Workers, StopChain(w) PROVE Accounted(content, j)'
    <2>1. /\ \A v \in Workers : v # w => phase'[v] = phase[v] /\ held'[v] = held[v]
          /\ SetOf(held[w].chain) \subseteq dropped' /\ UNCHANGED <<jobs, failed>>
      BY <1>9 DEF StopChain, Done, Typed, TypeOK
    <2>2. \A v \in Workers : Carries(v, j) => Accounted(content, j)'
      BY <2>1 DEF Carries, Accounted
    <2>3. QED
      BY <1>a, <2>1, <2>2, StillAccounted DEF Accounted, Stored
  <1>10. ASSUME NEW w \in Workers, ThrowInTry(w) PROVE Accounted(content, j)'
    BY <1>10, <1>b DEF ThrowInTry, Stored, Carries, Typed, TypeOK
  <1>11. ASSUME NEW w \in Workers, ThrowOutOfLoop(w) \/ Crash(w) PROVE Accounted(content, j)'
    <2>1. /\ \A v \in Workers : v # w => phase'[v] = phase[v] /\ held'[v] = held[v]
          /\ UNCHANGED <<jobs, failed>>
      BY <1>11 DEF ThrowOutOfLoop, Crash, Typed, TypeOK
    <2>2. ASSUME Carries(w, j) PROVE Accounted(content, j)'
      <3>1. CASE phase[w] = "chaining" \/ jobs[held[w].id] = None
        BY <1>11, <2>2, <3>1 DEF ThrowOutOfLoop, Crash, Holding, Carries, Accounted
      <3>2. CASE jobs[held[w].id] # None
        BY <1>c, <2>1, <2>2, <3>2 DEF Owning, Carries, Accounted, Stored
      <3>3. QED
        BY <3>1, <3>2
    <2>3. \A v \in Workers : Carries(v, j) => Accounted(content, j)'
      BY <2>1, <2>2 DEF Carries, Accounted
    <2>4. QED
      BY <1>a, <2>1, <2>3, StillAccounted DEF Accounted, Stored
  <1>12. ASSUME NEW h \in Heads, NEW delay \in Delays, Dispatch(h, delay)
         PROVE  Accounted(content, j)'
    <2>1. \A i \in Ids : jobs[i] # None => jobs'[i] # None
      BY <1>12, PushStores DEF Dispatch, Agree, Heads
    <2>2. QED
      BY <1>12, <1>b, <2>1 DEF Dispatch, Stored, Carries
  <1>13. ASSUME NEW o \in Operators, RetryWrite(o) PROVE Accounted(content, j)'
    <2>1. CASE UNCHANGED <<jobs, failed, nextId>>
      BY <1>13, <1>b, <2>1 DEF RetryWrite, Stored, Carries
    <2>2. CASE RetryRow(reading[o].id, reading[o].row)
      <3>1. /\ reading[o].row \in FailedRow /\ reading[o].id \in Ids
            /\ reading[o].row = content[reading[o].id]
        BY <1>13 DEF RetryWrite, Typed, TypeOK, Agree, ReadingAgrees
      <3>2. /\ nextId \in Ids /\ jobs'[nextId] # None
            /\ JobsOf(content[nextId]) = JobsOf(content[reading[o].id])
            /\ \A i \in Ids : jobs[i] # None => jobs'[i] # None
        BY <2>2, <3>1, PushStores DEF RetryRow, FailedRow, Agree, JobsOf
      <3>3. \A i \in Ids : i # reading[o].id => failed'[i] = failed[i]
        BY <2>2 DEF RetryRow, Typed, TypeOK
      <3>4. \A i \in Ids : Stored(i) /\ j \in JobsOf(content[i]) => Accounted(content, j)'
        BY <3>1, <3>2, <3>3 DEF Stored, Accounted
      <3>5. QED
        BY <1>13, <1>a, <3>4, StillAccounted DEF RetryWrite, Carries, Accounted
    <2>3. QED
      BY <1>13, <2>1, <2>2 DEF RetryWrite
  <1>14. ASSUME NEW o \in Operators, \/ \E i \in Ids : Forget(o, i)
                                     \/ Flush(o) \/ Clear(o)
         PROVE  Accounted(content, j)'
    <2>1. \A i \in Ids : Stored(i) => Stored(i)' \/ JobsOf(content[i]) \subseteq dropped'
      <3>1. /\ \A i \in Ids : failed[i] # None => JobsOf(failed[i]) = JobsOf(content[i])
            /\ \A i \in Ids : jobs[i] # None => JobsOf(jobs[i]) = JobsOf(content[i])
        BY AgreeJobs
      <3>2. CASE \E i \in Ids : Forget(o, i)
        BY <3>1, <3>2 DEF Forget, ForgetRow, Stored, Typed, TypeOK
      <3>3. CASE Flush(o)
        BY <3>1, <3>3 DEF Flush, Stored
      <3>4. CASE Clear(o)
        BY <3>1, <3>4 DEF Clear, Stored
      <3>5. QED
        BY <1>14, <3>2, <3>3, <3>4
    <2>2. UNCHANGED <<phase, held>>
      BY <1>14 DEF Forget, Flush, Clear
    <2>3. QED
      BY <1>a, <2>1, <2>2, StillAccounted DEF Accounted, Carries
  <1>15. QED
    BY <1>1, <1>2, <1>3, <1>4, <1>5, <1>6, <1>7, <1>8, <1>9, <1>10, <1>11, <1>12, <1>13, <1>14
    DEF Next, Work, Fault, Console

\* Whatever stalls, crashes, races or failing calls there are, a dispatched job
\* and every link behind it is in a table, about to be pushed, done, given up on
\* purpose, or lost in one of the two windows `lost' names (queue-work.ts,
\* processJob and dispatchNextInChain; database-queue-driver.ts, fail and retry).
THEOREM NothingLost == Spec => []NoJobLost
  <1> DEFINE Inv == Typed /\ Apart /\ OneContent /\ NoJobLost
  <1>1. Init => Inv
    BY TypedInit, ApartInit, OneContentInit DEF Init, NoJobLost
  <1>2. ASSUME Inv, [Next]_vars PROVE Inv'
    <2>1. Typed' /\ Apart'
      BY <1>2, TypedStep, ApartStep
    <2>2. PICK content \in Meanings : Agree(content) /\ Agree(content)'
      BY <1>2, <2>1, AgreeStep
    <2>3. OneContent'
      BY <2>2 DEF OneContent
    <2>4. \A h \in dispatched : \A j \in Line(h) : Accounted(content, j)'
      BY <1>2, <2>1, <2>2, AccountedIsRecorded, AccountedStep
    <2>5. ASSUME NEW h \in dispatched', h \notin dispatched, NEW j \in Line(h)
          PROVE  Accounted(content, j)'
      <3>1. PICK delay \in Delays : Dispatch(h, delay) /\ h \in Heads
        BY <1>2, <2>5
        DEF Next, Work, Fault, Console, vars, Second, Pop, ReadCandidates, TryCandidate,
            FailUnstarted, FailStarted, FailHeld, SkipMissing, Start, Succeed, ReleaseHeld,
            PushNext, StopChain, ThrowInTry, ThrowOutOfLoop, Crash, Restart, Dispatch,
            RetryRead, RetryWrite, Forget, Flush, Clear
      <3>2. nextId \in Ids /\ jobs'[nextId] # None /\ JobsOf(content[nextId]) = Line(h)
        BY <1>2, <2>2, <3>1, PushStores DEF Dispatch, Agree, Heads, Line
      <3>3. QED
        BY <3>2 DEF Accounted, Stored
    <2>6. (\A h \in dispatched : \A j \in Line(h) : Accounted(content, j))' => NoJobLost'
      BY <2>2, JobsOfContent
      DEF Agree, RowsAgree, FailuresAgree, NoJobLost, Accounted, RowsOf, FailuresOf, LinkedBy,
          Carries, Stored
    <2>7. QED
      BY <2>1, <2>3, <2>4, <2>5, <2>6
  <1>3. QED
    BY <1>1, <1>2, PTL DEF Spec

-----------------------------------------------------------------------------
(* A bounded number of runs *)

\* Whether a worker's job in hand has been started.
Begun(w) == IF phase[w] = "reserved" THEN 0 ELSE 1

\* Whether the attempt a row's reservation stands for may have been started.
Taken(row) == IF row.reservedAt = NotReserved THEN 0 ELSE 1

\* attempts never falls behind the starts of a row, in the table or in the memory
\* of the worker that holds it.
StartsCounted ==
    /\ \A w \in Workers : phase[w] # "popping"
    /\ \A w \in Workers : Owning(w) =>
           /\ starts[held[w].id] <= held[w].attempts + Begun(w)
           /\ jobs[held[w].id] # None => jobs[held[w].id].attempts = held[w].attempts
    /\ \A i \in Ids : jobs[i] # None => starts[i] <= jobs[i].attempts + Taken(jobs[i])
    /\ \A i \in Ids : i >= nextId => starts[i] = 0
    /\ \A i \in Ids : starts[i] <= Tries

\* An engine with row locks counts every start.
Counted == dialect # "sqlite" => StartsCounted

\* The engine is chosen when the driver is built.
LEMMA DialectStays == [Next]_vars => dialect' = dialect
  BY DEF Next, Work, Fault, Console, vars, dbVars, Second, Pop, ReadCandidates, TryCandidate,
         FailUnstarted, FailStarted, FailHeld, SkipMissing, Start, Succeed, ReleaseHeld,
         PushNext, StopChain, ThrowInTry, ThrowOutOfLoop, Crash, Restart, Dispatch,
         RetryRead, RetryWrite, Forget, Flush, Clear

\* At the start nothing was started.
LEMMA CountedInit == Init => Counted
  BY DEF Init, DbInit, Counted, StartsCounted, Owning

\* A step that starts nothing and leaves, of the rows and the jobs in hand, some
\* as they were.
LEMMA CountsKept ==
    ASSUME Typed, StartsCounted, UNCHANGED <<starts, nextId>>,
           \A i \in Ids : jobs'[i] # None => jobs'[i] = jobs[i],
           \A w \in Workers : phase'[w] # "popping",
           \A w \in Workers : Owning(w)' =>
               Owning(w) /\ held'[w] = held[w] /\ (phase[w] = "reserved" \/ phase'[w] # "reserved")
               /\ (phase[w] = "reserved" => phase'[w] = "reserved")
    PROVE  StartsCounted'
  <1>1. \A w \in Workers : Owning(w)' => held[w].id \in Ids /\ Begun(w)' = Begun(w)
    BY NoneAssumption DEF Typed, TypeOK, MemoryOK, QueuedJob, Begun
  <1>2. QED
    BY <1>1 DEF StartsCounted

\* A new row has never been started.
LEMMA CountsPushed ==
    ASSUME Typed, StartsCounted, UNCHANGED starts, NEW job, NEW chain, NEW delay,
           Push(job, chain, delay),
           \A w \in Workers : phase'[w] # "popping",
           \A w \in Workers : Owning(w)' =>
               Owning(w) /\ held'[w] = held[w] /\ phase'[w] = phase[w]
    PROVE  StartsCounted'
  <1>1. nextId \in Ids /\ nextId' = nextId + 1 /\ starts[nextId] = 0
    BY DEF Push, Ids, Typed, TypeOK, StartsCounted
  <1>2. /\ jobs'[nextId].attempts = 0 /\ jobs'[nextId].reservedAt = NotReserved
        /\ \A i \in Ids : i # nextId => jobs'[i] = jobs[i]
    BY <1>1 DEF Push, NewRow, Typed, TypeOK
  <1>3. \A w \in Workers : Owning(w)' =>
            /\ held[w].id \in Ids /\ held[w].id # nextId /\ Begun(w)' = Begun(w)
    BY <1>1, NoneAssumption DEF Typed, TypeOK, MemoryOK, IdsOK, QueuedJob, Begun, Ids
  <1>4. \A w \in Workers : Owning(w)' =>
            /\ starts'[held'[w].id] <= held'[w].attempts + Begun(w)'
            /\ jobs'[held'[w].id] # None => jobs'[held'[w].id].attempts = held'[w].attempts
    BY <1>2, <1>3 DEF StartsCounted
  <1>5. \A i \in Ids : jobs'[i] # None => starts'[i] <= jobs'[i].attempts + Taken(jobs'[i])
    BY <1>1, <1>2 DEF StartsCounted, Taken
  <1>6. \A i \in Ids : i >= nextId' => starts'[i] = 0
    BY <1>1 DEF StartsCounted, Ids
  <1>7. QED
    BY <1>4, <1>5, <1>6 DEF StartsCounted

\* No step starts what is not counted.
LEMMA CountedStep ==
    ASSUME Prompt, RetryAfter > 0, Typed, Typed', Owned, Counted, [Next]_vars
    PROVE  Counted'
  <1> SUFFICES ASSUME dialect # "sqlite", StartsCounted PROVE StartsCounted'
    BY DialectStays DEF Counted
  <1> USE NoneAssumption DEF dbVars, workerVars, spent, historyVars
  <1>a. \A w \in Workers : Owning(w) => held[w] \in QueuedJob /\ held[w].id \in Ids
    BY DEF Typed, TypeOK, MemoryOK, QueuedJob
  <1>1. ASSUME NEW w \in Workers, Pop(w) PROVE StartsCounted'
    <2>1. PICK row \in Eligible : PopBySkipLocked(row) /\ Take(w, Queued(row))
      BY <1>1 DEF Pop
    <2>2. /\ row \in JobRow /\ jobs[row.id] = row /\ row.id \in Ids /\ row # None
          /\ row.reservedAt = NotReserved \/ row.reservedAt <= now - RetryAfter
      BY EligibleRows DEF JobRow, Typed
    <2>3. \A v \in Workers : Owning(v) => held[v].id # row.id
      BY <2>2, FreeRowUnowned DEF Owned
    <2>4. /\ starts[row.id] <= AttemptsOn(row) /\ AttemptsOn(row) \in Nat
          /\ starts[row.id] \in Nat
      <3>1. /\ row.attempts \in Nat /\ starts[row.id] \in Nat
            /\ starts[row.id] <= row.attempts + Taken(row)
        BY <2>2 DEF StartsCounted, JobRow, Typed, TypeOK
      <3>2. QED
        BY <3>1 DEF AttemptsOn, Taken
    <2>5. /\ jobs'[row.id].attempts = AttemptsOn(row) /\ jobs'[row.id].reservedAt = now
          /\ \A i \in Ids : i # row.id => jobs'[i] = jobs[i]
      <3>1. jobs'[row.id] = [row EXCEPT !.reservedAt = now, !.attempts = AttemptsOn(row)]
        BY <2>1, <2>2 DEF PopBySkipLocked, Typed, TypeOK
      <3>2. QED
        BY <2>1, <2>2, <3>1 DEF PopBySkipLocked, JobRow, Typed, TypeOK
    <2>6. /\ held'[w] = Queued(row) /\ phase'[w] = "reserved"
          /\ \A v \in Workers : v # w => held'[v] = held[v] /\ phase'[v] = phase[v]
          /\ UNCHANGED <<starts, nextId>>
      BY <1>1, <2>1 DEF Pop, Take, Typed, TypeOK
    <2>7. /\ Queued(row).id = row.id /\ Queued(row).attempts = AttemptsOn(row)
      BY DEF Queued
    <2>8. Begun(w)' = 0
      BY <2>6 DEF Begun
    <2>9. \A v \in Workers : Owning(v)' =>
              /\ starts'[held'[v].id] <= held'[v].attempts + Begun(v)'
              /\ jobs'[held'[v].id] # None => jobs'[held'[v].id].attempts = held'[v].attempts
      <3>1. ASSUME NEW v \in Workers, v # w, Owning(v)'
            PROVE  /\ Owning(v) /\ held'[v] = held[v] /\ Begun(v)' = Begun(v)
                   /\ held[v].id \in Ids /\ held[v].id # row.id
        BY <1>a, <2>3, <2>6, <3>1 DEF Owning, Begun
      <3>2. QED
        BY <2>4, <2>5, <2>6, <2>7, <2>8, <3>1 DEF StartsCounted
    <2>10. \A i \in Ids : jobs'[i] # None => starts'[i] <= jobs'[i].attempts + Taken(jobs'[i])
      <3>1. Taken(jobs'[row.id]) = 0 \/ Taken(jobs'[row.id]) = 1
        BY DEF Taken
      <3>2. QED
        BY <2>4, <2>5, <2>6, <3>1 DEF StartsCounted
    <2>11. QED
      BY <2>6, <2>9, <2>10 DEF StartsCounted
  <1>2. ASSUME NEW w \in Workers, Start(w) PROVE StartsCounted'
    <2>1. /\ Owning(w) /\ phase[w] = "reserved" /\ held[w].attempts < Tries
          /\ held[w].id \in Ids /\ held[w].attempts \in Nat
      BY <1>2, <1>a DEF Start, Owning, QueuedJob
    <2>2. /\ phase'[w] = "running"
          /\ \A v \in Workers : v # w => phase'[v] = phase[v]
          /\ UNCHANGED <<jobs, held, nextId>>
          /\ starts'[held[w].id] = starts[held[w].id] + 1
          /\ \A i \in Ids : i # held[w].id => starts'[i] = starts[i]
      BY <1>2, <2>1 DEF Start, Typed, TypeOK
    <2>3. starts[held[w].id] <= held[w].attempts /\ starts[held[w].id] \in Nat
      BY <2>1 DEF StartsCounted, Begun, Typed, TypeOK
    <2>4. held[w].id < nextId /\ nextId \in Nat
      BY <2>1 DEF Typed, TypeOK, MemoryOK, IdsOK
    <2>5. \A v \in Workers : Owning(v)' =>
              /\ starts'[held'[v].id] <= held'[v].attempts + Begun(v)'
              /\ jobs'[held'[v].id] # None => jobs'[held'[v].id].attempts = held'[v].attempts
      <3>1. ASSUME NEW v \in Workers, v # w, Owning(v)'
            PROVE  /\ Owning(v) /\ Begun(v)' = Begun(v)
                   /\ held[v].id \in Ids /\ held[v].id # held[w].id
        BY <1>a, <2>1, <2>2, <3>1 DEF Owning, Begun, Owned, OwnersDiffer
      <3>2. Begun(w)' = 1
        BY <2>2 DEF Begun
      <3>3. QED
        BY <2>1, <2>2, <2>3, <3>1, <3>2 DEF StartsCounted
    <2>6. \A i \in Ids : jobs'[i] # None => starts'[i] <= jobs'[i].attempts + Taken(jobs'[i])
      <3>1. jobs[held[w].id] # None =>
                /\ jobs[held[w].id].attempts = held[w].attempts
                /\ Taken(jobs[held[w].id]) = 1
        BY <2>1 DEF StartsCounted, Owned, ReservedOK, Taken
      <3>2. ASSUME jobs[held[w].id] # None
            PROVE  starts'[held[w].id] <= jobs[held[w].id].attempts + Taken(jobs[held[w].id])
        BY <2>1, <2>2, <2>3, <3>1, <3>2
      <3>3. QED
        BY <2>2, <3>2 DEF StartsCounted
    <2>7. \A i \in Ids : starts'[i] <= Tries
      BY <2>1, <2>2, <2>3 DEF StartsCounted
    <2>8. \A i \in Ids : i >= nextId' => starts'[i] = 0
      BY <2>2, <2>4 DEF StartsCounted, Ids
    <2>9. QED
      BY <2>2, <2>5, <2>6, <2>7, <2>8 DEF StartsCounted
  <1>3. ASSUME NEW w \in Workers, NEW delay \in Delays, ReleaseHeld(w, delay)
        PROVE  StartsCounted'
    <2>1. /\ Owning(w) /\ phase[w] # "reserved" /\ held[w].id \in Ids /\ held[w].attempts \in Nat
      BY <1>3, <1>a DEF ReleaseHeld, Owning, QueuedJob
    <2>2. /\ phase'[w] = "idle"
          /\ \A v \in Workers : v # w => held'[v] = held[v] /\ phase'[v] = phase[v]
          /\ UNCHANGED <<starts, nextId>>
      BY <1>3 DEF ReleaseHeld, Done, Typed, TypeOK
    <2>3. CASE jobs[held[w].id] = None
      BY <1>3, <2>2, <2>3, CountsKept
      DEF ReleaseHeld, ReleaseRow, Owning, StartsCounted
    <2>4. CASE jobs[held[w].id] # None
      <3>1. /\ jobs'[held[w].id].attempts = held[w].attempts + 1
            /\ jobs'[held[w].id].reservedAt = NotReserved
            /\ \A i \in Ids : i # held[w].id => jobs'[i] = jobs[i]
        <4>1. jobs[held[w].id] \in JobRow
          BY <2>1, <2>4 DEF Typed, TypeOK
        <4>2. jobs'[held[w].id] = [jobs[held[w].id] EXCEPT !.attempts = held[w].attempts + 1,
                                                           !.availableAt = Later(delay),
                                                           !.reservedAt = NotReserved]
          BY <1>3, <2>1, <2>4 DEF ReleaseHeld, ReleaseRow, Typed, TypeOK
        <4>3. QED
          BY <1>3, <2>1, <2>4, <4>1, <4>2 DEF ReleaseHeld, ReleaseRow, JobRow, Typed, TypeOK
      <3>2. starts[held[w].id] <= held[w].attempts + 1
        BY <2>1 DEF StartsCounted, Begun
      <3>3. ASSUME NEW v \in Workers, Owning(v)'
            PROVE  /\ v # w /\ Owning(v) /\ Begun(v)' = Begun(v)
                   /\ held[v].id \in Ids /\ held[v].id # held[w].id
        BY <1>a, <2>1, <2>2, <3>3 DEF Owning, Begun, Owned, OwnersDiffer
      <3>4. \A v \in Workers : Owning(v)' =>
                /\ starts'[held'[v].id] <= held'[v].attempts + Begun(v)'
                /\ jobs'[held'[v].id] # None => jobs'[held'[v].id].attempts = held'[v].attempts
        BY <2>2, <3>1, <3>3 DEF StartsCounted
      <3>5. \A i \in Ids : jobs'[i] # None => starts'[i] <= jobs'[i].attempts + Taken(jobs'[i])
        BY <2>1, <2>2, <3>1, <3>2 DEF StartsCounted, Taken
      <3>6. QED
        BY <2>2, <3>4, <3>5 DEF StartsCounted
    <2>5. QED
      BY <2>3, <2>4
  <1>4. ASSUME NEW w \in Workers,
               \/ FailUnstarted(w) \/ FailStarted(w) \/ SkipMissing(w) \/ Succeed(w)
               \/ StopChain(w) \/ ThrowInTry(w) \/ ThrowOutOfLoop(w) \/ Crash(w) \/ Restart(w)
        PROVE  StartsCounted'
    <2>1. \A i \in Ids : jobs'[i] # None => jobs'[i] = jobs[i]
      BY <1>4 DEF FailUnstarted, FailStarted, FailHeld, FailRow, SkipMissing, Succeed, StopChain,
                  ThrowInTry, ThrowOutOfLoop, Crash, Restart, DeleteRow, Typed, TypeOK
    <2>2. /\ UNCHANGED <<starts, nextId>>
          /\ \A v \in Workers : v # w => held'[v] = held[v] /\ phase'[v] = phase[v]
      BY <1>4 DEF FailUnstarted, FailStarted, FailHeld, SkipMissing, Succeed, StopChain,
                  ThrowInTry, ThrowOutOfLoop, Crash, Restart, Done, Typed, TypeOK
    <2>3. /\ phase'[w] \notin {"popping", "reserved"}
          /\ Owning(w)' => Owning(w) /\ held'[w] = held[w] /\ phase[w] # "reserved"
      BY <1>4 DEF FailUnstarted, FailStarted, FailHeld, SkipMissing, Succeed, StopChain,
                  ThrowInTry, ThrowOutOfLoop, Crash, Restart, Done, Owning, Typed, TypeOK
    <2>4. \A v \in Workers : phase'[v] # "popping"
      BY <2>2, <2>3 DEF StartsCounted
    <2>5. \A v \in Workers : Owning(v)' =>
              Owning(v) /\ held'[v] = held[v] /\ (phase[v] = "reserved" \/ phase'[v] # "reserved")
              /\ (phase[v] = "reserved" => phase'[v] = "reserved")
      BY <2>2, <2>3 DEF Owning
    <2>6. QED
      BY <2>1, <2>2, <2>4, <2>5, CountsKept
  <1>5. ASSUME NEW w \in Workers, PushNext(w) PROVE StartsCounted'
    <2>1. /\ phase'[w] = "idle"
          /\ \A v \in Workers : v # w => held'[v] = held[v] /\ phase'[v] = phase[v]
          /\ UNCHANGED starts /\ Push(Head(held[w].chain), Tail(held[w].chain), 0)
      BY <1>5 DEF PushNext, Done, Typed, TypeOK
    <2>2. \A v \in Workers : phase'[v] # "popping"
      BY <2>1 DEF StartsCounted
    <2>3. \A v \in Workers : Owning(v)' =>
              Owning(v) /\ held'[v] = held[v] /\ phase'[v] = phase[v]
      BY <2>1 DEF Owning
    <2>4. QED
      BY <2>1, <2>2, <2>3, CountsPushed
  <1>6. ASSUME \/ \E j \in Heads, delay \in Delays : Dispatch(j, delay)
               \/ \E o \in Operators : Console(o)
               \/ Second \/ UNCHANGED vars
        PROVE  StartsCounted'
    <2>1. UNCHANGED <<phase, held, starts>>
      BY <1>6 DEF Dispatch, Console, RetryRead, RetryWrite, Forget, Flush, Clear, Second, vars
    <2>2. /\ \A v \in Workers : phase'[v] # "popping"
          /\ \A v \in Workers : Owning(v)' =>
                 Owning(v) /\ held'[v] = held[v] /\ phase'[v] = phase[v]
      BY <2>1 DEF Owning, StartsCounted
    <2>3. \/ \E job, chain, delay : Push(job, chain, delay)
          \/ nextId' = nextId /\ \A i \in Ids : jobs'[i] # None => jobs'[i] = jobs[i]
      BY <1>6 DEF Dispatch, Console, RetryRead, RetryWrite, RetryRow, Forget, Flush, Clear,
                  ClearRows, Second, vars, Typed, TypeOK
    <2>4. QED
      BY <2>1, <2>2, <2>3, CountsKept, CountsPushed
  <1>7. ASSUME NEW w \in Workers, ReadCandidates(w) \/ TryCandidate(w) PROVE FALSE
    BY <1>7 DEF ReadCandidates, TryCandidate, StartsCounted
  <1>8. QED
    BY <1>1, <1>2, <1>3, <1>4, <1>5, <1>6, <1>7 DEF Next, Work, Fault

\* On an engine with row locks, crashes, reclaims and releases do not let a
\* handler start more than Tries times for one row, when jobs end within their
\* visibility timeout (queue-work.ts, the check before the run; pop()).
THEOREM StartsBounded ==
    ASSUME Prompt, RetryAfter > 0
    PROVE  Spec => []RunsBounded
  <1>1. Typed /\ Owned /\ Counted /\ [Next]_vars => Typed' /\ Owned' /\ Counted'
    BY TypedStep, OwnedStep, CountedStep
  <1>2. Counted => RunsBounded
    BY DEF Counted, StartsCounted, RunsBounded
  <1>3. QED
    BY <1>1, <1>2, TypedInit, OwnedInit, CountedInit, PTL DEF Spec

-----------------------------------------------------------------------------
(* A job waits in one place *)

\* An id whose job is yet to be run, being run, or about to hand its chain on.
Live(i) == jobs[i] # None \/ \E w \in Workers : Owning(w) /\ held[w].id = i

InPlay(i) == Live(i) \/ failed[i] # None

\* No id is both live and failed, and no two ids in play share a job.
OnePlace(content) ==
    /\ \A i \in Ids : ~(Live(i) /\ failed[i] # None)
    /\ \A i, k \in Ids :
           InPlay(i) /\ InPlay(k) /\ i # k => JobsOf(content[i]) \cap JobsOf(content[k]) = {}

\* Two queue:retry of one failed job never overlap, or SQLite aborts the second:
\* on the other engines, at their default isolation, both would push it.
SerialRetries == (\A o, p \in Operators : o = p) \/ Dialects = {"sqlite"}

\* What queue:retry has read is still there, or SQLite will notice.
ReadHolds ==
    dialect = "sqlite" \/ \A o \in Operators :
        reading[o] # None => failed[reading[o].id] = reading[o].row

\* The inductive invariant behind AtMostOneCopy, with one content per id.
Placed == ReadHolds /\ \E content \in Meanings : Agree(content) /\ OnePlace(content)

\* An id in play stands for one content only.
LEMMA MeaningIsUnique ==
    ASSUME NEW content, NEW other, Agree(content), Agree(other), Typed, NEW i \in Ids, InPlay(i)
    PROVE  content[i] = other[i]
  BY DEF Agree, RowsAgree, FailuresAgree, HandsAgree, InPlay, Live, Typed, MemoryOK

\* So OnePlace does not depend on which meaning is taken.
LEMMA OnePlaceOfAny ==
    ASSUME Typed, Placed, NEW content, Agree(content)
    PROVE  OnePlace(content)
  BY MeaningIsUnique DEF Placed, OnePlace

\* A job in hand is live, its row and its id are of one job.
LEMMA HandIsLive ==
    ASSUME Typed, NEW content, Agree(content), NEW w \in Workers, Owning(w)
    PROVE  /\ held[w] # None /\ held[w] \in QueuedJob /\ held[w].id \in Ids
           /\ held[w].id < nextId /\ Live(held[w].id)
           /\ JobsOf(held[w]) = JobsOf(content[held[w].id])
           /\ held[w].job \in JobsOf(held[w]) /\ SetOf(held[w].chain) \subseteq JobsOf(held[w])
  <1>1. held[w] # None /\ held[w] \in QueuedJob /\ held[w].id \in Ids /\ held[w].id < nextId
    BY DEF Typed, TypeOK, MemoryOK, IdsOK, QueuedJob
  <1>2. JobsOf(held[w]) = JobsOf(content[held[w].id])
    BY <1>1, AgreeJobs
  <1>3. QED
    BY <1>1, <1>2 DEF Live, JobsOf

\* Ids in play were handed out.
LEMMA InPlayHandedOut ==
    ASSUME Typed, Apart, NEW i \in Ids, InPlay(i)
    PROVE  i < nextId
  BY DEF InPlay, Live, Typed, IdsOK, Apart, MemoryOK

\* At the start nothing is in play.
LEMMA PlacedInit == Init => Placed
  <1> SUFFICES ASSUME Init PROVE Placed
    OBVIOUS
  <1>1. PICK content \in Meanings : Agree(content)
    BY OneContentInit DEF OneContent
  <1>2. OnePlace(content)
    BY DEF Init, DbInit, OnePlace, InPlay, Live, Owning
  <1>3. ReadHolds
    BY DEF Init, ReadHolds
  <1>4. QED
    BY <1>1, <1>2, <1>3 DEF Placed

\* A step after which fewer ids are in play.
LEMMA FewerInPlay ==
    ASSUME NEW content, OnePlace(content),
           \A i \in Ids : Live(i)' => Live(i),
           \A i \in Ids : failed'[i] # None => failed[i] # None
    PROVE  OnePlace(content)'
  BY DEF OnePlace, InPlay

\* A step by which a live id fails.
LEMMA LiveIdFails ==
    ASSUME NEW content, OnePlace(content), NEW k \in Ids, Live(k),
           \A i \in Ids : Live(i)' => Live(i) /\ i # k,
           \A i \in Ids : failed'[i] # None => failed[i] # None \/ i = k
    PROVE  OnePlace(content)'
  BY DEF OnePlace, InPlay

\* A step that brings a fresh id.
LEMMA FreshInPlay ==
    ASSUME NEW content, OnePlace(content), Typed, Apart,
           \A i \in Ids : Live(i)' => Live(i) \/ i = nextId,
           \A i \in Ids : failed'[i] # None => failed[i] # None,
           \A i \in Ids : InPlay(i)' /\ i # nextId =>
               JobsOf(content[i]) \cap JobsOf(content[nextId]) = {}
    PROVE  OnePlace(content)'
  <1>1. \A i \in Ids : InPlay(i)' => InPlay(i) \/ i = nextId
    BY DEF InPlay
  <1>2. \A i \in Ids : i = nextId => failed[i] = None
    BY DEF Apart, Typed, TypeOK
  <1>3. \A i \in Ids : ~(Live(i)' /\ failed'[i] # None)
    BY <1>2 DEF OnePlace
  <1>4. ASSUME NEW i \in Ids, NEW k \in Ids, InPlay(i)', InPlay(k)', i # k
        PROVE  JobsOf(content[i]) \cap JobsOf(content[k]) = {}
    BY <1>1, <1>4 DEF OnePlace
  <1>5. QED
    BY <1>3, <1>4 DEF OnePlace

-----------------------------------------------------------------------------
(* What a step does to the live ids *)

\* A worker that lets go of its job leaves live what is still in the table.
LEMMA LettingGo ==
    ASSUME Typed, Owned, NEW w \in Workers, Owning(w), ~Owning(w)',
           \A v \in Workers : v # w => held'[v] = held[v] /\ phase'[v] = phase[v],
           \A i \in Ids : i # held[w].id => (jobs'[i] # None <=> jobs[i] # None)
    PROVE  \A i \in Ids :
               Live(i)' <=> IF i = held[w].id THEN jobs'[i] # None ELSE Live(i)
  <1>1. \A v \in Workers : v # w => (Owning(v)' <=> Owning(v))
    BY DEF Owning
  <1>2. \A v \in Workers : v # w /\ Owning(v) => held[v].id # held[w].id
    BY DEF Owned, OwnersDiffer
  <1>3. QED
    BY <1>1, <1>2 DEF Live

\* A worker that keeps its job keeps it live.
LEMMA HoldingOn ==
    ASSUME NEW w \in Workers, Owning(w), Owning(w)', held'[w] = held[w],
           \A v \in Workers : v # w => held'[v] = held[v] /\ phase'[v] = phase[v],
           \A i \in Ids : i # held[w].id => (jobs'[i] # None <=> jobs[i] # None)
    PROVE  \A i \in Ids : Live(i)' <=> Live(i)
  <1>1. \A v \in Workers : held'[v] = held[v] /\ (Owning(v)' <=> Owning(v))
    BY DEF Owning
  <1>2. QED
    BY <1>1 DEF Live

\* pop() makes nothing live that was not, and nothing else here concerns the tables.
QuietStep ==
    \/ \E w \in Workers : \/ Pop(w) \/ ReadCandidates(w) \/ TryCandidate(w)
                          \/ Start(w) \/ Restart(w)
    \/ \E o \in Operators, i \in Ids : RetryRead(o, i)
    \/ Second \/ UNCHANGED vars

LEMMA QuietIsQuiet ==
    ASSUME Typed, Typed', QuietStep
    PROVE  /\ \A i \in Ids : Live(i)' <=> Live(i)
           /\ UNCHANGED <<failed, nextId, dispatched, done, dropped, lost>>
  <1> USE NoneAssumption DEF dbVars, workerVars, spent, historyVars
  <1>1. ASSUME NEW w \in Workers, ~Owning(w), NEW row \in JobRow, row.id \in Ids,
               jobs[row.id] # None, Take(w, Queued(row)),
               \A i \in Ids : jobs[i] # None <=> jobs'[i] # None
        PROVE  \A i \in Ids : Live(i)' <=> Live(i)
    <2>1. /\ held'[w].id = row.id
          /\ \A v \in Workers : v # w => held'[v] = held[v] /\ (Owning(v)' <=> Owning(v))
      BY <1>1 DEF Take, Queued, Owning, Typed, TypeOK
    <2>2. QED
      BY <1>1, <2>1 DEF Live
  <1>2. CASE \E w \in Workers : Pop(w)
    <2>1. PICK w \in Workers : Pop(w)
      BY <1>2
    <2>2. PICK row \in Eligible : PopBySkipLocked(row) /\ Take(w, Queued(row))
      BY <2>1 DEF Pop
    <2>3. row \in JobRow /\ jobs[row.id] = row /\ row.id \in Ids /\ row # None
      BY EligibleRows DEF JobRow, Typed
    <2>4. AttemptsOn(row) \in Nat /\ now \in Time
      BY <2>3 DEF JobRow, AttemptsOn, Typed, TypeOK
    <2>5. \A i \in Ids : jobs[i] # None <=> jobs'[i] # None
      BY <2>2, <2>3, <2>4, ReservedRowKept DEF PopBySkipLocked
    <2>6. ~Owning(w)
      BY <2>1 DEF Pop, Owning
    <2>7. QED
      BY <1>1, <2>1, <2>2, <2>3, <2>5, <2>6 DEF Pop
  <1>3. CASE \E w \in Workers : TryCandidate(w)
    <2>1. PICK w \in Workers : TryCandidate(w)
      BY <1>3
    <2>2. PICK row \in cands[w] :
            \/ ReserveCandidate(row) /\ Take(w, Queued(row))
            \/ /\ phase' = [phase EXCEPT ![w] =
                                IF cands[w] = {row} THEN "idle" ELSE "popping"]
               /\ UNCHANGED <<jobs, held>>
      BY <2>1 DEF TryCandidate
    <2>3. row \in JobRow /\ row.id \in Ids /\ now \in Time
      BY DEF Typed, TypeOK, JobRow
    <2>4. ~Owning(w) /\ UNCHANGED <<failed, nextId, dispatched, done, dropped, lost>>
      BY <2>1 DEF TryCandidate, Owning
    <2>5. CASE ReserveCandidate(row) /\ Take(w, Queued(row))
      <3>1. jobs[row.id] # None
        BY <2>5 DEF ReserveCandidate, StillAsRead
      <3>2. AttemptsAfter(row) \in Nat
        BY <2>3, <3>1 DEF AttemptsAfter, JobRow, Typed, TypeOK
      <3>3. jobs' = [jobs EXCEPT ![row.id] =
                         [@ EXCEPT !.reservedAt = now, !.attempts = AttemptsAfter(row)]]
        BY <2>5 DEF ReserveCandidate
      <3>4. \A i \in Ids : jobs[i] # None <=> jobs'[i] # None
        BY <2>3, <3>1, <3>2, <3>3, ReservedRowKept
      <3>5. QED
        BY <1>1, <2>3, <2>4, <2>5, <3>1, <3>4
    <2>6. CASE /\ phase' = [phase EXCEPT ![w] =
                                IF cands[w] = {row} THEN "idle" ELSE "popping"]
               /\ UNCHANGED <<jobs, held>>
      <3>1. \A v \in Workers : Owning(v)' <=> Owning(v)
        BY <2>4, <2>6 DEF Owning, Typed, TypeOK
      <3>2. QED
        BY <2>4, <2>6, <3>1 DEF Live
    <2>7. QED
      BY <2>2, <2>5, <2>6
  <1>4. CASE \E w \in Workers : ReadCandidates(w) \/ Start(w) \/ Restart(w)
    <2>1. /\ UNCHANGED <<jobs, held, failed, nextId, dispatched, done, dropped, lost>>
          /\ \A v \in Workers : Owning(v)' <=> Owning(v)
      BY <1>4 DEF ReadCandidates, Start, Restart, Owning, Typed, TypeOK
    <2>2. QED
      BY <2>1 DEF Live
  <1>5. CASE (\E o \in Operators, i \in Ids : RetryRead(o, i)) \/ Second \/ UNCHANGED vars
    BY <1>5 DEF RetryRead, Second, vars, Live, Owning
  <1>6. QED
    BY <1>2, <1>3, <1>4, <1>5 DEF QuietStep

\* fail() moves a live id to failed_jobs: no two ids in play are one, so its
\* INSERT succeeds.
LEMMA FailMoves ==
    ASSUME Typed, Owned, NEW content \in Meanings, Agree(content), OnePlace(content),
           NEW w \in Workers, FailUnstarted(w) \/ FailStarted(w)
    PROVE  /\ Owning(w)
           /\ \A i \in Ids : Live(i)' <=> Live(i) /\ i # held[w].id
           /\ \A i \in Ids : failed'[i] # None <=> failed[i] # None \/ i = held[w].id
           /\ UNCHANGED <<nextId, dispatched, reading, done, dropped, lost>>
           /\ \A i \in Ids : i # held[w].id => failed'[i] = failed[i]
           /\ ~Owning(w)'
           /\ \A v \in Workers : v # w => held'[v] = held[v] /\ phase'[v] = phase[v]
           /\ \A i \in Ids : jobs'[i] = jobs[i] \/ i = held[w].id
  <1>1. Owning(w) /\ FailHeld(w)
    BY DEF FailUnstarted, FailStarted, Owning
  <1>2. held[w] \in QueuedJob /\ held[w].id \in Ids /\ Live(held[w].id)
    BY <1>1, HandIsLive
  <1>3. ~FailConflicts(held[w])
    BY <1>2 DEF FailConflicts, OnePlace
  <1>4. FailRow(held[w]) /\ Done(w)
    BY <1>1, <1>3 DEF FailHeld
  <1>5. /\ ~Owning(w)' /\ jobs'[held[w].id] = None
        /\ \A v \in Workers : v # w => held'[v] = held[v] /\ phase'[v] = phase[v]
        /\ \A i \in Ids : i # held[w].id => jobs'[i] = jobs[i]
    BY <1>2, <1>4 DEF Done, FailRow, DeleteRow, Owning, Typed, TypeOK
  <1>6. [job |-> held[w].job, chain |-> held[w].chain] \in FailedRow
    BY <1>2 DEF QueuedJob, FailedRow
  <1>7. /\ failed'[held[w].id] # None
        /\ \A i \in Ids : i # held[w].id => failed'[i] = failed[i]
    BY <1>2, <1>4, <1>6, NoneAssumption DEF FailRow, Typed, TypeOK
  <1>8. \A i \in Ids : Live(i)' <=> Live(i) /\ i # held[w].id
    BY <1>1, <1>5, LettingGo
  <1>9. UNCHANGED <<nextId, dispatched, reading, done, dropped, lost>>
    BY <1>1 DEF FailHeld, historyVars
  <1>10. QED
    BY <1>1, <1>5, <1>7, <1>8, <1>9

\* A job skipped, a job done, a chain that stops: the id is not live any more.
LEMMA EndsOne ==
    ASSUME Typed, Owned, NEW w \in Workers,
           SkipMissing(w) \/ StopChain(w) \/ (Succeed(w) /\ held[w].chain = <<>>)
    PROVE  /\ Owning(w) /\ ~Owning(w)'
           /\ \A i \in Ids : Live(i)' <=> Live(i) /\ i # held[w].id
           /\ \A v \in Workers : v # w => held'[v] = held[v] /\ phase'[v] = phase[v]
           /\ \A i \in Ids : jobs'[i] = jobs[i] \/ i = held[w].id
  <1>1. /\ Owning(w) /\ ~Owning(w)'
        /\ \A v \in Workers : v # w => held'[v] = held[v] /\ phase'[v] = phase[v]
    BY DEF SkipMissing, StopChain, Succeed, Done, Owning, Typed, TypeOK
  <1>2. held[w].id \in Ids
    BY <1>1, NoneAssumption DEF Typed, TypeOK, MemoryOK, QueuedJob
  <1>3. jobs'[held[w].id] = None
    <2>1. CASE SkipMissing(w) \/ Succeed(w)
      BY <1>2, <2>1 DEF SkipMissing, Succeed, DeleteRow, Typed, TypeOK
    <2>2. CASE StopChain(w)
      BY <1>1, <2>2 DEF StopChain, dbVars, Owned, ReservedOK
    <2>3. QED
      BY <2>1, <2>2
  <1>4. \A i \in Ids : i # held[w].id => jobs'[i] = jobs[i]
    BY DEF SkipMissing, StopChain, Succeed, DeleteRow, dbVars, Typed, TypeOK
  <1>5. \A i \in Ids : Live(i)' <=> Live(i) /\ i # held[w].id
    BY <1>1, <1>3, <1>4, LettingGo
  <1>6. QED
    BY <1>1, <1>4, <1>5

\* A success with a chain behind it, or an error in the try: the job stays in hand.
LEMMA KeepsOne ==
    ASSUME Typed, NEW w \in Workers, ThrowInTry(w) \/ (Succeed(w) /\ held[w].chain # <<>>)
    PROVE  /\ Owning(w) /\ Owning(w)' /\ held' = held
           /\ \A i \in Ids : Live(i)' <=> Live(i)
           /\ \A v \in Workers : v # w => phase'[v] = phase[v]
           /\ \A i \in Ids : jobs'[i] = jobs[i] \/ i = held[w].id
  <1>1. /\ Owning(w) /\ Owning(w)' /\ held' = held
        /\ \A v \in Workers : v # w => phase'[v] = phase[v]
    BY DEF ThrowInTry, Succeed, Owning, Typed, TypeOK
  <1>2. \A i \in Ids : i # held[w].id => jobs'[i] = jobs[i]
    BY DEF ThrowInTry, Succeed, DeleteRow, dbVars, Typed, TypeOK
  <1>3. QED
    BY <1>1, <1>2, HoldingOn

\* A release keeps every row.
LEMMA ReleaseKeepsRows ==
    ASSUME Typed, NEW w \in Workers, Owning(w), NEW delay \in Delays, ReleaseHeld(w, delay)
    PROVE  \A i \in Ids : jobs'[i] # None <=> jobs[i] # None
  <1>1. held[w] \in QueuedJob /\ held[w].id \in Ids
    BY NoneAssumption DEF Typed, TypeOK, MemoryOK, QueuedJob
  <1>2. CASE jobs[held[w].id] = None
    BY <1>2 DEF ReleaseHeld, ReleaseRow
  <1>3. CASE jobs[held[w].id] # None
    <2>1. held[w].attempts + 1 \in Nat /\ delay \in Nat
      BY <1>1 DEF QueuedJob
    <2>2. Later(delay) \in Time
      BY <2>1, LaterInTime DEF Typed, TypeOK
    <2>3. QED
      BY <1>1, <1>3, <2>1, <2>2, RowKept, RowContent DEF ReleaseHeld, ReleaseRow
  <1>4. QED
    BY <1>2, <1>3

\* A release, an error out of the loop, a kill: the id is live if its row is there.
LEMMA LeavesOne ==
    ASSUME Typed, Owned, NEW w \in Workers, Owning(w),
           (\E delay \in Delays : ReleaseHeld(w, delay)) \/ ThrowOutOfLoop(w) \/ Crash(w)
    PROVE  /\ ~Owning(w)'
           /\ \A i \in Ids :
                  Live(i)' <=> Live(i) /\ ~(i = held[w].id /\ jobs[held[w].id] = None)
           /\ \A v \in Workers : v # w => held'[v] = held[v] /\ phase'[v] = phase[v]
           /\ \A i \in Ids : jobs'[i] # None <=> jobs[i] # None
  <1>1. /\ ~Owning(w)'
        /\ \A v \in Workers : v # w => held'[v] = held[v] /\ phase'[v] = phase[v]
    BY DEF ReleaseHeld, ThrowOutOfLoop, Crash, Done, Owning, Typed, TypeOK
  <1>2. held[w] \in QueuedJob /\ held[w].id \in Ids
    BY NoneAssumption DEF Typed, TypeOK, MemoryOK, QueuedJob
  <1>3. \A i \in Ids : jobs'[i] # None <=> jobs[i] # None
    BY ReleaseKeepsRows DEF ThrowOutOfLoop, Crash, dbVars
  <1>4. QED
    BY <1>1, <1>2, <1>3, LettingGo DEF Live

\* Pushing the next link: the fresh id takes the place of the one in hand.
LEMMA LinkTakesOver ==
    ASSUME Typed, Owned, NEW content, Agree(content), RowsAgree(content)',
           NEW w \in Workers, PushNext(w)
    PROVE  /\ Owning(w) /\ ~Owning(w)' /\ nextId \in Ids /\ nextId' = nextId + 1
           /\ \A i \in Ids : Live(i)' <=> (Live(i) /\ i # held[w].id) \/ i = nextId
           /\ JobsOf(content[nextId]) = SetOf(held[w].chain)
           /\ \A v \in Workers : v # w => held'[v] = held[v] /\ phase'[v] = phase[v]
           /\ \A i \in Ids : i # nextId => jobs'[i] = jobs[i]
  <1>1. /\ Owning(w) /\ ~Owning(w)'
        /\ \A v \in Workers : v # w => held'[v] = held[v] /\ phase'[v] = phase[v]
    BY DEF PushNext, Done, Owning, Typed, TypeOK
  <1>2. /\ held[w] \in QueuedJob /\ held[w].id \in Ids /\ held[w].id < nextId
        /\ held[w].chain \in Seq(Jobs) /\ held[w].chain # <<>> /\ jobs[held[w].id] = None
    BY <1>1, HandIsLive DEF PushNext, QueuedJob, Typed, MemoryOK, Owned, ReservedOK
  <1>3. /\ Head(held[w].chain) \in Jobs /\ Tail(held[w].chain) \in Seq(Jobs)
        /\ SetOf(held[w].chain) = {Head(held[w].chain)} \cup SetOf(Tail(held[w].chain))
    BY <1>2, ChainSplits
  <1>4. Push(Head(held[w].chain), Tail(held[w].chain), 0) /\ nextId' = nextId + 1
    BY DEF PushNext, Push
  <1>5. /\ nextId \in Ids /\ jobs'[nextId] # None
        /\ JobsOf(content[nextId]) = SetOf(held[w].chain)
        /\ \A i \in Ids : i # nextId => jobs'[i] = jobs[i]
    BY <1>3, <1>4, PushStores
  <1>6. \A v \in Workers : v # w => (Owning(v)' <=> Owning(v))
    BY <1>1 DEF Owning
  <1>7. \A v \in Workers : v # w /\ Owning(v) => held[v].id # held[w].id
    BY <1>1 DEF Owned, OwnersDiffer
  <1>8. held[w].id # nextId
    BY <1>2 DEF Typed, TypeOK
  <1>9. \A i \in Ids : Live(i)' <=> (Live(i) /\ i # held[w].id) \/ i = nextId
    BY <1>1, <1>2, <1>5, <1>6, <1>7, <1>8 DEF Live
  <1>10. QED
    BY <1>1, <1>4, <1>5, <1>9

\* A push by anyone else: the fresh id joins the live ones.
LEMMA PushJoins ==
    ASSUME Typed, NEW job \in Jobs, NEW chain \in Seq(Jobs), NEW delay \in Nat,
           Push(job, chain, delay), NEW content, RowsAgree(content)', UNCHANGED <<phase, held>>
    PROVE  /\ nextId \in Ids /\ nextId' = nextId + 1
           /\ \A i \in Ids : Live(i)' <=> Live(i) \/ i = nextId
           /\ JobsOf(content[nextId]) = {job} \cup SetOf(chain)
           /\ \A i \in Ids : i # nextId => jobs'[i] = jobs[i]
  BY PushStores DEF Push, Live, Owning

\* queue:retry finds the failed row it has read, or SQLite aborts it.
LEMMA RetryMoves ==
    ASSUME Typed, ReadHolds, NEW content, Agree(content), RowsAgree(content)',
           NEW o \in Operators, RetryWrite(o)
    PROVE  \/ /\ UNCHANGED <<jobs, failed, nextId, phase, held>>
              /\ \A i \in Ids : Live(i)' <=> Live(i)
           \/ \E k \in Ids :
                 /\ k = reading[o].id /\ failed[k] # None /\ failed'[k] = None
                 /\ JobsOf(content[nextId]) = JobsOf(content[k])
                 /\ nextId \in Ids /\ nextId' = nextId + 1 /\ UNCHANGED <<phase, held>>
                 /\ \A i \in Ids : Live(i)' <=> Live(i) \/ i = nextId
                 /\ \A i \in Ids : i # k => failed'[i] = failed[i]
                 /\ \A i \in Ids : i # nextId => jobs'[i] = jobs[i]
  <1>1. CASE UNCHANGED <<jobs, failed, nextId>>
    BY <1>1 DEF RetryWrite, workerVars, Live, Owning
  <1>2. CASE /\ ~(dialect = "sqlite" /\ failed[reading[o].id] # reading[o].row)
             /\ RetryRow(reading[o].id, reading[o].row)
    <2>1. /\ reading[o] \in [id : Ids, row : FailedRow] /\ reading[o].id \in Ids
          /\ reading[o].row \in FailedRow /\ reading[o].row.job \in Jobs
          /\ reading[o].row.chain \in Seq(Jobs) /\ reading[o] # None
      BY DEF RetryWrite, Typed, TypeOK, FailedRow
    <2>2. failed[reading[o].id] = reading[o].row
      BY <1>2, <2>1 DEF ReadHolds
    <2>3. failed[reading[o].id] # None
      BY <2>1, <2>2, NoneAssumption
    <2>4. JobsOf(content[reading[o].id]) = {reading[o].row.job} \cup SetOf(reading[o].row.chain)
      <3>1. JobsOf(failed[reading[o].id]) = JobsOf(content[reading[o].id])
        BY <2>1, <2>3, AgreeJobs
      <3>2. QED
        BY <2>2, <3>1 DEF JobsOf
    <2>5. UNCHANGED <<phase, held>>
      BY DEF RetryWrite, workerVars
    <2>6. Push(reading[o].row.job, reading[o].row.chain, 0)
      BY <1>2 DEF RetryRow
    <2>7. /\ nextId \in Ids /\ nextId' = nextId + 1
          /\ \A i \in Ids : Live(i)' <=> Live(i) \/ i = nextId
          /\ JobsOf(content[nextId]) = JobsOf(content[reading[o].id])
          /\ \A i \in Ids : i # nextId => jobs'[i] = jobs[i]
      BY <2>1, <2>4, <2>5, <2>6, PushJoins
    <2>8. failed'[reading[o].id] = None
          /\ \A i \in Ids : i # reading[o].id => failed'[i] = failed[i]
      BY <1>2, <2>1 DEF RetryRow, Typed, TypeOK
    <2>9. QED
      BY <2>1, <2>3, <2>5, <2>7, <2>8
  <1>3. QED
    BY <1>1, <1>2 DEF RetryWrite

\* A job of a dispatch to come is not in play.
LEMMA NewLineIsNew ==
    ASSUME Typed, Apart, NEW content, Agree(content), NEW h \in Heads, h \notin dispatched,
           NEW i \in Ids, InPlay(i)
    PROVE  JobsOf(content[i]) \cap Line(h) = {}
  <1>1. PICK g \in dispatched : JobsOf(content[i]) \subseteq Line(g)
    BY InPlayHandedOut DEF Agree, LinesAgree
  <1>2. g \in Heads /\ g # h
    BY DEF Typed, TypeOK
  <1>3. QED
    BY <1>1, <1>2, LinesAssumption

\* No step puts a job in a second place.
LEMMA PlacedStep ==
    ASSUME Prompt, RetryAfter > 0, SerialRetries, Typed, Typed', Owned, Apart, Apart', Placed,
           NEW content \in Meanings, Agree(content), Agree(content)', [Next]_vars
    PROVE  Placed'
  <1> USE NoneAssumption DEF dbVars, workerVars, spent, historyVars
  <1>0. OnePlace(content) /\ ReadHolds
    BY OnePlaceOfAny DEF Placed
  <1>00. RowsAgree(content)'
    BY DEF Agree
  <1>1. CASE QuietStep
    <2>1. OnePlace(content)'
      BY <1>0, <1>1, QuietIsQuiet, FewerInPlay
    <2>2. ReadHolds'
      <3>1. dialect' = dialect /\ UNCHANGED failed
        BY <1>1, QuietIsQuiet, DialectStays
      <3>2. CASE UNCHANGED reading
        BY <1>0, <3>1, <3>2 DEF ReadHolds
      <3>3. CASE \E o \in Operators, i \in Ids : RetryRead(o, i)
        BY <1>0, <3>1, <3>3 DEF ReadHolds, RetryRead, Typed, TypeOK
      <3>4. QED
        BY <1>1, <3>2, <3>3
        DEF QuietStep, Pop, ReadCandidates, TryCandidate, Start, Restart, Second, vars
    <2>3. QED
      BY <2>1, <2>2 DEF Placed
  <1>2. ASSUME NEW w \in Workers, FailUnstarted(w) \/ FailStarted(w) PROVE Placed'
    <2>1. held[w].id \in Ids /\ Live(held[w].id) /\ failed[held[w].id] = None
      BY <1>0, <1>2, FailMoves, HandIsLive DEF OnePlace
    <2>2. OnePlace(content)'
      BY <1>0, <1>2, <2>1, FailMoves, LiveIdFails
    <2>3. ReadHolds'
      <3>1. dialect' = dialect /\ UNCHANGED reading
            /\ \A i \in Ids : i # held[w].id => failed'[i] = failed[i]
        BY <1>0, <1>2, DialectStays, FailMoves
      <3>2. \A o \in Operators : reading[o] # None =>
                reading[o].id \in Ids /\ reading[o].row # None
        BY DEF Typed, TypeOK
      <3>3. QED
        BY <1>0, <2>1, <3>1, <3>2 DEF ReadHolds
    <2>4. QED
      BY <2>2, <2>3 DEF Placed
  <1>3. ASSUME UNCHANGED <<failed, reading>>, \A i \in Ids : Live(i)' => Live(i)
        PROVE  Placed'
    <2>1. OnePlace(content)'
      BY <1>0, <1>3, FewerInPlay
    <2>2. ReadHolds'
      BY <1>0, <1>3, DialectStays DEF ReadHolds
    <2>3. QED
      BY <2>1, <2>2 DEF Placed
  <1>4. ASSUME NEW w \in Workers,
               \/ SkipMissing(w) \/ Succeed(w) \/ StopChain(w)
               \/ ThrowInTry(w) \/ ThrowOutOfLoop(w) \/ Crash(w)
               \/ \E delay \in Delays : ReleaseHeld(w, delay)
        PROVE  Placed'
    <2>1. UNCHANGED <<failed, reading>>
      BY <1>4 DEF SkipMissing, Succeed, StopChain, ThrowInTry, ThrowOutOfLoop, Crash, ReleaseHeld
    <2>2. CASE Owning(w)
      BY <1>3, <1>4, <2>1, <2>2, EndsOne, KeepsOne, LeavesOne
    <2>3. CASE ~Owning(w)
      <3>1. Crash(w)
        BY <1>4, <2>3 DEF SkipMissing, Succeed, StopChain, ThrowInTry, ThrowOutOfLoop,
                          ReleaseHeld, Holding, Owning
      <3>2. \A i \in Ids : Live(i)' => Live(i)
        BY <3>1 DEF Crash, Live, Owning, Typed, TypeOK
      <3>3. QED
        BY <1>3, <2>1, <3>2
    <2>4. QED
      BY <2>2, <2>3
  <1>5. ASSUME NEW w \in Workers, PushNext(w) PROVE Placed'
    <2>1. /\ Owning(w) /\ nextId \in Ids
          /\ \A i \in Ids : Live(i)' <=> (Live(i) /\ i # held[w].id) \/ i = nextId
          /\ JobsOf(content[nextId]) = SetOf(held[w].chain)
          /\ UNCHANGED <<failed, reading>>
      BY <1>5, <1>00, LinkTakesOver DEF PushNext
    <2>2. /\ held[w].id \in Ids /\ InPlay(held[w].id)
          /\ JobsOf(content[nextId]) \subseteq JobsOf(content[held[w].id])
      BY <2>1, HandIsLive DEF InPlay
    <2>3. failed[held[w].id] = None
      BY <1>0, <2>1, <2>2, HandIsLive DEF OnePlace
    <2>4. \A i \in Ids : InPlay(i)' /\ i # nextId =>
              JobsOf(content[i]) \cap JobsOf(content[nextId]) = {}
      BY <1>0, <2>1, <2>2, <2>3 DEF OnePlace, InPlay
    <2>5. OnePlace(content)'
      BY <1>0, <2>1, <2>4, FreshInPlay
    <2>6. ReadHolds'
      BY <1>0, <2>1, DialectStays DEF ReadHolds
    <2>7. QED
      BY <2>5, <2>6 DEF Placed
  <1>6. ASSUME NEW h \in Heads, NEW delay \in Delays, Dispatch(h, delay) PROVE Placed'
    <2>1. /\ h \in Jobs /\ ChainOf[h] \in Seq(Jobs) /\ delay \in Nat
          /\ h \notin dispatched /\ Push(h, ChainOf[h], delay) /\ UNCHANGED <<phase, held>>
          /\ UNCHANGED <<failed, reading>>
      BY <1>6 DEF Dispatch, Heads
    <2>2. /\ nextId \in Ids /\ JobsOf(content[nextId]) = Line(h)
          /\ \A i \in Ids : Live(i)' <=> Live(i) \/ i = nextId
      BY <1>00, <2>1, PushJoins DEF Line
    <2>3. \A i \in Ids : InPlay(i)' /\ i # nextId =>
              JobsOf(content[i]) \cap JobsOf(content[nextId]) = {}
      BY <2>1, <2>2, NewLineIsNew DEF InPlay
    <2>4. OnePlace(content)'
      BY <1>0, <2>1, <2>2, <2>3, FreshInPlay
    <2>5. ReadHolds'
      BY <1>0, <2>1, DialectStays DEF ReadHolds
    <2>6. QED
      BY <2>4, <2>5 DEF Placed
  <1>7. ASSUME NEW o \in Operators, RetryWrite(o) PROVE Placed'
    <2>1. OnePlace(content)'
      <3>1. CASE /\ UNCHANGED <<jobs, failed, nextId, phase, held>>
                 /\ \A i \in Ids : Live(i)' <=> Live(i)
        BY <1>0, <3>1, FewerInPlay
      <3>2. ASSUME NEW k \in Ids,
                   /\ failed[k] # None /\ failed'[k] = None
                   /\ JobsOf(content[nextId]) = JobsOf(content[k])
                   /\ \A i \in Ids : Live(i)' <=> Live(i) \/ i = nextId
                   /\ \A i \in Ids : i # k => failed'[i] = failed[i]
            PROVE  OnePlace(content)'
        <4>1. \A i \in Ids : failed'[i] # None => failed[i] # None
          BY <3>2
        <4>2. \A i \in Ids : InPlay(i)' /\ i # nextId =>
                  JobsOf(content[i]) \cap JobsOf(content[nextId]) = {}
          BY <1>0, <3>2 DEF OnePlace, InPlay
        <4>3. QED
          BY <1>0, <3>2, <4>1, <4>2, FreshInPlay
      <3>3. QED
        BY <1>0, <1>00, <1>7, <3>1, <3>2, RetryMoves
    <2>2. ReadHolds'
      <3>1. reading'[o] = None /\ \A p \in Operators : p # o => reading'[p] = reading[p]
        BY <1>7 DEF RetryWrite, Typed, TypeOK
      <3>2. dialect' = dialect /\ dialect \in Dialects
        BY <1>7 DEF RetryWrite, Typed, TypeOK
      <3>3. QED
        BY <3>1, <3>2 DEF ReadHolds, SerialRetries
    <2>3. QED
      BY <2>1, <2>2 DEF Placed
  <1>8. ASSUME NEW o \in Operators, (\E i \in Ids : Forget(o, i)) \/ Flush(o) \/ Clear(o)
        PROVE  Placed'
    <2>1. /\ \A i \in Ids : failed'[i] # None => failed[i] # None
          /\ \A i \in Ids : Live(i)' => Live(i)
          /\ reading[o] = None /\ UNCHANGED reading
      BY <1>8 DEF Forget, ForgetRow, Flush, FlushRows, Clear, ClearRows, Live, Owning,
                  Typed, TypeOK
    <2>2. OnePlace(content)'
      BY <1>0, <2>1, FewerInPlay
    <2>3. ReadHolds'
      <3>1. dialect' = dialect /\ dialect \in Dialects
        BY DialectStays DEF Typed, TypeOK
      <3>2. QED
        BY <2>1, <3>1 DEF ReadHolds, SerialRetries
    <2>4. QED
      BY <2>2, <2>3 DEF Placed
  <1>9. QED
    BY <1>1, <1>2, <1>4, <1>5, <1>6, <1>7, <1>8 DEF Next, Work, Fault, Console, QuietStep

\* A set without two different elements has none or one.
LEMMA AtMostOne ==
    ASSUME NEW S, \A x, y \in S : x = y
    PROVE  Cardinality(S) \in {0, 1}
  <1>1. CASE S = {}
    BY <1>1, FS_EmptySet
  <1>2. CASE S # {}
    <2>1. PICK x \in S : TRUE
      BY <1>2
    <2>2. S = {x}
      BY <2>1
    <2>3. QED
      BY <2>2, FS_Singleton
  <1>3. QED
    BY <1>1, <1>2

\* A job of an id in play is in at most one of the three places AtMostOneCopy counts.
LEMMA PlacedOnce ==
    ASSUME Typed, Owned, Placed
    PROVE  AtMostOneCopy
  <1>1. PICK content \in Meanings : Agree(content) /\ OnePlace(content)
    BY DEF Placed
  <1> SUFFICES ASSUME NEW j \in Jobs
               PROVE  Cardinality(RowsOf(j)) + Cardinality(FailuresOf(j))
                          + Cardinality(LinkedBy(j)) <= 1
    BY DEF AtMostOneCopy
  <1>2. /\ \A i \in RowsOf(j) : i \in Ids /\ InPlay(i) /\ j \in JobsOf(content[i])
                               /\ jobs[i] # None /\ failed[i] = None
        /\ \A i \in FailuresOf(j) : i \in Ids /\ InPlay(i) /\ j \in JobsOf(content[i])
                                    /\ failed[i] # None
    BY <1>1, AgreeJobs DEF RowsOf, FailuresOf, InPlay, Live, OnePlace
  <1>3. \A w \in LinkedBy(j) :
            /\ w \in Workers /\ Owning(w) /\ held[w].id \in Ids /\ InPlay(held[w].id)
            /\ j \in JobsOf(content[held[w].id])
            /\ jobs[held[w].id] = None /\ failed[held[w].id] = None
    <2> SUFFICES ASSUME NEW w \in Workers, phase[w] = "chaining", j \in SetOf(held[w].chain)
                 PROVE  /\ Owning(w) /\ held[w].id \in Ids /\ InPlay(held[w].id)
                        /\ j \in JobsOf(content[held[w].id])
                        /\ jobs[held[w].id] = None /\ failed[held[w].id] = None
      BY DEF LinkedBy
    <2>1. Owning(w)
      BY DEF Owning
    <2>2. /\ held[w].id \in Ids /\ Live(held[w].id) /\ j \in JobsOf(content[held[w].id])
      BY <1>1, <2>1, HandIsLive
    <2>3. jobs[held[w].id] = None
      BY <2>1 DEF Owned, ReservedOK
    <2>4. QED
      BY <1>1, <2>1, <2>2, <2>3 DEF OnePlace, InPlay
  <1>4. \A i, k \in Ids : InPlay(i) /\ InPlay(k) /\ j \in JobsOf(content[i])
                          /\ j \in JobsOf(content[k]) => i = k
    BY <1>1 DEF OnePlace
  <1>5. \A v, w \in LinkedBy(j) : v = w
    BY <1>3, <1>4 DEF Owned, OwnersDiffer
  <1>6. /\ Cardinality(RowsOf(j)) \in {0, 1}
        /\ Cardinality(FailuresOf(j)) \in {0, 1}
        /\ Cardinality(LinkedBy(j)) \in {0, 1}
    BY <1>2, <1>4, <1>5, AtMostOne
  <1>7. /\ RowsOf(j) = {} \/ FailuresOf(j) = {}
        /\ RowsOf(j) = {} \/ LinkedBy(j) = {}
        /\ FailuresOf(j) = {} \/ LinkedBy(j) = {}
    BY <1>2, <1>3, <1>4
  <1>8. /\ RowsOf(j) = {} => Cardinality(RowsOf(j)) = 0
        /\ FailuresOf(j) = {} => Cardinality(FailuresOf(j)) = 0
        /\ LinkedBy(j) = {} => Cardinality(LinkedBy(j)) = 0
    BY FS_EmptySet
  <1>9. /\ Cardinality(RowsOf(j)) = 0 \/ Cardinality(FailuresOf(j)) = 0
        /\ Cardinality(RowsOf(j)) = 0 \/ Cardinality(LinkedBy(j)) = 0
        /\ Cardinality(FailuresOf(j)) = 0 \/ Cardinality(LinkedBy(j)) = 0
    BY <1>7, <1>8
  <1>10. QED
    BY <1>6, <1>9

\* No reclaim, release, failure, retry or chain push makes a second copy of a
\* job, when jobs end within their visibility timeout and retries of one failed
\* job do not overlap (database-queue-driver.ts, pop, release, fail and retry).
THEOREM OneCopyOfAJob ==
    ASSUME Prompt, RetryAfter > 0, SerialRetries
    PROVE  Spec => []AtMostOneCopy
  <1> DEFINE Inv == Typed /\ Owned /\ Apart /\ OneContent /\ Placed
  <1>1. Init => Inv
    BY TypedInit, OwnedInit, ApartInit, OneContentInit, PlacedInit
  <1>2. ASSUME Inv, [Next]_vars PROVE Inv'
    <2>1. Typed' /\ Owned' /\ Apart'
      BY <1>2, TypedStep, OwnedStep, ApartStep
    <2>2. PICK content \in Meanings : Agree(content) /\ Agree(content)'
      BY <1>2, <2>1, AgreeStep
    <2>3. Placed'
      BY <1>2, <2>1, <2>2, PlacedStep
    <2>4. QED
      BY <2>1, <2>2, <2>3 DEF OneContent
  <1>3. Inv => AtMostOneCopy
    BY PlacedOnce
  <1>4. QED
    BY <1>1, <1>2, <1>3, PTL DEF Spec

-----------------------------------------------------------------------------
(* The contract: what the history says of the jobs in play *)

\* A worker that has a chain to hand on, or an error after the run, has run its job.
DoneInHand ==
    \A w \in Workers : phase[w] \in {"chaining", "caught"} => held[w].job \in done

\* A row goes from under a worker only when an operator clears the queue.
GoneOnPurpose ==
    \A w \in Workers :
        phase[w] \in {"reserved", "running"} /\ jobs[held[w].id] = None
            => JobsOf(held[w]) \subseteq dropped

\* Nothing has a history before it is dispatched.
HistoryKnown ==
    \A j \in done \cup dropped \cup lost : \E h \in dispatched : j \in Line(h)

\* The jobs of an id are given up together.
OneFate(content) ==
    \A i \in Ids : InPlay(i) =>
        JobsOf(content[i]) \subseteq dropped \/ JobsOf(content[i]) \cap dropped = {}

\* The inductive invariant behind ContractHolds, with Placed.
Settled ==
    /\ DoneInHand /\ GoneOnPurpose /\ HistoryKnown
    /\ \E content \in Meanings : Agree(content) /\ OneFate(content)

\* OneFate does not depend on which meaning is taken.
LEMMA OneFateOfAny ==
    ASSUME Typed, Settled, NEW content, Agree(content)
    PROVE  OneFate(content)
  BY MeaningIsUnique DEF Settled, OneFate

\* At the start there is no history.
LEMMA SettledInit == Init => Settled
  <1> SUFFICES ASSUME Init PROVE Settled
    OBVIOUS
  <1>1. PICK content \in Meanings : Agree(content)
    BY OneContentInit DEF OneContent
  <1>2. OneFate(content)
    BY DEF Init, DbInit, OneFate, InPlay, Live, Owning
  <1>3. DoneInHand /\ GoneOnPurpose /\ HistoryKnown
    BY DEF Init, DoneInHand, GoneOnPurpose, HistoryKnown
  <1>4. QED
    BY <1>1, <1>2, <1>3 DEF Settled

\* What an id in play stands for was dispatched.
LEMMA InPlayDispatched ==
    ASSUME Typed, Apart, NEW content, Agree(content), NEW i \in Ids, InPlay(i),
           NEW j \in JobsOf(content[i])
    PROVE  \E h \in dispatched : j \in Line(h)
  BY InPlayHandedOut DEF Agree, LinesAgree

\* A job that runs ends in the history, and keeps its worker's promise.
LEMMA DoneInHandStep ==
    ASSUME Typed, Typed', DoneInHand, [Next]_vars
    PROVE  DoneInHand'
  <1> USE NoneAssumption DEF dbVars, workerVars, spent, historyVars
  <1>1. done \subseteq done'
    BY DEF Next, Work, Fault, Console, vars, Second, Pop, ReadCandidates, TryCandidate,
           FailUnstarted, FailStarted, FailHeld, SkipMissing, Start, Succeed, ReleaseHeld,
           PushNext, StopChain, ThrowInTry, ThrowOutOfLoop, Crash, Restart, Dispatch,
           RetryRead, RetryWrite, Forget, Flush, Clear
  <1>2. ASSUME NEW w \in Workers, \A v \in Workers : v # w =>
                   held'[v] = held[v] /\ phase'[v] = phase[v],
               phase'[w] \in {"chaining", "caught"} => held'[w].job \in done'
        PROVE  DoneInHand'
    BY <1>1, <1>2 DEF DoneInHand
  <1>3. ASSUME NEW w \in Workers, Succeed(w) \/ ThrowInTry(w) PROVE DoneInHand'
    <2>1. /\ \A v \in Workers : v # w => held'[v] = held[v] /\ phase'[v] = phase[v]
          /\ phase'[w] \in {"chaining", "caught"} => held'[w] = held[w]
          /\ held[w].job \in done'
      BY <1>3 DEF Succeed, ThrowInTry, Done, Typed, TypeOK
    <2>2. QED
      BY <1>2, <2>1
  <1>4. ASSUME NEW w \in Workers,
               \/ Pop(w) \/ ReadCandidates(w) \/ TryCandidate(w) \/ FailUnstarted(w)
               \/ FailStarted(w) \/ SkipMissing(w) \/ Start(w) \/ PushNext(w) \/ StopChain(w)
               \/ ThrowOutOfLoop(w) \/ Crash(w) \/ Restart(w)
               \/ \E delay \in Delays : ReleaseHeld(w, delay)
        PROVE  DoneInHand'
    <2>1. /\ \A v \in Workers : v # w => held'[v] = held[v] /\ phase'[v] = phase[v]
          /\ phase'[w] \notin {"chaining", "caught"}
      BY <1>4 DEF Pop, ReadCandidates, TryCandidate, Take, FailUnstarted, FailStarted, FailHeld,
                  SkipMissing, Start, PushNext, StopChain, ThrowOutOfLoop, Crash, Restart,
                  ReleaseHeld, Done, Typed, TypeOK
    <2>2. QED
      BY <1>2, <2>1
  <1>5. ASSUME \/ \E j \in Heads, delay \in Delays : Dispatch(j, delay)
               \/ \E o \in Operators : Console(o)
               \/ Second \/ UNCHANGED vars
        PROVE  DoneInHand'
    <2>1. UNCHANGED <<phase, held>>
      BY <1>5 DEF Dispatch, Console, RetryRead, RetryWrite, Forget, Flush, Clear, Second, vars
    <2>2. QED
      BY <1>1, <2>1 DEF DoneInHand
  <1>6. QED
    BY <1>3, <1>4, <1>5 DEF Next, Work, Fault

\* A row is deleted by the one worker that holds it, or by queue:clear.
LEMMA GoneOnPurposeStep ==
    ASSUME Typed, Typed', Owned, GoneOnPurpose, OneContent, [Next]_vars
    PROVE  GoneOnPurpose'
  <1> USE NoneAssumption DEF dbVars, workerVars, spent, historyVars
  <1>a. \A w \in Workers : phase[w] \in {"reserved", "running"} =>
            held[w] # None /\ held[w].id \in Ids /\ Owning(w)
    BY DEF Typed, TypeOK, MemoryOK, Owning, QueuedJob
  <1>b. dropped \subseteq dropped'
    BY DEF Next, Work, Fault, Console, vars, Second, Pop, ReadCandidates, TryCandidate,
           FailUnstarted, FailStarted, FailHeld, SkipMissing, Start, Succeed, ReleaseHeld,
           PushNext, StopChain, ThrowInTry, ThrowOutOfLoop, Crash, Restart, Dispatch,
           RetryRead, RetryWrite, Forget, Flush, Clear
  <1>c. ASSUME NEW w \in Workers,
               \A v \in Workers : v # w => held'[v] = held[v] /\ phase'[v] = phase[v],
               \A i \in Ids : jobs[i] # None =>
                   jobs'[i] # None \/ (Owning(w) /\ i = held[w].id),
               phase'[w] \in {"reserved", "running"} =>
                   \/ jobs'[held'[w].id] # None
                   \/ /\ phase[w] \in {"reserved", "running"} /\ held'[w] = held[w]
                      /\ jobs[held[w].id] = None
        PROVE  GoneOnPurpose'
    <2> SUFFICES ASSUME NEW v \in Workers, phase'[v] \in {"reserved", "running"},
                        jobs'[held'[v].id] = None
                 PROVE  JobsOf(held'[v]) \subseteq dropped'
      BY DEF GoneOnPurpose
    <2>1. CASE v = w
      BY <1>b, <1>c, <2>1 DEF GoneOnPurpose
    <2>2. CASE v # w
      <3>1. held'[v] = held[v] /\ phase'[v] = phase[v] /\ held[v].id \in Ids /\ Owning(v)
        BY <1>a, <1>c, <2>2
      <3>2. ~(Owning(w) /\ held[v].id = held[w].id)
        BY <2>2, <3>1 DEF Owned, OwnersDiffer
      <3>3. jobs[held[v].id] = None
        BY <1>c, <3>1, <3>2
      <3>4. QED
        BY <1>b, <3>1, <3>3 DEF GoneOnPurpose
    <2>3. QED
      BY <2>1, <2>2
  <1>1. ASSUME NEW w \in Workers, Pop(w) PROVE GoneOnPurpose'
    <2>1. PICK row \in Eligible : PopBySkipLocked(row) /\ Take(w, Queued(row))
      BY <1>1 DEF Pop
    <2>2. row \in JobRow /\ jobs[row.id] = row /\ row.id \in Ids /\ row # None
      BY EligibleRows DEF JobRow, Typed
    <2>3. AttemptsOn(row) \in Nat /\ now \in Time
      BY <2>2 DEF JobRow, AttemptsOn, Typed, TypeOK
    <2>4. \A i \in Ids : jobs[i] # None => jobs'[i] # None
      BY <2>1, <2>2, <2>3, RowKept DEF PopBySkipLocked
    <2>5. /\ held'[w].id = row.id
          /\ \A v \in Workers : v # w => held'[v] = held[v] /\ phase'[v] = phase[v]
      BY <2>1 DEF Take, Queued, Typed, TypeOK
    <2>6. QED
      BY <1>c, <2>2, <2>4, <2>5
  <1>2. ASSUME NEW w \in Workers, TryCandidate(w) PROVE GoneOnPurpose'
    <2>1. PICK row \in cands[w] :
            \/ ReserveCandidate(row) /\ Take(w, Queued(row))
            \/ /\ phase' = [phase EXCEPT ![w] =
                                IF cands[w] = {row} THEN "idle" ELSE "popping"]
               /\ UNCHANGED <<jobs, held>>
      BY <1>2 DEF TryCandidate
    <2>2. row \in JobRow /\ row.id \in Ids /\ now \in Time
      BY DEF Typed, TypeOK, JobRow
    <2>3. CASE ReserveCandidate(row) /\ Take(w, Queued(row))
      <3>1. jobs[row.id] # None
        BY <2>3 DEF ReserveCandidate, StillAsRead
      <3>2. AttemptsAfter(row) \in Nat
        BY <2>2, <3>1 DEF AttemptsAfter, JobRow, Typed, TypeOK
      <3>3. \A i \in Ids : jobs[i] # None => jobs'[i] # None
        BY <2>2, <2>3, <3>1, <3>2, RowKept DEF ReserveCandidate
      <3>4. /\ held'[w].id = row.id
            /\ \A v \in Workers : v # w => held'[v] = held[v] /\ phase'[v] = phase[v]
        BY <2>3 DEF Take, Queued, Typed, TypeOK
      <3>5. QED
        BY <1>c, <2>2, <3>1, <3>3, <3>4
    <2>4. CASE /\ phase' = [phase EXCEPT ![w] =
                                IF cands[w] = {row} THEN "idle" ELSE "popping"]
               /\ UNCHANGED <<jobs, held>>
      <3>1. /\ \A v \in Workers : v # w => held'[v] = held[v] /\ phase'[v] = phase[v]
            /\ phase'[w] \notin {"reserved", "running"}
        BY <2>4 DEF Typed, TypeOK
      <3>2. QED
        BY <1>c, <2>4, <3>1
    <2>5. QED
      BY <2>1, <2>3, <2>4
  <1>3. ASSUME NEW w \in Workers, NEW delay \in Delays, ReleaseHeld(w, delay)
        PROVE  GoneOnPurpose'
    <2>1. /\ Owning(w) /\ phase'[w] = "idle"
          /\ \A v \in Workers : v # w => held'[v] = held[v] /\ phase'[v] = phase[v]
      BY <1>3 DEF ReleaseHeld, Done, Owning, Typed, TypeOK
    <2>2. \A i \in Ids : jobs[i] # None => jobs'[i] # None
      BY <1>3, <2>1, ReleaseKeepsRows
    <2>3. QED
      BY <1>c, <2>1, <2>2
  <1>4. ASSUME NEW w \in Workers,
               \/ FailUnstarted(w) \/ FailStarted(w) \/ SkipMissing(w) \/ Succeed(w)
               \/ StopChain(w) \/ ThrowInTry(w) \/ ThrowOutOfLoop(w) \/ Crash(w)
               \/ ReadCandidates(w) \/ Restart(w)
        PROVE  GoneOnPurpose'
    <2>1. /\ \A v \in Workers : v # w => held'[v] = held[v] /\ phase'[v] = phase[v]
          /\ phase'[w] \notin {"reserved", "running"}
      BY <1>4 DEF FailUnstarted, FailStarted, FailHeld, SkipMissing, Succeed, StopChain,
                  ThrowInTry, ThrowOutOfLoop, Crash, ReadCandidates, Restart, Done,
                  Typed, TypeOK
    <2>2. \A i \in Ids : jobs[i] # None => jobs'[i] # None \/ (Owning(w) /\ i = held[w].id)
      BY <1>4 DEF FailUnstarted, FailStarted, FailHeld, FailRow, SkipMissing, Succeed, StopChain,
                  ThrowInTry, ThrowOutOfLoop, Crash, ReadCandidates, Restart, DeleteRow, Owning,
                  Typed, TypeOK
    <2>3. QED
      BY <1>c, <2>1, <2>2
  <1>5. ASSUME NEW w \in Workers, Start(w) PROVE GoneOnPurpose'
    BY <1>5, <1>c DEF Start, Typed, TypeOK
  <1>6. ASSUME NEW w \in Workers, PushNext(w) PROVE GoneOnPurpose'
    <2>1. /\ phase'[w] = "idle"
          /\ \A v \in Workers : v # w => held'[v] = held[v] /\ phase'[v] = phase[v]
          /\ nextId \in Ids /\ \A i \in Ids : i # nextId => jobs'[i] = jobs[i]
          /\ jobs[nextId] = None
      BY <1>6 DEF PushNext, Push, Done, Ids, Typed, TypeOK, IdsOK
    <2>2. QED
      BY <1>c, <2>1
  <1>7. ASSUME UNCHANGED <<phase, held>>,
               \A i \in Ids : jobs[i] # None => jobs'[i] # None \/ JobsOf(jobs[i]) \subseteq dropped'
        PROVE  GoneOnPurpose'
    <2> SUFFICES ASSUME NEW w \in Workers, phase[w] \in {"reserved", "running"},
                        jobs'[held[w].id] = None
                 PROVE  JobsOf(held[w]) \subseteq dropped'
      BY <1>7 DEF GoneOnPurpose
    <2>1. CASE jobs[held[w].id] = None
      BY <1>b, <2>1 DEF GoneOnPurpose
    <2>2. CASE jobs[held[w].id] # None
      <3>1. JobsOf(held[w]) = JobsOf(jobs[held[w].id])
        BY <1>a, <2>2, AgreeJobs DEF OneContent
      <3>2. QED
        BY <1>7, <1>a, <2>2, <3>1
    <2>3. QED
      BY <2>1, <2>2
  <1>8. ASSUME \/ \E j \in Heads, delay \in Delays : Dispatch(j, delay)
               \/ \E o \in Operators : Console(o)
               \/ Second \/ UNCHANGED vars
        PROVE  GoneOnPurpose'
    <2>1. UNCHANGED <<phase, held>>
      BY <1>8 DEF Dispatch, Console, RetryRead, RetryWrite, Forget, Flush, Clear, Second, vars
    <2>2. CASE \E o \in Operators : Clear(o)
      BY <1>7, <2>1, <2>2 DEF Clear
    <2>3. CASE ~\E o \in Operators : Clear(o)
      <3>1. \A i \in Ids : i < nextId => jobs'[i] = jobs[i]
        BY <1>8, <2>3 DEF Dispatch, Push, Console, RetryRead, RetryWrite, RetryRow, Forget,
                          Flush, Second, vars, Typed, TypeOK
      <3>2. QED
        BY <1>7, <2>1, <3>1 DEF Typed, IdsOK
    <2>4. QED
      BY <2>2, <2>3
  <1>9. QED
    BY <1>1, <1>2, <1>3, <1>4, <1>5, <1>6, <1>8 DEF Next, Work, Fault

\* A step that gives up, runs or loses jobs in play only, and gives up all the
\* jobs of an id or none.
LEMMA FateKept ==
    ASSUME Typed, Apart, NEW content, Agree(content), OneFate(content), HistoryKnown,
           dispatched \subseteq dispatched',
           \A j \in done' \cup dropped' \cup lost' :
               \/ j \in done \cup dropped \cup lost
               \/ \E i \in Ids : InPlay(i) /\ j \in JobsOf(content[i]),
           \A i \in Ids : InPlay(i)' =>
               \/ JobsOf(content[i]) \subseteq dropped'
               \/ InPlay(i) /\ JobsOf(content[i]) \cap dropped' \subseteq dropped
                  /\ dropped \subseteq dropped'
               \/ JobsOf(content[i]) \cap dropped' = {}
    PROVE  HistoryKnown' /\ OneFate(content)'
  <1>1. HistoryKnown'
    BY InPlayDispatched DEF HistoryKnown
  <1>2. OneFate(content)'
    BY DEF OneFate
  <1>3. QED
    BY <1>1, <1>2

\* No step splits the fate of the jobs of one id.
LEMMA FateStep ==
    ASSUME Typed, Typed', Owned, Apart, ReadHolds, NEW content \in Meanings, Agree(content),
           Agree(content)', OnePlace(content), OneFate(content), HistoryKnown, [Next]_vars
    PROVE  HistoryKnown' /\ OneFate(content)'
  <1> USE NoneAssumption DEF dbVars, workerVars, spent, historyVars
  <1>a. RowsAgree(content)'
    BY DEF Agree
  <1>b. \A i, k \in Ids : InPlay(i) /\ InPlay(k) /\ i # k =>
            JobsOf(content[i]) \cap JobsOf(content[k]) = {}
    BY DEF OnePlace
  <1>1. CASE QuietStep
    BY <1>1, QuietIsQuiet, FateKept DEF InPlay
  <1>2. ASSUME NEW w \in Workers, FailUnstarted(w) \/ FailStarted(w)
        PROVE  HistoryKnown' /\ OneFate(content)'
    BY <1>2, FailMoves, HandIsLive, FateKept DEF InPlay
  <1>3. ASSUME NEW w \in Workers, SkipMissing(w) PROVE HistoryKnown' /\ OneFate(content)'
    <2>1. /\ Owning(w) /\ \A i \in Ids : Live(i)' <=> Live(i) /\ i # held[w].id
          /\ UNCHANGED <<failed, dispatched, done, lost>>
          /\ dropped' = dropped \cup JobsOf(held[w])
      BY <1>3, EndsOne DEF SkipMissing
    <2>2. /\ held[w].id \in Ids /\ InPlay(held[w].id) /\ failed[held[w].id] = None
          /\ JobsOf(held[w]) = JobsOf(content[held[w].id])
      BY <2>1, HandIsLive DEF InPlay, OnePlace
    <2>3. \A i \in Ids : InPlay(i)' => InPlay(i) /\ i # held[w].id
      BY <2>1, <2>2 DEF InPlay
    <2>4. \A i \in Ids : InPlay(i)' => JobsOf(content[i]) \cap dropped' \subseteq dropped
      BY <1>b, <2>1, <2>2, <2>3
    <2>5. QED
      BY <2>1, <2>2, <2>3, <2>4, FateKept
  <1>4. ASSUME NEW w \in Workers, StopChain(w) PROVE HistoryKnown' /\ OneFate(content)'
    <2>1. /\ Owning(w) /\ \A i \in Ids : Live(i)' <=> Live(i) /\ i # held[w].id
          /\ UNCHANGED <<failed, dispatched, done, lost>>
          /\ dropped' = dropped \cup SetOf(held[w].chain)
      BY <1>4, EndsOne DEF StopChain
    <2>2. /\ held[w].id \in Ids /\ InPlay(held[w].id) /\ failed[held[w].id] = None
          /\ SetOf(held[w].chain) \subseteq JobsOf(content[held[w].id])
      BY <2>1, HandIsLive DEF InPlay, OnePlace
    <2>3. \A i \in Ids : InPlay(i)' => InPlay(i) /\ i # held[w].id
      BY <2>1, <2>2 DEF InPlay
    <2>4. \A i \in Ids : InPlay(i)' => JobsOf(content[i]) \cap dropped' \subseteq dropped
      BY <1>b, <2>1, <2>2, <2>3
    <2>5. QED
      BY <2>1, <2>2, <2>3, <2>4, FateKept
  <1>5. ASSUME NEW w \in Workers, Succeed(w) \/ ThrowInTry(w)
        PROVE  HistoryKnown' /\ OneFate(content)'
    <2>1. /\ Owning(w) /\ \A i \in Ids : Live(i)' => Live(i)
          /\ UNCHANGED <<failed, dispatched, dropped, lost>>
          /\ done' = done \cup {held[w].job}
      BY <1>5, EndsOne, KeepsOne DEF Succeed, ThrowInTry
    <2>2. /\ held[w].id \in Ids /\ InPlay(held[w].id)
          /\ held[w].job \in JobsOf(content[held[w].id])
      BY <2>1, HandIsLive DEF InPlay
    <2>3. QED
      BY <2>1, <2>2, FateKept DEF InPlay
  <1>6. ASSUME NEW w \in Workers,
               \/ ThrowOutOfLoop(w) \/ Crash(w)
               \/ \E delay \in Delays : ReleaseHeld(w, delay)
        PROVE  HistoryKnown' /\ OneFate(content)'
    <2>1. /\ UNCHANGED <<failed, dispatched, done, dropped>>
          /\ lost' \subseteq lost \cup (IF Owning(w) THEN SetOf(held[w].chain) ELSE {})
      BY <1>6 DEF ThrowOutOfLoop, Crash, ReleaseHeld, Owning
    <2>2. CASE Owning(w)
      <3>1. /\ held[w].id \in Ids /\ InPlay(held[w].id)
            /\ SetOf(held[w].chain) \subseteq JobsOf(content[held[w].id])
        BY <2>2, HandIsLive DEF InPlay
      <3>2. \A i \in Ids : Live(i)' => Live(i)
        BY <1>6, <2>2, LeavesOne
      <3>3. QED
        BY <2>1, <2>2, <3>1, <3>2, FateKept DEF InPlay
    <2>3. CASE ~Owning(w)
      <3>1. Crash(w)
        BY <1>6, <2>3 DEF ThrowOutOfLoop, ReleaseHeld, Holding, Owning
      <3>2. \A i \in Ids : Live(i)' => Live(i)
        BY <3>1 DEF Crash, Live, Owning, Typed, TypeOK
      <3>3. QED
        BY <2>1, <2>3, <3>2, FateKept DEF InPlay
    <2>4. QED
      BY <2>2, <2>3
  <1>7. ASSUME NEW w \in Workers, PushNext(w) PROVE HistoryKnown' /\ OneFate(content)'
    <2>1. /\ Owning(w) /\ UNCHANGED <<failed, dispatched, done, dropped, lost>>
          /\ \A i \in Ids : Live(i)' => Live(i) \/ i = nextId
          /\ JobsOf(content[nextId]) = SetOf(held[w].chain)
      BY <1>7, <1>a, LinkTakesOver DEF PushNext
    <2>2. /\ held[w].id \in Ids /\ InPlay(held[w].id)
          /\ SetOf(held[w].chain) \subseteq JobsOf(content[held[w].id])
      BY <2>1, HandIsLive DEF InPlay
    <2>3. \/ JobsOf(content[nextId]) \subseteq dropped'
          \/ JobsOf(content[nextId]) \cap dropped' = {}
      BY <2>1, <2>2 DEF OneFate
    <2>4. QED
      BY <2>1, <2>3, FateKept DEF InPlay
  <1>8. ASSUME NEW h \in Heads, NEW delay \in Delays, Dispatch(h, delay)
        PROVE  HistoryKnown' /\ OneFate(content)'
    <2>1. /\ h \in Jobs /\ ChainOf[h] \in Seq(Jobs) /\ delay \in Nat
          /\ h \notin dispatched /\ Push(h, ChainOf[h], delay) /\ UNCHANGED <<phase, held>>
          /\ dispatched' = dispatched \cup {h} /\ UNCHANGED <<failed, done, dropped, lost>>
      BY <1>8 DEF Dispatch, Heads
    <2>2. /\ nextId \in Ids /\ JobsOf(content[nextId]) = Line(h)
          /\ \A i \in Ids : Live(i)' <=> Live(i) \/ i = nextId
      BY <1>a, <2>1, PushJoins DEF Line
    <2>3. Line(h) \cap dropped = {}
      <3>1. \A g \in dispatched : g \in Heads /\ g # h
        BY <2>1 DEF Typed, TypeOK
      <3>2. QED
        BY <3>1, LinesAssumption DEF HistoryKnown
    <2>4. QED
      BY <2>1, <2>2, <2>3, FateKept DEF InPlay
  <1>9. ASSUME NEW o \in Operators, RetryWrite(o) PROVE HistoryKnown' /\ OneFate(content)'
    <2>1. UNCHANGED <<dispatched, done, dropped, lost>>
      BY <1>9 DEF RetryWrite
    <2>2. CASE UNCHANGED failed /\ \A i \in Ids : Live(i)' <=> Live(i)
      BY <2>1, <2>2, FateKept DEF InPlay
    <2>3. ASSUME NEW k \in Ids,
                 /\ failed[k] # None /\ failed'[k] = None
                 /\ JobsOf(content[nextId]) = JobsOf(content[k])
                 /\ \A i \in Ids : Live(i)' <=> Live(i) \/ i = nextId
                 /\ \A i \in Ids : i # k => failed'[i] = failed[i]
          PROVE  HistoryKnown' /\ OneFate(content)'
      <3>1. \A i \in Ids : InPlay(i)' => InPlay(i) \/ i = nextId
        BY <2>3 DEF InPlay
      <3>2. \/ JobsOf(content[nextId]) \subseteq dropped'
            \/ JobsOf(content[nextId]) \cap dropped' = {}
        BY <2>1, <2>3 DEF OneFate, InPlay
      <3>3. QED
        BY <2>1, <3>1, <3>2, FateKept
    <2>4. QED
      BY <1>9, <1>a, <2>2, <2>3, RetryMoves
  <1>10. ASSUME NEW o \in Operators, NEW k \in Ids, Forget(o, k)
         PROVE  HistoryKnown' /\ OneFate(content)'
    <2>1. /\ failed[k] # None /\ failed'[k] = None
          /\ \A i \in Ids : i # k => failed'[i] = failed[i]
          /\ \A i \in Ids : Live(i)' <=> Live(i)
          /\ UNCHANGED <<dispatched, done, lost>>
          /\ dropped' = dropped \cup JobsOf(content[k])
      BY <1>10, AgreeJobs DEF Forget, ForgetRow, Live, Owning, Typed, TypeOK
    <2>2. InPlay(k) /\ ~Live(k)
      BY <2>1 DEF InPlay, OnePlace
    <2>3. \A i \in Ids : InPlay(i)' => InPlay(i) /\ i # k
      BY <2>1, <2>2 DEF InPlay
    <2>4. \A i \in Ids : InPlay(i)' => JobsOf(content[i]) \cap dropped' \subseteq dropped
      BY <1>b, <2>1, <2>2, <2>3
    <2>5. QED
      BY <2>1, <2>2, <2>3, <2>4, FateKept
  <1>11. ASSUME NEW o \in Operators, Flush(o) PROVE HistoryKnown' /\ OneFate(content)'
    <2>1. /\ \A i \in Ids : failed'[i] = None
          /\ \A i \in Ids : Live(i)' <=> Live(i)
          /\ UNCHANGED <<dispatched, done, lost>>
          /\ dropped' = dropped \cup
                 UNION {JobsOf(failed[i]) : i \in {k \in Ids : failed[k] # None}}
      BY <1>11 DEF Flush, FlushRows, Live, Owning
    <2>2. \A j \in dropped' : j \in dropped \/
              \E k \in Ids : failed[k] # None /\ j \in JobsOf(content[k])
      BY <2>1, AgreeJobs
    <2>3. \A i \in Ids : InPlay(i)' => Live(i) /\ InPlay(i) /\ failed[i] = None
      BY <2>1 DEF InPlay, OnePlace
    <2>4. \A i \in Ids : InPlay(i)' => JobsOf(content[i]) \cap dropped' \subseteq dropped
      BY <1>b, <2>2, <2>3 DEF InPlay
    <2>5. QED
      BY <2>1, <2>2, <2>3, <2>4, FateKept DEF InPlay
  <1>12. ASSUME NEW o \in Operators, Clear(o) PROVE HistoryKnown' /\ OneFate(content)'
    <2>1. /\ UNCHANGED failed /\ \A i \in Ids : Live(i)' => Live(i)
          /\ UNCHANGED <<dispatched, done, lost>>
          /\ dropped' = dropped \cup
                 UNION {JobsOf(jobs[i]) : i \in {k \in Ids : jobs[k] # None}}
      BY <1>12 DEF Clear, ClearRows, Live, Owning
    <2>2. /\ \A j \in dropped' : j \in dropped \/
                 \E k \in Ids : jobs[k] # None /\ j \in JobsOf(content[k])
          /\ \A k \in Ids : jobs[k] # None => JobsOf(content[k]) \subseteq dropped'
      BY <2>1, AgreeJobs
    <2>3. \A i \in Ids : InPlay(i)' => InPlay(i)
      BY <2>1 DEF InPlay
    <2>4. \A i \in Ids : InPlay(i)' /\ jobs[i] = None =>
              JobsOf(content[i]) \cap dropped' \subseteq dropped
      BY <1>b, <2>2, <2>3 DEF InPlay, Live
    <2>5. QED
      BY <2>1, <2>2, <2>3, <2>4, FateKept DEF InPlay, Live
  <1>13. QED
    BY <1>1, <1>2, <1>3, <1>4, <1>5, <1>6, <1>7, <1>8, <1>9, <1>10, <1>11, <1>12
    DEF Next, Work, Fault, Console, QuietStep

\* Every step keeps the history and the tables in line.
LEMMA SettledStep ==
    ASSUME Typed, Typed', Owned, Apart, Placed, Settled, NEW content \in Meanings,
           Agree(content), Agree(content)', [Next]_vars
    PROVE  Settled'
  <1>1. OnePlace(content) /\ OneFate(content) /\ ReadHolds
    BY OnePlaceOfAny, OneFateOfAny DEF Placed
  <1>2. DoneInHand' /\ GoneOnPurpose'
    BY DoneInHandStep, GoneOnPurposeStep DEF Settled, OneContent
  <1>3. HistoryKnown' /\ OneFate(content)'
    BY <1>1, FateStep DEF Settled
  <1>4. QED
    BY <1>2, <1>3 DEF Settled

-----------------------------------------------------------------------------
(* The contract: every step of the queue is a move of JobContract, or none *)

Waiting(content, j) == \E i \in Ids : Live(i) /\ j \in JobsOf(content[i])

Failing(content, j) == \E i \in Ids : failed[i] # None /\ j \in JobsOf(content[i])

\* StatusOf, said of ids and what they stand for.
StatusBy(content, j) ==
    IF j \in done THEN "done"
    ELSE IF Waiting(content, j) THEN "waiting"
    ELSE IF Failing(content, j) THEN "failed"
    ELSE IF j \in dropped THEN "dropped"
    ELSE IF j \in lost THEN "lost"
    ELSE "absent"

StatusSaid == \A content \in Meanings : Agree(content) =>
                  \A j \in Jobs : StatusOf(j) = StatusBy(content, j)

\* The two ways of saying where a job stands agree: a worker that has run its job
\* and has its chain to hand on keeps the chain waiting, and nothing else.
LEMMA StatusIs == Typed /\ DoneInHand => StatusSaid
  <1> SUFFICES ASSUME Typed, DoneInHand, NEW content \in Meanings, Agree(content),
                      NEW j \in Jobs
               PROVE  StatusOf(j) = StatusBy(content, j)
    BY DEF StatusSaid
  <1>1. FailuresOf(j) # {} <=> Failing(content, j)
    BY AgreeJobs DEF FailuresOf, Failing
  <1>2. ASSUME Waits(j) PROVE Waiting(content, j)
    <2>1. CASE RowsOf(j) # {}
      BY <2>1, AgreeJobs DEF RowsOf, Waiting, Live
    <2>2. ASSUME NEW w \in Workers, Owning(w), j \in JobsOf(held[w])
          PROVE  Waiting(content, j)
      BY <2>2, HandIsLive DEF Waiting
    <2>3. CASE LinkedBy(j) # {}
      BY <2>2, <2>3 DEF LinkedBy, Owning, JobsOf
    <2>4. CASE \E w \in Workers : Holding(w) /\ j \in JobsOf(held[w])
      BY <2>2, <2>4 DEF Holding, Owning
    <2>5. QED
      BY <1>2, <2>1, <2>3, <2>4 DEF Waits
  <1>3. ASSUME Waiting(content, j), j \notin done PROVE Waits(j)
    <2>1. PICK i \in Ids : Live(i) /\ j \in JobsOf(content[i])
      BY <1>3 DEF Waiting
    <2>2. CASE jobs[i] # None
      BY <2>1, <2>2, AgreeJobs DEF Waits, RowsOf
    <2>3. ASSUME NEW w \in Workers, Owning(w), held[w].id = i PROVE Waits(j)
      <3>1. j \in JobsOf(held[w])
        BY <2>1, <2>3, HandIsLive
      <3>2. CASE phase[w] = "chaining"
        <4>1. j # held[w].job
          BY <1>3, <3>2 DEF DoneInHand
        <4>2. j \in SetOf(held[w].chain)
          BY <3>1, <4>1 DEF JobsOf
        <4>3. QED
          BY <3>2, <4>2 DEF Waits, LinkedBy
      <3>3. CASE phase[w] # "chaining"
        BY <2>3, <3>1, <3>3 DEF Waits, Holding, Owning
      <3>4. QED
        BY <3>2, <3>3
    <2>4. QED
      BY <2>1, <2>2, <2>3 DEF Live
  <1>4. QED
    BY <1>1, <1>2, <1>3 DEF StatusOf, StatusBy

\* ... after a step as before it.
LEMMA StatusIsNext == (Typed /\ DoneInHand => StatusSaid)'
  BY StatusIs, PTL

\* A step that takes some jobs from one of `from' to `to' and leaves the others
\* where they stand is a move of the contract.
LEMMA IsMove ==
    ASSUME NEW from, NEW to,
           \A j \in Jobs : \/ StatusOf(j)' = StatusOf(j)
                           \/ StatusOf(j) \in from /\ StatusOf(j)' = to
    PROVE  \E S \in SUBSET Jobs : Contract!Move(S, from, to)
  <1> DEFINE S == {j \in Jobs : StatusOf(j)' # StatusOf(j)}
  <1>1. \A j \in S : [k \in Jobs |-> StatusOf(k)][j] \in from
    OBVIOUS
  <1>2. [j \in Jobs |-> StatusOf(j)]'
          = [j \in Jobs |-> IF j \in S THEN to ELSE [k \in Jobs |-> StatusOf(k)][j]]
    OBVIOUS
  <1>3. QED
    BY <1>1, <1>2 DEF Contract!Move

\* Some jobs go from one of `from' to `to'; the others stand where they stood.
Moves(content, from, to) ==
    \A j \in Jobs : \/ StatusBy(content, j)' = StatusBy(content, j)
                    \/ StatusBy(content, j) \in from /\ StatusBy(content, j)' = to

\* Every step of the queue and its workers is one the contract allows.
LEMMA ContractStep ==
    ASSUME Typed, Typed', Owned, Apart, Placed, Settled, DoneInHand',
           NEW content \in Meanings, Agree(content), Agree(content)', [Next]_vars
    PROVE  [Contract!Next]_([j \in Jobs |-> StatusOf(j)])
  <1> USE NoneAssumption DEF dbVars, workerVars, spent, historyVars
  <1> DEFINE Allowed == [Contract!Next]_([j \in Jobs |-> StatusOf(j)])
  <1> HIDE DEF Allowed
  <1>1. OnePlace(content) /\ OneFate(content) /\ ReadHolds /\ RowsAgree(content)'
    BY OnePlaceOfAny, OneFateOfAny DEF Placed, Agree
  <1>2. DoneInHand /\ GoneOnPurpose /\ HistoryKnown
    BY DEF Settled
  <1>3. \A j \in Jobs : /\ StatusOf(j) = StatusBy(content, j)
                        /\ StatusOf(j)' = StatusBy(content, j)'
    BY <1>2, StatusIs, StatusIsNext DEF StatusSaid
  <1>4. ASSUME \A j \in Jobs : StatusBy(content, j)' = StatusBy(content, j) PROVE Allowed
    <2>1. [j \in Jobs |-> StatusOf(j)]' = [j \in Jobs |-> StatusOf(j)]
      BY <1>3, <1>4
    <2>2. QED
      BY <2>1 DEF Allowed
  <1>5. /\ Moves(content, {"absent"}, "waiting") => Allowed
        /\ Moves(content, {"waiting"}, "failed") => Allowed
        /\ Moves(content, {"failed"}, "waiting") => Allowed
        /\ Moves(content, {"waiting", "failed"}, "dropped") => Allowed
        /\ Moves(content, {"waiting"}, "lost") => Allowed
    <2>1. ASSUME NEW from, NEW to, Moves(content, from, to)
          PROVE  \E S \in SUBSET Jobs : Contract!Move(S, from, to)
      BY <1>3, <2>1, IsMove DEF Moves
    <2>2. QED
      BY <2>1 DEF Allowed, Contract!Next, Contract!Dispatch, Contract!Fail,
                  Contract!Retry, Contract!Drop, Contract!Lose
  <1>6. ASSUME NEW k \in Jobs, StatusBy(content, k) \in {"waiting", "done"},
               StatusBy(content, k)' = "done",
               \A j \in Jobs : j # k => StatusBy(content, j)' = StatusBy(content, j)
        PROVE  Allowed
    <2>1. CASE StatusBy(content, k) = "done"
      BY <1>4, <1>6, <2>1
    <2>2. CASE StatusBy(content, k) = "waiting"
      <3>1. [j \in Jobs |-> StatusOf(j)]'
              = [j \in Jobs |-> IF j \in {k} THEN "done" ELSE [i \in Jobs |-> StatusOf(i)][j]]
        BY <1>3, <1>6
      <3>2. Contract!Move({k}, {"waiting"}, "done")
        BY <1>3, <2>2, <3>1 DEF Contract!Move
      <3>3. QED
        BY <3>2 DEF Allowed, Contract!Next, Contract!Complete
    <2>3. QED
      BY <1>6, <2>1, <2>2
  <1>7. \A i, k \in Ids : InPlay(i) /\ InPlay(k) /\ i # k =>
            JobsOf(content[i]) \cap JobsOf(content[k]) = {}
    BY <1>1 DEF OnePlace
  <1>8. \A i \in Ids : ~(Live(i) /\ failed[i] # None)
    BY <1>1 DEF OnePlace
  <1>10. CASE QuietStep
    <2>1. \A j \in Jobs : StatusBy(content, j)' = StatusBy(content, j)
      BY <1>10, QuietIsQuiet DEF StatusBy, Waiting, Failing
    <2>2. QED
      BY <1>4, <2>1 DEF Allowed
  <1>11. ASSUME NEW w \in Workers, FailUnstarted(w) \/ FailStarted(w) PROVE Allowed
    <2>1. /\ \A i \in Ids : Live(i)' <=> Live(i) /\ i # held[w].id
          /\ \A i \in Ids : failed'[i] # None <=> failed[i] # None \/ i = held[w].id
          /\ UNCHANGED <<done, dropped, lost>>
          /\ held[w].id \in Ids /\ Live(held[w].id)
      BY <1>1, <1>11, FailMoves, HandIsLive
    <2>2. \A j \in Jobs : j \in JobsOf(content[held[w].id]) =>
              /\ Waiting(content, j) /\ ~Waiting(content, j)' /\ Failing(content, j)'
      BY <1>7, <2>1 DEF Waiting, Failing, InPlay
    <2>3. \A j \in Jobs : j \notin JobsOf(content[held[w].id]) =>
              /\ Waiting(content, j)' <=> Waiting(content, j)
              /\ Failing(content, j)' <=> Failing(content, j)
      BY <2>1 DEF Waiting, Failing
    <2>4. Moves(content, {"waiting"}, "failed")
      BY <2>1, <2>2, <2>3 DEF Moves, StatusBy
    <2>5. QED
      BY <1>5, <2>4
  \* The jobs of `gone' were waiting at the id k, and wait nowhere now.
  <1>12. ASSUME NEW k \in Ids, Live(k), \A i \in Ids : Live(i)' <=> Live(i) /\ i # k,
                UNCHANGED failed
         PROVE  /\ \A j \in Jobs : j \in JobsOf(content[k]) =>
                       Waiting(content, j) /\ ~Waiting(content, j)' /\ ~Failing(content, j)'
                /\ \A j \in Jobs : j \notin JobsOf(content[k]) =>
                       /\ Waiting(content, j)' <=> Waiting(content, j)
                       /\ Failing(content, j)' <=> Failing(content, j)
    BY <1>7, <1>8, <1>12 DEF Waiting, Failing, InPlay
  <1>13. ASSUME NEW w \in Workers, SkipMissing(w) \/ StopChain(w) PROVE Allowed
    <2>1. /\ Owning(w) /\ held[w].id \in Ids /\ Live(held[w].id)
          /\ \A i \in Ids : Live(i)' <=> Live(i) /\ i # held[w].id
          /\ UNCHANGED <<failed, done, lost>> /\ dropped \subseteq dropped'
          /\ JobsOf(content[held[w].id]) = JobsOf(held[w])
      BY <1>13, EndsOne, HandIsLive DEF SkipMissing, StopChain
    <2>2. \A j \in Jobs : j \in JobsOf(content[held[w].id]) => j \in done \/ j \in dropped'
      <3>1. CASE SkipMissing(w)
        BY <2>1, <3>1 DEF SkipMissing
      <3>2. CASE StopChain(w)
        BY <1>2, <2>1, <3>2 DEF StopChain, DoneInHand, JobsOf
      <3>3. QED
        BY <1>13, <3>1, <3>2
    <2>3. \A j \in dropped' : j \in dropped \/ j \in JobsOf(content[held[w].id])
      BY <1>13, <2>1 DEF SkipMissing, StopChain, JobsOf
    <2>4. Moves(content, {"waiting", "failed"}, "dropped")
      BY <1>12, <2>1, <2>2, <2>3 DEF Moves, StatusBy
    <2>5. QED
      BY <1>5, <2>4
  <1>14. ASSUME NEW w \in Workers, Succeed(w), held[w].chain = <<>> PROVE Allowed
    <2>1. /\ Owning(w) /\ held[w].id \in Ids /\ Live(held[w].id) /\ held[w].job \in Jobs
          /\ \A i \in Ids : Live(i)' <=> Live(i) /\ i # held[w].id
          /\ UNCHANGED <<failed, dropped, lost>> /\ done' = done \cup {held[w].job}
          /\ JobsOf(content[held[w].id]) = JobsOf(held[w])
      BY <1>14, EndsOne, HandIsLive DEF Succeed, QueuedJob
    <2>2. JobsOf(held[w]) = {held[w].job}
      BY <1>14 DEF JobsOf, SetOf
    <2>3. QED
      BY <1>6, <1>12, <2>1, <2>2 DEF StatusBy
  <1>15. ASSUME NEW w \in Workers, ThrowInTry(w) \/ (Succeed(w) /\ held[w].chain # <<>>)
         PROVE  Allowed
    <2>1. /\ Owning(w) /\ held[w].id \in Ids /\ Live(held[w].id) /\ held[w].job \in Jobs
          /\ \A i \in Ids : Live(i)' <=> Live(i)
          /\ UNCHANGED <<failed, dropped, lost>> /\ done' = done \cup {held[w].job}
          /\ held[w].job \in JobsOf(content[held[w].id])
      BY <1>15, KeepsOne, HandIsLive DEF Succeed, ThrowInTry, QueuedJob
    <2>2. \A j \in Jobs : /\ Waiting(content, j)' <=> Waiting(content, j)
                          /\ Failing(content, j)' <=> Failing(content, j)
      BY <2>1 DEF Waiting, Failing
    <2>3. Waiting(content, held[w].job)
      BY <2>1 DEF Waiting
    <2>4. QED
      BY <1>6, <2>1, <2>2, <2>3 DEF StatusBy
  \* A worker that lets its job go, whose row is gone: the jobs cleared from under it
  \* were dropped, and a chain it had still to hand on is lost with it.
  <1>16. ASSUME NEW w \in Workers, Owning(w),
                \/ ThrowOutOfLoop(w) \/ Crash(w)
                \/ \E delay \in Delays : ReleaseHeld(w, delay)
         PROVE  Allowed
    <2>1. /\ held[w].id \in Ids /\ Live(held[w].id)
          /\ UNCHANGED <<failed, done, dropped>>
          /\ JobsOf(content[held[w].id]) = JobsOf(held[w])
          /\ \A i \in Ids :
                 Live(i)' <=> Live(i) /\ ~(i = held[w].id /\ jobs[held[w].id] = None)
      BY <1>16, LeavesOne, HandIsLive DEF ThrowOutOfLoop, Crash, ReleaseHeld
    <2>2. CASE jobs[held[w].id] # None
      <3>1. lost' = lost
        BY <1>16, <2>2 DEF ThrowOutOfLoop, Crash, ReleaseHeld, Owned, ReservedOK
      <3>2. \A j \in Jobs : StatusBy(content, j)' = StatusBy(content, j)
        BY <2>1, <2>2, <3>1 DEF StatusBy, Waiting, Failing
      <3>3. QED
        BY <1>4, <3>2
    <2>3. CASE jobs[held[w].id] = None /\ phase[w] \in {"reserved", "running"}
      <3>1. lost' = lost
        BY <1>16, <2>3 DEF ThrowOutOfLoop, Crash, ReleaseHeld
      <3>2. \A j \in Jobs : j \in JobsOf(content[held[w].id]) => j \in dropped
        BY <1>2, <2>1, <2>3 DEF GoneOnPurpose
      <3>3. Moves(content, {"waiting", "failed"}, "dropped")
        BY <1>12, <2>1, <2>3, <3>1, <3>2 DEF Moves, StatusBy
      <3>4. QED
        BY <1>5, <3>3
    <2>4. CASE jobs[held[w].id] = None /\ phase[w] \in {"chaining", "caught"}
      <3>1. lost' = lost \cup SetOf(held[w].chain)
        BY <1>16, <2>4 DEF ThrowOutOfLoop, Crash, ReleaseHeld, Holding
      <3>2. \A j \in Jobs : j \in JobsOf(content[held[w].id]) => j \in done \/ j \in lost'
        BY <1>2, <2>1, <2>4, <3>1 DEF DoneInHand, JobsOf
      <3>3. \A j \in Jobs : j \notin JobsOf(content[held[w].id]) => (j \in lost' <=> j \in lost)
        BY <2>1, <3>1 DEF JobsOf
      <3>4. CASE JobsOf(content[held[w].id]) \subseteq dropped
        <4>1. Moves(content, {"waiting", "failed"}, "dropped")
          BY <1>12, <2>1, <2>4, <3>3, <3>4 DEF Moves, StatusBy
        <4>2. QED
          BY <1>5, <4>1
      <3>5. CASE JobsOf(content[held[w].id]) \cap dropped = {}
        <4>1. Moves(content, {"waiting"}, "lost")
          BY <1>12, <2>1, <2>4, <3>2, <3>3, <3>5 DEF Moves, StatusBy
        <4>2. QED
          BY <1>5, <4>1
      <3>6. QED
        BY <1>1, <2>1, <3>4, <3>5 DEF OneFate, InPlay
    <2>5. QED
      BY <1>16, <2>2, <2>3, <2>4 DEF Owning
  <1>17. ASSUME NEW w \in Workers, ~Owning(w),
                \/ ThrowOutOfLoop(w) \/ Crash(w)
                \/ \E delay \in Delays : ReleaseHeld(w, delay)
         PROVE  Allowed
    <2>1. Crash(w)
      BY <1>17 DEF ThrowOutOfLoop, ReleaseHeld, Holding, Owning
    <2>2. \A i \in Ids : Live(i)' <=> Live(i)
      BY <1>17, <2>1 DEF Crash, Live, Owning, Typed, TypeOK
    <2>3. UNCHANGED <<failed, done, dropped, lost>>
      BY <1>17, <2>1 DEF Crash, Owning
    <2>4. \A j \in Jobs : StatusBy(content, j)' = StatusBy(content, j)
      BY <2>2, <2>3 DEF StatusBy, Waiting, Failing
    <2>5. QED
      BY <1>4, <2>4
  \* The chain waits on in a row of its own; its head was done already.
  <1>18. ASSUME NEW w \in Workers, PushNext(w) PROVE Allowed
    <2>1. /\ Owning(w) /\ nextId \in Ids /\ held[w].id \in Ids /\ Live(held[w].id)
          /\ UNCHANGED <<failed, done, dropped, lost>>
          /\ \A i \in Ids : Live(i)' <=> (Live(i) /\ i # held[w].id) \/ i = nextId
          /\ JobsOf(content[nextId]) = SetOf(held[w].chain)
          /\ JobsOf(content[held[w].id]) = {held[w].job} \cup SetOf(held[w].chain)
      BY <1>1, <1>18, LinkTakesOver, HandIsLive DEF PushNext, JobsOf
    <2>2. held[w].job \in done
      BY <1>2, <1>18 DEF DoneInHand, PushNext
    <2>3. \A j \in Jobs : /\ j \notin done => (Waiting(content, j)' <=> Waiting(content, j))
                          /\ Failing(content, j)' <=> Failing(content, j)
      BY <2>1, <2>2 DEF Waiting, Failing
    <2>4. \A j \in Jobs : StatusBy(content, j)' = StatusBy(content, j)
      BY <2>1, <2>3 DEF StatusBy
    <2>5. QED
      BY <1>4, <2>4
  <1>19. ASSUME NEW h \in Heads, NEW delay \in Delays, Dispatch(h, delay) PROVE Allowed
    <2>1. /\ h \in Jobs /\ ChainOf[h] \in Seq(Jobs) /\ delay \in Nat
          /\ h \notin dispatched /\ Push(h, ChainOf[h], delay) /\ UNCHANGED <<phase, held>>
          /\ UNCHANGED <<failed, done, dropped, lost>>
      BY <1>19 DEF Dispatch, Heads
    <2>2. /\ nextId \in Ids /\ JobsOf(content[nextId]) = Line(h)
          /\ \A i \in Ids : Live(i)' <=> Live(i) \/ i = nextId
      BY <1>1, <2>1, PushJoins DEF Line
    <2>3. \A j \in Jobs : j \in Line(h) => ~Waiting(content, j) /\ ~Failing(content, j)
      BY <2>1, NewLineIsNew DEF Waiting, Failing, InPlay
    <2>4. \A j \in Jobs : j \in Line(h) => j \notin done \cup dropped \cup lost
      <3>1. \A g \in dispatched : g \in Heads /\ g # h
        BY <2>1 DEF Typed, TypeOK
      <3>2. QED
        BY <1>2, <3>1, LinesAssumption DEF HistoryKnown
    <2>5. \A j \in Jobs : /\ Waiting(content, j)' <=> Waiting(content, j) \/ j \in Line(h)
                          /\ Failing(content, j)' <=> Failing(content, j)
      BY <2>1, <2>2 DEF Waiting, Failing
    <2>6. Moves(content, {"absent"}, "waiting")
      BY <2>1, <2>3, <2>4, <2>5 DEF Moves, StatusBy
    <2>7. QED
      BY <1>5, <2>6
  <1>20. ASSUME NEW o \in Operators, RetryWrite(o) PROVE Allowed
    <2>1. UNCHANGED <<done, dropped, lost>>
      BY <1>20 DEF RetryWrite
    <2>2. CASE UNCHANGED failed /\ \A i \in Ids : Live(i)' <=> Live(i)
      <3>1. \A j \in Jobs : StatusBy(content, j)' = StatusBy(content, j)
        BY <2>1, <2>2 DEF StatusBy, Waiting, Failing
      <3>2. QED
        BY <1>4, <3>1
    <2>3. ASSUME NEW k \in Ids, nextId \in Ids,
                 /\ failed[k] # None /\ failed'[k] = None
                 /\ JobsOf(content[nextId]) = JobsOf(content[k])
                 /\ \A i \in Ids : Live(i)' <=> Live(i) \/ i = nextId
                 /\ \A i \in Ids : i # k => failed'[i] = failed[i]
          PROVE  Allowed
      <3>1. \A j \in Jobs : j \in JobsOf(content[k]) =>
                /\ Failing(content, j) /\ ~Waiting(content, j)
                /\ Waiting(content, j)'
        BY <1>7, <1>8, <2>3 DEF Waiting, Failing, InPlay
      <3>2. \A j \in Jobs : j \notin JobsOf(content[k]) =>
                /\ Waiting(content, j)' <=> Waiting(content, j)
                /\ Failing(content, j)' <=> Failing(content, j)
        BY <2>3 DEF Waiting, Failing
      <3>3. Moves(content, {"failed"}, "waiting")
        BY <2>1, <3>1, <3>2 DEF Moves, StatusBy
      <3>4. QED
        BY <1>5, <3>3
    <2>4. QED
      BY <1>1, <1>20, <2>2, <2>3, RetryMoves
  \* What an operator gives up fails no longer, or has only its workers left.
  <1>21. ASSUME UNCHANGED <<done, lost>>, \A i \in Ids : Live(i)' => Live(i),
                \A i \in Ids : failed'[i] # None => failed[i] # None,
                \A j \in Jobs : j \in dropped' =>
                    \/ j \in dropped
                    \/ Waiting(content, j) \/ Failing(content, j),
                \A i \in Ids : /\ Live(i) /\ ~Live(i)' => JobsOf(content[i]) \subseteq dropped'
                               /\ failed[i] # None /\ failed'[i] = None =>
                                      JobsOf(content[i]) \subseteq dropped',
                dropped \subseteq dropped'
         PROVE  Allowed
    <2>1. \A j \in Jobs : /\ Waiting(content, j)' => Waiting(content, j)
                          /\ Failing(content, j)' => Failing(content, j)
      BY <1>21 DEF Waiting, Failing
    <2>2. \A j \in Jobs : ~(Waiting(content, j) /\ Failing(content, j))
      BY <1>7, <1>8 DEF Waiting, Failing, InPlay
    <2>3. \A j \in Jobs :
              /\ Waiting(content, j) /\ ~Waiting(content, j)' => j \in dropped'
              /\ Failing(content, j) /\ ~Failing(content, j)' => j \in dropped'
      BY <1>21 DEF Waiting, Failing
    <2>4. Moves(content, {"waiting", "failed"}, "dropped")
      BY <1>21, <2>1, <2>2, <2>3 DEF Moves, StatusBy
    <2>5. QED
      BY <1>5, <2>4
  <1>22. ASSUME NEW o \in Operators, NEW k \in Ids, Forget(o, k) PROVE Allowed
    <2>1. /\ failed[k] # None /\ failed'[k] = None
          /\ \A i \in Ids : i # k => failed'[i] = failed[i]
          /\ \A i \in Ids : Live(i)' <=> Live(i)
          /\ UNCHANGED <<done, lost>>
          /\ dropped' = dropped \cup JobsOf(content[k])
      BY <1>22, AgreeJobs DEF Forget, ForgetRow, Live, Owning, Typed, TypeOK
    <2>2. QED
      BY <1>21, <2>1 DEF Failing
  <1>23. ASSUME NEW o \in Operators, Flush(o) PROVE Allowed
    <2>1. /\ \A i \in Ids : failed'[i] = None
          /\ \A i \in Ids : Live(i)' <=> Live(i)
          /\ UNCHANGED <<done, lost>>
          /\ dropped' = dropped \cup
                 UNION {JobsOf(failed[i]) : i \in {k \in Ids : failed[k] # None}}
      BY <1>23 DEF Flush, FlushRows, Live, Owning
    <2>2. /\ \A j \in dropped' : j \in dropped \/
                 \E k \in Ids : failed[k] # None /\ j \in JobsOf(content[k])
          /\ \A k \in Ids : failed[k] # None => JobsOf(content[k]) \subseteq dropped'
      BY <2>1, AgreeJobs
    <2>3. QED
      BY <1>21, <2>1, <2>2 DEF Failing
  <1>24. ASSUME NEW o \in Operators, Clear(o) PROVE Allowed
    <2>1. /\ UNCHANGED failed /\ \A i \in Ids : Live(i)' => Live(i)
          /\ \A i \in Ids : Live(i) /\ jobs[i] = None => Live(i)'
          /\ UNCHANGED <<done, lost>>
          /\ dropped' = dropped \cup
                 UNION {JobsOf(jobs[i]) : i \in {k \in Ids : jobs[k] # None}}
      BY <1>24 DEF Clear, ClearRows, Live, Owning
    <2>2. /\ \A j \in dropped' : j \in dropped \/
                 \E k \in Ids : jobs[k] # None /\ j \in JobsOf(content[k])
          /\ \A k \in Ids : jobs[k] # None => JobsOf(content[k]) \subseteq dropped'
      BY <2>1, AgreeJobs
    <2>3. QED
      BY <1>21, <2>1, <2>2 DEF Waiting, Live
  <1>25. QED
    BY <1>10, <1>11, <1>13, <1>14, <1>15, <1>16, <1>17, <1>18, <1>19, <1>20, <1>22, <1>23,
       <1>24
    DEF Allowed, Next, Work, Fault, Console, QuietStep

\* At the start no job has a status but "absent".
LEMMA ContractInit == Init => Contract!Init
  <1> SUFFICES ASSUME Init, NEW j \in Jobs PROVE StatusOf(j) = "absent"
    BY DEF Contract!Init
  <1>1. ~Waits(j) /\ FailuresOf(j) = {}
    BY DEF Init, DbInit, Waits, RowsOf, LinkedBy, Holding, FailuresOf
  <1>2. QED
    BY <1>1 DEF Init, StatusOf

\* The database queue and its workers implement JobContract: a job is waiting until
\* it has run, failed, been given up or been lost, and what has run never comes
\* back, when jobs end within their visibility timeout and retries of one failed
\* job do not overlap (queue-work.ts, processJob; database-queue-driver.ts).
THEOREM KeepsContract ==
    ASSUME Prompt, RetryAfter > 0, SerialRetries
    PROVE  Spec => ContractHolds
  <1> DEFINE Inv == Typed /\ Owned /\ Apart /\ OneContent /\ Placed /\ Settled
  <1>1. Init => Inv /\ Contract!Init
    BY TypedInit, OwnedInit, ApartInit, OneContentInit, PlacedInit, SettledInit, ContractInit
  <1>2. ASSUME Inv, [Next]_vars
        PROVE  Inv' /\ [Contract!Next]_([j \in Jobs |-> StatusOf(j)])
    <2>1. Typed' /\ Owned' /\ Apart'
      BY <1>2, TypedStep, OwnedStep, ApartStep
    <2>2. PICK content \in Meanings : Agree(content) /\ Agree(content)'
      BY <1>2, <2>1, AgreeStep
    <2>3. Placed' /\ Settled'
      BY <1>2, <2>1, <2>2, PlacedStep, SettledStep
    <2>4. [Contract!Next]_([j \in Jobs |-> StatusOf(j)])
      BY <1>2, <2>1, <2>2, <2>3, ContractStep DEF Settled
    <2>5. QED
      BY <2>1, <2>2, <2>3, <2>4 DEF OneContent
  <1> HIDE DEF Inv
  <1>3. QED
    BY <1>1, <1>2, PTL DEF Spec, ContractHolds, Contract!Spec
=============================================================================
