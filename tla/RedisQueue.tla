------------------------------ MODULE RedisQueue ------------------------------
(***************************************************************************)
(* One queue of the RedisQueueDriver (redis-queue-driver.ts) under the loop   *)
(* of queue:work (queue-work.ts).  A step is one script or command.  Redis    *)
(* knows a job by its serialized envelope: two equal envelopes are one member *)
(* of a sorted set, and a late worker names its job by the one it popped.     *)
(***************************************************************************)
EXTENDS Integers, Sequences, SequencesExt

CONSTANTS
    Payloads,      \* what is dispatched
    Hands,         \* worker processes
    Operators,     \* who runs queue:retry
    Nothing,       \* no envelope, no record
    Tries,         \* maxAttempts
    MaxIds,        \* BOUND: ids given to jobs
    MaxFaults      \* BOUND: workers killed, and workers slower than their reservation

\* What a script encodes is not, byte for byte, what a worker does: the two never are one
\* member.
Envelopes == [id : 1..MaxIds, payload : Payloads, attempts : Nat, by : {"worker", "script"}]

FailedRecords == [id : 1..MaxIds, payload : Payloads]

ASSUME RedisQueueAssumption ==
    /\ Tries \in Nat \ {0} /\ MaxIds \in Nat /\ MaxFaults \in Nat
    /\ Nothing \notin Envelopes /\ Nothing \notin FailedRecords

VARIABLES
    ready,      \* the list, reserved from its end
    delayed,    \* the sorted set of jobs not due, and those of them that are by now
    due,
    reserved,   \* the sorted set of jobs in flight, and those whose expiry is past
    overdue,
    failed,     \* the failed hash: id -> payload, as records
    busy,       \* worker -> where it stands
    popped,     \* worker -> the envelope it reserved
    found,      \* operator -> the failed record that retry() has read
    nextId,     \* the next uuid
    \* History, read by no action:
    fate,       \* payload -> how it ended, so far
    runs,       \* id -> how many times its handler was started
    odds,       \* what has happened so far that may make a job two
    faults      \* how many workers were killed or slow

redisVars ==
    <<ready, delayed, due, reserved, overdue, failed, busy, popped, found, nextId, fate, runs,
      odds, faults>>

(***************************************************************************)
(* idle       between polls                  holding    popped a job             *)
(* migrated   moved what was due             running    in its handler           *)
(* reclaimed  moved what had expired                                             *)
(***************************************************************************)
Busy == {"idle", "migrated", "reclaimed", "holding", "running"}

Envelope(id, payload, attempts) ==
    [id |-> id, payload |-> payload, attempts |-> attempts, by |-> "worker"]

Record(e) == [id |-> e.id, payload |-> e.payload]

RedisInit ==
    /\ ready = <<>> /\ delayed = {} /\ due = {} /\ reserved = {} /\ overdue = {} /\ failed = {}
    /\ busy = [w \in Hands |-> "idle"]
    /\ popped = [w \in Hands |-> Nothing]
    /\ found = [o \in Operators |-> Nothing]
    /\ nextId = 1
    /\ fate = [j \in Payloads |-> "absent"]
    /\ runs = [i \in 1..MaxIds |-> 0]
    /\ odds = {} /\ faults = 0

Turns(w, from, to) ==
    /\ busy[w] = from
    /\ busy' = [busy EXCEPT ![w] = to]

\* LPUSH, one after the other.
Pushed(list, es) == Reverse(es) \o list

EnvelopesOf(j) ==
    {e \in delayed \cup reserved \cup {ready[i] : i \in DOMAIN ready} : e.payload = j}

Ended(js, how) == fate' = [j \in Payloads |-> IF j \in js THEN how ELSE fate[j]]

Odd(what, happens) == odds' = IF happens THEN odds \cup {what} ELSE odds

-----------------------------------------------------------------------------
(* push(), pop() *)

RedisPush(j) ==
    /\ fate[j] = "absent" /\ nextId <= MaxIds
    /\ Ended({j}, "pending")
    /\ nextId' = nextId + 1
    /\ \/ ready' = Pushed(ready, <<Envelope(nextId, j, 0)>>) /\ UNCHANGED delayed
       \/ delayed' = delayed \cup {Envelope(nextId, j, 0)} /\ UNCHANGED ready
    /\ UNCHANGED <<due, reserved, overdue, failed, busy, popped, found, runs, odds, faults>>

MigrateDue(w) ==
    /\ Turns(w, "idle", "migrated")
    /\ \E es \in SetToSeqs(due) : ready' = Pushed(ready, es)
    /\ delayed' = delayed \ due /\ due' = {}
    /\ UNCHANGED <<reserved, overdue, failed, popped, found, nextId, fate, runs, odds, faults>>

\* Mutant: the attempt that the lost worker made is not counted.
ReclaimedAsIs(e) == e

Reclaimed(e) == [e EXCEPT !.attempts = @ + 1, !.by = "script"]

\* Mutant: nothing is taken back from a worker that died.
NeverExpired == {}

Expired == overdue

ReclaimExpired(w) ==
    /\ Turns(w, "migrated", "reclaimed")
    /\ \E es \in SetToSeqs({Reclaimed(e) : e \in Expired}) : ready' = Pushed(ready, es)
    /\ reserved' = reserved \ Expired /\ overdue' = overdue \ Expired
    /\ UNCHANGED <<delayed, due, failed, popped, found, nextId, fate, runs, odds, faults>>

\* Mutant: RPOP alone, the ZADD not yet sent.
ReservedLater(e) == reserved

\* A member that is there already keeps its place, with a new expiry.
ReservedWith(e) == reserved \cup {e}

ReserveEnvelope(w, e) ==
    /\ popped' = [popped EXCEPT ![w] = e]
    /\ reserved' = ReservedWith(e)
    /\ overdue' = overdue \ {e}

ReserveNext(w) ==
    /\ IF ready = <<>>
       THEN Turns(w, "reclaimed", "idle") /\ UNCHANGED <<ready, popped, reserved, overdue>>
       ELSE /\ Turns(w, "reclaimed", "holding")
            /\ ReserveEnvelope(w, Last(ready))
            /\ ready' = Front(ready)
    /\ UNCHANGED <<delayed, due, failed, found, nextId, fate, runs, odds, faults>>

-----------------------------------------------------------------------------
(* processJob() *)

Handle(w) ==
    /\ popped[w] # Nothing /\ popped[w].attempts < Tries
    /\ Turns(w, "holding", "running")
    /\ runs' = [runs EXCEPT ![popped[w].id] = @ + 1]
    /\ UNCHANGED <<ready, delayed, due, reserved, overdue, failed, popped, found, nextId, fate,
                   odds, faults>>

\* Mutant: the job is named otherwise than it was popped.
StillReserved(es, e) == es

Unreserved(es, e) == es \ {e}

LetGo(w) ==
    /\ Turns(w, busy[w], "idle")
    /\ popped' = [popped EXCEPT ![w] = Nothing]
    /\ reserved' = Unreserved(reserved, popped[w])
    /\ overdue' = Unreserved(overdue, popped[w])

\* It succeeded; or a model it names is gone, and it lets that pass.
Delete(w) ==
    /\ popped[w] # Nothing
    /\ LetGo(w)
    /\ Ended({popped[w].payload}, "done")
    /\ UNCHANGED <<ready, delayed, due, failed, found, nextId, runs, odds, faults>>

\* The job threw, or asked for its release: again, now or later, whether or not its
\* reservation is still there.
ReleaseJob(w) ==
    /\ busy[w] = "running" /\ popped[w].attempts + 1 < Tries
    /\ LetGo(w)
    /\ LET e == Envelope(popped[w].id, popped[w].payload, popped[w].attempts + 1) IN
       \/ ready' = Pushed(ready, <<e>>) /\ UNCHANGED <<delayed, due>>
       \/ delayed' = delayed \cup {e} /\ due' = due \ {e} /\ UNCHANGED ready
    /\ UNCHANGED <<failed, found, nextId, fate, runs, odds, faults>>

\* Its attempts are used up, before this run or by it, its deadline is past, or it cannot
\* be read.
FailJob(w) ==
    /\ popped[w] # Nothing
    /\ LetGo(w)
    /\ failed' = failed \cup {Record(popped[w])}
    /\ UNCHANGED <<ready, delayed, due, found, nextId, fate, runs, odds, faults>>

-----------------------------------------------------------------------------
(* queue:clear, queue:retry, queue:forget and queue:flush *)

RedisClear ==
    /\ ready' = <<>> /\ delayed' = {} /\ due' = {}
    /\ Ended({j \in Payloads : fate[j] = "pending" /\ EnvelopesOf(j) \ reserved # {}}, "given up")
    /\ UNCHANGED <<reserved, overdue, failed, busy, popped, found, nextId, runs, odds, faults>>

FindFailed(o) ==
    /\ found[o] = Nothing /\ nextId <= MaxIds
    /\ \E r \in failed : found' = [found EXCEPT ![o] = r]
    /\ UNCHANGED <<ready, delayed, due, reserved, overdue, failed, busy, popped, nextId, fate,
                   runs, odds, faults>>

\* The script deletes the record if it is there, and pushes the job either way.
RequeueFound(o) ==
    /\ found[o] # Nothing /\ nextId <= MaxIds
    /\ failed' = failed \ {found[o]}
    /\ ready' = Pushed(ready, <<Envelope(nextId, found[o].payload, 0)>>)
    /\ nextId' = nextId + 1
    /\ found' = [found EXCEPT ![o] = Nothing]
    /\ Odd("retried twice", found[o] \notin failed)
    /\ UNCHANGED <<delayed, due, reserved, overdue, busy, popped, fate, runs, faults>>

ForgetFailed(rs) ==
    /\ failed' = failed \ rs
    /\ Ended({r.payload : r \in {r \in rs : fate[r.payload] = "pending"}}, "given up")
    /\ UNCHANGED <<ready, delayed, due, reserved, overdue, busy, popped, found, nextId, runs,
                   odds, faults>>

-----------------------------------------------------------------------------
(* Time, and workers that die *)

DelayOver(e) ==
    /\ e \in delayed \ due
    /\ due' = due \cup {e}
    /\ UNCHANGED <<ready, delayed, reserved, overdue, failed, busy, popped, found, nextId, fate,
                   runs, odds, faults>>

Fault == faults < MaxFaults /\ faults' = faults + 1

Expires(e) ==
    /\ e \in reserved \ overdue
    /\ overdue' = overdue \cup {e}
    /\ IF \E w \in Hands : popped[w] = e
       THEN Odd("stalled", TRUE) /\ Fault
       ELSE UNCHANGED <<odds, faults>>
    /\ UNCHANGED <<ready, delayed, due, reserved, failed, busy, popped, found, nextId, fate,
                   runs>>

\* A worker is killed; its supervisor starts another.
Killed(w) ==
    /\ busy[w] # "idle" /\ Fault
    /\ Turns(w, busy[w], "idle")
    /\ popped' = [popped EXCEPT ![w] = Nothing]
    /\ UNCHANGED <<ready, delayed, due, reserved, overdue, failed, found, nextId, fate, runs,
                   odds>>

Poll(w) == MigrateDue(w) \/ ReclaimExpired(w) \/ ReserveNext(w)

ProcessJob(w) == Handle(w) \/ Delete(w) \/ ReleaseJob(w) \/ FailJob(w)

RedisNext ==
    \/ \E j \in Payloads : RedisPush(j)
    \/ \E w \in Hands : Poll(w) \/ ProcessJob(w) \/ Killed(w)
    \/ RedisClear
    \/ \E o \in Operators : FindFailed(o) \/ RequeueFound(o)
    \/ ForgetFailed(failed) \/ \E r \in failed : ForgetFailed({r})
    \/ \E e \in delayed : DelayOver(e)
    \/ \E e \in reserved : Expires(e)

RedisSpec == RedisInit /\ [][RedisNext]_redisVars

-----------------------------------------------------------------------------
(* Properties *)

RedisTypeOK ==
    /\ ready \in Seq(Envelopes)
    /\ delayed \subseteq Envelopes /\ due \subseteq delayed
    /\ reserved \subseteq Envelopes /\ overdue \subseteq reserved
    /\ failed \subseteq FailedRecords
    /\ \A w \in Hands : popped[w] = Nothing <=> busy[w] \notin {"holding", "running"}
    /\ nextId \in 1..MaxIds + 1

CopiesOf(j) ==
    Cardinality({i \in DOMAIN ready : ready[i].payload = j})
      + Cardinality({e \in delayed : e.payload = j})
      + Cardinality({e \in reserved : e.payload = j})
      + Cardinality({r \in failed : r.payload = j})

\* A job is in one place, and in none once it has succeeded, unless a worker outlived its
\* reservation or one failed job was retried twice at once (redis-queue-driver.ts).
OneCopy ==
    odds = {} => \A j \in Payloads :
        /\ CopiesOf(j) <= 1
        /\ fate[j] = "done" => CopiesOf(j) = 0

\* Whatever dies, stalls or races, a job that was dispatched is somewhere until it has
\* succeeded or an operator gave it up (redis-queue-driver.ts, "Every mutation is one Lua
\* script").
NeverLost == \A j \in Payloads : fate[j] = "pending" => CopiesOf(j) > 0

\* A handler starts as often as its job has tries, whoever died in it and however often it
\* was reclaimed, unless a worker outlived its reservation (RECLAIM_EXPIRED_LUA).
TriesHold == odds = {} => \A i \in 1..MaxIds : runs[i] <= Tries

\* A job that is waiting ends: it succeeds, fails or is given up, though its workers die
\* in it (RECLAIM_EXPIRED_LUA).
RedisSettles ==
    \A j \in Payloads : EnvelopesOf(j) # {} ~> EnvelopesOf(j) = {}
=============================================================================
