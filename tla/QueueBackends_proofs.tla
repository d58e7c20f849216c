------------------------- MODULE QueueBackends_proofs -------------------------
(***************************************************************************)
(* The process of watchtower, proved for any number of jobs, workers and    *)
(* events: its rows, its pool and its workers have their types, and a fifo  *)
(* process runs its jobs in the order of the line.  Then both backends as   *)
(* the composition has them.                                                *)
(***************************************************************************)
EXTENDS QueueBackends, RedisQueue_proofs

-----------------------------------------------------------------------------
(* A line, with a row more or less *)

\* `new' is `old' with j at the place p.
HasInserted(new, old, p, j) ==
    /\ Len(new) = Len(old) + 1
    /\ \A q \in DOMAIN new : \/ q < p /\ q \in DOMAIN old /\ new[q] = old[q]
                             \/ q = p /\ new[q] = j
                             \/ q > p /\ q - 1 \in DOMAIN old /\ new[q] = old[q - 1]
    /\ \A q \in DOMAIN old : \/ q < p /\ q \in DOMAIN new /\ new[q] = old[q]
                             \/ q >= p /\ q + 1 \in DOMAIN new /\ new[q + 1] = old[q]
    /\ p \in DOMAIN new

\* `new' is `old' without what stood at the place p.
HasRemoved(new, old, p) ==
    /\ Len(new) = Len(old) - 1
    /\ \A q \in DOMAIN new : \/ q < p /\ q \in DOMAIN old /\ new[q] = old[q]
                             \/ q >= p /\ q + 1 \in DOMAIN old /\ new[q] = old[q + 1]
    /\ \A q \in DOMAIN old : \/ q < p /\ q \in DOMAIN new /\ new[q] = old[q]
                             \/ q = p
                             \/ q > p /\ q - 1 \in DOMAIN new /\ new[q - 1] = old[q]

\* What InsertAt() makes of a line.
LEMMA InsertedAt ==
    ASSUME NEW S, NEW old \in Seq(S), NEW p \in 1..Len(old) + 1, NEW j \in S
    PROVE  InsertAt(old, p, j) \in Seq(S) /\ HasInserted(InsertAt(old, p, j), old, p, j)
  <1> DEFINE head == SubSeq(old, 1, p - 1)
             tail == SubSeq(old, p, Len(old))
             new == InsertAt(old, p, j)
  <1>1. /\ head \in Seq(S) /\ Len(head) = p - 1
        /\ \A q \in 1..p - 1 : head[q] = old[q]
    OBVIOUS
  <1>2. /\ tail \in Seq(S) /\ Len(tail) = Len(old) - p + 1
        /\ \A q \in 1..Len(old) - p + 1 : tail[q] = old[p + q - 1]
    OBVIOUS
  <1>3. new = (head \o <<j>>) \o tail
    BY DEF InsertAt
  <1> HIDE DEF head, tail, new
  <1>4. /\ head \o <<j>> \in Seq(S) /\ Len(head \o <<j>>) = p
        /\ \A q \in 1..p - 1 : (head \o <<j>>)[q] = old[q]
        /\ (head \o <<j>>)[p] = j
    BY <1>1
  <1>5. new \in Seq(S) /\ Len(new) = Len(old) + 1
    BY <1>2, <1>3, <1>4
  <1>6. \A q \in 1..p : new[q] = (head \o <<j>>)[q]
    BY <1>2, <1>3, <1>4
  <1>7. \A q \in p + 1..Len(old) + 1 : new[q] = old[q - 1]
    <2> TAKE q \in p + 1..Len(old) + 1
    <2>1. q - p \in 1..Len(old) - p + 1 /\ p + (q - p) - 1 = q - 1
      OBVIOUS
    <2>2. new[q] = tail[q - p]
      BY <1>2, <1>3, <1>4, <2>1
    <2> QED
      BY <1>2, <2>1, <2>2
  <1>8. \A q \in DOMAIN new : \/ q < p /\ q \in DOMAIN old /\ new[q] = old[q]
                              \/ q = p /\ new[q] = j
                              \/ q > p /\ q - 1 \in DOMAIN old /\ new[q] = old[q - 1]
    BY <1>4, <1>5, <1>6, <1>7
  <1>9. \A q \in DOMAIN old : \/ q < p /\ q \in DOMAIN new /\ new[q] = old[q]
                              \/ q >= p /\ q + 1 \in DOMAIN new /\ new[q + 1] = old[q]
    BY <1>4, <1>5, <1>6, <1>7
  <1>10. p \in DOMAIN new
    BY <1>5
  <1> QED
    BY <1>5, <1>8, <1>9, <1>10 DEF HasInserted, new

\* What RemoveAt() makes of it.
LEMMA RemovedAt ==
    ASSUME NEW S, NEW old \in Seq(S), NEW p \in 1..Len(old)
    PROVE  RemoveAt(old, p) \in Seq(S) /\ HasRemoved(RemoveAt(old, p), old, p)
  <1> DEFINE head == SubSeq(old, 1, p - 1)
             tail == SubSeq(old, p + 1, Len(old))
             new == RemoveAt(old, p)
  <1>1. /\ head \in Seq(S) /\ Len(head) = p - 1
        /\ \A q \in 1..p - 1 : head[q] = old[q]
    OBVIOUS
  <1>2. /\ tail \in Seq(S) /\ Len(tail) = Len(old) - p
        /\ \A q \in 1..Len(old) - p : tail[q] = old[p + q]
    OBVIOUS
  <1>3. new = head \o tail
    BY DEF RemoveAt
  <1> HIDE DEF head, tail, new
  <1>4. new \in Seq(S) /\ Len(new) = Len(old) - 1
    BY <1>1, <1>2, <1>3
  <1>5. \A q \in 1..p - 1 : new[q] = old[q]
    BY <1>1, <1>2, <1>3
  <1>6. \A q \in p..Len(old) - 1 : new[q] = old[q + 1]
    <2> TAKE q \in p..Len(old) - 1
    <2>1. q - (p - 1) \in 1..Len(old) - p /\ p + (q - (p - 1)) = q + 1
      OBVIOUS
    <2>2. new[q] = tail[q - (p - 1)]
      BY <1>1, <1>2, <1>3, <2>1
    <2> QED
      BY <1>2, <2>1, <2>2
  <1>7. \A q \in DOMAIN new : \/ q < p /\ q \in DOMAIN old /\ new[q] = old[q]
                              \/ q >= p /\ q + 1 \in DOMAIN old /\ new[q] = old[q + 1]
    BY <1>4, <1>5, <1>6
  <1>8. \A q \in DOMAIN old : \/ q < p /\ q \in DOMAIN new /\ new[q] = old[q]
                              \/ q = p
                              \/ q > p /\ q - 1 \in DOMAIN new /\ new[q - 1] = old[q]
    <2> TAKE q \in DOMAIN old
    <2>1. CASE q > p
      <3>1. q - 1 \in p..Len(old) - 1 /\ (q - 1) + 1 = q
        BY <2>1
      <3> QED
        BY <1>4, <1>6, <2>1, <3>1
    <2> QED
      BY <1>4, <1>5, <2>1
  <1> QED
    BY <1>4, <1>7, <1>8 DEF HasRemoved, new

\* A row that was not in the line is one of it, once.
LEMMA InsertedSet ==
    ASSUME NEW S, NEW old \in Seq(S), NEW new \in Seq(S), NEW p, NEW j, HasInserted(new, old, p, j)
    PROVE  /\ ToSet(new) = ToSet(old) \cup {j}
           /\ IsInjective(old) /\ j \notin ToSet(old) => IsInjective(new)
  <1>1. ToSet(new) = ToSet(old) \cup {j}
    <2>1. \A q \in DOMAIN new : new[q] \in ToSet(old) \cup {j}
      BY DEF HasInserted, ToSet
    <2>2. \A q \in DOMAIN old : old[q] \in ToSet(new)
      BY DEF HasInserted, ToSet
    <2>3. j \in ToSet(new)
      BY DEF HasInserted, ToSet
    <2> QED
      BY <2>1, <2>2, <2>3 DEF ToSet
  <1>2. ASSUME IsInjective(old), j \notin ToSet(old), NEW q \in DOMAIN new, NEW r \in DOMAIN new,
               new[q] = new[r]
        PROVE  q = r
    BY <1>2 DEF HasInserted, IsInjective, ToSet
  <1> QED
    BY <1>1, <1>2 DEF IsInjective

\* A row that is removed is gone, as no row stands in two places.
LEMMA RemovedSet ==
    ASSUME NEW S, NEW old \in Seq(S), NEW new \in Seq(S), NEW p \in DOMAIN old,
           HasRemoved(new, old, p), IsInjective(old)
    PROVE  ToSet(new) = ToSet(old) \ {old[p]} /\ IsInjective(new)
  <1>1. \A q \in DOMAIN new : new[q] \in ToSet(old) /\ new[q] # old[p]
    BY DEF HasRemoved, IsInjective, ToSet
  <1>2. \A q \in DOMAIN old : old[q] # old[p] => old[q] \in ToSet(new)
    BY DEF HasRemoved, ToSet
  <1>3. ASSUME NEW q \in DOMAIN new, NEW r \in DOMAIN new, new[q] = new[r] PROVE q = r
    BY <1>3 DEF HasRemoved, IsInjective
  <1>4. ToSet(new) \subseteq ToSet(old) \ {old[p]}
    BY <1>1 DEF ToSet
  <1>5. ToSet(old) \ {old[p]} \subseteq ToSet(new)
    BY <1>2 DEF ToSet
  <1> QED
    BY <1>3, <1>4, <1>5 DEF IsInjective

-----------------------------------------------------------------------------
(* The types of watchtower *)

USE WatchtowerAssumption

Outcomes == {"absent", "queued", "cleared", "done", "failed"}

Lives == {"absent"} \cup Alive \cup Dead

Places == {"polling", "cleared", "running"}

\* The rows that stand in line are the queued ones, each once.
LineTyped ==
    /\ line \in Seq(Dispatches) /\ IsInjective(line)
    /\ outcome \in [Dispatches -> Outcomes]
    /\ ToSet(line) = {j \in Dispatches : outcome[j] = "queued"}
    /\ dueCount \in 0..Len(line)

\* What is reserved is due, and is in line.
TakenTyped ==
    /\ taken \subseteq ToSet(line) /\ lapsed \subseteq taken
    /\ \A q \in DOMAIN line : line[q] \in taken => q <= dueCount
    /\ attempts \in [Dispatches -> Nat]

\* A worker runs a job that is reserved for it alone, or that was cleared.
WorkersTyped ==
    /\ place \in [Children -> Places]
    /\ on \in [Children -> Dispatches \cup {NoJob}]
    /\ life \in [Children -> Lives]
    /\ \A c \in Children : on[c] # NoJob <=> place[c] = "running"
    /\ \A c \in Children : place[c] # "polling" => life[c] \in Alive

OnTaken ==
    /\ \A c \in Children : on[c] \in ToSet(line) => on[c] \in taken \ lapsed
    /\ \A c \in Children : on[c] # NoJob => outcome[on[c]] \in {"queued", "cleared"}
    /\ \A c, d \in Children : c # d /\ on[c] # NoJob => on[c] # on[d]

\* The pool has no more workers than its process may have.
PoolTyped ==
    /\ fifo \in BOOLEAN /\ paused \in BOOLEAN
    /\ failures \in 0..2 /\ exits \in Nat
    /\ Cardinality({c \in Children : life[c] # "absent"}) <= WorkerCountFor(fifo)

WatchTyped == LineTyped /\ TakenTyped /\ WorkersTyped /\ OnTaken /\ PoolTyped

\* Where a row stands.
LEMMA PositionOf ==
    ASSUME NEW j \in ToSet(line)
    PROVE  Position(j) \in DOMAIN line /\ line[Position(j)] = j
  <1>1. \E p \in DOMAIN line : line[p] = j
    BY DEF ToSet
  <1> QED
    BY <1>1 DEF Position

\* At the start there is no row, no worker and no job in hand.
LEMMA WatchTypedInit == WatchInit => WatchTyped
  <1> SUFFICES ASSUME WatchInit PROVE WatchTyped
    OBVIOUS
  <1> USE DEF WatchInit
  <1>1. ToSet(line) = {} /\ line \in Seq(Dispatches) /\ Len(line) = 0 /\ IsInjective(line)
    BY DEF ToSet, IsInjective
  <1>2. LineTyped
    BY <1>1 DEF LineTyped, Outcomes
  <1>3. TakenTyped
    BY <1>1 DEF TakenTyped
  <1>4. WorkersTyped
    BY DEF WorkersTyped, Places, Lives
  <1>5. OnTaken
    BY <1>1 DEF OnTaken
  <1>6. PoolTyped
    <2>1. Cardinality({c \in Children : life[c] # "absent"}) = 0
      <3>1. {c \in Children : life[c] # "absent"} = {}
        OBVIOUS
      <3> QED
        BY <3>1, FS_EmptySet
    <2>2. WorkerCountFor(fifo) \in Nat
      BY DEF WorkerCountFor
    <2>3. failures \in 0..2 /\ exits \in Nat
      OBVIOUS
    <2>4. fifo \in BOOLEAN /\ paused \in BOOLEAN
      BY Zenon
    <2>5. Cardinality({c \in Children : life[c] # "absent"}) <= WorkerCountFor(fifo)
      BY <2>1, <2>2
    <2> QED
      BY <2>3, <2>4, <2>5 DEF PoolTyped
  <1> QED
    BY <1>2, <1>3, <1>4, <1>5, <1>6 DEF WatchTyped

\* A row that comes into the line: behind the due ones or among the others.
LEMMA WatchInsert ==
    ASSUME WatchTyped, NEW j \in Dispatches, InsertRow(j), outcome[j] \in {"absent", "failed"}
    PROVE  WatchTyped'
  <1> USE DEF WatchTyped
  <1>1. /\ UNCHANGED <<taken, lapsed, place, on, life, fifo, paused, failures, exits>>
        /\ attempts' = [attempts EXCEPT ![j] = 0]
        /\ outcome' = [outcome EXCEPT ![j] = "queued"]
    BY DEF InsertRow, poolVars, workerVars
  <1>2. PICK p \in dueCount + 1..Len(line) + 1 :
          /\ line' = InsertAt(line, p, j)
          /\ (dueCount' = dueCount + 1 /\ p = dueCount + 1) \/ dueCount' = dueCount
    <2>1. dueCount + 1 \in dueCount + 1..Len(line) + 1
      BY DEF LineTyped
    <2> QED
      BY <2>1, Zenon DEF InsertRow
  <1>3. p \in 1..Len(line) + 1
    BY <1>2 DEF LineTyped
  <1>4. line' \in Seq(Dispatches) /\ HasInserted(line', line, p, j)
    BY <1>2, <1>3, InsertedAt DEF LineTyped
  <1>5. j \notin ToSet(line)
    BY DEF LineTyped
  <1>6. ToSet(line') = ToSet(line) \cup {j} /\ IsInjective(line')
    BY <1>4, <1>5, InsertedSet DEF LineTyped
  <1>7. LineTyped'
    <2>1. outcome' \in [Dispatches -> Outcomes]
      BY <1>1 DEF LineTyped, Outcomes
    <2>2. {i \in Dispatches : outcome'[i] = "queued"} = ToSet(line')
      BY <1>1, <1>6 DEF LineTyped
    <2>3. dueCount' \in 0..Len(line')
      BY <1>2, <1>4 DEF LineTyped, HasInserted
    <2> QED
      BY <1>4, <1>6, <2>1, <2>2, <2>3 DEF LineTyped
  <1>8. TakenTyped'
    <2>1. attempts' \in [Dispatches -> Nat]
      BY <1>1 DEF TakenTyped
    <2>2. j \notin taken
      BY <1>5 DEF TakenTyped
    <2>3. ASSUME NEW q \in DOMAIN line', line'[q] \in taken PROVE q <= dueCount'
      <3>1. /\ q \in Nat /\ p \in Nat /\ p > dueCount
            /\ dueCount \in Nat /\ dueCount' \in Nat /\ dueCount' >= dueCount
        BY <1>2, <1>4 DEF LineTyped
      <3>2. CASE q < p /\ q \in DOMAIN line /\ line'[q] = line[q]
        BY <2>3, <3>1, <3>2 DEF TakenTyped
      <3>3. CASE q > p /\ q - 1 \in DOMAIN line /\ line'[q] = line[q - 1]
        <4>1. q - 1 <= dueCount
          BY <2>3, <3>3 DEF TakenTyped
        <4> QED
          BY <3>1, <3>3, <4>1
      <3> QED
        BY <1>4, <2>2, <2>3, <3>2, <3>3 DEF HasInserted
    <2> QED
      BY <1>1, <1>6, <2>1, <2>3 DEF TakenTyped
  <1>9. WorkersTyped' /\ PoolTyped'
    BY <1>1 DEF WorkersTyped, PoolTyped
  <1>10. OnTaken'
    <2>1. \A c \in Children : on[c] # j
      BY DEF OnTaken, WorkersTyped
    <2> QED
      BY <1>1, <1>6, <2>1 DEF OnTaken, WorkersTyped, LineTyped
  <1> QED
    BY <1>7, <1>8, <1>9, <1>10

\* queue:clear leaves a worker with a job that has no row.
LEMMA WatchClearTyped ==
    ASSUME WatchTyped, WatchClear
    PROVE  WatchTyped'
  <1> USE DEF WatchTyped
  <1>1. /\ line' = <<>> /\ dueCount' = 0 /\ taken' = {} /\ lapsed' = {}
        /\ outcome' = [j \in Dispatches |-> IF j \in ToSet(line) THEN "cleared" ELSE outcome[j]]
        /\ UNCHANGED <<attempts, place, on, life, fifo, paused, failures, exits>>
    BY DEF WatchClear, poolVars, workerVars
  <1>2. ToSet(line') = {} /\ line' \in Seq(Dispatches) /\ IsInjective(line') /\ Len(line') = 0
    BY <1>1 DEF ToSet, IsInjective
  <1>3. outcome' \in [Dispatches -> Outcomes] /\ \A j \in Dispatches : outcome'[j] # "queued"
    BY <1>1 DEF LineTyped, Outcomes
  <1>4. LineTyped'
    BY <1>1, <1>2, <1>3 DEF LineTyped
  <1>5. TakenTyped'
    BY <1>1, <1>2 DEF TakenTyped
  <1>6. WorkersTyped' /\ PoolTyped'
    BY <1>1 DEF WorkersTyped, PoolTyped
  <1>7. OnTaken'
    BY <1>1, <1>2 DEF OnTaken, WorkersTyped
  <1> QED
    BY <1>4, <1>5, <1>6, <1>7

\* A set of places has a first one.
LEMMA LeastOf ==
    ASSUME NEW S \in SUBSET Nat, S # {}
    PROVE  \E p \in S : \A q \in S : p <= q
  <1> DEFINE T == {0..p : p \in S}
             R == StrictSubsetOrdering(Nat)
  <1>1. T \subseteq FiniteSubsetsOf(Nat) /\ T # {}
    <2>1. \A p \in S : 0..p \in SUBSET Nat /\ IsFiniteSet(0..p)
      BY FS_Interval
    <2> QED
      BY <2>1 DEF FiniteSubsetsOf
  <1>2. IsWellFoundedOn(R, FiniteSubsetsOf(Nat))
    BY FS_StrictSubsetOrderingWellFounded
  <1> HIDE DEF T, R
  <1>3. PICK x \in T : \A y \in T : ~ (<<y, x>> \in R)
    BY <1>1, <1>2, WFMin
  <1>4. PICK p \in S : x = 0..p
    BY <1>3 DEF T
  <1>5. ASSUME NEW q \in S, q < p PROVE FALSE
    <2>1. 0..q \in T /\ 0..q \in SUBSET Nat /\ 0..p \in SUBSET Nat
      BY DEF T
    <2>2. 0..q \subseteq 0..p /\ p \in 0..p /\ p \notin 0..q
      BY <1>5
    <2>3. <<0..q, 0..p>> \in R
      BY <2>1, <2>2 DEF R, StrictSubsetOrdering
    <2> QED
      BY <1>3, <1>4, <2>1, <2>3
  <1> QED
    BY <1>5

\* There is a first row that a worker may take.
LEMMA EligibleFirst ==
    ASSUME LineTyped, Eligible # {}
    PROVE  LET p == CHOOSE p \in Eligible : \A q \in Eligible : p <= q
           IN  p \in Eligible /\ \A q \in Eligible : p <= q
  <1>1. Eligible \in SUBSET Nat
    BY DEF Eligible, LineTyped
  <1>2. \E p \in Eligible : \A q \in Eligible : p <= q
    BY <1>1, LeastOf
  <1> QED
    BY <1>2

\* A worker takes the first row that is not reserved, or whose reservation has run out.
LEMMA WatchPopTyped ==
    ASSUME WatchTyped, NEW c \in Children, PopFor(c)
    PROVE  WatchTyped'
  <1> USE DEF WatchTyped
  <1>1. /\ UNCHANGED <<fifo, life, failures, exits, paused, line, dueCount, outcome>>
        /\ place[c] = "cleared" /\ life[c] \in Alive /\ on[c] = NoJob
    BY Zenon DEF PopFor, poolVars, rowVars, WorkersTyped
  <1>2. CASE Eligible = {}
    <2>1. place' = [place EXCEPT ![c] = "polling"] /\ UNCHANGED <<taken, lapsed, attempts, on>>
      BY <1>2 DEF PopFor, rowVars
    <2>2. LineTyped' /\ TakenTyped' /\ OnTaken' /\ PoolTyped'
      BY <1>1, <2>1 DEF LineTyped, TakenTyped, OnTaken, PoolTyped
    <2>3. WorkersTyped'
      BY <1>1, <2>1 DEF WorkersTyped, Places
    <2> QED
      BY <2>2, <2>3
  <1>3. CASE Eligible # {}
    <2> DEFINE j == line[CHOOSE p \in Eligible : \A q \in Eligible : p <= q]
    <2>1. /\ place' = [place EXCEPT ![c] = "running"]
          /\ on' = [on EXCEPT ![c] = j]
          /\ attempts' = [attempts EXCEPT ![j] = @ + IF j \in taken THEN 1 ELSE 0]
          /\ taken' = taken \cup {j} /\ lapsed' = lapsed \ {j}
      BY <1>3 DEF PopFor
    <2>2. \E p \in Eligible : j = line[p]
      BY <1>3, EligibleFirst
    <2> HIDE DEF j
    <2>3. PICK p \in DOMAIN line : j = line[p] /\ p <= dueCount /\ (j \notin taken \/ j \in lapsed)
      BY <2>2 DEF Eligible, LineTyped
    <2>4. j \in Dispatches /\ j \in ToSet(line) /\ outcome[j] = "queued" /\ j # NoJob
      BY <2>3 DEF LineTyped, ToSet
    <2>5. \A d \in Children : on[d] # j
      BY <2>3, <2>4 DEF OnTaken
    <2>6. TakenTyped'
      <3>1. attempts' \in [Dispatches -> Nat]
        BY <2>1, <2>4 DEF TakenTyped
      <3>2. ASSUME NEW q \in DOMAIN line, line[q] \in taken \cup {j} PROVE q <= dueCount
        BY <2>3, <3>2 DEF TakenTyped, LineTyped, IsInjective
      <3> QED
        BY <1>1, <2>1, <2>4, <3>1, <3>2 DEF TakenTyped
    <2>7. /\ on'[c] = j /\ place'[c] = "running"
          /\ \A d \in Children \ {c} : on'[d] = on[d] /\ place'[d] = place[d]
      BY <2>1 DEF WorkersTyped
    <2>8. WorkersTyped'
      BY <1>1, <2>1, <2>4, <2>7 DEF WorkersTyped, Places
    <2>9. OnTaken'
      BY <1>1, <2>1, <2>4, <2>5, <2>7 DEF OnTaken
    <2>10. LineTyped' /\ PoolTyped'
      BY <1>1 DEF LineTyped, PoolTyped
    <2> QED
      BY <2>6, <2>8, <2>9, <2>10
  <1> QED
    BY <1>2, <1>3

\* The end of a job leaves every other worker with its own.
LEMMA WatchEndsJob ==
    ASSUME WatchTyped, NEW c \in Children, EndsJob(c), ToSet(line') \subseteq ToSet(line),
           \A j \in Dispatches \ {on[c]} : outcome'[j] = outcome[j]
    PROVE  WorkersTyped' /\ OnTaken' /\ PoolTyped'
  <1> USE DEF WatchTyped
  <1>1. /\ place' = [place EXCEPT ![c] = "polling"] /\ on' = [on EXCEPT ![c] = NoJob]
        /\ taken' = taken \ {on[c]} /\ UNCHANGED <<fifo, life, failures, exits, paused, lapsed>>
    BY DEF EndsJob, poolVars
  <1>2. /\ on'[c] = NoJob /\ place'[c] = "polling"
        /\ \A d \in Children \ {c} : on'[d] = on[d] /\ place'[d] = place[d]
    BY <1>1 DEF WorkersTyped
  <1>3. WorkersTyped'
    BY <1>1, <1>2 DEF WorkersTyped, Places
  <1>4. NoJob \notin ToSet(line)
    BY DEF LineTyped
  <1>5. \A d \in Children \ {c} : on[d] # NoJob => on[d] # on[c] /\ on[d] \in Dispatches
    BY DEF OnTaken, WorkersTyped
  <1>6. OnTaken'
    <2>1. ASSUME NEW d \in Children, on'[d] \in ToSet(line') PROVE on'[d] \in taken' \ lapsed'
      <3>1. d # c /\ on'[d] = on[d] /\ on[d] \in ToSet(line) /\ on[d] # NoJob
        BY <1>2, <1>4, <2>1
      <3> QED
        BY <1>1, <1>5, <3>1 DEF OnTaken
    <2>2. ASSUME NEW d \in Children, on'[d] # NoJob
          PROVE  outcome'[on'[d]] \in {"queued", "cleared"}
      <3>1. d # c /\ on'[d] = on[d]
        BY <1>2, <2>2
      <3> QED
        BY <1>5, <2>2, <3>1 DEF OnTaken
    <2>3. ASSUME NEW d \in Children, NEW e \in Children, d # e, on'[d] # NoJob
          PROVE  on'[d] # on'[e]
      BY <1>2, <2>3 DEF OnTaken
    <2> QED
      BY <2>1, <2>2, <2>3 DEF OnTaken
  <1>7. PoolTyped'
    BY <1>1 DEF PoolTyped
  <1> QED
    BY <1>3, <1>6, <1>7

\* A job that is done or failed leaves the line.
LEMMA WatchRemove ==
    ASSUME WatchTyped, NEW c \in Children, EndsJob(c), RemoveRow(on[c]),
           NEW how \in {"done", "failed"}, outcome' = [outcome EXCEPT ![on[c]] = how],
           UNCHANGED attempts
    PROVE  WatchTyped'
  <1> USE DEF WatchTyped
  <1> DEFINE j == on[c]
  <1>1. j \in Dispatches /\ taken' = taken \ {j} /\ lapsed' = lapsed
    BY DEF EndsJob, WorkersTyped
  <1>2. outcome' \in [Dispatches -> Outcomes] /\ outcome'[j] = how
        /\ \A i \in Dispatches \ {j} : outcome'[i] = outcome[i]
    BY <1>1 DEF LineTyped, Outcomes
  <1>3. j \notin lapsed
    BY DEF TakenTyped, OnTaken
  <1>4. CASE j \in ToSet(line)
    <2>1. Position(j) \in DOMAIN line /\ line[Position(j)] = j
      BY <1>4, PositionOf
    <2>2. line' = RemoveAt(line, Position(j)) /\ dueCount' = dueCount - 1
      BY <1>4 DEF RemoveRow
    <2>3. line' \in Seq(Dispatches) /\ HasRemoved(line', line, Position(j))
      BY <2>1, <2>2, RemovedAt DEF LineTyped
    <2>4. ToSet(line') = ToSet(line) \ {j} /\ IsInjective(line')
      BY <2>1, <2>3, RemovedSet DEF LineTyped
    <2>5. Position(j) <= dueCount
      BY <1>4, <2>1 DEF OnTaken, TakenTyped
    <2> HIDE DEF j
    <2>6. LineTyped'
      <3>1. ToSet(line') = {i \in Dispatches : outcome'[i] = "queued"}
        BY <1>1, <1>2, <2>4 DEF LineTyped
      <3>2. dueCount' \in 0..Len(line')
        BY <2>1, <2>2, <2>3, <2>5 DEF LineTyped, HasRemoved
      <3> QED
        BY <1>2, <2>3, <2>4, <3>1, <3>2 DEF LineTyped
    <2>7. TakenTyped'
      <3>1. ASSUME NEW q \in DOMAIN line', line'[q] \in taken PROVE q <= dueCount'
        <4>1. q \in Nat /\ Position(j) \in Nat /\ dueCount \in Nat
          BY <2>1, <2>3 DEF LineTyped
        <4>2. CASE q < Position(j) /\ q \in DOMAIN line /\ line'[q] = line[q]
          BY <2>2, <2>5, <4>1, <4>2
        <4>3. CASE q >= Position(j) /\ q + 1 \in DOMAIN line /\ line'[q] = line[q + 1]
          <5>1. q + 1 <= dueCount
            BY <3>1, <4>3 DEF TakenTyped
          <5> QED
            BY <2>2, <4>1, <5>1
        <4> QED
          BY <2>3, <4>2, <4>3 DEF HasRemoved
      <3> QED
        BY <1>1, <1>3, <2>4, <3>1 DEF TakenTyped
    <2>8. ToSet(line') \subseteq ToSet(line)
      BY <2>4
    <2>9. WorkersTyped' /\ OnTaken' /\ PoolTyped'
      BY <1>2, <2>8, WatchEndsJob DEF j
    <2> QED
      BY <2>6, <2>7, <2>9
  <1>5. CASE j \notin ToSet(line)
    <2>1. UNCHANGED <<line, dueCount>>
      BY <1>5 DEF RemoveRow
    <2>2. j \notin taken
      BY <1>5 DEF TakenTyped
    <2>3. LineTyped'
      BY <1>1, <1>2, <1>5, <2>1 DEF LineTyped
    <2>4. TakenTyped'
      BY <1>1, <2>1, <2>2 DEF TakenTyped
    <2>5. WorkersTyped' /\ OnTaken' /\ PoolTyped'
      BY <1>2, <2>1, WatchEndsJob
    <2> QED
      BY <2>3, <2>4, <2>5
  <1> QED
    BY <1>4, <1>5

\* A job that is released stands in line anew, no longer reserved.
LEMMA WatchRelease ==
    ASSUME WatchTyped, NEW c \in Children, on[c] # NoJob, ReleaseRow(c)
    PROVE  WatchTyped'
  <1> USE DEF WatchTyped
  <1> DEFINE j == on[c]
  <1>1. /\ j \in Dispatches /\ EndsJob(c) /\ outcome' = outcome
        /\ taken' = taken \ {j} /\ lapsed' = lapsed
    BY DEF ReleaseRow, EndsJob, WorkersTyped
  <1>2. j \notin lapsed
    BY DEF TakenTyped, OnTaken
  <1>3. CASE j \in ToSet(line)
    <2> DEFINE at == Position(j)
               others == RemoveAt(line, at)
    <2>1. at \in DOMAIN line /\ line[at] = j
      BY <1>3, PositionOf
    <2>2. at <= dueCount /\ at \in 1..Len(line) /\ dueCount \in 1..Len(line)
      BY <1>3, <2>1 DEF OnTaken, TakenTyped, LineTyped
    <2>3. /\ \/ /\ \E p \in at..dueCount : line' = InsertAt(others, p, j)
                /\ UNCHANGED dueCount
             \/ /\ \E p \in dueCount..Len(line) : line' = InsertAt(others, p, j)
                /\ dueCount' = dueCount - 1
          /\ attempts' = [attempts EXCEPT ![j] = @ + 1]
      BY <1>3, Zenon DEF ReleaseRow
    <2>4. others \in Seq(Dispatches) /\ HasRemoved(others, line, at)
      BY <2>1, RemovedAt DEF LineTyped
    <2>5. ToSet(others) = ToSet(line) \ {j} /\ IsInjective(others)
      BY <2>1, <2>4, RemovedSet DEF LineTyped
    <2> HIDE DEF j, at, others
    <2> DEFINE Placed(p) == line' = InsertAt(others, p, j)
    <2>6. PICK p \in 1..Len(line) :
            /\ Placed(p)
            /\ \/ p <= dueCount /\ dueCount' = dueCount
               \/ p >= dueCount /\ dueCount' = dueCount - 1
      <3>1. \/ (\E p \in at..dueCount : Placed(p)) /\ dueCount' = dueCount
            \/ (\E p \in dueCount..Len(line) : Placed(p)) /\ dueCount' = dueCount - 1
        BY <2>3, Zenon
      <3> HIDE DEF Placed
      <3> QED
        BY <2>2, <3>1
    <2>7. Len(others) = Len(line) - 1 /\ p \in 1..Len(others) + 1
      BY <2>4 DEF HasRemoved, LineTyped
    <2>8. line' \in Seq(Dispatches) /\ HasInserted(line', others, p, j)
      BY <1>1, <2>4, <2>6, <2>7, InsertedAt
    <2>9. ToSet(line') = ToSet(others) \cup {j} /\ IsInjective(line')
      BY <2>4, <2>5, <2>8, InsertedSet
    <2>10. ToSet(line') = ToSet(line)
      BY <1>3, <2>5, <2>9
    <2>11. Len(line') = Len(line) /\ dueCount' \in 0..Len(line)
      BY <2>2, <2>6, <2>7, <2>8 DEF HasInserted, LineTyped
    <2>12. LineTyped'
      BY <1>1, <2>8, <2>9, <2>10, <2>11 DEF LineTyped
    <2>13. TakenTyped'
      <3>1. attempts' \in [Dispatches -> Nat]
        BY <1>1, <2>3 DEF TakenTyped
      <3>2. \A r \in DOMAIN others : others[r] \in taken => r <= dueCount - 1
        <4> SUFFICES ASSUME NEW r \in DOMAIN others, others[r] \in taken PROVE r <= dueCount - 1
          OBVIOUS
        <4>1. r \in Nat /\ at \in Nat /\ dueCount \in Nat
          BY <2>2, <2>4
        <4>2. CASE r < at
          BY <2>2, <4>1, <4>2
        <4>3. CASE r >= at /\ r + 1 \in DOMAIN line /\ others[r] = line[r + 1]
          <5>1. r + 1 <= dueCount
            BY <4>3 DEF TakenTyped
          <5> QED
            BY <4>1, <5>1
        <4> QED
          BY <2>4, <4>1, <4>2, <4>3 DEF HasRemoved
      <3>3. ASSUME NEW q \in DOMAIN line', line'[q] \in taken \ {j} PROVE q <= dueCount'
        <4>1. q \in Nat /\ p \in Nat /\ dueCount \in Nat /\ dueCount' \in Nat
          BY <2>2, <2>8, <2>11
        <4>2. CASE q < p /\ q \in DOMAIN others /\ line'[q] = others[q]
          <5>1. q <= dueCount - 1
            BY <3>2, <3>3, <4>2
          <5> QED
            BY <2>6, <4>1, <5>1
        <4>3. CASE q > p /\ q - 1 \in DOMAIN others /\ line'[q] = others[q - 1]
          <5>1. q - 1 <= dueCount - 1
            BY <3>2, <3>3, <4>3
          <5> QED
            BY <2>6, <4>1, <4>3, <5>1
        <4> QED
          BY <2>8, <3>3, <4>2, <4>3 DEF HasInserted
      <3> QED
        BY <1>1, <1>2, <2>10, <3>1, <3>3 DEF TakenTyped
    <2>14. WorkersTyped' /\ OnTaken' /\ PoolTyped'
      BY <1>1, <2>10, WatchEndsJob DEF j
    <2> QED
      BY <2>12, <2>13, <2>14
  <1>4. CASE j \notin ToSet(line)
    <2>1. UNCHANGED <<line, dueCount, attempts>>
      BY <1>4 DEF ReleaseRow
    <2>2. LineTyped'
      BY <1>1, <2>1 DEF LineTyped
    <2>3. TakenTyped'
      BY <1>1, <1>4, <2>1 DEF TakenTyped
    <2>4. WorkersTyped' /\ OnTaken' /\ PoolTyped'
      BY <1>1, <2>1, WatchEndsJob
    <2> QED
      BY <2>2, <2>3, <2>4
  <1> QED
    BY <1>3, <1>4

\* The pool counts its workers, the dead among them.
LEMMA PoolFinite ==
    ASSUME NEW S \in SUBSET Children
    PROVE  IsFiniteSet(S) /\ Cardinality(S) \in Nat
  BY FS_Subset, FS_CardinalityType

\* A worker that leaves keeps its place in the pool until it is reaped.
LEMMA WatchLeaves ==
    ASSUME WatchTyped, NEW c \in Children, Leaves(c)
    PROVE  WatchTyped'
  <1> USE DEF WatchTyped
  <1>1. /\ life[c] \in Alive
        /\ life' = [life EXCEPT ![c] = IF @ = "young" THEN "dead young" ELSE "dead old"]
        /\ place' = [place EXCEPT ![c] = "polling"] /\ on' = [on EXCEPT ![c] = NoJob]
        /\ UNCHANGED <<fifo, line, dueCount, taken, lapsed, attempts, outcome, failures, exits,
                       paused>>
    BY DEF Leaves, rowVars
  <1>2. /\ life'[c] \in Dead /\ place'[c] = "polling" /\ on'[c] = NoJob
        /\ \A d \in Children \ {c} :
              life'[d] = life[d] /\ place'[d] = place[d] /\ on'[d] = on[d]
    BY <1>1 DEF WorkersTyped, Dead
  <1>3. WorkersTyped'
    <2>1. life' \in [Children -> Lives] /\ place' \in [Children -> Places]
      BY <1>1 DEF WorkersTyped, Lives, Places, Dead
    <2> QED
      BY <1>1, <1>2, <2>1 DEF WorkersTyped
  <1>4. OnTaken'
    <2>1. NoJob \notin ToSet(line)
      BY DEF LineTyped
    <2>2. \A d \in Children : on'[d] = on[d] \/ on'[d] = NoJob
      BY <1>2
    <2>3. ASSUME NEW d \in Children, on'[d] \in ToSet(line') PROVE on'[d] \in taken' \ lapsed'
      BY <1>1, <2>1, <2>2, <2>3 DEF OnTaken
    <2>4. ASSUME NEW d \in Children, on'[d] # NoJob
          PROVE  outcome'[on'[d]] \in {"queued", "cleared"}
      BY <1>1, <2>2, <2>4 DEF OnTaken
    <2>5. ASSUME NEW d \in Children, NEW e \in Children, d # e, on'[d] # NoJob
          PROVE  on'[d] # on'[e]
      BY <2>2, <2>5 DEF OnTaken
    <2> QED
      BY <2>3, <2>4, <2>5 DEF OnTaken
  <1>5. LineTyped' /\ TakenTyped'
    BY <1>1 DEF LineTyped, TakenTyped
  <1>6. PoolTyped'
    <2>1. {d \in Children : life'[d] # "absent"} = {d \in Children : life[d] # "absent"}
      BY <1>1, <1>2 DEF Alive, Dead
    <2> QED
      BY <1>1, <2>1 DEF PoolTyped
  <1> QED
    BY <1>3, <1>4, <1>5, <1>6

\* reap() and the spawning after it keep the pool within its size.
LEMMA WatchTick ==
    ASSUME WatchTyped, Tick
    PROVE  WatchTyped'
  <1> USE DEF WatchTyped
  <1> DEFINE dead == {c \in Children : life[c] \in Dead}
             here == {c \in Children : life[c] \in Alive}
             size == WorkerCountFor(fifo)
  <1>1. /\ Reap(dead)
        /\ UNCHANGED <<fifo, line, dueCount, taken, lapsed, attempts, outcome, place, on, paused>>
    BY DEF Tick, rowVars, workerVars
  <1>2. PICK new \in Spawned(here) \cup {{}} :
          life' = [c \in Children |-> CASE c \in new -> "young"
                                        [] c \in here -> life[c]
                                        [] OTHER -> "absent"]
    BY DEF Tick
  <1>3. new \in SUBSET Children /\ (new = {} \/ Cardinality(here \cup new) = size)
    BY <1>2 DEF Spawned
  <1>4. \A c \in Children : /\ c \in new => life'[c] = "young"
                            /\ c \in here \ new => life'[c] = life[c]
                            /\ c \notin here \cup new => life'[c] = "absent"
    <2> TAKE c \in Children
    <2> HIDE DEF here
    <2>1. life'[c] = CASE c \in new -> "young"
                       [] c \in here -> life[c]
                       [] OTHER -> "absent"
      BY <1>2
    <2>2. c \in here => c \notin new
      BY <1>2 DEF Spawned
    <2> QED
      BY <2>1, <2>2
  <1>5. WorkersTyped'
    <2>1. life' \in [Children -> Lives]
      BY <1>2 DEF WorkersTyped, Lives, Alive
    <2>2. \A c \in Children : place'[c] # "polling" => life'[c] \in Alive
      BY <1>1, <1>4 DEF WorkersTyped, Alive
    <2> QED
      BY <1>1, <2>1, <2>2 DEF WorkersTyped
  <1>6. LineTyped' /\ TakenTyped' /\ OnTaken'
    BY <1>1 DEF LineTyped, TakenTyped, OnTaken
  <1>7. failures' \in 0..2 /\ exits' \in Nat
    <2> HIDE DEF dead
    <2>1. Cardinality(dead) \in Nat /\ Cardinality({c \in dead : life[c] = "dead young"}) \in Nat
      BY PoolFinite DEF dead
    <2> DEFINE young == Cardinality({c \in dead : life[c] = "dead young"})
    <2>2. \/ failures' = failures /\ exits' = exits
          \/ /\ \/ \E k \in 0..young : failures' = Least(k, 2)
                \/ failures' = Least(failures + young, 2)
             /\ exits' = exits + Cardinality(dead)
      BY <1>1, Zenon DEF Reap
    <2>3. young \in Nat /\ failures \in 0..2 /\ exits \in Nat
      BY <2>1 DEF PoolTyped
    <2> HIDE DEF young, WatchTyped
    <2>4. exits' \in {exits, exits + Cardinality(dead)}
      BY <2>2, Zenon
    <2>5. exits' \in Nat
      <3>1. PICK n \in Nat : n = Cardinality(dead)
        BY <2>1, Zenon
      <3>2. exits + n \in Nat
        BY <2>3
      <3> QED
        BY <2>3, <2>4, <3>1, <3>2, Zenon
    <2>6. failures' \in 0..2
      <3>1. \A k \in Nat : Least(k, 2) \in 0..2
        BY DEF Least
      <3>2. failures + young \in Nat /\ 0..young \subseteq Nat
        BY <2>3
      <3> QED
        BY <2>2, <2>3, <3>1, <3>2
    <2> QED
      BY <2>5, <2>6
  <1>8. Cardinality({c \in Children : life'[c] # "absent"}) <= size
    <2>1. {c \in Children : life'[c] # "absent"} = here \cup new
      BY <1>3, <1>4 DEF Alive
    <2>2. CASE new = {}
      <3>1. here \subseteq {c \in Children : life[c] # "absent"}
        BY DEF Alive
      <3>2. Cardinality(here) <= Cardinality({c \in Children : life[c] # "absent"})
        BY <3>1, PoolFinite, FS_Subset
      <3>3. Cardinality(here) \in Nat /\ Cardinality({c \in Children : life[c] # "absent"}) \in Nat
        BY PoolFinite
      <3>4. size \in Nat
        BY DEF WorkerCountFor
      <3> QED
        BY <2>1, <2>2, <3>2, <3>3, <3>4 DEF PoolTyped
    <2>3. CASE new # {}
      <3>1. Cardinality(here \cup new) = size /\ size \in Nat
        BY <1>3, <2>3 DEF WorkerCountFor
      <3> QED
        BY <2>1, <3>1
    <2> QED
      BY <2>2, <2>3
  <1>9. PoolTyped'
    BY <1>1, <1>7, <1>8 DEF PoolTyped
  <1> QED
    BY <1>5, <1>6, <1>9

\* Time passes for the rows: one comes due, or the reservation of a dead worker runs out.
LEMMA WatchTime ==
    ASSUME WatchTyped, ComesDue \/ ReservationOver
    PROVE  WatchTyped'
  <1> USE DEF WatchTyped
  <1>1. CASE ComesDue
    <2>1. /\ dueCount < Len(line) /\ dueCount' = dueCount + 1
          /\ UNCHANGED <<fifo, line, taken, lapsed, attempts, outcome, life, failures, exits,
                         place, on, paused>>
      BY <1>1 DEF ComesDue, poolVars, workerVars
    <2>2. dueCount' \in 0..Len(line) /\ dueCount \in Nat
      BY <2>1 DEF LineTyped
    <2>3. LineTyped'
      BY <2>1, <2>2 DEF LineTyped
    <2>4. TakenTyped'
      <3>1. ASSUME NEW q \in DOMAIN line, line[q] \in taken PROVE q <= dueCount'
        <4>1. q \in Nat /\ q <= dueCount
          BY <3>1 DEF TakenTyped, LineTyped
        <4> QED
          BY <2>1, <2>2, <4>1
      <3> QED
        BY <2>1, <3>1 DEF TakenTyped
    <2>5. WorkersTyped' /\ OnTaken' /\ PoolTyped'
      BY <2>1 DEF WorkersTyped, OnTaken, PoolTyped
    <2> QED
      BY <2>3, <2>4, <2>5
  <1>2. CASE ReservationOver
    <2>1. PICK j \in Abandoned : lapsed' = lapsed \cup {j}
      BY <1>2 DEF ReservationOver
    <2>2. UNCHANGED <<fifo, line, dueCount, taken, attempts, outcome, life, failures, exits,
                      place, on, paused>>
      BY <1>2 DEF ReservationOver, poolVars, workerVars
    <2>3. j \in taken /\ \A c \in Children : on[c] # j
      BY DEF Abandoned
    <2>4. LineTyped' /\ TakenTyped'
      BY <2>1, <2>2, <2>3 DEF LineTyped, TakenTyped
    <2>5. WorkersTyped' /\ PoolTyped'
      BY <2>2 DEF WorkersTyped, PoolTyped
    <2>6. OnTaken'
      BY <2>1, <2>2, <2>3 DEF OnTaken
    <2> QED
      BY <2>4, <2>5, <2>6
  <1> QED
    BY <1>1, <1>2

\* A worker looks whether its process is paused, or has lived long enough to count as stable.
LEMMA WatchLooks ==
    ASSUME WatchTyped, NEW c \in Children, Look(c) \/ Survives(c)
    PROVE  WatchTyped'
  <1> USE DEF WatchTyped
  <1>1. CASE Look(c)
    <2>1. /\ life[c] \in Alive /\ place[c] = "polling"
          /\ place' = [place EXCEPT ![c] = "cleared"]
          /\ UNCHANGED <<fifo, line, dueCount, taken, lapsed, attempts, outcome, life, failures,
                         exits, on, paused>>
      BY <1>1 DEF Look, rowVars, poolVars
    <2>2. LineTyped' /\ TakenTyped' /\ OnTaken' /\ PoolTyped'
      BY <2>1 DEF LineTyped, TakenTyped, OnTaken, PoolTyped
    <2>3. WorkersTyped'
      BY <2>1 DEF WorkersTyped, Places
    <2> QED
      BY <2>2, <2>3
  <1>2. CASE Survives(c)
    <2>1. /\ life[c] = "young" /\ life' = [life EXCEPT ![c] = "old"]
          /\ UNCHANGED <<fifo, line, dueCount, taken, lapsed, attempts, outcome, failures,
                         exits, place, on, paused>>
      BY <1>2 DEF Survives, rowVars, workerVars
    <2>2. LineTyped' /\ TakenTyped' /\ OnTaken'
      BY <2>1 DEF LineTyped, TakenTyped, OnTaken
    <2>3. WorkersTyped'
      BY <2>1 DEF WorkersTyped, Lives, Alive
    <2>4. {d \in Children : life'[d] # "absent"} = {d \in Children : life[d] # "absent"}
      BY <2>1 DEF WorkersTyped
    <2>5. PoolTyped'
      BY <2>1, <2>4 DEF PoolTyped
    <2> QED
      BY <2>2, <2>3, <2>5
  <1> QED
    BY <1>1, <1>2

\* What touches neither the rows nor the workers.
LEMMA WatchSignals ==
    ASSUME WatchTyped, Shutdown \/ BackoffOver \/ WindowSlides \/ Pause
    PROVE  WatchTyped'
  <1> USE DEF WatchTyped
  <1>1. /\ UNCHANGED <<line, dueCount, taken, lapsed, attempts, outcome, place, on, life>>
        /\ UNCHANGED fifo
    BY Zenon DEF Shutdown, BackoffOver, WindowSlides, Pause, rowVars, workerVars, poolVars
  <1>2. failures' = failures /\ (exits' = exits \/ (exits > 0 /\ exits' = exits - 1))
    BY Zenon DEF Shutdown, BackoffOver, WindowSlides, Pause, poolVars
  <1>3. paused' \in BOOLEAN
    BY Zenon DEF Shutdown, BackoffOver, WindowSlides, Pause, PoolTyped
  <1>4. exits' \in Nat
    BY <1>2 DEF PoolTyped
  <1>5. LineTyped' /\ TakenTyped' /\ WorkersTyped' /\ OnTaken'
    BY <1>1 DEF LineTyped, TakenTyped, WorkersTyped, OnTaken
  <1>6. PoolTyped'
    <2>1. fifo' \in BOOLEAN /\ paused' \in BOOLEAN
      BY <1>1, <1>3, Zenon DEF PoolTyped
    <2>2. Cardinality({c \in Children : life'[c] # "absent"}) <= WorkerCountFor(fifo')
      BY <1>1 DEF PoolTyped
    <2> QED
      BY <1>2, <1>4, <2>1, <2>2 DEF PoolTyped
  <1> QED
    BY <1>5, <1>6

\* The end of a job: it is done, failed or released.
LEMMA WatchEnds ==
    ASSUME WatchTyped, NEW c \in Children, EndJob(c)
    PROVE  WatchTyped'
  <1>1. on[c] # NoJob
    BY DEF EndJob
  <1>2. CASE DeleteRow(c)
    BY <1>2, WatchRemove DEF DeleteRow
  <1>3. CASE FailRow(c)
    BY <1>3, WatchRemove DEF FailRow
  <1>4. CASE ReleaseRow(c)
    BY <1>1, <1>4, WatchRelease
  <1> QED
    BY <1>2, <1>3, <1>4, Zenon DEF EndJob

\* Every step keeps the types.
LEMMA WatchTypedStep == WatchTyped /\ [WatchNext]_watchVars => WatchTyped'
  <1> SUFFICES ASSUME WatchTyped, [WatchNext]_watchVars PROVE WatchTyped'
    OBVIOUS
  <1>1. ASSUME NEW j \in Dispatches, WatchPush(j) PROVE WatchTyped'
    BY <1>1, WatchInsert DEF WatchPush
  <1>2. ASSUME NEW j \in Dispatches, WatchRetry(j) PROVE WatchTyped'
    BY <1>2, WatchInsert DEF WatchRetry
  <1>3. CASE WatchClear
    BY <1>3, WatchClearTyped
  <1>4. CASE ComesDue \/ ReservationOver
    BY <1>4, WatchTime
  <1>5. ASSUME NEW c \in Children, Works(c) \/ Survives(c) PROVE WatchTyped'
    BY <1>5, WatchLooks, WatchPopTyped, WatchEnds DEF Works
  <1>6. ASSUME NEW c \in Children, WorkerExits(c) \/ StopsWorker(c) PROVE WatchTyped'
    BY <1>6, WatchLeaves DEF WorkerExits, StopsWorker
  <1>7. CASE Tick
    BY <1>7, WatchTick
  <1>8. CASE Shutdown \/ BackoffOver \/ WindowSlides \/ Pause
    BY <1>8, WatchSignals
  <1>9. CASE UNCHANGED watchVars
    BY <1>9 DEF watchVars, rowVars, poolVars, workerVars, WatchTyped, LineTyped, TakenTyped,
       WorkersTyped, OnTaken, PoolTyped
  <1> QED
    BY <1>1, <1>2, <1>3, <1>4, <1>5, <1>6, <1>7, <1>8, <1>9 DEF WatchNext

\* Watchtower's variables have their types.
LEMMA WatchTypesHold == WatchTyped => WatchTypeOK
  <1> SUFFICES ASSUME WatchTyped PROVE WatchTypeOK
    OBVIOUS
  <1>1. fifo \in BOOLEAN /\ paused \in BOOLEAN
    BY Zenon DEF WatchTyped, PoolTyped
  <1>2. /\ ToSet(line) = {j \in Dispatches : outcome[j] = "queued"} /\ IsInjective(line)
        /\ dueCount \in 0..Len(line) /\ taken \subseteq ToSet(line) /\ lapsed \subseteq taken
    BY DEF WatchTyped, LineTyped, TakenTyped
  <1>3. /\ \A c \in Children : on[c] # NoJob <=> place[c] = "running"
        /\ \A c \in Children : place[c] # "polling" => life[c] \in Alive
    BY DEF WatchTyped, WorkersTyped
  <1>4. /\ failures \in 0..2 /\ exits \in Nat
        /\ Cardinality({c \in Children : life[c] # "absent"}) <= WorkerCountFor(fifo)
    BY DEF WatchTyped, PoolTyped
  <1> QED
    BY <1>1, <1>2, <1>3, <1>4, Zenon DEF WatchTypeOK

-----------------------------------------------------------------------------
(* A fifo process runs its jobs in turn *)

\* It has one worker at a time.
LEMMA OneWorker ==
    ASSUME WatchTyped, fifo, NEW c \in Children, NEW d \in Children,
           life[c] # "absent", life[d] # "absent"
    PROVE  c = d
  <1> DEFINE pool == {e \in Children : life[e] # "absent"}
  <1> SUFFICES ASSUME c # d PROVE FALSE
    OBVIOUS
  <1>1. Cardinality(pool) <= 1
    BY DEF WatchTyped, PoolTyped, WorkerCountFor
  <1>2. IsFiniteSet(pool) /\ Cardinality(pool) \in Nat
    BY PoolFinite
  <1>3. IsFiniteSet({c}) /\ Cardinality({c}) = 1
    BY FS_Singleton
  <1>4. Cardinality({c} \cup {d}) = 2
    <2>1. Cardinality({c} \cup {d}) = Cardinality({c}) + 1
      <3>1. d \notin {c}
        OBVIOUS
      <3> HIDE DEF pool
      <3> QED
        BY <1>3, <3>1, FS_AddElement, Zenon
    <2> QED
      BY <1>3, <2>1
  <1>5. {c} \cup {d} \subseteq pool
    OBVIOUS
  <1>6. Cardinality({c} \cup {d}) <= Cardinality(pool)
    BY <1>2, <1>5, FS_Subset
  <1> HIDE DEF pool
  <1> QED
    BY <1>1, <1>2, <1>4, <1>6

\* Beside the one worker no job is in hand.
LEMMA OneAtWork ==
    ASSUME WatchTyped, fifo, NEW c \in Children, life[c] # "absent"
    PROVE  \A d \in Children \ {c} : on[d] = NoJob
  <1> TAKE d \in Children \ {c}
  <1>1. life[d] = "absent"
    BY OneWorker
  <1>2. place[d] = "polling"
    BY <1>1 DEF WatchTyped, WorkersTyped, Alive
  <1> QED
    BY <1>2 DEF WatchTyped, WorkersTyped

\* A row that comes in stands behind the one that is being run.
LEMMA TurnInsert ==
    ASSUME WatchTyped, InTurn, NEW j \in Dispatches, InsertRow(j),
           outcome[j] \in {"absent", "failed"}
    PROVE  InTurn'
  <1>1. UNCHANGED <<fifo, taken, on>>
    BY DEF InsertRow, workerVars
  <1>2. PICK r \in dueCount + 1..Len(line) + 1 : line' = InsertAt(line, r, j)
    <2>1. dueCount + 1 \in dueCount + 1..Len(line) + 1
      BY DEF WatchTyped, LineTyped
    <2> QED
      BY <2>1, Zenon DEF InsertRow
  <1>3. r \in 1..Len(line) + 1 /\ r > dueCount
    BY <1>2 DEF WatchTyped, LineTyped
  <1>4. line' \in Seq(Dispatches) /\ HasInserted(line', line, r, j)
    BY <1>2, <1>3, InsertedAt DEF WatchTyped, LineTyped
  <1>5. SUFFICES ASSUME fifo, NEW c \in Children, NEW p \in DOMAIN line', line'[p] = on[c],
                        NEW q \in 1..p - 1
                 PROVE  line'[q] \in Abandoned'
    BY <1>1, Zenon DEF InTurn
  <1>6. on[c] # j
    BY DEF WatchTyped, OnTaken, WorkersTyped
  <1>7. p < r /\ p \in DOMAIN line /\ line[p] = on[c]
    <2>1. \A s \in DOMAIN line : line[s] = on[c] => s <= dueCount
      BY DEF WatchTyped, OnTaken, TakenTyped, ToSet
    <2>2. CASE p > r /\ p - 1 \in DOMAIN line /\ line'[p] = line[p - 1]
      <3>1. p - 1 <= dueCount
        BY <1>5, <2>1, <2>2
      <3> QED
        BY <1>3, <1>4, <2>2, <3>1 DEF WatchTyped, LineTyped
    <2> QED
      BY <1>4, <1>5, <1>6, <2>2 DEF HasInserted
  <1>8. q \in DOMAIN line' /\ q < r
    BY <1>3, <1>4, <1>7
  <1>9. line'[q] = line[q]
    BY <1>3, <1>4, <1>8 DEF HasInserted
  <1>10. line[q] \in Abandoned
    BY <1>5, <1>7 DEF InTurn
  <1> QED
    BY <1>1, <1>9, <1>10 DEF Abandoned

\* The row that is taken is the first that nobody has.
LEMMA TurnPop ==
    ASSUME WatchTyped, InTurn, NEW c \in Children, PopFor(c)
    PROVE  InTurn'
  <1>1. UNCHANGED <<fifo, line, dueCount>> /\ life[c] # "absent"
    BY Zenon DEF PopFor, rowVars, Alive
  <1>2. CASE Eligible = {}
    <2>1. UNCHANGED <<taken, on>>
      BY <1>2 DEF PopFor, rowVars
    <2> QED
      BY <1>1, <2>1 DEF InTurn, Abandoned
  <1>3. CASE Eligible # {}
    <2> DEFINE m == CHOOSE p \in Eligible : \A q \in Eligible : p <= q
    <2>1. on' = [on EXCEPT ![c] = line[m]] /\ taken' = taken \cup {line[m]}
      BY <1>3 DEF PopFor
    <2>2. m \in Eligible /\ \A q \in Eligible : m <= q
      BY <1>3, EligibleFirst DEF WatchTyped
    <2> HIDE DEF m
    <2>3. m \in DOMAIN line /\ m \in 1..dueCount /\ line[m] # NoJob
      BY <2>2 DEF Eligible, WatchTyped, LineTyped
    <2>4. SUFFICES ASSUME fifo, NEW d \in Children, NEW p \in DOMAIN line, line[p] = on'[d],
                          NEW q \in 1..p - 1
                   PROVE  line[q] \in Abandoned'
      BY <1>1, Zenon DEF InTurn
    <2>5. on'[c] = line[m] /\ \A e \in Children \ {c} : on'[e] = NoJob
      BY <1>1, <2>1, <2>4, OneAtWork DEF WatchTyped, WorkersTyped
    <2>6. \A s \in DOMAIN line : line[s] # NoJob
      BY DEF WatchTyped, LineTyped
    <2>7. p = m
      BY <2>3, <2>4, <2>5, <2>6 DEF WatchTyped, LineTyped, IsInjective
    <2>8. q \in DOMAIN line /\ q \in 1..dueCount /\ q < m
      BY <2>3, <2>7 DEF WatchTyped, LineTyped
    <2>9. line[q] \in taken
      <3>1. q \notin Eligible
        BY <2>2, <2>3, <2>8
      <3> QED
        BY <2>8, <3>1 DEF Eligible
    <2>10. line[q] # line[m]
      BY <2>3, <2>8 DEF WatchTyped, LineTyped, IsInjective
    <2>11. \A e \in Children : on'[e] # line[q]
      BY <2>5, <2>6, <2>8, <2>10
    <2> QED
      BY <2>1, <2>9, <2>11 DEF Abandoned
  <1> QED
    BY <1>2, <1>3

\* When the worker has put its job down, none is in hand.
LEMMA TurnEnds ==
    ASSUME WatchTyped, WatchTyped', NEW c \in Children, life[c] # "absent", UNCHANGED fifo,
           on' = [on EXCEPT ![c] = NoJob]
    PROVE  InTurn'
  <1>1. SUFFICES ASSUME fifo, NEW d \in Children, NEW p \in DOMAIN line', line'[p] = on'[d]
                 PROVE  FALSE
    BY Zenon DEF InTurn
  <1>2. \A e \in Children : on'[e] = NoJob
    BY <1>1, OneAtWork DEF WatchTyped, WorkersTyped
  <1>3. line'[p] # NoJob
    BY DEF WatchTyped, LineTyped
  <1> QED
    BY <1>1, <1>2, <1>3

\* Every step keeps the order.
LEMMA TurnStep == WatchTyped /\ WatchTyped' /\ InTurn /\ [WatchNext]_watchVars => InTurn'
  <1> SUFFICES ASSUME WatchTyped, WatchTyped', InTurn, [WatchNext]_watchVars PROVE InTurn'
    OBVIOUS
  <1>1. ASSUME NEW j \in Dispatches, WatchPush(j) \/ WatchRetry(j) PROVE InTurn'
    BY <1>1, TurnInsert DEF WatchPush, WatchRetry
  <1>2. CASE WatchClear
    <2>1. DOMAIN line' = {}
      BY <1>2 DEF WatchClear
    <2> QED
      BY <2>1 DEF InTurn
  <1>3. ASSUME UNCHANGED <<fifo, line, taken, on>> PROVE InTurn'
    BY <1>3 DEF InTurn, Abandoned
  <1>4. CASE ComesDue \/ ReservationOver \/ Tick
    BY <1>3, <1>4, Zenon DEF ComesDue, ReservationOver, Tick, rowVars, workerVars
  <1>5. CASE Shutdown \/ BackoffOver \/ WindowSlides \/ Pause
    BY <1>3, <1>5, Zenon DEF Shutdown, BackoffOver, WindowSlides, Pause, rowVars, workerVars
  <1>6. ASSUME NEW c \in Children, Look(c) \/ Survives(c) PROVE InTurn'
    BY <1>3, <1>6, Zenon DEF Look, Survives, rowVars, workerVars
  <1>7. ASSUME NEW c \in Children, PopFor(c) PROVE InTurn'
    BY <1>7, TurnPop
  <1>8. ASSUME NEW c \in Children, EndJob(c) PROVE InTurn'
    <2>1. EndsJob(c)
      BY <1>8, Zenon DEF EndJob, DeleteRow, FailRow, ReleaseRow
    <2>2. life[c] # "absent" /\ on' = [on EXCEPT ![c] = NoJob]
      BY <2>1 DEF EndsJob, Alive
    <2>3. UNCHANGED fifo
      BY <2>1, Zenon DEF EndsJob
    <2> QED
      BY <2>2, <2>3, TurnEnds
  <1>9. ASSUME NEW c \in Children, WorkerExits(c) \/ StopsWorker(c) PROVE InTurn'
    <2>1. Leaves(c)
      BY <1>9 DEF WorkerExits, StopsWorker
    <2>2. life[c] # "absent" /\ on' = [on EXCEPT ![c] = NoJob]
      BY <2>1 DEF Leaves, Alive
    <2>3. UNCHANGED fifo
      BY <2>1, Zenon DEF Leaves
    <2> QED
      BY <2>2, <2>3, TurnEnds
  <1>10. CASE UNCHANGED watchVars
    BY <1>3, <1>10, Zenon DEF watchVars, rowVars, workerVars
  <1> QED
    BY <1>1, <1>2, <1>4, <1>5, <1>6, <1>7, <1>8, <1>9, <1>10 DEF WatchNext, Works

-----------------------------------------------------------------------------
(* Both backends *)

\* At the start there is no job in hand; and every step keeps the order.
LEMMA WatchAlways == WatchSpec => [](WatchTyped /\ InTurn)
  <1>1. WatchInit => WatchTyped /\ InTurn
    <2> SUFFICES ASSUME WatchInit PROVE InTurn
      BY WatchTypedInit
    <2>1. DOMAIN line = {}
      BY DEF WatchInit
    <2> QED
      BY <2>1 DEF InTurn
  <1>2. WatchTyped /\ InTurn /\ [WatchNext]_watchVars => (WatchTyped /\ InTurn)'
    BY WatchTypedStep, TurnStep
  <1> QED
    BY <1>1, <1>2, PTL DEF WatchSpec

\* The row that a fifo process runs has before it only rows whose worker has died in them
\* (watchtower-queue-driver.ts, eligible; watchtower-config.ts, workerCountFor): for any number
\* of jobs, and of workers that die, releases, retries and clears between.
THEOREM RunsInTurn == WatchSpec => []InTurn
  BY WatchAlways, PTL

\* The composition is a behaviour of each of the two: a step of the one rests in the other.
THEOREM ComposesBoth == Spec => RedisSpec /\ WatchSpec
  <1>1. Init => RedisInit /\ WatchInit
    BY DEF Init
  <1>2. [Next]_backendsVars => [RedisNext]_redisVars /\ [WatchNext]_watchVars
    BY Zenon DEF Next, backendsVars
  <1> QED
    BY <1>1, <1>2, PTL DEF Spec, RedisSpec, WatchSpec

\* The variables of both queues have their types: no reservation without a row, no more
\* workers in a pool than its process may have, and each with one job at most.
THEOREM BackendsTypes == Spec => []BackendsTypeOK
  <1>1. RedisTypeOK /\ WatchTyped => BackendsTypeOK
    BY WatchTypesHold DEF BackendsTypeOK
  <1> QED
    BY <1>1, ComposesBoth, RedisTypes, WatchAlways, PTL
=============================================================================
