--------------------------- MODULE RedisQueue_proofs ---------------------------
(***************************************************************************)
(* The redis queue, proved for any number of jobs, workers and operators: a *)
(* job is never lost, it is one envelope at a time and its handler starts   *)
(* as often as it has tries - the last two as long as no worker outlives    *)
(* its reservation and no failed job is retried by two operators at once.   *)
(***************************************************************************)
EXTENDS RedisQueue, FiniteSetTheorems, FunctionTheorems, TLAPS

-----------------------------------------------------------------------------
(* The list, and what the scripts push onto it *)

\* Two envelopes of different jobs, stored under different ids.
Apart(e, f) == e.id # f.id /\ e.payload # f.payload

\* No two places of a list hold envelopes of one job.
Scattered(list) == \A i, k \in DOMAIN list : i # k => Apart(list[i], list[k])

\* Reversing keeps a list a list.
LEMMA ReverseTyped ==
    ASSUME NEW S, NEW es \in Seq(S)
    PROVE  /\ Reverse(es) \in Seq(S) /\ Len(Reverse(es)) = Len(es)
           /\ \A i \in 1..Len(es) : Reverse(es)[i] = es[Len(es) - i + 1]
  <1>1. \A i \in 1..Len(es) : Len(es) - i + 1 \in 1..Len(es)
    OBVIOUS
  <1>2. Reverse(es) \in [1..Len(es) -> S]
    BY <1>1 DEF Reverse
  <1> QED
    BY <1>2 DEF Reverse

\* `new' is `list' with `es' before it, the last of them first.
Heads(new, list, es) ==
    /\ Len(new) = Len(es) + Len(list)
    /\ \A i \in 1..Len(es) : new[i] = es[Len(es) - i + 1]
    /\ \A i \in 1..Len(list) : new[i + Len(es)] = list[i]

\* Where the entries of a list stand once others were pushed.
LEMMA PushedAt ==
    ASSUME NEW S, NEW list \in Seq(S), NEW es \in Seq(S)
    PROVE  Pushed(list, es) \in Seq(S) /\ Heads(Pushed(list, es), list, es)
  <1> DEFINE back == Reverse(es)
  <1>1. back \in Seq(S)
    BY ReverseTyped
  <1>2. Len(back) = Len(es) /\ \A i \in 1..Len(es) : back[i] = es[Len(es) - i + 1]
    BY ReverseTyped
  <1> HIDE DEF back
  <1>3. back \o list \in Seq(S) /\ Len(back \o list) = Len(back) + Len(list)
    BY <1>1
  <1>4. \A i \in 1..Len(back) : (back \o list)[i] = back[i]
    BY <1>1
  <1>5. \A i \in 1..Len(list) : (back \o list)[i + Len(back)] = list[i]
    BY <1>1
  <1> QED
    BY <1>2, <1>3, <1>4, <1>5 DEF Pushed, Heads, back

\* A push adds what it pushes, and nothing else.
LEMMA PushedSet ==
    ASSUME NEW S, NEW list \in Seq(S), NEW es \in Seq(S)
    PROVE  ToSet(Pushed(list, es)) = ToSet(list) \cup ToSet(es)
  <1> SUFFICES ASSUME NEW new \in Seq(S), Heads(new, list, es)
               PROVE  ToSet(new) = ToSet(list) \cup ToSet(es)
    BY PushedAt, Zenon
  <1>1. /\ Len(new) = Len(es) + Len(list)
        /\ \A i \in 1..Len(es) : new[i] = es[Len(es) - i + 1]
        /\ \A i \in 1..Len(list) : new[i + Len(es)] = list[i]
    BY DEF Heads
  <1>2. \A i \in DOMAIN new : new[i] \in ToSet(list) \cup ToSet(es)
    <2> TAKE i \in DOMAIN new
    <2>1. CASE i <= Len(es)
      <3>1. Len(es) - i + 1 \in 1..Len(es) /\ i \in 1..Len(es)
        BY <1>1, <2>1
      <3> QED
        BY <1>1, <3>1 DEF ToSet
    <2>2. CASE i > Len(es)
      <3>1. PICK k \in 1..Len(list) : k + Len(es) = i
        <4>1. i - Len(es) \in 1..Len(list) /\ i - Len(es) + Len(es) = i
          BY <1>1, <2>2
        <4> QED
          BY <4>1
      <3>2. new[i] = list[k] /\ k \in DOMAIN list
        BY <1>1, <3>1
      <3> QED
        BY <3>2 DEF ToSet
    <2> QED
      BY <1>1, <2>1, <2>2
  <1>3. \A i \in DOMAIN es : es[i] \in ToSet(new)
    <2> TAKE i \in DOMAIN es
    <2>1. /\ Len(es) - i + 1 \in 1..Len(es) /\ Len(es) - (Len(es) - i + 1) + 1 = i
          /\ Len(es) - i + 1 \in DOMAIN new
      BY <1>1
    <2> QED
      BY <1>1, <2>1 DEF ToSet
  <1>4. \A i \in DOMAIN list : list[i] \in ToSet(new)
    <2> TAKE i \in DOMAIN list
    <2>1. i \in 1..Len(list) /\ i + Len(es) \in DOMAIN new
      BY <1>1
    <2> QED
      BY <1>1, <2>1 DEF ToSet
  <1>5. ToSet(new) \subseteq ToSet(list) \cup ToSet(es)
    BY <1>2 DEF ToSet
  <1>6. ToSet(list) \subseteq ToSet(new) /\ ToSet(es) \subseteq ToSet(new)
    BY <1>3, <1>4 DEF ToSet
  <1> QED
    BY <1>5, <1>6

\* It keeps the list scattered if what it pushes is, and is apart from the list.
LEMMA PushedScattered ==
    ASSUME NEW S, NEW list \in Seq(S), NEW es \in Seq(S), Scattered(list), Scattered(es),
           \A e \in ToSet(list), f \in ToSet(es) : Apart(e, f)
    PROVE  Scattered(Pushed(list, es))
  <1> SUFFICES ASSUME NEW new \in Seq(S), Heads(new, list, es)
               PROVE  Scattered(new)
    BY PushedAt, Zenon
  <1>1. /\ Len(new) = Len(es) + Len(list)
        /\ \A i \in 1..Len(es) : new[i] = es[Len(es) - i + 1]
        /\ \A i \in 1..Len(list) : new[i + Len(es)] = list[i]
    BY DEF Heads
  <1>2. \A i \in DOMAIN new : i <= Len(es) =>
            Len(es) - i + 1 \in DOMAIN es /\ new[i] = es[Len(es) - i + 1]
    BY <1>1
  <1>3. \A i \in DOMAIN new : i > Len(es) =>
            i - Len(es) \in DOMAIN list /\ new[i] = list[i - Len(es)]
    <2> SUFFICES ASSUME NEW i \in DOMAIN new, i > Len(es)
                 PROVE  i - Len(es) \in DOMAIN list /\ new[i] = list[i - Len(es)]
      OBVIOUS
    <2>1. i - Len(es) \in 1..Len(list) /\ (i - Len(es)) + Len(es) = i
      BY <1>1
    <2> QED
      BY <1>1, <2>1
  <1> SUFFICES ASSUME NEW i \in DOMAIN new, NEW k \in DOMAIN new, i # k
               PROVE  Apart(new[i], new[k])
    BY DEF Scattered
  <1>4. i \in Int /\ k \in Int /\ Len(es) \in Int
    BY <1>1
  <1>5. CASE i <= Len(es) /\ k <= Len(es)
    <2>1. Len(es) - i + 1 # Len(es) - k + 1
      BY <1>4
    <2> QED
      BY <1>2, <1>5, <2>1 DEF Scattered
  <1>6. CASE i > Len(es) /\ k > Len(es)
    <2>1. i - Len(es) # k - Len(es)
      BY <1>4
    <2> QED
      BY <1>3, <1>6, <2>1 DEF Scattered
  <1>7. CASE i <= Len(es) /\ k > Len(es)
    <2>1. new[i] \in ToSet(es) /\ new[k] \in ToSet(list)
      BY <1>2, <1>3, <1>7 DEF ToSet
    <2> QED
      BY <2>1 DEF Apart
  <1>8. CASE i > Len(es) /\ k <= Len(es)
    <2>1. new[k] \in ToSet(es) /\ new[i] \in ToSet(list)
      BY <1>2, <1>3, <1>8 DEF ToSet
    <2> QED
      BY <2>1 DEF Apart
  <1> QED
    BY <1>4, <1>5, <1>6, <1>7, <1>8

\* Any order of a set lists all of it, each member once.
LEMMA OrderLists ==
    ASSUME NEW S, IsFiniteSet(S), NEW es \in SetToSeqs(S)
    PROVE  /\ es \in Seq(S) /\ ToSet(es) = S
           /\ \A i, k \in DOMAIN es : i # k => es[i] # es[k]
  <1> DEFINE D == 1..Cardinality(S)
  <1>1. Cardinality(S) \in Nat
    BY FS_CardinalityType
  <1>2. es \in [D -> S] /\ \A i, k \in D : i # k => es[i] # es[k]
    BY DEF SetToSeqs
  <1>3. es \in Injection(D, S)
    BY <1>2, Fun_IsInj
  <1>4. IsFiniteSet(D) /\ Cardinality(D) = Cardinality(S)
    <2>1. IsFiniteSet(1..Cardinality(S))
          /\ Cardinality(1..Cardinality(S)) =
                IF 1 > Cardinality(S) THEN 0 ELSE Cardinality(S) - 1 + 1
      BY <1>1, FS_Interval
    <2> QED
      BY <1>1, <2>1
  <1> HIDE DEF D
  <1>5. es \in Surjection(D, S)
    BY <1>3, <1>4, FS_Injection
  <1>6. \A x \in S : \E i \in D : es[i] = x
    BY <1>5, Fun_SurjectionProperties
  <1>7. es \in Seq(S) /\ DOMAIN es = D
    BY <1>1, <1>2 DEF D
  <1>8. ToSet(es) = S
    BY <1>2, <1>6, <1>7 DEF ToSet
  <1> QED
    BY <1>2, <1>7, <1>8

\* The last entry and the rest are the list.
LEMMA LastOut ==
    ASSUME NEW S, NEW list \in Seq(S), list # <<>>
    PROVE  /\ Last(list) \in S /\ Front(list) \in Seq(S)
           /\ ToSet(list) = ToSet(Front(list)) \cup {Last(list)}
           /\ Scattered(list) =>
                /\ Scattered(Front(list))
                /\ \A e \in ToSet(Front(list)) : Apart(e, Last(list))
  <1>1. Len(list) \in Nat \ {0}
    OBVIOUS
  <1>2. Front(list) \in Seq(S) /\ Len(Front(list)) = Len(list) - 1
    BY <1>1 DEF Front
  <1>3. \A i \in 1..Len(list) - 1 : Front(list)[i] = list[i]
    BY <1>1 DEF Front
  <1>4. ToSet(list) = ToSet(Front(list)) \cup {Last(list)}
    <2>1. DOMAIN list = (1..Len(list) - 1) \cup {Len(list)} /\ DOMAIN Front(list) = 1..Len(list) - 1
      BY <1>1, <1>2
    <2> QED
      BY <1>3, <2>1 DEF ToSet, Last
  <1>5. ASSUME Scattered(list)
        PROVE  Scattered(Front(list)) /\ \A e \in ToSet(Front(list)) : Apart(e, Last(list))
    BY <1>1, <1>2, <1>3, <1>5 DEF Scattered, ToSet, Last
  <1> QED
    BY <1>1, <1>2, <1>4, <1>5 DEF Last

\* A list of one.
LEMMA OneListed ==
    ASSUME NEW S, NEW e \in S
    PROVE  <<e>> \in Seq(S) /\ ToSet(<<e>>) = {e} /\ Scattered(<<e>>)
  BY DEF ToSet, Scattered

-----------------------------------------------------------------------------
(* Types *)

Fates == {"absent", "pending", "done", "given up"}

StoreTyped ==
    /\ ready \in Seq(Envelopes)
    /\ delayed \subseteq Envelopes /\ IsFiniteSet(delayed) /\ due \subseteq delayed
    /\ reserved \subseteq Envelopes /\ IsFiniteSet(reserved) /\ overdue \subseteq reserved
    /\ failed \subseteq FailedRecords /\ IsFiniteSet(failed)

HandsTyped ==
    /\ busy \in [Hands -> Busy]
    /\ popped \in [Hands -> Envelopes \cup {Nothing}]
    /\ \A w \in Hands : popped[w] = Nothing <=> busy[w] \notin {"holding", "running"}

CountsTyped ==
    /\ found \in [Operators -> FailedRecords \cup {Nothing}]
    /\ nextId \in 1..MaxIds + 1
    /\ fate \in [Payloads -> Fates]
    /\ runs \in [1..MaxIds -> Nat]

RedisTyped == StoreTyped /\ HandsTyped /\ CountsTyped

\* What push(), the scripts and release() make is an envelope.
LEMMA EnvelopeTyped ==
    ASSUME NEW i \in 1..MaxIds, NEW j \in Payloads, NEW n \in Nat
    PROVE  /\ Envelope(i, j, n) \in Envelopes
           /\ Envelope(i, j, n).id = i /\ Envelope(i, j, n).payload = j
           /\ Envelope(i, j, n).attempts = n
  BY DEF Envelope, Envelopes

\* An envelope's fields, its record, and what reclaiming it makes of it.
LEMMA EnvelopeParts ==
    ASSUME NEW e \in Envelopes
    PROVE  /\ e.id \in 1..MaxIds /\ e.payload \in Payloads /\ e.attempts \in Nat
           /\ Record(e) \in FailedRecords
           /\ Record(e).id = e.id /\ Record(e).payload = e.payload
           /\ Reclaimed(e) \in Envelopes
           /\ Reclaimed(e).id = e.id /\ Reclaimed(e).payload = e.payload
           /\ Reclaimed(e).attempts = e.attempts + 1
  <1>1. /\ e \in [id : 1..MaxIds, payload : Payloads, attempts : Nat, by : {"worker", "script"}]
        /\ e.id \in 1..MaxIds /\ e.payload \in Payloads /\ e.attempts \in Nat
    BY DEF Envelopes
  <1>2. /\ Record(e) \in FailedRecords
        /\ Record(e).id = e.id /\ Record(e).payload = e.payload
    BY <1>1 DEF FailedRecords, Record
  <1>3. /\ Reclaimed(e).id = e.id /\ Reclaimed(e).payload = e.payload
        /\ Reclaimed(e).attempts = e.attempts + 1 /\ Reclaimed(e).by = "script"
    BY DEF Reclaimed, Envelopes
  <1>4. Reclaimed(e) \in Envelopes
    <2>1. /\ DOMAIN Reclaimed(e) = DOMAIN e
          /\ Reclaimed(e) = [x \in DOMAIN Reclaimed(e) |-> Reclaimed(e)[x]]
      BY DEF Reclaimed
    <2>2. DOMAIN e = {"id", "payload", "attempts", "by"}
      BY DEF Envelopes
    <2> QED
      BY <1>1, <1>3, <2>1, <2>2 DEF Envelopes
  <1> QED
    BY <1>1, <1>2, <1>3, <1>4

\* The members of a list of envelopes are envelopes.
LEMMA MembersTyped ==
    ASSUME NEW S, NEW list \in Seq(S)
    PROVE  ToSet(list) \subseteq S
  BY DEF ToSet

\* What a script takes back is finite.
LEMMA ReclaimedFinite ==
    ASSUME NEW S, IsFiniteSet(S)
    PROVE  IsFiniteSet({Reclaimed(e) : e \in S})
  <1> DEFINE f == [e \in S |-> Reclaimed(e)]
             T == {Reclaimed(e) : e \in S}
  <1>1. f \in [S -> T] /\ \A x \in T : \E e \in S : f[e] = x
    OBVIOUS
  <1>2. f \in Surjection(S, T)
    BY <1>1, Fun_IsSurj
  <1> QED
    BY <1>2, FS_Surjection

\* Adding to a set of the store, or removing from it.
LEMMA KeepsFinite ==
    ASSUME NEW S, NEW T, NEW x, IsFiniteSet(S)
    PROVE  IsFiniteSet(S \cup {x}) /\ IsFiniteSet(S \ T)
  BY FS_AddElement, FS_Difference

\* A list with some envelopes pushed onto it.
LEMMA PushedTyped ==
    ASSUME NEW list \in Seq(Envelopes), NEW S \in SUBSET Envelopes, IsFiniteSet(S),
           NEW es \in SetToSeqs(S)
    PROVE  /\ Pushed(list, es) \in Seq(Envelopes)
           /\ ToSet(Pushed(list, es)) = ToSet(list) \cup S
  <1>1. es \in Seq(S) /\ ToSet(es) = S
    BY OrderLists
  <1>2. es \in Seq(Envelopes)
    BY <1>1
  <1>3. Pushed(list, es) \in Seq(Envelopes)
    BY <1>2, PushedAt
  <1>4. ToSet(Pushed(list, es)) = ToSet(list) \cup ToSet(es)
    BY <1>2, PushedSet
  <1> QED
    BY <1>1, <1>3, <1>4

\* A list with one envelope pushed onto it.
LEMMA OnePushed ==
    ASSUME NEW list \in Seq(Envelopes), NEW e \in Envelopes
    PROVE  /\ Pushed(list, <<e>>) \in Seq(Envelopes)
           /\ ToSet(Pushed(list, <<e>>)) = ToSet(list) \cup {e}
  <1>1. <<e>> \in Seq(Envelopes) /\ ToSet(<<e>>) = {e}
    BY OneListed
  <1>2. Pushed(list, <<e>>) \in Seq(Envelopes)
    BY <1>1, PushedAt
  <1>3. ToSet(Pushed(list, <<e>>)) = ToSet(list) \cup ToSet(<<e>>)
    <2>1. \A es \in Seq(Envelopes) : ToSet(Pushed(list, es)) = ToSet(list) \cup ToSet(es)
      BY PushedSet
    <2> QED
      BY <1>1, <2>1
  <1> QED
    BY <1>1, <1>2, <1>3

USE RedisQueueAssumption

\* At the start everything has its type.
LEMMA RedisTypedInit == RedisInit => RedisTyped
  <1> SUFFICES ASSUME RedisInit PROVE RedisTyped
    OBVIOUS
  <1> USE DEF RedisInit
  <1>1. StoreTyped
    BY FS_EmptySet DEF StoreTyped
  <1>2. HandsTyped
    BY DEF HandsTyped, Busy
  <1>3. CountsTyped
    BY DEF CountsTyped, Fates
  <1> QED
    BY <1>1, <1>2, <1>3 DEF RedisTyped

\* A worker's turn keeps the types of what workers hold.
LEMMA TurnTyped ==
    ASSUME HandsTyped, NEW w \in Hands, NEW to \in Busy, Turns(w, busy[w], to),
           \/ UNCHANGED popped /\ (to \in {"holding", "running"} <=> popped[w] # Nothing)
           \/ /\ to \notin {"holding", "running"}
              /\ popped' = [popped EXCEPT ![w] = Nothing]
           \/ /\ to \in {"holding", "running"}
              /\ \E e \in Envelopes : popped' = [popped EXCEPT ![w] = e]
    PROVE  HandsTyped'
  BY DEF HandsTyped, Turns

\* The envelope in hand.
LEMMA PoppedTyped ==
    ASSUME RedisTyped, NEW w \in Hands, popped[w] # Nothing
    PROVE  popped[w] \in Envelopes /\ busy[w] \in {"holding", "running"}
  BY DEF RedisTyped, HandsTyped

\* Letting go of a job keeps the types of what is kept.
LEMMA LetGoTyped ==
    ASSUME RedisTyped, NEW w \in Hands, LetGo(w)
    PROVE  /\ HandsTyped'
           /\ reserved' \subseteq Envelopes /\ IsFiniteSet(reserved')
           /\ overdue' \subseteq reserved'
  <1>1. HandsTyped'
    BY TurnTyped DEF RedisTyped, LetGo, Busy
  <1>2. reserved' = reserved \ {popped[w]} /\ overdue' = overdue \ {popped[w]}
    BY DEF LetGo, Unreserved
  <1> QED
    BY <1>1, <1>2, KeepsFinite DEF RedisTyped, StoreTyped

\* A fate stays one.
LEMMA EndedTyped ==
    ASSUME fate \in [Payloads -> Fates], NEW js, NEW how \in Fates, Ended(js, how)
    PROVE  fate' \in [Payloads -> Fates]
  BY DEF Ended

\* One envelope more in the list, or in the set of what is delayed.
LEMMA StoredTyped ==
    ASSUME ready \in Seq(Envelopes), delayed \subseteq Envelopes, IsFiniteSet(delayed),
           due \subseteq delayed, NEW e \in Envelopes,
           \/ ready' = Pushed(ready, <<e>>) /\ UNCHANGED <<delayed, due>>
           \/ delayed' = delayed \cup {e} /\ due' \in {due, due \ {e}} /\ UNCHANGED ready
    PROVE  /\ ready' \in Seq(Envelopes)
           /\ delayed' \subseteq Envelopes /\ IsFiniteSet(delayed') /\ due' \subseteq delayed'
  <1>1. CASE ready' = Pushed(ready, <<e>>) /\ UNCHANGED <<delayed, due>>
    <2>1. Pushed(ready, <<e>>) \in Seq(Envelopes)
      BY OnePushed
    <2> QED
      BY <1>1, <2>1
  <1>2. CASE delayed' = delayed \cup {e} /\ due' \in {due, due \ {e}} /\ UNCHANGED ready
    <2>1. IsFiniteSet(delayed \cup {e})
      BY FS_AddElement
    <2> QED
      BY <1>2, <2>1
  <1> QED
    BY <1>1, <1>2

\* Every action keeps them.
LEMMA RedisTypedStep == RedisTyped /\ [RedisNext]_redisVars => RedisTyped'
  <1> SUFFICES ASSUME RedisTyped, [RedisNext]_redisVars PROVE RedisTyped'
    OBVIOUS
  <1> USE DEF RedisTyped
  <1>1. ASSUME NEW j \in Payloads, RedisPush(j) PROVE RedisTyped'
    <2> DEFINE e == Envelope(nextId, j, 0)
    <2>1. nextId \in 1..MaxIds /\ e \in Envelopes
      BY <1>1, EnvelopeTyped DEF RedisPush, CountsTyped
    <2> HIDE DEF e
    <2>2. StoreTyped'
      <3>1. \/ ready' = Pushed(ready, <<e>>) /\ UNCHANGED <<delayed, due>>
            \/ delayed' = delayed \cup {e} /\ UNCHANGED <<ready, due>>
        BY <1>1 DEF RedisPush, e
      <3> QED
        BY <1>1, <2>1, <3>1, StoredTyped DEF RedisPush, StoreTyped
    <2>3. HandsTyped'
      BY <1>1 DEF RedisPush, HandsTyped
    <2>4. CountsTyped'
      <3>1. fate' \in [Payloads -> Fates]
        BY <1>1, EndedTyped DEF RedisPush, CountsTyped, Fates
      <3>2. nextId' \in 1..MaxIds + 1
        BY <1>1, <2>1 DEF RedisPush
      <3> QED
        BY <1>1, <3>1, <3>2 DEF RedisPush, CountsTyped
    <2> QED
      BY <2>2, <2>3, <2>4
  <1>2. ASSUME NEW w \in Hands, MigrateDue(w) PROVE RedisTyped'
    <2>1. IsFiniteSet(due) /\ due \in SUBSET Envelopes
      BY FS_Subset DEF StoreTyped
    <2>2. ready' \in Seq(Envelopes)
      BY <1>2, <2>1, PushedTyped DEF MigrateDue, StoreTyped
    <2>3. StoreTyped'
      BY <1>2, <2>2, KeepsFinite DEF MigrateDue, StoreTyped
    <2>4. HandsTyped'
      BY <1>2, TurnTyped DEF MigrateDue, HandsTyped, Busy, Turns
    <2> QED
      BY <1>2, <2>3, <2>4 DEF MigrateDue, CountsTyped
  <1>3. ASSUME NEW w \in Hands, ReclaimExpired(w) PROVE RedisTyped'
    <2> DEFINE S == {Reclaimed(e) : e \in overdue}
    <2>1. IsFiniteSet(overdue)
      BY FS_Subset DEF StoreTyped
    <2>2. IsFiniteSet(S) /\ S \in SUBSET Envelopes
      BY <2>1, ReclaimedFinite, EnvelopeParts DEF StoreTyped
    <2>3. \E es \in SetToSeqs(S) : ready' = Pushed(ready, es)
      BY <1>3 DEF ReclaimExpired, Expired
    <2> HIDE DEF S
    <2>4. ready' \in Seq(Envelopes)
      BY <2>2, <2>3, PushedTyped DEF StoreTyped
    <2>5. StoreTyped'
      BY <1>3, <2>4, KeepsFinite DEF ReclaimExpired, StoreTyped, Expired
    <2>6. HandsTyped'
      BY <1>3, TurnTyped DEF ReclaimExpired, HandsTyped, Busy, Turns
    <2> QED
      BY <1>3, <2>5, <2>6 DEF ReclaimExpired, CountsTyped
  <1>4. ASSUME NEW w \in Hands, ReserveNext(w) PROVE RedisTyped'
    <2>1. CASE ready = <<>>
      <3>1. HandsTyped'
        BY <1>4, <2>1, TurnTyped DEF ReserveNext, HandsTyped, Busy, Turns
      <3> QED
        BY <1>4, <2>1, <3>1 DEF ReserveNext, StoreTyped, CountsTyped
    <2>2. CASE ready # <<>>
      <3>1. Last(ready) \in Envelopes /\ Front(ready) \in Seq(Envelopes)
        BY <2>2, LastOut DEF StoreTyped
      <3>2. /\ reserved' = reserved \cup {Last(ready)} /\ overdue' = overdue \ {Last(ready)}
            /\ ready' = Front(ready) /\ UNCHANGED <<delayed, due, failed>>
        BY <1>4, <2>2 DEF ReserveNext, ReserveEnvelope, ReservedWith
      <3>3. IsFiniteSet(reserved')
        BY <3>2, FS_AddElement DEF StoreTyped
      <3>4. StoreTyped'
        BY <3>1, <3>2, <3>3 DEF StoreTyped
      <3>5. HandsTyped'
        BY <1>4, <2>2, <3>1, TurnTyped
           DEF ReserveNext, ReserveEnvelope, HandsTyped, Busy, Turns
      <3> QED
        BY <1>4, <3>4, <3>5 DEF ReserveNext, CountsTyped
    <2> QED
      BY <2>1, <2>2
  <1>5. ASSUME NEW w \in Hands, Handle(w) PROVE RedisTyped'
    <2>1. popped[w] \in Envelopes /\ popped[w].id \in 1..MaxIds
      BY <1>5, PoppedTyped, EnvelopeParts DEF Handle
    <2>2. HandsTyped'
      BY <1>5, TurnTyped DEF Handle, HandsTyped, Busy, Turns
    <2>3. CountsTyped'
      BY <1>5, <2>1 DEF Handle, CountsTyped
    <2> QED
      BY <1>5, <2>2, <2>3 DEF Handle, StoreTyped
  <1>6. ASSUME NEW w \in Hands, Delete(w) PROVE RedisTyped'
    <2>1. StoreTyped'
      BY <1>6, LetGoTyped DEF Delete, StoreTyped
    <2>2. CountsTyped'
      BY <1>6, EndedTyped DEF Delete, CountsTyped, Fates
    <2> QED
      BY <1>6, <2>1, <2>2, LetGoTyped DEF Delete
  <1>7. ASSUME NEW w \in Hands, ReleaseJob(w) PROVE RedisTyped'
    <2> DEFINE e == Envelope(popped[w].id, popped[w].payload, popped[w].attempts + 1)
    <2>1. popped[w] \in Envelopes
      BY <1>7 DEF ReleaseJob, HandsTyped
    <2>2. e \in Envelopes
      BY <2>1, EnvelopeParts, EnvelopeTyped
    <2> HIDE DEF e
    <2>3. StoreTyped'
      <3>1. \/ ready' = Pushed(ready, <<e>>) /\ UNCHANGED <<delayed, due>>
            \/ delayed' = delayed \cup {e} /\ due' = due \ {e} /\ UNCHANGED ready
        BY <1>7 DEF ReleaseJob, e
      <3> QED
        BY <1>7, <2>2, <3>1, LetGoTyped, StoredTyped DEF ReleaseJob, StoreTyped
    <2> QED
      BY <1>7, <2>3, LetGoTyped DEF ReleaseJob, CountsTyped
  <1>8. ASSUME NEW w \in Hands, FailJob(w) PROVE RedisTyped'
    <2>1. Record(popped[w]) \in FailedRecords
      BY <1>8, PoppedTyped, EnvelopeParts DEF FailJob
    <2>2. StoreTyped'
      BY <1>8, <2>1, LetGoTyped, KeepsFinite DEF FailJob, StoreTyped
    <2> QED
      BY <1>8, <2>2, LetGoTyped DEF FailJob, CountsTyped
  <1>9. ASSUME NEW w \in Hands, Killed(w) PROVE RedisTyped'
    <2>1. HandsTyped'
      BY <1>9, TurnTyped DEF Killed, HandsTyped, Busy, Turns
    <2> QED
      BY <1>9, <2>1 DEF Killed, StoreTyped, CountsTyped
  <1>10. ASSUME RedisClear PROVE RedisTyped'
    <2>1. StoreTyped'
      <3>1. /\ ready' = <<>> /\ delayed' = {} /\ due' = {}
            /\ UNCHANGED <<reserved, overdue, failed>>
        BY <1>10 DEF RedisClear
      <3> QED
        BY <3>1, FS_EmptySet DEF StoreTyped
    <2>2. CountsTyped'
      BY <1>10, EndedTyped DEF RedisClear, CountsTyped, Fates
    <2> QED
      BY <1>10, <2>1, <2>2 DEF RedisClear, HandsTyped
  <1>11. ASSUME NEW o \in Operators, FindFailed(o) PROVE RedisTyped'
    <2>1. CountsTyped'
      BY <1>11 DEF FindFailed, CountsTyped, StoreTyped
    <2> QED
      BY <1>11, <2>1 DEF FindFailed, StoreTyped, HandsTyped
  <1>12. ASSUME NEW o \in Operators, RequeueFound(o) PROVE RedisTyped'
    <2> DEFINE e == Envelope(nextId, found[o].payload, 0)
    <2>1. found[o].payload \in Payloads /\ nextId \in 1..MaxIds
      <3>1. found[o] \in FailedRecords /\ nextId <= MaxIds
        BY <1>12 DEF RequeueFound, CountsTyped
      <3> QED
        BY <3>1 DEF FailedRecords, CountsTyped
    <2>2. e \in Envelopes
      BY <2>1, EnvelopeTyped
    <2> HIDE DEF e
    <2>3. StoreTyped'
      <3>1. ready' = Pushed(ready, <<e>>) /\ UNCHANGED <<delayed, due>>
        BY <1>12 DEF RequeueFound, e
      <3>2. IsFiniteSet(failed')
        BY <1>12, KeepsFinite DEF RequeueFound, StoreTyped
      <3> QED
        BY <1>12, <2>2, <3>1, <3>2, StoredTyped DEF RequeueFound, StoreTyped
    <2>4. CountsTyped'
      <3>1. nextId' \in 1..MaxIds + 1
        <4>1. nextId' = nextId + 1
          BY <1>12 DEF RequeueFound
        <4> QED
          BY <2>1, <4>1
      <3>2. found' \in [Operators -> FailedRecords \cup {Nothing}]
        BY <1>12 DEF RequeueFound, CountsTyped
      <3>3. UNCHANGED <<fate, runs>>
        BY <1>12 DEF RequeueFound
      <3> QED
        BY <3>1, <3>2, <3>3 DEF CountsTyped
    <2> QED
      BY <1>12, <2>3, <2>4 DEF RequeueFound, HandsTyped
  <1>13. ASSUME NEW rs \in SUBSET failed, ForgetFailed(rs) PROVE RedisTyped'
    <2>1. StoreTyped'
      BY <1>13, KeepsFinite DEF ForgetFailed, StoreTyped
    <2>2. CountsTyped'
      BY <1>13, EndedTyped DEF ForgetFailed, CountsTyped, Fates
    <2> QED
      BY <1>13, <2>1, <2>2 DEF ForgetFailed, HandsTyped
  <1>14. ASSUME NEW e, DelayOver(e) \/ Expires(e) PROVE RedisTyped'
    BY <1>14 DEF DelayOver, Expires, StoreTyped, HandsTyped, CountsTyped
  <1>15. CASE UNCHANGED redisVars
    BY <1>15 DEF redisVars, StoreTyped, HandsTyped, CountsTyped
  <1> QED
    BY <1>1, <1>2, <1>3, <1>4, <1>5, <1>6, <1>7, <1>8, <1>9, <1>10, <1>11, <1>12, <1>13,
       <1>14, <1>15
       DEF RedisNext, Poll, ProcessJob

-----------------------------------------------------------------------------
(* No job is lost *)

\* Every envelope that a worker may yet push, and every one that waits.
Live == ToSet(ready) \cup delayed \cup reserved

\* Whatever is pending is somewhere.
Kept == \A j \in Payloads : fate[j] = "pending" => \E c \in Live \cup failed : c.payload = j

\* All copies are of the types of their places.
LEMMA LiveTyped == RedisTyped => Live \subseteq Envelopes /\ failed \subseteq FailedRecords
  BY MembersTyped DEF RedisTyped, StoreTyped, Live

\* A copy counts.
LEMMA CopiesCount ==
    ASSUME RedisTyped, NEW j \in Payloads
    PROVE  /\ CopiesOf(j) \in Nat
           /\ (\E c \in Live \cup failed : c.payload = j) => CopiesOf(j) > 0
  <1> DEFINE R == {i \in DOMAIN ready : ready[i].payload = j}
             D == {e \in delayed : e.payload = j}
             V == {e \in reserved : e.payload = j}
             F == {r \in failed : r.payload = j}
  <1>1. IsFiniteSet(DOMAIN ready)
    <2>1. DOMAIN ready = 1..Len(ready) /\ Len(ready) \in Nat
      BY DEF RedisTyped, StoreTyped
    <2> QED
      BY <2>1, FS_Interval
  <1>2. IsFiniteSet(R) /\ IsFiniteSet(D) /\ IsFiniteSet(V) /\ IsFiniteSet(F)
    BY <1>1, FS_Subset DEF RedisTyped, StoreTyped
  <1>3. /\ Cardinality(R) \in Nat /\ Cardinality(D) \in Nat
        /\ Cardinality(V) \in Nat /\ Cardinality(F) \in Nat
    BY <1>2, FS_CardinalityType
  <1>4. CopiesOf(j) = Cardinality(R) + Cardinality(D) + Cardinality(V) + Cardinality(F)
    BY DEF CopiesOf
  <1>5. (\E c \in Live \cup failed : c.payload = j) => R # {} \/ D # {} \/ V # {} \/ F # {}
    BY DEF Live, ToSet
  <1>6. /\ R # {} => Cardinality(R) # 0
        /\ D # {} => Cardinality(D) # 0
        /\ V # {} => Cardinality(V) # 0
        /\ F # {} => Cardinality(F) # 0
    BY <1>2, FS_EmptySet
  <1> HIDE DEF R, D, V, F
  <1> QED
    BY <1>3, <1>4, <1>5, <1>6

\* What each action does to the places a copy can be in.
LEMMA PushStores ==
    ASSUME RedisTyped, NEW j \in Payloads, RedisPush(j)
    PROVE  \E e \in Envelopes :
             /\ e.id = nextId /\ e.payload = j /\ e.attempts = 0
             /\ \/ /\ ready' = Pushed(ready, <<e>>) /\ ToSet(ready') = ToSet(ready) \cup {e}
                   /\ UNCHANGED delayed
                \/ delayed' = delayed \cup {e} /\ UNCHANGED ready
  <1> DEFINE e == Envelope(nextId, j, 0)
  <1>1. e \in Envelopes /\ e.id = nextId /\ e.payload = j /\ e.attempts = 0
    BY EnvelopeTyped DEF RedisPush, RedisTyped, CountsTyped
  <1>2. \/ ready' = Pushed(ready, <<e>>) /\ UNCHANGED delayed
        \/ delayed' = delayed \cup {e} /\ UNCHANGED ready
    BY DEF RedisPush
  <1> HIDE DEF e
  <1> QED
    BY <1>1, <1>2, OnePushed DEF RedisTyped, StoreTyped

LEMMA MigrateMoves ==
    ASSUME RedisTyped, NEW w \in Hands, MigrateDue(w)
    PROVE  \E es \in Seq(Envelopes) :
             /\ ready' = Pushed(ready, es) /\ ToSet(es) = due
             /\ \A i, k \in DOMAIN es : i # k => es[i] # es[k]
             /\ ToSet(ready') = ToSet(ready) \cup due
             /\ delayed' = delayed \ due
  <1>1. IsFiniteSet(due) /\ due \in SUBSET Envelopes
    BY FS_Subset DEF RedisTyped, StoreTyped
  <1>2. PICK es \in SetToSeqs(due) : ready' = Pushed(ready, es)
    BY DEF MigrateDue
  <1>3. es \in Seq(due) /\ ToSet(es) = due /\ \A i, k \in DOMAIN es : i # k => es[i] # es[k]
    BY <1>1, OrderLists
  <1>4. es \in Seq(Envelopes)
    BY <1>1, <1>3
  <1>5. ToSet(ready') = ToSet(ready) \cup due
    BY <1>1, <1>2, PushedTyped DEF RedisTyped, StoreTyped
  <1> QED
    BY <1>2, <1>3, <1>4, <1>5 DEF MigrateDue

LEMMA ReclaimMoves ==
    ASSUME RedisTyped, NEW w \in Hands, ReclaimExpired(w)
    PROVE  \E es \in Seq(Envelopes) :
             /\ ready' = Pushed(ready, es) /\ ToSet(es) = {Reclaimed(e) : e \in overdue}
             /\ \A i, k \in DOMAIN es : i # k => es[i] # es[k]
             /\ ToSet(ready') = ToSet(ready) \cup {Reclaimed(e) : e \in overdue}
             /\ reserved' = reserved \ overdue
  <1> DEFINE S == {Reclaimed(e) : e \in overdue}
  <1>1. IsFiniteSet(overdue)
    BY FS_Subset DEF RedisTyped, StoreTyped
  <1>2. IsFiniteSet(S) /\ S \in SUBSET Envelopes
    BY <1>1, ReclaimedFinite, EnvelopeParts DEF RedisTyped, StoreTyped
  <1>3. \E es \in SetToSeqs(S) : ready' = Pushed(ready, es)
    BY DEF ReclaimExpired, Expired
  <1> HIDE DEF S
  <1>4. PICK es \in SetToSeqs(S) : ready' = Pushed(ready, es)
    BY <1>3
  <1>5. es \in Seq(S) /\ ToSet(es) = S /\ \A i, k \in DOMAIN es : i # k => es[i] # es[k]
    BY <1>2, OrderLists
  <1>6. es \in Seq(Envelopes)
    BY <1>2, <1>5
  <1>7. ToSet(ready') = ToSet(ready) \cup S
    BY <1>2, <1>4, PushedTyped DEF RedisTyped, StoreTyped
  <1> QED
    BY <1>4, <1>5, <1>6, <1>7 DEF ReclaimExpired, Expired, S

LEMMA ReserveMoves ==
    ASSUME RedisTyped, NEW w \in Hands, ReserveNext(w), ready # <<>>
    PROVE  \E e \in Envelopes :
             /\ e = Last(ready) /\ ready' = Front(ready)
             /\ ToSet(ready) = ToSet(ready') \cup {e}
             /\ reserved' = reserved \cup {e} /\ overdue' = overdue \ {e}
             /\ popped' = [popped EXCEPT ![w] = e] /\ busy' = [busy EXCEPT ![w] = "holding"]
             /\ popped[w] = Nothing
  <1>1. Last(ready) \in Envelopes /\ ToSet(ready) = ToSet(Front(ready)) \cup {Last(ready)}
    BY LastOut DEF RedisTyped, StoreTyped
  <1>2. /\ ready' = Front(ready)
        /\ reserved' = reserved \cup {Last(ready)} /\ overdue' = overdue \ {Last(ready)}
        /\ popped' = [popped EXCEPT ![w] = Last(ready)]
        /\ busy' = [busy EXCEPT ![w] = "holding"] /\ busy[w] = "reclaimed"
    BY DEF ReserveNext, ReserveEnvelope, ReservedWith, Turns
  <1>3. popped[w] = Nothing
    BY <1>2 DEF RedisTyped, HandsTyped
  <1> QED
    BY <1>1, <1>2, <1>3

LEMMA LetGoDrops ==
    ASSUME RedisTyped, NEW w \in Hands, LetGo(w)
    PROVE  /\ reserved' = reserved \ {popped[w]} /\ overdue' = overdue \ {popped[w]}
           /\ popped' = [popped EXCEPT ![w] = Nothing] /\ busy' = [busy EXCEPT ![w] = "idle"]
  BY DEF LetGo, Unreserved, Turns

LEMMA ReleaseStores ==
    ASSUME RedisTyped, NEW w \in Hands, ReleaseJob(w)
    PROVE  /\ popped[w] \in Envelopes
           /\ \E e \in Envelopes :
                /\ e.id = popped[w].id /\ e.payload = popped[w].payload
                /\ e.attempts = popped[w].attempts + 1
                /\ \/ /\ ready' = Pushed(ready, <<e>>) /\ ToSet(ready') = ToSet(ready) \cup {e}
                      /\ UNCHANGED <<delayed, due>>
                   \/ delayed' = delayed \cup {e} /\ due' = due \ {e} /\ UNCHANGED ready
  <1> DEFINE e == Envelope(popped[w].id, popped[w].payload, popped[w].attempts + 1)
  <1>1. popped[w] \in Envelopes
    BY DEF ReleaseJob, RedisTyped, HandsTyped
  <1>2. /\ e \in Envelopes /\ e.id = popped[w].id /\ e.payload = popped[w].payload
        /\ e.attempts = popped[w].attempts + 1
    BY <1>1, EnvelopeParts, EnvelopeTyped
  <1>3. \/ ready' = Pushed(ready, <<e>>) /\ UNCHANGED <<delayed, due>>
        \/ delayed' = delayed \cup {e} /\ due' = due \ {e} /\ UNCHANGED ready
    BY DEF ReleaseJob
  <1> HIDE DEF e
  <1> QED
    BY <1>1, <1>2, <1>3, OnePushed DEF RedisTyped, StoreTyped

LEMMA RequeueStores ==
    ASSUME RedisTyped, NEW o \in Operators, RequeueFound(o)
    PROVE  /\ found[o] \in FailedRecords /\ failed' = failed \ {found[o]}
           /\ \E e \in Envelopes :
                /\ e.id = nextId /\ e.payload = found[o].payload /\ e.attempts = 0
                /\ ready' = Pushed(ready, <<e>>) /\ ToSet(ready') = ToSet(ready) \cup {e}
  <1> DEFINE e == Envelope(nextId, found[o].payload, 0)
  <1>1. found[o] \in FailedRecords /\ nextId \in 1..MaxIds
    <2>1. found[o] \in FailedRecords /\ nextId <= MaxIds
      BY DEF RequeueFound, RedisTyped, CountsTyped
    <2> QED
      BY <2>1 DEF RedisTyped, CountsTyped
  <1>2. e \in Envelopes /\ e.id = nextId /\ e.payload = found[o].payload /\ e.attempts = 0
    BY <1>1, EnvelopeTyped DEF FailedRecords
  <1>3. ready' = Pushed(ready, <<e>>) /\ failed' = failed \ {found[o]}
    BY DEF RequeueFound
  <1> HIDE DEF e
  <1> QED
    BY <1>1, <1>2, <1>3, OnePushed DEF RedisTyped, StoreTyped

\* What is pending is somewhere, from the start and through every action.
LEMMA KeptInit == RedisInit => Kept
  BY DEF RedisInit, Kept

LEMMA KeptStep == RedisTyped /\ Kept /\ [RedisNext]_redisVars => Kept'
  <1> SUFFICES ASSUME RedisTyped, Kept, [RedisNext]_redisVars,
                      NEW j \in Payloads, fate'[j] = "pending"
               PROVE  \E c \in Live' \cup failed' : c.payload = j
    BY DEF Kept
  <1> DEFINE Somewhere == \E c \in Live \cup failed : c.payload = j
             There == \E c \in Live' \cup failed' : c.payload = j
  <1>0. fate[j] = "pending" => Somewhere
    BY DEF Kept
  <1>1. ASSUME NEW i \in Payloads, RedisPush(i) PROVE There
    <2>1. PICK e \in Envelopes :
            /\ e.payload = i
            /\ \/ ToSet(ready') = ToSet(ready) \cup {e} /\ UNCHANGED delayed
               \/ delayed' = delayed \cup {e} /\ UNCHANGED ready
      BY <1>1, PushStores
    <2>2. Live' = Live \cup {e} /\ failed' = failed
      BY <1>1, <2>1 DEF RedisPush, Live
    <2>3. j # i => fate[j] = "pending"
      BY <1>1 DEF RedisPush, Ended
    <2> QED
      BY <1>0, <2>1, <2>2, <2>3
  <1>2. ASSUME NEW w \in Hands, MigrateDue(w) PROVE There
    <2>1. ToSet(ready') = ToSet(ready) \cup due /\ delayed' = delayed \ due
      BY <1>2, MigrateMoves
    <2>2. Live \subseteq Live' /\ UNCHANGED <<failed, fate>>
      BY <1>2, <2>1 DEF MigrateDue, Live
    <2> QED
      BY <1>0, <2>2
  <1>3. ASSUME NEW w \in Hands, ReclaimExpired(w) PROVE There
    <2>1. /\ ToSet(ready') = ToSet(ready) \cup {Reclaimed(e) : e \in overdue}
          /\ reserved' = reserved \ overdue
      BY <1>3, ReclaimMoves
    <2>2. UNCHANGED <<delayed, failed, fate>>
      BY <1>3 DEF ReclaimExpired
    <2>3. \A e \in overdue : Reclaimed(e).payload = e.payload
      BY EnvelopeParts DEF RedisTyped, StoreTyped
    <2>4. PICK c \in Live \cup failed : c.payload = j
      BY <1>0, <2>2
    <2>5. CASE c \in overdue
      BY <2>1, <2>3, <2>4, <2>5 DEF Live
    <2>6. CASE c \notin overdue
      BY <2>1, <2>2, <2>4, <2>6 DEF Live
    <2> QED
      BY <2>5, <2>6
  <1>4. ASSUME NEW w \in Hands, ReserveNext(w) PROVE There
    <2>1. Live' = Live
      <3>1. CASE ready = <<>>
        BY <1>4, <3>1 DEF ReserveNext, Live
      <3>2. CASE ready # <<>>
        <4>1. PICK e \in Envelopes :
                /\ ToSet(ready) = ToSet(ready') \cup {e}
                /\ reserved' = reserved \cup {e}
          BY <1>4, <3>2, ReserveMoves
        <4> QED
          BY <1>4, <4>1 DEF ReserveNext, Live
      <3> QED
        BY <3>1, <3>2
    <2> QED
      BY <1>0, <1>4, <2>1 DEF ReserveNext
  <1>5. ASSUME NEW w \in Hands, Handle(w) PROVE There
    <2>1. Live' = Live /\ failed' = failed /\ fate' = fate
      BY <1>5 DEF Handle, Live
    <2> QED
      BY <1>0, <2>1
  <1>6. ASSUME NEW w \in Hands, Delete(w) PROVE There
    <2>1. Live \ {popped[w]} \subseteq Live' /\ failed' = failed
      BY <1>6, LetGoDrops DEF Delete, Live
    <2>2. j # popped[w].payload /\ fate[j] = "pending"
      BY <1>6 DEF Delete, Ended
    <2> QED
      BY <1>0, <2>1, <2>2
  <1>7. ASSUME NEW w \in Hands, ReleaseJob(w) PROVE There
    <2>1. PICK e \in Envelopes :
            /\ e.payload = popped[w].payload
            /\ \/ ToSet(ready') = ToSet(ready) \cup {e} /\ UNCHANGED delayed
               \/ delayed' = delayed \cup {e} /\ UNCHANGED ready
      BY <1>7, ReleaseStores
    <2>2. reserved' = reserved \ {popped[w]} /\ UNCHANGED <<failed, fate>>
      BY <1>7, LetGoDrops DEF ReleaseJob
    <2>3. Live \ {popped[w]} \subseteq Live' /\ e \in Live'
      BY <2>1, <2>2 DEF Live
    <2> QED
      BY <1>0, <2>1, <2>2, <2>3
  <1>8. ASSUME NEW w \in Hands, FailJob(w) PROVE There
    <2>1. Record(popped[w]).payload = popped[w].payload
      BY <1>8, PoppedTyped, EnvelopeParts DEF FailJob
    <2>2. /\ Live \ {popped[w]} \subseteq Live'
          /\ failed' = failed \cup {Record(popped[w])} /\ fate' = fate
      BY <1>8, LetGoDrops DEF FailJob, Live
    <2> QED
      BY <1>0, <2>1, <2>2
  <1>9. ASSUME NEW w \in Hands, Killed(w) PROVE There
    <2>1. Live' = Live /\ failed' = failed /\ fate' = fate
      BY <1>9 DEF Killed, Live
    <2> QED
      BY <1>0, <2>1
  <1>10. ASSUME RedisClear PROVE There
    <2>1. fate[j] = "pending" /\ EnvelopesOf(j) \ reserved = {}
      BY <1>10 DEF RedisClear, Ended
    <2>2. \A c \in Live : c.payload = j => c \in reserved
      BY <2>1 DEF EnvelopesOf, Live, ToSet
    <2>3. reserved \subseteq Live' /\ failed' = failed
      BY <1>10 DEF RedisClear, Live
    <2> QED
      BY <1>0, <2>1, <2>2, <2>3
  <1>11. ASSUME NEW o \in Operators, FindFailed(o) PROVE There
    <2>1. Live' = Live /\ failed' = failed /\ fate' = fate
      BY <1>11 DEF FindFailed, Live
    <2> QED
      BY <1>0, <2>1
  <1>12. ASSUME NEW o \in Operators, RequeueFound(o) PROVE There
    <2>1. /\ failed' = failed \ {found[o]}
          /\ \E e \in Envelopes :
               e.payload = found[o].payload /\ ToSet(ready') = ToSet(ready) \cup {e}
      BY <1>12, RequeueStores
    <2>2. UNCHANGED <<delayed, reserved, fate>>
      BY <1>12 DEF RequeueFound
    <2>3. Live \subseteq Live' /\ \E e \in Live' : e.payload = found[o].payload
      BY <2>1, <2>2 DEF Live
    <2> QED
      BY <1>0, <2>1, <2>2, <2>3
  <1>13. ASSUME NEW rs \in SUBSET failed, ForgetFailed(rs) PROVE There
    <2>1. fate[j] = "pending" /\ \A r \in rs : r.payload # j
      <3>1. fate' = [i \in Payloads |->
                        IF i \in {r.payload : r \in {r \in rs : fate[r.payload] = "pending"}}
                        THEN "given up" ELSE fate[i]]
        BY <1>13 DEF ForgetFailed, Ended
      <3> QED
        BY <3>1
    <2>2. Live' = Live /\ failed' = failed \ rs
      BY <1>13 DEF ForgetFailed, Live
    <2> QED
      BY <1>0, <2>1, <2>2
  <1>14. ASSUME NEW e, DelayOver(e) \/ Expires(e) PROVE There
    <2>1. Live' = Live /\ failed' = failed /\ fate' = fate
      BY <1>14 DEF DelayOver, Expires, Live
    <2> QED
      BY <1>0, <2>1
  <1>15. CASE UNCHANGED redisVars
    <2>1. Live' = Live /\ failed' = failed /\ fate' = fate
      BY <1>15 DEF redisVars, Live
    <2> QED
      BY <1>0, <2>1
  <1> QED
    BY <1>1, <1>2, <1>3, <1>4, <1>5, <1>6, <1>7, <1>8, <1>9, <1>10, <1>11, <1>12, <1>13,
       <1>14, <1>15
       DEF RedisNext, Poll, ProcessJob

\* Whatever dies, stalls or races, a job that was dispatched is somewhere until it has
\* succeeded or an operator gave it up: each mutation of the driver is one script.
THEOREM NotLost == RedisSpec => []NeverLost
  <1>1. RedisInit => RedisTyped /\ Kept
    BY RedisTypedInit, KeptInit
  <1>2. RedisTyped /\ Kept /\ [RedisNext]_redisVars => (RedisTyped /\ Kept)'
    BY RedisTypedStep, KeptStep
  <1>3. RedisTyped /\ Kept => NeverLost
    BY CopiesCount DEF Kept, NeverLost
  <1> QED
    BY <1>1, <1>2, <1>3, PTL DEF RedisSpec

-----------------------------------------------------------------------------
(* One envelope at a time *)

\* No job, and no id, is in two of the places, or twice in one of them.
OnePlaceOf(list, later, flying) ==
    /\ Scattered(list)
    /\ ToSet(list) \cap later = {} /\ (ToSet(list) \cup later) \cap flying = {}
    /\ \A e, f \in ToSet(list) \cup later \cup flying : e # f => Apart(e, f)

\* An envelope of another job joins the list, or what is delayed.
LEMMA Joins ==
    ASSUME NEW list \in Seq(Envelopes), NEW later, NEW flying, NEW e \in Envelopes,
           OnePlaceOf(list, later, flying),
           \A c \in ToSet(list) \cup later \cup flying : Apart(c, e)
    PROVE  /\ OnePlaceOf(Pushed(list, <<e>>), later, flying)
           /\ OnePlaceOf(list, later \cup {e}, flying)
  <1>1. e \notin ToSet(list) \cup later \cup flying
    BY DEF Apart
  <1>2. /\ Scattered(list)
        /\ ToSet(list) \cap later = {} /\ (ToSet(list) \cup later) \cap flying = {}
        /\ \A c, d \in ToSet(list) \cup later \cup flying : c # d => Apart(c, d)
    BY DEF OnePlaceOf
  <1>3. \A c, d \in ToSet(list) \cup later \cup flying \cup {e} : c # d => Apart(c, d)
    BY <1>2 DEF Apart
  <1>4. <<e>> \in Seq(Envelopes) /\ ToSet(<<e>>) = {e} /\ Scattered(<<e>>)
    BY OneListed
  <1>5. Scattered(Pushed(list, <<e>>))
    BY <1>2, <1>4, PushedScattered
  <1>6. ToSet(Pushed(list, <<e>>)) = ToSet(list) \cup {e}
    BY OnePushed
  <1>7. OnePlaceOf(Pushed(list, <<e>>), later, flying)
    BY <1>1, <1>2, <1>3, <1>5, <1>6 DEF OnePlaceOf
  <1>8. OnePlaceOf(list, later \cup {e}, flying)
    BY <1>1, <1>2, <1>3 DEF OnePlaceOf
  <1> QED
    BY <1>7, <1>8

\* Delayed envelopes move to the list, each once.
LEMMA ComesDueApart ==
    ASSUME NEW list \in Seq(Envelopes), NEW later, NEW flying, NEW es \in Seq(Envelopes),
           OnePlaceOf(list, later, flying), ToSet(es) \subseteq later,
           \A i, k \in DOMAIN es : i # k => es[i] # es[k]
    PROVE  OnePlaceOf(Pushed(list, es), later \ ToSet(es), flying)
  <1>1. /\ Scattered(list)
        /\ ToSet(list) \cap later = {} /\ (ToSet(list) \cup later) \cap flying = {}
        /\ \A c, d \in ToSet(list) \cup later \cup flying : c # d => Apart(c, d)
    BY DEF OnePlaceOf
  <1>2. Scattered(es)
    BY <1>1 DEF Scattered, ToSet
  <1>3. \A c \in ToSet(list), d \in ToSet(es) : Apart(c, d)
    BY <1>1
  <1>4. Scattered(Pushed(list, es)) /\ ToSet(Pushed(list, es)) = ToSet(list) \cup ToSet(es)
    BY <1>1, <1>2, <1>3, PushedScattered, PushedSet
  <1> QED
    BY <1>1, <1>4 DEF OnePlaceOf

\* Expired envelopes move to the list, each with one attempt more.
LEMMA ReclaimedApart ==
    ASSUME NEW list \in Seq(Envelopes), NEW later, NEW flying \in SUBSET Envelopes,
           NEW S \in SUBSET flying, NEW es \in Seq(Envelopes),
           OnePlaceOf(list, later, flying), ToSet(es) = {Reclaimed(e) : e \in S},
           \A i, k \in DOMAIN es : i # k => es[i] # es[k]
    PROVE  OnePlaceOf(Pushed(list, es), later, flying \ S)
  <1>1. /\ Scattered(list)
        /\ ToSet(list) \cap later = {} /\ (ToSet(list) \cup later) \cap flying = {}
        /\ \A c, d \in ToSet(list) \cup later \cup flying : c # d => Apart(c, d)
    BY DEF OnePlaceOf
  <1>2. \A e \in S : Reclaimed(e).id = e.id /\ Reclaimed(e).payload = e.payload
    BY EnvelopeParts
  <1>3. \A c, d \in ToSet(es) : c # d => Apart(c, d)
    <2> TAKE c, d \in ToSet(es)
    <2> HAVE c # d
    <2>1. PICK e \in S, f \in S : c = Reclaimed(e) /\ d = Reclaimed(f)
      OBVIOUS
    <2> QED
      BY <1>1, <1>2, <2>1 DEF Apart
  <1>4. Scattered(es)
    BY <1>3 DEF Scattered, ToSet
  <1>5. \A c \in ToSet(list) \cup later \cup (flying \ S), d \in ToSet(es) : Apart(c, d)
    <2> TAKE c \in ToSet(list) \cup later \cup (flying \ S), d \in ToSet(es)
    <2>1. PICK f \in S : d = Reclaimed(f)
      OBVIOUS
    <2>2. Apart(c, f)
      BY <1>1
    <2> QED
      BY <1>2, <2>1, <2>2 DEF Apart
  <1>6. Scattered(Pushed(list, es)) /\ ToSet(Pushed(list, es)) = ToSet(list) \cup ToSet(es)
    BY <1>1, <1>4, <1>5, PushedScattered, PushedSet
  <1>7. \A c, d \in ToSet(list) \cup ToSet(es) \cup later \cup (flying \ S) :
            c # d => Apart(c, d)
    BY <1>1, <1>3, <1>5 DEF Apart
  <1>8. ToSet(es) \cap (ToSet(list) \cup later \cup (flying \ S)) = {}
    BY <1>5 DEF Apart
  <1> QED
    BY <1>1, <1>6, <1>7, <1>8 DEF OnePlaceOf

\* The last of the list is taken in hand.
LEMMA ReservedApart ==
    ASSUME NEW list \in Seq(Envelopes), NEW later, NEW flying, list # <<>>,
           OnePlaceOf(list, later, flying)
    PROVE  OnePlaceOf(Front(list), later, flying \cup {Last(list)})
  <1>1. /\ Scattered(list)
        /\ ToSet(list) \cap later = {} /\ (ToSet(list) \cup later) \cap flying = {}
        /\ \A c, d \in ToSet(list) \cup later \cup flying : c # d => Apart(c, d)
    BY DEF OnePlaceOf
  <1>2. /\ ToSet(list) = ToSet(Front(list)) \cup {Last(list)}
        /\ Scattered(Front(list)) /\ \A e \in ToSet(Front(list)) : Apart(e, Last(list))
    BY <1>1, LastOut
  <1>3. Last(list) \notin ToSet(Front(list))
    BY <1>2 DEF Apart
  <1> QED
    BY <1>1, <1>2, <1>3 DEF OnePlaceOf

\* What leaves the places leaves the rest where it was.
LEMMA LeavesApart ==
    ASSUME NEW list, NEW later, NEW flying, NEW S, OnePlaceOf(list, later, flying)
    PROVE  OnePlaceOf(list, later, flying \ S) /\ OnePlaceOf(<<>>, {}, flying)
  BY DEF OnePlaceOf, Scattered, ToSet

OnePlace == OnePlaceOf(ready, delayed, reserved)

\* A job that has failed is nowhere else, and has failed once.
FailedApart ==
    /\ \A r \in failed, e \in Live : r.payload # e.payload
    /\ \A r, s \in failed : r # s => r.payload # s.payload

\* A copy is of a job that was dispatched and has not succeeded.
StillOpen == \A c \in Live \cup failed : fate[c.payload] \notin {"absent", "done"}

\* What a worker holds is reserved, not expired, and held by no other.
InHand ==
    /\ \A w \in Hands : popped[w] # Nothing => popped[w] \in reserved \ overdue
    /\ \A v, w \in Hands : v # w /\ popped[v] # Nothing => popped[v] # popped[w]

\* An envelope knows of every start of its handler, or of all but the one its worker made.
Counted ==
    /\ \A e \in ToSet(ready) \cup delayed : runs[e.id] <= e.attempts
    /\ \A e \in reserved : runs[e.id] <= e.attempts + 1
    /\ \A w \in Hands : busy[w] = "holding" => runs[popped[w].id] <= popped[w].attempts
    /\ \A i \in 1..MaxIds : runs[i] <= Tries

IdsGiven ==
    /\ \A e \in Live : e.id < nextId
    /\ \A i \in 1..MaxIds : i >= nextId => runs[i] = 0

Steady == OnePlace /\ FailedApart /\ StillOpen /\ InHand /\ Counted /\ IdsGiven

\* A push is of a job that has no copy, under an id that was never used.
LEMMA SteadyPush ==
    ASSUME RedisTyped, Steady, NEW j \in Payloads, RedisPush(j)
    PROVE  Steady'
  <1>1. PICK e \in Envelopes :
          /\ e.id = nextId /\ e.payload = j /\ e.attempts = 0
          /\ \/ /\ ready' = Pushed(ready, <<e>>) /\ ToSet(ready') = ToSet(ready) \cup {e}
                /\ UNCHANGED delayed
             \/ delayed' = delayed \cup {e} /\ UNCHANGED ready
    BY PushStores
  <1>2. /\ UNCHANGED <<reserved, overdue, failed, busy, popped, runs>>
        /\ nextId' = nextId + 1 /\ nextId \in 1..MaxIds /\ fate[j] = "absent"
    <2>1. nextId <= MaxIds
      BY DEF RedisPush
    <2> QED
      BY <2>1 DEF RedisPush, RedisTyped, CountsTyped
  <1>3. fate'[j] = "pending" /\ \A i \in Payloads \ {j} : fate'[i] = fate[i]
    BY DEF RedisPush, Ended
  <1>4. Live' = Live \cup {e}
    BY <1>1, <1>2 DEF Live
  <1>5. Live \subseteq Envelopes /\ failed \subseteq FailedRecords
    BY LiveTyped
  <1>6. \A c \in Live \cup failed : c.payload # j
    BY <1>2 DEF Steady, StillOpen
  <1>7. \A c \in Live : Apart(c, e) /\ c.id < nextId'
    BY <1>1, <1>2, <1>5, <1>6, EnvelopeParts DEF Steady, IdsGiven, Apart
  <1>8. OnePlace'
    <2>1. /\ OnePlaceOf(Pushed(ready, <<e>>), delayed, reserved)
          /\ OnePlaceOf(ready, delayed \cup {e}, reserved)
      BY <1>7, Joins DEF Steady, OnePlace, Live, RedisTyped, StoreTyped
    <2> QED
      BY <1>1, <1>2, <2>1 DEF OnePlace
  <1>9. FailedApart'
    BY <1>1, <1>2, <1>4, <1>6 DEF Steady, FailedApart
  <1>10. StillOpen'
    BY <1>1, <1>2, <1>3, <1>4, <1>5, <1>6, EnvelopeParts DEF Steady, StillOpen, FailedRecords
  <1>11. InHand'
    BY <1>2 DEF Steady, InHand
  <1>12. Counted'
    <2>1. runs[nextId] = 0
      BY <1>2 DEF Steady, IdsGiven
    <2>2. \A c \in ToSet(ready') \cup delayed' : c = e \/ c \in ToSet(ready) \cup delayed
      BY <1>1
    <2> QED
      BY <1>1, <1>2, <2>1, <2>2 DEF Steady, Counted
  <1>13. IdsGiven'
    BY <1>1, <1>2, <1>4, <1>7 DEF Steady, IdsGiven
  <1> QED
    BY <1>8, <1>9, <1>10, <1>11, <1>12, <1>13 DEF Steady

LEMMA SteadyMigrate ==
    ASSUME RedisTyped, Steady, NEW w \in Hands, MigrateDue(w)
    PROVE  Steady'
  <1>1. PICK es \in Seq(Envelopes) :
          /\ ready' = Pushed(ready, es) /\ ToSet(es) = due
          /\ \A i, k \in DOMAIN es : i # k => es[i] # es[k]
          /\ ToSet(ready') = ToSet(ready) \cup due
          /\ delayed' = delayed \ due
    BY MigrateMoves
  <1>2. /\ UNCHANGED <<reserved, overdue, failed, popped, nextId, fate, runs>>
        /\ busy' = [busy EXCEPT ![w] = "migrated"] /\ due \subseteq delayed
    BY DEF MigrateDue, Turns, RedisTyped, StoreTyped
  <1>3. Live' = Live
    BY <1>1, <1>2 DEF Live
  <1>4. OnePlace'
    BY <1>1, <1>2, ComesDueApart DEF Steady, OnePlace, RedisTyped, StoreTyped
  <1>5. FailedApart' /\ StillOpen' /\ InHand' /\ IdsGiven'
    BY <1>2, <1>3 DEF Steady, FailedApart, StillOpen, InHand, IdsGiven
  <1>6. Counted'
    <2>1. ToSet(ready') \cup delayed' = ToSet(ready) \cup delayed
      BY <1>1, <1>2
    <2>2. \A v \in Hands : busy'[v] = "holding" => busy[v] = "holding"
      BY <1>2 DEF RedisTyped, HandsTyped
    <2> QED
      BY <1>2, <2>1, <2>2 DEF Steady, Counted
  <1> QED
    BY <1>4, <1>5, <1>6 DEF Steady

\* What is reclaimed is held by no worker, and counts the run it lost.
LEMMA SteadyReclaim ==
    ASSUME RedisTyped, Steady, NEW w \in Hands, ReclaimExpired(w)
    PROVE  Steady'
  <1>1. PICK es \in Seq(Envelopes) :
          /\ ready' = Pushed(ready, es) /\ ToSet(es) = {Reclaimed(e) : e \in overdue}
          /\ \A i, k \in DOMAIN es : i # k => es[i] # es[k]
          /\ ToSet(ready') = ToSet(ready) \cup {Reclaimed(e) : e \in overdue}
          /\ reserved' = reserved \ overdue
    BY ReclaimMoves
  <1>2. /\ UNCHANGED <<delayed, failed, popped, nextId, fate, runs>>
        /\ busy' = [busy EXCEPT ![w] = "reclaimed"] /\ overdue' = {}
        /\ overdue \subseteq reserved /\ reserved \subseteq Envelopes
    BY DEF ReclaimExpired, Expired, Turns, RedisTyped, StoreTyped
  <1>3. \A e \in overdue : /\ Reclaimed(e).id = e.id /\ Reclaimed(e).payload = e.payload
                           /\ Reclaimed(e).attempts = e.attempts + 1
    BY <1>2, EnvelopeParts
  <1>4. \A c \in Live' : \E d \in Live : c.id = d.id /\ c.payload = d.payload
    BY <1>1, <1>2, <1>3 DEF Live
  <1>5. OnePlace'
    BY <1>1, <1>2, ReclaimedApart DEF Steady, OnePlace, RedisTyped, StoreTyped
  <1>6. FailedApart'
    BY <1>2, <1>4 DEF Steady, FailedApart
  <1>7. StillOpen'
    BY <1>2, <1>4 DEF Steady, StillOpen
  <1>8. InHand'
    BY <1>1, <1>2 DEF Steady, InHand
  <1>9. Counted'
    <2>1. \A v \in Hands : busy'[v] = "holding" => busy[v] = "holding"
      BY <1>2 DEF RedisTyped, HandsTyped
    <2>2. \A c \in ToSet(ready') \cup delayed' : runs[c.id] <= c.attempts
      BY <1>1, <1>2, <1>3 DEF Steady, Counted
    <2> QED
      BY <1>1, <1>2, <2>1, <2>2 DEF Steady, Counted
  <1>10. IdsGiven'
    BY <1>2, <1>4 DEF Steady, IdsGiven
  <1> QED
    BY <1>5, <1>6, <1>7, <1>8, <1>9, <1>10 DEF Steady

LEMMA SteadyReserve ==
    ASSUME RedisTyped, Steady, NEW w \in Hands, ReserveNext(w)
    PROVE  Steady'
  <1>1. UNCHANGED <<delayed, failed, nextId, fate, runs>>
    BY DEF ReserveNext
  <1>2. CASE ready = <<>>
    <2>1. /\ UNCHANGED <<ready, popped, reserved, overdue>>
          /\ busy' = [busy EXCEPT ![w] = "idle"]
      BY <1>2 DEF ReserveNext, Turns
    <2>2. \A v \in Hands : busy'[v] = "holding" => busy[v] = "holding"
      BY <2>1 DEF RedisTyped, HandsTyped
    <2> QED
      BY <1>1, <2>1, <2>2
         DEF Steady, OnePlace, FailedApart, StillOpen, InHand, Counted, IdsGiven, Live
  <1>3. CASE ready # <<>>
    <2>1. PICK e \in Envelopes :
            /\ e = Last(ready) /\ ready' = Front(ready)
            /\ ToSet(ready) = ToSet(ready') \cup {e}
            /\ reserved' = reserved \cup {e} /\ overdue' = overdue \ {e}
            /\ popped' = [popped EXCEPT ![w] = e] /\ busy' = [busy EXCEPT ![w] = "holding"]
            /\ popped[w] = Nothing
      BY <1>3, ReserveMoves
    <2>2. Live' = Live
      BY <1>1, <2>1 DEF Live
    <2>3. OnePlace'
      BY <1>1, <1>3, <2>1, ReservedApart DEF Steady, OnePlace, RedisTyped, StoreTyped
    <2>4. FailedApart' /\ StillOpen' /\ IdsGiven'
      BY <1>1, <2>2 DEF Steady, FailedApart, StillOpen, IdsGiven
    <2>5. /\ popped'[w] = e /\ busy'[w] = "holding"
          /\ \A v \in Hands \ {w} : popped'[v] = popped[v] /\ busy'[v] = busy[v]
      BY <2>1 DEF RedisTyped, HandsTyped
    <2>6. e \notin reserved
      BY <2>1 DEF Steady, OnePlace, OnePlaceOf
    <2>7. InHand'
      BY <2>1, <2>5, <2>6 DEF Steady, InHand
    <2>8. Counted'
      <3>1. runs[e.id] <= e.attempts /\ e.attempts \in Nat /\ runs[e.id] \in Nat
        BY <2>1, EnvelopeParts DEF Steady, Counted, RedisTyped, CountsTyped
      <3> QED
        BY <1>1, <2>1, <2>5, <3>1 DEF Steady, Counted
    <2> QED
      BY <2>3, <2>4, <2>7, <2>8 DEF Steady
  <1> QED
    BY <1>2, <1>3

\* The handler starts for the one envelope that has its id.
LEMMA SteadyHandle ==
    ASSUME RedisTyped, Steady, NEW w \in Hands, Handle(w)
    PROVE  Steady'
  <1> DEFINE e == popped[w]
  <1>1. /\ UNCHANGED <<ready, delayed, reserved, overdue, failed, popped, nextId, fate>>
        /\ busy' = [busy EXCEPT ![w] = "running"] /\ busy[w] = "holding"
        /\ runs' = [runs EXCEPT ![e.id] = @ + 1] /\ e.attempts < Tries
    BY DEF Handle, Turns
  <1>2. e \in Envelopes /\ e \in reserved \ overdue
    BY PoppedTyped DEF Handle, Steady, InHand
  <1>3. e.id \in 1..MaxIds /\ e.attempts \in Nat /\ e.id < nextId
    BY <1>2, EnvelopeParts DEF Steady, IdsGiven, Live
  <1>4. /\ runs'[e.id] = runs[e.id] + 1 /\ runs[e.id] <= e.attempts
        /\ \A i \in 1..MaxIds : runs[i] \in Nat /\ (i # e.id => runs'[i] = runs[i])
    BY <1>1, <1>3 DEF Steady, Counted, RedisTyped, CountsTyped
  <1>5. \A c \in Live : c.id \in 1..MaxIds /\ c.attempts \in Nat /\ (c # e => c.id # e.id)
    BY <1>2, LiveTyped, EnvelopeParts DEF Steady, OnePlace, OnePlaceOf, Live, Apart
  <1>6. OnePlace' /\ FailedApart' /\ StillOpen' /\ InHand'
    BY <1>1 DEF Steady, OnePlace, FailedApart, StillOpen, InHand, Live
  <1>7. Counted'
    <2> HIDE DEF e
    <2>1. \A c \in ToSet(ready) \cup delayed : c # e
      BY <1>2 DEF Steady, OnePlace, OnePlaceOf
    <2>2. \A c \in ToSet(ready) \cup delayed : runs'[c.id] <= c.attempts
      BY <1>4, <1>5, <2>1 DEF Steady, Counted, Live
    <2>3. \A c \in reserved : runs'[c.id] <= c.attempts + 1
      <3> TAKE c \in reserved
      <3>1. CASE c = e
        BY <1>3, <1>4, <3>1
      <3>2. CASE c # e
        <4>1. runs'[c.id] = runs[c.id]
          BY <1>4, <1>5, <3>2 DEF Live
        <4> QED
          BY <4>1 DEF Steady, Counted
      <3> QED
        BY <3>1, <3>2
    <2>4. \A v \in Hands : busy'[v] = "holding" => runs'[popped[v].id] <= popped[v].attempts
      <3> SUFFICES ASSUME NEW v \in Hands, busy'[v] = "holding"
                   PROVE  runs'[popped[v].id] <= popped[v].attempts
        OBVIOUS
      <3>1. v # w /\ busy[v] = "holding"
        BY <1>1 DEF RedisTyped, HandsTyped
      <3>2. popped[v] # Nothing /\ popped[v] # e /\ popped[v] \in reserved
        BY <3>1 DEF RedisTyped, HandsTyped, Steady, InHand, e
      <3>3. runs'[popped[v].id] = runs[popped[v].id]
        BY <1>4, <1>5, <3>2 DEF Live
      <3> QED
        BY <3>1, <3>3 DEF Steady, Counted
    <2>5. \A i \in 1..MaxIds : runs'[i] <= Tries
      <3> TAKE i \in 1..MaxIds
      <3>1. CASE i = e.id
        BY <1>1, <1>3, <1>4, <3>1 DEF e
      <3>2. CASE i # e.id
        BY <1>4, <3>2 DEF Steady, Counted
      <3> QED
        BY <3>1, <3>2
    <2> QED
      BY <1>1, <2>2, <2>3, <2>4, <2>5 DEF Counted
  <1>8. IdsGiven'
    <2> HIDE DEF e
    <2> SUFFICES ASSUME NEW i \in 1..MaxIds, i >= nextId PROVE runs'[i] = 0
      BY <1>1 DEF Steady, IdsGiven, Live
    <2>1. i # e.id
      BY <1>3 DEF RedisTyped, CountsTyped
    <2> QED
      BY <1>4, <2>1 DEF Steady, IdsGiven
  <1> QED
    BY <1>6, <1>7, <1>8 DEF Steady

\* Letting go of an envelope leaves the others as they were.
LEMMA SteadyLetGo ==
    ASSUME RedisTyped, Steady, NEW w \in Hands, popped[w] # Nothing, LetGo(w),
           UNCHANGED runs
    PROVE  /\ InHand'
           /\ popped[w] \in reserved /\ popped[w].payload \in Payloads
           /\ \A c \in Live : c # popped[w] => Apart(c, popped[w])
           /\ OnePlaceOf(ready, delayed, reserved')
           /\ \A c \in ToSet(ready) \cup delayed \cup reserved' : Apart(c, popped[w])
           /\ \A v \in Hands :
                 busy'[v] = "holding" => runs'[popped'[v].id] <= popped'[v].attempts
  <1>1. /\ reserved' = reserved \ {popped[w]} /\ overdue' = overdue \ {popped[w]}
        /\ popped' = [popped EXCEPT ![w] = Nothing] /\ busy' = [busy EXCEPT ![w] = "idle"]
    BY LetGoDrops
  <1>2. /\ popped'[w] = Nothing /\ busy'[w] = "idle"
        /\ \A v \in Hands \ {w} : popped'[v] = popped[v] /\ busy'[v] = busy[v]
    BY <1>1 DEF RedisTyped, HandsTyped
  <1>3. popped[w] \in reserved /\ popped[w].payload \in Payloads
    BY PoppedTyped, EnvelopeParts DEF Steady, InHand
  <1>4. InHand'
    BY <1>1, <1>2 DEF Steady, InHand
  <1>5. \A c \in Live : c # popped[w] => Apart(c, popped[w])
    BY <1>3 DEF Steady, OnePlace, OnePlaceOf, Live
  <1>6. OnePlaceOf(ready, delayed, reserved')
    BY <1>1, LeavesApart DEF Steady, OnePlace
  <1>7. popped[w] \notin ToSet(ready) \cup delayed \cup reserved'
    BY <1>1, <1>3 DEF Steady, OnePlace, OnePlaceOf
  <1>8. \A c \in ToSet(ready) \cup delayed \cup reserved' : Apart(c, popped[w])
    BY <1>1, <1>5, <1>7 DEF Live
  <1>9. \A v \in Hands : busy'[v] = "holding" => runs'[popped'[v].id] <= popped'[v].attempts
    BY <1>2 DEF Steady, Counted
  <1> QED
    BY <1>3, <1>4, <1>5, <1>6, <1>8, <1>9

\* It succeeded, and no copy of it is left.
LEMMA SteadyDelete ==
    ASSUME RedisTyped, Steady, NEW w \in Hands, Delete(w)
    PROVE  Steady'
  <1>1. /\ popped[w] # Nothing /\ LetGo(w)
        /\ UNCHANGED <<ready, delayed, failed, nextId, runs>>
        /\ reserved' = reserved \ {popped[w]}
    BY LetGoDrops DEF Delete
  <1>2. /\ InHand' /\ popped[w] \in reserved /\ popped[w].payload \in Payloads
        /\ OnePlaceOf(ready, delayed, reserved')
        /\ \A c \in ToSet(ready) \cup delayed \cup reserved' : Apart(c, popped[w])
        /\ \A v \in Hands : busy'[v] = "holding" => runs'[popped'[v].id] <= popped'[v].attempts
    BY <1>1, SteadyLetGo
  <1>3. Live' \subseteq Live /\ popped[w] \in Live
    BY <1>1, <1>2 DEF Live
  <1>4. OnePlace'
    BY <1>1, <1>2 DEF OnePlace
  <1>5. FailedApart'
    BY <1>1, <1>3 DEF Steady, FailedApart
  <1>6. StillOpen'
    <2>1. \A c \in Live' \cup failed' : c.payload # popped[w].payload
      BY <1>1, <1>2, <1>3 DEF Live, Apart, Steady, FailedApart
    <2>2. \A j \in Payloads : j # popped[w].payload => fate'[j] = fate[j]
      BY DEF Delete, Ended
    <2>3. \A c \in Live' \cup failed' : c.payload \in Payloads
      BY <1>1, <1>3, LiveTyped, EnvelopeParts DEF FailedRecords
    <2> QED
      BY <1>1, <1>3, <2>1, <2>2, <2>3 DEF Steady, StillOpen
  <1>7. Counted'
    BY <1>1, <1>2 DEF Steady, Counted
  <1>8. IdsGiven'
    BY <1>1, <1>3 DEF Steady, IdsGiven
  <1> QED
    BY <1>2, <1>4, <1>5, <1>6, <1>7, <1>8 DEF Steady

\* A job goes back with the attempt it made, whose reservation is still its own.
LEMMA SteadyRelease ==
    ASSUME RedisTyped, Steady, NEW w \in Hands, ReleaseJob(w)
    PROVE  Steady'
  <1>1. /\ popped[w] \in Envelopes
        /\ \E e \in Envelopes :
             /\ e.id = popped[w].id /\ e.payload = popped[w].payload
             /\ e.attempts = popped[w].attempts + 1
             /\ \/ /\ ready' = Pushed(ready, <<e>>) /\ ToSet(ready') = ToSet(ready) \cup {e}
                   /\ UNCHANGED <<delayed, due>>
                \/ delayed' = delayed \cup {e} /\ due' = due \ {e} /\ UNCHANGED ready
    BY ReleaseStores
  <1>2. PICK e \in Envelopes :
          /\ e.id = popped[w].id /\ e.payload = popped[w].payload
          /\ e.attempts = popped[w].attempts + 1
          /\ \/ /\ ready' = Pushed(ready, <<e>>) /\ ToSet(ready') = ToSet(ready) \cup {e}
                /\ UNCHANGED <<delayed, due>>
             \/ delayed' = delayed \cup {e} /\ due' = due \ {e} /\ UNCHANGED ready
    BY <1>1
  <1>3. /\ popped[w] # Nothing /\ LetGo(w) /\ UNCHANGED <<failed, nextId, fate, runs>>
        /\ reserved' = reserved \ {popped[w]}
    BY <1>1, LetGoDrops DEF ReleaseJob
  <1>4. /\ InHand' /\ popped[w] \in reserved
        /\ OnePlaceOf(ready, delayed, reserved')
        /\ \A c \in ToSet(ready) \cup delayed \cup reserved' : Apart(c, popped[w])
        /\ \A v \in Hands : busy'[v] = "holding" => runs'[popped'[v].id] <= popped'[v].attempts
    BY <1>3, SteadyLetGo
  <1>5. /\ Live' = ToSet(ready) \cup delayed \cup reserved' \cup {e}
        /\ ToSet(ready) \cup delayed \cup reserved' \subseteq Live
        /\ popped[w] \in Live
    BY <1>2, <1>3, <1>4 DEF Live
  <1>6. \A c \in ToSet(ready) \cup delayed \cup reserved' : Apart(c, e)
    BY <1>2, <1>4 DEF Apart
  <1>7. OnePlace'
    <2>1. /\ OnePlaceOf(Pushed(ready, <<e>>), delayed, reserved')
          /\ OnePlaceOf(ready, delayed \cup {e}, reserved')
      BY <1>4, <1>6, Joins DEF RedisTyped, StoreTyped
    <2> QED
      BY <1>2, <2>1 DEF OnePlace
  <1>8. FailedApart'
    BY <1>2, <1>3, <1>5 DEF Steady, FailedApart
  <1>9. StillOpen'
    BY <1>2, <1>3, <1>5 DEF Steady, StillOpen
  <1>10. Counted'
    <2>1. runs[e.id] <= e.attempts
      BY <1>2, <1>4 DEF Steady, Counted
    <2>2. \A c \in ToSet(ready') \cup delayed' : c = e \/ c \in ToSet(ready) \cup delayed
      BY <1>2
    <2> QED
      BY <1>3, <1>4, <2>1, <2>2 DEF Steady, Counted
  <1>11. IdsGiven'
    BY <1>2, <1>3, <1>5 DEF Steady, IdsGiven
  <1> QED
    BY <1>4, <1>7, <1>8, <1>9, <1>10, <1>11 DEF Steady

\* A job moves from the reserved to the failed.
LEMMA SteadyFail ==
    ASSUME RedisTyped, Steady, NEW w \in Hands, FailJob(w)
    PROVE  Steady'
  <1>1. /\ popped[w] # Nothing /\ LetGo(w) /\ UNCHANGED <<ready, delayed, nextId, fate, runs>>
        /\ failed' = failed \cup {Record(popped[w])} /\ reserved' = reserved \ {popped[w]}
    BY LetGoDrops DEF FailJob
  <1>2. /\ InHand' /\ popped[w] \in reserved
        /\ OnePlaceOf(ready, delayed, reserved')
        /\ \A c \in ToSet(ready) \cup delayed \cup reserved' : Apart(c, popped[w])
        /\ \A v \in Hands : busy'[v] = "holding" => runs'[popped'[v].id] <= popped'[v].attempts
    BY <1>1, SteadyLetGo
  <1>3. Live' \subseteq Live /\ popped[w] \in Live
    BY <1>1, <1>2 DEF Live
  <1>4. Record(popped[w]).payload = popped[w].payload
    BY <1>1, PoppedTyped, EnvelopeParts
  <1>5. OnePlace'
    BY <1>1, <1>2 DEF OnePlace
  <1>6. FailedApart'
    <2>1. \A r \in failed : r.payload # popped[w].payload
      BY <1>3 DEF Steady, FailedApart
    <2>2. \A c \in Live' : c.payload # popped[w].payload
      BY <1>1, <1>2 DEF Live, Apart
    <2> QED
      BY <1>1, <1>3, <1>4, <2>1, <2>2 DEF Steady, FailedApart
  <1>7. StillOpen'
    BY <1>1, <1>3, <1>4 DEF Steady, StillOpen
  <1>8. Counted'
    BY <1>1, <1>2 DEF Steady, Counted
  <1>9. IdsGiven'
    BY <1>1, <1>3 DEF Steady, IdsGiven
  <1> QED
    BY <1>2, <1>5, <1>6, <1>7, <1>8, <1>9 DEF Steady

\* A dead worker's envelope stays reserved, as if it were held.
LEMMA SteadyKilled ==
    ASSUME RedisTyped, Steady, NEW w \in Hands, Killed(w)
    PROVE  Steady'
  <1>1. /\ UNCHANGED <<ready, delayed, reserved, overdue, failed, nextId, fate, runs>>
        /\ popped' = [popped EXCEPT ![w] = Nothing] /\ busy' = [busy EXCEPT ![w] = "idle"]
    BY DEF Killed, Turns
  <1>2. /\ popped'[w] = Nothing /\ busy'[w] = "idle"
        /\ \A v \in Hands \ {w} : popped'[v] = popped[v] /\ busy'[v] = busy[v]
    BY <1>1 DEF RedisTyped, HandsTyped
  <1>3. OnePlace' /\ FailedApart' /\ StillOpen' /\ IdsGiven'
    BY <1>1 DEF Steady, OnePlace, FailedApart, StillOpen, IdsGiven, Live
  <1>4. InHand'
    BY <1>1, <1>2 DEF Steady, InHand
  <1>5. Counted'
    BY <1>1, <1>2 DEF Steady, Counted
  <1> QED
    BY <1>3, <1>4, <1>5 DEF Steady

LEMMA SteadyClear ==
    ASSUME RedisTyped, Steady, RedisClear
    PROVE  Steady'
  <1>1. /\ ready' = <<>> /\ delayed' = {}
        /\ UNCHANGED <<reserved, overdue, failed, busy, popped, nextId, runs>>
    BY DEF RedisClear
  <1>2. Live' = reserved /\ Live' \subseteq Live
    BY <1>1 DEF Live, ToSet
  <1>3. OnePlace'
    BY <1>1, LeavesApart DEF Steady, OnePlace
  <1>4. FailedApart' /\ InHand' /\ IdsGiven'
    BY <1>1, <1>2 DEF Steady, FailedApart, InHand, IdsGiven
  <1>5. StillOpen'
    <2>1. \A j \in Payloads : fate'[j] = fate[j] \/ fate'[j] = "given up"
      BY DEF RedisClear, Ended
    <2>2. \A c \in Live' \cup failed' : c.payload \in Payloads
      BY <1>1, <1>2, LiveTyped, EnvelopeParts DEF FailedRecords
    <2> QED
      BY <1>1, <1>2, <2>1, <2>2 DEF Steady, StillOpen
  <1>6. Counted'
    BY <1>1 DEF Steady, Counted, ToSet
  <1> QED
    BY <1>3, <1>4, <1>5, <1>6 DEF Steady

\* A retry moves a job from the failed to the list, if it was there still.
LEMMA SteadyRequeue ==
    ASSUME RedisTyped, Steady, NEW o \in Operators, RequeueFound(o), found[o] \in failed
    PROVE  Steady'
  <1>1. /\ found[o] \in FailedRecords /\ failed' = failed \ {found[o]}
        /\ \E e \in Envelopes :
             /\ e.id = nextId /\ e.payload = found[o].payload /\ e.attempts = 0
             /\ ready' = Pushed(ready, <<e>>) /\ ToSet(ready') = ToSet(ready) \cup {e}
    BY RequeueStores
  <1>2. PICK e \in Envelopes :
          /\ e.id = nextId /\ e.payload = found[o].payload /\ e.attempts = 0
          /\ ready' = Pushed(ready, <<e>>) /\ ToSet(ready') = ToSet(ready) \cup {e}
    BY <1>1
  <1>3. /\ UNCHANGED <<delayed, reserved, overdue, busy, popped, fate, runs>>
        /\ nextId' = nextId + 1
    BY DEF RequeueFound
  <1>4. nextId \in 1..MaxIds
    <2>1. nextId <= MaxIds
      BY DEF RequeueFound
    <2> QED
      BY <2>1 DEF RedisTyped, CountsTyped
  <1>5. Live' = Live \cup {e}
    BY <1>2, <1>3 DEF Live
  <1>6. \A c \in Live : Apart(c, e) /\ c.id < nextId'
    <2>1. \A c \in Live : c.id \in 1..MaxIds /\ c.id < nextId
      BY LiveTyped, EnvelopeParts DEF Steady, IdsGiven
    <2>2. \A c \in Live : c.payload # found[o].payload
      BY DEF Steady, FailedApart
    <2> QED
      BY <1>2, <1>3, <1>4, <2>1, <2>2 DEF Apart
  <1>7. OnePlace'
    <2>1. OnePlaceOf(Pushed(ready, <<e>>), delayed, reserved)
      BY <1>6, Joins DEF Steady, OnePlace, Live, RedisTyped, StoreTyped
    <2> QED
      BY <1>2, <1>3, <2>1 DEF OnePlace
  <1>8. FailedApart'
    BY <1>1, <1>2, <1>5 DEF Steady, FailedApart
  <1>9. StillOpen'
    BY <1>1, <1>2, <1>3, <1>5 DEF Steady, StillOpen
  <1>10. InHand'
    BY <1>3 DEF Steady, InHand
  <1>11. Counted'
    <2>1. runs[nextId] = 0
      BY <1>4 DEF Steady, IdsGiven
    <2>2. \A c \in ToSet(ready') \cup delayed' : c = e \/ c \in ToSet(ready) \cup delayed
      BY <1>2, <1>3
    <2> QED
      BY <1>2, <1>3, <2>1, <2>2 DEF Steady, Counted
  <1>12. IdsGiven'
    BY <1>2, <1>3, <1>4, <1>5, <1>6 DEF Steady, IdsGiven
  <1> QED
    BY <1>7, <1>8, <1>9, <1>10, <1>11, <1>12 DEF Steady

LEMMA SteadyForget ==
    ASSUME RedisTyped, Steady, NEW rs \in SUBSET failed, ForgetFailed(rs)
    PROVE  Steady'
  <1>1. /\ UNCHANGED <<ready, delayed, reserved, overdue, busy, popped, nextId, runs>>
        /\ failed' = failed \ rs
    BY DEF ForgetFailed
  <1>2. Live' = Live
    BY <1>1 DEF Live
  <1>3. OnePlace' /\ FailedApart' /\ InHand' /\ Counted' /\ IdsGiven'
    BY <1>1, <1>2 DEF Steady, OnePlace, FailedApart, InHand, Counted, IdsGiven
  <1>4. StillOpen'
    <2>1. \A j \in Payloads : fate'[j] = fate[j] \/ fate'[j] = "given up"
      BY DEF ForgetFailed, Ended
    <2>2. \A c \in Live' \cup failed' : c.payload \in Payloads
      BY <1>1, <1>2, LiveTyped, EnvelopeParts DEF FailedRecords
    <2> QED
      BY <1>1, <1>2, <2>1, <2>2 DEF Steady, StillOpen
  <1> QED
    BY <1>3, <1>4 DEF Steady

\* A reservation runs out that no living worker relies on.
LEMMA SteadyExpires ==
    ASSUME RedisTyped, Steady, NEW e, Expires(e), odds' = {}
    PROVE  Steady'
  <1>1. /\ UNCHANGED <<ready, delayed, reserved, failed, busy, popped, nextId, fate, runs>>
        /\ overdue' = overdue \cup {e}
    BY DEF Expires
  <1>2. \A w \in Hands : popped[w] # e
    BY DEF Expires, Odd
  <1>3. OnePlace' /\ FailedApart' /\ StillOpen' /\ Counted' /\ IdsGiven'
    BY <1>1 DEF Steady, OnePlace, FailedApart, StillOpen, Counted, IdsGiven, Live
  <1>4. InHand'
    BY <1>1, <1>2 DEF Steady, InHand
  <1> QED
    BY <1>3, <1>4 DEF Steady

\* What has happened stays so.
LEMMA OddsStay == [RedisNext]_redisVars /\ odds' = {} => odds = {}
  BY DEF RedisNext, redisVars, Poll, ProcessJob, RedisPush, MigrateDue, ReclaimExpired,
         ReserveNext, Handle, Delete, ReleaseJob, FailJob, Killed, RedisClear, FindFailed,
         RequeueFound, ForgetFailed, DelayOver, Expires, Odd

SteadyUnlessOdd == odds = {} => Steady

LEMMA SteadyInit == RedisInit => SteadyUnlessOdd
  <1> SUFFICES ASSUME RedisInit PROVE Steady
    BY DEF SteadyUnlessOdd
  <1> USE DEF RedisInit
  <1>1. Live = {} /\ ToSet(ready) = {}
    BY DEF Live, ToSet
  <1>2. OnePlace
    BY DEF OnePlace, OnePlaceOf, Scattered, ToSet
  <1>3. FailedApart /\ StillOpen /\ InHand /\ IdsGiven
    BY <1>1 DEF FailedApart, StillOpen, InHand, IdsGiven
  <1>4. Counted
    BY <1>1 DEF Counted
  <1> QED
    BY <1>2, <1>3, <1>4 DEF Steady

LEMMA SteadyStep ==
    RedisTyped /\ SteadyUnlessOdd /\ [RedisNext]_redisVars => SteadyUnlessOdd'
  <1> SUFFICES ASSUME RedisTyped, Steady, [RedisNext]_redisVars, odds' = {}
               PROVE  Steady'
    BY OddsStay DEF SteadyUnlessOdd
  <1>1. ASSUME NEW j \in Payloads, RedisPush(j) PROVE Steady'
    BY <1>1, SteadyPush
  <1>2. ASSUME NEW w \in Hands, Poll(w) PROVE Steady'
    BY <1>2, SteadyMigrate, SteadyReclaim, SteadyReserve DEF Poll
  <1>3. ASSUME NEW w \in Hands, ProcessJob(w) PROVE Steady'
    BY <1>3, SteadyHandle, SteadyDelete, SteadyRelease, SteadyFail DEF ProcessJob
  <1>4. ASSUME NEW w \in Hands, Killed(w) PROVE Steady'
    BY <1>4, SteadyKilled
  <1>5. CASE RedisClear
    BY <1>5, SteadyClear
  <1>6. ASSUME NEW o \in Operators, RequeueFound(o) PROVE Steady'
    <2>1. found[o] \in failed
      BY <1>6 DEF RequeueFound, Odd
    <2> QED
      BY <1>6, <2>1, SteadyRequeue
  <1>7. ASSUME NEW rs \in SUBSET failed, ForgetFailed(rs) PROVE Steady'
    BY <1>7, SteadyForget
  <1>8. ASSUME NEW e, Expires(e) PROVE Steady'
    BY <1>8, SteadyExpires
  <1>9. ASSUME \/ \E o \in Operators : FindFailed(o)
               \/ \E e \in delayed : DelayOver(e)
               \/ UNCHANGED redisVars
        PROVE  Steady'
    <2>1. UNCHANGED <<ready, delayed, reserved, overdue, failed, busy, popped, nextId, fate,
                      runs>>
      BY <1>9 DEF FindFailed, DelayOver, redisVars
    <2> QED
      BY <2>1 DEF Steady, OnePlace, FailedApart, StillOpen, InHand, Counted, IdsGiven, Live
  <1> QED
    BY <1>1, <1>2, <1>3, <1>4, <1>5, <1>6, <1>7, <1>8, <1>9 DEF RedisNext

\* A set whose members are all the same has none or one.
LEMMA NoneOrOne ==
    ASSUME NEW S, \A x, y \in S : x = y
    PROVE  Cardinality(S) = IF S = {} THEN 0 ELSE 1
  <1>1. CASE S = {}
    BY <1>1, FS_EmptySet
  <1>2. CASE S # {}
    <2>1. PICK x \in S : S = {x}
      BY <1>2
    <2> QED
      BY <1>2, <2>1, FS_Singleton
  <1> QED
    BY <1>1, <1>2

\* In one place at most is one copy at most.
LEMMA CopiesFew ==
    ASSUME RedisTyped, OnePlace, FailedApart, NEW j \in Payloads
    PROVE  /\ CopiesOf(j) <= 1
           /\ (\A c \in Live \cup failed : c.payload # j) => CopiesOf(j) = 0
  <1> DEFINE R == {i \in DOMAIN ready : ready[i].payload = j}
             D == {e \in delayed : e.payload = j}
             V == {e \in reserved : e.payload = j}
             F == {r \in failed : r.payload = j}
  <1>1. \A i, k \in R : i = k
    BY DEF OnePlace, OnePlaceOf, Scattered, Apart
  <1>2. /\ \A e, f \in D : e = f
        /\ \A e, f \in V : e = f
        /\ D = {} \/ V = {}
    BY DEF OnePlace, OnePlaceOf, Apart
  <1>3. \A r, s \in F : r = s
    BY DEF FailedApart
  <1>4. \A i \in R : ready[i] \in ToSet(ready) /\ ready[i].payload = j
    BY DEF ToSet
  <1>5. R = {} \/ (D = {} /\ V = {})
    BY <1>4 DEF OnePlace, OnePlaceOf, Apart
  <1>6. F = {} \/ (R = {} /\ D = {} /\ V = {})
    BY <1>4 DEF FailedApart, Live
  <1>7. CopiesOf(j) = Cardinality(R) + Cardinality(D) + Cardinality(V) + Cardinality(F)
    BY DEF CopiesOf
  <1>8. (\A c \in Live \cup failed : c.payload # j) => R = {} /\ D = {} /\ V = {} /\ F = {}
    BY <1>4 DEF Live
  <1> HIDE DEF R, D, V, F
  <1>9. /\ Cardinality(R) = IF R = {} THEN 0 ELSE 1
        /\ Cardinality(D) = IF D = {} THEN 0 ELSE 1
        /\ Cardinality(V) = IF V = {} THEN 0 ELSE 1
        /\ Cardinality(F) = IF F = {} THEN 0 ELSE 1
    BY <1>1, <1>2, <1>3, NoneOrOne
  <1> QED
    BY <1>2, <1>5, <1>6, <1>7, <1>8, <1>9

\* Types, and while nothing odd has happened one place for each job.
LEMMA SteadyAlways == RedisSpec => [](RedisTyped /\ SteadyUnlessOdd)
  <1>1. RedisInit => RedisTyped /\ SteadyUnlessOdd
    BY RedisTypedInit, SteadyInit
  <1>2. RedisTyped /\ SteadyUnlessOdd /\ [RedisNext]_redisVars =>
            (RedisTyped /\ SteadyUnlessOdd)'
    BY RedisTypedStep, SteadyStep
  <1> QED
    BY <1>1, <1>2, PTL DEF RedisSpec

\* A job is one envelope or one failed record, and none once it has succeeded, unless a
\* worker outlived its reservation or one failed job was retried twice at once.
THEOREM OneEnvelope == RedisSpec => []OneCopy
  <1>1. RedisTyped /\ SteadyUnlessOdd => OneCopy
    <2> SUFFICES ASSUME RedisTyped, Steady, NEW j \in Payloads
                 PROVE  /\ CopiesOf(j) <= 1
                        /\ fate[j] = "done" => CopiesOf(j) = 0
      BY DEF OneCopy, SteadyUnlessOdd
    <2>1. fate[j] = "done" => \A c \in Live \cup failed : c.payload # j
      BY DEF Steady, StillOpen
    <2> QED
      BY <2>1, CopiesFew DEF Steady
  <1> QED
    BY <1>1, SteadyAlways, PTL

\* A handler starts as often as its job has tries, however many workers died in it: a
\* reclaimed envelope counts the run that was lost.
THEOREM TriesAreKept == RedisSpec => []TriesHold
  <1>1. RedisTyped /\ SteadyUnlessOdd => TriesHold
    BY DEF SteadyUnlessOdd, Steady, Counted, TriesHold
  <1> QED
    BY <1>1, SteadyAlways, PTL

\* The list, the sets, the hash and the workers' hands hold what belongs there.
THEOREM RedisTypes == RedisSpec => []RedisTypeOK
  <1>1. RedisTyped => RedisTypeOK
    BY DEF RedisTyped, StoreTyped, HandsTyped, CountsTyped, RedisTypeOK
  <1> QED
    BY <1>1, SteadyAlways, PTL
=============================================================================
