------------------------- MODULE ScheduleLock_proofs -------------------------
(***************************************************************************)
(* Proofs about ScheduleLock, for any number of processes and crashes, any    *)
(* expiry, marker age and clock.                                              *)
(***************************************************************************)
EXTENDS ScheduleLock, TLAPS

-----------------------------------------------------------------------------
(* The inductive invariants *)

Timely == allowed \cap {"stall", "reclaimer"} = {}

\* Inside the critical section with a marker that can be read.
Stamped(p) == pc[p] \in Section \ {"stamping"}

\* Whoever is inside the critical section owns the marker, a marker with a time in it
\* belongs to somebody inside and is young, and so nobody is about to clear one.
Guarded ==
    Timely =>
        /\ \A p \in Processes : pc[p] \in Section => marker = p
        /\ \A p \in Processes : pc[p] # "clearing"
        /\ \A p \in Processes : Stamped(p) => now < markedAt[p] + Stale
        /\ \A p \in Processes : p \in stamped =>
               /\ pc[p] \in Section \cup {"over", "running", "dead"}
               /\ pc[p] # "stamping"
        /\ \A p \in Processes : marker = p /\ p \in stamped => Stamped(p)

\* The lock was, or is about to be, this process's.
Holding(p) == pc[p] \in {"writing", "rewriting", "winning", "running"}

\* Has seen a lock file and has not decided to remove it.
Seeking(p) == pc[p] \in {"looking", "claiming", "waiting", "clearing", "retrying",
                         "stamping", "checking"}

\* The holder's live file is at the path; the one a reclaimer is about to remove is
\* nobody's; and the path is free only while a reclaimer is about to fill it.
Owned ==
    allowed = {} =>
        /\ \A p \in Processes : Holding(p) => lock = p /\ now < due[p]
        /\ \A p \in Processes : pc[p] \in {"winning", "running"} => p \in written
        /\ \A p \in Processes : pc[p] = "removing" => lock # None
        /\ \A p, q \in Processes : pc[p] = "removing" /\ lock = q => ~Holding(q)
        /\ \A p \in Processes : Seeking(p) =>
               lock # None \/ \E q \in Processes : pc[q] = "reopening"

USE ScheduleLockAssumption

-----------------------------------------------------------------------------
(* Type correctness *)

\* Nothing is open at the start.
LEMMA TypedInit == Init => TypeOK
  BY DEF Init, TypeOK, Places

\* Each file operation keeps the types.
LEMMA TypedAdvance ==
    ASSUME TypeOK, NEW p \in Processes, Acquire(p)
    PROVE  TypeOK'
  <1>1. ASSUME NEW from, NEW created \in Places, NEW exists \in Places,
               CreateLock(p, from, created, exists)
        PROVE  TypeOK'
    <2>1. DueAt \in 0..(MaxTime + Expiry)
      BY DEF DueAt, TypeOK
    <2>2. QED
      BY <1>1, <2>1 DEF CreateLock, Go, TypeOK, markerVars
  <1>2. ASSUME NEW from, NEW to \in Places, WriteLock(p, from, to) PROVE TypeOK'
    BY <1>2 DEF WriteLock, Go, TypeOK, markerVars
  <1>3. ASSUME Look(p) \/ ReadMarker(p) \/ Recheck(p) PROVE TypeOK'
    BY <1>3 DEF Look, ReadMarker, Recheck, Go, TypeOK, lockVars, markerVars, Places, Acquiring,
                Section
  <1>4. ASSUME NEW from, NEW exists \in Places, CreateMarker(p, from, exists) PROVE TypeOK'
    BY <1>4 DEF CreateMarker, Go, TypeOK, lockVars, Places, Acquiring, Section
  <1>5. ASSUME StampMarker(p) PROVE TypeOK'
    BY <1>5 DEF StampMarker, Go, TypeOK, lockVars, Places, Acquiring, Section
  <1>6. ASSUME ClearMarker(p) PROVE TypeOK'
    BY <1>6 DEF ClearMarker, Go, TypeOK, lockVars, Places, Acquiring
  <1>7. ASSUME RemoveLock(p) PROVE TypeOK'
    BY <1>7 DEF RemoveLock, Go, TypeOK, markerVars, Places, Acquiring, Section
  <1>8. ASSUME NEW from, NEW to \in Places, Leave(p, from, to) PROVE TypeOK'
    BY <1>8 DEF Leave, Go, TypeOK, lockVars
  <1>9. {"writing", "looking", "running", "waiting", "over", "rewriting", "yielding", "winning"}
            \subseteq Places
    BY DEF Places, Acquiring, Section
  <1>10. QED
    BY <1>1, <1>2, <1>3, <1>4, <1>5, <1>6, <1>7, <1>8, <1>9 DEF Acquire

\* Releasing, dying and waiting keep the types as well.
LEMMA TypedStep == TypeOK /\ [Next]_vars => TypeOK'
  <1> SUFFICES ASSUME TypeOK, [Next]_vars PROVE TypeOK'
    OBVIOUS
  <1>1. ASSUME NEW p \in Processes, Release(p) PROVE TypeOK'
    BY <1>1 DEF Release, Go, TypeOK, markerVars, Places
  <1>2. ASSUME NEW p \in Processes, Crash(p) PROVE TypeOK'
    BY <1>2 DEF Crash, Go, TypeOK, lockVars, markerVars, Places
  <1>3. ASSUME Second PROVE TypeOK'
    BY <1>3 DEF Second, TypeOK, lockVars, markerVars
  <1>4. CASE UNCHANGED vars
    BY <1>4 DEF vars, lockVars, markerVars, TypeOK
  <1>5. QED
    BY <1>1, <1>2, <1>3, <1>4, TypedAdvance DEF Next, Advance

\* The files and the processes hold what their types say, whatever happens
\* (schedule-lock.ts).
THEOREM LockTypes == Spec => []TypeOK
  BY TypedInit, TypedStep, PTL DEF Spec

-----------------------------------------------------------------------------
(* One reclaimer *)

\* Nobody is inside at the start.
LEMMA GuardedInit == Init => Guarded
  BY DEF Init, Guarded, Section, Stamped

\* A step that touches neither markers nor the clock and goes from outside the critical
\* section to outside it, or from a place behind the stamp to another, is harmless.
LEMMA GuardedMove ==
    ASSUME TypeOK, Guarded, NEW p \in Processes, NEW place,
           Go(p, place), UNCHANGED <<markerVars, now, allowed>>,
           \/ pc[p] \notin Section /\ p \notin stamped
              /\ place \notin Section \cup {"clearing"}
           \/ Timely => p \notin stamped /\ pc[p] = "stamping" /\ place = "dead"
           \/ Stamped(p) /\ place \in Section \ {"stamping"}
           \/ pc[p] \notin Section /\ place \in {"over", "dead", "running"}
    PROVE  Guarded'
  <1> SUFFICES ASSUME Timely PROVE Guarded'
    BY DEF Guarded, Timely
  <1>1. pc'[p] = place /\ \A q \in Processes : q # p => pc'[q] = pc[q]
    BY DEF Go, TypeOK
  <1>2. marker' = marker /\ markedAt' = markedAt /\ stamped' = stamped /\ now' = now
    BY DEF markerVars
  <1>3. QED
    BY <1>1, <1>2 DEF Guarded, Stamped, Section

\* Creating, writing, reading and removing files keep the section guarded.
LEMMA GuardedAcquire ==
    ASSUME TypeOK, Guarded, NEW p \in Processes, Acquire(p)
    PROVE  Guarded'
  <1> SUFFICES ASSUME Timely PROVE Guarded'
    BY DEF Guarded, Acquire, Timely, CreateLock, WriteLock, Look, CreateMarker, StampMarker,
           ReadMarker, ClearMarker, Recheck, RemoveLock, Leave
  <1>1. p \in stamped => pc[p] \in Section \cup {"over", "running", "dead"}
    BY DEF Guarded
  <1>2. ASSUME CreateLock(p, "new", "writing", "looking") PROVE Guarded'
    <2>1. pc[p] = "new" /\ UNCHANGED <<markerVars, now, allowed>>
          /\ (Go(p, "writing") \/ Go(p, "looking"))
      BY <1>2 DEF CreateLock
    <2>2. QED
      BY <1>1, <2>1, GuardedMove DEF Section
  <1>3. ASSUME WriteLock(p, "writing", "running") PROVE Guarded'
    BY <1>1, <1>3, GuardedMove DEF WriteLock, Section
  <1>4. ASSUME Look(p) PROVE Guarded'
    <2>1. pc[p] = "looking" /\ UNCHANGED <<markerVars, now, allowed>>
          /\ (Go(p, "over") \/ Go(p, "claiming"))
      BY <1>4 DEF Look
    <2>2. QED
      BY <1>1, <2>1, GuardedMove DEF Section
  <1>5. ASSUME NEW from \in {"claiming", "retrying"}, NEW exists \in {"waiting", "over"},
               CreateMarker(p, from, exists)
        PROVE  Guarded'
    <2>1. pc[p] = from /\ p \notin stamped /\ pc[p] \notin Section
      BY <1>1, <1>5 DEF CreateMarker, Section
    <2>2. CASE marker = None
      <3>1. /\ marker' = p /\ markedAt' = [markedAt EXCEPT ![p] = now]
            /\ pc' = [pc EXCEPT ![p] = "stamping"] /\ stamped' = stamped /\ now' = now
        BY <1>5, <2>2 DEF CreateMarker, Go
      <3>2. \A q \in Processes : pc[q] \notin Section
        BY <2>2 DEF Guarded
      <3>3. pc'[p] = "stamping" /\ \A q \in Processes : q # p => pc'[q] = pc[q]
        BY <3>1 DEF TypeOK
      <3>4. QED
        BY <2>1, <3>1, <3>2, <3>3 DEF Guarded, Stamped, Section
    <2>3. CASE marker # None
      <3>1. Go(p, exists) /\ UNCHANGED <<markerVars, now, allowed>>
        BY <1>5, <2>3 DEF CreateMarker, markerVars
      <3>2. QED
        BY <2>1, <3>1, GuardedMove DEF Section
    <2>4. QED
      BY <2>2, <2>3
  <1>6. ASSUME StampMarker(p) PROVE Guarded'
    <2>1. /\ pc[p] = "stamping" /\ pc' = [pc EXCEPT ![p] = "checking"]
          /\ markedAt' = [markedAt EXCEPT ![p] = now] /\ stamped' = stamped \cup {p}
          /\ marker' = marker /\ now' = now
      BY <1>6 DEF StampMarker, Go
    <2>2. /\ pc'[p] = "checking" /\ markedAt'[p] = now /\ now < now + Stale
          /\ \A q \in Processes : q # p => pc'[q] = pc[q] /\ markedAt'[q] = markedAt[q]
      BY <2>1 DEF TypeOK
    <2>3. QED
      BY <2>1, <2>2 DEF Guarded, Stamped, Section
  <1>7. ASSUME ReadMarker(p) PROVE Guarded'
    <2>1. ~(marker # None /\ IsStale(marker))
      BY DEF TypeOK, IsStale, Old, Guarded
    <2>2. pc[p] = "waiting" /\ UNCHANGED <<markerVars, now, allowed>>
          /\ (Go(p, "retrying") \/ Go(p, "over"))
      BY <1>7, <2>1 DEF ReadMarker
    <2>3. QED
      BY <1>1, <2>2, GuardedMove DEF Section
  <1>8. ~ClearMarker(p)
    BY DEF ClearMarker, Guarded
  <1>9. ASSUME Recheck(p) PROVE Guarded'
    <2>1. pc[p] = "checking" /\ UNCHANGED <<markerVars, now, allowed>>
          /\ (Go(p, "removing") \/ Go(p, "yielding"))
      BY <1>9 DEF Recheck
    <2>2. QED
      BY <2>1, GuardedMove DEF Section, Stamped
  <1>10. ASSUME RemoveLock(p) PROVE Guarded'
    BY <1>10, GuardedMove DEF RemoveLock, Section, Stamped
  <1>11. ASSUME CreateLock(p, "reopening", "rewriting", "yielding") PROVE Guarded'
    <2>1. pc[p] = "reopening" /\ UNCHANGED <<markerVars, now, allowed>>
          /\ (Go(p, "rewriting") \/ Go(p, "yielding"))
      BY <1>11 DEF CreateLock
    <2>2. QED
      BY <2>1, GuardedMove DEF Section, Stamped
  <1>12. ASSUME WriteLock(p, "rewriting", "winning") PROVE Guarded'
    BY <1>12, GuardedMove DEF WriteLock, Section, Stamped
  <1>13. ASSUME NEW from \in {"yielding", "winning"}, NEW to \in {"over", "running"},
                Leave(p, from, to)
         PROVE  Guarded'
    <2>1. /\ pc[p] \in Section /\ pc' = [pc EXCEPT ![p] = to] /\ marker' = None
          /\ markedAt' = markedAt /\ stamped' = stamped /\ now' = now
      BY <1>13 DEF Leave, Go, Section
    <2>2. pc'[p] = to /\ \A q \in Processes : q # p => pc'[q] = pc[q]
      BY <2>1 DEF TypeOK
    <2>3. \A q \in Processes : q # p => pc[q] \notin Section
      BY <2>1 DEF Guarded
    <2>4. QED
      BY <2>1, <2>2, <2>3 DEF Guarded, Stamped, Section
  <1>14. QED
    BY <1>2, <1>3, <1>4, <1>5, <1>6, <1>7, <1>8, <1>9, <1>10, <1>11, <1>12, <1>13 DEF Acquire

\* Nothing breaks the guard: only those who stay too long or die inside could.
LEMMA GuardedStep == TypeOK /\ Guarded /\ [Next]_vars => Guarded'
  <1> SUFFICES ASSUME TypeOK, Guarded, [Next]_vars PROVE Guarded'
    OBVIOUS
  <1>1. ASSUME NEW p \in Processes, Release(p) PROVE Guarded'
    BY <1>1, GuardedMove DEF Release, Section
  <1>2. ASSUME NEW p \in Processes, Crash(p) PROVE Guarded'
    <2>1. Go(p, "dead") /\ UNCHANGED <<markerVars, now, allowed>>
      BY <1>2 DEF Crash
    <2>2. CASE pc[p] \notin Section
      BY <2>1, <2>2, GuardedMove
    <2>3. CASE pc[p] \in Section
      <3>1. Timely => pc[p] = "stamping"
        BY <1>2, <2>3 DEF Crash, Timely
      <3>2. Timely => p \notin stamped
        BY <3>1 DEF Guarded
      <3>3. QED
        BY <2>1, <3>1, <3>2, GuardedMove
    <2>4. QED
      BY <2>2, <2>3
  <1>3. ASSUME Second PROVE Guarded'
    <2> SUFFICES ASSUME Timely PROVE Guarded'
      BY <1>3 DEF Second, Guarded, Timely
    <2>1. \A p \in Processes : Stamped(p) => ~(markedAt[p] + Stale <= now + 1)
      BY <1>3 DEF Second, Timely, Overdue, Stamped
    <2>2. \A p \in Processes : markedAt[p] \in Nat
      BY DEF TypeOK
    <2>3. pc' = pc /\ marker' = marker /\ stamped' = stamped /\ markedAt' = markedAt
          /\ now' = now + 1 /\ now \in Nat
      BY <1>3 DEF Second, markerVars, TypeOK
    <2>4. \A p \in Processes : Stamped(p) => now + 1 < markedAt[p] + Stale
      BY <2>1, <2>2, <2>3
    <2>5. QED
      BY <2>3, <2>4 DEF Guarded, Stamped
  <1>4. CASE UNCHANGED vars
    BY <1>4 DEF vars, markerVars, Guarded, Timely, Stamped
  <1>5. QED
    BY <1>1, <1>2, <1>3, <1>4, GuardedAcquire DEF Next, Advance

\* Whoever is inside the critical section of reclaim() is alone in it, while nobody dies
\* there or stays too long: empty markers and tasks that end meanwhile do not matter.
THEOREM Alone == Spec => []OneReclaimer
  <1>1. Guarded => OneReclaimer
    BY DEF Guarded, Timely, OneReclaimer
  <1>2. QED
    BY <1>1, GuardedInit, GuardedStep, TypedInit, TypedStep, PTL DEF Spec

-----------------------------------------------------------------------------
(* One holder *)

\* Nothing is held and nothing is sought at the start.
LEMMA OwnedInit == Init => Owned
  BY DEF Init, Owned, Holding, Seeking

\* A step that leaves the lock alone and takes a process from a place to one no nearer
\* to the lock keeps it owned.
LEMMA OwnedMove ==
    ASSUME TypeOK, Owned, NEW p \in Processes, NEW place,
           Go(p, place), UNCHANGED <<lockVars, now, allowed>>,
           allowed = {} =>
               /\ pc[p] # "reopening" \/ lock # None
               /\ place \in {"winning", "running"} => Holding(p) /\ p \in written
               /\ place \notin {"writing", "rewriting", "removing"}
               /\ Seeking(p)' => Seeking(p) \/ lock # None
    PROVE  Owned'
  <1> SUFFICES ASSUME allowed = {} PROVE Owned'
    BY DEF Owned
  <1>1. pc'[p] = place /\ \A q \in Processes : q # p => pc'[q] = pc[q]
    BY DEF Go, TypeOK
  <1>2. lock' = lock /\ due' = due /\ written' = written /\ now' = now
    BY DEF lockVars
  <1>3. \A q \in Processes : Holding(q)' => Holding(q)
    BY <1>1 DEF Holding
  <1>4. \A q \in Processes : Seeking(q)' => Seeking(q) \/ lock # None
    BY <1>1 DEF Seeking
  <1>5. \A q \in Processes : pc[q] = "reopening" => pc'[q] = "reopening" \/ lock # None
    BY <1>1
  <1>6. \A q \in Processes : pc'[q] \in {"winning", "running"} => q \in written
    BY <1>1 DEF Owned
  <1>7. \A q \in Processes : pc'[q] = "removing" => pc[q] = "removing"
    BY <1>1
  <1>8. \A q \in Processes : Seeking(q)' =>
            lock' # None \/ \E r \in Processes : pc'[r] = "reopening"
    BY <1>2, <1>4, <1>5 DEF Owned
  <1>9. \A q, r \in Processes : pc'[q] = "removing" /\ lock' = r => ~Holding(r)'
    BY <1>2, <1>3, <1>7 DEF Owned
  <1>10. \A q \in Processes : Holding(q)' => lock' = q /\ now' < due'[q]
    BY <1>2, <1>3 DEF Owned
  <1>11. \A q \in Processes : pc'[q] = "removing" => lock' # None
    BY <1>2, <1>7 DEF Owned
  <1>12. QED
    BY <1>2, <1>6, <1>8, <1>9, <1>10, <1>11 DEF Owned

\* open(..., "wx") makes whoever creates the file its only holder.
LEMMA OwnedCreate ==
    ASSUME TypeOK, Owned, NEW p \in Processes, NEW from, NEW created, NEW exists,
           CreateLock(p, from, created, exists),
           created \in {"writing", "rewriting"},
           exists \in {"looking", "yielding"}
    PROVE  Owned'
  <1>1. CASE lock = None
    <2> SUFFICES ASSUME allowed = {} PROVE Owned'
      BY DEF Owned, CreateLock
    <2>1. lock' = p /\ due' = [due EXCEPT ![p] = DueAt] /\ Go(p, created)
          /\ written' = written /\ now' = now
      BY <1>1 DEF CreateLock
    <2>2. due'[p] = now + Expiry /\ now < due'[p] /\ p # None
      BY <2>1 DEF TypeOK, DueAt
    <2>3. pc'[p] = created /\ \A q \in Processes : q # p => pc'[q] = pc[q]
      BY <2>1 DEF Go, TypeOK
    <2>4. \A q \in Processes : q # p => ~Holding(q)'
      BY <1>1, <2>3 DEF Owned, Holding
    <2>5. \A q \in Processes : pc'[q] # "removing"
      BY <1>1, <2>3 DEF Owned
    <2>6. \A q \in Processes : pc'[q] \notin {"winning", "running"}
      BY <2>3, <2>4 DEF Holding
    <2>7. QED
      BY <2>1, <2>2, <2>4, <2>5, <2>6 DEF Owned
  <1>2. CASE lock # None
    <2>1. Go(p, exists) /\ UNCHANGED <<lockVars, now, allowed>>
      BY <1>2 DEF CreateLock, lockVars
    <2>2. QED
      BY <1>2, <2>1, OwnedMove
  <1>3. QED
    BY <1>1, <1>2

\* Every step of acquire() keeps the lock owned: the second look finds the holder's live
\* record, because no file is empty and no other reclaimer is about to fill the path.
LEMMA OwnedAcquire ==
    ASSUME TypeOK, Guarded, Owned, NEW p \in Processes, Advance(p)
    PROVE  Owned'
  <1> SUFFICES ASSUME allowed = {} PROVE Owned'
    BY DEF Owned, Advance, Acquire, CreateLock, WriteLock, Look, CreateMarker, StampMarker,
           ReadMarker, ClearMarker, Recheck, RemoveLock, Leave
  <1>a. \A q, r \in Processes : q # r => ~(pc[q] \in Section /\ pc[r] \in Section)
    BY DEF Guarded, Timely
  <1>1. CASE CreateLock(p, "new", "writing", "looking")
    BY <1>1, OwnedCreate
  <1>2. CASE CreateLock(p, "reopening", "rewriting", "yielding")
    BY <1>2, OwnedCreate
  <1>3. ASSUME NEW from \in {"writing", "rewriting"}, NEW to \in {"running", "winning"},
               WriteLock(p, from, to)
        PROVE  Owned'
    <2>1. /\ pc[p] = from /\ Go(p, to) /\ written' = written \cup {p}
          /\ lock' = lock /\ due' = due /\ now' = now
      BY <1>3 DEF WriteLock
    <2>2. pc'[p] = to /\ \A q \in Processes : q # p => pc'[q] = pc[q]
      BY <2>1 DEF Go, TypeOK
    <2>3. \A q \in Processes : Holding(q)' <=> Holding(q)
      BY <2>1, <2>2 DEF Holding
    <2>4. lock # None
      BY <2>1 DEF Owned, Holding
    <2>5. \A q \in Processes : pc'[q] \in {"winning", "running"} => q \in written'
      BY <2>1, <2>2 DEF Owned
    <2>6. \A q \in Processes : pc'[q] = "removing" => pc[q] = "removing"
      BY <2>2
    <2>7. QED
      BY <2>1, <2>3, <2>4, <2>5, <2>6 DEF Owned
  <1>4. ASSUME Look(p) \/ ReadMarker(p) \/ ClearMarker(p) \/ StampMarker(p)
        PROVE  Owned'
    <2>1. \E place \in {"over", "claiming", "retrying", "clearing", "checking"} :
              Go(p, place)
      BY <1>4 DEF Look, ReadMarker, ClearMarker, StampMarker
    <2>2. Seeking(p) /\ pc[p] # "reopening" /\ UNCHANGED <<lockVars, now, allowed>>
      BY <1>4 DEF Look, ReadMarker, ClearMarker, StampMarker, Seeking
    <2>3. QED
      BY <2>1, <2>2, OwnedMove
  <1>5. ASSUME NEW from \in {"claiming", "retrying"}, NEW exists \in {"waiting", "over"},
               CreateMarker(p, from, exists)
        PROVE  Owned'
    <2>1. Go(p, "stamping") \/ Go(p, exists)
      BY <1>5 DEF CreateMarker
    <2>2. Seeking(p) /\ pc[p] # "reopening" /\ UNCHANGED <<lockVars, now, allowed>>
      BY <1>5 DEF CreateMarker, Seeking
    <2>3. QED
      BY <2>1, <2>2, OwnedMove
  <1>6. ASSUME Recheck(p) PROVE Owned'
    <2>1. pc[p] = "checking" /\ UNCHANGED <<lockVars, now, allowed>>
      BY <1>6 DEF Recheck
    <2>2. CASE ~Abandoned
      BY <1>6, <2>1, <2>2, OwnedMove DEF Recheck, Seeking, Go, TypeOK
    <2>3. CASE Abandoned
      <3>1. Go(p, "removing")
        BY <1>6, <2>3 DEF Recheck
      <3>2. pc'[p] = "removing" /\ \A q \in Processes : q # p => pc'[q] = pc[q]
        BY <3>1 DEF Go, TypeOK
      <3>3. lock # None
        <4>1. \A q \in Processes : pc[q] # "reopening"
          BY <1>a, <2>1 DEF Section
        <4>2. QED
          BY <2>1, <4>1 DEF Owned, Seeking
      <3>4. \A q \in Processes : ~Holding(q)
        <4>1. \A q \in Processes : pc[q] \notin Empty
          BY <2>1 DEF Advance, Undisturbed, Empty
        <4>2. QED
          BY <2>3, <4>1 DEF Abandoned, Live, Holding, Empty, Owned
      <3>5. \A q \in Processes : ~Holding(q)'
        BY <3>2, <3>4 DEF Holding
      <3>6. lock' = lock /\ \A q \in Processes : pc'[q] \notin {"winning", "running"}
        BY <2>1, <3>5 DEF Holding, lockVars
      <3>7. QED
        BY <3>3, <3>5, <3>6 DEF Owned
    <2>4. QED
      BY <2>2, <2>3
  <1>7. ASSUME RemoveLock(p) PROVE Owned'
    <2>1. /\ pc[p] = "removing" /\ lock' = None /\ Go(p, "reopening")
      BY <1>7 DEF RemoveLock
    <2>2. pc'[p] = "reopening" /\ \A q \in Processes : q # p => pc'[q] = pc[q]
      BY <2>1 DEF Go, TypeOK
    <2>3. \A q \in Processes : ~Holding(q)'
      BY <2>1, <2>2 DEF Owned, Holding
    <2>4. \A q \in Processes : pc'[q] \notin {"removing", "winning", "running"}
      BY <1>a, <2>1, <2>2, <2>3 DEF Section, Holding
    <2>5. QED
      BY <2>2, <2>3, <2>4 DEF Owned
  <1>8. ASSUME Leave(p, "yielding", "over") PROVE Owned'
    <2>1. pc[p] = "yielding" /\ Go(p, "over") /\ UNCHANGED <<lockVars, now, allowed>>
      BY <1>8 DEF Leave
    <2>2. ~Seeking(p)'
      BY <2>1 DEF Seeking, Go, TypeOK
    <2>3. QED
      BY <2>1, <2>2, OwnedMove
  <1>9. ASSUME Leave(p, "winning", "running") PROVE Owned'
    <2>1. pc[p] = "winning" /\ Go(p, "running") /\ UNCHANGED <<lockVars, now, allowed>>
      BY <1>9 DEF Leave
    <2>2. ~Seeking(p)'
      BY <2>1 DEF Seeking, Go, TypeOK
    <2>3. Holding(p) /\ p \in written
      BY <2>1 DEF Owned, Holding
    <2>4. QED
      BY <2>1, <2>2, <2>3, OwnedMove
  <1>10. QED
    BY <1>1, <1>2, <1>3, <1>4, <1>5, <1>6, <1>7, <1>8, <1>9 DEF Advance, Acquire

\* The end of a task, a crash and the clock keep the lock owned.
LEMMA OwnedStep == TypeOK /\ Guarded /\ Owned /\ [Next]_vars => Owned'
  <1> SUFFICES ASSUME TypeOK, Guarded, Owned, [Next]_vars PROVE Owned'
    OBVIOUS
  <1>1. ASSUME NEW p \in Processes, Release(p) PROVE Owned'
    <2> SUFFICES ASSUME allowed = {} PROVE Owned'
      BY <1>1 DEF Release, Owned
    <2>1. /\ pc[p] = "running" /\ lock' = None /\ Go(p, "over")
          /\ \A q \in Processes : pc[q] \notin Acquiring
      BY <1>1 DEF Release
    <2>2. pc'[p] = "over" /\ \A q \in Processes : q # p => pc'[q] = pc[q]
      BY <2>1 DEF Go, TypeOK
    <2>3. lock = p
      BY <2>1 DEF Owned, Holding
    <2>4. \A q \in Processes : ~Holding(q)'
      BY <2>2, <2>3 DEF Owned, Holding
    <2>5. \A q \in Processes : pc'[q] \notin Acquiring
      BY <2>1, <2>2 DEF Acquiring, Section
    <2>6. \A q \in Processes : ~Seeking(q)' /\ pc'[q] \notin {"removing", "winning", "running"}
      BY <2>4, <2>5 DEF Seeking, Holding, Acquiring, Section
    <2>7. QED
      BY <2>4, <2>6 DEF Owned
  <1>2. ASSUME NEW p \in Processes, Crash(p) PROVE Owned'
    <2>1. Go(p, "dead") /\ UNCHANGED <<lockVars, now, allowed>>
      BY <1>2 DEF Crash
    <2>2. ~Seeking(p)'
      BY <2>1 DEF Seeking, Go, TypeOK
    <2>3. allowed = {} => pc[p] # "reopening"
      BY <1>2 DEF Crash, Section
    <2>4. QED
      BY <2>1, <2>2, <2>3, OwnedMove
  <1>3. ASSUME Second PROVE Owned'
    <2> SUFFICES ASSUME allowed = {} PROVE Owned'
      BY <1>3 DEF Second, Owned
    <2>1. \A q \in Processes : Holding(q) => ~(due[q] <= now + 1)
      BY <1>3 DEF Second, Overdue, Holding
    <2>2. now \in Nat /\ \A q \in Processes : due[q] \in Nat
      BY DEF TypeOK
    <2>3. \A q \in Processes : Holding(q) => now + 1 < due[q]
      BY <2>1, <2>2
    <2>4. /\ pc' = pc /\ lock' = lock /\ due' = due /\ written' = written /\ now' = now + 1
      BY <1>3 DEF Second, lockVars
    <2>5. QED
      BY <2>3, <2>4 DEF Owned, Holding, Seeking
  <1>4. CASE UNCHANGED vars
    BY <1>4 DEF vars, lockVars, Owned, Holding, Seeking
  <1>5. QED
    BY <1>1, <1>2, <1>3, <1>4, OwnedAcquire DEF Next

\* The reclaimers of a lock that a dead process left behind, and the newcomers on the
\* fast path, never both run the task (acquire(), reclaim()).
THEOREM ReclaimIsExclusive == Spec => []ReclaimExcludes
  <1>1. Owned => ReclaimExcludes
    BY DEF Owned, Holding, ReclaimExcludes, NoOverlap
  <1>2. QED
    BY <1>1, OwnedInit, OwnedStep, GuardedInit, GuardedStep, TypedInit, TypedStep, PTL
    DEF Spec
=============================================================================
