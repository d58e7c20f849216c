---------------------------- MODULE Transactions ----------------------------
(***************************************************************************)
(* transaction() and its after-commit callbacks (transaction.ts and          *)
(* transaction-context.ts): outermost transactions, savepoints for the calls *)
(* nested in them on the same connection, and callbacks deferred to the end. *)
(*                                                                           *)
(* A call of transaction() is followed from its start to the moment its      *)
(* promise settles.  Callers await what they start, as the docs ask, so a    *)
(* call does nothing while one inside it is at work.                         *)
(***************************************************************************)
EXTENDS Integers, Sequences, FiniteSets

CONSTANTS
    Calls,        \* BOUND: the calls of transaction() that are made
    Connections,  \* root connections
    None          \* no call

ASSUME CallsAssumption == IsFiniteSet(Calls) /\ None \notin Calls

VARIABLES
    status,   \* call -> "unborn", "open", "kept" or "undone"
    inside,   \* call -> the calls its code runs inside, itself included: the ALS context
    conn,     \* call -> its connection
    level,    \* call -> its transaction level, 1 for an outermost one
    trx,      \* call -> the outermost call of its physical transaction
    tape,     \* outermost call -> the savepoints and writes of its transaction, in order
    durable,  \* calls whose write has been committed
    onCommit, onRollback,  \* outermost call -> its DeferredCallbacks, numbered in order
    toRun,    \* outermost call -> the callbacks its drain() has yet to run
    wrote,    \* calls that have written.  BOUND: one write, one callback a call
    asked,    \* callbacks deferred, in order: [call, scope, for]
    ran       \* history: callbacks run, in order: [call, scope, after]

databaseVars == <<tape, durable, wrote>>
callbackVars == <<onCommit, onRollback, toRun, asked, ran>>
contextVars == <<inside, conn, level, trx>>
vars == <<status, contextVars, databaseVars, callbackVars>>

Statuses == {"unborn", "open", "kept", "undone"}
Outcomes == {"commit", "rollback"}

Savepoint(l) == [savepoint |-> l, by |-> None]
Written(f) == [savepoint |-> 0, by |-> f]

Init ==
    /\ status = [f \in Calls |-> "unborn"]
    /\ inside = [f \in Calls |-> {}]
    /\ conn \in [Calls -> Connections]
    /\ level = [f \in Calls |-> 0]
    /\ trx = [f \in Calls |-> None]
    /\ tape = [f \in Calls |-> <<>>]
    /\ durable = {} /\ wrote = {}
    /\ onCommit = [f \in Calls |-> {}] /\ onRollback = [f \in Calls |-> {}]
    /\ toRun = [f \in Calls |-> {}]
    /\ asked = <<>>
    /\ ran = <<>>

\* A call whose promise has not settled; one whose code may go on.
Busy(f) == status[f] = "open" \/ toRun[f] # {}
Running(f) == status[f] = "open" /\ \A g \in Calls \ {f} : f \in inside[g] => ~Busy(g)

\* The scopes in the context: the deepest call of each connection.
Scopes(f) ==
    {g \in inside[f] : \A h \in inside[f] : conn[h] = conn[g] => level[h] <= level[g]}

-----------------------------------------------------------------------------
(* transaction() *)

Enter(f, context, l, outermost) ==
    /\ status[f] = "unborn"
    /\ status' = [status EXCEPT ![f] = "open"]
    /\ inside' = [inside EXCEPT ![f] = context \cup {f}]
    /\ level' = [level EXCEPT ![f] = l]
    /\ trx' = [trx EXCEPT ![f] = outermost]
    /\ UNCHANGED <<conn, durable, wrote, callbackVars>>

\* No transaction on this connection in the caller's context: BEGIN.  Requests share
\* nothing here: BOUND: one request.
Begin(f) ==
    /\ \A g \in Calls : status[g] = "unborn"
    /\ Enter(f, {}, 1, f)
    /\ UNCHANGED tape

BeginInside(f, p) ==
    /\ Running(p)
    /\ \A g \in inside[p] : conn[g] # conn[f]
    /\ Enter(f, inside[p], 1, f)
    /\ UNCHANGED tape

\* Mutant: a level counted twice.
NestedTwice(g) == 2 * (level[g] + 1)

Nested(g) == level[g] + 1

\* One is open: SAVEPOINT, named by the level.
Nest(f, p) ==
    /\ Running(p)
    /\ \E g \in Scopes(p) :
          /\ conn[g] = conn[f]
          /\ Enter(f, inside[p], Nested(g), trx[g])
          /\ tape' = [tape EXCEPT ![trx[g]] = Append(@, Savepoint(Nested(g)))]

\* Any statement the code inside a call executes.
Write(f) ==
    /\ Running(f)
    /\ f \notin wrote
    /\ wrote' = wrote \cup {f}
    /\ tape' = [tape EXCEPT ![trx[f]] = Append(@, Written(f))]
    /\ UNCHANGED <<status, contextVars, durable, callbackVars>>

\* Where the innermost savepoint of a level stands on a tape.
Last(t, l) ==
    CHOOSE k \in DOMAIN t : /\ t[k].savepoint = l
                            /\ \A m \in DOMAIN t : t[m].savepoint = l => m <= k

IsWrite(entry) == entry.by # None

\* A tape without the savepoints from k on, which no level can name any more.
WithoutSavepoints(t, k) ==
    [m \in DOMAIN t |-> IF m < k \/ IsWrite(t[m]) THEN t[m] ELSE Savepoint(0)]

\* RELEASE SAVEPOINT: the savepoint goes, with those after it; the writes stay.
Release(f) ==
    /\ Running(f)
    /\ level[f] > 1
    /\ status' = [status EXCEPT ![f] = "kept"]
    /\ tape' = [tape EXCEPT ![trx[f]] = WithoutSavepoints(@, Last(@, level[f]))]
    /\ UNCHANGED <<contextVars, durable, wrote, callbackVars>>

\* Mutant: one savepoint name for every level.
SavepointToAny(t, l) == CHOOSE k \in DOMAIN t :
    t[k].savepoint # 0 /\ \A m \in DOMAIN t : t[m].savepoint # 0 => m <= k

SavepointTo(t, l) == Last(t, l)

Shallower(entries, l) == {e \in entries : e.level < l}

\* Mutant: what was registered at the level itself is kept.
DiscardBelow(f) ==
    /\ onCommit' = [onCommit EXCEPT ![trx[f]] = Shallower(@, level[f] + 1)]
    /\ onRollback' = [onRollback EXCEPT ![trx[f]] = Shallower(@, level[f] + 1)]

\* discardFrom(level)
Discard(f) ==
    /\ onCommit' = [onCommit EXCEPT ![trx[f]] = Shallower(@, level[f])]
    /\ onRollback' = [onRollback EXCEPT ![trx[f]] = Shallower(@, level[f])]

\* The code threw, or the release did: ROLLBACK TO SAVEPOINT, which keeps the
\* savepoint, and its callbacks go.  The caller may catch the error.
RollBackTo(f) ==
    /\ Running(f)
    /\ level[f] > 1
    /\ status' = [status EXCEPT ![f] = "undone"]
    /\ tape' = [tape EXCEPT ![trx[f]] = SubSeq(@, 1, SavepointTo(@, level[f]))]
    /\ Discard(f)
    /\ UNCHANGED <<contextVars, durable, wrote, toRun, asked, ran>>

\* takeCommit() and takeRollback(): the outermost call ends one way or the other.
Finish(f, outcome, callbacks) ==
    /\ Running(f)
    /\ level[f] = 1
    /\ status' = [status EXCEPT ![f] = outcome]
    /\ toRun' = [toRun EXCEPT ![f] = callbacks]
    /\ onCommit' = [onCommit EXCEPT ![f] = {}]
    /\ onRollback' = [onRollback EXCEPT ![f] = {}]
    /\ UNCHANGED <<contextVars, tape, wrote, asked, ran>>

Commit(f) ==
    /\ Finish(f, "kept", onCommit[f])
    /\ durable' = durable \cup {g \in Calls : \E k \in DOMAIN tape[f] : tape[f][k].by = g}

\* The code threw, or the COMMIT failed.
RollBack(f) ==
    /\ Finish(f, "undone", onRollback[f])
    /\ UNCHANGED durable

-----------------------------------------------------------------------------
(* Callbacks *)

Entry(f, g) == [level |-> level[g], call |-> f, scope |-> g, nth |-> Len(asked) + 1]

Ask(f, g, outcome) ==
    /\ Running(f)
    /\ \A k \in DOMAIN asked : asked[k].call # f
    /\ asked' = Append(asked, [call |-> f, scope |-> g, for |-> outcome])
    /\ UNCHANGED <<status, contextVars, databaseVars, toRun, ran>>

\* afterCommitOn(): against the scope of the producer's own connection.
AfterCommitOn(f, g) ==
    /\ g \in Scopes(f)
    /\ Ask(f, g, "commit")
    /\ onCommit' = [onCommit EXCEPT ![trx[g]] = @ \cup {Entry(f, g)}]
    /\ UNCHANGED onRollback

\* getInnermostTransactionScope(): the greatest level, and on a tie the
\* connection opened first.
IsInnermost(f, g) ==
    \A h \in Scopes(f) : \/ level[h] < level[g]
                         \/ level[h] = level[g] /\ trx[g] \in inside[trx[h]]

\* afterCommit()
AfterCommit(f, g) == IsInnermost(f, g) /\ AfterCommitOn(f, g)

\* afterRollback() and afterRollbackOn()
AfterRollback(f, g) ==
    /\ g \in Scopes(f)
    /\ Ask(f, g, "rollback")
    /\ onRollback' = [onRollback EXCEPT ![trx[g]] = @ \cup {Entry(f, g)}]
    /\ UNCHANGED onCommit

\* Mutant: the newest first.
IsLast(e, entries) == e \in entries /\ \A d \in entries : d.nth <= e.nth

IsFirst(e, entries) == e \in entries /\ \A d \in entries : e.nth <= d.nth

\* Mutant: a callback that throws ends the drain.
RestAfterThrow(entries, e, threw) == IF threw THEN {} ELSE entries \ {e}

\* A callback that throws is reported, and the rest still run.
Rest(entries, e, threw) == entries \ {e}

\* drain()
RunNext(f) ==
    /\ \E e \in toRun[f], threw \in BOOLEAN :
          /\ IsFirst(e, toRun[f])
          /\ toRun' = [toRun EXCEPT ![f] = Rest(@, e, threw)]
          /\ ran' = Append(ran, [call |-> e.call, scope |-> e.scope,
                                 after |-> IF status[f] = "kept" THEN "commit" ELSE "rollback"])
    /\ UNCHANGED <<status, contextVars, databaseVars, onCommit, onRollback, asked>>

-----------------------------------------------------------------------------

\* One call of everything the code inside transactions may do.
Next ==
    \/ \E f \in Calls :
          \/ Begin(f)
          \/ \E p \in Calls : BeginInside(f, p) \/ Nest(f, p)
          \/ Write(f)
          \/ Release(f) \/ RollBackTo(f)
          \/ Commit(f) \/ RollBack(f)
          \/ \E g \in Calls : AfterCommitOn(f, g) \/ AfterCommit(f, g) \/ AfterRollback(f, g)
          \/ RunNext(f)

Spec == Init /\ [][Next]_vars

-----------------------------------------------------------------------------
(* Properties *)

Entries == [level : Nat, call : Calls, scope : Calls, nth : Nat]

\* The types of the contexts, the tapes and the deferred callbacks.
TypeOK ==
    /\ status \in [Calls -> Statuses]
    /\ inside \in [Calls -> SUBSET Calls]
    /\ conn \in [Calls -> Connections]
    /\ level \in [Calls -> 0..Cardinality(Calls)]
    /\ trx \in [Calls -> Calls \cup {None}]
    /\ tape \in [Calls -> Seq([savepoint : Nat, by : Calls \cup {None}])]
    /\ durable \subseteq Calls /\ wrote \subseteq Calls
    /\ onCommit \in [Calls -> SUBSET Entries] /\ onRollback \in [Calls -> SUBSET Entries]
    /\ toRun \in [Calls -> SUBSET Entries]
    /\ asked \in Seq([call : Calls, scope : Calls, for : Outcomes])
    /\ ran \in Seq([call : Calls, scope : Calls, after : Outcomes])

\* No call of its transaction that a call runs inside, nor itself, was rolled back.
Survives(f) == \A g \in inside[f] : trx[g] = trx[f] => status[g] # "undone"

Ended(f) == status[f] \in {"kept", "undone"}

\* Nesting: an inner rollback undoes the inner work and nothing else, an outer one
\* undoes everything inside it, and what an inner call keeps is durable only with
\* the outermost commit (transaction.ts, "Nesting").
Atomic ==
    \A f \in wrote :
        /\ ~Ended(trx[f]) => (Survives(f) <=> \E k \in DOMAIN tape[trx[f]] :
                                                 tape[trx[f]][k].by = f)
        /\ f \in durable <=> status[trx[f]] = "kept" /\ Survives(f)

\* An after-commit callback runs only once the outermost transaction has committed,
\* and never when the call it was deferred against, or one around it, rolled back:
\* no job reads rows that are not there (transaction-context.ts, afterCommit).
NoCallbackOfUndoneWork ==
    \A k \in DOMAIN ran : ran[k].after = "commit" =>
        /\ status[trx[ran[k].scope]] = "kept"
        /\ Survives(ran[k].scope)

AskedAt(f) == CHOOSE k \in DOMAIN asked : asked[k].call = f

\* The callbacks of a transaction run in the order they were registered, each once.
CallbacksInOrder ==
    \A m, n \in DOMAIN ran :
        m < n /\ trx[ran[m].scope] = trx[ran[n].scope]
            => AskedAt(ran[m].call) < AskedAt(ran[n].call)

RanOf(f) == {k \in DOMAIN ran : ran[k].call = f}

\* A callback is dropped only by a rollback at its level or above: whatever the
\* others throw, every callback that a commit or a rollback took over runs.
DroppedOnlyByRollback ==
    \A k \in DOMAIN asked :
        LET a == asked[k] IN
        /\ status[trx[a.scope]] = (IF a.for = "commit" THEN "kept" ELSE "undone")
        /\ toRun[trx[a.scope]] = {}
        /\ RanOf(a.call) = {}
        => \E g \in Calls : /\ trx[g] = trx[a.scope] /\ status[g] = "undone"
                            /\ 1 < level[g] /\ level[g] <= level[a.scope]

\* Work that was committed calls back: a savepoint that rolls back takes only the
\* callbacks registered inside it.
CommittedWorkCallsBack ==
    \A k \in DOMAIN asked :
        LET a == asked[k] IN
        /\ a.for = "commit" /\ Survives(a.scope)
        /\ status[trx[a.scope]] = "kept" /\ toRun[trx[a.scope]] = {}
        => RanOf(a.call) # {}
=============================================================================
