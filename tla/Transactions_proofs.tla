------------------------- MODULE Transactions_proofs -------------------------
(***************************************************************************)
(* Proofs about Transactions, for any number of calls and connections, any   *)
(* depth of nesting and any number of callbacks.                             *)
(***************************************************************************)
EXTENDS Transactions, FiniteSetTheorems, TLAPS

-----------------------------------------------------------------------------
(* The inductive invariant *)

\* What the proofs need to know of the types.
Typed ==
    /\ status \in [Calls -> Statuses]
    /\ inside \in [Calls -> SUBSET Calls]
    /\ level \in [Calls -> Nat]
    /\ trx \in [Calls -> Calls \cup {None}]
    /\ onCommit \in [Calls -> SUBSET Entries] /\ onRollback \in [Calls -> SUBSET Entries]
    /\ toRun \in [Calls -> SUBSET Entries]
    /\ asked \in Seq([call : Calls, scope : Calls, for : Outcomes])
    /\ ran \in Seq([call : Calls, scope : Calls, after : Outcomes])

Born(f) == status[f] # "unborn"

\* A context holds the call itself and, with each call, that call's context.
Contexts ==
    \A f \in Calls :
        /\ ~Born(f) => inside[f] = {}
        /\ Born(f) => f \in inside[f]
        /\ \A g \in inside[f] : Born(g) /\ inside[g] \subseteq inside[f]

\* A physical transaction is one outermost call and, at greater levels, calls inside it.
Levels ==
    \A f \in Calls : Born(f) =>
        /\ trx[f] \in inside[f] /\ conn[trx[f]] = conn[f]
        /\ trx[trx[f]] = trx[f] /\ level[trx[f]] = 1
        /\ level[f] = 1 => trx[f] = f
        /\ \A g \in inside[f] : trx[g] = trx[f] => level[g] <= level[f]

\* While a call is at work, the calls it runs inside are open; only a call that
\* has ended has callbacks to run.
OpenAround ==
    \A f \in Calls :
        /\ Busy(f) => \A g \in inside[f] \ {f} : status[g] = "open"
        /\ toRun[f] # {} => Ended(f)

Nesting == Contexts /\ Levels /\ OpenAround

\* What waits for the commit, or runs after it, belongs to work that is not undone.
Waiting ==
    \A r \in Calls : \A e \in onCommit[r] :
        /\ Born(e.scope) /\ Survives(e.scope)
        /\ trx[e.scope] = r /\ e.level = level[e.scope]

Draining ==
    \A r \in Calls : \A e \in toRun[r] :
        status[r] = "kept" => Born(e.scope) /\ Survives(e.scope) /\ trx[e.scope] = r

Ran ==
    \A k \in DOMAIN ran : ran[k].after = "commit" =>
        /\ Born(ran[k].scope) /\ Survives(ran[k].scope)
        /\ status[trx[ran[k].scope]] = "kept"

\* The inductive invariant behind NoCallbackOfUndoneWork.
Paired == Typed /\ Nesting /\ Waiting /\ Draining /\ Ran

USE CallsAssumption

-----------------------------------------------------------------------------
(* The initial state *)

\* At the start nothing is open and nothing waits.
LEMMA PairedInit == Init => Paired
  BY DEF Init, Paired, Typed, Nesting, Contexts, Levels, OpenAround, Waiting, Draining, Ran,
         Born, Busy, Statuses, Entries

-----------------------------------------------------------------------------
(* Contexts and levels *)

\* A call that is at work runs inside calls that are all open.
LEMMA RunningInOpen ==
    ASSUME Typed, Nesting, NEW f \in Calls, Running(f)
    PROVE  /\ f \in inside[f] /\ inside[f] \subseteq Calls
           /\ \A g \in inside[f] : status[g] = "open" /\ Born(g) /\ inside[g] \subseteq inside[f]
  BY DEF Typed, Nesting, Contexts, OpenAround, Running, Busy, Born

\* Entering a call: its context is the caller's, all open, and itself.
LEMMA EnterContexts ==
    ASSUME Typed, Nesting, NEW f \in Calls, NEW context \in SUBSET Calls, NEW l \in Nat,
           NEW o \in Calls, Enter(f, context, l, o),
           \A g \in context : status[g] = "open" /\ inside[g] \subseteq context
    PROVE  /\ Typed' /\ Contexts' /\ OpenAround' /\ f \notin context
           /\ \A g \in Calls : Born(g) => /\ g # f /\ f \notin inside[g]
                                           /\ inside'[g] = inside[g] /\ trx'[g] = trx[g]
                                           /\ level'[g] = level[g] /\ status'[g] = status[g]
  <1>1. /\ inside'[f] = context \cup {f} /\ status'[f] = "open"
        /\ trx'[f] = o /\ level'[f] = l /\ f \notin context
        /\ \A g \in Calls : g # f => /\ inside'[g] = inside[g] /\ trx'[g] = trx[g]
                                     /\ level'[g] = level[g] /\ status'[g] = status[g]
        /\ ~Born(f) /\ inside[f] = {} /\ toRun[f] = {}
    <2>1. /\ inside'[f] = context \cup {f} /\ status'[f] = "open"
          /\ trx'[f] = o /\ level'[f] = l
          /\ \A g \in Calls : g # f => /\ inside'[g] = inside[g] /\ trx'[g] = trx[g]
                                       /\ level'[g] = level[g] /\ status'[g] = status[g]
      BY DEF Enter, Typed
    <2>2. ~Born(f) /\ f \notin context
      BY DEF Enter, Born
    <2>3. inside[f] = {} /\ toRun[f] = {}
      BY <2>2 DEF Nesting, Contexts, OpenAround, Ended, Born
    <2>4. QED
      BY <2>1, <2>2, <2>3
  <1>2. \A g \in Calls : f \notin inside[g]
    BY <1>1 DEF Nesting, Contexts
  <1>3. Typed'
    BY DEF Enter, Typed, Statuses, callbackVars
  <1>4. Contexts'
    <2>1. ASSUME NEW g \in Calls, g # f
          PROVE  /\ ~Born(g)' => inside'[g] = {}
                 /\ Born(g)' => g \in inside'[g]
                 /\ \A h \in inside'[g] : Born(h)' /\ inside'[h] \subseteq inside'[g]
      <3>1. \A h \in inside[g] : h \in Calls /\ h # f
        BY <1>2 DEF Typed
      <3>2. QED
        BY <1>1, <2>1, <3>1 DEF Nesting, Contexts, Born
    <2>2. /\ f \in inside'[f] /\ Born(f)'
          /\ \A h \in inside'[f] : Born(h)' /\ inside'[h] \subseteq inside'[f]
      <3>1. \A h \in context : h # f /\ inside'[h] \subseteq context /\ status'[h] = "open"
        BY <1>1
      <3>2. QED
        BY <1>1, <3>1 DEF Born
    <2>3. QED
      BY <2>1, <2>2 DEF Contexts
  <1>5. OpenAround'
    <2>1. toRun' = toRun
      BY DEF Enter, callbackVars
    <2>2. ASSUME NEW g \in Calls, g # f
          PROVE  /\ Busy(g)' => \A h \in inside'[g] \ {g} : status'[h] = "open"
                 /\ toRun'[g] # {} => Ended(g)'
      <3>1. \A h \in inside[g] : h \in Calls /\ h # f
        BY <1>2 DEF Typed
      <3>2. QED
        BY <1>1, <2>1, <2>2, <3>1 DEF Nesting, OpenAround, Busy, Ended
    <2>3. (\A h \in inside'[f] \ {f} : status'[h] = "open") /\ toRun'[f] = {}
      BY <1>1, <2>1
    <2>4. QED
      BY <2>2, <2>3 DEF OpenAround
  <1>6. QED
    BY <1>1, <1>2, <1>3, <1>4, <1>5 DEF Born

\* BEGIN and SAVEPOINT keep the nesting.
LEMMA EnterNesting ==
    ASSUME Typed, Nesting, NEW f \in Calls, NEW context \in SUBSET Calls, NEW l \in Nat,
           NEW o \in Calls, Enter(f, context, l, o),
           \A g \in context : status[g] = "open" /\ inside[g] \subseteq context,
           \/ l = 1 /\ o = f /\ (\A g \in context : trx[g] # f)
           \/ /\ l > 1 /\ o \in context /\ trx[o] = o /\ level[o] = 1 /\ conn[o] = conn[f]
              /\ \A g \in context : trx[g] = o => level[g] <= l
    PROVE  Typed' /\ Nesting'
  <1>1. /\ Typed' /\ Contexts' /\ OpenAround' /\ f \notin context
        /\ \A g \in Calls : Born(g) => /\ g # f /\ f \notin inside[g]
                                       /\ inside'[g] = inside[g] /\ trx'[g] = trx[g]
                                       /\ level'[g] = level[g] /\ status'[g] = status[g]
    BY EnterContexts
  <1>2. /\ inside'[f] = context \cup {f} /\ trx'[f] = o /\ level'[f] = l /\ conn' = conn
        /\ \A g \in context : Born(g)
        /\ \A g \in Calls : Born(g)' => g = f \/ Born(g)
    BY DEF Enter, Typed, Born
  <1>3. ASSUME NEW g \in Calls, Born(g)
        PROVE  /\ trx'[g] \in inside'[g] /\ conn'[trx'[g]] = conn'[g]
               /\ trx'[trx'[g]] = trx'[g] /\ level'[trx'[g]] = 1
               /\ level'[g] = 1 => trx'[g] = g
               /\ \A h \in inside'[g] : trx'[h] = trx'[g] => level'[h] <= level'[g]
    <2>1. \A h \in inside[g] : h \in Calls /\ Born(h)
      BY DEF Nesting, Contexts, Typed
    <2>2. QED
      BY <1>1, <1>2, <1>3, <2>1 DEF Nesting, Levels
  <1>4. /\ trx'[f] \in inside'[f] /\ conn'[trx'[f]] = conn'[f]
        /\ trx'[trx'[f]] = trx'[f] /\ level'[trx'[f]] = 1
        /\ level'[f] = 1 => trx'[f] = f
        /\ \A h \in inside'[f] : trx'[h] = trx'[f] => level'[h] <= level'[f]
    BY <1>1, <1>2
  <1>5. Levels'
    BY <1>2, <1>3, <1>4 DEF Levels
  <1>6. QED
    BY <1>1, <1>5 DEF Nesting

\* The end of a call that is at work keeps the nesting: nothing inside it is at work.
LEMMA EndNesting ==
    ASSUME Typed, Nesting, NEW f \in Calls, Running(f), NEW s \in {"kept", "undone"},
           status' = [status EXCEPT ![f] = s], UNCHANGED contextVars,
           \A g \in Calls : g # f => toRun'[g] = toRun[g]
    PROVE  Nesting'
  <1>1. status'[f] = s /\ status[f] = "open" /\ \A g \in Calls : g # f => status'[g] = status[g]
    BY DEF Typed, Running
  <1>2. \A g \in Calls : Born(g)' <=> Born(g)
    BY <1>1 DEF Born
  <1>3. inside' = inside /\ conn' = conn /\ level' = level /\ trx' = trx
    BY DEF contextVars
  <1>4. Contexts' /\ Levels'
    <2>1. \A g \in Calls : inside[g] \subseteq Calls
      BY DEF Typed
    <2>2. Contexts'
      BY <1>2, <1>3, <2>1 DEF Nesting, Contexts
    <2>3. Levels'
      BY <1>2, <1>3 DEF Nesting, Levels
    <2>4. QED
      BY <2>2, <2>3
  <1>5. OpenAround'
    <2>1. ASSUME NEW g \in Calls, Busy(g)', NEW h \in inside[g] \ {g}
          PROVE  status'[h] = "open"
      <3>1. Busy(g)
        BY <1>1, <2>1 DEF Busy
      <3>2. status[h] = "open" /\ h \in Calls
        BY <3>1 DEF Nesting, OpenAround, Typed
      <3>3. h # f
        BY <3>1 DEF Running
      <3>4. QED
        BY <1>1, <3>2, <3>3
    <2>2. \A g \in Calls : toRun'[g] # {} => Ended(g)'
      BY <1>1 DEF Nesting, OpenAround, Ended
    <2>3. QED
      BY <1>3, <2>1, <2>2 DEF OpenAround
  <1>6. QED
    BY <1>4, <1>5 DEF Nesting

-----------------------------------------------------------------------------
(* Callbacks *)

\* What a step may do to contexts and outcomes without touching work that is over:
\* calls that exist keep their place, and a call that is undone was open before.
Settled ==
    /\ \A g \in Calls : Born(g) => /\ Born(g)' /\ inside'[g] = inside[g] /\ trx'[g] = trx[g]
                                   /\ level'[g] = level[g]
    /\ \A g \in Calls : status[g] = "kept" => status'[g] = "kept"
    /\ \A g \in Calls : Born(g) /\ status'[g] = "undone" /\ status[g] # "undone"
                        => status[g] = "open" /\ status[trx[g]] = "open"

\* Work of a committed transaction stays as it is.
LEMMA CommittedStays ==
    ASSUME Typed, Nesting, Settled, NEW f \in Calls, Born(f), Survives(f),
           status[trx[f]] = "kept"
    PROVE  Born(f)' /\ Survives(f)' /\ trx'[f] = trx[f] /\ status'[trx'[f]] = "kept"
  <1>1. trx[f] \in Calls /\ \A g \in inside[f] : g \in Calls /\ Born(g)
    BY DEF Nesting, Levels, Contexts, Typed
  <1>2. /\ Born(f)' /\ inside'[f] = inside[f] /\ trx'[f] = trx[f]
        /\ status'[trx[f]] = "kept"
    BY <1>1 DEF Settled
  <1>3. ASSUME NEW g \in inside[f], trx[g] = trx[f]
        PROVE  status'[g] # "undone"
    <2>1. status[g] # "undone" /\ g \in Calls /\ Born(g)
      BY <1>1, <1>3 DEF Survives
    <2>2. QED
      BY <2>1, <1>3 DEF Settled
  <1>4. \A g \in inside[f] : trx'[g] = trx[g]
    BY <1>1 DEF Settled
  <1>5. QED
    BY <1>2, <1>3, <1>4 DEF Survives

\* An element of a sequence.
LEMMA ElementTyped ==
    ASSUME NEW S, NEW s \in Seq(S), NEW k \in DOMAIN s
    PROVE  s[k] \in S
  OBVIOUS

\* Callbacks that ran stay paired with committed work.
LEMMA RanStays ==
    ASSUME Typed, Nesting, Settled, Ran, ran' = ran
    PROVE  Ran'
  <1> SUFFICES ASSUME NEW k \in DOMAIN ran, ran[k].after = "commit"
               PROVE  /\ Born(ran[k].scope)' /\ Survives(ran[k].scope)'
                      /\ status'[trx'[ran[k].scope]] = "kept"
    BY DEF Ran, Born, Survives
  <1>1. ran[k] \in [call : Calls, scope : Calls, after : Outcomes]
    BY ElementTyped, Zenon DEF Typed
  <1>2. ran[k].scope \in Calls
    BY <1>1
  <1>3. QED
    BY <1>2, CommittedStays DEF Ran

\* Callbacks that are being drained stay paired, while the list does not grow.
LEMMA DrainingStays ==
    ASSUME Typed, Nesting, Settled, Draining, NEW r \in Calls, toRun'[r] \subseteq toRun[r],
           status'[r] = status[r] \/ toRun[r] = {}, NEW e \in toRun'[r], status'[r] = "kept"
    PROVE  Born(e.scope)' /\ Survives(e.scope)' /\ trx'[e.scope] = r
  <1>1. e \in toRun[r] /\ e.scope \in Calls /\ status[r] = "kept"
    BY DEF Typed, Entries
  <1>2. QED
    BY <1>1, CommittedStays DEF Draining
-----------------------------------------------------------------------------
(* Steps *)

\* What waits for a commit stays paired when nobody is undone and no list grows.
LEMMA WaitingStays ==
    ASSUME Typed, Nesting, Settled, Waiting, NEW r \in Calls, NEW e \in onCommit[r],
           \A g \in Calls : status'[g] = "undone" /\ status[g] # "undone" /\ trx[g] = r
                            => level[g] > e.level
    PROVE  Born(e.scope)' /\ Survives(e.scope)' /\ trx'[e.scope] = r
           /\ e.level = level'[e.scope]
  <1>1. /\ e.scope \in Calls /\ Born(e.scope) /\ Survives(e.scope)
        /\ trx[e.scope] = r /\ e.level = level[e.scope]
    BY DEF Typed, Entries, Waiting
  <1>2. \A g \in inside[e.scope] :
            g \in Calls /\ Born(g) /\ level[g] \in Nat
            /\ (trx[g] = r => level[g] <= level[e.scope] /\ status[g] # "undone")
    BY <1>1 DEF Nesting, Contexts, Levels, Typed, Survives
  <1>3. /\ Born(e.scope)' /\ inside'[e.scope] = inside[e.scope] /\ trx'[e.scope] = r
        /\ level'[e.scope] = level[e.scope] /\ \A g \in inside[e.scope] : trx'[g] = trx[g]
    BY <1>1, <1>2 DEF Settled
  <1>4. ASSUME NEW g \in inside[e.scope], trx[g] = r PROVE status'[g] # "undone"
    <2>1. /\ g \in Calls /\ status[g] # "undone" /\ level[g] <= e.level
          /\ level[g] \in Nat /\ e.level \in Nat
      BY <1>1, <1>2, <1>4 DEF Typed
    <2>2. QED
      BY <2>1, <1>4
  <1>5. QED
    BY <1>1, <1>3, <1>4 DEF Survives

\* BEGIN and SAVEPOINT undo nothing.
LEMMA EnterPaired ==
    ASSUME Paired, NEW f \in Calls, NEW context \in SUBSET Calls, NEW l \in Nat,
           NEW o \in Calls, Enter(f, context, l, o),
           \A g \in context : status[g] = "open" /\ inside[g] \subseteq context,
           \/ l = 1 /\ o = f /\ (\A g \in context : trx[g] # f)
           \/ /\ l > 1 /\ o \in context /\ trx[o] = o /\ level[o] = 1 /\ conn[o] = conn[f]
              /\ \A g \in context : trx[g] = o => level[g] <= l
    PROVE  Paired'
  <1> USE DEF Paired
  <1>1. Typed' /\ Nesting'
    BY EnterNesting
  <1>2. /\ status'[f] = "open" /\ \A g \in Calls : g # f => status'[g] = status[g]
        /\ status[f] = "unborn" /\ toRun' = toRun /\ onCommit' = onCommit /\ ran' = ran
    BY DEF Enter, Typed, callbackVars
  <1>3. \A g \in Calls : Born(g) => /\ g # f /\ inside'[g] = inside[g] /\ trx'[g] = trx[g]
                                      /\ level'[g] = level[g] /\ status'[g] = status[g]
    BY EnterContexts
  <1>4. Settled
    BY <1>2, <1>3 DEF Settled, Born
  <1>5. Ran'
    BY <1>2, <1>4, RanStays
  <1>6. Draining'
    <2>1. toRun[f] = {}
      BY <1>2 DEF Nesting, OpenAround, Ended
    <2>2. QED
      BY <1>2, <1>4, <2>1, DrainingStays DEF Draining, Born, Survives
  <1>7. Waiting'
    BY <1>2, <1>4, WaitingStays DEF Waiting, Born, Survives
  <1>8. QED
    BY <1>1, <1>5, <1>6, <1>7

\* A BEGIN outside any transaction keeps the pairing.
LEMMA BeginPaired ==
    ASSUME Paired, NEW f \in Calls, Begin(f)
    PROVE  Paired'
  BY EnterPaired DEF Begin

\* So does a BEGIN inside calls on other connections: all of them are open.
LEMMA BeginInsidePaired ==
    ASSUME Paired, NEW f \in Calls, NEW p \in Calls, BeginInside(f, p)
    PROVE  Paired'
  <1>1. /\ inside[p] \subseteq Calls
        /\ \A g \in inside[p] : status[g] = "open" /\ Born(g) /\ inside[g] \subseteq inside[p]
    BY RunningInOpen DEF BeginInside, Paired
  <1>2. \A g \in inside[p] : trx[g] # f
    <2>1. ~Born(f)
      BY DEF BeginInside, Enter, Born
    <2>2. \A g \in inside[p] : Born(trx[g])
      BY <1>1 DEF Paired, Nesting, Levels, Contexts
    <2>3. QED
      BY <2>1, <2>2
  <1>3. QED
    BY <1>1, <1>2, EnterPaired DEF BeginInside

\* A SAVEPOINT is one level above the deepest call of its connection around it.
LEMMA NestPaired ==
    ASSUME Paired, NEW f \in Calls, NEW p \in Calls, Nest(f, p)
    PROVE  Paired'
  <1>1. /\ p \in inside[p] /\ inside[p] \subseteq Calls
        /\ \A g \in inside[p] : status[g] = "open" /\ Born(g) /\ inside[g] \subseteq inside[p]
    BY RunningInOpen DEF Nest, Paired
  <1>2. PICK g \in Scopes(p) : conn[g] = conn[f] /\ Enter(f, inside[p], level[g] + 1, trx[g])
    BY DEF Nest, Nested
  <1>3. /\ g \in inside[p] /\ g \in Calls /\ level[g] \in Nat
        /\ \A h \in inside[p] : conn[h] = conn[g] => level[h] <= level[g]
    BY <1>1 DEF Scopes, Paired, Typed
  <1>4. /\ trx[g] \in inside[g] /\ trx[trx[g]] = trx[g] /\ level[trx[g]] = 1
        /\ conn[trx[g]] = conn[g] /\ 1 <= level[g]
    <2>1. /\ trx[g] \in inside[g] /\ trx[trx[g]] = trx[g] /\ level[trx[g]] = 1
          /\ conn[trx[g]] = conn[g]
      BY <1>1, <1>3 DEF Paired, Nesting, Levels
    <2>2. QED
      BY <1>1, <1>3, <2>1
  <1>5. \A h \in inside[p] : trx[h] = trx[g] => level[h] <= level[g] + 1
    <2>1. ASSUME NEW h \in inside[p], trx[h] = trx[g] PROVE level[h] <= level[g] + 1
      <3>1. h \in Calls /\ conn[trx[h]] = conn[h] /\ level[h] \in Nat
        BY <1>1 DEF Paired, Nesting, Levels, Typed
      <3>2. QED
        BY <1>3, <1>4, <2>1, <3>1
    <2>2. QED
      BY <2>1
  <1>6. trx[g] \in inside[p] /\ trx[g] \in Calls /\ level[g] + 1 > 1 /\ level[g] + 1 \in Nat
    BY <1>1, <1>3, <1>4
  <1>7. QED
    BY <1>1, <1>2, <1>4, <1>5, <1>6, EnterPaired
\* A call that is at work ends: the calls around it are open, so nothing that is
\* committed is touched.
LEMMA EndSettled ==
    ASSUME Typed, Nesting, NEW f \in Calls, Running(f), NEW s \in {"kept", "undone"},
           status' = [status EXCEPT ![f] = s], UNCHANGED contextVars
    PROVE  /\ Settled /\ status'[f] = s /\ toRun[f] = {}
           /\ \A g \in Calls : g # f => status'[g] = status[g]
  <1>1. status[f] = "open" /\ status'[f] = s /\ \A g \in Calls : g # f => status'[g] = status[g]
    BY DEF Typed, Running
  <1>2. inside' = inside /\ trx' = trx /\ level' = level
    BY DEF contextVars
  <1>3. trx[f] \in inside[f] /\ status[trx[f]] = "open"
    BY <1>1, RunningInOpen DEF Nesting, Levels, Born
  <1>4. Settled
    BY <1>1, <1>2, <1>3 DEF Settled, Born
  <1>5. toRun[f] = {}
    BY <1>1 DEF Nesting, OpenAround, Ended
  <1>6. QED
    BY <1>1, <1>4, <1>5

\* A statement of the application touches no context and no callback.
LEMMA WritePaired ==
    ASSUME Paired, NEW f \in Calls, Write(f)
    PROVE  Paired'
  <1>1. UNCHANGED <<status, contextVars, callbackVars>>
    BY DEF Write
  <1>2. QED
    BY <1>1 DEF contextVars, callbackVars, Paired, Typed, Nesting, Contexts, Levels, OpenAround,
                Waiting, Draining, Ran, Born, Busy, Ended, Survives

\* A RELEASE ends a call and undoes nothing: its callbacks wait on.
LEMMA ReleasePaired ==
    ASSUME Paired, NEW f \in Calls, Release(f)
    PROVE  Paired'
  <1> USE DEF Paired
  <1>1. /\ Running(f) /\ status' = [status EXCEPT ![f] = "kept"]
        /\ UNCHANGED contextVars /\ UNCHANGED callbackVars
    BY DEF Release
  <1>2. toRun' = toRun /\ onCommit' = onCommit /\ ran' = ran
    BY <1>1 DEF callbackVars
  <1>3. Typed'
    BY <1>1 DEF Typed, Statuses, contextVars, callbackVars
  <1>4. Nesting'
    BY <1>1, <1>2, EndNesting
  <1>5. /\ Settled /\ status'[f] = "kept" /\ toRun[f] = {}
        /\ \A g \in Calls : g # f => status'[g] = status[g]
    BY <1>1, EndSettled
  <1>6. Ran'
    BY <1>2, <1>5, RanStays
  <1>7. Draining'
    BY <1>2, <1>5, DrainingStays DEF Draining, Born, Survives
  <1>8. Waiting'
    BY <1>2, <1>5, WaitingStays DEF Waiting, Born, Survives
  <1>9. QED
    BY <1>3, <1>4, <1>6, <1>7, <1>8

\* ROLLBACK TO discards every callback registered at its level or deeper, so none that
\* still waits was registered in the call that was undone or inside it.
LEMMA RollBackToPaired ==
    ASSUME Paired, NEW f \in Calls, RollBackTo(f)
    PROVE  Paired'
  <1> USE DEF Paired
  <1>1. /\ Running(f) /\ status' = [status EXCEPT ![f] = "undone"]
        /\ UNCHANGED contextVars /\ toRun' = toRun /\ ran' = ran /\ asked' = asked
    BY DEF RollBackTo
  <1>2. /\ onCommit' = [onCommit EXCEPT ![trx[f]] = Shallower(@, level[f])]
        /\ onRollback' = [onRollback EXCEPT ![trx[f]] = Shallower(@, level[f])]
    BY DEF RollBackTo, Discard
  <1>3. \A r \in Calls : /\ onCommit'[r] \subseteq onCommit[r]
                         /\ r = trx[f] => onCommit'[r] = Shallower(onCommit[r], level[f])
    BY <1>2 DEF Typed, Shallower
  <1>4. Typed'
    <2>1. /\ onCommit' \in [Calls -> SUBSET Entries]
          /\ onRollback' \in [Calls -> SUBSET Entries]
      BY <1>2 DEF Typed, Shallower
    <2>2. QED
      BY <1>1, <2>1 DEF Typed, Statuses, contextVars
  <1>5. Nesting'
    BY <1>1, EndNesting
  <1>6. /\ Settled /\ status'[f] = "undone" /\ toRun[f] = {}
        /\ \A g \in Calls : g # f => status'[g] = status[g]
    BY <1>1, EndSettled
  <1>7. Ran'
    BY <1>1, <1>6, RanStays
  <1>8. Draining'
    BY <1>1, <1>6, DrainingStays DEF Draining, Born, Survives
  <1>9. Waiting'
    <2> SUFFICES ASSUME NEW r \in Calls, NEW e \in onCommit'[r]
                 PROVE  Born(e.scope)' /\ Survives(e.scope)' /\ trx'[e.scope] = r
                        /\ e.level = level'[e.scope]
      BY DEF Waiting, Born, Survives
    <2>1. e \in onCommit[r] /\ (r = trx[f] => e.level < level[f])
      BY <1>3 DEF Shallower
    <2>2. e.level \in Nat /\ level[f] \in Nat
      BY <2>1 DEF Typed, Entries
    <2>3. \A g \in Calls : status'[g] = "undone" /\ status[g] # "undone" /\ trx[g] = r
                            => level[g] > e.level
      BY <1>6, <2>1, <2>2
    <2>4. QED
      BY <1>6, <2>1, <2>3, WaitingStays
  <1>10. QED
    BY <1>4, <1>5, <1>7, <1>8, <1>9

\* What a COMMIT or a ROLLBACK takes over is empty afterwards, and no other list changes.
LEMMA FinishPaired ==
    ASSUME Paired, NEW f \in Calls, NEW outcome \in {"kept", "undone"},
           NEW callbacks \in SUBSET Entries, Finish(f, outcome, callbacks),
           outcome = "kept" => callbacks = onCommit[f]
    PROVE  Paired'
  <1> USE DEF Paired
  <1>1. /\ Running(f) /\ status' = [status EXCEPT ![f] = outcome] /\ level[f] = 1
        /\ UNCHANGED contextVars /\ ran' = ran /\ asked' = asked
    BY DEF Finish
  <1>2. /\ onCommit' \in [Calls -> SUBSET Entries] /\ onCommit'[f] = {}
        /\ onRollback' \in [Calls -> SUBSET Entries]
        /\ toRun' \in [Calls -> SUBSET Entries] /\ toRun'[f] = callbacks
        /\ \A r \in Calls : r # f => onCommit'[r] = onCommit[r] /\ toRun'[r] = toRun[r]
    BY DEF Finish, Typed
  <1>3. Typed'
    BY <1>1, <1>2 DEF Typed, Statuses, contextVars
  <1>4. Nesting'
    BY <1>1, <1>2, EndNesting
  <1>5. /\ Settled /\ status'[f] = outcome
        /\ \A g \in Calls : g # f => status'[g] = status[g]
    BY <1>1, EndSettled
  <1>6. trx[f] = f
    BY <1>1 DEF Running, Nesting, Levels, Born
  <1>7. Ran'
    BY <1>1, <1>5, RanStays
  <1>8. \A r \in Calls : \A e \in onCommit[r] :
            outcome = "kept" \/ r # f =>
                /\ Born(e.scope)' /\ Survives(e.scope)' /\ trx'[e.scope] = r
                /\ e.level = level'[e.scope]
    BY <1>5, <1>6, WaitingStays
  <1>9. Draining'
    <2> SUFFICES ASSUME NEW r \in Calls, NEW e \in toRun'[r], status'[r] = "kept"
                 PROVE  Born(e.scope)' /\ Survives(e.scope)' /\ trx'[e.scope] = r
      BY DEF Draining, Born, Survives
    <2>1. CASE r = f
      BY <1>2, <1>5, <1>8, <2>1
    <2>2. CASE r # f
      BY <1>2, <1>5, <2>2, DrainingStays
    <2>3. QED
      BY <2>1, <2>2
  <1>10. Waiting'
    BY <1>2, <1>8 DEF Waiting, Born, Survives
  <1>11. QED
    BY <1>3, <1>4, <1>7, <1>9, <1>10

\* A callback is deferred by a call at work, against a scope that is open.
LEMMA AfterCommitPaired ==
    ASSUME Paired, NEW f \in Calls, NEW g \in Calls, AfterCommitOn(f, g)
    PROVE  Paired'
  <1> USE DEF Paired
  <1>1. /\ Running(f) /\ g \in inside[f]
        /\ UNCHANGED <<status, contextVars>> /\ toRun' = toRun /\ ran' = ran
        /\ onCommit' = [onCommit EXCEPT ![trx[g]] = @ \cup {Entry(f, g)}]
        /\ onRollback' = onRollback
        /\ asked' = Append(asked, [call |-> f, scope |-> g, for |-> "commit"])
    BY DEF AfterCommitOn, Ask, Scopes
  <1>2. status' = status /\ inside' = inside /\ trx' = trx /\ level' = level /\ conn' = conn
    BY <1>1 DEF contextVars
  <1>3. Entry(f, g) \in Entries
    BY DEF Entry, Entries, Typed
  <1>4. Typed'
    <2>1. asked' \in Seq([call : Calls, scope : Calls, for : Outcomes])
      BY <1>1 DEF Typed, Outcomes
    <2>2. onCommit' \in [Calls -> SUBSET Entries]
      BY <1>1, <1>3 DEF Typed
    <2>3. QED
      BY <1>1, <1>2, <2>1, <2>2 DEF Typed
  <1>5. Born(g) /\ Survives(g)
    BY <1>1, RunningInOpen DEF Survives, Typed
  <1>6. Waiting'
    <2> SUFFICES ASSUME NEW r \in Calls, NEW e \in onCommit'[r]
                 PROVE  /\ Born(e.scope) /\ Survives(e.scope)
                        /\ trx[e.scope] = r /\ e.level = level[e.scope]
      BY <1>2 DEF Waiting, Born, Survives
    <2>1. e \in onCommit[r] \/ (r = trx[g] /\ e = Entry(f, g))
      BY <1>1 DEF Typed
    <2>2. CASE e \in onCommit[r]
      BY <2>2 DEF Waiting
    <2>3. CASE r = trx[g] /\ e = Entry(f, g)
      BY <1>5, <2>3 DEF Entry
    <2>4. QED
      BY <2>1, <2>2, <2>3
  <1>7. Nesting' /\ Draining' /\ Ran'
    BY <1>1, <1>2 DEF Nesting, Contexts, Levels, OpenAround, Draining, Ran, Born, Busy, Ended,
                      Survives
  <1>8. QED
    BY <1>4, <1>6, <1>7

\* What waits for a rollback is never run after a commit.
LEMMA AfterRollbackPaired ==
    ASSUME Paired, NEW f \in Calls, NEW g \in Calls, AfterRollback(f, g)
    PROVE  Paired'
  <1> USE DEF Paired
  <1>1. /\ UNCHANGED <<status, contextVars>> /\ toRun' = toRun /\ ran' = ran
        /\ onRollback' = [onRollback EXCEPT ![trx[g]] = @ \cup {Entry(f, g)}]
        /\ onCommit' = onCommit
        /\ asked' = Append(asked, [call |-> f, scope |-> g, for |-> "rollback"])
    BY DEF AfterRollback, Ask
  <1>2. status' = status /\ inside' = inside /\ trx' = trx /\ level' = level /\ conn' = conn
    BY <1>1 DEF contextVars
  <1>3. Typed'
    <2>1. Entry(f, g) \in Entries
      BY DEF Entry, Entries, Typed
    <2>2. asked' \in Seq([call : Calls, scope : Calls, for : Outcomes])
      BY <1>1 DEF Typed, Outcomes
    <2>3. onRollback' \in [Calls -> SUBSET Entries]
      BY <1>1, <2>1 DEF Typed
    <2>4. QED
      BY <1>1, <1>2, <2>2, <2>3 DEF Typed
  <1>4. Nesting' /\ Waiting' /\ Draining' /\ Ran'
    BY <1>1, <1>2 DEF Nesting, Contexts, Levels, OpenAround, Waiting, Draining, Ran, Born, Busy,
                      Ended, Survives
  <1>5. QED
    BY <1>3, <1>4
\* drain() runs a callback of work that is committed, or of a rollback.
LEMMA RunNextPaired ==
    ASSUME Paired, NEW f \in Calls, RunNext(f)
    PROVE  Paired'
  <1> USE DEF Paired
  <1>1. PICK e \in toRun[f] :
            /\ toRun' = [toRun EXCEPT ![f] = @ \ {e}]
            /\ ran' = Append(ran, [call |-> e.call, scope |-> e.scope,
                                   after |-> IF status[f] = "kept" THEN "commit" ELSE "rollback"])
    BY DEF RunNext, Rest
  <1>2. /\ status' = status /\ inside' = inside /\ trx' = trx /\ level' = level /\ conn' = conn
        /\ onCommit' = onCommit /\ onRollback' = onRollback /\ asked' = asked
    BY DEF RunNext, contextVars
  <1>3. /\ toRun' \in [Calls -> SUBSET Entries]
        /\ \A r \in Calls : toRun'[r] \subseteq toRun[r]
    BY <1>1 DEF Typed
  <1>4. e.call \in Calls /\ e.scope \in Calls
    BY DEF Typed, Entries
  <1>5. Typed'
    <2>1. ran' \in Seq([call : Calls, scope : Calls, after : Outcomes])
      BY <1>1, <1>4 DEF Typed, Outcomes
    <2>2. QED
      BY <1>2, <1>3, <2>1 DEF Typed
  <1>6. Nesting' /\ Waiting'
    <2>1. OpenAround'
      BY <1>2, <1>3 DEF Nesting, OpenAround, Busy, Ended
    <2>2. QED
      BY <1>2, <2>1 DEF Nesting, Contexts, Levels, Waiting, Born, Survives
  <1>7. Draining'
    BY <1>2, <1>3 DEF Draining, Born, Survives
  <1>8. Ran'
    <2> SUFFICES ASSUME NEW k \in DOMAIN ran', ran'[k].after = "commit"
                 PROVE  /\ Born(ran'[k].scope) /\ Survives(ran'[k].scope)
                        /\ status[trx[ran'[k].scope]] = "kept"
      BY <1>2 DEF Ran, Born, Survives
    <2>1. CASE k \in DOMAIN ran
      <3>1. ran'[k] = ran[k]
        BY <1>1, <2>1 DEF Typed
      <3>2. QED
        BY <2>1, <3>1 DEF Ran
    <2>2. CASE k \notin DOMAIN ran
      <3>1. ran'[k] = [call |-> e.call, scope |-> e.scope,
                       after |-> IF status[f] = "kept" THEN "commit" ELSE "rollback"]
        BY <1>1, <2>2 DEF Typed
      <3>2. ran'[k].scope = e.scope /\ status[f] = "kept"
        BY <3>1
      <3>3. Born(e.scope) /\ Survives(e.scope) /\ trx[e.scope] = f
        BY <3>2 DEF Draining
      <3>4. QED
        BY <3>2, <3>3
    <2>3. QED
      BY <2>1, <2>2
  <1>9. QED
    BY <1>5, <1>6, <1>7, <1>8

\* No step breaks the pairing of callbacks and work.
LEMMA PairedStep == Paired /\ [Next]_vars => Paired'
  <1> SUFFICES ASSUME Paired, [Next]_vars PROVE Paired'
    OBVIOUS
  <1>1. ASSUME NEW f \in Calls, NEW p \in Calls, BeginInside(f, p) \/ Nest(f, p) PROVE Paired'
    BY <1>1, BeginInsidePaired, NestPaired
  <1>2. ASSUME NEW f \in Calls, Commit(f) \/ RollBack(f) PROVE Paired'
    <2>1. onCommit[f] \in SUBSET Entries /\ onRollback[f] \in SUBSET Entries
      BY DEF Paired, Typed
    <2>2. CASE Commit(f)
      BY <2>1, <2>2, FinishPaired DEF Commit
    <2>3. CASE RollBack(f)
      BY <2>1, <2>3, FinishPaired DEF RollBack
    <2>4. QED
      BY <1>2, <2>2, <2>3
  <1>3. ASSUME NEW f \in Calls, NEW g \in Calls,
               AfterCommitOn(f, g) \/ AfterCommit(f, g) \/ AfterRollback(f, g)
        PROVE  Paired'
    BY <1>3, AfterCommitPaired, AfterRollbackPaired DEF AfterCommit
  <1>4. CASE UNCHANGED vars
    BY <1>4 DEF vars, contextVars, databaseVars, callbackVars, Paired, Typed, Nesting, Contexts,
                Levels, OpenAround, Waiting, Draining, Ran, Born, Busy, Ended, Survives
  <1>5. QED
    BY <1>1, <1>2, <1>3, <1>4, BeginPaired, WritePaired, ReleasePaired, RollBackToPaired,
       RunNextPaired DEF Next

-----------------------------------------------------------------------------

\* An after-commit callback runs only when the outermost transaction has committed and
\* nothing between it and the place of the registration was rolled back, at any depth
\* of nesting (transaction-context.ts, afterCommit; transaction.ts, drain).
THEOREM OnlyCommittedCallBack == Spec => []NoCallbackOfUndoneWork
  <1>1. Spec => []Paired
    BY PairedInit, PairedStep, PTL DEF Spec
  <1>2. Paired => NoCallbackOfUndoneWork
    BY DEF Paired, Ran, NoCallbackOfUndoneWork
  <1>3. QED
    BY <1>1, <1>2, PTL

-----------------------------------------------------------------------------
(* What becomes of a callback *)

Waits(r) == onCommit[r] \cup onRollback[r]

\* Nobody registers twice, so a place in asked tells registrations apart.
AskedOnce == \A j, k \in DOMAIN asked : asked[j].call = asked[k].call => j = k

\* A callback that waits or is being drained is a registration, in the list of the
\* transaction it was made in.
Tracked ==
    \A r \in Calls : \A e \in Waits(r) \cup toRun[r] :
        /\ e.nth \in DOMAIN asked
        /\ asked[e.nth].call = e.call /\ asked[e.nth].scope = e.scope
        /\ Born(e.scope) /\ trx[e.scope] = r /\ e.level = level[e.scope]

WaitsWhileOpen == \A r \in Calls : Waits(r) # {} => status[r] = "open"

\* The five things that can become of registration k.
IsWaiting(k) ==
    \E e \in Waits(trx[asked[k].scope]) :
        /\ e.nth = k
        /\ asked[k].for = "commit" => e \in onCommit[trx[asked[k].scope]]
        /\ asked[k].for = "rollback" => e \in onRollback[trx[asked[k].scope]]
IsDraining(k) == \E e \in toRun[trx[asked[k].scope]] : e.nth = k
HasRun(k) == \E n \in DOMAIN ran : ran[n].call = asked[k].call
IsDiscarded(k) ==
    \E g \in Calls : /\ trx[g] = trx[asked[k].scope] /\ status[g] = "undone"
                     /\ 1 < level[g] /\ level[g] <= level[asked[k].scope]
IsMoot(k) ==
    status[trx[asked[k].scope]] = (IF asked[k].for = "commit" THEN "undone" ELSE "kept")

Fate(k) == IsWaiting(k) \/ IsDraining(k) \/ HasRun(k) \/ IsDiscarded(k) \/ IsMoot(k)

Accounted ==
    \A k \in DOMAIN asked :
        /\ Born(asked[k].scope)
        /\ Fate(k)

\* What has run was registered, in a transaction that has ended.
RanWasAsked ==
    \A m \in DOMAIN ran :
        /\ Born(ran[m].scope) /\ Ended(trx[ran[m].scope])
        /\ \E k \in DOMAIN asked : asked[k].call = ran[m].call

\* What is still to run was registered after what has run ...
RestIsLater ==
    \A m \in DOMAIN ran : \A k \in DOMAIN asked :
        asked[k].call = ran[m].call => \A e \in toRun[trx[ran[m].scope]] : k < e.nth

\* ... and what has run ran in that order.
Ordered ==
    \A m, n \in DOMAIN ran : \A j, k \in DOMAIN asked :
        /\ m < n /\ trx[ran[m].scope] = trx[ran[n].scope]
        /\ asked[j].call = ran[m].call /\ asked[k].call = ran[n].call
        => j < k

Registered ==
    AskedOnce /\ Tracked /\ WaitsWhileOpen /\ Accounted /\ RanWasAsked /\ RestIsLater /\ Ordered

\* At the start nothing is registered.
LEMMA RegisteredInit == Init => Registered
  BY DEF Init, Registered, AskedOnce, Tracked, WaitsWhileOpen, Accounted, RanWasAsked, RestIsLater,
         Ordered, Waits

\* A call keeps its place, and its outcome once it has one.
Onward ==
    /\ \A g \in Calls : Born(g) => Born(g)' /\ trx'[g] = trx[g] /\ level'[g] = level[g]
    /\ \A g \in Calls : Ended(g) => status'[g] = status[g]

LEMMA NextOnward == Typed /\ [Next]_vars => Onward
  <1> SUFFICES ASSUME Typed, [Next]_vars PROVE Onward
    OBVIOUS
  <1>1. ASSUME NEW f \in Calls, NEW c, NEW l, NEW o, Enter(f, c, l, o) PROVE Onward
    BY <1>1 DEF Enter, Onward, Typed, Born, Ended
  <1>2. ASSUME NEW f \in Calls, Begin(f) \/ \E p \in Calls : BeginInside(f, p) \/ Nest(f, p)
        PROVE  Onward
    BY <1>1, <1>2 DEF Begin, BeginInside, Nest
  <1>3. ASSUME NEW f \in Calls, NEW s, Running(f), status' = [status EXCEPT ![f] = s],
               s \in {"kept", "undone"}, UNCHANGED contextVars
        PROVE  Onward
    BY <1>3 DEF Running, Onward, Typed, Born, Ended, contextVars
  <1>4. ASSUME NEW f \in Calls, Release(f) \/ RollBackTo(f) \/ Commit(f) \/ RollBack(f)
        PROVE  Onward
    BY <1>3, <1>4 DEF Release, RollBackTo, Commit, RollBack, Finish
  <1>5. ASSUME UNCHANGED <<status, contextVars>> PROVE Onward
    BY <1>5 DEF Onward, Born, Ended, contextVars
  <1>6. ASSUME NEW f \in Calls, NEW g \in Calls,
               \/ Write(f) \/ AfterCommitOn(f, g) \/ AfterCommit(f, g) \/ AfterRollback(f, g)
               \/ RunNext(f)
        PROVE  Onward
    BY <1>5, <1>6 DEF Write, AfterCommitOn, AfterCommit, AfterRollback, Ask, RunNext
  <1>7. CASE UNCHANGED vars
    BY <1>5, <1>7 DEF vars
  <1>8. QED
    BY <1>2, <1>4, <1>6, <1>7 DEF Next

\* The scope of a registration, and of a callback that ran, is a call.
LEMMA AskedTyped ==
    ASSUME Typed, NEW k \in DOMAIN asked
    PROVE  asked[k].scope \in Calls /\ asked[k].call \in Calls /\ asked[k].for \in Outcomes
           /\ k \in Nat
  <1>1. asked[k] \in [call : Calls, scope : Calls, for : Outcomes]
    BY ElementTyped, Zenon DEF Typed
  <1>2. k \in Nat
    BY DEF Typed
  <1>3. QED
    BY <1>1, <1>2

LEMMA RanTyped ==
    ASSUME Typed, NEW m \in DOMAIN ran
    PROVE  ran[m].scope \in Calls /\ ran[m].call \in Calls /\ m \in Nat
  <1>1. ran[m] \in [call : Calls, scope : Calls, after : Outcomes]
    BY ElementTyped, Zenon DEF Typed
  <1>2. m \in Nat
    BY DEF Typed
  <1>3. QED
    BY <1>1, <1>2

LEMMA EntryTyped ==
    ASSUME Typed, NEW r \in Calls, NEW e \in Waits(r) \cup toRun[r]
    PROVE  e \in Entries /\ e.scope \in Calls /\ e.call \in Calls /\ e.nth \in Nat
  BY DEF Typed, Waits, Entries

\* Nothing is registered: what waits, drains or has run keeps its registration.
LEMMA TrackedStays ==
    ASSUME Typed, Tracked, Onward, asked' = asked, NEW r \in Calls,
           NEW e \in Waits(r) \cup toRun[r]
    PROVE  /\ e.nth \in DOMAIN asked' /\ asked'[e.nth].call = e.call
           /\ asked'[e.nth].scope = e.scope
           /\ Born(e.scope)' /\ trx'[e.scope] = r /\ e.level = level'[e.scope]
  BY EntryTyped DEF Tracked, Onward

\* What has become of a registration for good.
LEMMA FateSealed ==
    ASSUME Typed, Nesting, Onward, NEW k \in DOMAIN asked, Born(asked[k].scope),
           asked'[k] = asked[k], DOMAIN ran \subseteq DOMAIN ran',
           \A n \in DOMAIN ran : ran'[n] = ran[n]
    PROVE  /\ Born(asked[k].scope)'
           /\ HasRun(k) \/ IsDiscarded(k) \/ IsMoot(k)
                => (HasRun(k) \/ IsDiscarded(k) \/ IsMoot(k))'
  <1>1. asked[k].scope \in Calls /\ trx[asked[k].scope] \in Calls
    BY AskedTyped DEF Nesting, Levels, Contexts, Typed
  <1>2. /\ Born(asked[k].scope)' /\ trx'[asked[k].scope] = trx[asked[k].scope]
        /\ level'[asked[k].scope] = level[asked[k].scope]
    BY <1>1 DEF Onward
  <1>3. HasRun(k) => HasRun(k)'
    BY DEF HasRun
  <1>4. IsDiscarded(k) => IsDiscarded(k)'
    BY <1>2 DEF IsDiscarded, Onward, Ended, Born
  <1>5. IsMoot(k) => IsMoot(k)'
    BY <1>1, <1>2 DEF IsMoot, Onward, Ended
  <1>6. QED
    BY <1>2, <1>3, <1>4, <1>5

\* Nothing runs: the order of what ran stays, unless a list is filled that others ran from.
LEMMA OrderStays ==
    ASSUME Typed, Nesting, Onward, RanWasAsked, RestIsLater, Ordered, asked' = asked, ran' = ran,
           \A r \in Calls : Ended(r) => toRun'[r] \subseteq toRun[r]
    PROVE  RanWasAsked' /\ RestIsLater' /\ Ordered'
  <1>1. \A m \in DOMAIN ran : /\ ran[m].scope \in Calls /\ trx'[ran[m].scope] = trx[ran[m].scope]
                              /\ Born(ran[m].scope)' /\ trx[ran[m].scope] \in Calls
                              /\ Ended(trx[ran[m].scope])
    <2> SUFFICES ASSUME NEW m \in DOMAIN ran
                 PROVE  /\ ran[m].scope \in Calls /\ trx'[ran[m].scope] = trx[ran[m].scope]
                        /\ Born(ran[m].scope)' /\ trx[ran[m].scope] \in Calls
                        /\ Ended(trx[ran[m].scope])
      BY DEF Born
    <2>1. ran[m].scope \in Calls /\ Born(ran[m].scope) /\ Ended(trx[ran[m].scope])
      BY RanTyped DEF RanWasAsked
    <2>2. trx'[ran[m].scope] = trx[ran[m].scope] /\ Born(ran[m].scope)'
      BY <2>1 DEF Onward
    <2>3. trx[ran[m].scope] \in Calls
      BY <2>1 DEF Nesting, Levels, Typed
    <2>4. QED
      BY <2>1, <2>2, <2>3
  <1>2. \A m \in DOMAIN ran : Ended(trx[ran[m].scope])'
    BY <1>1 DEF Onward, Ended
  <1>3. RanWasAsked'
    BY <1>1, <1>2 DEF RanWasAsked, Ended, Born
  <1>4. RestIsLater'
    BY <1>1 DEF RestIsLater
  <1>5. Ordered'
    BY <1>1 DEF Ordered
  <1>6. QED
    BY <1>3, <1>4, <1>5

\* A step that leaves the callbacks alone and ends no call that some wait for.
LEMMA CallbacksUntouched ==
    ASSUME Paired, Registered, Onward, UNCHANGED callbackVars,
           \A r \in Calls : status[r] = "open" /\ Waits(r) # {} => status'[r] = "open"
    PROVE  Registered'
  <1> USE DEF Paired, Registered
  <1>1. /\ asked' = asked /\ ran' = ran /\ toRun' = toRun /\ onCommit' = onCommit
        /\ onRollback' = onRollback /\ \A r \in Calls : Waits(r)' = Waits(r)
    BY DEF callbackVars, Waits
  <1>2. AskedOnce' /\ WaitsWhileOpen'
    BY <1>1 DEF AskedOnce, WaitsWhileOpen
  <1>3. Tracked'
    BY <1>1, TrackedStays DEF Tracked, Born
  <1>4. RanWasAsked' /\ RestIsLater' /\ Ordered'
    BY <1>1, OrderStays
  <1>5. Accounted'
    <2> SUFFICES ASSUME NEW k \in DOMAIN asked
                 PROVE  /\ Born(asked[k].scope)'
                        /\ Fate(k)'
      BY <1>1 DEF Accounted, Fate, Born, IsWaiting, IsDraining, HasRun, IsDiscarded, IsMoot
    <2>1. /\ Born(asked[k].scope) /\ trx'[asked[k].scope] = trx[asked[k].scope]
          /\ trx[asked[k].scope] \in Calls
      BY AskedTyped DEF Accounted, Onward, Nesting, Levels, Contexts, Typed
    <2>2. IsWaiting(k) => IsWaiting(k)'
      BY <1>1, <2>1 DEF IsWaiting
    <2>3. IsDraining(k) => IsDraining(k)'
      BY <1>1, <2>1 DEF IsDraining
    <2>4. QED
      BY <1>1, <2>1, <2>2, <2>3, FateSealed DEF Accounted, Fate
  <1>6. QED
    BY <1>2, <1>3, <1>4, <1>5

\* A call that some wait for is the outermost of its transaction.
LEMMA WaitedForIsOutermost ==
    ASSUME Paired, Tracked, NEW r \in Calls, Waits(r) # {}
    PROVE  level[r] = 1 /\ trx[r] = r
  BY EntryTyped DEF Paired, Tracked, Nesting, Levels

\* Entering a call, writing and releasing leave every callback where it is.
LEMMA QuietRegistered ==
    ASSUME Paired, Registered, Onward, NEW f \in Calls,
           \/ Begin(f) \/ \E p \in Calls : BeginInside(f, p) \/ Nest(f, p)
           \/ Write(f) \/ Release(f)
    PROVE  Registered'
  <1>1. UNCHANGED callbackVars
    BY DEF Begin, BeginInside, Nest, Enter, Write, Release
  <1>2. ASSUME NEW r \in Calls, status[r] = "open", Waits(r) # {} PROVE status'[r] = "open"
    <2>1. CASE Release(f)
      <3>1. level[r] = 1
        BY <1>2, WaitedForIsOutermost DEF Registered
      <3>2. r # f /\ status' = [status EXCEPT ![f] = "kept"]
        BY <2>1, <3>1 DEF Release, Paired, Typed
      <3>3. QED
        BY <1>2, <3>2 DEF Paired, Typed
    <2>2. CASE ~Release(f)
      BY <1>2, <2>2 DEF Begin, BeginInside, Nest, Enter, Write, Paired, Typed
    <2>3. QED
      BY <2>1, <2>2
  <1>3. QED
    BY <1>1, <1>2, CallbacksUntouched

\* ROLLBACK TO drops what was registered at its level or deeper: that is its fate.
LEMMA RollBackToRegistered ==
    ASSUME Paired, Registered, Onward, NEW f \in Calls, RollBackTo(f)
    PROVE  Registered'
  <1> USE DEF Paired, Registered
  <1>1. /\ status' = [status EXCEPT ![f] = "undone"] /\ level[f] > 1
        /\ toRun' = toRun /\ ran' = ran /\ asked' = asked /\ UNCHANGED contextVars
    BY DEF RollBackTo
  <1>2. /\ onCommit' = [onCommit EXCEPT ![trx[f]] = Shallower(@, level[f])]
        /\ onRollback' = [onRollback EXCEPT ![trx[f]] = Shallower(@, level[f])]
    BY DEF RollBackTo, Discard
  <1>3. \A r \in Calls : Waits(r)' \subseteq Waits(r)
    BY <1>2 DEF Waits, Shallower, Typed
  <1>4. WaitsWhileOpen'
    <2> SUFFICES ASSUME NEW r \in Calls, Waits(r)' # {} PROVE status'[r] = "open"
      BY DEF WaitsWhileOpen
    <2>1. Waits(r) # {}
      BY <1>3
    <2>2. status[r] = "open" /\ level[r] = 1
      BY <2>1, WaitedForIsOutermost DEF WaitsWhileOpen
    <2>3. QED
      BY <1>1, <2>2 DEF Typed
  <1>5. Tracked' /\ AskedOnce'
    BY <1>1, <1>3, TrackedStays DEF Tracked, Born, AskedOnce
  <1>6. RanWasAsked' /\ RestIsLater' /\ Ordered'
    BY <1>1, OrderStays
  <1>7. Accounted'
    <2> SUFFICES ASSUME NEW k \in DOMAIN asked
                 PROVE  /\ Born(asked[k].scope)'
                        /\ Fate(k)'
      BY <1>1 DEF Accounted, Fate, Born, IsWaiting, IsDraining, HasRun, IsDiscarded, IsMoot
    <2>1. /\ Born(asked[k].scope) /\ trx[asked[k].scope] \in Calls /\ asked[k].scope \in Calls
      BY AskedTyped DEF Accounted, Nesting, Levels, Contexts, Typed
    <2>2. IsDraining(k) => IsDraining(k)'
      BY <1>1 DEF IsDraining, contextVars
    <2>3. ASSUME IsWaiting(k) PROVE IsWaiting(k)' \/ IsDiscarded(k)'
      <3>1. PICK e \in Waits(trx[asked[k].scope]) :
                /\ e.nth = k
                /\ asked[k].for = "commit" => e \in onCommit[trx[asked[k].scope]]
                /\ asked[k].for = "rollback" => e \in onRollback[trx[asked[k].scope]]
        BY <2>3 DEF IsWaiting
      <3>2. e.level = level[asked[k].scope] /\ e.level \in Nat /\ level[f] \in Nat
        <4>1. e.level = level[e.scope] /\ e.scope = asked[k].scope
          BY <2>1, <3>1 DEF Tracked
        <4>2. level[e.scope] \in Nat /\ level[f] \in Nat
          BY <2>1, <4>1 DEF Typed
        <4>3. QED
          BY <4>1, <4>2
      <3>3. CASE trx[f] = trx[asked[k].scope] /\ e.level >= level[f]
        <4>1. trx'[f] = trx'[asked[k].scope] /\ status'[f] = "undone"
              /\ 1 < level'[f] /\ level'[f] <= level'[asked[k].scope]
          BY <1>1, <3>2, <3>3 DEF contextVars, Typed
        <4>2. QED
          BY <1>1, <4>1 DEF IsDiscarded
      <3>4. CASE ~(trx[f] = trx[asked[k].scope] /\ e.level >= level[f])
        <4>1. /\ e \in onCommit[trx[asked[k].scope]] => e \in onCommit'[trx[asked[k].scope]]
              /\ e \in onRollback[trx[asked[k].scope]] => e \in onRollback'[trx[asked[k].scope]]
          BY <1>2, <2>1, <3>2, <3>4 DEF Shallower, Typed
        <4>2. asked[k].for = "commit" \/ asked[k].for = "rollback"
          BY AskedTyped DEF Outcomes
        <4>3. QED
          BY <1>1, <3>1, <4>1, <4>2 DEF IsWaiting, Waits, contextVars
      <3>5. QED
        BY <3>3, <3>4
    <2>4. QED
      BY <1>1, <2>1, <2>2, <2>3, FateSealed DEF Accounted, Fate
  <1>8. QED
    BY <1>4, <1>5, <1>6, <1>7

\* A COMMIT or a ROLLBACK takes one of the two lists over and makes the other moot.
LEMMA FinishRegistered ==
    ASSUME Paired, Registered, Onward, NEW f \in Calls, NEW outcome \in {"kept", "undone"},
           NEW callbacks \in SUBSET Entries, Finish(f, outcome, callbacks),
           outcome = "kept" => callbacks = onCommit[f],
           outcome = "undone" => callbacks = onRollback[f]
    PROVE  Registered'
  <1> USE DEF Paired, Registered
  <1>1. /\ Running(f) /\ status' = [status EXCEPT ![f] = outcome]
        /\ UNCHANGED contextVars /\ ran' = ran /\ asked' = asked
        /\ status[f] = "open" /\ status'[f] = outcome
        /\ \A r \in Calls : r # f => status'[r] = status[r]
    BY DEF Finish, Running, Typed
  <1>2. /\ toRun'[f] = callbacks /\ callbacks \subseteq Waits(f) /\ Waits(f)' = {}
        /\ \A r \in Calls : r # f => /\ onCommit'[r] = onCommit[r] /\ toRun'[r] = toRun[r]
                                     /\ onRollback'[r] = onRollback[r] /\ Waits(r)' = Waits(r)
    BY DEF Finish, Typed, Waits
  <1>3. \A r \in Calls : Waits(r)' \cup toRun'[r] \subseteq Waits(r) \cup toRun[r]
    BY <1>2
  <1>4. WaitsWhileOpen'
    BY <1>1, <1>2 DEF WaitsWhileOpen
  <1>5. Tracked' /\ AskedOnce'
    BY <1>1, <1>3, TrackedStays DEF Tracked, Born, AskedOnce
  <1>6. RanWasAsked' /\ RestIsLater' /\ Ordered'
    BY <1>1, <1>2, OrderStays DEF Ended
  <1>7. Accounted'
    <2> SUFFICES ASSUME NEW k \in DOMAIN asked
                 PROVE  /\ Born(asked[k].scope)'
                        /\ Fate(k)'
      BY <1>1 DEF Accounted, Fate, Born, IsWaiting, IsDraining, HasRun, IsDiscarded, IsMoot
    <2>1. /\ Born(asked[k].scope) /\ trx[asked[k].scope] \in Calls
          /\ trx'[asked[k].scope] = trx[asked[k].scope]
      BY AskedTyped DEF Accounted, Onward, Nesting, Levels, Contexts, Typed
    <2>2. CASE trx[asked[k].scope] # f
      <3>1. IsWaiting(k) => IsWaiting(k)'
        BY <1>1, <1>2, <2>1, <2>2 DEF IsWaiting
      <3>2. IsDraining(k) => IsDraining(k)'
        BY <1>1, <1>2, <2>1, <2>2 DEF IsDraining
      <3>3. QED
        BY <1>1, <2>1, <3>1, <3>2, FateSealed DEF Accounted, Fate
    <2>3. CASE trx[asked[k].scope] = f
      <3>1. ~IsDraining(k)
        BY <1>1, <2>3 DEF IsDraining, Nesting, OpenAround, Ended
      <3>2. ASSUME IsWaiting(k) PROVE IsDraining(k)' \/ IsMoot(k)'
        <4>1. asked[k].for = "commit" \/ asked[k].for = "rollback"
          BY AskedTyped DEF Outcomes
        <4>2. (asked[k].for = "commit") # (outcome = "kept") => IsMoot(k)'
          BY <1>1, <2>1, <2>3, <4>1 DEF IsMoot
        <4>3. (asked[k].for = "commit") = (outcome = "kept") => IsDraining(k)'
          BY <1>1, <1>2, <2>1, <2>3, <3>2, <4>1 DEF IsWaiting, IsDraining
        <4>4. QED
          BY <4>2, <4>3
      <3>3. QED
        BY <1>1, <2>1, <3>1, <3>2, FateSealed DEF Accounted, Fate
    <2>4. QED
      BY <2>2, <2>3
  <1>8. QED
    BY <1>4, <1>5, <1>6, <1>7

\* A registration is one more: what it adds to a list waits there.
LEMMA AskRegistered ==
    ASSUME Paired, Registered, Onward, NEW f \in Calls, NEW g \in Calls, NEW outcome \in Outcomes,
           g \in Scopes(f), Ask(f, g, outcome),
           \/ /\ outcome = "commit" /\ onRollback' = onRollback
              /\ onCommit' = [onCommit EXCEPT ![trx[g]] = @ \cup {Entry(f, g)}]
           \/ /\ outcome = "rollback" /\ onCommit' = onCommit
              /\ onRollback' = [onRollback EXCEPT ![trx[g]] = @ \cup {Entry(f, g)}]
    PROVE  Registered'
  <1> USE DEF Paired, Registered
  <1> DEFINE new == Len(asked) + 1
  <1>1. /\ Running(f) /\ g \in inside[f] /\ UNCHANGED <<status, contextVars>>
        /\ toRun' = toRun /\ ran' = ran
        /\ asked' = Append(asked, [call |-> f, scope |-> g, for |-> outcome])
        /\ \A k \in DOMAIN asked : asked[k].call # f
    BY DEF Ask, Scopes
  <1>2. status' = status /\ inside' = inside /\ trx' = trx /\ level' = level
    BY <1>1 DEF contextVars
  <1>3. /\ DOMAIN asked' = DOMAIN asked \cup {new} /\ new \notin DOMAIN asked
        /\ \A k \in DOMAIN asked : asked'[k] = asked[k]
        /\ asked'[new] = [call |-> f, scope |-> g, for |-> outcome]
    BY <1>1 DEF Typed
  <1>4. /\ Entry(f, g).nth = new /\ Entry(f, g).call = f /\ Entry(f, g).scope = g
        /\ Entry(f, g).level = level[g]
    BY DEF Entry
  <1>5. Born(g) /\ trx[g] \in Calls /\ status[trx[g]] = "open"
    <2>1. Born(g) /\ inside[g] \subseteq inside[f] /\ inside[f] \subseteq Calls
      BY <1>1, RunningInOpen
    <2>2. trx[g] \in inside[g]
      BY <2>1 DEF Nesting, Levels
    <2>3. QED
      BY <1>1, <2>1, <2>2, RunningInOpen
  <1>6. /\ \A r \in Calls : Waits(r) \subseteq Waits(r)'
                            /\ Waits(r)' \subseteq Waits(r) \cup {Entry(f, g)}
        /\ \A r \in Calls : r # trx[g] => Waits(r)' = Waits(r)
        /\ \A r \in Calls : /\ onCommit[r] \subseteq onCommit'[r]
                            /\ onRollback[r] \subseteq onRollback'[r]
        /\ outcome = "commit" => Entry(f, g) \in onCommit'[trx[g]]
        /\ outcome = "rollback" => Entry(f, g) \in onRollback'[trx[g]]
    <2>1. CASE /\ outcome = "commit" /\ onRollback' = onRollback
               /\ onCommit' = [onCommit EXCEPT ![trx[g]] = @ \cup {Entry(f, g)}]
      <3>1. /\ onCommit'[trx[g]] = onCommit[trx[g]] \cup {Entry(f, g)}
            /\ \A r \in Calls : r # trx[g] => onCommit'[r] = onCommit[r]
        BY <1>5, <2>1 DEF Typed
      <3>2. QED
        BY <1>5, <2>1, <3>1 DEF Waits
    <2>2. CASE /\ outcome = "rollback" /\ onCommit' = onCommit
               /\ onRollback' = [onRollback EXCEPT ![trx[g]] = @ \cup {Entry(f, g)}]
      <3>1. /\ onRollback'[trx[g]] = onRollback[trx[g]] \cup {Entry(f, g)}
            /\ \A r \in Calls : r # trx[g] => onRollback'[r] = onRollback[r]
        BY <1>5, <2>2 DEF Typed
      <3>2. QED
        BY <1>5, <2>2, <3>1 DEF Waits
    <2>3. QED
      BY <2>1, <2>2
  <1>7. AskedOnce'
    BY <1>1, <1>3 DEF AskedOnce
  <1>8. WaitsWhileOpen'
    BY <1>2, <1>5, <1>6 DEF WaitsWhileOpen
  <1>9. Tracked'
    <2> SUFFICES ASSUME NEW r \in Calls, NEW e \in Waits(r)' \cup toRun[r]
                 PROVE  /\ e.nth \in DOMAIN asked'
                        /\ asked'[e.nth].call = e.call /\ asked'[e.nth].scope = e.scope
                        /\ Born(e.scope) /\ trx[e.scope] = r /\ e.level = level[e.scope]
      BY <1>1, <1>2 DEF Tracked, Born
    <2>1. CASE e \in Waits(r) \cup toRun[r]
      BY <1>3, <2>1 DEF Tracked
    <2>2. CASE e \notin Waits(r) \cup toRun[r]
      BY <1>3, <1>4, <1>5, <1>6, <2>2
    <2>3. QED
      BY <2>1, <2>2
  <1>10. Accounted'
    <2> SUFFICES ASSUME NEW k \in DOMAIN asked'
                 PROVE  /\ Born(asked'[k].scope)
                        /\ Fate(k)'
      BY <1>2 DEF Accounted, Fate, Born, IsWaiting, IsDraining, HasRun, IsDiscarded, IsMoot
    <2>1. CASE k \in DOMAIN asked
      <3>1. /\ Born(asked[k].scope) /\ trx[asked[k].scope] \in Calls
        BY <2>1, AskedTyped DEF Accounted, Nesting, Levels, Contexts, Typed
      <3>2. IsWaiting(k) => IsWaiting(k)'
        BY <1>2, <1>3, <1>6, <2>1, <3>1 DEF IsWaiting
      <3>3. IsDraining(k) => IsDraining(k)'
        BY <1>1, <1>2, <1>3, <2>1, <3>1 DEF IsDraining
      <3>4. QED
        BY <1>1, <1>2, <1>3, <2>1, <3>1, <3>2, <3>3, FateSealed DEF Accounted, Fate, Born
    <2>2. CASE k = new
      <3>1. asked'[k].scope = g /\ asked'[k].for = outcome
        BY <1>3, <2>2
      <3>2. Entry(f, g) \in Waits(trx[g])'
        BY <1>2, <1>6 DEF Waits, Outcomes
      <3>3. IsWaiting(k)'
        BY <1>2, <1>4, <1>6, <2>2, <3>1, <3>2 DEF IsWaiting
      <3>4. QED
        BY <1>5, <3>1, <3>3 DEF Fate
    <2>3. QED
      BY <1>3, <2>1, <2>2
  <1>11. \A m \in DOMAIN ran : /\ \E k \in DOMAIN asked : asked[k].call = ran[m].call
                               /\ asked'[new].call # ran[m].call
    BY <1>1, <1>3 DEF RanWasAsked
  <1>12. RanWasAsked'
    BY <1>1, <1>2, <1>3 DEF RanWasAsked, Born, Ended
  <1>13. RestIsLater'
    BY <1>1, <1>2, <1>3, <1>11 DEF RestIsLater
  <1>14. Ordered'
    BY <1>1, <1>2, <1>3, <1>11 DEF Ordered
  <1>15. QED
    BY <1>7, <1>8, <1>9, <1>10, <1>12, <1>13, <1>14

\* drain() takes the callback that was registered first.
LEMMA RunNextRegistered ==
    ASSUME Paired, Registered, Onward, NEW f \in Calls, RunNext(f)
    PROVE  Registered'
  <1> USE DEF Paired, Registered
  <1> DEFINE new == Len(ran) + 1
  <1>1. PICK e \in toRun[f] :
            /\ \A d \in toRun[f] : e.nth <= d.nth
            /\ toRun' = [toRun EXCEPT ![f] = @ \ {e}]
            /\ ran' = Append(ran, [call |-> e.call, scope |-> e.scope,
                                   after |-> IF status[f] = "kept" THEN "commit" ELSE "rollback"])
    BY DEF RunNext, Rest, IsFirst
  <1>2. /\ status' = status /\ inside' = inside /\ trx' = trx /\ level' = level
        /\ asked' = asked /\ onCommit' = onCommit /\ onRollback' = onRollback
        /\ \A r \in Calls : Waits(r)' = Waits(r)
    BY DEF RunNext, contextVars, Waits
  <1>3. /\ DOMAIN ran' = DOMAIN ran \cup {new} /\ new \notin DOMAIN ran
        /\ \A m \in DOMAIN ran : ran'[m] = ran[m] /\ m < new
        /\ ran'[new].call = e.call /\ ran'[new].scope = e.scope
    BY <1>1 DEF Typed
  <1>4. /\ toRun'[f] = toRun[f] \ {e} /\ \A r \in Calls : r # f => toRun'[r] = toRun[r]
    BY <1>1 DEF Typed
  <1>5. /\ e.nth \in DOMAIN asked /\ asked[e.nth].call = e.call /\ asked[e.nth].scope = e.scope
        /\ Born(e.scope) /\ trx[e.scope] = f /\ Ended(f)
        /\ \A k \in DOMAIN asked : asked[k].call = e.call => k = e.nth
    BY DEF Tracked, AskedOnce, Nesting, OpenAround
  <1>6. ASSUME NEW d \in toRun[f] \ {e} PROVE e.nth < d.nth
    <2>1. /\ d.nth \in DOMAIN asked /\ asked[d.nth].call = d.call
          /\ asked[d.nth].scope = d.scope /\ d.level = level[d.scope] /\ e.level = level[e.scope]
      BY DEF Tracked
    <2>2. d \in Entries /\ e \in Entries
      BY DEF Typed
    <2>3. d.nth # e.nth
      BY <1>5, <2>1, <2>2 DEF Entries
    <2>4. QED
      BY <1>1, <2>2, <2>3 DEF Entries
  <1>7. AskedOnce' /\ WaitsWhileOpen'
    BY <1>2 DEF AskedOnce, WaitsWhileOpen
  <1>8. Tracked'
    BY <1>2, <1>4, TrackedStays DEF Tracked, Born
  <1>9. Accounted'
    <2> SUFFICES ASSUME NEW k \in DOMAIN asked
                 PROVE  /\ Born(asked[k].scope)
                        /\ Fate(k)'
      BY <1>2 DEF Accounted, Fate, Born, IsWaiting, IsDraining, HasRun, IsDiscarded, IsMoot
    <2>1. /\ Born(asked[k].scope) /\ trx[asked[k].scope] \in Calls
      BY AskedTyped DEF Accounted, Nesting, Levels, Contexts, Typed
    <2>2. IsWaiting(k) => IsWaiting(k)'
      BY <1>2, <2>1 DEF IsWaiting
    <2>3. ASSUME IsDraining(k) PROVE IsDraining(k)' \/ HasRun(k)'
      <3>1. PICK d \in toRun[trx[asked[k].scope]] : d.nth = k
        BY <2>3 DEF IsDraining
      <3>2. CASE trx[asked[k].scope] = f /\ d = e
        BY <1>2, <1>3, <1>5, <3>1, <3>2 DEF HasRun
      <3>3. CASE ~(trx[asked[k].scope] = f /\ d = e)
        BY <1>2, <1>4, <2>1, <3>1, <3>3 DEF IsDraining
      <3>4. QED
        BY <3>2, <3>3
    <2>4. QED
      BY <1>2, <1>3, <2>1, <2>2, <2>3, FateSealed DEF Accounted, Fate
  <1>10. RanWasAsked'
    BY <1>2, <1>3, <1>5 DEF RanWasAsked, Born, Ended
  <1>11. RestIsLater'
    <2> SUFFICES ASSUME NEW m \in DOMAIN ran', NEW k \in DOMAIN asked, asked[k].call = ran'[m].call,
                        NEW d \in toRun'[trx[ran'[m].scope]]
                 PROVE  k < d.nth
      BY <1>2 DEF RestIsLater
    <2>1. CASE m \in DOMAIN ran
      <3>1. trx[ran[m].scope] \in Calls
        <4>1. ran[m].scope \in Calls /\ Born(ran[m].scope)
          BY <2>1, RanTyped DEF RanWasAsked
        <4>2. QED
          BY <4>1 DEF Nesting, Levels, Typed
      <3>2. d \in toRun[trx[ran[m].scope]]
        BY <1>3, <1>4, <2>1, <3>1
      <3>3. QED
        BY <1>3, <2>1, <3>2 DEF RestIsLater
    <2>2. CASE m = new
      BY <1>3, <1>4, <1>5, <1>6, <2>2
    <2>3. QED
      BY <1>3, <2>1, <2>2
  <1>12. Ordered'
    <2> SUFFICES ASSUME NEW m \in DOMAIN ran', NEW n \in DOMAIN ran', NEW j \in DOMAIN asked,
                        NEW k \in DOMAIN asked,
                        m < n, trx[ran'[m].scope] = trx[ran'[n].scope],
                        asked[j].call = ran'[m].call, asked[k].call = ran'[n].call
                 PROVE  j < k
      BY <1>2 DEF Ordered
    <2>1. m \in DOMAIN ran
      <3>1. DOMAIN ran' = 1 .. new /\ DOMAIN ran = 1 .. Len(ran) /\ Len(ran) \in Nat
        BY <1>1 DEF Typed
      <3>2. QED
        BY <3>1
    <2>2. CASE n \in DOMAIN ran
      BY <1>3, <2>1, <2>2 DEF Ordered
    <2>3. CASE n = new
      BY <1>3, <1>5, <2>1, <2>3 DEF RestIsLater
    <2>4. QED
      BY <1>3, <2>2, <2>3
  <1>13. QED
    BY <1>7, <1>8, <1>9, <1>10, <1>11, <1>12

LEMMA RegisteredStep == Paired /\ Registered /\ [Next]_vars => Registered'
  <1> SUFFICES ASSUME Paired, Registered, [Next]_vars PROVE Registered'
    OBVIOUS
  <1>1. Onward
    BY NextOnward DEF Paired
  <1>2. ASSUME NEW f \in Calls, Commit(f) \/ RollBack(f) PROVE Registered'
    <2>1. onCommit[f] \in SUBSET Entries /\ onRollback[f] \in SUBSET Entries
      BY DEF Paired, Typed
    <2>2. CASE Commit(f)
      BY <1>1, <2>1, <2>2, FinishRegistered DEF Commit
    <2>3. CASE RollBack(f)
      BY <1>1, <2>1, <2>3, FinishRegistered DEF RollBack
    <2>4. QED
      BY <1>2, <2>2, <2>3
  <1>3. ASSUME NEW f \in Calls, NEW g \in Calls, AfterCommitOn(f, g) PROVE Registered'
    BY <1>1, <1>3, AskRegistered DEF AfterCommitOn, Outcomes
  <1>4. ASSUME NEW f \in Calls, NEW g \in Calls, AfterRollback(f, g) PROVE Registered'
    BY <1>1, <1>4, AskRegistered DEF AfterRollback, Outcomes
  <1>5. CASE UNCHANGED vars
    BY <1>1, <1>5, CallbacksUntouched DEF vars
  <1>6. QED
    BY <1>1, <1>2, <1>3, <1>4, <1>5, QuietRegistered, RollBackToRegistered, RunNextRegistered
    DEF Next, AfterCommit

-----------------------------------------------------------------------------

\* Whatever the others throw, every callback that a commit or a rollback took over runs: only
\* a rollback at its level or above drops one, at any depth of nesting
\* (transaction-context.ts, discardFrom; transaction.ts, drain).
THEOREM NoneForgotten == Spec => []DroppedOnlyByRollback
  <1>1. Spec => [](Paired /\ Registered)
    BY PairedInit, PairedStep, RegisteredInit, RegisteredStep, PTL DEF Spec
  <1>2. Paired /\ Registered => DroppedOnlyByRollback
    <2> SUFFICES ASSUME Paired, Registered, NEW k \in DOMAIN asked,
                        status[trx[asked[k].scope]]
                            = (IF asked[k].for = "commit" THEN "kept" ELSE "undone"),
                        toRun[trx[asked[k].scope]] = {}, RanOf(asked[k].call) = {}
                 PROVE  IsDiscarded(k)
      BY DEF DroppedOnlyByRollback, IsDiscarded
    <2>1. ~IsDraining(k) /\ ~HasRun(k) /\ ~IsMoot(k)
      BY DEF IsDraining, HasRun, IsMoot, RanOf
    <2>2. trx[asked[k].scope] \in Calls
      BY AskedTyped DEF Paired, Registered, Accounted, Nesting, Levels, Contexts, Typed
    <2>3. ~IsWaiting(k)
      BY <2>2 DEF IsWaiting, Registered, WaitsWhileOpen
    <2>4. QED
      BY <2>1, <2>3 DEF Registered, Accounted, Fate
  <1>3. QED
    BY <1>1, <1>2, PTL

\* The callbacks of one transaction run in the order in which they were registered, at
\* whatever depth each was (transaction.ts, drain).
THEOREM RunInOrder == Spec => []CallbacksInOrder
  <1>1. Spec => [](Paired /\ Registered)
    BY PairedInit, PairedStep, RegisteredInit, RegisteredStep, PTL DEF Spec
  <1>2. Paired /\ Registered => CallbacksInOrder
    <2> SUFFICES ASSUME Registered, NEW m \in DOMAIN ran, NEW n \in DOMAIN ran, m < n,
                        trx[ran[m].scope] = trx[ran[n].scope]
                 PROVE  AskedAt(ran[m].call) < AskedAt(ran[n].call)
      BY DEF CallbacksInOrder
    <2>1. \A l \in DOMAIN ran : /\ AskedAt(ran[l].call) \in DOMAIN asked
                                /\ asked[AskedAt(ran[l].call)].call = ran[l].call
      BY DEF Registered, RanWasAsked, AskedAt
    <2>2. QED
      BY <2>1 DEF Registered, Ordered
  <1>3. QED
    BY <1>1, <1>2, PTL

-----------------------------------------------------------------------------
(* The tape of a transaction *)

TapeEntries == [savepoint : Nat, by : Calls \cup {None}]

\* k is where the innermost savepoint of level l stands on the tape t.
Stands(t, l, k) ==
    /\ k \in DOMAIN t /\ t[k].savepoint = l
    /\ \A m \in DOMAIN t : t[m].savepoint = l => m <= k

\* Savepoints and writes are entries of a tape, and a savepoint is no write.
LEMMA EntriesTyped ==
    /\ \A l \in Nat : Savepoint(l) \in TapeEntries /\ ~IsWrite(Savepoint(l)) /\ Savepoint(l).savepoint = l
    /\ \A f \in Calls : /\ Written(f) \in TapeEntries /\ IsWrite(Written(f))
                        /\ Written(f).by = f /\ Written(f).savepoint = 0
  BY DEF TapeEntries, Savepoint, Written, IsWrite

\* There is one such place.
LEMMA StandsOnce ==
    ASSUME NEW t \in Seq(TapeEntries), NEW l, NEW k, Stands(t, l, k)
    PROVE  Last(t, l) = k /\ k \in 1..Len(t)
  <1>1. k \in DOMAIN t /\ t[k].savepoint = l /\ \A m \in DOMAIN t : t[m].savepoint = l => m <= k
    BY DEF Stands
  <1>2. \A j \in DOMAIN t :
            t[j].savepoint = l /\ (\A m \in DOMAIN t : t[m].savepoint = l => m <= j) => j = k
    BY <1>1
  <1>3. Last(t, l) = k
    BY <1>1, <1>2 DEF Last
  <1> QED
    BY <1>1, <1>3

\* An entry more: a savepoint of another level stands where it stood.
LEMMA StandsAppended ==
    ASSUME NEW t \in Seq(TapeEntries), NEW e \in TapeEntries
    PROVE  /\ Append(t, e) \in Seq(TapeEntries) /\ Len(Append(t, e)) = Len(t) + 1
           /\ \A m \in DOMAIN t : m \in DOMAIN Append(t, e) /\ Append(t, e)[m] = t[m]
           /\ Append(t, e)[Len(t) + 1] = e
           /\ \A m \in DOMAIN Append(t, e) : m \in DOMAIN t \/ m = Len(t) + 1
           /\ \A l, k : e.savepoint # l /\ Stands(t, l, k) => Stands(Append(t, e), l, k)
           /\ Stands(Append(t, e), e.savepoint, Len(t) + 1)
  <1> DEFINE s == Append(t, e)
  <1>1. /\ s \in Seq(TapeEntries) /\ Len(s) = Len(t) + 1
        /\ \A m \in DOMAIN t : m \in DOMAIN s /\ s[m] = t[m]
        /\ s[Len(t) + 1] = e
        /\ \A m \in DOMAIN s : m \in DOMAIN t \/ m = Len(t) + 1
    OBVIOUS
  <1>2. Len(t) + 1 \in DOMAIN s /\ \A m \in DOMAIN s : m <= Len(t) + 1
    OBVIOUS
  <1> HIDE DEF s
  <1>3. ASSUME NEW l, NEW k, e.savepoint # l, Stands(t, l, k) PROVE Stands(s, l, k)
    BY <1>1, <1>3 DEF Stands
  <1>4. Stands(s, e.savepoint, Len(t) + 1)
    BY <1>1, <1>2 DEF Stands
  <1> QED
    BY <1>1, <1>3, <1>4 DEF s

\* A tape that is cut behind a place.
LEMMA StandsCut ==
    ASSUME NEW t \in Seq(TapeEntries), NEW n \in 1..Len(t)
    PROVE  /\ SubSeq(t, 1, n) \in Seq(TapeEntries) /\ DOMAIN SubSeq(t, 1, n) = 1..n
           /\ \A m \in 1..n : m \in DOMAIN t /\ SubSeq(t, 1, n)[m] = t[m]
           /\ \A l, k : k <= n /\ Stands(t, l, k) => Stands(SubSeq(t, 1, n), l, k)
  <1> DEFINE s == SubSeq(t, 1, n)
  <1>1. /\ s \in Seq(TapeEntries) /\ DOMAIN s = 1..n
        /\ \A m \in 1..n : m \in DOMAIN t /\ s[m] = t[m]
    OBVIOUS
  <1> HIDE DEF s
  <1>2. ASSUME NEW l, NEW k, k <= n, Stands(t, l, k) PROVE Stands(s, l, k)
    BY <1>1, <1>2 DEF Stands
  <1> QED
    BY <1>1, <1>2 DEF s

\* A tape whose savepoints are gone from a place on.
LEMMA StandsReleased ==
    ASSUME NEW t \in Seq(TapeEntries), NEW n \in DOMAIN t
    PROVE  LET s == WithoutSavepoints(t, n) IN
           /\ s \in Seq(TapeEntries) /\ DOMAIN s = DOMAIN t
           /\ \A m \in DOMAIN t : IsWrite(s[m]) <=> IsWrite(t[m])
           /\ \A m \in DOMAIN t : IsWrite(t[m]) => s[m] = t[m]
           /\ \A l, k : l # 0 /\ k < n /\ Stands(t, l, k) => Stands(s, l, k)
  <1> DEFINE s == WithoutSavepoints(t, n)
  <1>1. \A m \in DOMAIN t : s[m] = IF m < n \/ IsWrite(t[m]) THEN t[m] ELSE Savepoint(0)
    BY DEF WithoutSavepoints
  <1>2. \A m \in DOMAIN t : s[m] \in TapeEntries
    BY <1>1, EntriesTyped
  <1>3. s \in Seq(TapeEntries) /\ DOMAIN s = DOMAIN t
    <2>1. Len(t) \in Nat /\ DOMAIN t = 1..Len(t)
      OBVIOUS
    <2>2. s \in [1..Len(t) -> TapeEntries]
      <3>1. s = [m \in 1..Len(t) |-> IF m < n \/ IsWrite(t[m]) THEN t[m] ELSE Savepoint(0)]
        BY <2>1 DEF WithoutSavepoints
      <3> QED
        BY <1>1, <1>2, <2>1, <3>1
    <2> HIDE DEF s
    <2> QED
      BY <2>1, <2>2
  <1> HIDE DEF s
  <1>4. \A m \in DOMAIN t : (IsWrite(s[m]) <=> IsWrite(t[m])) /\ (IsWrite(t[m]) => s[m] = t[m])
    BY <1>1, EntriesTyped
  <1>5. ASSUME NEW l, NEW k, l # 0, k < n, Stands(t, l, k) PROVE Stands(s, l, k)
    <2>1. \A m \in DOMAIN t : s[m].savepoint = l => s[m] = t[m]
      BY <1>1, <1>5, EntriesTyped
    <2>2. s[k] = t[k] /\ k \in DOMAIN t
      BY <1>1, <1>5 DEF Stands
    <2> QED
      BY <1>3, <1>5, <2>1, <2>2 DEF Stands
  <1> QED
    BY <1>3, <1>4, <1>5 DEF s

-----------------------------------------------------------------------------
(* Open savepoints *)

\* A nested call that is open has its savepoint on the tape.
Nestled(g) == status[g] = "open" /\ level[g] > 1

Place(g) == Last(tape[trx[g]], level[g])

\* Of two calls at work, one runs inside the other.
OneLine == \A f, g \in Calls : Busy(f) /\ Busy(g) => f \in inside[g] \/ g \in inside[f]

\* Each call inside another in one transaction is at a level of its own.
Deepening ==
    \A f \in Calls : \A g \in inside[f] \ {f} : trx[g] = trx[f] => level[g] < level[f]

\* The savepoint of an open call divides the writes of its transaction: those inside the call
\* stand behind it.
Divided(g) ==
    /\ Stands(tape[trx[g]], level[g], Place(g))
    /\ \A m \in DOMAIN tape[trx[g]] :
          IsWrite(tape[trx[g]][m]) => (m > Place(g) <=> g \in inside[tape[trx[g]][m].by])

Marked == \A g \in Calls : Nestled(g) => Divided(g)

\* The deeper a call, the later its savepoint.
Stacked ==
    \A g, h \in Calls : Nestled(g) /\ Nestled(h) /\ trx[g] = trx[h] /\ level[g] < level[h]
                            => Place(g) < Place(h)

\* A tape has writes of its own transaction only, and what is durable was written.
Held ==
    /\ \A o \in Calls : \A m \in DOMAIN tape[o] : IsWrite(tape[o][m]) =>
          tape[o][m].by \in wrote /\ trx[tape[o][m].by] = o
    /\ durable \subseteq wrote /\ \A f \in wrote : Born(f)

Traced == OneLine /\ Deepening /\ Marked /\ Stacked /\ Held /\ Atomic

-----------------------------------------------------------------------------
(* The types of the database *)

\* Tapes hold entries, and a level is no greater than the calls around it are many.
Recorded ==
    /\ conn \in [Calls -> Connections]
    /\ tape \in [Calls -> Seq(TapeEntries)]
    /\ durable \subseteq Calls /\ wrote \subseteq Calls
    /\ \A f \in Calls : level[f] <= Cardinality(inside[f])

\* Contexts are finite.
LEMMA ContextsFinite ==
    ASSUME NEW S \in SUBSET Calls
    PROVE  IsFiniteSet(S) /\ Cardinality(S) \in Nat /\ Cardinality(S) <= Cardinality(Calls)
  BY FS_Subset, FS_CardinalityType

\* A context with its new call is one greater than the caller's.
LEMMA EnterDepth ==
    ASSUME Typed, Nesting, Recorded, NEW f \in Calls, NEW context \in SUBSET Calls,
           NEW l \in Nat, NEW o \in Calls, Enter(f, context, l, o), f \notin context,
           l <= Cardinality(context) + 1
    PROVE  \A g \in Calls : level'[g] <= Cardinality(inside'[g])
  <1>1. /\ level'[f] = l /\ inside'[f] = context \cup {f}
        /\ \A g \in Calls \ {f} : level'[g] = level[g] /\ inside'[g] = inside[g]
    BY DEF Enter, Typed
  <1>2. Cardinality(context \cup {f}) = Cardinality(context) + 1
    BY ContextsFinite, FS_AddElement
  <1> QED
    BY <1>1, <1>2 DEF Recorded

\* Every step keeps the types of the database.
LEMMA RecordedStep == Paired /\ Traced /\ Recorded /\ [Next]_vars => Recorded'
  <1> SUFFICES ASSUME Paired, Traced, Recorded, [Next]_vars PROVE Recorded'
    OBVIOUS
  <1> USE DEF Paired
  <1>1. ASSUME NEW f \in Calls, Begin(f) PROVE Recorded'
    <2>1. Enter(f, {}, 1, f) /\ UNCHANGED tape
      BY <1>1 DEF Begin
    <2>2. Cardinality({}) = 0
      BY FS_EmptySet
    <2>3. \A g \in Calls : level'[g] <= Cardinality(inside'[g])
      BY <2>1, <2>2, EnterDepth
    <2> QED
      BY <2>1, <2>3 DEF Recorded, Enter
  <1>2. ASSUME NEW f \in Calls, NEW p \in Calls, BeginInside(f, p) PROVE Recorded'
    <2>1. Enter(f, inside[p], 1, f) /\ UNCHANGED tape
      BY <1>2 DEF BeginInside
    <2>2. /\ inside[p] \in SUBSET Calls
          /\ \A g \in inside[p] : status[g] = "open"
      BY <1>2, RunningInOpen DEF BeginInside
    <2>3. f \notin inside[p] /\ 1 <= Cardinality(inside[p]) + 1
      BY <2>1, <2>2, ContextsFinite DEF Enter
    <2>4. \A g \in Calls : level'[g] <= Cardinality(inside'[g])
      BY <2>1, <2>2, <2>3, EnterDepth
    <2> QED
      BY <2>1, <2>4 DEF Recorded, Enter
  <1>3. ASSUME NEW f \in Calls, NEW p \in Calls, Nest(f, p) PROVE Recorded'
    <2>1. PICK g \in Scopes(p) :
            /\ Enter(f, inside[p], level[g] + 1, trx[g])
            /\ tape' = [tape EXCEPT ![trx[g]] = Append(@, Savepoint(level[g] + 1))]
      BY <1>3 DEF Nest, Nested
    <2>2. /\ inside[p] \in SUBSET Calls
          /\ \A h \in inside[p] : status[h] = "open" /\ Born(h) /\ inside[h] \subseteq inside[p]
      BY <1>3, RunningInOpen DEF Nest
    <2>3. g \in inside[p] /\ g \in Calls /\ trx[g] \in Calls /\ level[g] \in Nat
      BY <2>2 DEF Scopes, Nesting, Levels, Typed
    <2>4. f \notin inside[p] /\ inside[g] \subseteq inside[p]
      BY <2>1, <2>2, <2>3 DEF Enter
    <2>5. level[g] + 1 <= Cardinality(inside[p]) + 1
      <3>1. level[g] <= Cardinality(inside[g])
        BY <2>3 DEF Recorded
      <3>2. Cardinality(inside[g]) <= Cardinality(inside[p])
        BY <2>2, <2>4, ContextsFinite, FS_Subset
      <3>3. Cardinality(inside[g]) \in Nat /\ Cardinality(inside[p]) \in Nat
        BY <2>2, <2>4, ContextsFinite
      <3> QED
        BY <2>3, <3>1, <3>2, <3>3
    <2>6. \A h \in Calls : level'[h] <= Cardinality(inside'[h])
      BY <2>1, <2>2, <2>3, <2>4, <2>5, EnterDepth
    <2>7. tape' \in [Calls -> Seq(TapeEntries)]
      BY <2>1, <2>3, EntriesTyped, StandsAppended DEF Recorded
    <2> QED
      BY <2>1, <2>6, <2>7 DEF Recorded, Enter
  <1>4. ASSUME NEW f \in Calls, Write(f) PROVE Recorded'
    <2>1. /\ tape' = [tape EXCEPT ![trx[f]] = Append(@, Written(f))]
          /\ UNCHANGED <<inside, conn, level, durable>> /\ wrote' = wrote \cup {f}
      BY <1>4 DEF Write, contextVars
    <2>2. tape' \in [Calls -> Seq(TapeEntries)]
      BY <2>1, EntriesTyped, StandsAppended DEF Recorded
    <2> QED
      BY <2>1, <2>2 DEF Recorded
  <1>5. ASSUME NEW f \in Calls, Release(f) \/ RollBackTo(f) PROVE Recorded'
    <2> DEFINE t == tape[trx[f]]
    <2>1. t \in Seq(TapeEntries) /\ Last(t, level[f]) \in 1..Len(t)
      <3>1. Nestled(f) /\ Running(f)
        BY <1>5 DEF Release, RollBackTo, Running, Nestled
      <3>2. trx[f] \in Calls
        BY <3>1, RunningInOpen DEF Nesting, Levels, Born, Nestled
      <3>3. t \in Seq(TapeEntries)
        BY <3>2 DEF Recorded
      <3>4. Stands(t, level[f], Place(f))
        BY <3>1 DEF Traced, Marked, Divided
      <3> QED
        BY <3>3, <3>4, StandsOnce
    <2> HIDE DEF t
    <2>2. /\ SubSeq(t, 1, Last(t, level[f])) \in Seq(TapeEntries)
          /\ WithoutSavepoints(t, Last(t, level[f])) \in Seq(TapeEntries)
      BY <2>1, StandsCut, StandsReleased
    <2>3. \/ tape' = [tape EXCEPT ![trx[f]] = SubSeq(t, 1, Last(t, level[f]))]
          \/ tape' = [tape EXCEPT ![trx[f]] = WithoutSavepoints(t, Last(t, level[f]))]
      BY <1>5 DEF Release, RollBackTo, SavepointTo, t
    <2>4. tape' \in [Calls -> Seq(TapeEntries)]
      BY <2>2, <2>3 DEF Recorded
    <2>5. UNCHANGED <<inside, conn, level, durable, wrote>>
      BY <1>5 DEF Release, RollBackTo, contextVars
    <2> QED
      BY <2>4, <2>5 DEF Recorded
  <1>6. ASSUME NEW f \in Calls, Commit(f) \/ RollBack(f) PROVE Recorded'
    BY <1>6 DEF Commit, RollBack, Finish, contextVars, Recorded
  <1>7. CASE UNCHANGED <<contextVars, databaseVars>>
    BY <1>7 DEF contextVars, databaseVars, Recorded
  <1>8. ASSUME NEW f \in Calls, NEW g \in Calls,
               AfterCommitOn(f, g) \/ AfterCommit(f, g) \/ AfterRollback(f, g) \/ RunNext(f)
        PROVE  UNCHANGED <<contextVars, databaseVars>>
    BY <1>8 DEF AfterCommitOn, AfterCommit, AfterRollback, Ask, RunNext
  <1> QED
    BY <1>1, <1>2, <1>3, <1>4, <1>5, <1>6, <1>7, <1>8 DEF Next, vars

-----------------------------------------------------------------------------
(* Work that is undone leaves the tape, and no other does *)

\* The write of f is on the tape of its transaction.
OnTape(f) == \E k \in DOMAIN tape[trx[f]] : tape[trx[f]][k].by = f

\* At the start nothing is written.
LEMMA TracedInit == Init => Traced /\ Recorded
  <1> SUFFICES ASSUME Init PROVE Traced /\ Recorded
    OBVIOUS
  <1> USE DEF Init
  <1>1. \A f \in Calls : ~Busy(f) /\ ~Nestled(f) /\ inside[f] = {}
    BY DEF Busy, Nestled
  <1>2. OneLine /\ Deepening /\ Marked /\ Stacked
    BY <1>1 DEF OneLine, Deepening, Marked, Stacked
  <1>3. Held /\ Atomic
    BY DEF Held, Atomic
  <1>4. Recorded
    <2>1. Cardinality({}) = 0
      BY FS_EmptySet
    <2>2. <<>> \in Seq(TapeEntries)
      OBVIOUS
    <2> QED
      BY <2>1, <2>2 DEF Recorded
  <1> QED
    BY <1>2, <1>3, <1>4 DEF Traced

\* While f goes on, every call at work is around it.
LEMMA AllAround ==
    ASSUME OneLine, NEW f \in Calls, NEW g \in Calls, Running(f), Busy(g)
    PROVE  g \in inside[f]
  BY DEF OneLine, Running, Busy

\* No new call: they stay in one line, and on their levels.
LEMMA LineStays ==
    ASSUME OneLine, Deepening, UNCHANGED <<inside, level, trx>>,
           \A g \in Calls : Busy(g)' => Busy(g)
    PROVE  OneLine' /\ Deepening'
  BY DEF OneLine, Deepening

\* Who has written is a call that exists, in a transaction whose outermost call exists.
LEMMA WriterBorn ==
    ASSUME Typed, Nesting, Recorded, Held, NEW w \in wrote
    PROVE  /\ w \in Calls /\ Born(w) /\ w \in inside[w] /\ inside[w] \subseteq Calls
           /\ trx[w] \in Calls /\ Born(trx[w]) /\ level[trx[w]] = 1 /\ trx[w] \in inside[w]
           /\ \A g \in inside[w] : Born(g)
  BY DEF Recorded, Held, Nesting, Contexts, Levels, Typed

\* Who stands on a tape has written in its transaction.
LEMMA TapeWriter ==
    ASSUME Recorded, Held, NEW o \in Calls, NEW m \in DOMAIN tape[o]
    PROVE  /\ tape[o][m] \in TapeEntries
           /\ \A w \in Calls : tape[o][m].by = w => IsWrite(tape[o][m]) /\ w \in wrote /\ trx[w] = o
  <1>1. tape[o] \in Seq(TapeEntries)
    BY DEF Recorded
  <1>2. tape[o][m] \in TapeEntries
    BY <1>1, ElementTyped
  <1> QED
    BY <1>2 DEF Held, IsWrite

\* An open nested call has its savepoint on the tape of a transaction that is open.
LEMMA NestledOn ==
    ASSUME Paired, Recorded, Marked, NEW g \in Calls, Nestled(g)
    PROVE  /\ trx[g] \in Calls /\ trx[g] \in inside[g] /\ level[g] \in Nat /\ level[g] > 1
           /\ tape[trx[g]] \in Seq(TapeEntries)
           /\ Stands(tape[trx[g]], level[g], Place(g)) /\ Place(g) \in 1..Len(tape[trx[g]])
           /\ Busy(g) /\ Born(g)
  <1>1. Born(g) /\ Busy(g) /\ level[g] > 1
    BY DEF Nestled, Born, Busy
  <1>2. trx[g] \in Calls /\ trx[g] \in inside[g] /\ level[g] \in Nat
    BY <1>1 DEF Paired, Nesting, Levels, Typed
  <1>3. tape[trx[g]] \in Seq(TapeEntries) /\ Stands(tape[trx[g]], level[g], Place(g))
    BY <1>2 DEF Recorded, Marked, Divided
  <1>4. Place(g) \in 1..Len(tape[trx[g]])
    BY <1>3, StandsOnce
  <1> QED
    BY <1>1, <1>2, <1>3, <1>4

\* What is the same for every writer stays atomic.
LEMMA AtomicStays ==
    ASSUME Atomic, wrote' = wrote, durable' = durable,
           \A w \in wrote : /\ trx'[w] = trx[w] /\ status'[trx[w]] = status[trx[w]]
                            /\ Survives(w)' <=> Survives(w)
                            /\ OnTape(w)' <=> OnTape(w)
    PROVE  Atomic'
  <1>1. \A w \in wrote : (Ended(trx[w]))' <=> Ended(trx[w])
    BY DEF Ended
  <1> QED
    BY <1>1 DEF Atomic, OnTape

\* The caller is the innermost call at work, and f goes one level below what is around it.
Entering(f, context, l, o) ==
    /\ Enter(f, context, l, o)
    /\ \A g \in context : status[g] = "open" /\ inside[g] \subseteq context
    /\ \A g \in Calls : Busy(g) => g \in context
    /\ \A g \in context : trx[g] = o => level[g] < l

\* What such a call changes of the contexts, and what it leaves.
Entered(f, context, l, o) ==
    /\ OneLine' /\ Deepening'
    /\ \A w \in wrote : /\ w # f /\ trx'[w] = trx[w] /\ inside'[w] = inside[w]
                        /\ f \notin inside[w] /\ status'[trx[w]] = status[trx[w]]
                        /\ Survives(w)' <=> Survives(w)
    /\ \A g \in Calls : g # f /\ Nestled(g)' =>
          Nestled(g) /\ trx'[g] = trx[g] /\ level'[g] = level[g] /\ g \in context
    /\ inside'[f] = context \cup {f} /\ level'[f] = l /\ trx'[f] = o /\ f \notin context

\* BEGIN and SAVEPOINT: what is true of the calls that were there.
LEMMA EnterFrame ==
    ASSUME Paired, Recorded, Traced, NEW f \in Calls, NEW context \in SUBSET Calls, NEW l \in Nat,
           NEW o \in Calls, Entering(f, context, l, o)
    PROVE  Entered(f, context, l, o)
  <1> USE DEF Paired, Entering
  <1>1. /\ f \notin context
        /\ \A g \in Calls : Born(g) => /\ g # f /\ f \notin inside[g]
                                       /\ inside'[g] = inside[g] /\ trx'[g] = trx[g]
                                       /\ level'[g] = level[g] /\ status'[g] = status[g]
    BY EnterContexts
  <1>2. /\ inside'[f] = context \cup {f} /\ level'[f] = l /\ trx'[f] = o
        /\ \A g \in Calls \ {f} : /\ inside'[g] = inside[g] /\ status'[g] = status[g]
                                  /\ trx'[g] = trx[g] /\ level'[g] = level[g]
        /\ toRun' = toRun
    BY DEF Enter, Typed, callbackVars
  <1>3. OneLine'
    <2>1. \A g \in Calls : Busy(g)' => g = f \/ (Busy(g) /\ g # f)
      BY <1>2 DEF Busy
    <2>2. f \in inside'[f] /\ \A g \in Calls : Busy(g) => g \in inside'[f]
      BY <1>2
    <2> QED
      BY <1>2, <2>1, <2>2 DEF Traced, OneLine
  <1>4. Deepening'
    <2>1. \A g \in inside[f] : FALSE
      BY <1>1 DEF Enter, Nesting, Contexts, Born
    <2>2. ASSUME NEW h \in Calls \ {f}, NEW g \in inside'[h] \ {h}, trx'[g] = trx'[h]
          PROVE  level'[g] < level'[h]
      <3>1. g \in Calls /\ g \in inside[h] /\ Born(g)
        BY <1>2, <2>2 DEF Nesting, Contexts, Typed
      <3> QED
        BY <1>1, <1>2, <2>2, <3>1 DEF Traced, Deepening
    <2>3. ASSUME NEW g \in context, trx'[g] = o PROVE level'[g] < l
      BY <1>1, <1>2, <2>3
    <2> QED
      BY <1>2, <2>2, <2>3 DEF Deepening
  <1>5. ASSUME NEW w \in wrote
        PROVE  /\ w # f /\ trx'[w] = trx[w] /\ inside'[w] = inside[w] /\ f \notin inside[w]
               /\ status'[trx[w]] = status[trx[w]] /\ (Survives(w)' <=> Survives(w))
    <2>1. /\ w \in Calls /\ Born(w) /\ inside[w] \subseteq Calls
          /\ trx[w] \in Calls /\ Born(trx[w]) /\ \A g \in inside[w] : Born(g)
      BY WriterBorn DEF Traced
    <2>2. /\ w # f /\ trx'[w] = trx[w] /\ inside'[w] = inside[w] /\ f \notin inside[w]
          /\ status'[trx[w]] = status[trx[w]]
      BY <1>1, <2>1
    <2>3. \A g \in inside[w] : trx'[g] = trx[g] /\ status'[g] = status[g]
      BY <1>1, <2>1
    <2> QED
      BY <2>2, <2>3 DEF Survives
  <1>6. ASSUME NEW g \in Calls, g # f, Nestled(g)'
        PROVE  Nestled(g) /\ trx'[g] = trx[g] /\ level'[g] = level[g] /\ g \in context
    BY <1>2, <1>6 DEF Nestled, Busy
  <1> QED
    BY <1>1, <1>2, <1>3, <1>4, <1>5, <1>6 DEF Entered

\* BEGIN puts nothing on a tape.
LEMMA BeginTraced ==
    ASSUME Paired, Recorded, Traced, NEW f \in Calls, NEW context \in SUBSET Calls,
           Enter(f, context, 1, f), UNCHANGED tape,
           \A g \in context : status[g] = "open" /\ inside[g] \subseteq context,
           \A g \in Calls : Busy(g) => g \in context,
           \A g \in context : trx[g] # f
    PROVE  Traced'
  <1>1. /\ OneLine' /\ Deepening'
        /\ \A w \in wrote : /\ w # f /\ trx'[w] = trx[w] /\ inside'[w] = inside[w]
                            /\ f \notin inside[w] /\ status'[trx[w]] = status[trx[w]]
                            /\ Survives(w)' <=> Survives(w)
        /\ \A g \in Calls : g # f /\ Nestled(g)' =>
              Nestled(g) /\ trx'[g] = trx[g] /\ level'[g] = level[g] /\ g \in context
        /\ level'[f] = 1
    <2>1. Entering(f, context, 1, f)
      BY DEF Entering
    <2>2. Entered(f, context, 1, f)
      BY <2>1, EnterFrame
    <2> QED
      BY <2>2 DEF Entered
  <1>2. durable' = durable /\ wrote' = wrote /\ tape' = tape
    BY DEF Enter
  <1>3. \A g \in Calls : Nestled(g)' => g # f
    BY <1>1 DEF Nestled
  <1>4. \A g \in Calls : Nestled(g)' => Nestled(g) /\ Place(g)' = Place(g)
    BY <1>1, <1>2, <1>3 DEF Place
  <1>5. Marked'
    <2> SUFFICES ASSUME NEW g \in Calls, Nestled(g)' PROVE Divided(g)'
      BY DEF Marked
    <2>1. /\ Nestled(g) /\ Divided(g) /\ trx'[g] = trx[g] /\ level'[g] = level[g]
          /\ trx[g] \in Calls
      BY <1>1, <1>3, NestledOn DEF Traced, Marked
    <2>2. \A m \in DOMAIN tape[trx[g]] : IsWrite(tape[trx[g]][m]) =>
              inside'[tape[trx[g]][m].by] = inside[tape[trx[g]][m].by]
      BY <1>1, <2>1 DEF Traced, Held
    <2> QED
      BY <1>2, <1>4, <2>1, <2>2 DEF Divided
  <1>6. Stacked'
    BY <1>1, <1>3, <1>4 DEF Stacked, Traced
  <1>7. Held'
    BY <1>1, <1>2 DEF Held, Traced, Born, Enter, Paired, Typed
  <1>8. Atomic'
    BY <1>1, <1>2, AtomicStays DEF Traced, OnTape
  <1> QED
    BY <1>1, <1>5, <1>6, <1>7, <1>8 DEF Traced

\* SAVEPOINT stands behind all that is on the tape.
LEMMA NestTraced ==
    ASSUME Paired, Recorded, Traced, NEW f \in Calls, NEW context \in SUBSET Calls,
           NEW l \in Nat, NEW o \in Calls, Entering(f, context, l, o), l > 1, o \in context,
           tape' = [tape EXCEPT ![o] = Append(@, Savepoint(l))]
    PROVE  Traced'
  <1> DEFINE t == tape[o]
             s == Append(t, Savepoint(l))
  <1>1. /\ OneLine' /\ Deepening'
        /\ \A w \in wrote : /\ w # f /\ trx'[w] = trx[w] /\ inside'[w] = inside[w]
                            /\ f \notin inside[w] /\ status'[trx[w]] = status[trx[w]]
                            /\ Survives(w)' <=> Survives(w)
        /\ \A g \in Calls : g # f /\ Nestled(g)' =>
              Nestled(g) /\ trx'[g] = trx[g] /\ level'[g] = level[g] /\ g \in context
        /\ level'[f] = l /\ trx'[f] = o
    <2>1. Entered(f, context, l, o)
      BY EnterFrame
    <2> QED
      BY <2>1 DEF Entered
  <1>2. /\ durable' = durable /\ wrote' = wrote /\ Enter(f, context, l, o)
        /\ \A g \in context : trx[g] = o => level[g] < l
    BY DEF Enter, Entering
  <1>3. t \in Seq(TapeEntries) /\ Savepoint(l) \in TapeEntries /\ Savepoint(l).savepoint = l
        /\ ~IsWrite(Savepoint(l)) /\ Savepoint(l).by = None
    BY <1>2, EntriesTyped DEF Recorded, Savepoint
  <1>4. tape'[o] = s /\ \A r \in Calls \ {o} : tape'[r] = tape[r]
    BY <1>2 DEF Recorded
  <1> HIDE DEF t, s
  <1>5. /\ s \in Seq(TapeEntries) /\ Len(s) = Len(t) + 1 /\ Len(t) \in Nat
        /\ \A m \in DOMAIN t : m \in DOMAIN s /\ s[m] = t[m] /\ m <= Len(t)
        /\ s[Len(t) + 1] = Savepoint(l)
        /\ \A m \in DOMAIN s : m \in DOMAIN t \/ m = Len(t) + 1
        /\ \A i, k : l # i /\ Stands(t, i, k) => Stands(s, i, k)
        /\ Stands(s, l, Len(t) + 1)
    BY <1>3, StandsAppended DEF s
  <1>6. \A m \in DOMAIN s : IsWrite(s[m]) => m \in DOMAIN t /\ IsWrite(t[m]) /\ s[m] = t[m]
    BY <1>3, <1>5
  <1>7. \A m \in DOMAIN t : IsWrite(t[m]) => t[m].by \in wrote
    BY <1>2 DEF Traced, Held, t
  <1>8. ASSUME NEW g \in Calls, g # f, Nestled(g)'
        PROVE  /\ Nestled(g) /\ Place(g)' = Place(g) /\ Divided(g)'
               /\ trx[g] = o => Place(g) \in 1..Len(t) /\ level[g] < l
    <2>1. /\ Nestled(g) /\ trx'[g] = trx[g] /\ level'[g] = level[g] /\ Divided(g)
          /\ trx[g] \in Calls /\ Place(g) \in 1..Len(tape[trx[g]]) /\ level[g] \in Nat
      BY <1>1, <1>8, NestledOn DEF Traced, Marked
    <2>2. \A m \in DOMAIN tape[trx[g]] : IsWrite(tape[trx[g]][m]) =>
              inside'[tape[trx[g]][m].by] = inside[tape[trx[g]][m].by]
      BY <1>1, <2>1 DEF Traced, Held
    <2>3. CASE trx[g] # o
      <3>1. tape'[trx'[g]] = tape[trx[g]] /\ Place(g)' = Place(g)
        BY <1>4, <2>1, <2>3 DEF Place
      <3> QED
        BY <2>1, <2>2, <2>3, <3>1 DEF Divided
    <2>4. CASE trx[g] = o
      <3>1. level[g] < l /\ Place(g) \in 1..Len(t)
        BY <1>1, <1>2, <1>8, <2>1, <2>4 DEF t
      <3>2. Stands(t, level[g], Place(g))
        BY <2>1, <2>4 DEF Divided, t
      <3>3. Stands(s, level[g], Place(g))
        BY <1>5, <2>1, <3>1, <3>2
      <3>4. Place(g)' = Place(g)
        <4>1. Last(s, level[g]) = Place(g)
          BY <1>5, <3>3, StandsOnce
        <4> QED
          BY <1>4, <2>1, <2>4, <4>1 DEF Place
      <3>5. \A m \in DOMAIN s : IsWrite(s[m]) => (m > Place(g) <=> g \in inside'[s[m].by])
        BY <1>6, <2>1, <2>2, <2>4 DEF Divided, t
      <3>6. Divided(g)'
        BY <1>4, <2>1, <2>4, <3>3, <3>4, <3>5 DEF Divided
      <3> QED
        BY <2>1, <3>1, <3>4, <3>6
    <2> QED
      BY <2>3, <2>4
  <1>9. Place(f)' = Len(t) + 1 /\ Divided(f)'
    <2>1. Last(s, l) = Len(t) + 1
      BY <1>5, StandsOnce
    <2>2. Place(f)' = Len(t) + 1
      BY <1>1, <1>4, <2>1 DEF Place
    <2>3. \A m \in DOMAIN s : IsWrite(s[m]) =>
              ~ (m > Len(t) + 1) /\ f \notin inside'[s[m].by]
      BY <1>1, <1>5, <1>6, <1>7
    <2>4. tape'[trx'[f]] = s /\ level'[f] = l
      BY <1>1, <1>4
    <2>5. Divided(f)'
      BY <1>5, <2>2, <2>3, <2>4 DEF Divided
    <2> QED
      BY <2>2, <2>5
  <1>10. Marked'
    BY <1>8, <1>9 DEF Marked
  <1>11. Stacked'
    <2> SUFFICES ASSUME NEW g \in Calls, NEW h \in Calls, Nestled(g)', Nestled(h)',
                        trx'[g] = trx'[h], level'[g] < level'[h]
                 PROVE  Place(g)' < Place(h)'
      BY DEF Stacked
    <2>1. CASE g # f /\ h # f
      BY <1>1, <1>8, <2>1 DEF Traced, Stacked
    <2>2. CASE g # f /\ h = f
      BY <1>1, <1>5, <1>8, <1>9, <2>2
    <2>3. CASE g = f
      <3>1. h # f /\ l \in Nat
        BY <1>1, <2>3
      <3>2. level'[h] = level[h] /\ trx[h] = o /\ level[h] \in Nat
        BY <1>1, <2>3, <3>1 DEF Paired, Typed
      <3>3. level[h] < l
        BY <1>8, <3>1, <3>2
      <3> QED
        BY <1>1, <2>3, <3>1, <3>2, <3>3
    <2> QED
      BY <2>1, <2>2, <2>3
  <1>12. Held'
    <2>1. \A r \in Calls : \A m \in DOMAIN tape'[r] : IsWrite(tape'[r][m]) =>
              m \in DOMAIN tape[r] /\ IsWrite(tape[r][m]) /\ tape'[r][m] = tape[r][m]
      BY <1>4, <1>6 DEF t
    <2>2. \A w \in wrote : Born(w)'
      BY <1>1, <1>2, WriterBorn DEF Traced, Paired, Enter, Typed, Born
    <2> QED
      BY <1>1, <1>2, <2>1, <2>2 DEF Held, Traced
  <1>13. Atomic'
    <2>1. ASSUME NEW w \in wrote PROVE OnTape(w)' <=> OnTape(w)
      <3>1. w \in Calls /\ trx'[w] = trx[w] /\ trx[w] \in Calls /\ w # None
        BY <1>1, WriterBorn DEF Traced, Paired
      <3>2. CASE trx[w] # o
        BY <1>4, <3>1, <3>2 DEF OnTape
      <3>3. CASE trx[w] = o
        <4>1. (\E m \in DOMAIN s : s[m].by = w) <=> (\E m \in DOMAIN t : t[m].by = w)
          BY <1>3, <1>5, <3>1
        <4> QED
          BY <1>4, <3>1, <3>3, <4>1 DEF OnTape, t
      <3> QED
        BY <3>2, <3>3
    <2> QED
      BY <1>1, <1>2, <2>1, AtomicStays DEF Traced
  <1> QED
    BY <1>1, <1>10, <1>11, <1>12, <1>13 DEF Traced

\* A write is the last entry, behind the savepoint of every call around it.
LEMMA WriteTraced ==
    ASSUME Paired, Recorded, Traced, NEW f \in Calls, Write(f)
    PROVE  Traced'
  <1> DEFINE o == trx[f]
             t == tape[o]
             s == Append(t, Written(f))
  <1>1. /\ Running(f) /\ f \notin wrote /\ wrote' = wrote \cup {f} /\ durable' = durable
        /\ status' = status /\ inside' = inside /\ level' = level /\ trx' = trx /\ toRun' = toRun
        /\ tape' = [tape EXCEPT ![o] = s]
    BY DEF Write, contextVars, callbackVars
  <1>2. /\ f \in inside[f] /\ inside[f] \subseteq Calls /\ o \in inside[f] /\ o \in Calls
        /\ Born(f) /\ \A g \in inside[f] : status[g] = "open"
    <2>1. /\ f \in inside[f] /\ inside[f] \subseteq Calls
          /\ \A g \in inside[f] : status[g] = "open" /\ Born(g)
      BY <1>1, RunningInOpen DEF Paired
    <2> QED
      BY <2>1 DEF Paired, Nesting, Levels
  <1>3. OneLine' /\ Deepening'
    BY <1>1, LineStays DEF Traced, Busy
  <1>4. /\ t \in Seq(TapeEntries) /\ Written(f) \in TapeEntries
        /\ Written(f).savepoint = 0 /\ Written(f).by = f /\ IsWrite(Written(f))
    BY <1>2, EntriesTyped DEF Recorded
  <1>5. tape'[o] = s /\ \A r \in Calls \ {o} : tape'[r] = tape[r]
    BY <1>1, <1>2 DEF Recorded
  <1> HIDE DEF o, t, s
  <1>6. /\ s \in Seq(TapeEntries) /\ Len(s) = Len(t) + 1 /\ Len(t) \in Nat
        /\ \A m \in DOMAIN t : m \in DOMAIN s /\ s[m] = t[m] /\ m <= Len(t)
        /\ s[Len(t) + 1] = Written(f) /\ Len(t) + 1 \in DOMAIN s
        /\ \A m \in DOMAIN s : m \in DOMAIN t \/ m = Len(t) + 1
        /\ \A i, k : 0 # i /\ Stands(t, i, k) => Stands(s, i, k)
    BY <1>4, StandsAppended DEF s
  <1>7. ASSUME NEW g \in Calls, Nestled(g)
        PROVE  Place(g)' = Place(g) /\ Divided(g)'
    <2>1. /\ Divided(g) /\ trx[g] \in Calls /\ Place(g) \in 1..Len(tape[trx[g]])
          /\ level[g] \in Nat /\ level[g] > 1 /\ Busy(g)
      BY <1>7, NestledOn DEF Traced, Marked
    <2>2. CASE trx[g] # o
      <3>1. tape'[trx'[g]] = tape[trx[g]] /\ Place(g)' = Place(g)
        BY <1>1, <1>5, <2>1, <2>2 DEF Place
      <3> QED
        BY <1>1, <2>1, <2>2, <3>1 DEF Divided
    <2>3. CASE trx[g] = o
      <3>1. Stands(s, level[g], Place(g)) /\ Place(g) \in 1..Len(t)
        BY <1>6, <2>1, <2>3 DEF Divided, t
      <3>2. Place(g)' = Place(g)
        <4>1. Last(s, level[g]) = Place(g)
          BY <1>6, <3>1, StandsOnce
        <4> QED
          BY <1>1, <1>5, <2>3, <4>1 DEF Place
      <3>3. g \in inside[f]
        BY <1>1, <2>1, AllAround DEF Traced
      <3>4. \A m \in DOMAIN s : IsWrite(s[m]) => (m > Place(g) <=> g \in inside[s[m].by])
        <4>1. \A m \in DOMAIN t : IsWrite(t[m]) => (m > Place(g) <=> g \in inside[t[m].by])
          BY <2>1, <2>3 DEF Divided, t
        <4>2. Len(t) + 1 > Place(g)
          BY <1>6, <3>1
        <4> QED
          BY <1>4, <1>6, <3>3, <4>1, <4>2
      <3> QED
        BY <1>1, <1>5, <2>3, <3>1, <3>2, <3>4 DEF Divided
    <2> QED
      BY <2>2, <2>3
  <1>8. Marked' /\ Stacked'
    BY <1>1, <1>7 DEF Traced, Marked, Stacked, Nestled
  <1>9. Held'
    <2>1. ASSUME NEW r \in Calls, NEW m \in DOMAIN tape'[r], IsWrite(tape'[r][m])
          PROVE  tape'[r][m].by \in wrote' /\ trx'[tape'[r][m].by] = r
      <3>1. CASE r # o
        BY <1>1, <1>5, <2>1, <3>1 DEF Traced, Held
      <3>2. CASE r = o
        BY <1>1, <1>4, <1>5, <1>6, <2>1, <3>2 DEF Traced, Held, t, o
      <3> QED
        BY <3>1, <3>2
    <2>2. durable' \subseteq wrote' /\ \A w \in wrote' : Born(w)'
      BY <1>1, <1>2 DEF Traced, Held, Born
    <2> QED
      BY <2>1, <2>2 DEF Held
  <1>10. Atomic'
    <2> SUFFICES ASSUME NEW w \in wrote'
                 PROVE  /\ ~Ended(trx[w])' => (Survives(w)' <=> OnTape(w)')
                        /\ w \in durable <=> status[trx[w]] = "kept" /\ Survives(w)'
      BY <1>1 DEF Atomic, OnTape, Ended, Survives
    <2>1. CASE w = f
      <3>1. Survives(f)' /\ status[trx[f]] = "open"
        BY <1>1, <1>2 DEF Survives, o
      <3>2. OnTape(f)'
        BY <1>1, <1>4, <1>5, <1>6 DEF OnTape, o
      <3>3. f \notin durable
        BY <1>1 DEF Traced, Held
      <3> QED
        BY <2>1, <3>1, <3>2, <3>3
    <2>2. CASE w # f
      <3>1. w \in wrote /\ w \in Calls /\ trx[w] \in Calls
        BY <1>1, <2>2, WriterBorn DEF Traced, Paired
      <3>2. OnTape(w)' <=> OnTape(w)
        <4>1. CASE trx[w] # o
          BY <1>1, <1>5, <3>1, <4>1 DEF OnTape
        <4>2. CASE trx[w] = o
          <5>1. (\E m \in DOMAIN s : s[m].by = w) <=> (\E m \in DOMAIN t : t[m].by = w)
            BY <1>4, <1>6, <2>2
          <5> QED
            BY <1>1, <1>5, <4>2, <5>1 DEF OnTape, t
        <4> QED
          BY <4>1, <4>2
      <3>3. Survives(w)' <=> Survives(w)
        BY <1>1 DEF Survives
      <3>4. Ended(trx[w])' <=> Ended(trx[w])
        BY <1>1 DEF Ended
      <3> QED
        BY <3>1, <3>2, <3>3, <3>4 DEF Traced, Atomic, OnTape
    <2> QED
      BY <2>1, <2>2
  <1> QED
    BY <1>3, <1>8, <1>9, <1>10 DEF Traced

\* The end of a nested call: what stays of the open calls around it.
LEMMA EndFrame ==
    ASSUME Paired, Recorded, Traced, NEW f \in Calls, Running(f), NEW how \in {"kept", "undone"},
           status' = [status EXCEPT ![f] = how], UNCHANGED contextVars,
           \A g \in Calls \ {f} : toRun'[g] = toRun[g]
    PROVE  /\ OneLine' /\ Deepening' /\ status[f] = "open" /\ status[trx[f]] = "open"
           /\ \A g \in Calls \ {f} : status'[g] = status[g]
           /\ \A g \in Calls : Nestled(g)' =>
                 /\ Nestled(g) /\ g # f /\ g \in inside[f]
                 /\ trx[g] = trx[f] => level[g] < level[f] /\ (level[f] > 1 => Place(g) < Place(f))
           /\ \A w \in wrote : f \notin inside[w] \/ trx[f] # trx[w] \/ how = "kept"
                 => (Survives(w)' <=> Survives(w))
           /\ \A w \in wrote : f \in inside[w] /\ trx[f] = trx[w] /\ how = "undone"
                 => ~Survives(w)'
  <1> USE DEF Paired
  <1>1. /\ status[f] = "open" /\ status'[f] = how
        /\ \A g \in Calls \ {f} : status'[g] = status[g]
        /\ inside' = inside /\ level' = level /\ trx' = trx
    BY DEF Running, Typed, contextVars
  <1>2. status[trx[f]] = "open"
    BY <1>1, RunningInOpen DEF Nesting, Levels, Born
  <1>3. \A g \in Calls : Busy(g)' => Busy(g)
    BY <1>1 DEF Busy
  <1>4. OneLine' /\ Deepening'
    BY <1>1, <1>3, LineStays DEF Traced
  <1>5. ASSUME NEW g \in Calls, Nestled(g)'
        PROVE  /\ Nestled(g) /\ g # f /\ g \in inside[f]
               /\ trx[g] = trx[f] => level[g] < level[f] /\ (level[f] > 1 => Place(g) < Place(f))
    <2>1. Nestled(g) /\ g # f /\ Busy(g)
      BY <1>1, <1>5 DEF Nestled, Busy
    <2>2. g \in inside[f]
      BY <2>1, AllAround DEF Traced
    <2>3. trx[g] = trx[f] => level[g] < level[f]
      BY <2>1, <2>2 DEF Traced, Deepening
    <2>4. level[f] > 1 => Nestled(f)
      BY <1>1 DEF Nestled
    <2> QED
      BY <2>1, <2>2, <2>3, <2>4 DEF Traced, Stacked
  <1>6. ASSUME NEW w \in wrote PROVE inside[w] \subseteq Calls
    BY WriterBorn DEF Traced
  <1>7. ASSUME NEW w \in wrote, f \notin inside[w] \/ trx[f] # trx[w] \/ how = "kept"
        PROVE  Survives(w)' <=> Survives(w)
    <2>1. \A g \in inside[w] : trx[g] = trx[w] =>
              (status'[g] # "undone" <=> status[g] # "undone")
      BY <1>1, <1>6, <1>7
    <2> QED
      BY <1>1, <2>1 DEF Survives
  <1>8. \A w \in wrote : f \in inside[w] /\ trx[f] = trx[w] /\ how = "undone" => ~Survives(w)'
    BY <1>1 DEF Survives
  <1> QED
    BY <1>1, <1>2, <1>4, <1>5, <1>7, <1>8

\* The outermost call of a writer's transaction ends with no savepoint.
LEMMA OutermostOf ==
    ASSUME Paired, Recorded, Traced, NEW f \in Calls, NEW w \in wrote, Born(f)
    PROVE  (level[f] > 1 => trx[w] # f) /\ (level[f] = 1 => trx[f] = f)
  BY WriterBorn DEF Paired, Nesting, Levels, Traced, Typed

\* RELEASE takes savepoints from the tape, and no write.
LEMMA ReleaseTraced ==
    ASSUME Paired, Recorded, Traced, NEW f \in Calls, Release(f)
    PROVE  Traced'
  <1> DEFINE o == trx[f]
             t == tape[o]
             n == Place(f)
             s == WithoutSavepoints(t, n)
  <1>1. /\ Running(f) /\ level[f] > 1 /\ status' = [status EXCEPT ![f] = "kept"]
        /\ UNCHANGED contextVars /\ toRun' = toRun /\ wrote' = wrote /\ durable' = durable
        /\ tape' = [tape EXCEPT ![o] = s]
    BY DEF Release, callbackVars, Place
  <1>2. inside' = inside /\ level' = level /\ trx' = trx
    BY <1>1 DEF contextVars
  <1>3. /\ OneLine' /\ Deepening' /\ status[f] = "open" /\ status[trx[f]] = "open"
        /\ \A g \in Calls \ {f} : status'[g] = status[g]
        /\ \A g \in Calls : Nestled(g)' =>
              /\ Nestled(g) /\ g # f /\ g \in inside[f]
              /\ trx[g] = trx[f] => level[g] < level[f] /\ (level[f] > 1 => Place(g) < Place(f))
        /\ \A w \in wrote : Survives(w)' <=> Survives(w)
    BY <1>1, EndFrame
  <1>4. o \in Calls /\ t \in Seq(TapeEntries) /\ n \in DOMAIN t
    <2>1. Nestled(f)
      BY <1>1, <1>3 DEF Nestled
    <2> QED
      BY <2>1, NestledOn DEF Traced
  <1>5. tape'[o] = s /\ \A r \in Calls \ {o} : tape'[r] = tape[r]
    BY <1>1, <1>4 DEF Recorded
  <1>6. /\ s \in Seq(TapeEntries) /\ DOMAIN s = DOMAIN t
        /\ \A m \in DOMAIN t : IsWrite(s[m]) <=> IsWrite(t[m])
        /\ \A m \in DOMAIN t : IsWrite(t[m]) => s[m] = t[m]
        /\ \A l, k : l # 0 /\ k < n /\ Stands(t, l, k) => Stands(s, l, k)
    BY <1>4, StandsReleased
  <1> HIDE DEF o, t, n, s
  <1>7. ASSUME NEW g \in Calls, Nestled(g)'
        PROVE  Place(g)' = Place(g) /\ Divided(g)'
    <2>1. /\ Divided(g) /\ trx[g] \in Calls /\ level[g] \in Nat /\ level[g] > 1
      BY <1>3, <1>7, NestledOn DEF Traced, Marked
    <2>2. CASE trx[g] # o
      <3>1. tape'[trx'[g]] = tape[trx[g]] /\ Place(g)' = Place(g)
        BY <1>2, <1>5, <2>1, <2>2 DEF Place
      <3> QED
        BY <1>2, <2>1, <2>2, <3>1 DEF Divided
    <2>3. CASE trx[g] = o
      <3>1. Stands(t, level[g], Place(g)) /\ Place(g) < n
        BY <1>1, <1>3, <1>7, <2>1, <2>3 DEF Divided, t, o, n
      <3>2. Stands(s, level[g], Place(g))
        BY <1>6, <2>1, <3>1
      <3>3. Place(g)' = Place(g)
        <4>1. Last(s, level[g]) = Place(g)
          BY <1>6, <3>2, StandsOnce
        <4> QED
          BY <1>2, <1>5, <2>3, <4>1 DEF Place
      <3>4. \A m \in DOMAIN s : IsWrite(s[m]) => (m > Place(g) <=> g \in inside[s[m].by])
        BY <1>6, <2>1, <2>3 DEF Divided, t
      <3> QED
        BY <1>2, <1>5, <2>3, <3>2, <3>3, <3>4 DEF Divided
    <2> QED
      BY <2>2, <2>3
  <1>8. Marked' /\ Stacked'
    BY <1>2, <1>3, <1>7 DEF Traced, Marked, Stacked
  <1>9. Held'
    <2>1. \A r \in Calls : \A m \in DOMAIN tape'[r] : IsWrite(tape'[r][m]) =>
              m \in DOMAIN tape[r] /\ IsWrite(tape[r][m]) /\ tape'[r][m] = tape[r][m]
      BY <1>5, <1>6 DEF t
    <2>2. \A w \in wrote : Born(w)'
      BY <1>1, WriterBorn DEF Traced, Paired, Typed, Born
    <2> QED
      BY <1>1, <1>2, <2>1, <2>2 DEF Held, Traced
  <1>10. Atomic'
    <2>1. ASSUME NEW w \in wrote
          PROVE  status'[trx[w]] = status[trx[w]] /\ (OnTape(w)' <=> OnTape(w))
      <3>1. w \in Calls /\ trx[w] \in Calls
        BY WriterBorn DEF Traced, Paired
      <3>2. trx[w] # f
        BY <1>1, <1>3, OutermostOf DEF Born
      <3>3. CASE trx[w] # o
        BY <1>2, <1>3, <1>5, <3>1, <3>2, <3>3 DEF OnTape
      <3>4. CASE trx[w] = o
        <4>1. \A m \in DOMAIN t : s[m].by = w <=> t[m].by = w
          BY <1>4, <1>6, <3>1 DEF IsWrite
        <4> QED
          BY <1>2, <1>3, <1>5, <1>6, <3>1, <3>2, <3>4, <4>1 DEF OnTape, t
      <3> QED
        BY <3>3, <3>4
    <2> QED
      BY <1>1, <1>2, <1>3, <2>1, AtomicStays DEF Traced
  <1> QED
    BY <1>3, <1>8, <1>9, <1>10 DEF Traced

\* ROLLBACK TO SAVEPOINT takes the writes made inside the call from the tape, and no other.
LEMMA RollBackToTraced ==
    ASSUME Paired, Recorded, Traced, NEW f \in Calls, RollBackTo(f)
    PROVE  Traced'
  <1> DEFINE o == trx[f]
             t == tape[o]
             n == Place(f)
             s == SubSeq(t, 1, n)
  <1>1. /\ Running(f) /\ level[f] > 1 /\ status' = [status EXCEPT ![f] = "undone"]
        /\ UNCHANGED contextVars /\ toRun' = toRun /\ wrote' = wrote /\ durable' = durable
        /\ tape' = [tape EXCEPT ![o] = s]
    BY DEF RollBackTo, SavepointTo, Place
  <1>2. inside' = inside /\ level' = level /\ trx' = trx
    BY <1>1 DEF contextVars
  <1>3. /\ OneLine' /\ Deepening' /\ status[f] = "open" /\ status[trx[f]] = "open"
        /\ \A g \in Calls \ {f} : status'[g] = status[g]
        /\ \A g \in Calls : Nestled(g)' =>
              /\ Nestled(g) /\ g # f /\ g \in inside[f]
              /\ trx[g] = trx[f] => level[g] < level[f] /\ (level[f] > 1 => Place(g) < Place(f))
        /\ \A w \in wrote : f \notin inside[w] \/ trx[f] # trx[w]
              => (Survives(w)' <=> Survives(w))
        /\ \A w \in wrote : f \in inside[w] /\ trx[f] = trx[w] => ~Survives(w)'
    BY <1>1, EndFrame
  <1>4. /\ o \in Calls /\ t \in Seq(TapeEntries) /\ n \in 1..Len(t)
        /\ \A m \in DOMAIN t : IsWrite(t[m]) => (m > n <=> f \in inside[t[m].by])
    <2>1. Nestled(f)
      BY <1>1, <1>3 DEF Nestled
    <2> QED
      BY <2>1, NestledOn DEF Traced, Marked, Divided
  <1>5. tape'[o] = s /\ \A r \in Calls \ {o} : tape'[r] = tape[r]
    BY <1>1, <1>4 DEF Recorded
  <1>6. /\ s \in Seq(TapeEntries) /\ DOMAIN s = 1..n
        /\ \A m \in 1..n : m \in DOMAIN t /\ s[m] = t[m]
        /\ \A l, k : k <= n /\ Stands(t, l, k) => Stands(s, l, k)
    BY <1>4, StandsCut
  <1>7. n \in Nat /\ DOMAIN t = 1..Len(t) /\ Len(t) \in Nat
    BY <1>4
  <1> HIDE DEF o, t, n, s
  <1>8. ASSUME NEW g \in Calls, Nestled(g)'
        PROVE  Place(g)' = Place(g) /\ Divided(g)'
    <2>1. /\ Divided(g) /\ trx[g] \in Calls /\ level[g] \in Nat /\ level[g] > 1
          /\ Place(g) \in 1..Len(tape[trx[g]])
      BY <1>3, <1>8, NestledOn DEF Traced, Marked
    <2>2. CASE trx[g] # o
      <3>1. tape'[trx'[g]] = tape[trx[g]] /\ Place(g)' = Place(g)
        BY <1>2, <1>5, <2>1, <2>2 DEF Place
      <3> QED
        BY <1>2, <2>1, <2>2, <3>1 DEF Divided
    <2>3. CASE trx[g] = o
      <3>1. Stands(t, level[g], Place(g)) /\ Place(g) <= n
        BY <1>1, <1>3, <1>7, <1>8, <2>1, <2>3 DEF Divided, t, o, n
      <3>2. Stands(s, level[g], Place(g))
        BY <1>6, <3>1
      <3>3. Place(g)' = Place(g)
        <4>1. Last(s, level[g]) = Place(g)
          BY <1>6, <3>2, StandsOnce
        <4> QED
          BY <1>2, <1>5, <2>3, <4>1 DEF Place
      <3>4. \A m \in DOMAIN s : IsWrite(s[m]) => (m > Place(g) <=> g \in inside[s[m].by])
        BY <1>6, <2>1, <2>3 DEF Divided, t
      <3> QED
        BY <1>2, <1>5, <2>3, <3>2, <3>3, <3>4 DEF Divided
    <2> QED
      BY <2>2, <2>3
  <1>9. Marked' /\ Stacked'
    BY <1>2, <1>3, <1>8 DEF Traced, Marked, Stacked
  <1>10. Held'
    <2>1. \A r \in Calls : \A m \in DOMAIN tape'[r] :
              m \in DOMAIN tape[r] /\ tape'[r][m] = tape[r][m]
      BY <1>5, <1>6 DEF t
    <2>2. \A w \in wrote : Born(w)'
      BY <1>1, WriterBorn DEF Traced, Paired, Typed, Born
    <2> QED
      BY <1>1, <1>2, <2>1, <2>2 DEF Held, Traced
  <1>11. Atomic'
    <2> SUFFICES ASSUME NEW w \in wrote
                 PROVE  /\ ~Ended(trx[w])' => (Survives(w)' <=> OnTape(w)')
                        /\ w \in durable <=> status'[trx[w]] = "kept" /\ Survives(w)'
      BY <1>1, <1>2 DEF Atomic, OnTape, Ended, Survives
    <2>1. /\ w \in Calls /\ trx[w] \in Calls /\ trx[w] # f /\ status'[trx[w]] = status[trx[w]]
      <3>1. w \in Calls /\ trx[w] \in Calls
        BY WriterBorn DEF Traced, Paired
      <3>2. trx[w] # f
        BY <1>1, <1>3, OutermostOf DEF Born
      <3> QED
        BY <1>3, <3>1, <3>2
    <2>2. /\ ~Ended(trx[w]) => (Survives(w) <=> OnTape(w))
          /\ w \in durable <=> status[trx[w]] = "kept" /\ Survives(w)
          /\ Ended(trx[w])' <=> Ended(trx[w])
      BY <1>2, <2>1 DEF Traced, Atomic, OnTape, Ended
    <2>3. CASE trx[w] # o
      <3>1. OnTape(w)' <=> OnTape(w)
        BY <1>2, <1>5, <2>1, <2>3 DEF OnTape
      <3>2. Survives(w)' <=> Survives(w)
        BY <1>3, <2>3 DEF o
      <3> QED
        BY <2>1, <2>2, <3>1, <3>2
    <2>4. CASE trx[w] = o
      <3>1. \A m \in DOMAIN t : t[m].by = w => IsWrite(t[m])
        BY <2>1 DEF IsWrite
      <3>2. CASE f \notin inside[w]
        <4>1. Survives(w)' <=> Survives(w)
          BY <1>3, <3>2
        <4>2. \A m \in DOMAIN t : t[m].by = w => m \in 1..n
          BY <1>4, <1>7, <3>1, <3>2
        <4>3. (\E m \in DOMAIN s : s[m].by = w) <=> (\E m \in DOMAIN t : t[m].by = w)
          BY <1>6, <4>2
        <4>4. OnTape(w)' <=> OnTape(w)
          BY <1>2, <1>5, <2>4, <4>3 DEF OnTape, t
        <4> QED
          BY <2>1, <2>2, <4>1, <4>4
      <3>3. CASE f \in inside[w]
        <4>1. ~Survives(w)' /\ status[trx[w]] = "open"
          BY <1>3, <2>4, <3>3 DEF o
        <4>2. \A m \in 1..n : t[m].by # w
          BY <1>4, <1>6, <1>7, <3>1, <3>3
        <4>3. ~OnTape(w)'
          BY <1>2, <1>5, <1>6, <2>4, <4>2 DEF OnTape
        <4> QED
          BY <2>1, <2>2, <4>1, <4>3
      <3> QED
        BY <3>2, <3>3
    <2> QED
      BY <2>3, <2>4
  <1> QED
    BY <1>3, <1>9, <1>10, <1>11 DEF Traced

\* The end of the outermost call: its writes are durable, or none is.
LEMMA FinishTraced ==
    ASSUME Paired, Recorded, Traced, NEW f \in Calls, Commit(f) \/ RollBack(f)
    PROVE  Traced'
  <1> DEFINE onIt == {g \in Calls : \E k \in DOMAIN tape[f] : tape[f][k].by = g}
  <1>1. /\ Running(f) /\ level[f] = 1 /\ UNCHANGED contextVars /\ wrote' = wrote /\ tape' = tape
        /\ \A g \in Calls \ {f} : toRun'[g] = toRun[g]
    BY DEF Commit, RollBack, Finish, Paired, Typed
  <1>2. PICK how \in {"kept", "undone"} :
            /\ status' = [status EXCEPT ![f] = how]
            /\ durable' = IF how = "kept" THEN durable \cup onIt ELSE durable
    BY DEF Commit, RollBack, Finish
  <1>3. inside' = inside /\ level' = level /\ trx' = trx
    BY <1>1 DEF contextVars
  <1>4. /\ OneLine' /\ Deepening' /\ status[f] = "open"
        /\ \A g \in Calls \ {f} : status'[g] = status[g]
        /\ \A g \in Calls : Nestled(g)' => Nestled(g)
        /\ \A w \in wrote : trx[f] # trx[w] \/ how = "kept" => (Survives(w)' <=> Survives(w))
    BY <1>1, <1>2, EndFrame
  <1>5. status'[f] = how /\ trx[f] = f
    BY <1>1, <1>2, <1>4 DEF Paired, Typed, Nesting, Levels, Born
  <1>6. \A w \in onIt : w \in wrote /\ trx[w] = f
    BY TapeWriter DEF Traced
  <1>7. \A w \in wrote : trx[w] = f => (w \in onIt <=> OnTape(w))
    BY WriterBorn DEF Traced, Paired, OnTape
  <1> HIDE DEF onIt
  <1>8. Marked' /\ Stacked'
    BY <1>1, <1>3, <1>4 DEF Traced, Marked, Stacked, Divided, Place
  <1>9. Held'
    <2>1. \A w \in wrote : Born(w)'
      BY <1>1, <1>4, <1>5, WriterBorn DEF Traced, Paired, Born
    <2>2. durable' \subseteq wrote
      BY <1>2, <1>6 DEF Traced, Held
    <2> QED
      BY <1>1, <1>3, <2>1, <2>2 DEF Traced, Held
  <1>10. Atomic'
    <2> SUFFICES ASSUME NEW w \in wrote
                 PROVE  /\ ~Ended(trx[w])' => (Survives(w)' <=> OnTape(w)')
                        /\ w \in durable' <=> status'[trx[w]] = "kept" /\ Survives(w)'
      BY <1>1, <1>3 DEF Atomic, OnTape, Ended, Survives
    <2>1. /\ ~Ended(trx[w]) => (Survives(w) <=> OnTape(w))
          /\ w \in durable <=> status[trx[w]] = "kept" /\ Survives(w)
          /\ trx[w] \in Calls /\ (OnTape(w)' <=> OnTape(w))
      BY <1>1, <1>3, WriterBorn DEF Traced, Atomic, OnTape, Paired
    <2>2. CASE trx[w] # f
      <3>1. status'[trx[w]] = status[trx[w]] /\ (Survives(w)' <=> Survives(w))
        BY <1>4, <1>5, <2>1, <2>2
      <3>2. w \in durable' <=> w \in durable
        BY <1>2, <1>6, <2>2
      <3>3. Ended(trx[w])' <=> Ended(trx[w])
        BY <1>3, <3>1 DEF Ended
      <3> QED
        BY <2>1, <3>1, <3>2, <3>3
    <2>3. CASE trx[w] = f
      <3>1. Ended(trx[w])' /\ ~Ended(trx[w]) /\ w \notin durable
        BY <1>3, <1>4, <1>5, <2>1, <2>3 DEF Ended
      <3>2. CASE how = "kept"
        <4>1. w \in durable' <=> OnTape(w)
          BY <1>2, <1>7, <2>3, <3>1, <3>2
        <4>2. Survives(w)' <=> OnTape(w)
          BY <1>4, <2>1, <3>1, <3>2
        <4> QED
          BY <1>5, <2>3, <3>1, <3>2, <4>1, <4>2
      <3>3. CASE how = "undone"
        BY <1>2, <1>5, <2>3, <3>1, <3>3
      <3> QED
        BY <3>2, <3>3
    <2> QED
      BY <2>2, <2>3
  <1> QED
    BY <1>4, <1>8, <1>9, <1>10 DEF Traced

\* Nothing that only callbacks read or change touches what was written.
LEMMA CallbacksTraced ==
    ASSUME Paired, Recorded, Traced, UNCHANGED <<status, contextVars, databaseVars>>,
           \A g \in Calls : toRun'[g] \subseteq toRun[g]
    PROVE  Traced'
  <1>1. /\ status' = status /\ inside' = inside /\ level' = level /\ trx' = trx
        /\ tape' = tape /\ durable' = durable /\ wrote' = wrote
    BY DEF contextVars, databaseVars
  <1>2. \A g \in Calls : Busy(g)' => Busy(g)
    BY <1>1 DEF Busy
  <1>3. OneLine' /\ Deepening'
    BY <1>1, <1>2, LineStays DEF Traced
  <1>4. Marked' /\ Stacked' /\ Held'
    BY <1>1 DEF Traced, Marked, Stacked, Held, Divided, Nestled, Place, Born
  <1>5. Atomic'
    BY <1>1 DEF Traced, Atomic, Ended, Survives
  <1> QED
    BY <1>3, <1>4, <1>5 DEF Traced

\* Every step keeps the writes where their calls stand.
LEMMA TracedStep == Paired /\ Recorded /\ Traced /\ [Next]_vars => Traced'
  <1> SUFFICES ASSUME Paired, Recorded, Traced, [Next]_vars PROVE Traced'
    OBVIOUS
  <1>1. ASSUME NEW f \in Calls, Begin(f) PROVE Traced'
    <2>1. Enter(f, {}, 1, f) /\ UNCHANGED tape /\ \A g \in Calls : status[g] = "unborn"
      BY <1>1 DEF Begin
    <2>2. \A g \in Calls : ~Busy(g)
      BY <2>1 DEF Paired, Nesting, OpenAround, Ended, Busy
    <2> QED
      BY <2>1, <2>2, BeginTraced
  <1>2. ASSUME NEW f \in Calls, NEW p \in Calls, BeginInside(f, p) PROVE Traced'
    <2>1. Enter(f, inside[p], 1, f) /\ UNCHANGED tape /\ Running(p)
      BY <1>2 DEF BeginInside
    <2>2. /\ inside[p] \in SUBSET Calls
          /\ \A g \in inside[p] : status[g] = "open" /\ Born(g) /\ inside[g] \subseteq inside[p]
      BY <2>1, RunningInOpen DEF Paired
    <2>3. \A g \in Calls : Busy(g) => g \in inside[p]
      BY <2>1, AllAround DEF Traced
    <2>4. \A g \in inside[p] : trx[g] # f
      <3>1. ~Born(f)
        BY <2>1 DEF Enter, Born
      <3>2. \A g \in inside[p] : Born(trx[g])
        BY <2>2 DEF Paired, Nesting, Levels, Contexts
      <3> QED
        BY <3>1, <3>2
    <2> QED
      BY <2>1, <2>2, <2>3, <2>4, BeginTraced
  <1>3. ASSUME NEW f \in Calls, NEW p \in Calls, Nest(f, p) PROVE Traced'
    <2>1. PICK g \in Scopes(p) :
            /\ conn[g] = conn[f] /\ Enter(f, inside[p], level[g] + 1, trx[g])
            /\ tape' = [tape EXCEPT ![trx[g]] = Append(@, Savepoint(level[g] + 1))]
      BY <1>3 DEF Nest, Nested
    <2>2. /\ inside[p] \in SUBSET Calls
          /\ \A h \in inside[p] : status[h] = "open" /\ Born(h) /\ inside[h] \subseteq inside[p]
      BY <1>3, RunningInOpen DEF Nest, Paired
    <2>3. \A h \in Calls : Busy(h) => h \in inside[p]
      BY <1>3, AllAround DEF Nest, Traced
    <2>4. /\ g \in inside[p] /\ g \in Calls /\ level[g] \in Nat
          /\ \A h \in inside[p] : conn[h] = conn[g] => level[h] <= level[g]
      BY <2>2 DEF Scopes, Paired, Typed
    <2>5. /\ trx[g] \in inside[g] /\ trx[trx[g]] = trx[g] /\ level[trx[g]] = 1
          /\ conn[trx[g]] = conn[g]
      BY <2>2, <2>4 DEF Paired, Nesting, Levels
    <2>6. trx[g] \in inside[p] /\ trx[g] \in Calls /\ level[g] + 1 \in Nat
      BY <2>2, <2>4, <2>5
    <2>7. level[g] + 1 > 1
      BY <2>4, <2>5, <2>6
    <2>8. \A h \in inside[p] : trx[h] = trx[g] => level[h] < level[g] + 1
      <3>1. ASSUME NEW h \in inside[p], trx[h] = trx[g] PROVE level[h] < level[g] + 1
        <4>1. h \in Calls /\ level[h] \in Nat /\ conn[trx[h]] = conn[h]
          BY <2>2 DEF Paired, Typed, Nesting, Levels
        <4> QED
          BY <2>4, <2>5, <3>1, <4>1
      <3> QED
        BY <3>1
    <2>9. Entering(f, inside[p], level[g] + 1, trx[g])
      BY <2>1, <2>2, <2>3, <2>8 DEF Entering
    <2> QED
      BY <2>1, <2>2, <2>6, <2>7, <2>9, NestTraced
  <1>4. ASSUME NEW f \in Calls, NEW g \in Calls,
               AfterCommitOn(f, g) \/ AfterCommit(f, g) \/ AfterRollback(f, g)
        PROVE  Traced'
    BY <1>4, CallbacksTraced DEF AfterCommitOn, AfterCommit, AfterRollback, Ask
  <1>5. ASSUME NEW f \in Calls, RunNext(f) PROVE Traced'
    <2>1. /\ UNCHANGED <<status, contextVars, databaseVars>>
          /\ \A g \in Calls : toRun'[g] \subseteq toRun[g]
      BY <1>5 DEF RunNext, Rest, Paired, Typed
    <2> QED
      BY <2>1, CallbacksTraced
  <1>6. CASE UNCHANGED vars
    BY <1>6, CallbacksTraced DEF vars, callbackVars
  <1> QED
    BY <1>1, <1>2, <1>3, <1>4, <1>5, <1>6, WriteTraced, ReleaseTraced, RollBackToTraced,
       FinishTraced DEF Next

-----------------------------------------------------------------------------

\* All that the proofs above keep together.
LEMMA AllTraced == Spec => [](Paired /\ Recorded /\ Traced)
  <1>1. Init => Paired /\ Recorded /\ Traced
    BY PairedInit, TracedInit
  <1>2. Paired /\ Recorded /\ Traced /\ [Next]_vars => (Paired /\ Recorded /\ Traced)'
    BY PairedStep, RecordedStep, TracedStep
  <1> QED
    BY <1>1, <1>2, PTL DEF Spec

\* The contexts, the tapes and the callbacks keep their types, and the levels of a transaction
\* never outgrow the calls that are made (transaction.ts, transaction-context.ts).
THEOREM TransactionTypes == Spec => []TypeOK
  <1>1. Paired /\ Recorded => TypeOK
    <2> SUFFICES ASSUME Paired, Recorded PROVE TypeOK
      OBVIOUS
    <2>1. \A f \in Calls : level[f] \in 0..Cardinality(Calls)
      <3> SUFFICES ASSUME NEW f \in Calls PROVE level[f] \in 0..Cardinality(Calls)
        OBVIOUS
      <3>1. level[f] \in Nat /\ level[f] <= Cardinality(inside[f]) /\ inside[f] \in SUBSET Calls
        BY DEF Paired, Typed, Recorded
      <3>2. /\ Cardinality(inside[f]) \in Nat /\ Cardinality(Calls) \in Nat
            /\ Cardinality(inside[f]) <= Cardinality(Calls)
        BY <3>1, ContextsFinite
      <3> QED
        BY <3>1, <3>2
    <2>2. level \in [Calls -> 0..Cardinality(Calls)]
      BY <2>1 DEF Paired, Typed
    <2> QED
      BY <2>2 DEF TypeOK, Paired, Typed, Recorded, TapeEntries
  <1> QED
    BY <1>1, AllTraced, PTL

\* A rollback at any depth undoes the work inside its call and no other, what a call keeps is
\* durable only with the outermost commit, and then all that survives is
\* (transaction.ts, "Nesting").
THEOREM NestingIsAtomic == Spec => []Atomic
  BY AllTraced, PTL DEF Traced
=============================================================================
