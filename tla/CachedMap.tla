------------------------------ MODULE CachedMap ------------------------------
(***************************************************************************)
(* The settings table and the cached map over it (settings-registry.ts),      *)
(* with remember() (cache-store-helpers.ts): sessions that read settings,     *)
(* write several at once, and do either inside a transaction.                 *)
(***************************************************************************)
EXTENDS CacheStore

CONSTANTS
    Sessions,   \* requests, commands, workers
    Settings,   \* the declared settings
    MapTtl,     \* cacheTtlSeconds
    MaxWrites   \* BOUND: calls of setMany() and forget()

ASSUME CachedMapAssumption ==
    /\ MapTtl \in Nat /\ MaxWrites \in Nat
    /\ "map" \in Keys /\ Absent \notin Entries([Settings -> Nat])

VARIABLES
    listening,  \* whether an events provider runs the invalidating listener
    table,      \* setting -> its committed value; 0 is no row
    unsaved,    \* session -> setting -> what its open transaction wrote
    at,         \* session -> where it stands
    inTransaction,   \* sessions inside DB.transaction()
    todo,       \* session -> settings its setMany() has yet to write
    copy,       \* session -> the rows it loaded
    writes,     \* how many writes have begun
    \* History, read by no action:
    mishaps     \* what has happened so far that may leave the map stale

mapVars == <<cache, listening, table, unsaved, at, inTransaction, todo, copy, writes, mishaps>>

(***************************************************************************)
(* idle       between calls                  notifying   a row written, about   *)
(* loading    a miss: about to load()                    to run the listener    *)
(* storing    loaded: about to put()         owing       rows written, others   *)
(* writing    in setMany()'s loop, with                  still to write         *)
(*            no row written or none that    forgetting  all rows written       *)
(*            is not forgotten yet                                              *)
(***************************************************************************)
Owing == {"notifying", "owing", "forgetting"}
Places == Owing \cup {"idle", "loading", "storing", "writing"}

Unwritten == -1

Values == 0..MaxWrites

Blank == [k \in Settings |-> 0]
NothingUnsaved == [k \in Settings |-> Unwritten]

MapInit ==
    /\ listening \in BOOLEAN
    /\ table = Blank
    /\ unsaved = [s \in Sessions |-> NothingUnsaved]
    /\ at = [s \in Sessions |-> "idle"]
    /\ inTransaction = {}
    /\ todo = [s \in Sessions |-> {}]
    /\ copy = [s \in Sessions |-> Blank]
    /\ writes = 0
    /\ mishaps = {}

Move(s, from, to) ==
    /\ at[s] = from
    /\ at' = [at EXCEPT ![s] = to]

\* The rows as session `s' sees them.
Seen(s) == [k \in Settings |-> IF unsaved[s][k] = Unwritten THEN table[k] ELSE unsaved[s][k]]

Outdated == Has("map") /\ cache["map"].value # table

\* A fill in flight that holds other rows than the table has by now.
Overtaken == \E s \in Sessions : at'[s] = "storing" /\ copy'[s] # table'

Suffer(what) == mishaps' = mishaps \cup what

\* Mutant: a write leaves the map alone.
KeepMap == UNCHANGED cache

ForgetMap == Forget("map")

\* Mutant: remember() without its ttlSeconds.
NoExpiry == Forever

MapExpiry == MapTtl

-----------------------------------------------------------------------------
(* stored(): remember() *)

Read(s) ==
    /\ ~Has("map")
    /\ Move(s, "idle", "loading")
    /\ UNCHANGED <<cache, listening, table, unsaved, inTransaction, todo, copy, writes, mishaps>>

Load(s) ==
    /\ Move(s, "loading", "storing")
    /\ copy' = [copy EXCEPT ![s] = Seen(s)]
    /\ Suffer(IF Seen(s) # table THEN {"uncommitted"} ELSE {})
    /\ UNCHANGED <<cache, listening, table, unsaved, inTransaction, todo, writes>>

Store(s) ==
    /\ Move(s, "storing", "idle")
    /\ Put("map", copy[s], MapExpiry)
    /\ copy' = [copy EXCEPT ![s] = Blank]
    /\ UNCHANGED <<listening, table, unsaved, inTransaction, todo, writes, mishaps>>

-----------------------------------------------------------------------------
(* setMany() and forget() *)

Write(s, ks) ==
    /\ writes < MaxWrites
    /\ writes' = writes + 1
    /\ Move(s, "idle", "writing")
    /\ todo' = [todo EXCEPT ![s] = ks]
    /\ UNCHANGED <<cache, listening, table, unsaved, inTransaction, copy, mishaps>>

\* updateOrCreate(), or the DELETE of forget(): a row that another transaction has
\* written is waited for.
WriteRow(s) ==
    /\ \E k \in todo[s], v \in {0, writes} :
          /\ \E from \in {"writing", "owing"} :
                Move(s, from, IF listening THEN "notifying"
                              ELSE IF todo[s] = {k} THEN "forgetting" ELSE "owing")
          /\ \A t \in Sessions \ {s} : unsaved[t][k] = Unwritten
          /\ todo' = [todo EXCEPT ![s] = @ \ {k}]
          /\ IF s \in inTransaction
             THEN unsaved' = [unsaved EXCEPT ![s][k] = v] /\ UNCHANGED table
             ELSE table' = [table EXCEPT ![k] = v] /\ UNCHANGED unsaved
    /\ UNCHANGED <<cache, listening, inTransaction, copy, writes>>
    /\ Suffer(IF Overtaken THEN {"overlap"} ELSE {})

\* InvalidateSettingsCacheListener, run inside the write.
Notify(s) ==
    /\ Move(s, "notifying", IF todo[s] = {} THEN "forgetting" ELSE "writing")
    /\ ForgetMap
    /\ UNCHANGED <<listening, table, unsaved, inTransaction, todo, copy, writes, mishaps>>

\* forgetCache(), once, after all of them.
ForgetCache(s) ==
    /\ Move(s, "forgetting", "idle")
    /\ ForgetMap
    /\ UNCHANGED <<listening, table, unsaved, inTransaction, todo, copy, writes, mishaps>>

\* A row's write throws: the rows before it stay, and setMany() ends there.
WriteThrows(s) ==
    /\ \E from \in {"writing", "owing"} : Move(s, from, "idle")
    /\ todo' = [todo EXCEPT ![s] = {}]
    /\ Suffer(IF at[s] = "owing" /\ s \notin inTransaction THEN {"failure"} ELSE {})
    /\ UNCHANGED <<cache, listening, table, unsaved, inTransaction, copy, writes>>

-----------------------------------------------------------------------------
(* DB.transaction() around them *)

Transact(s) ==
    /\ at[s] = "idle" /\ s \notin inTransaction
    /\ writes < MaxWrites
    /\ inTransaction' = inTransaction \cup {s}
    /\ UNCHANGED <<cache, listening, table, unsaved, at, todo, copy, writes, mishaps>>

\* Commit, or roll back.
End(s) ==
    /\ at[s] = "idle" /\ s \in inTransaction
    /\ inTransaction' = inTransaction \ {s}
    /\ unsaved' = [unsaved EXCEPT ![s] = NothingUnsaved]
    /\ table' \in {table, Seen(s)}
    /\ UNCHANGED <<cache, listening, at, todo, copy, writes>>
    /\ Suffer((IF Overtaken THEN {"overlap"} ELSE {})
              \cup (IF table' # table /\ Has("map") THEN {"uncommitted"} ELSE {}))

MapSecond ==
    /\ cache' = Later
    /\ UNCHANGED <<listening, table, unsaved, at, inTransaction, todo, copy, writes, mishaps>>

Go(s) == Load(s) \/ Store(s) \/ WriteRow(s) \/ Notify(s) \/ ForgetCache(s)

MapNext ==
    \/ \E s \in Sessions :
          \/ Read(s) \/ \E ks \in SUBSET Settings \ {{}} : Write(s, ks)
          \/ Go(s) \/ WriteThrows(s)
          \/ Transact(s) \/ End(s)
    \/ MapSecond

MapSpec == StoreInit /\ MapInit /\ [][MapNext]_mapVars

-----------------------------------------------------------------------------
(* Properties *)

MapTypeOK ==
    /\ table \in [Settings -> Values]
    /\ unsaved \in [Sessions -> [Settings -> Values \cup {Unwritten}]]
    /\ at \in [Sessions -> Places]
    /\ inTransaction \subseteq Sessions
    /\ todo \in [Sessions -> SUBSET Settings]
    /\ copy \in [Sessions -> [Settings -> Values]]
    /\ writes \in 0..MaxWrites

\* The cached map is the table's rows, but for a write that has yet to forget it, unless
\* a fill was overtaken by a write, the map was read or forgotten inside a transaction,
\* or a batch failed half way with no listener (settings-registry.ts, setMany,
\* forgetCache).
StaleExplained ==
    Outdated => \/ mishaps # {}
                \/ \E s \in Sessions : at[s] \in Owing

\* A map that is stale for whatever reason does not stay (settings-config.ts,
\* ttlSeconds): "an incident with an end".
StaleEnds == Outdated ~> ~Outdated
=============================================================================
