------------------------------ MODULE CacheStore ------------------------------
(***************************************************************************)
(* What the users of a cache rely on, whatever store is behind it            *)
(* (cache-store.ts): entries that expire, and single operations that are     *)
(* atomic.  FileCache shows one store that has to work for this.             *)
(*                                                                           *)
(* An entry carries the time it has left, so that no clock is needed; one    *)
(* that has expired is as good as none.                                      *)
(***************************************************************************)
EXTENDS Integers

CONSTANTS
    Keys,     \* the keys in use
    Absent    \* no entry

Forever == -1   \* the time left of an entry without an expiry

VARIABLE cache   \* key -> its entry, or Absent

Entry(value, ttl) == [value |-> value, ttl |-> ttl]

\* The entries of a user that stores `values'.
Entries(values) == [value : values, ttl : Nat \cup {Forever}]

StoreInit == cache = [k \in Keys |-> Absent]

Has(k) == cache[k] # Absent

Holds(k, value) == Has(k) /\ cache[k].value = value

\* What a counter that is not there counts as.
Count(k) == IF Has(k) THEN cache[k].value ELSE 0

Put(k, value, ttl) == cache' = [cache EXCEPT ![k] = Entry(value, ttl)]

Forget(k) == cache' = [cache EXCEPT ![k] = Absent]

\* Sets `k' where it is absent; otherwise nothing happens.
Add(k, value, ttl) == IF Has(k) THEN UNCHANGED cache ELSE Put(k, value, ttl)

\* Keeps the expiry of the counter; one it creates has none.
Increment(k) == Put(k, Count(k) + 1, IF Has(k) THEN cache[k].ttl ELSE Forever)

\* Mutant: the portable fallback, without its comparison.
ReleaseAnyLock(k, owner) == Forget(k)

\* Deletes `k' if `owner' still holds it.
ReleaseLock(k, owner) == IF Holds(k, owner) THEN Forget(k) ELSE UNCHANGED cache

\* Mutant: an entry without an expiry counts down like any other.
AgedAll(e) ==
    IF e = Absent \/ e.ttl = 0 THEN Absent ELSE Entry(e.value, e.ttl - 1)

Aged(e) ==
    IF e = Absent \/ e.ttl = 0 THEN Absent
    ELSE IF e.ttl = Forever THEN e ELSE Entry(e.value, e.ttl - 1)

\* What is left of the cache one second on.
Later == [k \in Keys |-> Aged(cache[k])]
=============================================================================
