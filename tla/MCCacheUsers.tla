------------------------------ MODULE MCCacheUsers ------------------------------
(* One limit of 2 for three clients, two settings under two sessions, two           *)
(* dispatchers and two workers of one unique job, three callers of one lock, three  *)
(* processes on one file.                                                           *)
EXTENDS CacheUsers

CONSTANTS p, q, r, a, b, v, w

MCClients == {p, q, r}
MCMixes == {{}, {p}, {p, q, r}}
MCSessions == {p, q}
MCSettings == {a, b}
MCDispatchers == {p, q}
MCPool == {v, w}
MCCopies == {1, 2}
MCCallers == {p, q, r}
MCProcs == {p, q, r}
MCLockFor == {0, 2}
MCKeys == {"counter", "timer", "map", "unique", "lock", "value"}

\* Nothing is claimed of a file once a fault has hit.
Unfaulted == faults = {}
=============================================================================
