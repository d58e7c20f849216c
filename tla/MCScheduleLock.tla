--------------------------- MODULE MCScheduleLock ---------------------------
(* Small instances of ScheduleLock for TLC. *)
EXTENDS ScheduleLock, TLC

\* Processes differ only in what they do.
Alike == Permutations(Processes)
=============================================================================
