--------------------------- MODULE MCTransactions ---------------------------
(* Small instances of Transactions for TLC. *)
EXTENDS Transactions, TLC

\* Calls differ only in what they do; so do connections.
Alike == Permutations(Calls) \cup Permutations(Connections)
=============================================================================
