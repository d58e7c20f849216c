----------------------------- MODULE MCQueueWork -----------------------------
(* Small instances of QueueWork for TLC. *)
EXTENDS QueueWork, TLC

CONSTANTS a, b, c

\* `a' carries the chain <<b>>; `c' is dispatched on its own.
MCChainOf == a :> <<b>> @@ c :> <<>>
MCChainOfOne == a :> <<b>>

\* Worker processes are alike.
AlikeWorkers == Permutations(Workers)
=============================================================================
