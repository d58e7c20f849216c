----------------------------- MODULE JobContract -----------------------------
(***************************************************************************)
(* What a queue promises to whoever dispatches a job, whatever stores it:   *)
(* a job is waiting until it has run, failed or been given up; one that ran *)
(* never comes back.                                                        *)
(***************************************************************************)
CONSTANT Jobs

VARIABLE status   \* job -> where it stands

Statuses == {"absent", "waiting", "done", "failed", "dropped", "lost"}

Init == status = [j \in Jobs |-> "absent"]

Move(S, from, to) ==
    /\ \A j \in S : status[j] \in from
    /\ status' = [j \in Jobs |-> IF j \in S THEN to ELSE status[j]]

\* A dispatch brings a job and the chain behind it.
Dispatch == \E S \in SUBSET Jobs : Move(S, {"absent"}, "waiting")

\* One job runs at a time; its chain waits on.
Complete == \E j \in Jobs : Move({j}, {"waiting"}, "done")

\* A failure takes the chain along, and a retry brings it back.
Fail == \E S \in SUBSET Jobs : Move(S, {"waiting"}, "failed")

Retry == \E S \in SUBSET Jobs : Move(S, {"failed"}, "waiting")

\* An operator's command, a missing model, a duplicate link.
Drop == \E S \in SUBSET Jobs : Move(S, {"waiting", "failed"}, "dropped")

\* A crash that takes a chain with it.
Lose == \E S \in SUBSET Jobs : Move(S, {"waiting"}, "lost")

Next == Dispatch \/ Complete \/ Fail \/ Retry \/ Drop \/ Lose

Spec == Init /\ [][Next]_status

\* No job waits for ever.
Settles == \A j \in Jobs : status[j] = "waiting" ~> status[j] # "waiting"
=============================================================================
