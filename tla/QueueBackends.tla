----------------------------- MODULE QueueBackends -----------------------------
(***************************************************************************)
(* The two queues that do not live in the tables of the database driver: a    *)
(* list of redis under queue:work, and a process of watchtower.  They share   *)
(* nothing but the loop of the worker, so a behaviour has one of them, and    *)
(* TLC sees both in one run.                                                  *)
(***************************************************************************)
EXTENDS RedisQueue, Watchtower

VARIABLE backend   \* whose behaviour this is

backendsVars == <<redisVars, watchVars, backend>>

Init ==
    /\ backend \in {"redis", "watchtower"}
    /\ RedisInit /\ WatchInit
    /\ backend = "redis" => fifo   \* it does not matter

Next ==
    /\ UNCHANGED backend
    /\ \/ backend = "redis" /\ RedisNext /\ UNCHANGED watchVars
       \/ backend = "watchtower" /\ WatchNext /\ UNCHANGED redisVars

\* Time passes; a worker that lives goes on; a supervisor that lives ticks.  Nothing makes a
\* worker survive, an operator act or a pause end.
Fairness ==
    /\ \A w \in Hands :
          /\ WF_redisVars(backend = "redis" /\ Poll(w))
          /\ WF_redisVars(backend = "redis" /\ ProcessJob(w))
    /\ WF_redisVars(backend = "redis" /\ \E e \in delayed : DelayOver(e))
    /\ WF_redisVars(backend = "redis" /\ \E e \in reserved : Expires(e))
    /\ WF_watchVars(backend = "watchtower" /\ Tick)
    /\ WF_watchVars(backend = "watchtower" /\ BackoffOver)
    /\ WF_watchVars(backend = "watchtower" /\ ComesDue)
    /\ WF_watchVars(backend = "watchtower" /\ ReservationOver)
    /\ \A c \in Children : WF_watchVars(backend = "watchtower" /\ Works(c))

Spec == Init /\ [][Next]_backendsVars /\ Fairness

-----------------------------------------------------------------------------

\* Both queues' variables have their types.
BackendsTypeOK == RedisTypeOK /\ WatchTypeOK
=============================================================================
