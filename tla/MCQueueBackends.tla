---------------------------- MODULE MCQueueBackends ----------------------------
(* One job of two tries for two workers and two operators of redis; two jobs of two *)
(* attempts for a pool of two workers of watchtower, or of one if it is fifo.        *)
EXTENDS QueueBackends

CONSTANTS a, b, v, w, o, p

MCPayloads == {a}
MCDispatches == {a, b}
MCWorkers == {v, w}
MCOperators == {o, p}
=============================================================================
