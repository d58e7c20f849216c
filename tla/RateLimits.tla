------------------------------ MODULE RateLimits ------------------------------
(***************************************************************************)
(* One limit of the RateLimiter (rate-limiter.ts), used by clients that       *)
(* decide on the count a hit returns (throttle(), hitAndCheck) and by clients *)
(* that look first and hit later (attempt(), RateLimited, an afterCallback).  *)
(* A step is one call to the store.                                           *)
(***************************************************************************)
EXTENDS CacheStore, FiniteSets

CONSTANTS
    Clients,   \* concurrent requests or workers
    Mixes,     \* which of them look first: one of these sets
    Max,       \* maxAttempts
    Decay,     \* decaySeconds
    MaxHits    \* BOUND: no call begins once as many hits are counted

ASSUME RateLimitsAssumption ==
    /\ IsFiniteSet(Clients) /\ Mixes \subseteq SUBSET Clients
    /\ Max \in Nat \ {0} /\ Decay \in Nat /\ MaxHits \in Nat
    /\ {"counter", "timer"} \subseteq Keys /\ Absent \notin Entries(Nat)

VARIABLES
    lookers,   \* clients that look first; the others decide on the count
    step,      \* client -> where it stands
    \* History, read by no action; of the counter's current life:
    admitted,  \* calls let through
    erased     \* hits that a pin overwrote

limitVars == <<cache, lookers, step, admitted, erased>>

(***************************************************************************)
(* out        between calls                  allowed    under the limit        *)
(* checking   at the limit, about to look    seeding    timer set, about to    *)
(*            whether the window goes on                add the counter        *)
(* resetting  it does not: about to forget   counting   about to increment     *)
(*            the counter                    pinning    first hit: about to    *)
(* clearing   half through clear()                      put it with its expiry *)
(***************************************************************************)
Steps == {"out", "checking", "resetting", "allowed", "seeding", "counting", "pinning",
          "clearing"}

LimitInit ==
    /\ lookers \in Mixes
    /\ step = [c \in Clients |-> "out"]
    /\ admitted = 0 /\ erased = 0

Turn(c, from, to) ==
    /\ step[c] = from
    /\ step' = [step EXCEPT ![c] = to]

\* A counter that goes takes its history along.
Life(counts, a, e) ==
    /\ admitted' = IF counts THEN a ELSE 0
    /\ erased' = IF counts THEN e ELSE 0

SameLife == UNCHANGED <<admitted, erased>>

-----------------------------------------------------------------------------
(* tooManyAttempts() *)

Attempts(c) ==
    /\ c \in lookers
    /\ Turn(c, "out", IF Count("counter") >= Max THEN "checking" ELSE "allowed")
    /\ UNCHANGED <<cache, lookers>> /\ SameLife

\* The window goes on: refused.
CheckTimer(c) ==
    /\ Turn(c, "checking", IF Has("timer") THEN "out" ELSE "resetting")
    /\ UNCHANGED <<cache, lookers>> /\ SameLife

ResetAttempts(c) ==
    /\ Turn(c, "resetting", "allowed")
    /\ Forget("counter") /\ Life(FALSE, 0, 0)
    /\ UNCHANGED lookers

-----------------------------------------------------------------------------
(* increment(): hit() and hitAndCheck() *)

\* The timer holds the time it ends, which only the headers and the delays tell.
SeedTimer(c) ==
    /\ Turn(c, IF c \in lookers THEN "allowed" ELSE "out", "seeding")
    /\ Add("timer", 0, Decay)
    /\ UNCHANGED lookers /\ SameLife

SeedCounter(c) ==
    /\ Turn(c, "seeding", "counting")
    /\ Add("counter", 0, Decay)
    /\ UNCHANGED lookers /\ SameLife

\* Mutant: the last attempt of a window is let through twice.
ExceededLate(hits) == hits > Max + 1

Exceeded(hits) == hits > Max

\* Mutant: only when add() had set the counter, as it once was.
FirstNever(hits) == FALSE

\* The call that counted first gives the counter its expiry.
IsFirstHit(hits) == hits = 1

Hit(c) ==
    LET hits == Count("counter") + 1 IN
    /\ Turn(c, "counting", IF IsFirstHit(hits) THEN "pinning" ELSE "out")
    /\ Increment("counter")
    /\ admitted' = IF c \in lookers \/ ~Exceeded(hits) THEN admitted + 1 ELSE admitted
    /\ UNCHANGED <<lookers, erased>>

\* put(key, hits, decay): over whatever others have counted meanwhile.
Pin(c) ==
    /\ Turn(c, "pinning", "out")
    /\ Put("counter", 1, Decay)
    /\ erased' = IF Count("counter") > 1 THEN erased + Count("counter") - 1 ELSE erased
    /\ UNCHANGED <<lookers, admitted>>

-----------------------------------------------------------------------------

\* clear(), by anyone between calls: the counter, then its timer.
Clear(c) ==
    /\ Turn(c, "out", "clearing")
    /\ Forget("counter") /\ Life(FALSE, 0, 0)
    /\ UNCHANGED lookers

ClearTimer(c) ==
    /\ Turn(c, "clearing", "out")
    /\ Forget("timer")
    /\ UNCHANGED lookers /\ SameLife

LimitSecond ==
    /\ cache' = Later
    /\ Life(Aged(cache["counter"]) # Absent, admitted, erased)
    /\ UNCHANGED <<lookers, step>>

Finish(c) ==
    \/ CheckTimer(c) \/ ResetAttempts(c)
    \/ step[c] # "out" /\ SeedTimer(c)
    \/ SeedCounter(c) \/ Hit(c) \/ Pin(c) \/ ClearTimer(c)

Begin(c) ==
    /\ step[c] = "out"
    /\ Count("counter") < MaxHits
    /\ Attempts(c) \/ SeedTimer(c) \/ Clear(c)

LimitNext ==
    \/ \E c \in Clients : Begin(c) \/ Finish(c)
    \/ LimitSecond

LimitSpec == StoreInit /\ LimitInit /\ [][LimitNext]_limitVars

-----------------------------------------------------------------------------
(* Properties *)

LimitTypeOK ==
    /\ lookers \subseteq Clients
    /\ step \in [Clients -> Steps]
    /\ admitted \in Nat /\ erased \in Nat

\* While a counter lives, more calls than its limit are let through only by as many
\* hits as a pin overwrote (rate-limiter.ts, increment), and by the clients that looked
\* before they hit, one each (rate-limited.ts).
OverLimitExplained ==
    admitted <= Max + erased + Cardinality(lookers)

\* A counter without an expiry, which nothing would ever end, is about to be given one
\* by the call that created it.
NeverEndless ==
    Has("counter") /\ cache["counter"].ttl = Forever => \E c \in Clients : step[c] = "pinning"

\* No client is locked out for good: a window that is used up ends.
WindowEnds == Count("counter") >= Max ~> Count("counter") < Max
=============================================================================
