------------------------------ MODULE RateLimiter ------------------------------
(***************************************************************************)
(* The cache-backed limiter of src/apps/accounts/ratelimit.py.             *)
(*                                                                         *)
(* A bucket is one pair of cache keys: a counter, which lives for one      *)
(* window from the request that created it, and a block marker, which      *)
(* lives for one cooldown.  Each cache call is atomic, a check is several  *)
(* of them, and both keys may expire between any two; the module gives one *)
(* action for each call, and the module of the views says which request is *)
(* at which of them.  `admitted' counts, for the properties, the requests  *)
(* a bucket has let through since its counter last went away.              *)
(***************************************************************************)
EXTENDS Integers

CONSTANTS
    Buckets,    \* the pairs of a scope and a key
    Limit       \* how many requests a window lets through

ASSUME LimitAssumption == Limit \in Nat \ {0}

VARIABLES
    count,      \* the counter of each bucket, 0 when the key is absent
    blocked,    \* whether the block marker of each bucket is present
    admitted    \* how many requests the bucket let through since then

limiterVars == <<count, blocked, admitted>>

LimiterInit ==
    /\ count = [b \in Buckets |-> 0]
    /\ blocked = [b \in Buckets |-> FALSE]
    /\ admitted = [b \in Buckets |-> 0]

LetThrough(b) == admitted' = [admitted EXCEPT ![b] = @ + 1]

(***************************************************************************)
(* cache.get(block_key): the answer, nothing changes.                      *)
(***************************************************************************)
SeesBlock(b) == blocked[b] /\ UNCHANGED limiterVars

SeesNoBlock(b) == ~blocked[b] /\ UNCHANGED limiterVars

(***************************************************************************)
(* cache.add(count_key, 1, timeout=window): the first request of a window. *)
(***************************************************************************)
OpensWindow(b) ==
    /\ count[b] = 0
    /\ count' = [count EXCEPT ![b] = 1]
    /\ LetThrough(b)
    /\ UNCHANGED blocked

FindsWindow(b) == count[b] # 0 /\ UNCHANGED limiterVars

(***************************************************************************)
(* cache.incr(count_key): within the limit, over it, or on a counter that  *)
(* has expired since the add.                                              *)
(***************************************************************************)
CountsWithin(b) ==
    /\ count[b] \in 1 .. Limit - 1
    /\ count' = [count EXCEPT ![b] = @ + 1]
    /\ LetThrough(b)
    /\ UNCHANGED blocked

CountsOver(b) ==
    /\ count[b] >= Limit
    /\ count' = [count EXCEPT ![b] = @ + 1]
    /\ UNCHANGED <<blocked, admitted>>

LostCounter(b) == count[b] = 0 /\ UNCHANGED limiterVars

(***************************************************************************)
(* The add of a request that lost its counter: let through whether or not  *)
(* another request has opened the next window meanwhile.                   *)
(***************************************************************************)
\* Mutant: a request that lost its counter sets a new one without looking.
StartsOverAgain(b) ==
    /\ count' = [count EXCEPT ![b] = 1]
    /\ LetThrough(b)
    /\ UNCHANGED blocked

StartsOver(b) ==
    /\ count' = [count EXCEPT ![b] = IF @ = 0 THEN 1 ELSE @]
    /\ LetThrough(b)
    /\ UNCHANGED blocked

SetsBlock(b) ==
    /\ blocked' = [blocked EXCEPT ![b] = TRUE]
    /\ UNCHANGED <<count, admitted>>

(***************************************************************************)
(* reset(): one delete_many of both keys.                                  *)
(***************************************************************************)
Clears(b) ==
    /\ count' = [count EXCEPT ![b] = 0]
    /\ blocked' = [blocked EXCEPT ![b] = FALSE]
    /\ admitted' = [admitted EXCEPT ![b] = 0]

WindowEnds(b) ==
    /\ count[b] # 0
    /\ count' = [count EXCEPT ![b] = 0]
    /\ admitted' = [admitted EXCEPT ![b] = 0]
    /\ UNCHANGED blocked

CooldownEnds(b) ==
    /\ blocked[b]
    /\ blocked' = [blocked EXCEPT ![b] = FALSE]
    /\ UNCHANGED <<count, admitted>>

=============================================================================
