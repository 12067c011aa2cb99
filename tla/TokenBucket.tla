----------------------------- MODULE TokenBucket -----------------------------
(***************************************************************************)
(* The RPC rate limiter: a bucket of tokens in an atomic, refilled before  *)
(* every attempt to take some.  The refill is under a mutex, the taking is *)
(* not: each is a load and then a compare-and-exchange that is repeated    *)
(* with the value found when it fails.  Time passes in milliseconds, in    *)
(* which a whole number of units, the scaled tokens, is refilled; what a   *)
(* fraction of a millisecond would add is lost, never gained.              *)
(***************************************************************************)
EXTENDS Naturals

CONSTANTS
    Clients,        \* the threads that share the limiter
    None,
    Scale,          \* units in a token: 1000
    MaxTokens,      \* max_tokens
    RefillRate,     \* refill_rate: tokens a second are units a millisecond
    Requests,       \* tokens that are asked for at once
    LastMilli       \* bound: the milliseconds that are looked at

ASSUME BucketAssumption ==
    /\ None \notin Clients
    /\ Scale \in Nat /\ MaxTokens \in Nat /\ RefillRate \in Nat
    /\ Requests \subseteq Nat
    /\ LastMilli \in Nat

VARIABLES
    tokens,     \* in units
    elapsed,    \* milliseconds since last_refill
    holder,     \* of the mutex of last_refill
    client,     \* what each thread is doing, with the values it has read
    milli,      \* recorded: the time,
    granted     \*   and the units handed out until then

bucketVars == <<tokens, elapsed, holder, client, milli, granted>>

Full == MaxTokens * Scale
BucketSteps == {"idle", "asking", "refilling", "refilled", "taking"}

BucketTypeOK ==
    /\ tokens \in Nat /\ elapsed \in Nat /\ milli \in Nat /\ granted \in Nat
    /\ holder \in Clients \cup {None}
    /\ client \in [Clients -> [step : BucketSteps, want : Nat, seen : Nat, millis : Nat]]

BucketInit ==
    /\ tokens = Full
    /\ elapsed = 0
    /\ holder = None
    /\ client = [c \in Clients |-> [step |-> "idle", want |-> 0, seen |-> 0, millis |-> 0]]
    /\ milli = 0 /\ granted = 0

TryAcquire(c, n) ==
    /\ client[c].step = "idle"
    /\ client' = [client EXCEPT ![c] = [step |-> "asking", want |-> n * Scale,
                                        seen |-> 0, millis |-> 0]]
    /\ UNCHANGED <<tokens, elapsed, holder, milli, granted>>

\* Nothing to add: the mutex is let go of at once.
SkipRefill(c) ==
    /\ client[c].step = "asking" /\ holder = None
    /\ elapsed * RefillRate = 0
    /\ client' = [client EXCEPT ![c].step = "refilled"]
    /\ UNCHANGED <<tokens, elapsed, holder, milli, granted>>

StartRefill(c) ==
    /\ client[c].step = "asking" /\ holder = None
    /\ elapsed * RefillRate > 0
    /\ holder' = c
    /\ client' = [client EXCEPT ![c].step = "refilling", ![c].seen = tokens,
                                ![c].millis = elapsed]
    /\ UNCHANGED <<tokens, elapsed, milli, granted>>

\* Of a failed exchange only the value found is kept.
RetryRefill(c) ==
    /\ client[c].step = "refilling"
    /\ client[c].seen < Full /\ tokens # client[c].seen
    /\ client' = [client EXCEPT ![c].seen = tokens]
    /\ UNCHANGED <<tokens, elapsed, holder, milli, granted>>

AddedTo(seen, millis) ==
    IF seen + millis * RefillRate < Full THEN seen + millis * RefillRate ELSE Full

\* A bucket that was seen full stays as it is; last_refill moves on.
EndRefill(c) ==
    /\ client[c].step = "refilling"
    /\ client[c].seen >= Full \/ tokens = client[c].seen
    /\ tokens' = IF client[c].seen >= Full THEN tokens
                 ELSE AddedTo(client[c].seen, client[c].millis)
    /\ elapsed' = elapsed - client[c].millis
    /\ holder' = None
    /\ client' = [client EXCEPT ![c].step = "refilled"]
    /\ UNCHANGED <<milli, granted>>

LoadTokens(c) ==
    /\ client[c].step = "refilled"
    /\ client' = [client EXCEPT ![c].step = "taking", ![c].seen = tokens]
    /\ UNCHANGED <<tokens, elapsed, holder, milli, granted>>

\* acquire sleeps for ten milliseconds and tries again.
Refuse(c) ==
    /\ client[c].step = "taking"
    /\ client[c].seen < client[c].want
    /\ client' = [client EXCEPT ![c] = [step |-> "idle", want |-> 0, seen |-> 0, millis |-> 0]]
    /\ UNCHANGED <<tokens, elapsed, holder, milli, granted>>

RetryTake(c) ==
    /\ client[c].step = "taking"
    /\ client[c].seen >= client[c].want /\ tokens # client[c].seen
    /\ client' = [client EXCEPT ![c].seen = tokens]
    /\ UNCHANGED <<tokens, elapsed, holder, milli, granted>>

\* Mutant of Take: the value is stored, whatever it has become meanwhile.
TakeBlindly(c) ==
    /\ client[c].step = "taking"
    /\ client[c].seen >= client[c].want
    /\ tokens' = client[c].seen - client[c].want
    /\ granted' = granted + client[c].want
    /\ client' = [client EXCEPT ![c] = [step |-> "idle", want |-> 0, seen |-> 0, millis |-> 0]]
    /\ UNCHANGED <<elapsed, holder, milli>>

Take(c) ==
    /\ client[c].step = "taking"
    /\ client[c].seen >= client[c].want /\ tokens = client[c].seen
    /\ tokens' = client[c].seen - client[c].want
    /\ granted' = granted + client[c].want
    /\ client' = [client EXCEPT ![c] = [step |-> "idle", want |-> 0, seen |-> 0, millis |-> 0]]
    /\ UNCHANGED <<elapsed, holder, milli>>

Milli ==
    /\ milli < LastMilli
    /\ milli' = milli + 1
    /\ elapsed' = elapsed + 1
    /\ UNCHANGED <<tokens, holder, client, granted>>

BucketNext ==
    \/ \E c \in Clients :
        \/ \E n \in Requests : TryAcquire(c, n)
        \/ SkipRefill(c) \/ StartRefill(c) \/ RetryRefill(c) \/ EndRefill(c)
        \/ LoadTokens(c) \/ Refuse(c) \/ RetryTake(c) \/ Take(c)
    \/ Milli

BucketSpec == BucketInit /\ [][BucketNext]_bucketVars

-----------------------------------------------------------------------------
(* Properties.                                                             *)

\* What was handed out never exceeds a full bucket and what the rate has
\* brought since the start, however loads and exchanges of threads mix.
GrantsWithinRate == granted <= Full + RefillRate * milli

\* Every unit is granted, in the bucket or still to be refilled; the thread
\* that refills accounts for no more time than has passed.
BucketInv ==
    /\ BucketTypeOK
    /\ tokens <= Full
    /\ tokens + granted + RefillRate * elapsed <= Full + RefillRate * milli
    /\ \A c \in Clients :
        client[c].step = "refilling" => holder = c /\ client[c].millis <= elapsed

=============================================================================
