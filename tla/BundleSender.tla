---------------------------- MODULE BundleSender ----------------------------
(***************************************************************************)
(* JitoSender::send_bundle, with several tasks that send at a time through *)
(* one rate limiter: the place in the queue, the concurrency budget, the   *)
(* permit, the retries, and the one deadline over all of them, which may   *)
(* cut a send off wherever it waits.                                       *)
(*                                                                         *)
(* Any endpoint may give any answer, a token may be there or not, and the  *)
(* emergency stop may come and go at any time: JitoSender says how scores, *)
(* backoffs and stops come about.  What an answer does is one step.        *)
(***************************************************************************)
EXTENDS Naturals, Sequences, FiniteSets

CONSTANTS
    Tasks,          \* those that share the JitoSender
    Attempts,       \* DEFAULT_RETRY_ATTEMPTS: 2
    SendTime,       \* TOTAL_SEND_TIMEOUT_MS: 2500, in ticks
    Cooldowns,      \* of the limiter after a 429: 2 to 300 seconds, in ticks
    MaxPlaces,      \* max_queue_depth: 128
    MinLimit,       \* min_concurrency: 1
    MaxLimit        \* max_concurrency: 2

ASSUME BundleAssumption ==
    /\ IsFiniteSet(Tasks)
    /\ {Attempts, MaxPlaces, MinLimit, MaxLimit} \subseteq Nat \ {0}
    /\ MinLimit <= MaxLimit
    /\ SendTime \in Nat
    /\ Cooldowns \subseteq Nat

VARIABLES
    send,       \* where each task is in its send
    attempt,    \* which attempt it is at
    age,      \* ticks since the send began
    answers,    \* recorded: what its requests have been answered
    places,     \* queue_depth
    inflight,   \* inflight_requests
    limit,      \* current_concurrency
    cooling,    \* ticks until cooldown_until
    stopped,    \* the emergency stop
    leaked      \* recorded: places that nobody will give back

taskVars == <<send, attempt, age, answers>>
gaugeVars == <<places, inflight, limit, cooling, leaked>>
bundleVars == <<taskVars, gaugeVars, stopped>>

Waiting == {"token", "budget", "permit"}
Ended == {"idle", "sent", "failed"}
SendSteps == Ended \cup Waiting \cup {"attempt", "posted", "backoff"}

\* A 429, a full queue, an error of the transport, a 5xx, 408, 409 or 425 is
\* retried; a success is not, nor a 400, any other 4xx, an answer that cannot
\* be parsed or that carries an error other than 429.
Retryable == {"limited", "unserved"}
Outcomes == Retryable \cup {"accepted", "refused"}

BundleInit ==
    /\ send = [t \in Tasks |-> "idle"]
    /\ attempt = [t \in Tasks |-> 0]
    /\ age = [t \in Tasks |-> 0]
    /\ answers = [t \in Tasks |-> <<>>]
    /\ places = 0 /\ inflight = 0 /\ leaked = 0
    /\ limit = MaxLimit
    /\ cooling = 0
    /\ stopped = FALSE

Proceed(t, step) == send' = [send EXCEPT ![t] = step]

StartBundle(t) ==
    /\ send[t] \in Ended
    /\ Proceed(t, "attempt")
    /\ attempt' = [attempt EXCEPT ![t] = 1]
    /\ age' = [age EXCEPT ![t] = 0]
    /\ answers' = [answers EXCEPT ![t] = <<>>]
    /\ UNCHANGED <<gaugeVars, stopped>>

\* Where an error leaves an attempt: a pause follows unless it was the last.
AfterError(t) == IF attempt[t] < Attempts THEN "backoff" ELSE "failed"

\* A full queue refuses in one step; the code counts the request first and
\* takes that back.
EnterQueue(t) ==
    /\ send[t] = "attempt" /\ age[t] < SendTime
    /\ ~stopped
    /\ IF places < MaxPlaces
       THEN places' = places + 1 /\ Proceed(t, "token")
       ELSE Proceed(t, AfterError(t)) /\ UNCHANGED places
    /\ UNCHANGED <<attempt, age, answers, inflight, limit, cooling, stopped, leaked>>

\* The error of a stop is final.  In the budget's gate it leaves the place in
\* the queue behind.
SeeStop(t) ==
    /\ stopped
    /\ send[t] \in {"attempt", "token", "budget"}
    /\ Proceed(t, "failed")
    /\ places' = IF send[t] = "token" THEN places - 1 ELSE places
    /\ leaked' = IF send[t] = "budget" THEN leaked + 1 ELSE leaked
    /\ UNCHANGED <<attempt, age, answers, inflight, limit, cooling, stopped>>

WaitForToken(t) ==
    /\ send[t] = "token" /\ ~stopped
    /\ cooling = 0
    /\ Proceed(t, "budget")
    /\ UNCHANGED <<attempt, age, answers, gaugeVars, stopped>>

\* The budget is looked at before the permit is taken: two tasks may both find
\* the last place in it.
WaitForBudget(t) ==
    /\ send[t] = "budget" /\ ~stopped
    /\ inflight < limit
    /\ Proceed(t, "permit")
    /\ UNCHANGED <<attempt, age, answers, gaugeVars, stopped>>

\* The semaphore has max_concurrency permits.
PostBundle(t) ==
    /\ send[t] = "permit"
    /\ Cardinality({u \in Tasks : send[u] = "posted"}) < MaxLimit
    /\ places' = places - 1
    /\ inflight' = inflight + 1
    /\ Proceed(t, "posted")
    /\ UNCHANGED <<attempt, age, answers, limit, cooling, stopped, leaked>>

Lowered == IF limit > MinLimit THEN limit - 1 ELSE limit
Raised == IF limit < MaxLimit THEN limit + 1 ELSE limit

\* What the limiter may make of an answer: success raises the limit now and
\* then, a 4xx lowers it, other errors leave it alone.
Adjusted(a) ==
    CASE a = "accepted" -> {limit, Raised}
      [] a = "limited" -> {Lowered}
      [] OTHER -> {limit, Lowered}

\* Mutant of Answered: every error is tried again.
AnsweredEagerly(t, a) ==
    /\ send[t] = "posted"
    /\ inflight' = inflight - 1
    /\ answers' = [answers EXCEPT ![t] = Append(@, a)]
    /\ limit' \in Adjusted(a)
    /\ Proceed(t, IF a = "accepted" THEN "sent" ELSE AfterError(t))
    /\ UNCHANGED <<attempt, age, cooling, places, stopped, leaked>>

Answered(t, a) ==
    /\ send[t] = "posted"
    /\ inflight' = inflight - 1
    /\ answers' = [answers EXCEPT ![t] = Append(@, a)]
    /\ limit' \in Adjusted(a)
    /\ IF a = "limited"
       THEN \E c \in Cooldowns : cooling' = IF cooling > c THEN cooling ELSE c
       ELSE UNCHANGED cooling
    /\ Proceed(t, CASE a = "accepted" -> "sent"
                 [] a = "refused" -> "failed"
                 [] OTHER -> AfterError(t))
    /\ UNCHANGED <<attempt, age, places, stopped, leaked>>

\* However long the pause, it ends with the deadline.
NextAttempt(t) ==
    /\ send[t] = "backoff"
    /\ Proceed(t, "attempt")
    /\ attempt' = [attempt EXCEPT ![t] = @ + 1]
    /\ UNCHANGED <<age, answers, gaugeVars, stopped>>

Expired(t) == send[t] \notin Ended /\ age[t] >= SendTime

\* The deadline drops the send where it stands: a permit comes back by itself,
\* a place in the queue does not.
TimeOut(t) ==
    /\ Expired(t)
    /\ Proceed(t, "failed")
    /\ inflight' = IF send[t] = "posted" THEN inflight - 1 ELSE inflight
    /\ leaked' = IF send[t] \in Waiting THEN leaked + 1 ELSE leaked
    /\ UNCHANGED <<attempt, age, answers, places, limit, cooling, stopped>>

\* trigger_jito_emergency_stop, or the end of a stop.
FlipEmergency ==
    /\ stopped' = ~stopped
    /\ UNCHANGED <<taskVars, gaugeVars>>

\* Timers fire on time.
BundleTick ==
    /\ ~ \E t \in Tasks : Expired(t)
    /\ age' = [t \in Tasks |-> IF send[t] \in Ended THEN age[t] ELSE age[t] + 1]
    /\ cooling' = IF cooling > 0 THEN cooling - 1 ELSE 0
    /\ UNCHANGED <<send, attempt, answers, places, inflight, limit, stopped, leaked>>

BundleNext ==
    \/ \E t \in Tasks :
        \/ StartBundle(t) \/ EnterQueue(t) \/ SeeStop(t)
        \/ WaitForToken(t) \/ WaitForBudget(t) \/ PostBundle(t)
        \/ \E a \in Outcomes : Answered(t, a)
        \/ NextAttempt(t) \/ TimeOut(t)
    \/ FlipEmergency
    \/ BundleTick

BundleSpec == BundleInit /\ [][BundleNext]_bundleVars

-----------------------------------------------------------------------------
(* Properties.                                                             *)

BundleTypeOK ==
    /\ send \in [Tasks -> SendSteps]
    /\ attempt \in [Tasks -> 0..Attempts]
    /\ age \in [Tasks -> 0..SendTime]
    /\ answers \in [Tasks -> Seq(Outcomes)]
    /\ {places, inflight, cooling, leaked} \subseteq Nat
    /\ limit \in MinLimit..MaxLimit
    /\ stopped \in BOOLEAN

Posted == {t \in Tasks : send[t] = "posted"}
InQueue == {t \in Tasks : send[t] \in Waiting}

GaugesAreRight ==
    /\ inflight = Cardinality(Posted)
    /\ inflight <= MaxLimit
    /\ places = Cardinality(InQueue) + leaked
    /\ places <= MaxPlaces

\* Each attempt has at most one answer, and what is still being tried has had
\* none but those that may be tried again.
AttemptsAreCounted ==
    \A t \in Tasks :
        /\ Len(answers[t]) <= attempt[t]
        /\ send[t] \in {"attempt", "posted"} \cup Waiting => Len(answers[t]) < attempt[t]
        /\ send[t] = "backoff" => attempt[t] < Attempts
        /\ send[t] \notin Ended =>
              \A i \in DOMAIN answers[t] : answers[t][i] \in Retryable

\* Whatever the deadline and the stop cut off, permits and places are accounted
\* for: every request under way is counted, never more than there are permits,
\* and the queue is as deep as it has waiting tasks and leaked places, so that
\* its gauge never falls below zero; and a bundle is not posted again after an
\* answer that settles it, nor more often than there are attempts.
BundleInv == BundleTypeOK /\ GaugesAreRight /\ AttemptsAreCounted

=============================================================================
