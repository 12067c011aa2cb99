------------------------------ MODULE Pipeline ------------------------------
(***************************************************************************)
(* The way of a new token from the websocket to the exec worker:           *)
(*                                                                         *)
(*   read loop -> parse channel -> parser workers -> event channel         *)
(*             -> main loop -> intent queue -> exec worker                 *)
(*                                                                         *)
(* Every channel is bounded and drops the newest item when it is full.     *)
(* The monitor reconnects when its subscription stalls or ends, and joins  *)
(* its workers first.  Ctrl+C stops the main loop and aborts the task that *)
(* reconnects, but not the blocking thread of a subscription.              *)
(*                                                                         *)
(* A call to the RPC node takes any time, so the deadline of a fetch may   *)
(* be past after any of them, and so may a sleep between two attempts.     *)
(***************************************************************************)
EXTENDS Naturals, Sequences, SequencesExt, FiniteSets

CONSTANTS
    Tokens,             \* the creations, each notified once
    Workers,            \* PARSER_WORKER_COUNT of them
    None,
    ParseCapacity,      \* PARSE_CHANNEL_CAPACITY: 4096
    EventCapacity,      \* 100
    IntentCapacity,     \* INTENT_QUEUE_CAPACITY: 4096
    StallThreshold,     \* STALL_THRESHOLD_SECS: 120
    MaxBackoff,         \* MAX_RECONNECT_BACKOFF_SECS: 30
    MaxRetries,         \* 5
    MaxIntentAge        \* max_intent_age_ms: 5 seconds

ASSUME PipelineAssumption ==
    /\ None \notin Tokens
    /\ IsFiniteSet(Tokens)
    /\ {ParseCapacity, EventCapacity, IntentCapacity, MaxBackoff} \subseteq Nat \ {0}
    /\ {StallThreshold, MaxRetries, MaxIntentAge} \subseteq Nat

VARIABLES
    link,       \* where the monitor is in its reconnect loop
    backoff,    \* backoff_secs
    silent,     \* seconds since last_frame
    shutdown,   \* the monitor's shutdown flag
    parseQ, eventQ, intentQ,    \* the three channels
    job,        \* what a parser worker is fetching
    tries,      \* its retries
    gone,       \* the workers that have seen the shutdown flag
    age,        \* seconds since an intent was enqueued
    exec,       \* the intent the exec worker is processing
    running,    \* FALSE once the main loop has seen Ctrl+C
    drops,      \* dropped_intents_total and stale_drop_total
    fate,       \* recorded: what has become of a creation,
    accepted,   \*   the intents in the order they were enqueued
    taken       \*   and in the order the exec worker received them

linkVars == <<link, backoff, silent, shutdown>>
parserVars == <<parseQ, job, tries, gone>>
mainVars == <<eventQ, intentQ, age, exec, running, drops, accepted, taken>>
pipelineVars == <<linkVars, parserVars, mainVars, fate>>

Blocking == {"connecting", "subscribed", "draining"}
Links == Blocking \cup {"waiting", "stopped"}

\* Ends of a creation: its job is not enqueued, not parsed, its event not
\* sent, its intent refused or too old, processed, or the program stops.
Lost == {"unqueued", "unparsed", "unsent", "refused", "cut"}
Fates == {"unborn", "moving", "stale", "worked"} \cup Lost

PipelineTypeOK ==
    /\ link \in Links
    /\ backoff \in 1..MaxBackoff
    /\ silent \in 0..StallThreshold
    /\ {shutdown, running} \subseteq BOOLEAN
    /\ parseQ \in Seq(Tokens) /\ Len(parseQ) <= ParseCapacity
    /\ eventQ \in Seq(Tokens) /\ Len(eventQ) <= EventCapacity
    /\ intentQ \in Seq(Tokens) /\ Len(intentQ) <= IntentCapacity
    /\ job \in [Workers -> Tokens \cup {None}]
    /\ tries \in [Workers -> 0..MaxRetries]
    /\ gone \subseteq Workers
    /\ age \in [Tokens -> 0..(MaxIntentAge + 1)]
    /\ exec \in Tokens \cup {None}
    /\ drops \in [total : Nat, stale : Nat]
    /\ fate \in [Tokens -> Fates]
    /\ {accepted, taken} \subseteq Seq(Tokens)

PipelineInit ==
    /\ link = "connecting"
    /\ backoff = 1
    /\ silent = 0
    /\ shutdown = FALSE
    /\ parseQ = <<>> /\ eventQ = <<>> /\ intentQ = <<>>
    /\ job = [w \in Workers |-> None]
    /\ tries = [w \in Workers |-> 0]
    /\ gone = {}
    /\ age = [t \in Tokens |-> 0]
    /\ exec = None
    /\ running = TRUE
    /\ drops = [total |-> 0, stale |-> 0]
    /\ fate = [t \in Tokens |-> "unborn"]
    /\ accepted = <<>> /\ taken = <<>>

Becomes(t, f) == fate' = [fate EXCEPT ![t] = f]

-----------------------------------------------------------------------------
(* The monitor.                                                            *)

\* Where the blocking thread's return leaves the reconnect loop: it is over
\* after a shutdown, and it is no more once Ctrl+C has aborted its task.
AfterThread == IF shutdown \/ ~running THEN "stopped" ELSE "waiting"

Subscribe ==
    /\ link = "connecting"
    /\ link' = "subscribed"
    /\ silent' = 0
    /\ gone' = {}
    /\ UNCHANGED <<backoff, shutdown, parseQ, job, tries, mainVars, fate>>

\* The error's sleep is of backoff seconds; the next one's is twice as long.
SubscribeFails ==
    /\ link = "connecting"
    /\ link' = AfterThread
    /\ backoff' = IF AfterThread = "stopped" THEN backoff
                  ELSE IF 2 * backoff < MaxBackoff THEN 2 * backoff ELSE MaxBackoff
    /\ UNCHANGED <<silent, shutdown, parserVars, mainVars, fate>>

\* The read loop never waits for the workers.
Frame(t) ==
    /\ link = "subscribed"
    /\ fate[t] = "unborn"
    /\ silent' = 0
    /\ IF Len(parseQ) < ParseCapacity /\ gone # Workers
       THEN /\ parseQ' = Append(parseQ, t)
            /\ Becomes(t, "moving")
       ELSE /\ Becomes(t, "unqueued")
            /\ UNCHANGED parseQ
    /\ UNCHANGED <<link, backoff, shutdown, job, tries, gone, mainVars>>

OtherFrame ==
    /\ link = "subscribed"
    /\ silent' = 0
    /\ UNCHANGED <<link, backoff, shutdown, parserVars, mainVars, fate>>

\* A stall, the end of the stream, or the shutdown flag ends the session:
\* the parse channel is closed and the workers are joined.
EndSession ==
    /\ link = "subscribed"
    /\ link' = "draining"
    /\ UNCHANGED <<backoff, silent, shutdown, parserVars, mainVars, fate>>

Stall == silent = StallThreshold /\ EndSession
EndOfStream == EndSession
SeeShutdown == shutdown /\ EndSession

\* Mutant of Joined: the workers are left to themselves.
JoinedEarly ==
    /\ link = "draining"
    /\ link' = AfterThread
    /\ backoff' = 1
    /\ UNCHANGED <<silent, shutdown, parserVars, mainVars, fate>>

Joined ==
    /\ link = "draining"
    /\ \A w \in Workers : job[w] = None /\ (w \in gone \/ parseQ = <<>>)
    /\ link' = AfterThread
    /\ backoff' = IF AfterThread = "stopped" THEN backoff ELSE 1
    /\ parseQ' = <<>>
    /\ fate' = [t \in Tokens |-> IF t \in ToSet(parseQ) THEN "cut" ELSE fate[t]]
    /\ UNCHANGED <<silent, shutdown, job, tries, gone, mainVars>>

Reconnect ==
    /\ link = "waiting"
    /\ link' = IF shutdown THEN "stopped" ELSE "connecting"
    /\ UNCHANGED <<backoff, silent, shutdown, parserVars, mainVars, fate>>

\* WebSocketMonitor::shutdown, which nothing in the program calls.
Shutdown ==
    /\ ~shutdown
    /\ shutdown' = TRUE
    /\ UNCHANGED <<link, backoff, silent, parserVars, mainVars, fate>>

-----------------------------------------------------------------------------
(* The parser workers.                                                     *)

TakeJob(w) ==
    /\ link \in {"subscribed", "draining"}
    /\ job[w] = None
    /\ w \notin gone
    /\ parseQ # <<>>
    /\ parseQ' = Tail(parseQ)
    /\ IF shutdown
       THEN /\ gone' = gone \cup {w}
            /\ Becomes(Head(parseQ), "cut")
            /\ UNCHANGED <<job, tries>>
       ELSE /\ job' = [job EXCEPT ![w] = Head(parseQ)]
            /\ tries' = [tries EXCEPT ![w] = 0]
            /\ UNCHANGED <<gone, fate>>
    /\ UNCHANGED <<linkVars, mainVars>>

EndJob(w) ==
    /\ job[w] # None
    /\ job' = [job EXCEPT ![w] = None]
    /\ tries' = [tries EXCEPT ![w] = 0]

\* The event channel is closed once the main loop is gone.
Parsed(w) ==
    /\ EndJob(w)
    /\ IF running /\ Len(eventQ) < EventCapacity
       THEN eventQ' = Append(eventQ, job[w]) /\ UNCHANGED fate
       ELSE Becomes(job[w], "unsent") /\ UNCHANGED eventQ
    /\ UNCHANGED <<linkVars, parseQ, gone, intentQ, age, exec, running, drops, accepted, taken>>

\* A transaction that is there but is no creation is not fetched again.
NotACreation(w) ==
    /\ EndJob(w)
    /\ Becomes(job[w], "unparsed")
    /\ UNCHANGED <<linkVars, parseQ, gone, mainVars>>

\* Mutant of FetchAgain: the count of retries starts again.
FetchAgainUncounted(w) ==
    /\ job[w] # None
    /\ tries' = [tries EXCEPT ![w] = (@ + 1) % (MaxRetries + 1)]
    /\ UNCHANGED <<linkVars, parseQ, job, gone, mainVars, fate>>

FetchAgain(w) ==
    /\ job[w] # None
    /\ tries[w] < MaxRetries
    /\ tries' = [tries EXCEPT ![w] = @ + 1]
    /\ UNCHANGED <<linkVars, parseQ, job, gone, mainVars, fate>>

\* An error that is one too many, or that comes after the deadline.
FetchGivesUp(w) ==
    /\ EndJob(w)
    /\ Becomes(job[w], "unparsed")
    /\ UNCHANGED <<linkVars, parseQ, gone, mainVars>>

Fetch(w) ==
    Parsed(w) \/ NotACreation(w) \/ FetchAgain(w) \/ FetchGivesUp(w)

-----------------------------------------------------------------------------
(* The main loop and the exec worker.                                      *)

HandleEvent ==
    /\ running
    /\ eventQ # <<>>
    /\ eventQ' = Tail(eventQ)
    /\ LET t == Head(eventQ) IN
       IF Len(intentQ) < IntentCapacity
       THEN /\ intentQ' = Append(intentQ, t)
            /\ age' = [age EXCEPT ![t] = 0]
            /\ accepted' = Append(accepted, t)
            /\ UNCHANGED <<drops, fate>>
       ELSE /\ drops' = [drops EXCEPT !.total = @ + 1]
            /\ Becomes(t, "refused")
            /\ UNCHANGED <<intentQ, age, accepted>>
    /\ UNCHANGED <<linkVars, parserVars, exec, running, taken>>

\* Mutant of TakeIntent: the newest intent goes first.
TakeIntentNewest ==
    /\ running
    /\ exec = None
    /\ intentQ # <<>>
    /\ intentQ' = Front(intentQ)
    /\ taken' = Append(taken, Last(intentQ))
    /\ exec' = Last(intentQ)
    /\ UNCHANGED <<linkVars, parserVars, eventQ, age, running, drops, accepted, fate>>

TakeIntent ==
    /\ running
    /\ exec = None
    /\ intentQ # <<>>
    /\ intentQ' = Tail(intentQ)
    /\ LET t == Head(intentQ) IN
       /\ taken' = Append(taken, t)
       /\ IF age[t] > MaxIntentAge
          THEN /\ drops' = [total |-> drops.total + 1, stale |-> drops.stale + 1]
               /\ Becomes(t, "stale")
               /\ UNCHANGED exec
          ELSE exec' = t /\ UNCHANGED <<drops, fate>>
    /\ UNCHANGED <<linkVars, parserVars, eventQ, age, running, accepted>>

\* Mutant of FinishIntent: the worker never returns to its queue.
FinishIntentForGood ==
    /\ running
    /\ exec # None
    /\ Becomes(exec, "worked")
    /\ UNCHANGED <<linkVars, parserVars, mainVars>>

\* process_trade_intent returns; an error is only logged.
FinishIntent ==
    /\ running
    /\ exec # None
    /\ Becomes(exec, "worked")
    /\ exec' = None
    /\ UNCHANGED <<linkVars, parserVars, eventQ, intentQ, age, running, drops, accepted, taken>>

\* The receivers and the exec worker end with the program; the thread of a
\* subscription goes on, the task that would reconnect does not.
CtrlC ==
    /\ running
    /\ running' = FALSE
    /\ link' = IF link = "waiting" THEN "stopped" ELSE link
    /\ eventQ' = <<>> /\ intentQ' = <<>>
    /\ exec' = None
    /\ fate' = [t \in Tokens |->
                    IF t \in ToSet(eventQ) \cup ToSet(intentQ) \cup {exec}
                    THEN "cut" ELSE fate[t]]
    /\ UNCHANGED <<backoff, silent, shutdown, parserVars, age, drops, accepted, taken>>

Second ==
    /\ silent' = IF link = "subscribed" /\ silent < StallThreshold THEN silent + 1 ELSE silent
    /\ age' = [t \in Tokens |->
                    IF t \in ToSet(intentQ) /\ age[t] <= MaxIntentAge
                    THEN age[t] + 1 ELSE age[t]]
    /\ UNCHANGED <<link, backoff, shutdown, parserVars, eventQ, intentQ, exec,
                   running, drops, fate, accepted, taken>>

-----------------------------------------------------------------------------
Monitor ==
    \/ Subscribe \/ SubscribeFails \/ OtherFrame \/ Stall \/ EndOfStream
    \/ SeeShutdown \/ Joined \/ Reconnect \/ Shutdown
    \/ \E t \in Tokens : Frame(t)
Parsers == \E w \in Workers : TakeJob(w) \/ Fetch(w)
MainLoop == HandleEvent \/ TakeIntent \/ FinishIntent \/ CtrlC

PipelineNext == Monitor \/ Parsers \/ MainLoop \/ Second

PipelineSpec == PipelineInit /\ [][PipelineNext]_pipelineVars

\* Calls return, threads and tasks are scheduled, timers fire and seconds
\* pass.  Frames, the end of the stream, a shutdown and Ctrl+C need not come.
PipelineFairness ==
    /\ WF_pipelineVars(Subscribe \/ SubscribeFails)
    /\ WF_pipelineVars(Stall \/ SeeShutdown)
    /\ WF_pipelineVars(Joined)
    /\ WF_pipelineVars(Reconnect)
    /\ \A w \in Workers : WF_pipelineVars(TakeJob(w)) /\ WF_pipelineVars(Fetch(w))
    /\ WF_pipelineVars(HandleEvent)
    /\ WF_pipelineVars(TakeIntent)
    /\ WF_pipelineVars(FinishIntent)
    /\ WF_pipelineVars(Second)

FairPipelineSpec == PipelineSpec /\ PipelineFairness

-----------------------------------------------------------------------------
(* Properties.                                                             *)

Busy == {w \in Workers : job[w] # None}
Places == <<ToSet(parseQ), {job[w] : w \in Busy}, ToSet(eventQ), ToSet(intentQ),
            {exec} \ {None}>>

\* A creation that was seen and has no end yet is in exactly one channel or
\* in one pair of hands: nothing is lost silently or handled twice.
InOnePlace ==
    /\ {t \in Tokens : fate[t] = "moving"} = UNION {Places[i] : i \in 1..5}
    /\ \A i, j \in 1..5 : i # j => Places[i] \cap Places[j] = {}
    /\ \A v, w \in Busy : job[v] = job[w] => v = w
    /\ \A q \in {parseQ, eventQ, intentQ} : IsInjective(q)

\* dropped_intents_total counts the intents that were refused or too old, and
\* stale_drop_total the latter; no drop before the main loop is in either.
DropsAreCounted ==
    /\ drops.stale = Cardinality({t \in Tokens : fate[t] = "stale"})
    /\ drops.total = Cardinality({t \in Tokens : fate[t] \in {"stale", "refused"}})

\* The intents wait oldest first: the worker that meets a fresh one has left
\* no stale one behind, and a stale one hides no staler one.
OldestFirst ==
    \A i, j \in 1..Len(intentQ) : i < j => age[intentQ[i]] >= age[intentQ[j]]

\* Outside a session the monitor has no workers left.
NoStrayWorkers ==
    link \notin {"subscribed", "draining"} => Busy = {} /\ parseQ = <<>>

\* The worker has taken the first of the accepted intents and the queue holds
\* the others, and an accepted intent has none of the ends of the way to it.
AcceptedInOrder ==
    /\ running => accepted = taken \o intentQ
    /\ \A t \in ToSet(accepted) :
        \/ t \in ToSet(intentQ) \cup {exec}
        \/ fate[t] \in {"stale", "worked", "cut"}

\* The pipeline keeps track of every creation from the frame that showed it.
PipelineInv ==
    /\ PipelineTypeOK
    /\ InOnePlace
    /\ DropsAreCounted
    /\ OldestFirst
    /\ NoStrayWorkers
    /\ AcceptedInOrder

\* A session that ended is followed by another attempt to subscribe, unless
\* the program is stopping: joining the workers never takes for ever.
LinkComesBack == link \in {"draining", "waiting"} ~> link \in {"connecting", "stopped"}

\* Ctrl+C ends the monitor's thread too: its loop looks at the shutdown flag
\* every five seconds, for that purpose.
CtrlCEndsMonitor == ~running ~> link = "stopped"

\* The two planes keep the promise of a feed: no creation becomes an intent
\* twice, none is served that was lost, and intents are served in the order
\* the main loop enqueued them.
Feed == INSTANCE TokenFeed WITH
    seen <- {t \in Tokens : fate[t] # "unborn"},
    lost <- {t \in Tokens : fate[t] \in Lost} \ ToSet(accepted),
    served <- taken,
    open <- running

FeedIsKept == Feed!FeedSafety

\* And every intent is served in the end while the program runs.
FeedServes == Feed!FeedLiveness

=============================================================================
