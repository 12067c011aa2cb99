----------------------------- MODULE TokenFeed ------------------------------
(***************************************************************************)
(* What the detection plane and the execution plane promise each other.    *)
(* A creation that was seen is either lost on the way or accepted as an    *)
(* intent, once; the intents are served one at a time, in the order of     *)
(* their acceptance, and as long as the program runs every one is served.  *)
(***************************************************************************)
EXTENDS Sequences, SequencesExt

CONSTANT Tokens

VARIABLES
    seen,       \* the creations that were noticed
    lost,       \* those of them that will never be an intent
    accepted,   \* the others that became intents, in that order
    served,     \* those of them that have been taken up, in that order
    open        \* FALSE once the program is stopping

feedVars == <<seen, lost, accepted, served, open>>

FeedInit ==
    /\ seen = {}
    /\ lost = {}
    /\ accepted = <<>>
    /\ served = <<>>
    /\ open = TRUE

Undecided == seen \ (lost \cup ToSet(accepted))

See(t) ==
    /\ t \notin seen
    /\ seen' = seen \cup {t}
    /\ lost' \in {lost, lost \cup {t}}
    /\ UNCHANGED <<accepted, served, open>>

\* Several may be lost at once, with the queue they are in.
Lose ==
    /\ \E S \in SUBSET Undecided : lost' = lost \cup S
    /\ UNCHANGED <<seen, accepted, served, open>>

Accept(t) ==
    /\ open
    /\ t \in Undecided
    /\ accepted' = Append(accepted, t)
    /\ UNCHANGED <<seen, lost, served, open>>

Serve ==
    /\ open
    /\ Len(served) < Len(accepted)
    /\ served' = Append(served, accepted[Len(served) + 1])
    /\ UNCHANGED <<seen, lost, accepted, open>>

\* The program stops: the intents that wait stay unserved.
Close ==
    /\ open
    /\ open' = FALSE
    /\ lost' \in SUBSET seen
    /\ lost \subseteq lost'
    /\ lost' \cap ToSet(accepted) = {}
    /\ UNCHANGED <<seen, accepted, served>>

FeedNext ==
    \/ \E t \in Tokens : See(t) \/ Accept(t)
    \/ Lose
    \/ Serve
    \/ Close

\* What is promised of every step, and what must happen in the end.
FeedSafety == FeedInit /\ [][FeedNext]_feedVars
FeedLiveness == WF_feedVars(Serve)

FeedSpec == FeedSafety /\ FeedLiveness

=============================================================================
