---------------------------- MODULE MCJitoSender ----------------------------
(***************************************************************************)
(* Small instance: a stop lasts two seconds and takes a run of three       *)
(* 429s, backoffs are one, two and three seconds, the queue has two places *)
(* and the two endpoints have scores up to two.  The API serves one        *)
(* request at a time, of either kind: every race of two tasks is there.    *)
(***************************************************************************)
EXTENDS JitoSender

MCHandlers == {"api"}

\* Everything goes on: the trader takes its next step and sends again, the
\* API completes what it has begun, and seconds pass.
FairSpec ==
    /\ SenderSpec
    /\ WF_jitoVars(TraderNext)
    /\ \A h \in Handlers : WF_jitoVars(StopAccess(h))
    /\ WF_jitoVars(Second)

\* Seconds pass; nothing else is assumed.
TimedSpec == SenderSpec /\ WF_jitoVars(Second)

=============================================================================
