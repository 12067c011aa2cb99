------------------------------- MODULE RpcPool -------------------------------
(***************************************************************************)
(* The pool of RPC endpoints.  Callers ask for a client, call it, and tell *)
(* the pool how the call went; the pool charges the endpoint that is the   *)
(* active one by then.   A monitor checks every endpoint in turn and then  *)
(* goes back to a better one.  All of it is plain loads and stores of      *)
(* atomics, so that the steps of callers and monitor mix; a scan of the    *)
(* endpoints and the store that follows it are taken as one step.  Average *)
(* latencies are abstracted: they only ever choose among healthy           *)
(* endpoints.                                                              *)
(***************************************************************************)
EXTENDS Naturals, FiniteSets

CONSTANTS
    Callers,
    Priorities,         \* of the endpoints, in the order of the sorted list
    ErrorThreshold      \* ERROR_THRESHOLD: 3

ASSUME RpcAssumption ==
    /\ IsFiniteSet(DOMAIN Priorities)
    /\ DOMAIN Priorities = 0..(Cardinality(DOMAIN Priorities) - 1)
    /\ DOMAIN Priorities # {} /\ \A i \in DOMAIN Priorities : Priorities[i] \in Nat
    /\ \A i, j \in DOMAIN Priorities : i < j => Priorities[i] <= Priorities[j]
    /\ ErrorThreshold \in Nat \ {0}

VARIABLES
    works,      \* the endpoints that answer, now
    currentIdx, \* current: the index of the active endpoint
    healthy,    \* of each endpoint
    errors,     \*   error_count, of which nothing beyond the threshold matters
    caller      \* where each caller, and the monitor, is

rpcVars == <<works, currentIdx, healthy, errors, caller>>

Nodes == DOMAIN Priorities
MONITOR == "monitor"
Users == Callers \cup {MONITOR}
CallSteps == {"idle", "calling", "failed", "counted", "marked", "succeeded", "cleared", "healed"}

RpcInit ==
    /\ works \in SUBSET Nodes
    /\ currentIdx = 0
    /\ healthy = Nodes
    /\ errors = [e \in Nodes |-> 0]
    /\ caller = [u \in Users |-> [step |-> "idle", endpoint |-> 0]]

Goes(u, step, e) == caller' = [caller EXCEPT ![u].step = step, ![u].endpoint = e]
Is(u, step) == caller[u].step = step
Of(u) == caller[u].endpoint

First(S) == CHOOSE e \in S : \A x \in S : e <= x

-----------------------------------------------------------------------------
(* A caller.                                                               *)

\* The active endpoint if it is healthy, else the first that is, which
\* becomes the active one, else the first.
GetClient(u) ==
    /\ u # MONITOR
    /\ Is(u, "idle")
    /\ IF currentIdx \in healthy
       THEN Goes(u, "calling", currentIdx) /\ UNCHANGED currentIdx
       ELSE IF healthy # {}
            THEN currentIdx' = First(healthy) /\ Goes(u, "calling", First(healthy))
            ELSE Goes(u, "calling", 0) /\ UNCHANGED currentIdx
    /\ UNCHANGED <<works, healthy, errors>>

\* A caller's outcome is charged to the endpoint that is active by then, the
\* monitor's to the one it has checked.
Charged(u) == IF u = MONITOR THEN Of(u) ELSE currentIdx

CallFails(u) ==
    /\ Is(u, "calling") /\ Of(u) \notin works
    /\ Goes(u, "failed", Charged(u))
    /\ UNCHANGED <<works, currentIdx, healthy, errors>>

CallSucceeds(u) ==
    /\ Is(u, "calling") /\ Of(u) \in works
    /\ Goes(u, "succeeded", Charged(u))
    /\ UNCHANGED <<works, currentIdx, healthy, errors>>

-----------------------------------------------------------------------------
(* RpcEndpoint::record_failure and record_success, store by store.         *)

CountError(u) ==
    /\ Is(u, "failed")
    /\ LET n == IF errors[Of(u)] < ErrorThreshold THEN errors[Of(u)] + 1 ELSE ErrorThreshold IN
       /\ errors' = [errors EXCEPT ![Of(u)] = n]
       /\ Goes(u, IF n >= ErrorThreshold THEN "counted" ELSE "marked", Of(u))
    /\ UNCHANGED <<works, currentIdx, healthy>>

MarkUnhealthy(u) ==
    /\ Is(u, "counted")
    /\ healthy' = healthy \ {Of(u)}
    /\ Goes(u, "marked", Of(u))
    /\ UNCHANGED <<works, currentIdx, errors>>

ClearErrors(u) ==
    /\ Is(u, "succeeded")
    /\ errors' = [errors EXCEPT ![Of(u)] = 0]
    /\ Goes(u, "cleared", Of(u))
    /\ UNCHANGED <<works, currentIdx, healthy>>

\* Mutant of MarkHealthy: only the errors are cleared.
MarkHealthyNot(u) ==
    /\ Is(u, "cleared")
    /\ Goes(u, "healed", Of(u))
    /\ UNCHANGED <<works, currentIdx, healthy, errors>>

MarkHealthy(u) ==
    /\ Is(u, "cleared")
    /\ healthy' = healthy \cup {Of(u)}
    /\ Goes(u, "healed", Of(u))
    /\ UNCHANGED <<works, currentIdx, errors>>

-----------------------------------------------------------------------------
(* What the pool does about it.                                            *)

\* Mutant of Failover: the rotation does not wrap around.
FailoverUnwrapped ==
    LET others == healthy \ {currentIdx} IN
    currentIdx' = IF others # {} THEN First(others) ELSE currentIdx + 1

\* To the first other healthy endpoint, or else to the next one.
Failover ==
    LET others == healthy \ {currentIdx} IN
    currentIdx' = IF others # {} THEN First(others)
               ELSE (currentIdx + 1) % Cardinality(Nodes)

\* The count is read again, after whatever others have done to it.
EndFailure(u) ==
    /\ Is(u, "marked") /\ u # MONITOR
    /\ IF errors[Of(u)] >= ErrorThreshold THEN Failover ELSE UNCHANGED currentIdx
    /\ Goes(u, "idle", 0)
    /\ UNCHANGED <<works, healthy, errors>>

\* A call that took too long may lead to any healthy endpoint: the first
\* whose average is known and better by 20 percent.
TryFailoverForLatency == \E e \in healthy \ {currentIdx} : currentIdx' = e

EndSuccess(u) ==
    /\ Is(u, "healed") /\ u # MONITOR
    /\ UNCHANGED currentIdx \/ TryFailoverForLatency
    /\ Goes(u, "idle", 0)
    /\ UNCHANGED <<works, healthy, errors>>

-----------------------------------------------------------------------------
(* The monitor.                                                            *)

RunHealthChecks ==
    /\ Is(MONITOR, "idle")
    /\ Goes(MONITOR, "calling", 0)
    /\ UNCHANGED <<works, currentIdx, healthy, errors>>

Checked == Is(MONITOR, "healed") \/ Is(MONITOR, "marked")

NextCheck ==
    /\ Checked
    /\ Of(MONITOR) + 1 \in Nodes
    /\ Goes(MONITOR, "calling", Of(MONITOR) + 1)
    /\ UNCHANGED <<works, currentIdx, healthy, errors>>

\* Once all are checked: to the first healthy endpoint of a better priority.
MaybeSwitchToBetter ==
    /\ Checked
    /\ Of(MONITOR) + 1 \notin Nodes
    /\ LET better == {e \in healthy : Priorities[e] < Priorities[currentIdx]} IN
       currentIdx' = IF better # {} THEN First(better) ELSE currentIdx
    /\ Goes(MONITOR, "idle", 0)
    /\ UNCHANGED <<works, healthy, errors>>

\* Nodes break and come back.
NodesChange ==
    /\ \E e \in Nodes : works' \in {works \cup {e}, works \ {e}}
    /\ works' # works
    /\ UNCHANGED <<currentIdx, healthy, errors, caller>>

Moves(u) ==
    \/ CallFails(u) \/ CallSucceeds(u)
    \/ CountError(u) \/ MarkUnhealthy(u) \/ ClearErrors(u) \/ MarkHealthy(u)
    \/ EndFailure(u) \/ EndSuccess(u)
Checks == RunHealthChecks \/ NextCheck \/ MaybeSwitchToBetter

RpcNext ==
    \/ \E u \in Users : GetClient(u) \/ Moves(u)
    \/ Checks
    \/ NodesChange

RpcSpec == RpcInit /\ [][RpcNext]_rpcVars

\* Calls come back and the monitor goes its rounds; nobody need ask for a
\* client, and endpoints need not change.
RpcFairness ==
    /\ \A u \in Users : WF_rpcVars(Moves(u))
    /\ WF_rpcVars(Checks)

-----------------------------------------------------------------------------
(* Properties.                                                             *)

\* The index of the active endpoint never leaves the list, which every reader
\* of it relies on: the pool indexes with it without a check.
RpcTypeOK ==
    /\ works \subseteq Nodes /\ healthy \subseteq Nodes
    /\ currentIdx \in Nodes
    /\ errors \in [Nodes -> 0..ErrorThreshold]
    /\ caller \in [Users -> [step : CallSteps, endpoint : Nodes]]

Preferred == {e \in Nodes : Priorities[e] = Priorities[0]}

\* Once all endpoints answer again they are all held to be healthy for good,
\* whatever was charged to which of them meanwhile, and the calls come back
\* to an endpoint of the best priority again and again.
PoolRecovers ==
    <>[](works = Nodes) =>
        <>[](healthy = Nodes) /\ []<>(currentIdx \in Preferred)

=============================================================================
