--------------------------- MODULE EmergencyStop ---------------------------
(***************************************************************************)
(* The Jito emergency stop: the flag JITO_EMERGENCY_STOP, the time stamp   *)
(* EMERGENCY_STOP_ACTIVATED_US and the flag EMERGENCY_COUNTER_RESET, three *)
(* atomics that are read and written one at a time.  A task triggers the   *)
(* stop, or asks whether it is active; the one that asks and finds it      *)
(* expired also takes it back.  Every access is a step, and the steps of   *)
(* different tasks interleave.                                             *)
(*                                                                         *)
(* The tasks are the trader, which asks before it sends and triggers the   *)
(* stop after a run of 429s, and any number of requests to the API:        *)
(* POST /api/emergency_stop triggers it, and GET /metrics asks, to print   *)
(* the state of the stop.                                                  *)
(*                                                                         *)
(* clear_jito_emergency_stop is called by the auto gate only and is left   *)
(* out: the gate never gets the windows it acts on (see AutoGate).         *)
(***************************************************************************)
EXTENDS Integers

CONSTANTS
    Handlers,   \* the API's requests that are served at the same time
    StopLimit   \* EMERGENCY_STOP_AUTO_CLEAR_SECS: 60

TRADER == "trader"
Procs == {TRADER} \cup Handlers

ASSUME StopAssumption ==
    /\ StopLimit \in Nat \ {0}
    /\ TRADER \notin Handlers

VARIABLES
    active,     \* JITO_EMERGENCY_STOP
    stamp,      \* seconds since the time in EMERGENCY_STOP_ACTIVATED_US
    reset,      \* EMERGENCY_COUNTER_RESET
    pc,         \* where each task is in trigger_... or is_..._active
    verdict,    \* what is_..._active has told the trader, till it is used
    since,      \* recorded: seconds since the stop was last triggered
    raced       \* recorded: it was triggered while an earlier one was being
                \*   taken back, and what came of it has not settled yet

raceVars == <<since, raced>>
stopVars == <<active, stamp, reset, pc, verdict, raceVars>>

NoStamp == -1       \* the time stamp is 0

StopTypeOK ==
    /\ active \in BOOLEAN
    /\ stamp \in {NoStamp} \cup 0..StopLimit
    /\ reset \in BOOLEAN
    /\ pc \in [Procs -> {"idle", "stamping", "judging", "expiring",
                         "unstamping", "rearming"}]
    /\ verdict \in {"none", "open", "stopped"}
    /\ since \in 0..StopLimit
    /\ raced \in BOOLEAN

StopInit ==
    /\ active = FALSE
    /\ stamp = NoStamp
    /\ reset = FALSE
    /\ pc = [p \in Procs |-> "idle"]
    /\ verdict = "none"
    /\ since = StopLimit
    /\ raced = FALSE

Goto(p, label) == pc' = [pc EXCEPT ![p] = label]

\* A request of the API only prints what it is told.
Return(p, v) ==
    /\ Goto(p, "idle")
    /\ verdict' = IF p = TRADER THEN v ELSE verdict

\* A task that has found the stop expired has not yet taken back its flag and
\* its time, or only the flag.
TakingBack(P) == \E p \in P : pc[p] \in {"expiring", "unstamping"}

-----------------------------------------------------------------------------
\* Mutant of Trigger: a stop that is active gets a new time.
TriggerAgain(p) ==
    /\ pc[p] = "idle"
    /\ active' = TRUE
    /\ Goto(p, "stamping")
    /\ since' = 0
    /\ raced' = (raced \/ TakingBack(Procs))
    /\ UNCHANGED <<stamp, reset, verdict>>

\* trigger_jito_emergency_stop: only the one who sets the flag stores the time.
Trigger(p) ==
    /\ pc[p] = "idle"
    /\ active' = TRUE
    /\ IF active
       THEN UNCHANGED <<pc, raceVars>>
       ELSE /\ Goto(p, "stamping")
            /\ since' = 0
            /\ raced' = (raced \/ TakingBack(Procs))
    /\ UNCHANGED <<stamp, reset, verdict>>

Stamp(p) ==
    /\ pc[p] = "stamping"
    /\ stamp' = 0
    /\ Goto(p, "idle")
    /\ UNCHANGED <<active, reset, verdict, raceVars>>

\* is_jito_emergency_stop_active loads the flag, then the time.
Ask(p) ==
    /\ pc[p] = "idle"
    /\ IF active THEN Goto(p, "judging") /\ UNCHANGED verdict ELSE Return(p, "open")
    /\ UNCHANGED <<active, stamp, reset, raceVars>>

\* Mutant of Judge: a stop that has no time yet counts as expired.
JudgeUnstamped(p) ==
    /\ pc[p] = "judging"
    /\ IF stamp \in 0..(StopLimit - 1)
       THEN Return(p, "stopped")
       ELSE Goto(p, "expiring") /\ UNCHANGED verdict
    /\ UNCHANGED <<active, stamp, reset, raceVars>>

Judge(p) ==
    /\ pc[p] = "judging"
    /\ IF stamp < StopLimit
       THEN Return(p, "stopped")
       ELSE Goto(p, "expiring") /\ UNCHANGED verdict
    /\ UNCHANGED <<active, stamp, reset, raceVars>>

\* An expired stop is taken back in three stores.
Expire(p) ==
    /\ pc[p] = "expiring"
    /\ active' = FALSE
    /\ Goto(p, "unstamping")
    /\ UNCHANGED <<stamp, reset, verdict, raceVars>>

Unstamp(p) ==
    /\ pc[p] = "unstamping"
    /\ stamp' = NoStamp
    /\ Goto(p, "rearming")
    /\ raced' = (raced /\ (active \/ TakingBack(Procs \ {p})
                             \/ \E q \in Procs : pc[q] = "stamping"))
    /\ UNCHANGED <<active, reset, verdict, since>>

Rearm(p) ==
    /\ pc[p] = "rearming"
    /\ reset' = TRUE
    /\ Return(p, "open")
    /\ UNCHANGED <<active, stamp, raceVars>>

Access(p) == Stamp(p) \/ Judge(p) \/ Expire(p) \/ Unstamp(p) \/ Rearm(p)

Aged(age) == IF age \in 0..(StopLimit - 1) THEN age + 1 ELSE age

StopSecond ==
    /\ stamp' = Aged(stamp)
    /\ since' = Aged(since)
    /\ UNCHANGED <<active, reset, pc, verdict, raced>>

-----------------------------------------------------------------------------
\* A stop that was not triggered in the middle of an earlier one's being taken
\* back stays for its whole time (jito.rs:128), however many tasks trigger it,
\* ask for it and take it back at once; after such a race this holds again as
\* soon as a stop has been taken back with nothing left over.
LastsUnlessRaced == [][active /\ ~active' /\ ~raced => since = StopLimit]_stopVars

\* A stop that was triggered ends: "auto-cleared after {}s cooldown".
StopEnds == active ~> ~active

=============================================================================
