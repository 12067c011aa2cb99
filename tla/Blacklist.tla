----------------------------- MODULE Blacklist ------------------------------
(***************************************************************************)
(* The blacklist: a set in memory behind a lock, and the file it is saved  *)
(* to after every addition.  A save holds the lock for reading while it    *)
(* writes, so no addition comes in between, but two saves may write at the *)
(* same time.  fs::write empties the file before it fills it: a crash or   *)
(* an error in between, or another writer, may leave a file that cannot be *)
(* parsed, and then a restart cannot load it.                              *)
(***************************************************************************)
EXTENDS Naturals, FiniteSets

CONSTANTS
    Mints,
    Adders,         \* the callers of Blacklist::add
    Torn            \* a file that cannot be parsed

ASSUME BlacklistAssumption == \A s \in SUBSET Mints : Torn # s

VARIABLES
    loaded,     \* a blacklist is in memory
    deployers,  \* its set
    file,       \* what the file holds; an absent one loads as the empty set
    adding,     \* what each caller is adding
    saving,     \* the callers that hold the lock to save
    acked       \* recorded: the additions that have returned Ok

listVars == <<loaded, deployers, file, adding, saving, acked>>

Nothing == "nothing"

ListInit ==
    /\ loaded = TRUE
    /\ deployers = {}
    /\ file = {}
    /\ adding = [a \in Adders |-> Nothing]
    /\ saving = {}
    /\ acked = {}

\* The write lock waits for the saves in progress.
Insert(a, m) ==
    /\ loaded
    /\ adding[a] = Nothing
    /\ saving = {}
    /\ deployers' = deployers \cup {m}
    /\ adding' = [adding EXCEPT ![a] = m]
    /\ UNCHANGED <<loaded, file, saving, acked>>

\* The file is emptied.
StartSave(a) ==
    /\ adding[a] # Nothing
    /\ a \notin saving
    /\ saving' = saving \cup {a}
    /\ file' = Torn
    /\ UNCHANGED <<loaded, deployers, adding, acked>>

Leave(a) ==
    /\ saving' = saving \ {a}
    /\ adding' = [adding EXCEPT ![a] = Nothing]

\* Mutant of FinishSave: the set is written as it was when the call began.
FinishSaveEarlier(a) ==
    /\ a \in saving
    /\ Leave(a)
    /\ file' = deployers \ {adding[a]}
    /\ acked' = acked \cup {adding[a]}
    /\ UNCHANGED <<loaded, deployers>>

FinishSave(a) ==
    /\ a \in saving
    /\ Leave(a)
    /\ file' \in {deployers} \cup (IF saving = {a} /\ file = Torn THEN {} ELSE {Torn})
    /\ acked' = acked \cup {adding[a]}
    /\ UNCHANGED <<loaded, deployers>>

\* The write fails and leaves what it has written.
SaveFails(a) ==
    /\ a \in saving
    /\ Leave(a)
    /\ file' \in {file, Torn}
    /\ UNCHANGED <<loaded, deployers, acked>>

ListCrash ==
    /\ loaded
    /\ loaded' = FALSE
    /\ deployers' = {}
    /\ adding' = [a \in Adders |-> Nothing]
    /\ saving' = {}
    /\ UNCHANGED <<file, acked>>

Load ==
    /\ ~loaded
    /\ file # Torn
    /\ loaded' = TRUE
    /\ deployers' = file
    /\ UNCHANGED <<file, adding, saving, acked>>

ListNext ==
    \/ \E a \in Adders : \/ \E m \in Mints : Insert(a, m)
                         \/ StartSave(a) \/ FinishSave(a) \/ SaveFails(a)
    \/ ListCrash
    \/ Load

ListSpec == ListInit /\ [][ListNext]_listVars

-----------------------------------------------------------------------------
(* Properties.                                                             *)

\* An addition that was acknowledged is in force as long as the program runs
\* and after every restart that finds a file it can read.
AckedStaysListed == loaded => acked \subseteq deployers

=============================================================================
