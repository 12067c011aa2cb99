------------------------------ MODULE RugCheck ------------------------------
(***************************************************************************)
(* RugChecker::check_pool.  The blacklist is asked first; then seven reads *)
(* run together, each of which may fail, and their results are scored: a   *)
(* pool is safe if nothing at all counts against it.  A pool is the facts  *)
(* the reads report, amounts in per cent and in SOL.                       *)
(***************************************************************************)
EXTENDS Blacklist, Integers, Sequences

CONSTANTS
    Pools,              \* the pools that may come
    FailureSets,        \* the reads that may fail together
    RequireMintRevoked, RequireFreezeRevoked,
    MaxTop10, MinLiquidity,
    HoneypotScore       \* a report of 8000 or more is a honeypot

Reads == {"mint", "freeze", "lp", "top10", "liquidity", "token2022", "honeypot"}

ASSUME RugCheckAssumption ==
    /\ \A p \in Pools : IsFiniteSet(p.extensions)
    /\ FailureSets \subseteq SUBSET Reads
    /\ {RequireMintRevoked, RequireFreezeRevoked} \subseteq BOOLEAN
    /\ {MaxTop10, MinLiquidity} \subseteq Int
    /\ HoneypotScore \in Nat \ {0}

VARIABLES
    check,      \* the check in progress: its mint and what the blacklist said
    verdict     \* the last result

rugVars == <<check, verdict>>
checkerVars == <<listVars, rugVars>>

NoCheck == [mint |-> Nothing, listed |-> FALSE, known |-> FALSE]
NoVerdict == [safe |-> FALSE, failed |-> {}, freezable |-> FALSE, known |-> FALSE]

-----------------------------------------------------------------------------
(* What the reads report.                                                  *)

MintRevoked(p) == ~p.mintAuthority

\* In a mint account 36 bytes of mint authority are followed by the supply;
\* the code takes byte 36 for the tag of the freeze authority.
Byte36(p) == p.supply % 256
FreezeRevoked(p) == Byte36(p) # 1

NoLp == [burned |-> 0, locked |-> 0]
LpStatus(p, failed) == IF "lp" \in failed THEN NoLp ELSE p.lp

\* Mutant of Top10: unknown holders hold nothing.
Top10OrNone(p, failed) == IF "top10" \in failed THEN 0 ELSE p.top10

Top10(p, failed) == IF "top10" \in failed THEN 100 ELSE p.top10
Liquidity(p, failed) == IF "liquidity" \in failed THEN 0 ELSE p.liquidity

LpScore(lp) ==
    CASE lp.burned >= 90 -> 0
      [] lp.burned < 90 /\ lp.locked >= 90 -> 50
      [] lp.burned < 90 /\ lp.locked < 90 /\ lp.burned + lp.locked >= 90 -> 25
      [] OTHER -> 200

\* Extensions that are taken to be harmless, or of an account only.
Benign == {
    "MetadataPointer", "TokenMetadata", "InterestBearingConfig", "DefaultAccountState",
    "ImmutableOwner", "MemoTransfer", "CpiGuard", "TransferHookAccount", "GroupPointer",
    "TokenGroup", "GroupMemberPointer", "TokenGroupMember", "ConfidentialTransferAccount",
    "ConfidentialTransferFeeConfig", "ConfidentialTransferFeeAmount", "Uninitialized"}

\* Token2022Checker::check_mint: what each extension adds.
ExtensionScore(e) ==
    CASE e \in {"PermanentDelegate", "NonTransferable", "TransferHook"} -> 1000
      [] e \in {"TransferFeeConfig", "ConfidentialTransferMint"} -> 500
      [] e = "MintCloseAuthority" -> 200
      [] e \in Benign -> 0
      [] OTHER -> 100

Token2022Score(p, failed) ==
    LET thatScore(n) == Cardinality({e \in p.extensions : ExtensionScore(e) = n}) IN
    IF "token2022" \in failed THEN 0
    ELSE 1000 * thatScore(1000) + 500 * thatScore(500)
         + 200 * thatScore(200) + 100 * thatScore(100)

\* HoneypotChecker::analyze_report: the risks are read up to the first that
\* names a honeypot; before it, the serious ones add up.
IsHoneypot(p, failed) ==
    LET named == {i \in 1..Len(p.risks) : p.risks[i] = "honeypot"}
        serious == {i \in 1..Len(p.risks) : p.risks[i] = "High"}
    IN  /\ "honeypot" \notin failed
        /\ named # {} \/ p.score + 200 * Cardinality(serious) >= HoneypotScore

RiskScore(p, listed, failed) ==
    LET counts(bad, points) == IF bad THEN points ELSE 0 IN
      counts(listed, 1000)
    + counts(RequireMintRevoked /\ ~MintRevoked(p), 500)
    + counts(RequireFreezeRevoked /\ ~FreezeRevoked(p), 300)
    + LpScore(LpStatus(p, failed))
    + counts(Top10(p, failed) > MaxTop10, 100)
    + counts(Liquidity(p, failed) < MinLiquidity, 400)
    + Token2022Score(p, failed)
    + counts(IsHoneypot(p, failed), 1000)

\* Without the authorities there is no verdict: the check returns the error.
CheckErrs(failed) == failed \cap {"mint", "freeze"} # {}

-----------------------------------------------------------------------------
RugInit ==
    /\ ListInit
    /\ check = NoCheck
    /\ verdict = NoVerdict

StartCheck(m) ==
    /\ loaded
    /\ check = NoCheck
    /\ check' = [mint |-> m, listed |-> m \in deployers, known |-> m \in acked]
    /\ verdict' = NoVerdict
    /\ UNCHANGED listVars

FinishCheck(p, failed) ==
    /\ check # NoCheck
    /\ check' = NoCheck
    /\ verdict' = [safe |-> ~CheckErrs(failed) /\ RiskScore(p, check.listed, failed) = 0,
                   failed |-> failed,
                   freezable |-> p.freezeAuthority,
                   known |-> check.known]
    /\ UNCHANGED listVars

\* The blacklist's own steps; a crash takes the check in progress with it.
ListStep ==
    /\ ListNext
    /\ check' = IF loaded /\ ~loaded' THEN NoCheck ELSE check
    /\ UNCHANGED verdict

RugNext ==
    \/ \E m \in Mints : StartCheck(m)
    \/ \E p \in Pools, failed \in FailureSets : FinishCheck(p, failed)
    \/ ListStep

RugSpec == RugInit /\ [][RugNext]_checkerVars

-----------------------------------------------------------------------------
(* Properties.                                                             *)

\* The reads whose failure counts for nothing: those of the Token-2022 account
\* and of the honeypot report, and one whose limit is set so that what stands
\* in for the fact, holders of all tokens or no liquidity, keeps within it.
Unscored ==
    {"token2022", "honeypot"}
    \cup {r \in {"top10"} : MaxTop10 >= 100}
    \cup {r \in {"liquidity"} : MinLiquidity <= 0}

\* A check that could not read the authorities, the LP tokens, or the holders
\* or liquidity of a pool when there is a limit to them, never calls it safe.
FailuresAreUnsafe == verdict.safe => verdict.failed \subseteq Unscored

\* An acknowledged addition to the blacklist is respected by every check that
\* starts after it, across restarts.
KnownIsUnsafe == verdict.safe => ~verdict.known

\* With require_freeze_revoked no safe pool has a freeze authority: "Byte 36:
\* 0 = None (revoked), 1 = Some (active)".
SafeIsUnfreezable == verdict.safe /\ RequireFreezeRevoked => ~verdict.freezable

=============================================================================
