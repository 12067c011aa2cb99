----------------------------- MODULE PumpFilter -----------------------------
(***************************************************************************)
(* PumpFunFilterEngine::evaluate, the quality filter every Pump.fun token  *)
(* of the live trader goes through, with the state it keeps: two caches of *)
(* what was seen (signatures and mints) and the creations of each creator. *)
(* The filters are tried in the code's order and the first that decides    *)
(* ends the evaluation.  A token carries what the filters look at; a name  *)
(* and a symbol are short sequences of character classes.                  *)
(***************************************************************************)
EXTENDS Integers, Sequences, SequencesExt, FiniteSets

CONSTANTS
    FeedTokens,         \* the tokens that may come, as records
    MaxSeen, Ttl,       \* dedup: 200 000 keys for 600 seconds
    Window, MaxCreates, \* creator_rate_limit: 2 in 600 seconds
    MaxCreators,        \* creators tracked before a cleanup: 100 000
    Denylist, Allowlist,
    DefaultOnError, DecodeOnError, UriOnMissing, SpendOnMissing,
    RequireDecode, RequireUri, RequirePayer,
    NameLengths, SymbolLengths, AsciiOnly, DenyControls,
    MaxRun,             \* a character 6 times in a row is spam
    AllowedHosts,       \* IPFS and Arweave if allowed, and the https hosts
    MinSpend,
    Absent,             \* what a token does not carry
    Horizon, MaxEvaluations     \* bounds of the model

Verdicts == {"Allow", "Deny"}

ASSUME FilterAssumption ==
    /\ {MaxSeen, MaxRun} \subseteq Nat \ {0}
    /\ {Ttl, Window, MaxCreates, MaxCreators, MinSpend, Horizon, MaxEvaluations} \subseteq Nat
    /\ {DefaultOnError, DecodeOnError, UriOnMissing, SpendOnMissing} \subseteq Verdicts
    /\ {RequireDecode, RequireUri, RequirePayer, AsciiOnly, DenyControls} \subseteq BOOLEAN

VARIABLES
    enabled,    \* FALSE unless configured
    now,        \* seconds
    sigs, mints,    \* the DedupCaches: their keys and the order of insertion
    creates,    \* the times of each known creator's creations
    counts,     \* FilterMetrics
    history     \* recorded: what was evaluated when, and what decided

filterVars == <<enabled, now, sigs, mints, creates, counts, history>>

Empty == [entries |-> {}, order |-> <<>>]

Counters == {"total_evaluated", "total_allowed", "total_denied", "denied_dedup",
             "denied_rate_limit", "denied_denylist", "allowed_allowlist",
             "denied_meta", "denied_uri", "denied_commitment", "errors"}

FilterInit ==
    /\ enabled \in BOOLEAN
    /\ now = 0
    /\ sigs = Empty /\ mints = Empty
    /\ creates = [c \in {} |-> <<>>]
    /\ counts = [c \in Counters |-> 0]
    /\ history = <<>>

\* How many entries of a queue of the given length are popped, one by one
\* from its front, as long as they are old: what lies behind one that is kept
\* stays.
FrontRun(old, length) ==
    CHOOSE n \in 0..length : 1..n \subseteq old /\ n + 1 \notin old

-----------------------------------------------------------------------------
(* DedupCache.                                                             *)

\* Mutant of Expired: a key is forgotten a second early.
ExpiredEarly(cache) == {i \in 1..Len(cache.order) : now - cache.order[i].at >= Ttl}

Expired(cache) == {i \in 1..Len(cache.order) : now - cache.order[i].at > Ttl}

WithoutFirst(cache, n) ==
    [entries |-> cache.entries \ {cache.order[i].key : i \in 1..n},
     order |-> SubSeq(cache.order, n + 1, Len(cache.order))]

Evicted(cache) == WithoutFirst(cache, FrontRun(Expired(cache), Len(cache.order)))

Overflow(cache) ==
    LET full == Cardinality(cache.entries) - MaxSeen + 1 IN
    IF full > 0 THEN full ELSE 0

Duplicate(cache, key) == key \in Evicted(cache).entries

\* Mutant of Inserted: the oldest key stays known when its place is taken.
InsertedForgetful(cache, key) ==
    LET room == Evicted(cache)
        n == Overflow(room)
    IN  [entries |-> room.entries \cup {key},
         order |-> Append(SubSeq(room.order, n + 1, Len(room.order)),
                          [key |-> key, at |-> now])]

\* The cache when the key is no duplicate: room is made at its old end.
Inserted(cache, key) ==
    LET room == WithoutFirst(Evicted(cache), Overflow(Evicted(cache)))
    IN  [entries |-> room.entries \cup {key},
         order |-> Append(room.order, [key |-> key, at |-> now])]

CheckAndInsert(cache, key) ==
    IF Duplicate(cache, key) THEN Evicted(cache) ELSE Inserted(cache, key)

-----------------------------------------------------------------------------
(* CreatorRateLimiter.                                                     *)

Known(c) == IF c \in DOMAIN creates THEN creates[c] ELSE <<>>

Outside(times) == {i \in 1..Len(times) : times[i] < now - Window}

InWindow(times) == SubSeq(times, FrontRun(Outside(times), Len(times)) + 1, Len(times))

RateLimited(c) == Len(InWindow(Known(c))) >= MaxCreates

\* Mutant of Counted: the cleanup keeps only the creator at hand.
CountedForgetful(c) ==
    IF Cardinality(DOMAIN creates \cup {c}) > MaxCreators
    THEN [d \in {c} |-> Append(InWindow(Known(c)), now)]
    ELSE [d \in DOMAIN creates \cup {c} |->
              IF d = c THEN Append(InWindow(Known(c)), now) ELSE creates[d]]

\* A creation counts even if it is refused.  With too many creators, those
\* without a creation in the last Window seconds are dropped.
Counted(c) ==
    LET all == [d \in DOMAIN creates \cup {c} |->
                    IF d = c THEN Append(InWindow(Known(c)), now) ELSE creates[d]]
        recent == {d \in DOMAIN all : now - Last(all[d]) < Window}
    IN  IF Cardinality(DOMAIN all) > MaxCreators
        THEN [d \in recent |-> all[d]]
        ELSE all

-----------------------------------------------------------------------------
(* The filters.  A control character is of class "control", one outside    *)
(* ASCII of class "wide".                                                  *)

IsValidName(name, lengths) ==
    /\ Len(name) \in lengths
    /\ AsciiOnly => "wide" \notin ToSet(name)
    /\ DenyControls => "control" \notin ToSet(name)
    /\ ~ \E i \in 1..(Len(name) - MaxRun + 1) :
            \A j \in i..(i + MaxRun - 1) : name[j] = name[i]

\* decode_create_v2_args yields all of name, symbol and uri, or none.
Decoded(t) == t.meta # Absent

MetaFails(t) ==
    IF Decoded(t)
    THEN ~ (IsValidName(t.meta.name, NameLengths) /\ IsValidName(t.meta.symbol, SymbolLengths))
    ELSE RequireDecode /\ DecodeOnError = "Deny"

UriFails(t) ==
    IF Decoded(t) /\ t.meta.host # Absent
    THEN t.meta.host \notin AllowedHosts
    ELSE RequireUri /\ UriOnMissing = "Deny"

CommitmentFails(t) ==
    \/ /\ MinSpend > 0
       /\ IF t.spend = Absent THEN SpendOnMissing = "Deny" ELSE t.spend < MinSpend
    \/ RequirePayer /\ t.payer \notin {Absent, t.user}

\* What decides, in the code's order; the deadline may be past or not.
Decision(t, late) ==
    IF Duplicate(sigs, t.signature) THEN "F0_sig"
    ELSE IF Duplicate(mints, t.mint) THEN "F0_mint"
    ELSE IF ~t.sane THEN "F1"
    ELSE IF late THEN "budget"
    ELSE IF RateLimited(t.user) THEN "F2"
    ELSE IF t.user \in Denylist THEN "F3_deny"
    ELSE IF t.user \in Allowlist THEN "F3_allow"
    ELSE IF MetaFails(t) THEN "F5"
    ELSE IF UriFails(t) THEN "F6"
    ELSE IF CommitmentFails(t) THEN "F7"
    ELSE "PASS"

Repeats == {"F0_sig", "F0_mint"}
BeforeRate == Repeats \cup {"F1", "budget"}

Action(decision) ==
    CASE decision \in {"F3_allow", "PASS"} -> "Allow"
      [] decision = "budget" -> DefaultOnError
      [] OTHER -> "Deny"

Tallied(decision) ==
    {"total_evaluated", IF Action(decision) = "Allow" THEN "total_allowed" ELSE "total_denied"}
    \cup (CASE decision \in Repeats -> {"denied_dedup"}
            [] decision = "budget" -> {"errors"}
            [] decision = "F2" -> {"denied_rate_limit"}
            [] decision = "F3_deny" -> {"denied_denylist"}
            [] decision = "F3_allow" -> {"allowed_allowlist"}
            [] decision = "F5" -> {"denied_meta"}
            [] decision = "F6" -> {"denied_uri"}
            [] decision = "F7" -> {"denied_commitment"}
            [] OTHER -> {})

\* A repeated signature is refused before its mint is looked at.
Evaluate(t, late) ==
    LET decision == Decision(t, late) IN
    /\ enabled
    /\ Len(history) < MaxEvaluations
    /\ sigs' = CheckAndInsert(sigs, t.signature)
    /\ mints' = IF decision = "F0_sig" THEN mints ELSE CheckAndInsert(mints, t.mint)
    /\ creates' = IF decision \in BeforeRate THEN creates ELSE Counted(t.user)
    /\ counts' = [c \in Counters |->
                       counts[c] + IF c \in Tallied(decision) THEN 1 ELSE 0]
    /\ history' = Append(history, [token |-> t, at |-> now, decision |-> decision])
    /\ UNCHANGED <<enabled, now>>

\* A filter that is off lets everything pass and looks at nothing.
EvaluateDisabled(t) ==
    /\ ~enabled
    /\ t \in FeedTokens
    /\ UNCHANGED filterVars

FilterSecond ==
    /\ now < Horizon
    /\ now' = now + 1
    /\ UNCHANGED <<enabled, sigs, mints, creates, counts, history>>

FilterNext ==
    \/ \E t \in FeedTokens, late \in BOOLEAN : Evaluate(t, late)
    \/ \E t \in FeedTokens : EvaluateDisabled(t)
    \/ FilterSecond

FilterSpec == FilterInit /\ [][FilterNext]_filterVars

-----------------------------------------------------------------------------
(* Properties.                                                             *)

CacheOK(cache) ==
    /\ cache.entries = {cache.order[i].key : i \in 1..Len(cache.order)}
    /\ Len(cache.order) = Cardinality(cache.entries)
    /\ Len(cache.order) <= MaxSeen
    /\ \A i, j \in 1..Len(cache.order) : i < j => cache.order[i].at <= cache.order[j].at

\* The two halves of a cache stay in step: the keys that are known are those
\* whose turn to be evicted will come, once each and oldest first, and never
\* more than max_seen; and every evaluation is counted as one verdict.
FilterStateOK ==
    /\ CacheOK(sigs) /\ CacheOK(mints)
    /\ counts["total_evaluated"] = counts["total_allowed"] + counts["total_denied"]
    /\ counts["total_evaluated"] = Len(history)

Judged(i) == history[i].decision
NewMints(i, j) ==
    {history[k].token.mint : k \in {k \in i..j : Judged(k) \notin Repeats}}

\* A mint that was evaluated is refused when it comes again, whatever its
\* first verdict was, until ttl seconds have passed or max_seen other mints
\* have taken its place.
RepeatsAreRefused ==
    \A i, j \in 1..Len(history) :
        (/\ i < j
         /\ Judged(i) \notin Repeats
         /\ history[i].token.mint = history[j].token.mint
         /\ history[j].at - history[i].at <= Ttl
         /\ Cardinality(NewMints(i, j)) <= MaxSeen)
            => Judged(j) \in Repeats

Attempts(c, j) ==
    {i \in 1..(j - 1) : /\ history[i].token.user = c
                        /\ Judged(i) \notin BeforeRate
                        /\ history[j].at - history[i].at <= Window}

\* The rate limit is neither too strict nor forgetful: a creator is refused
\* for its rate after max_creates attempts within the window, and it gets past
\* the limit only if the window's last second excludes one of them.
RateIsKept ==
    \A j \in 1..Len(history) :
        LET c == history[j].token.user
            earlier == Attempts(c, j)
            inside == {i \in earlier : history[j].at - history[i].at < Window}
        IN  /\ Judged(j) = "F2" => Cardinality(earlier) >= MaxCreates
            /\ Judged(j) \notin BeforeRate \cup {"F2"} => Cardinality(inside) < MaxCreates

=============================================================================
