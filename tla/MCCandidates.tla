---------------------------- MODULE MCCandidates ----------------------------
(***************************************************************************)
(* Small instance of what becomes of a candidate that the feed brings, in  *)
(* three parts each of which works alone: the filter of Pump.fun tokens,   *)
(* the rug check of pools with its blacklist, and the paper trader with    *)
(* the log of trades.  Six tokens cover the filters' reasons; two keys fit *)
(* in a dedup cache and one creator in the rate limiter; pools have every  *)
(* combination of good and bad facts, and at most one read fails.  The     *)
(* paper trader has two positions, three trades (a position may sell       *)
(* twice), a loss, a gain, a smaller one that only time closes, two days.  *)
(***************************************************************************)
EXTENDS PumpFilter, RugCheck, PaperTrading

VARIABLE kind       \* what is looked at: tokens, pools or paper trading

candidatesVars == <<kind, filterVars, checkerVars, paperVars>>

MCMeta(name, symbol, host) == [name |-> name, symbol |-> symbol, host |-> host]

MCToken(signature, mint, user) ==
    [signature |-> signature, mint |-> mint, user |-> user, payer |-> user, sane |-> TRUE,
     meta |-> MCMeta(<<"a", "b">>, <<"a">>, "ipfs"), spend |-> 2]

MCTokens == {
    MCToken("s1", "m1", "u1"),
    MCToken("s2", "m1", "u1"),
    [MCToken("s3", "m2", "u1") EXCEPT !.meta = Absent, !.spend = Absent],
    [MCToken("s4", "m3", "u2") EXCEPT !.meta = MCMeta(<<"a", "a", "a">>, <<"b">>, Absent)],
    [MCToken("s5", "m4", "u3") EXCEPT !.payer = "u1", !.spend = 1],
    [MCToken("s6", "m5", "u3") EXCEPT !.sane = FALSE]}

MCLengths == 1..3

MCLp == {[burned |-> share[1], locked |-> share[2]] :
            share \in {<<95, 0>>, <<0, 95>>, <<50, 40>>, <<50, 0>>}}

MCPools ==
    [mintAuthority : BOOLEAN, freezeAuthority : BOOLEAN, supply : {1, 1000},
     lp : MCLp, top10 : {20, 40}, liquidity : {1, 9},
     extensions : {{"MetadataPointer"}, {"TransferHook", "MintCloseAuthority"}},
     risks : {<<>>, <<"High">>}, score : {7900}]

MCGains == {-2, 1, 2}

MCFailureSets == {{}} \cup {{r} : r \in Reads}

CandidatesInit ==
    /\ kind \in {"tokens", "pools", "paper"}
    /\ FilterInit /\ RugInit /\ PaperInit
    /\ kind # "tokens" => ~enabled

CandidatesNext ==
    /\ UNCHANGED kind
    /\ \/ kind = "tokens" /\ FilterNext /\ UNCHANGED <<checkerVars, paperVars>>
       \/ kind = "pools" /\ RugNext /\ UNCHANGED <<filterVars, paperVars>>
       \/ kind = "paper" /\ PaperNext /\ UNCHANGED <<filterVars, checkerVars>>

CandidatesSpec == CandidatesInit /\ [][CandidatesNext]_candidatesVars

\* The rug check alone.
FreezeSpec == CandidatesInit /\ kind = "pools" /\ [][CandidatesNext]_candidatesVars

=============================================================================
