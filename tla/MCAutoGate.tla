----------------------------- MODULE MCAutoGate -----------------------------
(***************************************************************************)
(* Small instance: 100 answers make a window that can be judged, so that   *)
(* one answer is one percent and the limits of three and of one percent    *)
(* can be met exactly and just exceeded; counts saturate at five.          *)
(***************************************************************************)
EXTENDS GateHistory

Answers(n, limited, client, server, detection) ==
    [success |-> n - limited - client - server, limited |-> limited,
     client |-> client, server |-> server, other |-> 0,
     detection |-> detection]

MCWindows ==
    { Answers(100, 3, 0, 1, "good"), Answers(100, 4, 0, 0, "good"),
      Answers(100, 0, 0, 2, "good"), Answers(100, 0, 50, 0, "good"),
      Answers(100, 0, 0, 0, "bad"), Answers(100, 0, 0, 0, "scarce"),
      Answers(99, 99, 0, 0, "good"), Answers(0, 0, 0, 0, "bad") }

=============================================================================
