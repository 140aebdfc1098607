--------------------------- MODULE MCReportReview ---------------------------
(* Model-checking instance of ReportReview: two requests that ask for two of
   Asked, in this order, since the requests are interchangeable.  A summary is
   missing at first only beside requests of a few steps (the first Short of
   Asked), because the request for the queue then rebuilds it as well.  The
   citation is ready at first: the other case is this one with ready negated. *)
EXTENDS ReportReview, Sequences, TLC

CONSTANTS q1, q2

Asked == <<"post", "delete", "reopen", "comment", "reject", "fields">>
Short == 2

MCInit ==
    /\ Init
    /\ ready
    /\ \E i, j \in DOMAIN Asked :
          /\ i <= j
          /\ op = (q1 :> Asked[i] @@ q2 :> Asked[j])
          /\ summary = None => j <= Short

MCSpec == MCInit /\ [][Next]_vars /\ Fairness
=============================================================================
