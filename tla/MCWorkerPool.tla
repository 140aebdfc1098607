--------------------------- MODULE MCWorkerPool ---------------------------
(* Model-checking instance of WorkerPool. *)
EXTENDS WorkerPool, TLC

CONSTANTS r1, r2

Keys == {"a", "b", "c", "d"}

\* Inputs for no thread, two and three.  The batches of Three are larger than
\* BatchSize, because a group is never divided.
Nothing == <<>>
Small == <<"a", "b">>
Two == <<"a", "a", "b", "c">>
Three == <<"a", "b", "b", "c", "c", "c", "d", "d", "d">>

\* Beside a request for three threads there is one that needs the same pool,
\* another, or none.
Inputs == r1 :> {Nothing, Small, Two, Three} @@ r2 :> {Three}

\* Every input of up to six blocks of three groups.
Sampled == UNION {[1..n -> {"a", "b", "c"}] : n \in 0..6}
=============================================================================
