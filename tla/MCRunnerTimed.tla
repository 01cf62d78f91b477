--------------------------- MODULE MCRunnerTimed ---------------------------
(* Instances of RunnerTimed for TLC.  One unit is 5 s divided by Grace. *)
EXTENDS RunnerTimed, TLC

CONSTANTS d1, d2

MCDomains == {d1, d2}

\* d1 has the shortest interval config accepts, 5 s; d2 has one just longer
\* than pollTimeout.
MCInterval == d1 :> Grace @@ d2 :> PollTimeout + 1
=============================================================================
