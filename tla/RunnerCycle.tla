----------------------------- MODULE RunnerCycle -----------------------------
(***************************************************************************)
(* Runner implements PollCycle.  A domain is busy from the start of poll   *)
(* until poll books the result; setting the duration gauge afterwards, and *)
(* everything contexts, timers and monitors do, is invisible up there.     *)
(***************************************************************************)
EXTENDS Runner

phaseOf(state) ==
  CASE state = "start"                  -> "new"
    [] state \in {"polling", "joining"} -> "busy"
    [] state \in {"timing", "select"}   -> "idle"
    [] state = "stopped"                -> "stopped"

Cycle == INSTANCE PollCycle
           WITH shutdown <- ctxDone,
                phase    <- [d \in Domains |-> phaseOf(pc[d])],
                polls    <- pollNo,
                errors   <- scrapeErrors,
                lastOk   <- lastSuccess,
                finished <- returned

\* Every behaviour of the loops, polls and monitors of domain.go is one that
\* PollCycle allows, the fairness of PollCycle included.
ImplementsPollCycle == Cycle!FairSpec
=============================================================================
