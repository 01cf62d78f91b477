------------------------------ MODULE ApiCall ------------------------------
(***************************************************************************)
(* What a Poll of internal/collector relies on for each call it makes: it  *)
(* is answered or it fails, once; and a call whose context has ended does  *)
(* not stay pending.  Nothing is promised while the context lives.         *)
(***************************************************************************)

VARIABLES
  context,  \* the call's context: "live" or "done"
  verdict   \* "pending", "answered" or "failed"

vars == <<context, verdict>>

Init ==
  /\ context = "live"
  /\ verdict = "pending"

ContextEnds ==
  /\ context = "live"
  /\ context' = "done"
  /\ UNCHANGED verdict

CallEnds ==
  /\ verdict = "pending"
  /\ verdict' \in {"answered", "failed"}
  /\ UNCHANGED context

Next == ContextEnds \/ CallEnds

Spec == Init /\ [][Next]_vars

FairSpec == Spec /\ WF_vars(context = "done" /\ CallEnds)
=============================================================================
