--------------------------- MODULE MetricsService ---------------------------
(***************************************************************************)
(* What Pipeline promises to the handlers that call calculateMetrics():    *)
(* every accepted job is answered through its callback, exactly once and   *)
(* in the order of acceptance, and stop() returns only when every accepted *)
(* job has been answered.                                                  *)
(***************************************************************************)
EXTENDS Naturals, Sequences

CONSTANT Jobs       \* the calls of calculateMetrics()

VARIABLES
  accepted,         \* jobs accepted, in order
  answered,         \* jobs whose callback has been called, in order
  closed            \* stop() has returned

svars == <<accepted, answered, closed>>

Init ==
  /\ accepted = <<>>
  /\ answered = <<>>
  /\ closed = FALSE

Accept(j) ==
  /\ ~closed
  /\ accepted' = Append(accepted, j)
  /\ UNCHANGED <<answered, closed>>

Answer ==
  /\ ~closed
  /\ Len(answered) < Len(accepted)
  /\ answered' = Append(answered, accepted[Len(answered) + 1])
  /\ UNCHANGED <<accepted, closed>>

Close ==
  /\ ~closed
  /\ answered = accepted
  /\ closed' = TRUE
  /\ UNCHANGED <<accepted, answered>>

Next == (\E j \in Jobs : Accept(j)) \/ Answer \/ Close

SafetySpec == Init /\ [][Next]_svars
Progress == WF_svars(Answer)
Spec == SafetySpec /\ Progress
=============================================================================
