----------------------------- MODULE MCNewUsers -----------------------------
(***************************************************************************)
(* Model-checking instance of the new users (FreshQueue) and of the daily  *)
(* loop that clears them (DailyGate).  A behaviour is about one of the     *)
(* two, and the other stays as it begins: what FreshQueue takes from the   *)
(* loop is that clear() is called again and again.                         *)
(***************************************************************************)
EXTENDS FreshQueue, DailyGate

VARIABLE part   \* "queue" or "gate"

allVars == <<part, vars, gateVars>>

MCInit ==
  /\ part \in {"queue", "gate"}
  /\ Init /\ GateInit
  /\ part = "queue" => clock = 0 /\ ~jobFirst

InQueue(step) == part = "queue" /\ step /\ UNCHANGED <<part, gateVars>>
InGate(step)  == part = "gate" /\ step /\ UNCHANGED <<part, vars>>

MCNext == InQueue(Next) \/ InGate(GateNext)

\* The fairness of both: time passes, and the threads take their steps.
MCSpec ==
  /\ MCInit /\ [][MCNext]_allVars
  /\ WF_allVars(InQueue(Tick) \/ InGate(GateTick))
  /\ WF_allVars(InQueue(SetQueue) \/ InGate(Loop))
  /\ WF_allVars(InQueue(ClearThread))
-----------------------------------------------------------------------------
\* The loop of ClearThread or FreshThread runs its job again and again.
JobRepeats == part = "gate" => RunsForever
=============================================================================
