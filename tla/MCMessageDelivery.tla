------------------------- MODULE MCMessageDelivery --------------------------
(***************************************************************************)
(* Small instances of MessageDelivery and of DedupedDelivery for TLC.  Two *)
(* agents, three messages and batches of two, so that a batch may be       *)
(* incomplete, full and the last one; and three threads that call twice.   *)
(* The two modules share no variable and no property speaks of both, so    *)
(* that the steps of the one commute with those of the other: a behaviour  *)
(* has steps of one of them only.                                          *)
(***************************************************************************)
EXTENDS MessageDelivery, DedupedDelivery

VARIABLE part   \* the module whose steps this behaviour has

bothVars == <<part, vars, dedupedVars>>

BothInit == Init /\ DedupedInit /\ part \in {"agents", "threads"}

Agents == part = "agents" /\ Next /\ UNCHANGED <<part, dedupedVars>>

\* the threads may stop: each calls a bounded number of times
Threads == part = "threads" /\ (DedupedNext \/ UNCHANGED dedupedVars) /\ UNCHANGED <<part, vars>>

BothSpec ==
  /\ BothInit /\ [][Agents \/ Threads]_bothVars
  /\ WF_vars(part = "agents" /\ Step(Maintenance))
=============================================================================
