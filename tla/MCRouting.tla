----------------------------- MODULE MCRouting -----------------------------
(***************************************************************************)
(* Work that model routing carries, side by side: a routed job, a firing   *)
(* of a workflow, and the cooldowns of failed providers.  They share the   *)
(* queue and its pollers but no row, so a behaviour is one of theirs: part *)
(* says whose, and the others stand still.                                 *)
(***************************************************************************)
EXTENDS RoutedJob, WorkflowRun, HealthScopes

VARIABLE part

routingVars == <<part, vars, runVars, healthVars>>

RoutingInit ==
  /\ part \in {"job", "firing", "providers"}
  /\ Init /\ (part # "job" => launch = "verify" /\ usage = 0)
  /\ RunInit /\ (part # "firing" => routed /\ active)
  /\ HealthInit

RoutingNext ==
  \/ part = "job" /\ Next /\ UNCHANGED <<part, runVars, healthVars>>
  \/ part = "firing" /\ RunNext /\ UNCHANGED <<part, vars, healthVars>>
  \/ part = "providers" /\ HealthNext /\ UNCHANGED <<part, vars, runVars>>

\* The fairness of FairSpec and RunFairness, each in its part.
RoutingFairness ==
  /\ WF_vars(part = "job" /\ Tick)
  /\ \A s \in Schedulers :
       /\ WF_vars(part = "job" /\ Step(s))
       /\ WF_vars(part = "job" /\ (RecoverJob(s) \/ RecoverTask(s)))
  /\ \A s \in Pollers : WF_runVars(part = "firing" /\ Handler(s))
  /\ WF_runVars(part = "firing" /\ \E s \in Pollers : ClaimTask(s))
  /\ WF_runVars(part = "firing" /\ Recovery)
  /\ WF_runVars(part = "firing" /\ TaskAges)
  /\ WF_runVars(part = "firing" /\ RunAges)
  /\ WF_runVars(part = "firing" /\ Orphaned /\ LeaseLapses)

RoutingSpec == RoutingInit /\ [][RoutingNext]_routingVars /\ RoutingFairness

-----------------------------------------------------------------------------
\* WorkRests, of the behaviours in which the job is the one that moves.
JobWorkRests == part = "job" => WorkRests
=============================================================================
