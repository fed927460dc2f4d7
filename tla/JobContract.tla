---------------------------- MODULE JobContract ----------------------------
(***************************************************************************)
(* What a durable routed job promises to the person who launched it,       *)
(* whatever happens to the processes that work on it: a round of work is   *)
(* started at most once and never replayed, a result is committed at most  *)
(* once and only by a round that is under way, the provider calls of the   *)
(* whole job stay within the cap fixed at the launch, and a job that has   *)
(* stopped never comes back.  Only an explicit continuation, after an      *)
(* answered question or a confirmed verification, opens the second round.  *)
(***************************************************************************)
EXTENDS Naturals

CONSTANTS
  MaxCalls,     \* the cap on provider calls, fixed when the job is queued
  Results       \* what a job may commit

VARIABLES
  state,        \* waiting, active, paused, succeeded or stopped
  round,        \* 1, or 2 after the continuation
  begun,        \* how often each round was started
  calls,        \* provider calls sent so far, planning included
  results       \* how often each result was committed

contractVars == <<state, round, begun, calls, results>>

Rounds == 1 .. 2

Init ==
  /\ state = "waiting"
  /\ round = 1
  /\ begun = [r \in Rounds |-> 0]
  /\ calls \in 0 .. MaxCalls
  /\ results = [e \in Results |-> 0]

Begin ==
  /\ state = "waiting" /\ begun[round] = 0
  /\ state' = "active"
  /\ begun' = [begun EXCEPT ![round] = 1]
  /\ UNCHANGED <<round, calls, results>>

\* A request that was already charged may still be sent after the job stopped.
Spend ==
  /\ begun[1] = 1
  /\ calls' \in calls .. MaxCalls
  /\ UNCHANGED <<state, round, begun, results>>

\* The result and what it does to the job are one commit.
Commit(e) ==
  /\ state = "active" /\ results[e] = 0
  /\ state' \in {"active", "paused", "succeeded"}
  /\ results' = [results EXCEPT ![e] = 1]
  /\ UNCHANGED <<round, begun, calls>>

Complete ==
  /\ state = "active"
  /\ state' = "succeeded"
  /\ UNCHANGED <<round, begun, calls, results>>

Stop ==
  /\ state \in {"waiting", "active", "paused"}
  /\ state' = "stopped"
  /\ UNCHANGED <<round, begun, calls, results>>

Continue ==
  /\ state \in {"paused", "succeeded"} /\ round = 1
  /\ state' = "waiting"
  /\ round' = 2
  /\ UNCHANGED <<begun, calls, results>>

Next ==
  \/ Begin \/ Spend \/ Complete \/ Stop \/ Continue
  \/ \E e \in Results : Commit(e)

Spec == Init /\ [][Next]_contractVars
=============================================================================
