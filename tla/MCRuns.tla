------------------------------- MODULE MCRuns -------------------------------
(***************************************************************************)
(* Three instances of AgentRun and an automation side by side: a turn that *)
(* asks for two approvals, of a folder call and of the drafted artefact;   *)
(* one that asks for a folder call and may lose its process; a scheduled   *)
(* run, where nobody is in the turn; and the schedule of such runs, with   *)
(* one machine.  A behaviour is one of theirs: part says whose.            *)
(***************************************************************************)
EXTENDS AgentRun, Automations

CONSTANTS s1, s2

VARIABLE part

runsVars == <<part, vars, autoVars>>

\* Both schedulers are up from the start; every folder is on the one machine.
BothUp == {{s1, s2}}
OneMachine == [x \in Folders |-> CHOOSE m \in Machines : TRUE]

Crashing == INSTANCE AgentRun
              WITH Calls <- Folder, Artefact <- {}, MaxCrashes <- 1
Scheduled == INSTANCE AgentRun
               WITH Calls <- Folder, Artefact <- {}, Unattended <- TRUE

RunsInit ==
  /\ part \in {"gates", "crashing", "scheduled", "automation"}
  /\ Init /\ (part = "automation" => online)
  /\ AutoInit /\ folder # NoFolder /\ reachable = Machines

RunsNext ==
  /\ \/ part = "gates" /\ Next /\ UNCHANGED autoVars
     \/ part = "crashing" /\ Crashing!Next /\ UNCHANGED autoVars
     \/ part = "scheduled" /\ Scheduled!Next /\ UNCHANGED autoVars
     \/ part = "automation" /\ AutoNext /\ UNCHANGED vars
  /\ UNCHANGED part

\* The fairness of FairSpec, of the parts without a crash, and AutoFairness.
RunsFairness ==
  /\ WF_vars(part = "gates" /\ TurnStep)
  /\ WF_vars(part = "gates" /\ HandlerStep)
  /\ \A r \in Approvals : WF_vars(part = "gates" /\ ResumeStep(r))
  /\ WF_vars(part = "scheduled" /\ Scheduled!TurnStep)
  /\ WF_vars(part = "scheduled" /\ Scheduled!HandlerStep)
  /\ \A r \in Approvals : WF_vars(part = "scheduled" /\ Scheduled!ResumeStep(r))
  /\ \A s \in Schedulers :
       /\ SF_autoVars(part = "automation" /\ Scan(s))
       /\ WF_autoVars(part = "automation" /\ Serve(s))
  /\ WF_autoVars(part = "automation" /\ ExpireApprovals)

RunsSpec == RunsInit /\ [][RunsNext]_runsVars /\ RunsFairness

-----------------------------------------------------------------------------
\* ApprovedIsSettled, of the run nobody sits in front of; and GateIsLeft, of
\* the turns whose process lives.
ScheduledIsSettled == part = "scheduled" => ApprovedIsSettled
LiveGateIsLeft == part = "gates" => GateIsLeft
=============================================================================
