---------------------------- MODULE WorkflowRun ----------------------------
(***************************************************************************)
(* One firing of a workflow and the durable task that carries it           *)
(* (workflows/mod.rs run, workflows/routing.rs, scheduler/mod.rs           *)
(* poll_once).  The firing is a workflow_runs row and a task.  A firing    *)
(* with a captured routing input is a routed one: it gets a routed_jobs    *)
(* row with a lease, is published under a fence, and is never replayed.    *)
(* Any other acts directly and leaves its fate to the queue's retries.     *)
(*                                                                         *)
(* Time is abstracted to what the code compares it with: a task or a run   *)
(* that was started long ago, a lease or a deadline that has passed.       *)
(***************************************************************************)
EXTENDS Naturals

CONSTANTS
    Pollers,
    Nobody,         \* owner of a job row nobody holds
    MaxRetries,     \* tasks.max_retries
    MaxRunCrashes,  \* bound: schedulers that die with the firing in hand
    MaxSwitches     \* bound: times an admin or the owner stops or resumes work

ASSUME RunConstants ==
    /\ Nobody \notin Pollers
    /\ MaxRetries \in Nat \ {0} /\ MaxRunCrashes \in Nat /\ MaxSwitches \in Nat

VARIABLES
    routed,      \* whether workflow_routing_inputs has a row of the firing
    run,         \* workflow_runs.status
    runOld,      \* it was started more than 3 minutes ago
    taskRow,     \* the task: status, retries, started more than 30 s ago
    job,         \* routed_jobs: status, owner, lease still valid, row locked
    active,      \* the engine is on and not paused; for a routed firing also
                 \* the workflow enabled and its owner entitled
    worker,      \* where the handler of each scheduler stands
    posted,      \* messages the firing has posted
    runCrashes, runSwitches

runVars == <<routed, run, runOld, taskRow, job, active, worker, posted,
             runCrashes, runSwitches>>
runBounds == <<runCrashes, runSwitches>>

NoJob == [at |-> "none", owner |-> Nobody, lease |-> FALSE, locked |-> FALSE]
Ended == {"succeeded", "failed", "skipped"}

RunInit ==
    /\ routed \in BOOLEAN
    /\ run = "queued" /\ runOld = FALSE
    /\ taskRow = [at |-> "queued", tries |-> 0, old |-> FALSE]
    /\ job = NoJob
    /\ active \in BOOLEAN
    /\ worker = [s \in Pollers |-> "idle"]
    /\ posted = 0
    /\ runCrashes = 0 /\ runSwitches = 0

-----------------------------------------------------------------------------
(* The queue. *)

\* poll_once claims the task; a batch may keep it waiting for its handler.
ClaimTask(s) ==
    /\ worker[s] = "idle" /\ taskRow.at = "queued"
    /\ taskRow' = [taskRow EXCEPT !.at = "running", !.old = FALSE]
    /\ worker' = [worker EXCEPT ![s] = "claimed"]
    /\ UNCHANGED <<routed, run, runOld, job, active, posted, runBounds>>

\* The verdict of an unrouted handler is the task's: done, again, or dead.
ReportTask(s) ==
    /\ worker[s] \in {"ok", "error"}
    /\ LET tries == taskRow.tries + 1
       IN taskRow' = IF worker[s] = "ok" THEN [taskRow EXCEPT !.at = "succeeded"]
                     ELSE [taskRow EXCEPT !.tries = tries,
                              !.at = IF tries >= MaxRetries THEN "dead_letter" ELSE "queued"]
    /\ worker' = [worker EXCEPT ![s] = "idle"]
    /\ UNCHANGED <<routed, run, runOld, job, active, posted, runBounds>>

-----------------------------------------------------------------------------
(* An unrouted firing: run, run_system_action, run_agent_action, finish. *)

Go(s, from, to) == worker[s] = from /\ worker' = [worker EXCEPT ![s] = to]

\* Engine off: the run is marked skipped, whatever it says, and not retried.
\* A query that fails before the claim is an error as well.
CheckEngine(s) ==
    /\ ~routed
    /\ \/ /\ active /\ Go(s, "claimed", "start") /\ UNCHANGED run
       \/ /\ Go(s, "claimed", "error") /\ UNCHANGED run
       \/ /\ ~active /\ Go(s, "claimed", "ok") /\ run' = "skipped"
    /\ UNCHANGED <<routed, runOld, taskRow, job, active, posted, runBounds>>

\* The workflow was edited to be routed after this firing was queued.
Outdated(s) ==
    /\ ~routed
    /\ Go(s, "claimed", "ok")
    /\ run' = "failed"
    /\ runSwitches < MaxSwitches /\ runSwitches' = runSwitches + 1
    /\ UNCHANGED <<routed, runOld, taskRow, job, active, posted, runCrashes>>

\* Mutant: a retry claims a run that is not queued any more.
ClaimRunAgain(s) ==
    /\ Go(s, "start", "acting")
    /\ run' = "running" /\ runOld' = FALSE
    /\ UNCHANGED <<routed, taskRow, job, active, posted, runBounds>>

\* Only a queued run proceeds.
ClaimRun(s) ==
    /\ \/ /\ run = "queued" /\ Go(s, "start", "acting")
          /\ run' = "running" /\ runOld' = FALSE
       \/ /\ run # "queued" /\ Go(s, "start", "ok")
          /\ UNCHANGED <<run, runOld>>
    /\ UNCHANGED <<routed, taskRow, job, active, posted, runBounds>>

\* post_message commits its message, then its child event; another action has
\* no message; either may fail.
Act(s) ==
    /\ \/ Go(s, "acting", "posted") /\ posted' = posted + 1
       \/ Go(s, "acting", "done") /\ UNCHANGED posted
       \/ Go(s, "acting", "failing") /\ UNCHANGED posted
       \/ Go(s, "posted", "done") /\ UNCHANGED posted
       \/ Go(s, "posted", "failing") /\ UNCHANGED posted
    /\ UNCHANGED <<routed, run, runOld, taskRow, job, active, runBounds>>

\* finish, and the error goes back to the queue.
FinishRun(s) ==
    /\ \/ Go(s, "done", "ok") /\ run' = "succeeded"
       \/ Go(s, "failing", "error") /\ run' = "failed"
    /\ UNCHANGED <<routed, runOld, taskRow, job, active, posted, runBounds>>

-----------------------------------------------------------------------------
(* A routed firing: routing::run and execute. *)

ClaimRouted(s) ==
    /\ routed
    /\ \/ /\ run = "queued" /\ Go(s, "claimed", "planning")
          /\ run' = "running" /\ runOld' = FALSE
       \/ /\ run # "queued" /\ Go(s, "claimed", "sync")
          /\ UNCHANGED <<run, runOld>>
    /\ UNCHANGED <<routed, taskRow, job, active, posted, runBounds>>

Allowed == active /\ run = "running"
LeaseHolds(s) == /\ job.owner = s /\ job.at = "running" /\ job.lease
                 /\ Allowed

\* Each stage ends in the next or in the error path.
Advance(s, ok, from, to) ==
    \/ ok /\ Go(s, from, to)
    \/ Go(s, from, "abandon")

\* The plan is frozen and the run is still allowed; the job row follows.
Plan(s) ==
    /\ Advance(s, Allowed, "planning", "planned")
    /\ UNCHANGED <<routed, run, runOld, taskRow, job, active, posted, runBounds>>

InsertJob(s) ==
    /\ Go(s, "planned", "driving")
    /\ job' = [at |-> "running", owner |-> s, lease |-> TRUE, locked |-> FALSE]
    /\ UNCHANGED <<routed, run, runOld, taskRow, active, posted, runBounds>>

\* The turn runs beside a monitor that checks and renews; it completes and the
\* run is still allowed, or either of them stops it.
Drive(s) ==
    /\ Advance(s, Allowed, "driving", "publishing")
    /\ UNCHANGED <<routed, run, runOld, taskRow, job, active, posted, runBounds>>

\* The publishing transaction: the fence locks the job row ...
Fence(s) ==
    /\ \/ LeaseHolds(s) /\ Go(s, "publishing", "delivering") /\ job' = [job EXCEPT !.locked = TRUE]
       \/ ~LeaseHolds(s) /\ Go(s, "publishing", "abandon") /\ UNCHANGED job
    /\ UNCHANGED <<routed, run, runOld, taskRow, active, posted, runBounds>>

\* ... and holds again after the delivery: link, job and run commit together.
PostMessage(s) ==
    /\ \/ /\ LeaseHolds(s) /\ Go(s, "delivering", "sync")
          /\ posted' = posted + 1
          /\ job' = [job EXCEPT !.at = "succeeded", !.owner = Nobody,
                                !.lease = FALSE, !.locked = FALSE]
          /\ run' = IF run = "running" THEN "succeeded" ELSE run
       \/ /\ ~LeaseHolds(s) /\ Go(s, "delivering", "abandon")
          /\ job' = [job EXCEPT !.locked = FALSE]
          /\ UNCHANGED <<run, posted>>
    /\ UNCHANGED <<routed, runOld, taskRow, active, runBounds>>

\* The ten minutes are over, wherever execute stands.
Timeout(s) ==
    /\ worker[s] \in {"planned", "publishing", "delivering"}
    /\ worker' = [worker EXCEPT ![s] = "abandon"]
    /\ job' = [job EXCEPT !.locked = @ /\ worker[s] # "delivering"]
    /\ UNCHANGED <<routed, run, runOld, taskRow, active, posted, runBounds>>

\* The error path fails the job and the run in one transaction.
Abandon(s) ==
    /\ Go(s, "abandon", "sync")
    /\ ~job.locked
    /\ job' = IF job.at = "running"
              THEN [job EXCEPT !.at = "failed", !.owner = Nobody, !.lease = FALSE]
              ELSE job
    /\ run' = IF run = "running" THEN "failed" ELSE run
    /\ UNCHANGED <<routed, runOld, taskRow, active, posted, runBounds>>

\* Mutant: a handler that found nothing to do reports success.
SyncByHandler(s) ==
    /\ Go(s, "sync", "idle")
    /\ taskRow' = [taskRow EXCEPT !.at = IF run \in {"failed", "skipped"} THEN "dead_letter"
                                   ELSE "succeeded"]
    /\ UNCHANGED <<routed, run, runOld, job, active, posted, runBounds>>

\* sync_task: the queue follows the run, not the handler's verdict.
Sync(s) ==
    /\ Go(s, "sync", "idle")
    /\ taskRow' = IF run \notin Ended THEN taskRow
                  ELSE [taskRow EXCEPT !.at = IF run = "succeeded" THEN "succeeded"
                                              ELSE "dead_letter"]
    /\ UNCHANGED <<routed, run, runOld, job, active, posted, runBounds>>

-----------------------------------------------------------------------------
(* Recovery, which every poll starts with, and what makes it necessary. *)

Polling == \E s \in Pollers : worker[s] = "idle"
TaskOpen == taskRow.at \in {"queued", "running"}

\* A job whose lease ran out is interrupted and its task buried.
Interrupt ==
    /\ Polling
    /\ job.at = "running" /\ ~job.lease /\ ~job.locked
    /\ job' = [job EXCEPT !.at = "interrupted", !.owner = Nobody]
    /\ taskRow' = IF TaskOpen THEN [taskRow EXCEPT !.at = "dead_letter"] ELSE taskRow
    /\ UNCHANGED <<routed, run, runOld, active, worker, posted, runBounds>>

\* The task of a job that ended follows it.
SettleTask ==
    /\ Polling
    /\ job.at \in {"succeeded", "failed", "interrupted"} /\ TaskOpen
    /\ taskRow' = [taskRow EXCEPT !.at = IF job.at = "succeeded" THEN "succeeded"
                                         ELSE "dead_letter"]
    /\ UNCHANGED <<routed, run, runOld, job, active, worker, posted, runBounds>>

\* A task that was claimed 30 s ago and whose run nobody claimed is queued again.
Requeue ==
    /\ Polling
    /\ routed /\ run = "queued" /\ taskRow.at = "running" /\ taskRow.old
    /\ taskRow' = [taskRow EXCEPT !.at = "queued"]
    /\ UNCHANGED <<routed, run, runOld, job, active, worker, posted, runBounds>>

\* Mutant: a run that died while planning is not looked for.
FailStoppedJobOnly ==
    /\ Polling
    /\ routed /\ run = "running"
    /\ job.at \in {"failed", "interrupted"}
    /\ run' = "failed"
    /\ UNCHANGED <<routed, runOld, taskRow, job, active, worker, posted, runBounds>>

\* A run is failed if it got no job in three minutes, or its job did not succeed.
FailStoppedRun ==
    /\ Polling
    /\ routed /\ run = "running"
    /\ (runOld /\ job.at = "none") \/ job.at \in {"failed", "interrupted"}
    /\ run' = "failed"
    /\ UNCHANGED <<routed, runOld, taskRow, job, active, worker, posted, runBounds>>

\* The task of a run that did not succeed is buried.
BuryTask ==
    /\ Polling
    /\ routed /\ run \in {"failed", "skipped"} /\ TaskOpen
    /\ taskRow' = [taskRow EXCEPT !.at = "dead_letter"]
    /\ UNCHANGED <<routed, run, runOld, job, active, worker, posted, runBounds>>

TaskAges ==
    /\ taskRow.at = "running" /\ ~taskRow.old
    /\ taskRow' = [taskRow EXCEPT !.old = TRUE]
    /\ UNCHANGED <<routed, run, runOld, job, active, worker, posted, runBounds>>

RunAges ==
    /\ run = "running" /\ ~runOld
    /\ runOld' = TRUE
    /\ UNCHANGED <<routed, run, taskRow, job, active, worker, posted, runBounds>>

\* The lease is not renewed in time, or the job's deadline passes.
LeaseLapses ==
    /\ job.lease
    /\ job' = [job EXCEPT !.lease = FALSE]
    /\ UNCHANGED <<routed, run, runOld, taskRow, active, worker, posted, runBounds>>

\* A scheduler dies, or loses the database, with the firing in hand.
Die(s) ==
    /\ worker[s] # "idle"
    /\ runCrashes < MaxRunCrashes /\ runCrashes' = runCrashes + 1
    /\ worker' = [worker EXCEPT ![s] = "idle"]
    /\ job' = [job EXCEPT !.locked = @ /\ worker[s] # "delivering"]
    /\ UNCHANGED <<routed, run, runOld, taskRow, active, posted, runSwitches>>

SwitchActive ==
    /\ runSwitches < MaxSwitches /\ runSwitches' = runSwitches + 1
    /\ active' = ~active
    /\ UNCHANGED <<routed, run, runOld, taskRow, job, worker, posted, runCrashes>>

-----------------------------------------------------------------------------
Handler(s) ==
    \/ CheckEngine(s) \/ ClaimRun(s) \/ Act(s) \/ FinishRun(s) \/ ReportTask(s)
    \/ ClaimRouted(s) \/ Plan(s) \/ InsertJob(s) \/ Drive(s) \/ Fence(s)
    \/ PostMessage(s) \/ Abandon(s) \/ Sync(s)

Recovery == Interrupt \/ SettleTask \/ Requeue \/ FailStoppedRun \/ BuryTask

RunNext ==
    \/ \E s \in Pollers :
          ClaimTask(s) \/ Handler(s) \/ Outdated(s) \/ Timeout(s) \/ Die(s)
    \/ Recovery
    \/ TaskAges \/ RunAges \/ LeaseLapses \/ SwitchActive

RunSpec == RunInit /\ [][RunNext]_runVars

\* Pollers poll and their handlers go on; clocks advance, and the lease of
\* a job nobody drives is not renewed.
Orphaned == \A s \in Pollers : worker[s] \notin {"driving", "publishing", "delivering"}

RunFairness ==
    /\ \A s \in Pollers : WF_runVars(Handler(s))
    /\ WF_runVars(\E s \in Pollers : ClaimTask(s))
    /\ WF_runVars(Recovery)
    /\ WF_runVars(TaskAges) /\ WF_runVars(RunAges)
    /\ WF_runVars(Orphaned /\ LeaseLapses)

RunFairSpec == RunSpec /\ RunFairness

-----------------------------------------------------------------------------
RunTypeOK ==
    /\ routed \in BOOLEAN /\ active \in BOOLEAN /\ runOld \in BOOLEAN
    /\ run \in Ended \cup {"queued", "running"}
    /\ taskRow \in [at : {"queued", "running", "succeeded", "dead_letter"},
                    tries : 0 .. MaxRetries, old : BOOLEAN]
    /\ job \in [at : {"none", "running", "succeeded", "failed", "interrupted"},
                owner : Pollers \cup {Nobody}, lease : BOOLEAN, locked : BOOLEAN]
    /\ worker \in [Pollers -> {"idle", "claimed", "start", "acting", "posted",
                      "done", "failing", "ok", "error", "planning", "planned",
                      "driving", "publishing", "delivering", "abandon", "sync"}]
    /\ posted \in Nat
    /\ runCrashes \in 0 .. MaxRunCrashes /\ runSwitches \in 0 .. MaxSwitches

\* However often the task is delivered, recovered, retried or timed out, the
\* firing posts at most one message.
PostsOnce == posted <= 1

\* What a routed firing delivered belongs to a run and a job that succeeded, and
\* no run succeeds without: recovery, a lapsed lease or a switch thrown during
\* the delivery never leaves a message beside a failed run.
DeliveredIsSucceeded ==
    routed => /\ (posted = 1 <=> run = "succeeded")
              /\ (run = "succeeded" <=> job.at = "succeeded")

\* The queue never shows a routed firing as done when its run did not succeed, nor
\* as dead when it did.
QueueTellsTruth ==
    routed => /\ taskRow.at = "succeeded" => run = "succeeded"
              /\ taskRow.at = "dead_letter" => run # "succeeded"

\* The verdict on a routed firing is final: it is never replayed, and neither
\* recovery nor a handler that comes late overwrites it.
RoutedVerdictIsFinal == [][routed /\ run \in Ended => run' = run]_runVars

\* A routed firing that the queue has handed out comes to rest whatever dies or is
\* switched off: its run has a verdict and its task says the same.
RoutedFiringRests ==
    (routed /\ taskRow.at = "running")
        ~> [](run \in Ended
              /\ taskRow.at = IF run = "succeeded" THEN "succeeded" ELSE "dead_letter")

\* What the comment on run (workflows/mod.rs) says of an unrouted firing: an
\* execution error goes back to the queue, to be retried or dead-lettered.
ErrorsAreRetried ==
    ~routed /\ taskRow.at = "succeeded" => run \in {"succeeded", "skipped"}
=============================================================================
