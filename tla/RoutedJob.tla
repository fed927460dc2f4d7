----------------------------- MODULE RoutedJob -----------------------------
(***************************************************************************)
(* The durable life of one routed job: a draft verification with its       *)
(* optional repair, or a deep-research run with its optional question.     *)
(*                                                                         *)
(* The job is a routed_jobs row that holds the frozen plan and the ledger  *)
(* of calls; a tasks row makes the scheduler deliver it.  Each scheduler   *)
(* (one per backend process) takes a queued task, claims the job under a   *)
(* fresh owner and a 30 second lease, restores the ledger, and works:      *)
(* reserve in memory, checkpoint the charge under the lease, send,         *)
(* reconcile, checkpoint again, and finally commit its result in a         *)
(* transaction fenced on the same row.  Beside it a monitor renews the     *)
(* lease.  Processes crash, tasks are delivered twice, leases and the      *)
(* deadline run out, the owner of the job cancels, answers or asks for the *)
(* repair, and the recovery pass of every scheduler cleans up.             *)
(*                                                                         *)
(* Jobs are independent: every statement names one job id.                 *)
(***************************************************************************)
EXTENDS Naturals

CONSTANTS
  Schedulers,   \* the backend processes
  MaxCalls,     \* limits.max_calls, frozen at the launch
  MaxGrant,     \* bound: calls one request may reserve
  Deadline,     \* routed_jobs.deadline
  LeaseTime,    \* the 30 seconds of a lease
  StaleTime,    \* the 30 seconds after which an undelivered claim is put back
  MaxTime       \* bound on the clock

ASSUME NumberAssumption ==
  /\ MaxCalls \in Nat /\ MaxGrant \in Nat
  /\ Deadline \in Nat /\ LeaseTime \in Nat /\ StaleTime \in Nat /\ MaxTime \in Nat

VARIABLES
  launch,       \* what the row was queued for: its kind and input.repair
  status,       \* routed_jobs.status
  task,         \* routed_jobs.task_id: the first or the second task
  owner,        \* routed_jobs.owner: the number of the claim, 0 for NULL
  lease,        \* routed_jobs.lease_until
  usage,        \* routed_jobs.usage, in calls
  written,      \* the rows its fenced transactions inserted, per result
  queue,        \* tasks.status of the two tasks
  since,        \* tasks.started_at
  pc,           \* where each scheduler is with the task it took
  taken,        \* the task it took
  own,          \* the owner it claimed the job under
  ledger,       \* its in-memory ledger, in calls
  grant,        \* calls reserved for the request under way and not yet made
  now,          \* clock_timestamp()
  enabled,      \* the feature's configuration switch
  claims,       \* history: how often each task claimed the job
  sent,         \* history: provider calls really sent
  late          \* history: requests sent after the right to work had lapsed

jobVars    == <<status, task, owner, lease, usage, written>>
queueVars  == <<queue, since>>
workVars   == <<pc, taken, own, ledger, grant>>
envVars    == <<launch, now, enabled>>
histVars   == <<claims, sent, late>>
vars == <<jobVars, queueVars, workVars, envVars, histVars>>

Tasks == 1 .. 2
Results == {"verified", "repaired", "asked", "published"}
Status == {"queued", "running", "awaiting_input", "succeeded", "failed",
           "cancelled", "interrupted"}
Live == {"queued", "running", "awaiting_input"}
Stopped == {"failed", "cancelled", "interrupted"}
QueueStatus == {"none", "queued", "running", "succeeded", "dead_letter"}

\* A scheduler inside its claim: able to spend or to commit.
Working == {"working", "reserved", "charged", "sent", "settled"}
WorkPC == Working \cup {"idle", "delivered", "committed", "failing", "syncing"}

\* A verification, a verification with its repair in one go, a research run.
Launches == {"verify", "verify_and_repair", "research"}

Init ==
  /\ launch \in Launches
  /\ status = "queued" /\ task = 1 /\ owner = 0 /\ lease = 0
  /\ usage \in 0 .. MaxCalls
  /\ written = [e \in Results |-> 0]
  /\ queue = [t \in Tasks |-> IF t = 1 THEN "queued" ELSE "none"]
  /\ since = [t \in Tasks |-> 0]
  /\ pc = [s \in Schedulers |-> "idle"]
  /\ taken = [s \in Schedulers |-> 1]
  /\ own = [s \in Schedulers |-> 0]
  /\ ledger = [s \in Schedulers |-> 0]
  /\ grant = [s \in Schedulers |-> 0]
  /\ now = 0
  /\ enabled = TRUE
  /\ claims = [t \in Tasks |-> 0]
  /\ sent \in 0 .. usage
  /\ late = 0

-----------------------------------------------------------------------------
(* Guards shared by several statements.                                    *)

\* The right to work: this claim still owns a running job, in time.
Owns(s) == status = "running" /\ owner = own[s]
InTime == lease > now /\ Deadline > now

\* Mutant: the fence knows the owner and forgets the lease and the deadline.
FencedByOwner(s) == Owns(s) /\ enabled

\* Lease::checkpoint and Lease::fence.
Fenced(s) == Owns(s) /\ InTime /\ enabled

\* The final verdict of the queue on a task whose job has come to rest.
Verdict == IF status \in {"succeeded", "awaiting_input"} THEN "succeeded" ELSE "dead_letter"
AtRest == status \notin {"queued", "running"}

Moves(s, from, to) ==
  /\ pc[s] = from
  /\ pc' = [pc EXCEPT ![s] = to]

Written(e) == written' = [written EXCEPT ![e] = @ + 1]

Release == owner' = 0 /\ lease' = 0
-----------------------------------------------------------------------------
(* The scheduler: poll_once takes a queued task and hands it to the job's  *)
(* handler with the identity of the delivery.                              *)

Deliver(s, t) ==
  /\ Moves(s, "idle", "delivered")
  /\ queue[t] = "queued"
  /\ queue' = [queue EXCEPT ![t] = "running"]
  /\ since' = [since EXCEPT ![t] = now]
  /\ taken' = [taken EXCEPT ![s] = t]
  /\ UNCHANGED <<jobVars, own, ledger, grant, envVars, histVars>>

\* handle_task: claim the job under a fresh owner; restore its ledger.
Claim(s) ==
  /\ status = "queued" /\ task = taken[s] /\ Deadline > now
  /\ Moves(s, "delivered", "working")
  /\ status' = "running"
  /\ own' = [own EXCEPT ![s] = claims[1] + claims[2] + 1]
  /\ owner' = claims[1] + claims[2] + 1
  /\ lease' = now + LeaseTime
  /\ ledger' = [ledger EXCEPT ![s] = usage]
  /\ claims' = [claims EXCEPT ![task] = @ + 1]
  /\ UNCHANGED <<task, usage, written, queueVars, taken, grant, envVars, sent, late>>

\* The claim matches no row: already claimed, moved on, or past its deadline.
Decline(s) ==
  /\ ~(status = "queued" /\ task = taken[s] /\ Deadline > now)
  /\ Moves(s, "delivered", "syncing")
  /\ UNCHANGED <<jobVars, queueVars, taken, own, ledger, grant, envVars, histVars>>

\* Mutant: the delivery's own outcome decides, whoever owns the job.
SyncOwnOutcome(s) ==
  /\ Moves(s, "syncing", "idle")
  /\ queue' = [queue EXCEPT ![taken[s]] =
       IF status = "succeeded" THEN "succeeded" ELSE "dead_letter"]
  /\ UNCHANGED <<jobVars, since, taken, own, ledger, grant, envVars, histVars>>

\* sync_task: the queue follows the job this task still belongs to.
SyncTask(s) ==
  /\ Moves(s, "syncing", "idle")
  /\ queue' = IF task = taken[s] /\ AtRest
              THEN [queue EXCEPT ![task] = Verdict] ELSE queue
  /\ UNCHANGED <<jobVars, since, taken, own, ledger, grant, envVars, histVars>>

-----------------------------------------------------------------------------
(* One request of the run (json and stream): the serial lock of a durable  *)
(* run admits one at a time.                                               *)

\* reserve_mixed, in memory.  Over the cap the request fails (GiveUp).
Reserve(s, n) ==
  /\ Moves(s, "working", "reserved")
  /\ n > 0 /\ ledger[s] + n <= MaxCalls
  /\ ledger' = [ledger EXCEPT ![s] = @ + n]
  /\ grant' = [grant EXCEPT ![s] = n]
  /\ UNCHANGED <<jobVars, queueVars, taken, own, envVars, histVars>>

\* Mutant: the charge is only written back after the answer.
ChargeLater(s) ==
  /\ Moves(s, "reserved", "charged")
  /\ Fenced(s)
  /\ UNCHANGED <<jobVars, queueVars, taken, own, ledger, grant, envVars, histVars>>

\* The checkpoint before the request leaves.
Charge(s) ==
  /\ Moves(s, "reserved", "charged")
  /\ Fenced(s)
  /\ usage' = ledger[s]
  /\ UNCHANGED <<status, task, owner, lease, written, queueVars, taken, own,
                 ledger, grant, envVars, histVars>>

\* The request leaves; the ML service makes k of the granted calls.
Send(s, k) ==
  /\ Moves(s, "charged", "sent")
  /\ k <= grant[s]
  /\ sent' = sent + k
  /\ grant' = [grant EXCEPT ![s] = @ - k]
  /\ late' = IF Owns(s) /\ InTime THEN late ELSE late + 1
  /\ UNCHANGED <<jobVars, queueVars, taken, own, ledger, envVars, claims>>

\* A complete report releases what was not used.
Report(s) ==
  /\ Moves(s, "sent", "settled")
  /\ ledger' = [ledger EXCEPT ![s] = @ - grant[s]]
  /\ grant' = [grant EXCEPT ![s] = 0]
  /\ UNCHANGED <<jobVars, queueVars, taken, own, envVars, histVars>>

\* A lost, partial or invalid one keeps the whole reservation.
ReportLost(s) ==
  /\ Moves(s, "sent", "settled")
  /\ grant' = [grant EXCEPT ![s] = 0]
  /\ UNCHANGED <<jobVars, queueVars, taken, own, ledger, envVars, histVars>>

\* The checkpoint after the answer.
Settle(s) ==
  /\ Moves(s, "settled", "working")
  /\ Fenced(s)
  /\ usage' = ledger[s]
  /\ UNCHANGED <<status, task, owner, lease, written, queueVars, taken, own,
                 ledger, grant, envVars, histVars>>

\* Any error, a checkpoint that matched no row, a timeout, or the monitor that
\* finds the lease, the deadline, the switch or the actor gone: the work future
\* is dropped where it stands and the reservation stays charged.
GiveUp(s) ==
  /\ pc[s] \in Working \cup {"committed"}
  /\ pc' = [pc EXCEPT ![s] = "failing"]
  /\ grant' = [grant EXCEPT ![s] = 0]
  /\ UNCHANGED <<jobVars, queueVars, taken, own, ledger, envVars, histVars>>

\* The monitor, every two seconds.
Renew(s) ==
  /\ pc[s] \in Working
  /\ Fenced(s)
  /\ lease' = now + LeaseTime
  /\ UNCHANGED <<status, task, owner, usage, written, queueVars, workVars, envVars,
                 histVars>>

-----------------------------------------------------------------------------
(* The results, each in a transaction that holds the job's row.            *)

\* verify_target: the verification and its checkpoint.  The primary key of
\* verification_runs is the job's id.
Verify(s) ==
  /\ launch # "research" /\ taken[s] = 1
  /\ written["verified"] = 0
  /\ Fenced(s)
  /\ Moves(s, "working", IF launch = "verify" THEN "committed" ELSE "working")
  /\ Written("verified")
  /\ UNCHANGED <<status, task, owner, lease, usage, queueVars, taken, own, ledger,
                 grant, envVars, histVars>>

\* repair_document: a new document version; each claim is repaired once.
Repair(s) ==
  /\ launch # "research" /\ (taken[s] = 2 \/ launch = "verify_and_repair")
  /\ written["verified"] = 1 /\ written["repaired"] = 0
  /\ Fenced(s)
  /\ Moves(s, "working", "committed")
  /\ Written("repaired")
  /\ UNCHANGED <<status, task, owner, lease, usage, queueVars, taken, own, ledger,
                 grant, envVars, histVars>>

\* repair_document with nothing to repair returns before its transaction.
RepairNothing(s) ==
  /\ launch # "research" /\ (taken[s] = 2 \/ launch = "verify_and_repair")
  /\ written["verified"] = 1
  /\ Moves(s, "working", "committed")
  /\ UNCHANGED <<jobVars, queueVars, taken, own, ledger, grant, envVars, histVars>>

\* pause: the question, the job and its task in one transaction.
Pause(s) ==
  /\ launch = "research" /\ taken[s] = 1
  /\ Fenced(s)
  /\ Moves(s, "working", "committed")
  /\ status' = "awaiting_input" /\ Release
  /\ queue' = [queue EXCEPT ![task] = "succeeded"]
  /\ Written("asked")
  /\ UNCHANGED <<task, usage, since, taken, own, ledger, grant, envVars, histVars>>

\* publish: the report, its citations and the job's success.
Publish(s) ==
  /\ launch = "research"
  /\ Fenced(s)
  /\ Moves(s, "working", "committed")
  /\ status' = "succeeded" /\ Release
  /\ Written("published")
  /\ UNCHANGED <<task, usage, queueVars, taken, own, ledger, grant, envVars, histVars>>

\* The last write of handle_task asks for the owner only, neither for the lease
\* nor for the deadline.  A research run has already written its success.
Finish(s) ==
  /\ \/ Moves(s, "committed", "syncing")
     \/ Moves(s, "failing", "syncing")
  /\ IF Owns(s)
     THEN /\ status' = IF pc[s] = "committed" THEN "succeeded" ELSE "failed"
          /\ Release
     ELSE UNCHANGED <<status, owner, lease>>
  /\ UNCHANGED <<task, usage, written, queueVars, taken, own, ledger, grant,
                 envVars, histVars>>

-----------------------------------------------------------------------------
(* The person who launched the job.                                        *)

\* A job that stops takes its open task with it.
DropTask == queue' = [queue EXCEPT
  ![task] = IF @ \in {"queued", "running"} THEN "dead_letter" ELSE @]

CancelJob ==
  /\ status \in Live
  /\ status' = "cancelled" /\ Release
  /\ DropTask
  /\ UNCHANGED <<task, usage, written, since, workVars, envVars, histVars>>

\* The continuation gets the second task; plan, ledger and deadline stay.
NextTask ==
  /\ task' = 2
  /\ status' = "queued"
  /\ UNCHANGED <<owner, lease, usage, written, workVars, envVars, histVars>>

\* Mutant: the repair phase may replay a stopped verification.
EnqueueRepairAnyway ==
  /\ launch = "verify"
  /\ status \in {"succeeded", "interrupted"}
  /\ Deadline > now
  /\ queue' = [queue EXCEPT ![1] = "succeeded", ![2] = "queued"]
  /\ UNCHANGED since
  /\ NextTask

\* enqueue_repair: only after a confirmed verification.
EnqueueRepair ==
  /\ launch = "verify"
  /\ task = 1 /\ status = "succeeded" /\ written["verified"] = 1
  /\ Deadline > now /\ enabled
  /\ queue' = [queue EXCEPT ![1] = "succeeded", ![2] = "queued"]
  /\ UNCHANGED since
  /\ NextTask

\* resume: the answers, once.
Answer ==
  /\ launch = "research"
  /\ status = "awaiting_input" /\ Deadline > now /\ enabled
  /\ queue' = [queue EXCEPT ![2] = "queued"]
  /\ UNCHANGED since
  /\ NextTask

-----------------------------------------------------------------------------
(* recover: one transaction at the start of every poll.                    *)

Expired ==
  \/ status = "running" /\ ~InTime
  \/ status \in {"queued", "awaiting_input"} /\ Deadline <= now

\* A started phase is interrupted and never queued again.
RecoverJob(s) ==
  /\ pc[s] = "idle"
  /\ Expired
  /\ status' = IF status = "running" THEN "interrupted" ELSE "failed"
  /\ Release
  /\ DropTask
  /\ UNCHANGED <<task, usage, written, since, workVars, envVars, histVars>>

\* Mutant: only undelivered tasks are looked at.
RecoverTaskQueued(s) ==
  /\ pc[s] = "idle"
  /\ ~Expired
  /\ status = "queued" /\ queue[task] = "running"
  /\ since[task] + StaleTime < now
  /\ queue' = [queue EXCEPT ![task] = "queued"]
  /\ UNCHANGED <<jobVars, since, workVars, envVars, histVars>>

\* A task taken by a scheduler that died before the claim goes back; a task
\* whose job is at rest gets its verdict.
RecoverTask(s) ==
  /\ pc[s] = "idle"
  /\ ~Expired
  /\ \/ status = "queued" /\ queue[task] = "running"
        /\ since[task] + StaleTime < now
        /\ queue' = [queue EXCEPT ![task] = "queued"]
     \/ AtRest /\ queue[task] \in {"queued", "running"}
        /\ queue' = [queue EXCEPT ![task] = Verdict]
  /\ UNCHANGED <<jobVars, since, workVars, envVars, histVars>>

-----------------------------------------------------------------------------
Crash(s) ==
  /\ pc[s] # "idle"
  /\ pc' = [pc EXCEPT ![s] = "idle"]
  /\ grant' = [grant EXCEPT ![s] = 0]
  /\ UNCHANGED <<jobVars, queueVars, taken, own, ledger, envVars, histVars>>

Tick ==
  /\ now < MaxTime
  /\ now' = now + 1
  /\ UNCHANGED <<jobVars, queueVars, workVars, launch, enabled, histVars>>

Switch ==
  /\ enabled' = ~enabled
  /\ UNCHANGED <<jobVars, queueVars, workVars, launch, now, histVars>>

Step(s) ==
  \/ Claim(s) \/ Decline(s) \/ SyncTask(s)
  \/ \E n \in 1 .. MaxGrant : Reserve(s, n)
  \/ Charge(s)
  \/ \E k \in 0 .. MaxGrant : Send(s, k)
  \/ Report(s) \/ ReportLost(s) \/ Settle(s)
  \/ Verify(s) \/ Repair(s) \/ RepairNothing(s) \/ Pause(s) \/ Publish(s)
  \/ GiveUp(s) \/ Finish(s)

Poll(s) ==
  \/ RecoverJob(s) \/ RecoverTask(s)
  \/ \E t \in Tasks : Deliver(s, t)

Next ==
  \/ \E s \in Schedulers : Step(s) \/ Poll(s) \/ Renew(s) \/ Crash(s)
  \/ CancelJob \/ EnqueueRepair \/ Answer
  \/ Tick \/ Switch

Spec == Init /\ [][Next]_vars

\* A scheduler that has taken a task goes on, the poll timer fires, the clock
\* advances; people, switches and crashes owe nobody a step.
FairSpec ==
  /\ Spec
  /\ WF_vars(Tick)
  /\ \A s \in Schedulers : WF_vars(Step(s)) /\ WF_vars(RecoverJob(s) \/ RecoverTask(s))

-----------------------------------------------------------------------------
(* Properties.                                                             *)

TypeOK ==
  /\ launch \in Launches /\ status \in Status /\ task \in Tasks
  /\ owner \in Nat /\ lease \in Nat /\ usage \in Nat
  /\ written \in [Results -> Nat]
  /\ queue \in [Tasks -> QueueStatus] /\ since \in [Tasks -> Nat]
  /\ pc \in [Schedulers -> WorkPC] /\ taken \in [Schedulers -> Tasks]
  /\ own \in [Schedulers -> Nat] /\ ledger \in [Schedulers -> Nat]
  /\ grant \in [Schedulers -> Nat]
  /\ now \in Nat /\ enabled \in BOOLEAN
  /\ claims \in [Tasks -> Nat] /\ sent \in Nat /\ late \in Nat

\* Every provider call of the whole job, over both tasks, all owners and all
\* crashes, was charged to the row before it left, and the row never exceeds
\* the cap frozen at the launch (Lease::checkpoint before the send; "the
\* original accounting does not change").
SpendIsCharged == sent <= usage /\ usage <= MaxCalls

\* "A started phase is never automatically replayed": no task ever claims the
\* job twice, however often it is delivered (handle_task, recover).
StartedOnce == \A t \in Tasks : claims[t] <= 1

\* No result is committed twice (the fence of publish, pause, verify_target and
\* repair_document).
CommittedOnce == \A e \in Results : written[e] <= 1

\* Once the right to work has lapsed, by cancellation, recovery, lease or
\* deadline, at most the one request that was already charged still leaves.
AtMostOneLateRequest == late <= 1

\* "A still-running owner must not be marked succeeded/dead by a duplicate":
\* while the job waits or runs, its task is open (sync_task, recover, cancel).
OpenJobHasOpenTask ==
  status \in {"queued", "running"} => queue[task] \in {"queued", "running"}

\* A job always comes to rest: success, failure, cancellation, interruption; and
\* a task that was queued gets its verdict, also when its scheduler died.
WorkRests ==
  /\ status \in Live ~> status \notin Live
  /\ \A t \in Tasks :
       queue[t] \in {"queued", "running"} ~> queue[t] \in {"succeeded", "dead_letter"}

\* The job keeps the promise of JobContract.
StateOf ==
  CASE status = "queued" -> "waiting"
    [] status = "running" -> "active"
    [] status = "awaiting_input" -> "paused"
    [] status = "succeeded" -> "succeeded"
    [] OTHER -> "stopped"

Contract == INSTANCE JobContract WITH
  MaxCalls <- MaxCalls, Results <- Results, state <- StateOf, round <- task,
  begun <- claims, calls <- sent, results <- written

KeepsContract == Contract!Spec
=============================================================================
