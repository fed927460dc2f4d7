------------------------------ MODULE AgentRun ------------------------------
(***************************************************************************)
(* The approval gate of one action-taking agent run.                       *)
(*                                                                         *)
(* A chat turn (or an unattended automation) wraps its tool loop in a run: *)
(* an agent_runs row in Postgres, a kill-token in Redis, and, while the    *)
(* turn sits on a gated tool call, a oneshot waiter in the Approvals map   *)
(* of the process.  The row is written by five independent parties: the    *)
(* turn, the REST approve / reject / cancel handlers, the agent_resume     *)
(* task of the scheduler, and the approval sweep.  Every action below is   *)
(* one atomic step of one of them: a single SQL statement, a single Redis  *)
(* command or one operation under the Approvals mutex.                     *)
(*                                                                         *)
(* Runs are independent: every statement names one run id.  The module     *)
(* models one run, one process, and one scheduler loop in it.              *)
(***************************************************************************)
EXTENDS Naturals, FiniteSets

CONSTANTS
  Calls,        \* the gated calls the model asks for in this turn
  Folder,       \* those that are folder tools, run by the user's machine
  Artefact,     \* the draft document offered once the answer is complete
  NoCall,
  Approvals,    \* approve requests, each one HTTP request
  NoApproval,
  Declines,     \* reject requests (and the API surface's automatic decline)
  Cancels,      \* cancel requests
  Unattended,   \* TRUE for a scheduled run: nobody is in the turn
  MaxRetries,   \* tasks.max_retries
  MaxCrashes    \* bound on process restarts

ASSUME CallAssumption ==
  /\ Folder \subseteq Calls
  /\ Artefact \subseteq Calls
  /\ Folder \cap Artefact = {}
  /\ NoCall \notin Calls
ASSUME RequestAssumption == NoApproval \notin Approvals /\ "no" \notin Approvals
ASSUME NoApprovalAssumption == NoApproval # "no"
ASSUME BoundAssumption ==
  Unattended \in BOOLEAN /\ MaxRetries \in Nat \ {0} /\ MaxCrashes \in Nat

VARIABLES
  status,       \* agent_runs.status
  pending,      \* agent_runs.pending_tool and pending_args
  token,        \* the Redis key pai:agentrun:<id> exists
  turn,         \* where the turn is
  gated,        \* the call the turn is handling, its own local copy
  asked,        \* calls already seen this turn (seen_calls)
  waiter,       \* the Approvals map holds a sender for this run
  delivery,     \* the value in the oneshot: NoApproval, "no", or who said yes
  cards,        \* approval cards on the owner's clients
  approve,      \* where each approve request is
  shown,        \* the call on the card each approver answered
  decline,      \* where each reject request is
  cancel,       \* where each cancel request is
  task,         \* the agent_resume task each approver may enqueue
  tries,        \* tasks.retry_count of that task
  online,       \* the bound machine has a socket
  crashes,      \* process restarts so far
  ran,          \* history: effects performed on the authority of an approval
  did,          \* history: the call that authority last performed
  refused       \* history: calls whose gate was closed by a no

rowVars   == <<status, pending, token>>
turnVars  == <<turn, gated, asked, waiter, delivery>>
httpVars  == <<approve, shown, decline, cancel, cards>>
taskVars  == <<task, tries>>
envVars   == <<online, crashes>>
histVars  == <<ran, did, refused>>
vars == <<rowVars, turnVars, httpVars, taskVars, envVars, histVars>>

Status == {"running", "awaiting_approval", "approved", "rejected",
           "completed", "failed", "cancelled"}
TurnPC == {"thinking", "gating", "waiting", "elapsed", "declining", "finishing",
           "releasing", "calling", "marking", "executing", "closing", "done"}
TaskState == {"none", "queued", "starting", "finishing", "releasing",
              "deferring", "done", "dead_letter", "stuck"}

Init ==
  /\ status = "running"
  /\ pending = NoCall
  /\ token = TRUE
  /\ turn = "thinking"
  /\ gated = NoCall
  /\ asked = {}
  /\ waiter = FALSE
  /\ delivery = NoApproval
  /\ cards = {}
  /\ approve = [r \in Approvals |-> "ready"]
  /\ shown = [r \in Approvals |-> NoCall]
  /\ decline = [d \in Declines |-> "ready"]
  /\ cancel = [k \in Cancels |-> "ready"]
  /\ task = [r \in Approvals |-> "none"]
  /\ tries = [r \in Approvals |-> 0]
  /\ online \in BOOLEAN
  /\ crashes = 0
  /\ ran = [r \in Approvals |-> 0]
  /\ did = [r \in Approvals |-> NoCall]
  /\ refused = {}

-----------------------------------------------------------------------------
(* Shared statements.                                                      *)

\* decide: the single-winner compare-and-set out of awaiting_approval.
Undecided == status = "awaiting_approval"

\* Approvals::resolve: take the sender out of the map; true iff it was there
\* and its receiver still exists.
Resolve(value) ==
  IF waiter /\ turn \in {"waiting", "elapsed"}
  THEN waiter' = FALSE /\ delivery' = value
  ELSE waiter' = FALSE /\ UNCHANGED delivery

Performed(r, c) ==
  /\ ran' = [ran EXCEPT ![r] = @ + 1]
  /\ did' = [did EXCEPT ![r] = c]
  /\ UNCHANGED refused

\* The gate of the pending call closes with a no.
Refused == refused' = refused \cup {pending} /\ UNCHANGED <<ran, did>>

\* After a gated call the loop goes on; after the drafted artefact the turn ends.
Resumed(c) == IF c \in Artefact THEN "done" ELSE "thinking"

-----------------------------------------------------------------------------
(* The turn: run_tool_loop, gated_call and the artefact offer.             *)

\* request_approval: an unconditional UPDATE.  The loop never repeats a call,
\* and offers the draft document last, after every tool step.
RequestApproval(c) ==
  /\ turn = "thinking"
  /\ c \notin asked
  /\ status' = "awaiting_approval"
  /\ pending' = c
  /\ gated' = c
  /\ asked' = asked \cup {c}
  /\ cards' = cards \cup {c}
  /\ turn' = IF Unattended THEN Resumed(c) ELSE "gating"
  /\ UNCHANGED <<token, waiter, delivery, approve, shown, decline, cancel,
                 taskVars, envVars, histVars>>

\* Approvals::register, a separate step after the row is already visible.
Register ==
  /\ turn = "gating"
  /\ turn' = "waiting"
  /\ waiter' = TRUE
  /\ delivery' = NoApproval
  /\ UNCHANGED <<rowVars, gated, asked, httpVars, taskVars, envVars, histVars>>

\* The waiter's receiver yields a yes: in the loop the turn runs the call
\* itself, after the draft offer it goes through execute_approved.
ReceiveYes ==
  /\ turn = "waiting"
  /\ delivery \in Approvals
  /\ turn' = IF gated \in Artefact THEN "executing" ELSE "calling"
  /\ UNCHANGED <<rowVars, gated, asked, waiter, delivery, httpVars, taskVars,
                 envVars, histVars>>

\* The receiver yields a no: the reject handler owns the rest.
ReceiveNo ==
  /\ turn = "waiting"
  /\ delivery = "no"
  /\ turn' = Resumed(gated)
  /\ delivery' = NoApproval
  /\ UNCHANGED <<rowVars, gated, asked, waiter, httpVars, taskVars, envVars,
                 histVars>>

\* Mutant: the timer is armed only once the row is decided.
TimeoutAfterDecision ==
  /\ turn = "waiting"
  /\ delivery = NoApproval
  /\ ~Undecided
  /\ turn' = "elapsed"
  /\ UNCHANGED <<rowVars, gated, asked, waiter, delivery, httpVars, taskVars,
                 envVars, histVars>>

\* approval_timeout_secs: the receiver was empty when the timer fired.  It is
\* dropped only afterwards, so a value sent in between is accepted and lost.
Timeout ==
  /\ turn = "waiting"
  /\ delivery = NoApproval
  /\ turn' = "elapsed"
  /\ UNCHANGED <<rowVars, gated, asked, waiter, delivery, httpVars, taskVars,
                 envVars, histVars>>

\* The receiver is dropped and forget() clears the map entry.
Forget ==
  /\ turn = "elapsed"
  /\ turn' = "declining"
  /\ waiter' = FALSE
  /\ delivery' = NoApproval
  /\ UNCHANGED <<rowVars, gated, asked, httpVars, taskVars, envVars, histVars>>

\* The turn tries to win the reject compare-and-set.
TimeoutDecide ==
  /\ turn = "declining"
  /\ IF Undecided
     THEN status' = "rejected" /\ turn' = "finishing" /\ cards' = {} /\ Refused
     ELSE turn' = Resumed(gated) /\ UNCHANGED <<status, cards, histVars>>
  /\ UNCHANGED <<pending, token, gated, asked, waiter, delivery, approve, shown,
                 decline, cancel, taskVars, envVars>>

\* finish(): the unconditional status write, then the token.
TimeoutFinish ==
  /\ turn = "finishing"
  /\ status' = "rejected"
  /\ turn' = "releasing"
  /\ UNCHANGED <<pending, token, gated, asked, waiter, delivery, httpVars,
                 taskVars, envVars, histVars>>

TurnRelease ==
  /\ turn = "releasing"
  /\ token' = FALSE
  /\ turn' = Resumed(gated)
  /\ UNCHANGED <<status, pending, gated, asked, waiter, delivery, httpVars,
                 taskVars, envVars, histVars>>

\* run_one_call: refused when the kill-token is gone; otherwise dispatched,
\* where the tool's own authorisation may still refuse it.
CallApproved ==
  /\ turn = "calling"
  /\ turn' = "marking"
  /\ delivery' = NoApproval
  /\ \/ token /\ Performed(delivery, gated)
     \/ UNCHANGED histVars
  /\ UNCHANGED <<rowVars, gated, asked, waiter, httpVars, taskVars, envVars>>

\* mark_running.
MarkRunning ==
  /\ turn = "marking"
  /\ status' = IF status \in {"approved", "awaiting_approval"}
               THEN "running" ELSE status
  /\ turn' = "thinking"
  /\ UNCHANGED <<pending, token, gated, asked, waiter, delivery, httpVars,
                 taskVars, envVars, histVars>>

\* execute_approved on the interactive draft offer: generate_artefact is in
\* tools::ALL, so execute_pending refuses it and reports Completed.  The row's
\* pending call is the draft: the turn is past its tool loop.
ExecuteArtefact ==
  /\ turn = "executing"
  /\ turn' = IF status = "approved" THEN "closing" ELSE "done"
  /\ delivery' = NoApproval
  /\ UNCHANGED <<rowVars, gated, asked, waiter, httpVars, taskVars, envVars,
                 histVars>>

ArtefactFinish ==
  /\ turn = "closing"
  /\ status' = "completed"
  /\ turn' = "releasing"
  /\ UNCHANGED <<pending, token, gated, asked, waiter, delivery, httpVars,
                 taskVars, envVars, histVars>>

\* A turn that already produced its document neither offers one nor closes the
\* run: the row stays as it is.
LeaveRun ==
  /\ turn = "thinking"
  /\ Artefact # {}
  /\ turn' = "done"
  /\ UNCHANGED <<rowVars, gated, asked, waiter, delivery, httpVars, taskVars,
                 envVars, histVars>>

\* complete_if_running at the end of a turn that offers no draft.  Nothing
\* reads the token after the turn, so its release joins the status write.
EndTurn ==
  /\ turn = "thinking"
  /\ status' = IF status = "running" THEN "completed" ELSE status
  /\ token' = FALSE
  /\ turn' = "done"
  /\ UNCHANGED <<pending, gated, asked, waiter, delivery, httpVars, taskVars,
                 envVars, histVars>>

-----------------------------------------------------------------------------
(* approve_run.                                                            *)

\* Mutant: decide without its WHERE status = 'awaiting_approval'.
ApproveUnguarded(r, c) ==
  /\ approve[r] = "ready"
  /\ c \in cards \cup (IF Undecided THEN {pending} ELSE {})
  /\ shown' = [shown EXCEPT ![r] = c]
  /\ status' = "approved" /\ approve' = [approve EXCEPT ![r] = "won"]
  /\ UNCHANGED <<pending, token, turnVars, decline, cancel, cards, taskVars,
                 envVars, histVars>>

\* The approver answers a card, or the pending row the list shows.
ApproveClaim(r, c) ==
  /\ approve[r] = "ready"
  /\ c \in cards \cup (IF Undecided THEN {pending} ELSE {})
  /\ shown' = [shown EXCEPT ![r] = c]
  /\ IF Undecided
     THEN status' = "approved" /\ approve' = [approve EXCEPT ![r] = "won"]
     ELSE approve' = [approve EXCEPT ![r] = "conflict"] /\ UNCHANGED status
  /\ UNCHANGED <<pending, token, turnVars, decline, cancel, cards, taskVars,
                 envVars, histVars>>

\* Mutant: the durable task is enqueued even when a waiter took the decision.
ApproveBothWays(r) ==
  /\ approve[r] = "won"
  /\ cards' = {}
  /\ Resolve(r)
  /\ approve' = [approve EXCEPT ![r] = "enqueueing"]
  /\ UNCHANGED <<rowVars, turn, gated, asked, shown, decline, cancel, taskVars,
                 envVars, histVars>>

\* audit, broadcast_resolved, then the waiter.
ApproveResolve(r) ==
  /\ approve[r] = "won"
  /\ cards' = {}
  /\ Resolve(r)
  /\ approve' = [approve EXCEPT
       ![r] = IF waiter /\ turn \in {"waiting", "elapsed"}
              THEN "done" ELSE "enqueueing"]
  /\ UNCHANGED <<rowVars, turn, gated, asked, shown, decline, cancel, taskVars,
                 envVars, histVars>>

\* No waiter took it: scheduler::enqueue(AgentResume).
ApproveEnqueue(r) ==
  /\ approve[r] = "enqueueing"
  /\ approve' = [approve EXCEPT ![r] = "done"]
  /\ task' = [task EXCEPT ![r] = "queued"]
  /\ UNCHANGED <<rowVars, turnVars, shown, decline, cancel, cards, tries,
                 envVars, histVars>>

-----------------------------------------------------------------------------
(* reject_run and auto_decline; cancel_run; the approval sweep.            *)

\* Mutant: a rejection that does not look at the status.
DeclineUnguarded(d) ==
  /\ decline[d] = "ready"
  /\ pending # NoCall
  /\ status' = "rejected"
  /\ decline' = [decline EXCEPT ![d] = "won"]
  /\ Refused
  /\ UNCHANGED <<pending, token, turnVars, approve, shown, cancel, cards,
                 taskVars, envVars>>

DeclineClaim(d) ==
  /\ decline[d] = "ready"
  /\ Undecided
  /\ status' = "rejected"
  /\ decline' = [decline EXCEPT ![d] = "won"]
  /\ Refused
  /\ UNCHANGED <<pending, token, turnVars, approve, shown, cancel, cards,
                 taskVars, envVars>>

DeclineResolve(d) ==
  /\ decline[d] = "won"
  /\ cards' = {}
  /\ Resolve("no")
  /\ decline' = [decline EXCEPT ![d] = "finishing"]
  /\ UNCHANGED <<rowVars, turn, gated, asked, approve, shown, cancel, taskVars,
                 envVars, histVars>>

DeclineFinish(d) ==
  /\ decline[d] = "finishing"
  /\ status' = "rejected"
  /\ decline' = [decline EXCEPT ![d] = "releasing"]
  /\ UNCHANGED <<pending, token, turnVars, approve, shown, cancel, cards,
                 taskVars, envVars, histVars>>

DeclineRelease(d) ==
  /\ decline[d] = "releasing"
  /\ token' = FALSE
  /\ decline' = [decline EXCEPT ![d] = "done"]
  /\ UNCHANGED <<status, pending, turnVars, approve, shown, cancel, cards,
                 taskVars, envVars, histVars>>

\* kill: the token first, then the guarded status flip.
CancelToken(k) ==
  /\ cancel[k] = "ready"
  /\ token' = FALSE
  /\ cancel' = [cancel EXCEPT ![k] = "flipping"]
  /\ UNCHANGED <<status, pending, turnVars, approve, shown, decline, cards,
                 taskVars, envVars, histVars>>

CancelFlip(k) ==
  /\ cancel[k] = "flipping"
  /\ IF status \in {"running", "awaiting_approval", "approved"}
     THEN status' = "cancelled" /\ cancel' = [cancel EXCEPT ![k] = "killed"]
     ELSE cancel' = [cancel EXCEPT ![k] = "missed"] /\ UNCHANGED status
  /\ UNCHANGED <<pending, token, turnVars, approve, shown, decline, cards,
                 taskVars, envVars, histVars>>

CancelResolve(k) ==
  /\ cancel[k] \in {"killed", "missed"}
  /\ cards' = {}
  /\ Resolve("no")
  /\ cancel' = [cancel EXCEPT
       ![k] = IF cancel[k] = "killed" THEN "killed_done" ELSE "missed_done"]
  /\ UNCHANGED <<rowVars, turn, gated, asked, approve, shown, decline, taskVars,
                 envVars, histVars>>

\* scan_expired_approvals: only automation runs are swept.  The token of a
\* parked unattended run is read by nobody, so its release joins the claim.
SweepExpired ==
  /\ Unattended
  /\ Undecided
  /\ status' = "failed"
  /\ token' = FALSE
  /\ cards' = {}
  /\ Refused
  /\ UNCHANGED <<pending, turnVars, approve, shown, decline, cancel, taskVars,
                 envVars>>

-----------------------------------------------------------------------------
(* The agent_resume task: poll_once, handle, execute_approved.  The        *)
(* scheduler of the process works through its batch one task at a time.    *)

Active == {"starting", "finishing", "releasing", "deferring"}

\* execute_approved reads the status; only an approved run goes further.
ResumeRead(r) ==
  /\ task[r] = "queued"
  /\ \A s \in Approvals : task[s] \notin Active
  /\ task' = [task EXCEPT
       ![r] = IF status = "approved" THEN "starting" ELSE "done"]
  /\ UNCHANGED <<rowVars, turnVars, httpVars, tries, envVars, histVars>>

\* execute_pending: the call the row holds NOW, re-authorised.  The effect, or a
\* refusal, which is equally final.
ResumePerform(r) ==
  /\ task[r] = "starting"
  /\ pending \in Folder => online
  /\ pending \notin Artefact
  /\ Performed(r, pending)
  /\ task' = [task EXCEPT ![r] = "finishing"]
  /\ UNCHANGED <<rowVars, turnVars, httpVars, tries, envVars>>

ResumeRefuse(r) ==
  /\ task[r] = "starting"
  /\ task' = [task EXCEPT ![r] = "finishing"]
  /\ UNCHANGED <<rowVars, turnVars, httpVars, tries, envVars, histVars>>

\* A folder call with the machine away is not carried out.
ResumeDefer(r) ==
  /\ task[r] = "starting"
  /\ pending \in Folder /\ ~online
  /\ task' = [task EXCEPT ![r] = "deferring"]
  /\ UNCHANGED <<rowVars, turnVars, httpVars, tries, envVars, histVars>>

\* Only the queries before the effect propagate an error, so a retry starts
\* from the status read again.
ResumeError(r) ==
  /\ task[r] = "starting"
  /\ tries' = [tries EXCEPT ![r] = @ + 1]
  /\ task' = [task EXCEPT
       ![r] = IF tries[r] + 1 >= MaxRetries THEN "dead_letter" ELSE "queued"]
  /\ UNCHANGED <<rowVars, turnVars, httpVars, envVars, histVars>>

\* finish(completed): unconditional, whatever the row says by now.
ResumeFinish(r) ==
  /\ task[r] = "finishing"
  /\ status' = "completed"
  /\ task' = [task EXCEPT ![r] = "releasing"]
  /\ UNCHANGED <<pending, token, turnVars, httpVars, tries, envVars, histVars>>

ResumeRelease(r) ==
  /\ task[r] = "releasing"
  /\ token' = FALSE
  /\ task' = [task EXCEPT ![r] = "done"]
  /\ UNCHANGED <<status, pending, turnVars, httpVars, tries, envVars, histVars>>

\* Mutant: a deferred run is left as it is.
ResumeForgets(r) ==
  /\ task[r] = "deferring"
  /\ task' = [task EXCEPT ![r] = "done"]
  /\ UNCHANGED <<rowVars, turnVars, httpVars, tries, envVars, histVars>>

\* Deferred: back to awaiting, if nobody moved the row meanwhile.
ResumePark(r) ==
  /\ task[r] = "deferring"
  /\ status' = IF status = "approved" THEN "awaiting_approval" ELSE status
  /\ task' = [task EXCEPT ![r] = "done"]
  /\ UNCHANGED <<pending, token, turnVars, httpVars, tries, envVars, histVars>>

-----------------------------------------------------------------------------
(* The environment: the token's TTL, the machine's socket, a restart.      *)

TokenExpires ==
  /\ token
  /\ token' = FALSE
  /\ UNCHANGED <<status, pending, turnVars, httpVars, taskVars, envVars, histVars>>

DeviceFlips ==
  /\ Folder # {}
  /\ online' = ~online
  /\ UNCHANGED <<rowVars, turnVars, httpVars, taskVars, crashes, histVars>>

\* Everything in memory is lost.  A task claimed by the dead process, started or
\* still waiting in its batch, keeps the status 'running': only routed and
\* workflow tasks are ever put back.
Crash ==
  /\ crashes < MaxCrashes
  /\ crashes' = crashes + 1
  /\ turn' = "done"
  /\ waiter' = FALSE
  /\ delivery' = NoApproval
  /\ approve' = [r \in Approvals |->
       IF approve[r] \in {"won", "enqueueing"} THEN "done" ELSE approve[r]]
  /\ decline' = [d \in Declines |->
       IF decline[d] = "ready" THEN "ready" ELSE "done"]
  /\ cancel' = [k \in Cancels |->
       IF cancel[k] = "killed" THEN "killed_done"
       ELSE IF cancel[k] \in {"flipping", "missed"} THEN "missed_done"
       ELSE cancel[k]]
  /\ \E batch \in SUBSET {r \in Approvals : task[r] = "queued"} :
       task' = [r \in Approvals |->
         IF task[r] \in Active \/ r \in batch THEN "stuck" ELSE task[r]]
  /\ cards' = {}
  /\ UNCHANGED <<rowVars, gated, asked, shown, tries, online, histVars>>

-----------------------------------------------------------------------------
TurnStep ==
  \/ Register \/ ReceiveYes \/ ReceiveNo \/ Timeout \/ Forget \/ TimeoutDecide
  \/ TimeoutFinish \/ TurnRelease \/ CallApproved \/ MarkRunning
  \/ ExecuteArtefact \/ ArtefactFinish

ResumeStep(r) ==
  \/ ResumeRead(r) \/ ResumePerform(r) \/ ResumeRefuse(r) \/ ResumeDefer(r)
  \/ ResumeError(r) \/ ResumeFinish(r) \/ ResumeRelease(r)
  \/ ResumePark(r)

HandlerStep ==
  \/ \E r \in Approvals : ApproveResolve(r) \/ ApproveEnqueue(r)
  \/ \E d \in Declines : DeclineResolve(d) \/ DeclineFinish(d) \/ DeclineRelease(d)
  \/ \E k \in Cancels : CancelFlip(k) \/ CancelResolve(k)

Next ==
  \/ TurnStep
  \/ EndTurn \/ LeaveRun
  \/ \E c \in Calls : RequestApproval(c)
  \/ \E r \in Approvals, c \in Calls : ApproveClaim(r, c)
  \/ \E d \in Declines : DeclineClaim(d)
  \/ \E k \in Cancels : CancelToken(k)
  \/ HandlerStep
  \/ \E r \in Approvals : ResumeStep(r)
  \/ SweepExpired
  \/ TokenExpires
  \/ DeviceFlips
  \/ Crash

Spec == Init /\ [][Next]_vars

\* A started handler, the turn's own timer and the scheduler loop keep running;
\* people, the model, the machine and crashes owe nobody a step.
FairSpec ==
  /\ Spec
  /\ WF_vars(TurnStep)
  /\ WF_vars(HandlerStep)
  /\ \A r \in Approvals : WF_vars(ResumeStep(r))
-----------------------------------------------------------------------------
(* Properties.                                                             *)

TypeOK ==
  /\ status \in Status
  /\ pending \in Calls \cup {NoCall}
  /\ token \in BOOLEAN
  /\ turn \in TurnPC
  /\ gated \in Calls \cup {NoCall}
  /\ asked \subseteq Calls
  /\ waiter \in BOOLEAN
  /\ delivery \in Approvals \cup {NoApproval, "no"}
  /\ cards \subseteq Calls
  /\ approve \in [Approvals -> {"ready", "won", "conflict", "enqueueing", "done"}]
  /\ shown \in [Approvals -> Calls \cup {NoCall}]
  /\ decline \in [Declines -> {"ready", "won", "finishing", "releasing", "done"}]
  /\ cancel \in [Cancels -> {"ready", "flipping", "killed", "missed",
                             "killed_done", "missed_done"}]
  /\ task \in [Approvals -> TaskState]
  /\ tries \in [Approvals -> Nat]
  /\ online \in BOOLEAN
  /\ crashes \in Nat
  /\ ran \in [Approvals -> Nat]
  /\ did \in [Approvals -> Calls \cup {NoCall}]
  /\ refused \subseteq Calls \cup {NoCall}

\* One yes buys at most one side effect: an approval goes to the live turn or to
\* one durable task, never both, and a task that failed is retried only if the
\* effect has not happened (approve_run, execute_approved, poll_once).
AtMostOneEffectPerApproval == \A r \in Approvals : ran[r] <= 1

\* "Executes once": no gated call is performed twice, not even on two different
\* approvals.  Holds for a run that gates one tool call and any drafts; see the
\* README for two tool calls.
ExecutesOnce ==
  \A r, s \in Approvals : r # s /\ did[r] # NoCall => did[r] # did[s]

\* A call whose gate was closed by a rejection, a timeout or the sweep is never
\* performed (decide's compare-and-set, execute_approved's status check).  Of such
\* runs, too.
RefusedNeverRuns == \A r \in Approvals : did[r] = NoCall \/ did[r] \notin refused

\* What runs is the call the approver was shown ("the exact call the human
\* approves -- resume executes it verbatim").
ExecutedWasShown == \A r \in Approvals : did[r] \in {NoCall, shown[r]}

\* A cancelled run cannot be approved any more ("flip the durable status to
\* cancelled (defeats a later approval)").
Killed == \E k \in Cancels : cancel[k] \in {"killed", "killed_done"}
KillDefeatsLaterApproval ==
  [][Killed => \A r \in Approvals : approve[r] = "ready" => approve'[r] # "won"]_vars

\* An approved draft document exists once its run is completed ("on approve we
\* generate the EXACT drafted content").
ApprovedDraftIsWritten ==
  \A r \in Approvals :
    (approve[r] = "done" /\ shown[r] \in Artefact /\ status = "completed")
      => ran[r] = 1

\* An approved run does not stay approved: its action is carried out, refused or
\* parked again by whoever the approval was handed to, unless the resume task
\* ran out of retries ("a concurrent approve won and its durable resume will
\* generate it").
ApprovedIsSettled ==
  status = "approved"
    ~> (status # "approved" \/ \E r \in Approvals : task[r] = "dead_letter")

\* A turn at the gate always gets away from it, whoever answers or does not.
GateIsLeft == turn \in {"gating", "waiting"} ~> turn \in {"thinking", "done"}
=============================================================================
