---------------------------- MODULE Automations ----------------------------
(***************************************************************************)
(* One scheduled automation (scheduler/mod.rs, http/automations.rs): its   *)
(* next occurrence in the database, the schedulers that scan for it and    *)
(* then work through the queue, its run history, the approvals its         *)
(* unattended runs park on, and the catch-up when a machine comes back.    *)
(* The owner may move it to another folder, to another machine or to the   *)
(* server at any time, whatever is going on.                               *)
(*                                                                         *)
(* Occurrences are numbered; `now' is the number of the last one that    *)
(* has come, and next_run_at the number of the next one to fire.           *)
(***************************************************************************)
EXTENDS Naturals, Sequences, FiniteSets

CONSTANTS
    Schedulers, Sockets,
    Machines, Folders, \* the owner's devices, the folders connected on them
    Host,              \* device_workspaces.device_id
    NoFolder,          \* workspace_id is NULL: the automation runs on the server
    UpSchedulers,      \* which schedulers may be running
    TaskRetries,       \* tasks.max_retries
    MaxOccurrences,    \* bound: occurrences of the schedule
    MaxMoves           \* bound: what the owner, the machine and failures do

ASSUME AutomationConstants ==
    /\ \A up \in UpSchedulers : up \in SUBSET Schedulers /\ IsFiniteSet(up)
    /\ Host \in [Folders -> Machines] /\ NoFolder \notin Folders
    /\ TaskRetries \in Nat \ {0} /\ MaxOccurrences \in Nat
    /\ MaxMoves \in Nat

VARIABLES
    folder,      \* automations.workspace_id
    revoked,     \* the folders whose revoked_at is set
    autoStatus,  \* automations.status
    now, next,   \* the occurrence that has come, next_run_at
    tasks,       \* the queued automation_run tasks, counted by their failures
    history,     \* the automation_runs that matter later, counted by their state
    reachable,   \* the machines with a socket on the hub
    sched,       \* what each scheduler is doing, and for which folder
    socket,      \* what the catch-up of each connection is doing, of which machine
    inFolder,    \* history variable: of the records that go on, those of runs in a folder
    covered,     \* history variable: the occurrences fired, or dropped by an edit
    unmade,      \* history variable: records missed less catch-up runs enqueued
    moves

autoVars == <<folder, revoked, autoStatus, now, next, tasks, history, reachable, sched,
              socket, inFolder, covered, unmade, moves>>
site == <<folder, revoked, reachable>>
calendar == <<autoStatus, now, next>>
records == <<history, inFolder>>
ghosts == <<covered, unmade>>

\* The records of automation_runs: going on, parked on an approval that is awaited,
\* or that has been answered, failed by the expiry of another's approval, and
\* missed because the machine was offline.
Kinds == {"running", "asked", "answered", "orphaned", "missed"}

Resting == [at |-> "idle", upto |-> 0, tries |-> 0, folder |-> NoFolder]
Asleep == [at |-> "idle"]
Put(kind) == [history EXCEPT ![kind] = @ + 1]
Turn(from, to) == [history EXCEPT ![from] = @ - 1, ![to] = @ + 1]

AutoInit ==
    /\ folder \in Folders \cup {NoFolder} /\ revoked = {}
    /\ autoStatus = "active" /\ now = 0 /\ next = 1
    /\ tasks = [n \in 0 .. TaskRetries - 1 |-> 0] /\ history = [k \in Kinds |-> 0]
    /\ inFolder = [running |-> 0, parked |-> 0]
    /\ reachable \in SUBSET Machines
    /\ \E up \in UpSchedulers :
          sched = [s \in Schedulers |->
                      IF s \in up THEN Resting ELSE [Resting EXCEPT !.at = "down"]]
    /\ socket = [k \in Sockets |-> Asleep]
    /\ covered = 0 /\ unmade = 0
    /\ moves = 0

Move == moves < MaxMoves /\ moves' = moves + 1

Later(occurrence) == IF occurrence > covered THEN occurrence ELSE covered

\* enqueue_ref, and what fail_task puts back.
Queue(failures) == [tasks EXCEPT ![failures] = @ + 1]

-----------------------------------------------------------------------------
(* scan_due_automations. *)

Tick ==
    /\ now < MaxOccurrences /\ now' = now + 1
    /\ UNCHANGED <<site, autoStatus, next, tasks, records, sched, socket, ghosts, moves>>

\* Mutants: only an occurrence on the dot is due; the next one is written first.
ScanReadOnTheDot(s) ==
    /\ sched[s].at = "idle"
    /\ autoStatus = "active" /\ next = now
    /\ sched' = [sched EXCEPT ![s].at = "due", ![s].upto = now]
    /\ UNCHANGED <<site, calendar, tasks, records, socket, ghosts, moves>>
ScanReadAdvances(s) ==
    /\ sched[s].at = "idle"
    /\ autoStatus = "active" /\ next <= now
    /\ next' = now + 1
    /\ sched' = [sched EXCEPT ![s].at = "due", ![s].upto = now]
    /\ UNCHANGED <<site, autoStatus, now, tasks, records, socket, ghosts, moves>>

\* The due automation is read ...
ScanRead(s) ==
    /\ sched[s].at = "idle"
    /\ autoStatus = "active" /\ next <= now
    /\ sched' = [sched EXCEPT ![s].at = "due", ![s].upto = now]
    /\ UNCHANGED <<site, calendar, tasks, records, socket, ghosts, moves>>

\* ... its task enqueued ...
ScanEnqueue(s) ==
    /\ sched[s].at = "due"
    /\ tasks' = Queue(0)
    /\ covered' = Later(sched[s].upto)
    /\ sched' = [sched EXCEPT ![s].at = "fired"]
    /\ UNCHANGED <<site, calendar, records, socket, unmade, moves>>

\* ... and its next occurrence after the scan written, in three statements.
ScanAdvance(s) ==
    /\ sched[s].at = "fired"
    /\ next' = sched[s].upto + 1
    /\ sched' = [sched EXCEPT ![s] = Resting]
    /\ UNCHANGED <<site, autoStatus, now, tasks, records, socket, ghosts, moves>>

-----------------------------------------------------------------------------
(* run_automation. *)

Going == history["running"] + history["asked"] + history["answered"]

\* A task is taken and the automation's row is read; what the owner does to the row
\* from now on comes too late for this run.
TakeTask(s, n) ==
    /\ sched[s].at = "idle" /\ tasks[n] > 0
    /\ tasks' = [tasks EXCEPT ![n] = @ - 1]
    /\ sched' = [sched EXCEPT ![s].at = "start", ![s].tries = n, ![s].folder = folder]
    /\ UNCHANGED <<site, calendar, records, socket, ghosts, moves>>

\* resolve_automation_target.
Target(f) == IF f = NoFolder THEN "server"
             ELSE IF f \in revoked THEN "withdrawn" ELSE "device"

\* A mutant: the overlap guard is dropped.
MissedUnlessOnline(f, reason) ==
    \/ reason = "withdrawn" /\ Target(f) = "withdrawn"
    \/ reason = "offline" /\ Target(f) = "device" /\ Host[f] \notin reachable

\* record_missed: the occurrence is written down and its task is done.  Of the
\* records only those missed because the machine was offline are made up for.  The
\* overlap guard counts the automation's runs, wherever they run.
MissedBecause(f, reason) ==
    \/ reason = "withdrawn" /\ Target(f) = "withdrawn"
    \/ reason = "offline" /\ Target(f) = "device" /\ Host[f] \notin reachable
    \/ reason = "overlap" /\ Target(f) = "device" /\ Host[f] \in reachable /\ Going > 0
Reasons == {"withdrawn", "offline", "overlap"}

Miss(s) ==
    /\ sched[s].at = "start"
    /\ \E reason \in Reasons :
          /\ MissedBecause(sched[s].folder, reason)
          /\ IF reason = "offline"
             THEN history' = Put("missed") /\ unmade' = unmade + 1
             ELSE UNCHANGED <<history, unmade>>
    /\ sched' = [sched EXCEPT ![s] = Resting]
    /\ UNCHANGED <<site, calendar, tasks, inFolder, socket, covered, moves>>

\* The guards let it run; the run's row is a later statement.
Admit(s) ==
    /\ sched[s].at = "start"
    /\ \A reason \in Reasons : ~MissedBecause(sched[s].folder, reason)
    /\ sched' = [sched EXCEPT ![s].at = "admitted"]
    /\ UNCHANGED <<site, calendar, tasks, records, socket, ghosts, moves>>

BeginRun(s) ==
    /\ sched[s].at = "admitted"
    /\ history' = Put("running")
    /\ IF sched[s].folder = NoFolder THEN UNCHANGED inFolder
       ELSE inFolder' = [inFolder EXCEPT !.running = @ + 1]
    /\ sched' = [sched EXCEPT ![s].at = "turn"]
    /\ UNCHANGED <<site, calendar, tasks, socket, ghosts, moves>>

\* The turn ends: parked on an approval, done, or failed and to be retried until
\* its task is a dead letter.
FinishTurn(s) ==
    /\ sched[s].at = "turn"
    /\ \/ /\ history' = Turn("running", "asked") /\ UNCHANGED <<tasks, moves>>
          /\ IF sched[s].folder = NoFolder THEN UNCHANGED inFolder
             ELSE inFolder' = [running |-> inFolder.running - 1, parked |-> inFolder.parked + 1]
       \/ /\ history' = [history EXCEPT !["running"] = @ - 1]
          /\ IF sched[s].folder = NoFolder THEN UNCHANGED inFolder
             ELSE inFolder' = [inFolder EXCEPT !.running = @ - 1]
          /\ \/ UNCHANGED <<tasks, moves>>
             \/ sched[s].tries + 1 < TaskRetries /\ Move /\ tasks' = Queue(sched[s].tries + 1)
             \/ sched[s].tries + 1 >= TaskRetries /\ Move /\ UNCHANGED tasks
    /\ sched' = [sched EXCEPT ![s] = Resting]
    /\ UNCHANGED <<site, calendar, socket, ghosts>>

-----------------------------------------------------------------------------
(* Approvals of parked runs. *)

\* The owner answers, and the agent run goes its way.
Answer ==
    /\ \/ history["asked"] > 0 /\ history' = Turn("asked", "answered")
       \/ /\ history["orphaned"] > 0
          /\ history' = [history EXCEPT !["orphaned"] = @ - 1]
    /\ UNCHANGED <<site, calendar, tasks, inFolder, sched, socket, ghosts, moves>>

\* scan_expired_approvals fails one agent run, and with it every record of its
\* automation that is in needs_approval.
ExpireApprovals ==
    /\ history["asked"] + history["orphaned"] > 0
    /\ \E s \in Schedulers : sched[s].at = "idle"
    /\ history' = [history EXCEPT !["asked"] = 0, !["answered"] = 0,
                                   !["orphaned"] = @ + history["asked"] - 1]
    /\ inFolder' = [inFolder EXCEPT !.parked = 0]
    /\ UNCHANGED <<site, calendar, tasks, sched, socket, ghosts, moves>>

-----------------------------------------------------------------------------
(* catchup_device, which every connection of a machine starts. *)

Connect(k, m) ==
    /\ socket[k].at = "idle" /\ Move
    /\ reachable' = reachable \cup {m}
    /\ socket' = [socket EXCEPT ![k] = [at |-> "looking", of |-> m]]
    /\ UNCHANGED <<folder, revoked, calendar, tasks, records, sched, ghosts>>

Disconnect(m) ==
    /\ m \in reachable /\ Move
    /\ reachable' = reachable \ {m}
    /\ UNCHANGED <<folder, revoked, calendar, tasks, records, sched, socket, ghosts>>

\* Looked up by the machine that has come back; claimed by the automation alone.
Owed(m) == /\ Target(folder) = "device" /\ Host[folder] = m /\ autoStatus = "active"
           /\ history["missed"] > 0 /\ Going = 0

\* No record need be within the catch-up window by now, or run_when_back be set.
Look(k) ==
    /\ socket[k].at = "looking"
    /\ \/ Owed(socket[k].of) /\ socket' = [socket EXCEPT ![k] = [at |-> "claiming"]]
       \/ socket' = [socket EXCEPT ![k] = Asleep]
    /\ UNCHANGED <<site, calendar, tasks, records, sched, ghosts, moves>>

\* Mutant: the record keeps its status.
ClaimMissedUnmarked(k) ==
    /\ socket[k].at = "claiming"
    /\ socket' = [socket EXCEPT ![k] =
                   IF history["missed"] > 0 THEN [at |-> "claimed"] ELSE Asleep]
    /\ UNCHANGED <<site, calendar, tasks, records, sched, ghosts, moves>>

\* The newest missed record is claimed; its status is the lock.
ClaimMissed(k) ==
    /\ socket[k].at = "claiming"
    /\ \/ /\ history["missed"] > 0
          /\ history' = [history EXCEPT !["missed"] = @ - 1]
          /\ socket' = [socket EXCEPT ![k] = [at |-> "claimed"]]
       \/ /\ history["missed"] = 0 /\ UNCHANGED history
          /\ socket' = [socket EXCEPT ![k] = Asleep]
    /\ UNCHANGED <<site, calendar, tasks, inFolder, sched, ghosts, moves>>

MakeUp(k) ==
    /\ socket[k].at = "claimed"
    /\ tasks' = Queue(0)
    /\ unmade' = unmade - 1
    /\ socket' = [socket EXCEPT ![k] = Asleep]
    /\ UNCHANGED <<site, calendar, records, sched, covered, moves>>

-----------------------------------------------------------------------------
(* The owner, and failures. *)

\* update_automation: one statement, which may edit the schedule, pause or resume the
\* automation and move it to another folder of the owner's, or to the server.
Update ==
    /\ Move
    /\ \/ next' = now + 1 /\ covered' = Later(now)
       \/ UNCHANGED <<next, covered>>
    /\ autoStatus' \in {"active", "paused"}
    /\ folder' \in {folder, NoFolder} \cup (Folders \ revoked)
    /\ UNCHANGED <<revoked, reachable, now, tasks, records, sched, socket, unmade>>

\* run_now.
RunNow ==
    /\ Move
    /\ tasks' = Queue(0)
    /\ UNCHANGED <<site, calendar, records, sched, socket, ghosts>>

\* The owner withdraws a folder.
Withdraw(f) ==
    /\ f \notin revoked /\ Move
    /\ revoked' = revoked \cup {f}
    /\ UNCHANGED <<folder, reachable, calendar, tasks, records, sched, socket, ghosts>>

\* A scheduler dies with what it had in hand; its task and its row stay.
Perish(s) ==
    /\ sched[s].at \notin {"idle", "down"} /\ Move
    /\ sched' = [sched EXCEPT ![s] = Resting]
    /\ UNCHANGED <<site, calendar, tasks, records, socket, ghosts>>

-----------------------------------------------------------------------------
Scan(s) == ScanRead(s) \/ ScanEnqueue(s) \/ ScanAdvance(s)
Serve(s) ==
    \/ \E n \in DOMAIN tasks : TakeTask(s, n)
    \/ Miss(s) \/ Admit(s) \/ BeginRun(s) \/ FinishTurn(s)
CatchUp(k) == Look(k) \/ ClaimMissed(k) \/ MakeUp(k)

AutoNext ==
    \/ Tick
    \/ \E s \in Schedulers : Scan(s) \/ Serve(s) \/ Perish(s)
    \/ Answer \/ ExpireApprovals
    \/ \E k \in Sockets : CatchUp(k) \/ \E m \in Machines : Connect(k, m)
    \/ \E m \in Machines : Disconnect(m)
    \/ \E f \in Folders : Withdraw(f)
    \/ Update \/ RunNow

AutoSpec == AutoInit /\ [][AutoNext]_autoVars

\* A tick scans before it serves, a turn ends, an approval expires if nobody
\* answers it.
AutoFairness ==
    /\ \A s \in Schedulers : SF_autoVars(Scan(s)) /\ WF_autoVars(Serve(s))
    /\ WF_autoVars(ExpireApprovals)

AutoFairSpec == AutoSpec /\ AutoFairness

-----------------------------------------------------------------------------
AutoTypeOK ==
    /\ folder \in Folders \cup {NoFolder} /\ revoked \in SUBSET Folders
    /\ autoStatus \in {"active", "paused"} /\ reachable \in SUBSET Machines
    /\ now \in 0 .. MaxOccurrences /\ next \in 1 .. MaxOccurrences + 1
    /\ tasks \in [0 .. TaskRetries - 1 -> Nat] /\ history \in [Kinds -> Nat]
    /\ \A s \in Schedulers :
          /\ sched[s].at \in {"down", "idle", "due", "fired", "start", "admitted", "turn"}
          /\ sched[s].upto \in 0 .. now /\ sched[s].tries \in DOMAIN tasks
          /\ sched[s].folder \in Folders \cup {NoFolder}
    /\ socket \in [Sockets ->
                     [at : {"idle", "claiming", "claimed"}] \cup [at : {"looking"}, of : Machines]]
    /\ inFolder \in [running : Nat, parked : Nat]
    /\ inFolder.running <= history["running"]
    /\ inFolder.parked <= history["asked"] + history["answered"]
    /\ Cardinality({s \in Schedulers : sched[s].at = "turn"}) <= history["running"]

\* No occurrence is lost to a crash or to another scheduler: next_run_at is past
\* an occurrence only if a task was enqueued when it had come, or the owner has
\* edited the schedule since.
NoOccurrenceLost == next - 1 <= covered

\* A missed record is made up for at most once, however many sockets of the machine
\* reconnect and look at the same records.
MadeUpOnce ==
    history["missed"] + Cardinality({k \in Sockets : socket[k].at = "claimed"}) <= unmade

\* The overlap guard counts and then inserts, so runs in the owner's folders may
\* overlap, but no more are on record as going on, whichever machines they are on and
\* wherever the owner has moved the automation since, than one for each scheduler.
OverlapBounded ==
    inFolder.running + inFolder.parked
        <= Cardinality({s \in Schedulers : sched[s].at # "down"})

\* An active automation does not stay behind its schedule: what has come is fired, or
\* the owner edits the schedule or pauses it, whoever dies and whatever is going on.
DueIsFired ==
    (autoStatus = "active" /\ covered < now) ~> (autoStatus = "paused" \/ covered >= now)

\* What migration 0100 says of a run in needs_approval: a step is waiting for the
\* owner to agree.  Once the owner has answered, the record moves on.
AnsweredMovesOn == history["answered"] > 0 ~> history["answered"] = 0
=============================================================================
