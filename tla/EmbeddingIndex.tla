--------------------------- MODULE EmbeddingIndex ---------------------------
(***************************************************************************)
(* The life of the embedding index (embedding_index.rs,                    *)
(* embedding_promotion.rs, embedding_retention.rs,                         *)
(* model_routing/reindex.rs, and ml/app/reindex.py for the two calls that  *)
(* change the vector store): an administrator stages a desired model, a    *)
(* routed job rebuilds the corpus into a collection of its own, a durable  *)
(* intent is recorded, the ML service moves the alias, and the backend     *)
(* commits what now serves.  Two stores, no transaction across them.       *)
(*                                                                         *)
(* `wire' holds the calls the ML service has not executed.  The backend    *)
(* keeps the row lock of embedding_index over each of them and gives it up *)
(* on a timeout, a crash or a failed commit (Release); whether the call    *)
(* can still be executed after that is `late', chosen once.                *)
(***************************************************************************)
EXTENDS Naturals, Sequences, FiniteSets

CONSTANTS
    Collections,   \* physical collections, one for each embedding model
    First,         \* the collection that serves at the start
    NoCollection,
    Lateness,      \* whether a call may be executed after its caller gave up
    MaxStagings,   \* bound: targets staged
    MaxFaults      \* bound: edits, revocations, and callers that give up

ASSUME EmbeddingConstants ==
    /\ First \in Collections
    /\ {NoCollection, "none", "swap"} \cap Collections = {}
    /\ Lateness \subseteq BOOLEAN /\ MaxStagings \in Nat /\ MaxFaults \in Nat

VARIABLES
    alias,      \* the collection that serves searches
    store,      \* what is in each collection
    active, desired, revision,   \* the row of embedding_index
    attempt,    \* the newest embedding_rebuild_attempts row and its routed job
    intent,     \* the pending embedding_promotions row: its revision, or 0
    retired,    \* embedding_retired_indices, by retired_at
    wire,       \* ML calls that are not executed
    holder,     \* the row lock's holder: a swap, or the cleanup of a collection
    reply,      \* the answer to it
    authority,  \* the source of the job is still what its actor may rebuild
    late, faults,
    newest      \* history variable: the collection retired last

embVars == <<alias, store, active, desired, revision, attempt, intent, retired, wire,
             holder, reply, authority, late, faults, newest>>
provenance == <<active, desired, revision>>
ml == <<alias, store>>
exchange == <<wire, holder, reply>>
environment == <<authority, late, faults>>

Attempts == [at : {"none", "building", "receipt", "built", "completed", "failed"},
             job : {"none", "queued", "running", "interrupted", "cancelled", "failed",
                    "succeeded"},
             old : Collections \cup {NoCollection},
             new : Collections \cup {NoCollection}, rev : Nat]

EmbInit ==
    /\ alias = First
    /\ store = [c \in Collections |-> IF c = First THEN "whole" ELSE "none"]
    /\ active = First /\ desired = NoCollection /\ revision = 1
    /\ attempt = [at |-> "none", job |-> "none", old |-> NoCollection,
                  new |-> NoCollection, rev |-> 0]
    /\ intent = 0 /\ retired = <<>>
    /\ wire = {} /\ holder = "none" /\ reply = "none"
    /\ authority = TRUE /\ late \in Lateness /\ faults = 0
    /\ newest = NoCollection

\* `receipt' is the built row of a worker that has not returned from its commit.
Built == attempt.at \in {"receipt", "built"}
Open == attempt.job \in {"queued", "running"}
Fault == faults < MaxFaults /\ faults' = faults + 1

\* source: what a rebuild was captured from, compared whole.
SourceHolds ==
    /\ authority
    /\ desired = attempt.new /\ active = attempt.old /\ revision = attempt.rev

-----------------------------------------------------------------------------
(* The administrator. *)

\* set_desired, under the row lock and never over a pending promotion; a target
\* staged anew gets a new revision (migration 0118).
SetDesired(c) ==
    /\ holder = "none" /\ intent = 0
    /\ revision <= MaxStagings
    /\ desired' = c /\ revision' = revision + 1
    /\ UNCHANGED <<ml, active, attempt, intent, retired, exchange, environment, newest>>

\* queue: one rebuild at a time, into a separate target.
Busy == Open \/ Built
Queue ==
    /\ holder = "none" /\ intent = 0 /\ ~Busy
    /\ authority /\ desired \notin {NoCollection, active}
    /\ attempt' = [at |-> "building", job |-> "queued", old |-> active,
                   new |-> desired, rev |-> revision]
    /\ UNCHANGED <<ml, provenance, intent, retired, exchange, environment, newest>>

\* cancel_embedding_reindex.
Cancel ==
    /\ Open /\ attempt.at = "building"
    /\ attempt' = [attempt EXCEPT !.at = "failed", !.job = "cancelled"]
    /\ UNCHANGED <<ml, provenance, intent, retired, exchange, environment, newest>>

-----------------------------------------------------------------------------
(* handle_task: the worker of the routed job. *)

\* The job is claimed, its source checked, and the ML service resets the target
\* unless it is what the alias serves.
Start ==
    /\ attempt.job = "queued" /\ attempt.at = "building"
    /\ IF SourceHolds /\ intent = 0 /\ alias = attempt.old /\ alias # attempt.new
       THEN /\ attempt' = [attempt EXCEPT !.job = "running"]
            /\ store' = [store EXCEPT ![attempt.new] = "building"]
       ELSE /\ attempt' = [attempt EXCEPT !.at = "failed", !.job = "failed"]
            /\ UNCHANGED store
    /\ UNCHANGED <<alias, provenance, intent, retired, exchange, environment, newest>>

\* The corpus did not change under the build, and the fenced receipt is committed.
BuildDone ==
    /\ attempt.job = "running" /\ attempt.at = "building"
    /\ SourceHolds /\ intent = 0
    /\ store[attempt.new] = "building" /\ alias = attempt.old
    /\ store' = [store EXCEPT ![attempt.new] = "whole"]
    /\ attempt' = [attempt EXCEPT !.at = "receipt"]
    /\ UNCHANGED <<alias, provenance, intent, retired, exchange, environment, newest>>

\* The build or a check of the monitor fails.  The monitor is polled first, so it
\* also wins over a receipt that is already committed.
BuildFails ==
    /\ attempt.job = "running"
    /\ \/ attempt.at = "building"
       \/ attempt.at = "receipt" /\ ~(SourceHolds /\ intent = 0)
    /\ attempt' = [attempt EXCEPT !.job = "failed",
                                  !.at = IF @ = "building" THEN "failed" ELSE "built"]
    /\ UNCHANGED <<ml, provenance, intent, retired, exchange, environment, newest>>

WorkerReturns ==
    /\ attempt.job = "running" /\ attempt.at = "receipt"
    /\ attempt' = [attempt EXCEPT !.at = "built"]
    /\ UNCHANGED <<ml, provenance, intent, retired, exchange, environment, newest>>

\* durable::recover: a lease runs out, or a queued job's deadline.
JobLapses ==
    /\ Open /\ Fault
    /\ attempt' = [attempt EXCEPT
          !.job = IF @ = "running" THEN "interrupted" ELSE "failed",
          !.at = IF @ = "receipt" THEN "built" ELSE @]
    /\ UNCHANGED <<ml, provenance, intent, retired, exchange, authority, late, newest>>

-----------------------------------------------------------------------------
(* Publication. *)

\* promote_rebuild, by the worker or by reindex::recover: the intent is durable
\* before the alias moves.  Whoever finds one for another target gets a Conflict.
RecordIntent ==
    /\ Built /\ attempt.job \in {"running", "interrupted"}
    /\ holder = "none" /\ intent = 0
    /\ active = attempt.old /\ desired = attempt.new /\ revision = attempt.rev
    /\ intent' = attempt.rev
    /\ UNCHANGED <<ml, provenance, attempt, retired, exchange, environment, newest>>

\* promotion::recover: under the locks, the authority is looked up and the alias
\* call sent.
AskSwap ==
    /\ holder = "none" /\ intent # 0
    /\ active = attempt.old /\ revision = intent
    /\ holder' = "swap" /\ reply' = "none"
    /\ wire' = wire \cup
         {[kind |-> "swap", name |-> attempt.new, expected |-> attempt.old, mine |-> TRUE,
           authorised |-> /\ Built /\ attempt.job \in {"running", "interrupted"}
                          /\ SourceHolds]}
    /\ UNCHANGED <<ml, provenance, attempt, intent, retired, environment, newest>>

\* A mutant: a call repeated after the alias has moved is an error.
SwapVerdictOnce(call) ==
    IF alias # call.expected THEN "error"
    ELSE IF call.authorised /\ store[call.name] = "whole" THEN "ok" ELSE "refused"

\* ml/app/reindex.py swap: what the call is answered, and whether the alias moves.
SwapVerdict(call) ==
    CASE alias = call.name -> "ok"
      [] alias # call.name /\ alias # call.expected -> "error"
      [] alias = call.expected /\ call.name # alias ->
            IF call.authorised /\ store[call.name] = "whole" THEN "ok" ELSE "refused"

Answer(call, verdict) ==
    /\ wire' = wire \ {call}
    /\ reply' = IF call.mine THEN verdict ELSE reply

ExecuteSwap ==
    \E call \in wire :
       /\ call.kind = "swap"
       /\ alias' = IF SwapVerdict(call) = "ok" THEN call.name ELSE alias
       /\ Answer(call, SwapVerdict(call))
       /\ UNCHANGED <<store, provenance, attempt, intent, retired, holder, environment,
                      newest>>

\* The confirmed publication is committed in one transaction.
CommitSwap ==
    /\ holder = "swap" /\ reply = "ok"
    /\ active' = attempt.new /\ desired' = NoCollection /\ revision' = revision + 1
    /\ attempt' = [attempt EXCEPT
          !.at = IF Built THEN "completed" ELSE @,
          !.job = IF Built /\ @ \in {"running", "interrupted"} THEN "succeeded" ELSE @]
    /\ retired' = IF \E i \in DOMAIN retired : retired[i].name = active THEN retired
                  ELSE Append(retired, [name |-> active, at |-> "retained", aged |-> FALSE])
    /\ intent' = 0 /\ newest' = active
    /\ holder' = "none" /\ reply' = "none"
    /\ UNCHANGED <<ml, wire, environment>>

\* A proven refusal releases the intent and settles the attempt.
CommitRefusal ==
    /\ holder = "swap" /\ reply = "refused"
    /\ attempt' = [attempt EXCEPT
          !.at = IF Built THEN "failed" ELSE @,
          !.job = IF Built /\ @ \in {"running", "interrupted"} THEN "failed" ELSE @]
    /\ intent' = 0
    /\ holder' = "none" /\ reply' = "none"
    /\ UNCHANGED <<ml, provenance, retired, wire, environment, newest>>

\* Any other answer leaves the intent, or the retired row, as it was.
TakeError ==
    /\ holder # "none" /\ reply = "error"
    /\ holder' = "none" /\ reply' = "none"
    /\ UNCHANGED <<ml, provenance, attempt, intent, retired, wire, environment, newest>>

\* A mutant: a call that is not answered counts as refused.
ReleaseRefuses ==
    /\ holder # "none" /\ Fault
    /\ holder' = "none" /\ reply' = "none"
    /\ wire' = IF late THEN {[call EXCEPT !.mine = FALSE] : call \in wire}
               ELSE {call \in wire : ~call.mine}
    /\ IF holder = "swap"
       THEN intent' = 0 /\ attempt' = [attempt EXCEPT !.at = "failed", !.job = "failed"]
       ELSE UNCHANGED <<intent, attempt>>
    /\ UNCHANGED <<ml, provenance, retired, authority, late, newest>>

\* The caller times out, dies, or cannot commit: the transaction rolls back.
Release ==
    /\ holder # "none" /\ Fault
    /\ holder' = "none" /\ reply' = "none"
    /\ wire' = IF late THEN {[call EXCEPT !.mine = FALSE] : call \in wire}
               ELSE {call \in wire : ~call.mine}
    /\ UNCHANGED <<ml, provenance, attempt, intent, retired, authority, late, newest>>

-----------------------------------------------------------------------------
(* embedding_retention::cleanup. *)

\* Of the rows that are old enough, all but the one retired last.
Eligible == {i \in DOMAIN retired : retired[i].at = "retained" /\ retired[i].aged}
Cleanable == {i \in Eligible : \E j \in Eligible : i < j}

AskCleanup(i) ==
    /\ i \in Cleanable /\ holder = "none" /\ intent = 0
    /\ retired[i].name \notin {active, desired}
    /\ ~(Open /\ retired[i].name \in {attempt.old, attempt.new})
    /\ holder' = retired[i].name /\ reply' = "none"
    /\ wire' = wire \cup {[kind |-> "clean", name |-> retired[i].name, expected |-> active,
                           mine |-> TRUE, authorised |-> TRUE]}
    /\ UNCHANGED <<ml, provenance, attempt, intent, retired, environment, newest>>

\* A mutant: what serves is checked by the backend alone.
ExecuteCleanupUnchecked ==
    \E call \in wire :
       /\ call.kind = "clean"
       /\ store' = [store EXCEPT ![call.name] = "none"]
       /\ Answer(call, "ok")
       /\ UNCHANGED <<alias, provenance, attempt, intent, retired, holder, environment,
                      newest>>

\* ml/app/reindex.py cleanup_retired.
ExecuteCleanup ==
    \E call \in wire :
       /\ call.kind = "clean"
       /\ LET may == alias = call.expected /\ alias # call.name
          IN /\ store' = IF may THEN [store EXCEPT ![call.name] = "none"] ELSE store
             /\ Answer(call, IF may THEN "ok" ELSE "error")
       /\ UNCHANGED <<alias, provenance, attempt, intent, retired, holder, environment,
                      newest>>

CommitCleanup(i) ==
    /\ holder = retired[i].name /\ reply = "ok"
    /\ retired' = [retired EXCEPT ![i].at = "deleted"]
    /\ holder' = "none" /\ reply' = "none"
    /\ UNCHANGED <<ml, provenance, attempt, intent, wire, environment, newest>>

\* Twenty-four hours pass.
Age ==
    /\ \E i \in DOMAIN retired : ~retired[i].aged
    /\ retired' = [i \in DOMAIN retired |-> [retired[i] EXCEPT !.aged = TRUE]]
    /\ UNCHANGED <<ml, provenance, attempt, intent, exchange, environment, newest>>

-----------------------------------------------------------------------------
(* What else happens to the corpus and to the actor's rights. *)

\* Documents change: no copy of the corpus is current but the one that serves.
Edit ==
    /\ Fault
    /\ store' = [c \in Collections |->
          IF c # alias /\ store[c] \in {"building", "whole"} THEN "stale" ELSE store[c]]
    /\ UNCHANGED <<alias, provenance, attempt, intent, retired, exchange, authority, late,
                   newest>>

ChangeAuthority ==
    /\ Fault /\ authority' = ~authority
    /\ UNCHANGED <<ml, provenance, attempt, intent, retired, exchange, late, newest>>

-----------------------------------------------------------------------------
Publish == RecordIntent \/ AskSwap \/ CommitSwap \/ CommitRefusal \/ TakeError
Execute == ExecuteSwap \/ ExecuteCleanup
Work == Start \/ BuildDone \/ BuildFails \/ WorkerReturns
Clean == \E i \in DOMAIN retired : AskCleanup(i) \/ CommitCleanup(i)

EmbNext ==
    \/ \E c \in Collections : SetDesired(c)
    \/ Queue \/ Cancel \/ Work \/ JobLapses
    \/ Publish \/ Execute \/ Release
    \/ Clean \/ Age \/ Edit \/ ChangeAuthority

EmbSpec == EmbInit /\ [][EmbNext]_embVars

\* Each poll of the scheduler works on a pending promotion, the ML service answers,
\* and a cleanup that has the lock ends.
EmbFairness ==
    /\ SF_embVars(Publish) /\ WF_embVars(Execute) /\ WF_embVars(Work)
    /\ WF_embVars(\E i \in DOMAIN retired : CommitCleanup(i))

EmbFairSpec == EmbSpec /\ EmbFairness

-----------------------------------------------------------------------------
EmbTypeOK ==
    /\ {alias, active} \subseteq Collections
    /\ desired \in Collections \cup {NoCollection} /\ revision \in Nat
    /\ store \in [Collections -> {"none", "building", "whole", "stale"}]
    /\ attempt \in Attempts /\ intent \in {0, revision}
    /\ \A i \in DOMAIN retired : retired[i] \in
          [name : Collections, at : {"retained", "deleted"}, aged : BOOLEAN]
    /\ \A call \in wire : call.mine => holder # "none" /\ reply = "none"
    /\ holder \in {"none", "swap"} \cup Collections
    /\ reply \in {"none", "ok", "refused", "error"}

\* What searches are served from, and what the row says serves, is a collection that
\* was completed and is there: no build resets it and no cleanup deletes it, not even
\* one executed after its caller gave up.
ServedExists ==
    /\ store[alias] \in {"whole", "stale"}
    /\ ~late => store[active] \in {"whole", "stale"}

\* Whatever call or commit was lost, queries are embedded with the model of the
\* collection the alias serves, unless a promotion is pending and they are refused.
ProvenanceIsServed == (intent = 0 /\ ~late) => alias = active

\* A rebuild that was reported failed or cancelled does not serve.
FailedNeverServes ==
    (attempt.at = "failed" /\ ~late) => alias # attempt.new

\* A pending promotion is settled, however often its caller is lost.
PendingSettles == (~late /\ intent # 0) ~> intent = 0

\* What reindex.rs says of recovery: already-built work is settled.
BuiltIsSettled == (~late /\ Built) ~> ~Built

\* What the cleanup reports: the newest retired index is preserved.
NewestIsPreserved ==
    (newest # NoCollection /\ ~late) => store[newest] # "none"
=============================================================================
