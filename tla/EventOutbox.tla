---------------------------- MODULE EventOutbox ----------------------------
(***************************************************************************)
(* The transactional outbox of domain events and the relay that turns them *)
(* into workflow runs (events/mod.rs, workflows/mod.rs).                   *)
(*                                                                         *)
(* A domain mutation writes its event in its own transaction, so events    *)
(* commit in another order than they are created.  Several dispatchers     *)
(* claim undispatched events with SKIP LOCKED, walk the enabled workflows  *)
(* of each, and create runs, fill coalescing buckets and mark the events,  *)
(* all in one transaction.  What a transaction wrote lives in its          *)
(* dispatcher's record until it commits; the count of rate-cap trips is in *)
(* Redis and is not rolled back.  An event is named by its place in the    *)
(* order of creation (created_at is the start of its transaction).         *)
(***************************************************************************)
EXTENDS Naturals, FiniteSets, Sequences, FiniteSetsExt

CONSTANTS
    Workflows, Dispatchers, Admins,
    Deployments,  \* which dispatchers may be running
    Kinds,        \* the events mutations emit: [human, res, to]
    Coalesced,    \* workflows with a coalescing window
    OnSystem,     \* workflows that trigger on system events too
    MaxDepth,     \* workflows.max_depth
    Cap,          \* max_runs_per_window of each workflow, 0 = no cap
    Trips,        \* AUTO_DISABLE_TRIPS
    Batch,        \* DISPATCH_BATCH
    ChildTo,      \* which workflows a child event may be for
    NoRes, NoBucket,
    MaxEvents,    \* bound: events ever created
    MaxToggles,   \* bound: switches an admin or an owner throws
    MaxCrashes    \* bound: transactions of a dispatcher that are lost

ASSUME OutboxConstants ==
    /\ Coalesced \subseteq Workflows /\ OnSystem \subseteq Workflows
    /\ \A k \in Kinds : k.human \in BOOLEAN /\ k.to \subseteq Workflows
    /\ ChildTo \subseteq SUBSET Workflows
    /\ \A up \in Deployments : up \subseteq Dispatchers /\ IsFiniteSet(up)
    /\ MaxDepth \in Nat /\ Cap \in [Workflows -> Nat] /\ Trips \in Nat
    /\ Batch \in Nat \ {0} /\ MaxEvents \in Nat
    /\ MaxToggles \in Nat /\ MaxCrashes \in Nat
    /\ NoBucket \notin [on : SUBSET Nat, depth : Nat, due : BOOLEAN]

VARIABLES
    events,       \* the events table, in order of creation
    enabled,      \* workflows.enabled
    buckets,      \* workflow_coalesce: the open or due batch of a workflow
    runs,         \* workflow_runs
    trips,        \* Redis: trips of the rate cap in the current window
    on, paused,   \* features.workflows, workflows.pause_all
    watermark,    \* events created before it are not replayed
    admin,        \* where an admin's off -> on request stands
    relay,        \* a dispatcher and its open transaction
    toggles, crashes

tables == <<events, enabled, buckets, runs>>
switches == <<on, paused, watermark, admin>>
bounds == <<toggles, crashes>>
outboxVars == <<events, enabled, buckets, runs, trips, on, paused, watermark,
                admin, relay, toggles, crashes>>

EventIds == 1 .. MaxEvents
Running == on /\ ~paused

Idle == [at |-> "idle", watermark |-> 0, left |-> {}, cur |-> 0, todo |-> {},
         marked |-> {}, passed |-> {}, made |-> {},
         held |-> [w \in {} |-> NoBucket], off |-> {}]

OutboxInit ==
    /\ events = <<>> /\ runs = {}
    /\ enabled = [w \in Workflows |-> TRUE]
    /\ buckets = [w \in Workflows |-> NoBucket]
    /\ trips = [w \in Workflows |-> 0]
    /\ on \in BOOLEAN /\ paused = FALSE /\ watermark = 0
    /\ admin = [a \in Admins |-> "idle"]
    /\ \E up \in Deployments :
          relay = [d \in Dispatchers |->
                      IF d \in up THEN Idle ELSE [Idle EXCEPT !.at = "down"]]
    /\ toggles = 0 /\ crashes = 0

-----------------------------------------------------------------------------
(* Mutations and their events. *)

\* For the properties: was the engine off at some point of the event's life, or was
\* it made with the engine on while an admin who had found it off had yet to stamp.
NewEvent(k, st, depth, chain, gen) ==
    [at |-> st, human |-> k.human, res |-> k.res, to |-> k.to,
     depth |-> depth, chain |-> chain, gen |-> gen, sawOff |-> ~on,
     amid |-> on /\ \E a \in Admins : admin[a] = "stamp"]

\* A mutation opens its transaction and writes its event.
Emit ==
    /\ Len(events) < MaxEvents
    /\ \E k \in Kinds : events' = Append(events, NewEvent(k, "open", 0, {}, 0))
    /\ UNCHANGED <<enabled, buckets, runs, trips, relay, switches, bounds>>

\* It commits, and the event with it, or neither happens.
EndMutation(e) ==
    /\ events[e].at = "open"
    /\ \E st \in {"pending", "gone"} : events' = [events EXCEPT ![e].at = st]
    /\ UNCHANGED <<enabled, buckets, runs, trips, relay, switches, bounds>>

-----------------------------------------------------------------------------
(* The relay: dispatch_once. *)

Idling(d) == relay[d].at = "idle"
Locked(e) == \E d \in Dispatchers : e \in relay[d].marked \cup relay[d].left
BucketFree(d, w) == \A o \in Dispatchers \ {d} : w \notin DOMAIN relay[o].held
RowFree(d, w) == \A o \in Dispatchers \ {d} : w \notin relay[o].off

\* Each pass reads the flags (and the watermark) before its transaction begins.
ReadSwitches(d) ==
    /\ Idling(d) /\ Running
    /\ relay' = [relay EXCEPT ![d] = [Idle EXCEPT !.at = "read", !.watermark = watermark]]
    /\ UNCHANGED <<trips, tables, switches, bounds>>

\* Mutant: the claim takes rows another dispatcher has locked.
UndispatchedUnlocked == {e \in DOMAIN events : events[e].at = "pending"}
Undispatched == {e \in DOMAIN events : events[e].at = "pending" /\ ~Locked(e)}
Oldest(S) == {e \in S : Cardinality({o \in S : o < e}) < Batch}

\* The oldest undispatched events nobody else holds are claimed; those older
\* than the watermark are marked without a look at the workflows.
Claim(d) ==
    /\ relay[d].at = "read"
    /\ LET batch == Oldest(Undispatched)
           old == {e \in batch : e < relay[d].watermark}
       IN relay' = [relay EXCEPT ![d] =
              IF batch = {} THEN Idle
              ELSE [@ EXCEPT !.at = "walk", !.left = batch \ old,
                             !.marked = old, !.passed = old]]
    /\ UNCHANGED <<trips, tables, switches, bounds>>

\* The next event in order; the enabled workflows with its trigger are read.
Take(d) ==
    /\ relay[d].at = "walk" /\ relay[d].todo = {} /\ relay[d].left # {}
    /\ LET e == Min(relay[d].left)
       IN relay' = [relay EXCEPT ![d].cur = e, ![d].left = @ \ {e},
                        ![d].marked = @ \cup {e},
                        ![d].todo = {w \in events[e].to : enabled[w]} \ relay[d].off]
    /\ UNCHANGED <<trips, tables, switches, bounds>>

\* guard_decision, then cycle_detected.  The chain of an event holds, for each
\* run of its lineage, the workflow and the resources of the run's events.
Fires(w, e) ==
    /\ events[e].human \/ w \in OnSystem
    /\ events[e].depth < MaxDepth
    /\ events[e].res = NoRes \/ <<w, events[e].res>> \notin events[e].chain

\* try_create_run in the transaction of d.  A statement sees what committed
\* and its own writes.  `r' is the record of d so far.
Recent(r, w) == Cardinality({x \in runs \cup r.made : x.wf = w /\ x.fresh})
\* Mutant: the cap is off by one.
OverRateByOne(r, w) == Cap[w] > 0 /\ Recent(r, w) > Cap[w]
OverRate(r, w) == Cap[w] > 0 /\ Recent(r, w) >= Cap[w]

\* rate_limit_ok on the trips of the workflow.
TripsLeft(w) == trips[w] < Trips

NewRun(w, batch, depth) ==
    [wf |-> w, on |-> batch, depth |-> depth, fresh |-> TRUE, at |-> "queued"]

CreateRun(d, r, w, batch, depth) ==
    \/ /\ ~OverRate(r, w)
       /\ relay' = [relay EXCEPT ![d] =
              IF \E x \in runs \cup r.made : x.wf = w /\ x.on = batch THEN r
              ELSE [r EXCEPT !.made = @ \cup {NewRun(w, batch, depth)}]]
       /\ UNCHANGED trips
    \/ /\ OverRate(r, w)
       /\ IF TripsLeft(w)
          THEN /\ trips' = [trips EXCEPT ![w] = @ + 1]
               /\ relay' = [relay EXCEPT ![d] = r]
          ELSE /\ RowFree(d, w)
               /\ relay' = [relay EXCEPT ![d] = [r EXCEPT !.off = @ \cup {w}]]
               /\ UNCHANGED trips

\* buffer_coalesced: the row as d sees it once it has its lock.
Seen(r, w) == IF w \in DOMAIN r.held THEN r.held[w] ELSE buckets[w]
Put(r, w, b) == [r EXCEPT !.held = [x \in DOMAIN @ \cup {w} |-> IF x = w THEN b ELSE @[x]]]

\* Mutant: a later event replaces the batch in the bucket.
BufferedReplaces(b, e) == [on |-> {e}, depth |-> events[e].depth, due |-> FALSE]

Buffered(b, e) ==
    IF b = NoBucket
    THEN [on |-> {e}, depth |-> events[e].depth, due |-> FALSE]
    ELSE [b EXCEPT !.on = @ \cup {e},
                   !.depth = IF events[e].depth > @ THEN events[e].depth ELSE @]

\* One workflow of the current event.
Offer(d, w) ==
    /\ relay[d].at = "walk" /\ w \in relay[d].todo
    /\ LET e == relay[d].cur
           r == [relay[d] EXCEPT !.todo = @ \ {w}]
       IN \/ /\ ~Fires(w, e)
             /\ relay' = [relay EXCEPT ![d] = r]
             /\ UNCHANGED trips
          \/ /\ Fires(w, e) /\ w \in Coalesced
             /\ BucketFree(d, w)
             /\ relay' = [relay EXCEPT ![d] = Put(r, w, Buffered(Seen(r, w), e))]
             /\ UNCHANGED trips
          \/ /\ Fires(w, e) /\ w \notin Coalesced
             /\ CreateRun(d, r, w, {e}, events[e].depth)
    /\ UNCHANGED <<tables, switches, bounds>>

-----------------------------------------------------------------------------
(* scan_coalesced: windows that have closed become one run each. *)

WindowCloses(w) ==
    /\ buckets[w] # NoBucket /\ ~buckets[w].due
    /\ \A d \in Dispatchers : w \notin DOMAIN relay[d].held
    /\ buckets' = [buckets EXCEPT ![w].due = TRUE]
    /\ UNCHANGED <<events, enabled, runs, trips, relay, switches, bounds>>

ClaimDue(d) ==
    /\ relay[d].at = "read"
    /\ LET due == {w \in Workflows : buckets[w] # NoBucket /\ buckets[w].due
                                        /\ BucketFree(d, w)}
       IN /\ due # {}
          /\ relay' = [relay EXCEPT ![d] =
                 [Idle EXCEPT !.at = "fire", !.todo = due,
                              !.held = [w \in due |-> buckets[w]]]]
    /\ UNCHANGED <<trips, tables, switches, bounds>>

\* The bucket is deleted whatever the rate cap said of its batch.
Fire(d, w) ==
    /\ relay[d].at = "fire" /\ w \in relay[d].todo
    /\ LET b == relay[d].held[w]
           r == Put([relay[d] EXCEPT !.todo = @ \ {w}], w, NoBucket)
       IN \/ /\ enabled[w] /\ CreateRun(d, r, w, b.on, b.depth)
          \/ /\ ~enabled[w]
             /\ relay' = [relay EXCEPT ![d] = r]
             /\ UNCHANGED trips
    /\ UNCHANGED <<tables, switches, bounds>>

\* Both transactions end the same way: all they wrote becomes visible ...
Commit(d) ==
    /\ relay[d].at \in {"walk", "fire"} /\ relay[d].todo = {} /\ relay[d].left = {}
    /\ events' = [e \in DOMAIN events |->
                    IF e \notin relay[d].marked THEN events[e]
                    ELSE [events[e] EXCEPT !.at =
                            IF e \in relay[d].passed THEN "skipped" ELSE "sent"]]
    /\ runs' = runs \cup relay[d].made
    /\ buckets' = [w \in Workflows |-> Seen(relay[d], w)]
    /\ enabled' = [w \in Workflows |-> enabled[w] /\ w \notin relay[d].off]
    /\ relay' = [relay EXCEPT ![d] = Idle]
    /\ UNCHANGED <<trips, switches, bounds>>

\* ... or none of it: the process dies, the connection is lost, or Postgres
\* breaks a deadlock of two dispatchers.
Abort(d) ==
    /\ relay[d].at \notin {"idle", "down"}
    /\ crashes < MaxCrashes /\ crashes' = crashes + 1
    /\ relay' = [relay EXCEPT ![d] = Idle]
    /\ UNCHANGED <<trips, toggles, tables, switches>>

-----------------------------------------------------------------------------
(* Runs and the passing of time. *)

\* A run ends: it acted without a child event, failed, or was skipped.
EndRun(x) ==
    /\ x.at = "queued"
    /\ runs' = (runs \ {x}) \cup {[x EXCEPT !.at = "done"]}
    /\ UNCHANGED <<events, enabled, buckets, trips, relay, switches, bounds>>

\* It posts its message and emits a child of the oldest event of its batch.
Reply(x) ==
    /\ x.at = "queued" /\ Running
    /\ Len(events) < MaxEvents
    /\ LET p == events[Min(x.on)]
           lineage == p.chain \cup {<<x.wf, events[e].res>> : e \in x.on}
           gen == 1 + Max({events[e].gen : e \in x.on})
       IN \E to \in ChildTo :
             events' = Append(events,
                 NewEvent([human |-> FALSE, res |-> p.res, to |-> to],
                          "pending", p.depth + 1, lineage, gen))
    /\ runs' = (runs \ {x}) \cup {[x EXCEPT !.at = "done"]}
    /\ UNCHANGED <<enabled, buckets, trips, relay, switches, bounds>>

\* A run leaves the rolling window of the rate cap.
Age(x) ==
    /\ x.fresh
    /\ runs' = (runs \ {x}) \cup {[x EXCEPT !.fresh = FALSE]}
    /\ UNCHANGED <<events, enabled, buckets, trips, relay, switches, bounds>>

\* The window of the trip counter ends.
TripsExpire(w) ==
    /\ trips[w] > 0
    /\ trips' = [trips EXCEPT ![w] = 0]
    /\ UNCHANGED <<relay, tables, switches, bounds>>

-----------------------------------------------------------------------------
(* Switches. *)

Throw == toggles < MaxToggles /\ toggles' = toggles + 1

\* An admin writes features.workflows = false.
SwitchOff ==
    /\ on /\ Throw
    /\ on' = FALSE
    /\ events' = [e \in DOMAIN events |-> [events[e] EXCEPT !.sawOff = TRUE]]
    /\ UNCHANGED <<enabled, buckets, runs, trips, paused, watermark, admin,
                   relay, crashes>>

\* Mutant: the watermark is stamped whenever the flag is saved as true.
CheckFlagStamps(a) ==
    /\ admin[a] = "idle" /\ Throw
    /\ admin' = [admin EXCEPT ![a] = "stamp"]
    /\ UNCHANGED <<trips, relay, crashes, tables, on, paused, watermark>>

\* Or true: the flag is read; on the way from off to on the watermark is
\* stamped; then the flag is written.
CheckFlag(a) ==
    /\ admin[a] = "idle" /\ Throw
    /\ admin' = [admin EXCEPT ![a] = IF on THEN "set" ELSE "stamp"]
    /\ UNCHANGED <<trips, on, paused, watermark, relay, crashes, tables>>

Stamp(a) ==
    /\ admin[a] = "stamp"
    /\ watermark' = Len(events) + 1
    /\ admin' = [admin EXCEPT ![a] = "set"]
    /\ UNCHANGED <<trips, on, paused, relay, tables, bounds>>

SetFlag(a) ==
    /\ admin[a] = "set"
    /\ on' = TRUE
    /\ admin' = [admin EXCEPT ![a] = "idle"]
    /\ UNCHANGED <<trips, paused, watermark, relay, tables, bounds>>

SetPaused ==
    /\ Throw
    /\ paused' = ~paused
    /\ UNCHANGED <<trips, on, watermark, admin, relay, crashes, tables>>

\* update_workflow: the owner enables or disables a workflow.
SetEnabled(w) ==
    /\ Throw
    /\ \A d \in Dispatchers : w \notin relay[d].off
    /\ enabled' = [enabled EXCEPT ![w] = ~@]
    /\ UNCHANGED <<events, buckets, runs, trips, relay, crashes, switches>>

-----------------------------------------------------------------------------
RelayStep(d) ==
    \/ ReadSwitches(d) \/ Claim(d) \/ Take(d) \/ ClaimDue(d) \/ Commit(d)
    \/ \E w \in Workflows : Offer(d, w) \/ Fire(d, w)

OutboxNext ==
    \/ Emit
    \/ \E e \in DOMAIN events : EndMutation(e)
    \/ \E d \in Dispatchers : RelayStep(d) \/ Abort(d)
    \/ \E w \in Workflows : WindowCloses(w) \/ TripsExpire(w) \/ SetEnabled(w)
    \/ \E x \in runs : EndRun(x) \/ Reply(x) \/ Age(x)
    \/ SwitchOff \/ SetPaused
    \/ \E a \in Admins : CheckFlag(a) \/ Stamp(a) \/ SetFlag(a)

OutboxSpec == OutboxInit /\ [][OutboxNext]_outboxVars

\* Every tick of a scheduler relays what is there and fires what is due; an
\* open window closes and an open transaction ends.
OutboxFairness ==
    /\ \A d \in Dispatchers :
          WF_outboxVars(RelayStep(d)) /\ SF_outboxVars(ClaimDue(d))
    /\ WF_outboxVars(\E w \in Workflows : WindowCloses(w))
    /\ WF_outboxVars(\E e \in DOMAIN events : EndMutation(e))

OutboxFairSpec == OutboxSpec /\ OutboxFairness

-----------------------------------------------------------------------------
Run == [wf : Workflows, on : SUBSET EventIds, depth : 0 .. MaxDepth,
        fresh : BOOLEAN, at : {"queued", "done"}]

OutboxTypeOK ==
    /\ \A e \in DOMAIN events :
          /\ events[e].at \in {"open", "gone", "pending", "sent", "skipped"}
          /\ events[e].to \subseteq Workflows
          /\ events[e].depth \in 0 .. MaxDepth
    /\ Len(events) <= MaxEvents
    /\ enabled \in [Workflows -> BOOLEAN]
    /\ runs \subseteq Run
    /\ \A w \in Workflows : buckets[w] # NoBucket =>
          buckets[w].on \in (SUBSET EventIds) \ {{}} /\ buckets[w].depth < MaxDepth
    /\ trips \in [Workflows -> 0 .. Trips]
    /\ watermark \in 0 .. MaxEvents + 1
    /\ admin \in [Admins -> {"idle", "stamp", "set"}]
    /\ \A d \in Dispatchers : relay[d].at \in {"down", "idle", "read", "walk", "fire"}

Committed(e) == e \in DOMAIN events /\ events[e].at \notin {"open", "gone"}

\* No event is in two runs of one workflow, nor in a run and a bucket of it:
\* whichever dispatcher claims it, however often a transaction is lost, and
\* whether its batch closes meanwhile (the claim under SKIP LOCKED, the bucket
\* row's lock, the unique index).
OncePerWorkflow ==
    /\ \A x, y \in runs : x.wf = y.wf /\ x.on \cap y.on # {} => x = y
    /\ \A x \in runs : buckets[x.wf] # NoBucket => x.on \cap buckets[x.wf].on = {}

\* A run or a bucket only holds events that committed and are marked
\* dispatched: the mark and what it stands for are one transaction.
HandedMeansMarked ==
    /\ \A x \in runs : \A e \in x.on : events[e].at = "sent"
    /\ \A w \in Workflows : buckets[w] # NoBucket =>
          \A e \in buckets[w].on : events[e].at = "sent"

\* An event is fast-forwarded past the workflows only if the engine was off at some
\* point of its life, or if it was made between an administrator's look at the
\* switch, which was off, and the watermark that look led to (set_config reads, then
\* stamps, then saves).  To save "true" again with the engine on skips nothing.
OnlyUnsettledSkipped ==
    \A e \in DOMAIN events :
        events[e].at = "skipped" => events[e].sawOff \/ events[e].amid

\* What the comment of set_config says: the watermark moves on the transition only,
\* so that no legitimately queued event is skipped.
OnlyOldSkipped ==
    \A e \in DOMAIN events : events[e].at = "skipped" => events[e].sawOff

\* Dispatchers do not see each other's uncommitted runs, so the rate cap is
\* exceeded, but by no more than a cap for each of them.
CapOverrun ==
    \A w \in Workflows : Cap[w] > 0 =>
        Cardinality({x \in runs : x.wf = w /\ x.fresh})
            <= Cap[w] * Cardinality({d \in Dispatchers : relay[d].at # "down"})

\* The hops that led to an event, through every event of each batch on the way.
CascadeCapped == \A x \in runs : \A e \in x.on : events[e].gen < MaxDepth

-----------------------------------------------------------------------------
Fate(e, w) ==
    IF ~Committed(e) THEN "absent"
    ELSE IF \E x \in runs : x.wf = w /\ e \in x.on THEN "handed"
    ELSE IF events[e].at = "pending" THEN "waiting"
    ELSE IF buckets[w] # NoBucket /\ e \in buckets[w].on THEN "waiting"
    ELSE "passed"

Delivery == INSTANCE EventDelivery WITH
                Events <- EventIds,
                fate <- [p \in EventIds \X Workflows |-> Fate(p[1], p[2])]

\* Each event meets each workflow once: a pair that was passed over is never
\* handed, one that was handed stays handed, and none is forgotten.
DeliversOnce == Delivery!DeliverySpec

\* With the engine on and the workflow enabled and below its cap, an event the
\* guards let through reaches a run: none is marked and lost.
Reachable(e, w) == Committed(e) /\ w \in events[e].to /\ Fires(w, e)

EventsReachRuns ==
    \A e \in EventIds, w \in Workflows :
        Cap[w] = 0 /\ [](Running /\ enabled[w]) =>
            (Fate(e, w) = "waiting" /\ Reachable(e, w) ~> Fate(e, w) = "handed")
=============================================================================
