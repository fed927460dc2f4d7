------------------------- MODULE EventOutboxProofs -------------------------
(***************************************************************************)
(* For any workflows, dispatchers, kinds of events, caps and batches: each *)
(* event meets each workflow once, whichever dispatchers claim it and      *)
(* however often their transactions are lost.                              *)
(*                                                                         *)
(* The argument: what an open transaction holds is determined by what it   *)
(* locked.  A run it made is either the run of one event it locked and has *)
(* not fast-forwarded, or the run of the committed bucket whose row it     *)
(* holds and will delete; the bucket it would leave is the committed one   *)
(* and events it locked.  Locked events are pending, events of committed   *)
(* runs and buckets are sent, and two transactions lock different rows.    *)
(*                                                                         *)
(* Three smaller arguments follow.  What a dispatcher passes over is below *)
(* the watermark it read, and with one administrator whatever is below the *)
(* watermark was there while the engine was off (WatermarkInv, OffInv).    *)
(* The runs in the window are those each dispatcher made below its own     *)
(* count, so at most a cap for each (CapInv).  Nothing is fired at the     *)
(* limit of depth, so no event is recorded deeper (DepthInv).              *)
(***************************************************************************)
EXTENDS EventOutbox, FiniteSetTheorems, WellFoundedInduction, SequenceTheorems, TLAPS

-----------------------------------------------------------------------------
(* Least and greatest numbers. *)

LEMMA LeastExists ==
  ASSUME NEW T \in SUBSET Nat, T # {}
  PROVE  \E x \in T : \A y \in T : x <= y
<1>. DEFINE R == OpToRel(<, Nat)
<1>1. \A a, b \in Nat : a < b => <<a, b>> \in R
  BY DEF OpToRel
<1>2. IsWellFoundedOn(R, Nat)
  BY NatLessThanWellFounded
<1>. HIDE DEF R
<1>3. PICK x \in T : \A y \in T : ~ (<<y, x>> \in R)
  BY <1>2, WFMin
<1>4. ASSUME NEW y \in T PROVE x <= y
  <2>1. x \in Nat /\ y \in Nat /\ ~ (<<y, x>> \in R)
    BY <1>3
  <2>. QED
    BY <1>1, <2>1
<1>. QED
  BY <1>4

LEMMA Least ==
  ASSUME NEW T \in SUBSET Nat, T # {}
  PROVE  Min(T) \in T
<1>1. \E x \in T : \A y \in T : x <= y
  BY LeastExists
<1>. QED
  BY <1>1 DEF Min

LEMMA Greatest ==
  ASSUME NEW T \in SUBSET Nat, T # {}, NEW n \in Nat, \A x \in T : x <= n
  PROVE  Max(T) \in T
<1>. DEFINE Above == {m \in Nat : \A x \in T : x <= m}
<1>1. PICK m \in Above : \A k \in Above : m <= k
  BY LeastExists
<1>2. m \in T
  <2>1. SUFFICES ASSUME m \notin T PROVE FALSE
    OBVIOUS
  <2>2. PICK x \in T : TRUE
    OBVIOUS
  <2>3. x < m /\ m - 1 \in Nat
    BY <2>1
  <2>4. \A y \in T : y <= m - 1
    BY <2>1, <2>3
  <2>. QED
    BY <1>1, <2>3, <2>4
<1>3. \E x \in T : \A y \in T : x >= y
  BY <1>2
<1>. QED
  BY <1>3 DEF Max

-----------------------------------------------------------------------------
(* Types. *)

Statuses == {"open", "gone", "pending", "sent", "skipped"}
Res == {k.res : k \in Kinds}
Event == [at : Statuses, human : BOOLEAN, res : Res, to : SUBSET Workflows,
          depth : Nat, chain : SUBSET (Workflows \X Res), gen : Nat, sawOff : BOOLEAN,
          amid : BOOLEAN]
Batches == (SUBSET Nat) \ {{}}
SomeRun == [wf : Workflows, on : Batches, depth : Nat, fresh : BOOLEAN,
            at : {"queued", "done"}]
Bucket == [on : Batches, depth : Nat, due : BOOLEAN]
Rows == UNION {[S -> Bucket \cup {NoBucket}] : S \in SUBSET Workflows}
Transaction == [at : {"down", "idle", "read", "walk", "fire"}, watermark : Nat,
                left : SUBSET Nat, cur : Nat, todo : SUBSET Workflows,
                marked : SUBSET Nat, passed : SUBSET Nat, made : SUBSET SomeRun,
                held : Rows, off : SUBSET Workflows]

\* An event is later than every hop that led to it.
EventsOK ==
  /\ events \in Seq(Event) /\ Len(events) <= MaxEvents
  /\ \A e \in DOMAIN events : events[e].gen < e
RunsOK == runs \subseteq SomeRun
BucketsOK == buckets \in [Workflows -> Bucket \cup {NoBucket}]
RelayOK == relay \in [Dispatchers -> Transaction]
SwitchesOK == watermark \in Nat /\ on \in BOOLEAN

LEMMA BucketIsSome == NoBucket \notin Bucket
BY OutboxConstants DEF Bucket, Batches

-----------------------------------------------------------------------------
(* The invariant. *)

Pending(e) == e \in DOMAIN events /\ events[e].at = "pending"
Sent(e) == e \in DOMAIN events /\ events[e].at = "sent"

\* What a transaction holds, against what has committed.
Consistent(r) ==
  /\ r.at \notin {"walk", "fire"} =>
       /\ r.marked = {} /\ r.left = {} /\ r.passed = {} /\ r.made = {} /\ r.todo = {}
       /\ DOMAIN r.held = {}
  /\ \A e \in r.marked \cup r.left : Pending(e)
  /\ r.left \cap r.passed = {}
  /\ r.at = "walk" /\ r.todo # {} => r.cur \in r.marked \ r.passed
  /\ r.at = "walk" => \A w \in DOMAIN r.held : r.held[w] # NoBucket
  /\ r.at = "fire" => \A w \in r.todo :
       w \in DOMAIN r.held /\ buckets[w] # NoBucket /\ r.held[w] = buckets[w]
  /\ \A w \in DOMAIN r.held :
       /\ w \in Coalesced
       /\ r.held[w] # NoBucket => \A e \in r.held[w].on :
            e \in r.marked \ r.passed \/ (buckets[w] # NoBucket /\ e \in buckets[w].on)

\* A run that was made in it.
OfEvent(r, x) ==
  /\ x.wf \notin Coalesced
  /\ \E e \in r.marked \ r.passed : x = NewRun(x.wf, {e}, events[e].depth)
OfBucket(r, x) ==
  /\ x.wf \in DOMAIN r.held /\ r.held[x.wf] = NoBucket /\ buckets[x.wf] # NoBucket
  /\ x = NewRun(x.wf, buckets[x.wf].on, buckets[x.wf].depth)

Accounted(r) == \A x \in r.made : OfEvent(r, x) \/ OfBucket(r, x)

Apart(r, q) ==
  /\ (r.marked \cup r.left) \cap (q.marked \cup q.left) = {}
  /\ DOMAIN r.held \cap DOMAIN q.held = {}

Transactions == \A d \in Dispatchers : Consistent(relay[d]) /\ Accounted(relay[d])
Locks == \A d, o \in Dispatchers : d # o => Apart(relay[d], relay[o])

Handed ==
  /\ \A x \in runs : \A e \in x.on : Sent(e)
  /\ \A w \in Workflows : buckets[w] # NoBucket =>
       w \in Coalesced /\ \A e \in buckets[w].on : Sent(e)

OutboxInv ==
  /\ EventsOK /\ RunsOK /\ BucketsOK /\ RelayOK /\ SwitchesOK
  /\ Transactions /\ Locks /\ Handed /\ OncePerWorkflow

LEMMA InvInit ==
  ASSUME OutboxInit
  PROVE  OutboxInv
<1>. USE DEF OutboxInit
<1>1. \A w \in Workflows : buckets[w] = NoBucket
  OBVIOUS
<1>2. Idle \in Transaction /\ [Idle EXCEPT !.at = "down"] \in Transaction
  <2>1. [w \in {} |-> NoBucket] \in Rows
    BY DEF Rows
  <2>. QED
    BY <2>1 DEF Idle, Transaction
<1>3. \A d \in Dispatchers : relay[d] = Idle \/ relay[d] = [Idle EXCEPT !.at = "down"]
  OBVIOUS
<1>4. RelayOK
  BY <1>2, <1>3 DEF RelayOK
<1>5. EventsOK /\ RunsOK /\ BucketsOK /\ SwitchesOK
  BY OutboxConstants DEF EventsOK, RunsOK, BucketsOK, SwitchesOK
<1>6. \A d \in Dispatchers :
        /\ relay[d].at \in {"idle", "down"}
        /\ relay[d].marked = {} /\ relay[d].left = {} /\ relay[d].passed = {}
        /\ relay[d].made = {} /\ relay[d].todo = {} /\ DOMAIN relay[d].held = {}
  BY <1>3 DEF Idle
<1>7. Transactions
  BY <1>6 DEF Transactions, Consistent, Accounted
<1>8. Locks
  BY <1>6 DEF Locks, Apart
<1>9. Handed /\ OncePerWorkflow
  BY <1>1 DEF Handed, OncePerWorkflow
<1>. QED
  BY <1>4, <1>5, <1>7, <1>8, <1>9 DEF OutboxInv

-----------------------------------------------------------------------------
(* What mutations, runs, windows and switches do: no transaction changes. *)

\* The events there were keep their depth, and the mark they have if they
\* committed.
Keeps ==
  \A e \in DOMAIN events :
    /\ e \in DOMAIN events' /\ events'[e].depth = events[e].depth
    /\ events[e].at \in {"pending", "sent"} => events'[e].at = events[e].at

LEMMA OuterStep ==
  ASSUME OutboxInv, UNCHANGED relay, EventsOK', RunsOK', BucketsOK', SwitchesOK', Keeps,
         \A w \in Workflows :
           /\ buckets[w] = NoBucket <=> buckets'[w] = NoBucket
           /\ buckets'[w].on = buckets[w].on
           /\ (\E d \in Dispatchers : w \in DOMAIN relay[d].held) => buckets'[w] = buckets[w],
         \A y \in runs' : \E x \in runs : x.wf = y.wf /\ x.on = y.on,
         \A x, y \in runs' : x.wf = y.wf /\ x.on \cap y.on # {} => x = y
  PROVE  OutboxInv'
<1>. USE DEF OutboxInv
<1>1. \A e : (Pending(e) => Pending(e)') /\ (Sent(e) => Sent(e)')
  BY DEF Keeps, Pending, Sent
<1>2. Handed'
  <2>1. \A y \in runs' : \A e \in y.on : Sent(e)'
    BY <1>1 DEF Handed
  <2>2. \A w \in Workflows : buckets'[w] # NoBucket =>
          w \in Coalesced /\ \A e \in buckets'[w].on : Sent(e)'
    BY <1>1 DEF Handed
  <2>. QED
    BY <2>1, <2>2 DEF Handed
<1>3. OncePerWorkflow'
  <2>1. \A y \in runs' : buckets'[y.wf] # NoBucket => y.on \cap buckets'[y.wf].on = {}
    <3>1. SUFFICES ASSUME NEW y \in runs', buckets'[y.wf] # NoBucket
                   PROVE  y.on \cap buckets'[y.wf].on = {}
      OBVIOUS
    <3>2. PICK x \in runs : x.wf = y.wf /\ x.on = y.on
      OBVIOUS
    <3>3. x.wf \in Workflows
      BY DEF RunsOK, SomeRun
    <3>. QED
      BY <3>1, <3>2, <3>3 DEF OncePerWorkflow
  <2>. QED
    BY <2>1 DEF OncePerWorkflow
<1>4. Transactions'
  <2>1. SUFFICES ASSUME NEW d \in Dispatchers
                 PROVE  Consistent(relay[d])' /\ Accounted(relay[d])'
    BY DEF Transactions
  <2>. DEFINE r == relay[d]
  <2>2. r' = r /\ Consistent(r) /\ Accounted(r) /\ r \in Transaction
    BY DEF Transactions, RelayOK
  <2>3. \A w \in DOMAIN r.held : w \in Workflows /\ buckets'[w] = buckets[w]
    BY <2>2 DEF Transaction, Rows
  <2>. HIDE DEF r
  <2>4. Consistent(r)'
    BY <1>1, <2>2, <2>3 DEF Consistent
  <2>5. Accounted(r)'
    <3>1. SUFFICES ASSUME NEW x \in r.made PROVE OfEvent(r, x)' \/ OfBucket(r, x)'
      BY <2>2 DEF Accounted
    <3>2. CASE OfEvent(r, x)
      <4>1. PICK e \in r.marked \ r.passed : x = NewRun(x.wf, {e}, events[e].depth)
        BY <3>2 DEF OfEvent
      <4>2. events'[e].depth = events[e].depth
        BY <2>2 DEF Consistent, Pending, Keeps
      <4>3. x.wf \notin Coalesced
        BY <3>2 DEF OfEvent
      <4>. QED
        BY <2>2, <4>1, <4>2, <4>3 DEF OfEvent, NewRun
    <3>3. CASE OfBucket(r, x)
      BY <2>2, <2>3, <3>3 DEF OfBucket, NewRun
    <3>. QED
      BY <2>2, <3>2, <3>3 DEF Accounted
  <2>. QED
    BY <2>4, <2>5 DEF r
<1>5. Locks' /\ RelayOK'
  BY DEF Locks, Apart, RelayOK
<1>. QED
  BY <1>2, <1>3, <1>4, <1>5

\* A run of the table is replaced by the same run in another state.
LEMMA RunMoves ==
  ASSUME OutboxInv, NEW x \in runs, NEW z \in SomeRun, z.wf = x.wf, z.on = x.on,
         runs' = (runs \ {x}) \cup {z}
  PROVE  /\ RunsOK'
         /\ \A y \in runs' : \E v \in runs : v.wf = y.wf /\ v.on = y.on
         /\ \A v, y \in runs' : v.wf = y.wf /\ v.on \cap y.on # {} => v = y
<1>1. runs \subseteq SomeRun
  BY DEF OutboxInv, RunsOK
<1>2. \A v, y \in runs : v.wf = y.wf /\ v.on \cap y.on # {} => v = y
  BY DEF OutboxInv, OncePerWorkflow
<1>3. \A v \in runs : v # x => ~(v.wf = x.wf /\ v.on \cap x.on # {})
  BY <1>2
<1>4. RunsOK'
  BY <1>1 DEF RunsOK
<1>5. \A y \in runs' : \E v \in runs : v.wf = y.wf /\ v.on = y.on
  OBVIOUS
<1>6. \A v, y \in runs' : v.wf = y.wf /\ v.on \cap y.on # {} => v = y
  BY <1>2, <1>3
<1>. QED
  BY <1>4, <1>5, <1>6

LEMMA RunIsRecord ==
  ASSUME NEW x \in SomeRun
  PROVE  /\ [x EXCEPT !.at = "done"] \in SomeRun
         /\ [x EXCEPT !.at = "done"].wf = x.wf /\ [x EXCEPT !.at = "done"].on = x.on
         /\ [x EXCEPT !.fresh = FALSE] \in SomeRun
         /\ [x EXCEPT !.fresh = FALSE].wf = x.wf /\ [x EXCEPT !.fresh = FALSE].on = x.on
BY DEF SomeRun

\* A new event is appended.
LEMMA Appended ==
  ASSUME OutboxInv, NEW z \in Event, Len(events) < MaxEvents, z.gen <= Len(events),
         events' = Append(events, z)
  PROVE  /\ EventsOK' /\ Keeps
         /\ DOMAIN events' = DOMAIN events \cup {Len(events) + 1}
         /\ Len(events) + 1 \notin DOMAIN events
         /\ \A e \in DOMAIN events : events'[e] = events[e]
         /\ events'[Len(events) + 1] = z
<1>1. events \in Seq(Event) /\ Len(events) \in Nat /\ \A e \in DOMAIN events : events[e].gen < e
  BY DEF OutboxInv, EventsOK
<1>2. /\ events' \in Seq(Event) /\ Len(events') = Len(events) + 1
      /\ \A e \in 1 .. Len(events) : events'[e] = events[e]
      /\ events'[Len(events) + 1] = z
  BY <1>1, AppendProperties
<1>3. DOMAIN events = 1 .. Len(events) /\ DOMAIN events' = 1 .. Len(events) + 1
  BY <1>1, <1>2
<1>4. EventsOK'
  <2>1. SUFFICES ASSUME NEW e \in DOMAIN events' PROVE events'[e].gen < e
    BY <1>2, OutboxConstants DEF EventsOK
  <2>2. CASE e = Len(events) + 1
    BY <1>1, <1>2, <2>2 DEF Event
  <2>3. CASE e \in DOMAIN events
    BY <1>1, <1>2, <1>3, <2>3
  <2>. QED
    BY <1>3, <1>1, <2>2, <2>3
<1>5. Keeps
  BY <1>2, <1>3, <1>1 DEF Keeps
<1>. QED
  BY <1>1, <1>2, <1>3, <1>4, <1>5

LEMMA RunsStay ==
  ASSUME OutboxInv, UNCHANGED runs
  PROVE  /\ RunsOK'
         /\ \A y \in runs' : \E x \in runs : x.wf = y.wf /\ x.on = y.on
         /\ \A x, y \in runs' : x.wf = y.wf /\ x.on \cap y.on # {} => x = y
BY DEF OutboxInv, RunsOK, OncePerWorkflow

LEMMA BucketsStay ==
  ASSUME OutboxInv, UNCHANGED buckets
  PROVE  BucketsOK' /\ \A w \in Workflows :
           /\ buckets[w] = NoBucket <=> buckets'[w] = NoBucket
           /\ buckets'[w].on = buckets[w].on
           /\ buckets'[w] = buckets[w]
BY DEF OutboxInv, BucketsOK

\* Rows of the table are rewritten in place.
LEMMA Rewritten ==
  ASSUME OutboxInv,
         DOMAIN events' = DOMAIN events, events' = [e \in DOMAIN events |-> events'[e]],
         \A e \in DOMAIN events : events'[e] \in Event /\ events'[e].gen = events[e].gen
  PROVE  EventsOK'
<1>1. events \in Seq(Event) /\ Len(events) \in Nat
  BY DEF OutboxInv, EventsOK
<1>2. DOMAIN events = 1 .. Len(events)
  BY <1>1
<1>3. events' \in [1 .. Len(events) -> Event]
  BY <1>2
<1>4. events' \in Seq(Event) /\ Len(events') = Len(events)
  BY <1>1, <1>3, IsASeq, LenProperties
<1>. QED
  BY <1>4 DEF OutboxInv, EventsOK

LEMMA EmitStep ==
  ASSUME OutboxInv, Emit
  PROVE  OutboxInv'
<1>1. PICK k \in Kinds : events' = Append(events, NewEvent(k, "open", 0, {}, 0))
  BY DEF Emit
<1>2. NewEvent(k, "open", 0, {}, 0) \in Event /\ NewEvent(k, "open", 0, {}, 0).gen = 0
  BY OutboxConstants DEF NewEvent, Event, Statuses, Res, OutboxInv, SwitchesOK
<1>3. Len(events) \in Nat
  BY DEF OutboxInv, EventsOK
<1>4. EventsOK' /\ Keeps
  BY <1>1, <1>2, <1>3, Appended DEF Emit
<1>5. UNCHANGED <<runs, buckets, relay>> /\ SwitchesOK'
  BY DEF Emit, switches, OutboxInv, SwitchesOK
<1>. QED
  BY <1>4, <1>5, RunsStay, BucketsStay, OuterStep

LEMMA EndMutationStep ==
  ASSUME OutboxInv, NEW e \in DOMAIN events, EndMutation(e)
  PROVE  OutboxInv'
<1>1. PICK st \in {"pending", "gone"} : events' = [events EXCEPT ![e].at = st]
  BY DEF EndMutation
<1>2. \A i \in DOMAIN events : events[i] \in Event
  BY DEF OutboxInv, EventsOK
<1>3. /\ DOMAIN events' = DOMAIN events
      /\ \A i \in DOMAIN events : events'[i] =
            IF i = e THEN [events[i] EXCEPT !.at = st] ELSE events[i]
      /\ events' = [i \in DOMAIN events |-> events'[i]]
  BY <1>1
<1>4. \A i \in DOMAIN events :
        /\ events'[i] \in Event /\ events'[i].gen = events[i].gen
        /\ events'[i].depth = events[i].depth
  BY <1>2, <1>3 DEF Event, Statuses
<1>5. EventsOK'
  BY <1>3, <1>4, Rewritten
<1>6. Keeps
  BY <1>3, <1>4 DEF Keeps, EndMutation
<1>7. UNCHANGED <<runs, buckets, relay>> /\ SwitchesOK'
  BY DEF EndMutation, switches, OutboxInv, SwitchesOK
<1>. QED
  BY <1>5, <1>6, <1>7, RunsStay, BucketsStay, OuterStep

LEMMA SwitchOffStep ==
  ASSUME OutboxInv, SwitchOff
  PROVE  OutboxInv'
<1>2. \A i \in DOMAIN events : events[i] \in Event
  BY DEF OutboxInv, EventsOK
<1>3. /\ DOMAIN events' = DOMAIN events
      /\ \A i \in DOMAIN events : events'[i] = [events[i] EXCEPT !.sawOff = TRUE]
      /\ events' = [i \in DOMAIN events |-> events'[i]]
  BY DEF SwitchOff
<1>4. \A i \in DOMAIN events :
        /\ events'[i] \in Event /\ events'[i].gen = events[i].gen
        /\ events'[i].depth = events[i].depth /\ events'[i].at = events[i].at
  <2>1. \A z \in Event : LET y == [z EXCEPT !.sawOff = TRUE]
                         IN y \in Event /\ y.gen = z.gen /\ y.depth = z.depth /\ y.at = z.at
    BY ONLY DEF Event
  <2>. QED
    BY <2>1, <1>2, <1>3
<1>5. EventsOK'
  BY <1>3, <1>4, Rewritten
<1>6. Keeps
  BY <1>3, <1>4 DEF Keeps
<1>7. UNCHANGED <<runs, buckets, relay>> /\ SwitchesOK'
  BY DEF SwitchOff, OutboxInv, SwitchesOK
<1>. QED
  BY <1>5, <1>6, <1>7, RunsStay, BucketsStay, OuterStep

LEMMA WindowClosesStep ==
  ASSUME OutboxInv, NEW w \in Workflows, WindowCloses(w)
  PROVE  OutboxInv'
<1>1. buckets[w] \in Bucket /\ buckets' = [buckets EXCEPT ![w].due = TRUE]
  BY DEF WindowCloses, OutboxInv, BucketsOK
<1>2. [buckets[w] EXCEPT !.due = TRUE] \in Bucket
      /\ [buckets[w] EXCEPT !.due = TRUE].on = buckets[w].on
  BY <1>1 DEF Bucket
<1>3. buckets' = [v \in Workflows |-> IF v = w THEN [buckets[w] EXCEPT !.due = TRUE]
                                                ELSE buckets[v]]
  BY <1>1 DEF OutboxInv, BucketsOK
<1>4. BucketsOK' /\ \A v \in Workflows :
           /\ buckets[v] = NoBucket <=> buckets'[v] = NoBucket
           /\ buckets'[v].on = buckets[v].on
           /\ v # w => buckets'[v] = buckets[v]
  BY <1>1, <1>2, <1>3, BucketIsSome DEF OutboxInv, BucketsOK
<1>5. \A d \in Dispatchers : w \notin DOMAIN relay[d].held
  BY DEF WindowCloses
<1>6. UNCHANGED <<runs, events, relay>> /\ SwitchesOK' /\ EventsOK' /\ Keeps
  BY DEF WindowCloses, switches, OutboxInv, SwitchesOK, EventsOK, Keeps
<1>. QED
  BY <1>4, <1>5, <1>6, RunsStay, OuterStep

LEMMA RunStep ==
  ASSUME OutboxInv, NEW x \in runs, EndRun(x) \/ Age(x)
  PROVE  OutboxInv'
<1>1. x \in SomeRun
  BY DEF OutboxInv, RunsOK
<1>2. PICK z \in SomeRun : z.wf = x.wf /\ z.on = x.on /\ runs' = (runs \ {x}) \cup {z}
  BY <1>1, RunIsRecord DEF EndRun, Age
<1>3. UNCHANGED <<buckets, events, relay>> /\ SwitchesOK' /\ EventsOK' /\ Keeps
  BY DEF EndRun, Age, switches, OutboxInv, SwitchesOK, EventsOK, Keeps
<1>. QED
  BY <1>2, <1>3, RunMoves, BucketsStay, OuterStep

LEMMA ReplyStep ==
  ASSUME OutboxInv, NEW x \in runs, Reply(x)
  PROVE  OutboxInv' /\ \E z \in Event :
           z.at = "pending" /\ z.gen <= Len(events) /\ events' = Append(events, z)
<1>1. x \in SomeRun /\ x.on \in SUBSET Nat /\ x.on # {} /\ \A e \in x.on : e \in DOMAIN events
  BY DEF OutboxInv, RunsOK, SomeRun, Batches, Handed, Sent
<1>2. events \in Seq(Event) /\ Len(events) \in Nat
      /\ \A e \in DOMAIN events : events[e] \in Event /\ events[e].gen < e
  BY DEF OutboxInv, EventsOK
<1>. DEFINE p == events[Min(x.on)]
            gens == {events[e].gen : e \in x.on}
            lineage == p.chain \cup {<<x.wf, events[e].res>> : e \in x.on}
<1>3. p \in Event
  BY <1>1, <1>2, Least
<1>4. Max(gens) \in Nat /\ Max(gens) < Len(events)
  <2>1. gens \in SUBSET Nat /\ gens # {}
    BY <1>1, <1>2 DEF Event
  <2>2. \A g \in gens : g < Len(events)
    <3>1. SUFFICES ASSUME NEW e \in x.on PROVE events[e].gen < Len(events)
      OBVIOUS
    <3>2. e \in 1 .. Len(events) /\ events[e].gen < e /\ events[e].gen \in Nat
      BY <1>1, <1>2 DEF Event
    <3>. QED
      BY <3>2, <1>2
  <2>. HIDE DEF gens
  <2>3. \A g \in gens : g <= Len(events)
    BY <2>1, <2>2, <1>2
  <2>4. Max(gens) \in gens
    BY <2>1, <2>3, <1>2, Greatest
  <2>. QED
    BY <2>1, <2>2, <2>4
<1>5. lineage \in SUBSET (Workflows \X Res)
  BY <1>1, <1>2, <1>3 DEF Event, SomeRun
<1>6. PICK to \in ChildTo : events' =
        Append(events, NewEvent([human |-> FALSE, res |-> p.res, to |-> to],
                                "pending", p.depth + 1, lineage, 1 + Max(gens)))
  BY DEF Reply
<1>. DEFINE z == NewEvent([human |-> FALSE, res |-> p.res, to |-> to],
                          "pending", p.depth + 1, lineage, 1 + Max(gens))
<1>. HIDE DEF gens, lineage
<1>7. z \in Event /\ z.gen = 1 + Max(gens) /\ z.at = "pending"
  <2>1. p.res \in Res /\ p.depth + 1 \in Nat /\ to \in SUBSET Workflows /\ on \in BOOLEAN
    BY <1>3, OutboxConstants DEF Event, OutboxInv, SwitchesOK
  <2>. HIDE DEF p
  <2>. QED
    BY <2>1, <1>4, <1>5 DEF NewEvent, Event, Statuses
<1>8. Len(events) < MaxEvents
  BY DEF Reply
<1>9. events' = Append(events, z) /\ z.gen <= Len(events)
  BY <1>2, <1>4, <1>6, <1>7
<1>. HIDE DEF z
<1>10. EventsOK' /\ Keeps
  BY <1>7, <1>8, <1>9, Appended
<1>11. PICK y \in SomeRun : y.wf = x.wf /\ y.on = x.on /\ runs' = (runs \ {x}) \cup {y}
  BY <1>1, RunIsRecord DEF Reply
<1>12. UNCHANGED <<buckets, relay>> /\ SwitchesOK'
  BY DEF Reply, switches, OutboxInv, SwitchesOK
<1>. QED
  BY <1>7, <1>9, <1>10, <1>11, <1>12, RunMoves, BucketsStay, OuterStep

\* Switches and timers touch no table.
Aside ==
  \/ \E w \in Workflows : TripsExpire(w) \/ SetEnabled(w)
  \/ SetPaused
  \/ \E a \in Admins : CheckFlag(a) \/ Stamp(a) \/ SetFlag(a)

LEMMA AsideStep ==
  ASSUME OutboxInv, Aside
  PROVE  OutboxInv' /\ UNCHANGED <<events, runs, buckets>>
<1>1. UNCHANGED <<events, runs, buckets, relay>> /\ SwitchesOK'
  <2>1. Len(events) \in Nat /\ SwitchesOK
    BY DEF OutboxInv, EventsOK
  <2>2. CASE \E w \in Workflows : TripsExpire(w) \/ SetEnabled(w)
    <3>1. PICK w \in Workflows : TripsExpire(w) \/ SetEnabled(w)
      BY <2>2
    <3>2. UNCHANGED <<events, runs, buckets, relay, watermark, on>>
      <4>1. CASE TripsExpire(w)
        BY <4>1 DEF TripsExpire, tables, switches
      <4>2. CASE SetEnabled(w)
        BY <4>2 DEF SetEnabled, switches
      <4>. QED
        BY <3>1, <4>1, <4>2
    <3>. QED
      BY <2>1, <3>2 DEF SwitchesOK
  <2>3. CASE SetPaused
    BY <2>1, <2>3 DEF SetPaused, tables, SwitchesOK
  <2>4. CASE \E a \in Admins : CheckFlag(a) \/ Stamp(a) \/ SetFlag(a)
    <3>1. PICK a \in Admins : CheckFlag(a) \/ Stamp(a) \/ SetFlag(a)
      BY <2>4
    <3>2. CASE CheckFlag(a)
      BY <2>1, <3>2 DEF CheckFlag, tables, SwitchesOK
    <3>3. CASE Stamp(a)
      BY <2>1, <3>3 DEF Stamp, tables, SwitchesOK
    <3>4. CASE SetFlag(a)
      BY <2>1, <3>4 DEF SetFlag, tables, SwitchesOK
    <3>. QED
      BY <3>1, <3>2, <3>3, <3>4
  <2>. QED
    BY <2>2, <2>3, <2>4 DEF Aside
<1>2. EventsOK' /\ Keeps
  BY <1>1 DEF OutboxInv, EventsOK, Keeps
<1>. QED
  BY <1>1, <1>2, RunsStay, BucketsStay, OuterStep

-----------------------------------------------------------------------------
(* What a transaction does before it ends: no table changes. *)

LEMMA RelayMoves ==
  ASSUME OutboxInv, NEW d \in Dispatchers, NEW r \in Transaction,
         relay' = [relay EXCEPT ![d] = r],
         UNCHANGED <<events, runs, buckets, watermark, on>>,
         Consistent(r), Accounted(r),
         \A o \in Dispatchers : o # d => Apart(r, relay[o])
  PROVE  OutboxInv'
<1>. USE DEF OutboxInv
<1>1. \A o \in Dispatchers : relay'[o] = IF o = d THEN r ELSE relay[o]
  BY DEF RelayOK
<1>2. EventsOK' /\ RunsOK' /\ BucketsOK' /\ SwitchesOK' /\ Handed' /\ OncePerWorkflow'
  BY DEF EventsOK, RunsOK, BucketsOK, SwitchesOK, Handed, OncePerWorkflow, Sent
<1>3. RelayOK'
  BY DEF RelayOK
<1>4. \A o \in Dispatchers : Consistent(relay'[o]) /\ Accounted(relay'[o])
  BY <1>1 DEF Transactions
<1>6. Transactions'
  BY <1>4 DEF Transactions, Consistent, Accounted, OfEvent, OfBucket, NewRun, Pending
<1>7. Locks'
  <2>1. \A o, p \in Dispatchers : o # p => Apart(relay'[o], relay'[p])
    BY <1>1 DEF Locks, Apart
  <2>. QED
    BY <2>1 DEF Locks, Apart
<1>. QED
  BY <1>2, <1>3, <1>6, <1>7

\* The rows it has locked and the workflows it holds.
Alike(q, r) ==
  /\ q.at = r.at /\ q.marked = r.marked /\ q.left = r.left /\ q.passed = r.passed
  /\ q.cur = r.cur /\ q.watermark = r.watermark

LEMMA TodoSet ==
  ASSUME NEW r \in Transaction, NEW S \in SUBSET Workflows
  PROVE  LET q == [r EXCEPT !.todo = S]
         IN q \in Transaction /\ Alike(q, r) /\ q.todo = S /\ q.made = r.made /\ q.held = r.held
BY DEF Transaction, Alike

LEMMA MadeSet ==
  ASSUME NEW r \in Transaction, NEW S \in SUBSET SomeRun
  PROVE  LET q == [r EXCEPT !.made = S]
         IN q \in Transaction /\ Alike(q, r) /\ q.todo = r.todo /\ q.made = S /\ q.held = r.held
BY DEF Transaction, Alike

LEMMA OffSet ==
  ASSUME NEW r \in Transaction, NEW S \in SUBSET Workflows
  PROVE  LET q == [r EXCEPT !.off = S]
         IN q \in Transaction /\ Alike(q, r) /\ q.todo = r.todo /\ q.made = r.made
            /\ q.held = r.held
BY DEF Transaction, Alike

LEMMA HeldSet ==
  ASSUME NEW r \in Transaction, NEW w \in Workflows, NEW b \in Bucket \cup {NoBucket}
  PROVE  LET q == Put(r, w, b)
         IN /\ q \in Transaction /\ Alike(q, r) /\ q.todo = r.todo /\ q.made = r.made
            /\ DOMAIN q.held = DOMAIN r.held \cup {w}
            /\ \A v \in DOMAIN q.held : q.held[v] = IF v = w THEN b ELSE r.held[v]
<1>. DEFINE H == [x \in DOMAIN r.held \cup {w} |-> IF x = w THEN b ELSE r.held[x]]
<1>1. PICK S \in SUBSET Workflows : r.held \in [S -> Bucket \cup {NoBucket}]
  BY DEF Transaction, Rows
<1>2. H \in [S \cup {w} -> Bucket \cup {NoBucket}]
  BY <1>1
<1>3. H \in Rows
  BY <1>2 DEF Rows
<1>4. Put(r, w, b) = [r EXCEPT !.held = H]
  BY DEF Put, Transaction
<1>. HIDE DEF H
<1>5. LET q == [r EXCEPT !.held = H]
      IN q \in Transaction /\ Alike(q, r) /\ q.todo = r.todo /\ q.made = r.made /\ q.held = H
  BY <1>3 DEF Transaction, Alike
<1>. QED
  BY <1>4, <1>5 DEF H

\* A run of a transaction, or none: the rate cap, or the unique index.
LEMMA CreateRunGives ==
  ASSUME NEW d \in Dispatchers, NEW r \in Transaction, NEW w \in Workflows,
         NEW batch \in Batches, NEW depth \in Nat, CreateRun(d, r, w, batch, depth)
  PROVE  \E q \in Transaction :
           /\ relay' = [relay EXCEPT ![d] = q]
           /\ Alike(q, r) /\ q.todo = r.todo /\ q.held = r.held
           /\ \/ q.made = r.made
              \/ ~OverRate(r, w) /\ q.made = r.made \cup {NewRun(w, batch, depth)}
<1>1. NewRun(w, batch, depth) \in SomeRun
  BY DEF NewRun, SomeRun
<1>2. r.made \in SUBSET SomeRun /\ r.off \in SUBSET Workflows /\ Alike(r, r)
  BY DEF Transaction, Alike
<1>. DEFINE q1 == [r EXCEPT !.made = @ \cup {NewRun(w, batch, depth)}]
            q2 == [r EXCEPT !.off = @ \cup {w}]
<1>3. /\ q1 \in Transaction /\ Alike(q1, r) /\ q1.todo = r.todo /\ q1.held = r.held
      /\ q1.made = r.made \cup {NewRun(w, batch, depth)}
  <2>1. r.made \cup {NewRun(w, batch, depth)} \in SUBSET SomeRun
    BY <1>1, <1>2
  <2>. QED
    BY <2>1, MadeSet DEF Transaction
<1>4. /\ q2 \in Transaction /\ Alike(q2, r) /\ q2.todo = r.todo /\ q2.held = r.held
      /\ q2.made = r.made
  <2>1. r.off \cup {w} \in SUBSET Workflows
    BY <1>2
  <2>. QED
    BY <2>1, OffSet DEF Transaction
<1>. HIDE DEF q1, q2
<1>5. \/ relay' = [relay EXCEPT ![d] = r]
      \/ ~OverRate(r, w) /\ relay' = [relay EXCEPT ![d] = q1]
      \/ relay' = [relay EXCEPT ![d] = q2]
  BY DEF CreateRun, q1, q2
<1>. QED
  BY <1>2, <1>3, <1>4, <1>5

LEMMA Unit ==
  ASSUME OutboxInv, NEW d \in Dispatchers
  PROVE  /\ relay[d] \in Transaction /\ Consistent(relay[d]) /\ Accounted(relay[d])
         /\ \A o \in Dispatchers : o # d => Apart(relay[d], relay[o])
         /\ \A o \in Dispatchers : relay[o] \in Transaction
BY DEF OutboxInv, RelayOK, Transactions, Locks

\* A transaction that is rolled back, or has not begun, holds nothing.
LEMMA EmptyStep ==
  ASSUME OutboxInv, NEW d \in Dispatchers, NEW r \in Transaction,
         r.at \in {"idle", "read"}, r.marked = {}, r.left = {}, r.passed = {}, r.made = {},
         r.todo = {}, DOMAIN r.held = {}, relay' = [relay EXCEPT ![d] = r],
         UNCHANGED <<events, runs, buckets, watermark, on>>
  PROVE  OutboxInv'
<1>1. Consistent(r) /\ Accounted(r)
  BY DEF Consistent, Accounted
<1>2. \A o \in Dispatchers : o # d => Apart(r, relay[o])
  BY DEF Apart
<1>. QED
  BY <1>1, <1>2, RelayMoves

LEMMA IdleRecord ==
  ASSUME NEW n \in Nat
  PROVE  /\ Idle \in Transaction /\ [Idle EXCEPT !.at = "read", !.watermark = n] \in Transaction
         /\ \A r \in {Idle, [Idle EXCEPT !.at = "read", !.watermark = n]} :
              /\ r.at \in {"idle", "read"}
              /\ r.marked = {} /\ r.left = {} /\ r.passed = {} /\ r.made = {} /\ r.todo = {}
              /\ DOMAIN r.held = {}
<1>1. [w \in {} |-> NoBucket] \in Rows
  BY DEF Rows
<1>2. /\ Idle \in Transaction /\ Idle.at = "idle" /\ DOMAIN Idle.held = {}
      /\ Idle.marked = {} /\ Idle.left = {} /\ Idle.passed = {}
      /\ Idle.made = {} /\ Idle.todo = {}
  BY <1>1 DEF Idle, Transaction
<1>. DEFINE r == [Idle EXCEPT !.at = "read", !.watermark = n]
<1>. HIDE DEF Idle
<1>3. /\ r \in Transaction /\ r.at = "read" /\ r.held = Idle.held
      /\ r.marked = Idle.marked /\ r.left = Idle.left /\ r.passed = Idle.passed
      /\ r.made = Idle.made /\ r.todo = Idle.todo
  BY <1>2 DEF Transaction
<1>. QED
  BY <1>2, <1>3

LEMMA ReadSwitchesStep ==
  ASSUME OutboxInv, NEW d \in Dispatchers, ReadSwitches(d)
  PROVE  OutboxInv' /\ UNCHANGED <<events, runs, buckets>>
<1>1. UNCHANGED <<events, runs, buckets, watermark, on>>
  BY DEF ReadSwitches, tables, switches
<1>2. relay' = [relay EXCEPT ![d] = [Idle EXCEPT !.at = "read", !.watermark = watermark]]
  BY DEF ReadSwitches
<1>3. watermark \in Nat
  BY DEF OutboxInv, SwitchesOK
<1>. QED
  BY <1>1, <1>2, <1>3, IdleRecord, EmptyStep

LEMMA AbortStep ==
  ASSUME OutboxInv, NEW d \in Dispatchers, Abort(d)
  PROVE  OutboxInv' /\ UNCHANGED <<events, runs, buckets>>
<1>1. UNCHANGED <<events, runs, buckets, watermark, on>> /\ relay' = [relay EXCEPT ![d] = Idle]
  BY DEF Abort, tables, switches
<1>2. watermark \in Nat
  BY DEF OutboxInv, SwitchesOK
<1>. QED
  BY <1>1, <1>2, IdleRecord, EmptyStep

LEMMA ClaimStep ==
  ASSUME OutboxInv, NEW d \in Dispatchers, Claim(d)
  PROVE  OutboxInv' /\ UNCHANGED <<events, runs, buckets>>
<1>1. UNCHANGED <<events, runs, buckets, watermark, on>>
  BY DEF Claim, tables, switches
<1>. DEFINE batch == Oldest(Undispatched)
            old == {e \in batch : e < relay[d].watermark}
            r == [relay[d] EXCEPT !.at = "walk", !.left = batch \ old,
                                  !.marked = old, !.passed = old]
<1>2. watermark \in Nat
  BY DEF OutboxInv, SwitchesOK
<1>3. CASE batch = {}
  <2>1. relay' = [relay EXCEPT ![d] = Idle]
    BY <1>3 DEF Claim
  <2>. QED
    BY <1>1, <1>2, <2>1, IdleRecord, EmptyStep
<1>4. CASE batch # {}
  <2>1. relay' = [relay EXCEPT ![d] = r]
    BY <1>4 DEF Claim
  <2>2. \A e \in batch : Pending(e) /\ ~Locked(e)
    BY DEF Oldest, Undispatched, Pending
  <2>3. batch \subseteq Nat
    <3>1. DOMAIN events = 1 .. Len(events) /\ Len(events) \in Nat
      BY DEF OutboxInv, EventsOK
    <3>. QED
      BY <2>2, <3>1 DEF Pending
  <2>4. relay[d] \in Transaction /\ Consistent(relay[d]) /\ relay[d].at = "read"
    BY Unit DEF Claim
  <2>5. old \in SUBSET Nat /\ batch \ old \in SUBSET Nat /\ old \subseteq batch
    BY <2>3
  <2>. HIDE DEF batch, old
  <2>6. /\ r \in Transaction
        /\ r.at = "walk" /\ r.left = batch \ old /\ r.marked = old /\ r.passed = old
        /\ r.made = relay[d].made /\ r.todo = relay[d].todo /\ r.held = relay[d].held
    BY <2>4, <2>5 DEF Transaction
  <2>7. r.made = {} /\ r.todo = {} /\ DOMAIN r.held = {}
    BY <2>4, <2>6 DEF Consistent
  <2>. HIDE DEF r
  <2>8. Consistent(r) /\ Accounted(r)
    BY <2>2, <2>5, <2>6, <2>7 DEF Consistent, Accounted
  <2>9. \A o \in Dispatchers : o # d => Apart(r, relay[o])
    BY <2>2, <2>5, <2>6, <2>7 DEF Apart, Locked
  <2>. QED
    BY <1>1, <2>1, <2>6, <2>8, <2>9, RelayMoves
<1>. QED
  BY <1>1, <1>3, <1>4

LEMMA TakeStep ==
  ASSUME OutboxInv, NEW d \in Dispatchers, Take(d)
  PROVE  OutboxInv' /\ UNCHANGED <<events, runs, buckets>>
<1>1. UNCHANGED <<events, runs, buckets, watermark, on>>
  BY DEF Take, tables, switches
<1>. DEFINE old == relay[d]
            e == Min(old.left)
            S == {w \in events[e].to : enabled[w]} \ old.off
            r == [old EXCEPT !.cur = e, !.left = @ \ {e}, !.marked = @ \cup {e}, !.todo = S]
<1>2. /\ old \in Transaction /\ Consistent(old) /\ Accounted(old)
      /\ \A o \in Dispatchers : o # d => Apart(old, relay[o])
  BY Unit
<1>3. old.at = "walk" /\ old.todo = {} /\ old.left \in SUBSET Nat /\ old.left # {}
  BY <1>2 DEF Take, Transaction
<1>4. e \in old.left /\ e \in Nat
  BY <1>3, Least
<1>5. events[e] \in Event
  BY <1>2, <1>4 DEF Consistent, Pending, OutboxInv, EventsOK
<1>6. S \in SUBSET Workflows
  BY <1>5 DEF Event
<1>7. relay' = [relay EXCEPT ![d] = r]
  BY <1>2 DEF Take, Transaction, OutboxInv, RelayOK
<1>. HIDE DEF S, old, e
<1>8. /\ r \in Transaction
      /\ r.at = "walk" /\ r.cur = e /\ r.left = old.left \ {e} /\ r.marked = old.marked \cup {e}
      /\ r.passed = old.passed /\ r.todo = S /\ r.made = old.made /\ r.held = old.held
  BY <1>2, <1>3, <1>4, <1>6 DEF Transaction
<1>. HIDE DEF r
<1>9. Consistent(r)
  BY <1>2, <1>3, <1>4, <1>8 DEF Consistent
<1>10. Accounted(r)
  BY <1>2, <1>8 DEF Accounted, OfEvent, OfBucket
<1>11. \A o \in Dispatchers : o # d => Apart(r, relay[o])
  BY <1>2, <1>4, <1>8 DEF Apart
<1>. QED
  BY <1>1, <1>7, <1>8, <1>9, <1>10, <1>11, RelayMoves

\* A bucket with one more event in it.
LEMMA BufferedIsBucket ==
  ASSUME NEW b \in Bucket \cup {NoBucket}, NEW e \in Nat, events[e].depth \in Nat
  PROVE  Buffered(b, e) \in Bucket
<1>1. CASE b = NoBucket
  BY <1>1 DEF Buffered, Bucket, Batches
<1>2. CASE b # NoBucket
  <2>1. b \in Bucket
    BY <1>2
  <2>2. b.on \cup {e} \in Batches
    BY <2>1 DEF Bucket, Batches
  <2>3. (IF events[e].depth > b.depth THEN events[e].depth ELSE b.depth) \in Nat
    BY <2>1 DEF Bucket
  <2>4. Buffered(b, e) = [b EXCEPT !.on = b.on \cup {e},
           !.depth = IF events[e].depth > b.depth THEN events[e].depth ELSE b.depth]
    BY <2>1, <1>2 DEF Buffered, Bucket
  <2>. QED
    BY <2>1, <2>2, <2>3, <2>4 DEF Bucket
<1>. QED
  BY <1>1, <1>2

\* Making one more run of w, below its cap as the transaction sees it, or none.
Makes(q, r, w) ==
  \/ q.made = r.made
  \/ ~OverRate(r, w) /\ \E x \in SomeRun : x.wf = w /\ q.made = r.made \cup {x}

\* Offering an event to a workflow, or its bucket, does no more than that.
LEMMA OffersMake ==
  ASSUME OutboxInv, NEW d \in Dispatchers, NEW w \in Workflows, Offer(d, w) \/ Fire(d, w)
  PROVE  \E q \in Transaction :
           relay' = [relay EXCEPT ![d] = q] /\ Alike(q, relay[d]) /\ Makes(q, relay[d], w)
<1>. DEFINE old == relay[d]
            r == [old EXCEPT !.todo = @ \ {w}]
            b == old.held[w]
<1>1. old \in Transaction /\ Consistent(old)
  BY Unit
<1>2. r \in Transaction /\ Alike(r, old) /\ r.made = old.made /\ r.held = old.held
  <2>1. old.todo \ {w} \in SUBSET Workflows
    BY <1>1 DEF Transaction
  <2>. QED
    BY <1>1, <2>1, TodoSet DEF Transaction
<1>3. \A q : q.made = old.made => Recent(q, w) = Recent(old, w)
  BY DEF Recent
<1>4. ASSUME NEW q \in Transaction, Alike(q, old), q.made = old.made,
             NEW batch \in Batches, NEW depth \in Nat, CreateRun(d, q, w, batch, depth)
      PROVE  \E p \in Transaction :
               relay' = [relay EXCEPT ![d] = p] /\ Alike(p, old) /\ Makes(p, old, w)
  <2>1. PICK p \in Transaction :
           /\ relay' = [relay EXCEPT ![d] = p] /\ Alike(p, q)
           /\ \/ p.made = q.made
              \/ ~OverRate(q, w) /\ p.made = q.made \cup {NewRun(w, batch, depth)}
    BY <1>4, CreateRunGives
  <2>2. NewRun(w, batch, depth) \in SomeRun /\ NewRun(w, batch, depth).wf = w
    BY <1>4 DEF NewRun, SomeRun
  <2>3. Alike(p, old)
    BY <1>4, <2>1 DEF Alike
  <2>4. OverRate(q, w) <=> OverRate(old, w)
    BY <1>3, <1>4 DEF OverRate
  <2>. HIDE DEF old
  <2>5. Makes(p, old, w)
    BY <1>4, <2>1, <2>2, <2>4 DEF Makes
  <2>. QED
    BY <2>1, <2>3, <2>5
<1>5. CASE Offer(d, w)
  <2>. DEFINE e == old.cur
  <2>1. e \in old.marked \ old.passed /\ Pending(e) /\ e \in Nat
    BY <1>1, <1>5 DEF Offer, Consistent, Transaction
  <2>2. events[e].depth \in Nat /\ {e} \in Batches
    <3>. HIDE DEF e
    <3>1. events[e] \in Event
      BY <2>1 DEF Pending, OutboxInv, EventsOK
    <3>. QED
      BY <2>1, <3>1 DEF Event, Batches
  <2>3. \/ relay' = [relay EXCEPT ![d] = r]
        \/ relay' = [relay EXCEPT ![d] = Put(r, w, Buffered(Seen(r, w), e))]
        \/ CreateRun(d, r, w, {e}, events[e].depth)
    BY <1>5 DEF Offer
  <2>. HIDE DEF r, old
  <2>4. CASE relay' = [relay EXCEPT ![d] = r]
    BY <1>2, <2>4 DEF old, Makes
  <2>5. CASE CreateRun(d, r, w, {e}, events[e].depth)
    BY <1>2, <1>4, <2>2, <2>5 DEF old
  <2>6. CASE relay' = [relay EXCEPT ![d] = Put(r, w, Buffered(Seen(r, w), e))]
    <3>. DEFINE q == Put(r, w, Buffered(Seen(r, w), e))
    <3>1. Seen(r, w) \in Bucket \cup {NoBucket}
      BY <1>2 DEF Seen, Transaction, Rows, OutboxInv, BucketsOK
    <3>2. Buffered(Seen(r, w), e) \in Bucket
      BY <2>1, <2>2, <3>1, BufferedIsBucket
    <3>3. q \in Transaction /\ Alike(q, r) /\ q.made = r.made
      BY <1>2, <3>2, HeldSet
    <3>. HIDE DEF q
    <3>4. Alike(q, old) /\ Makes(q, old, w)
      BY <1>2, <3>3 DEF Alike, Makes
    <3>. QED
      BY <2>6, <3>3, <3>4 DEF q, old
  <2>. QED
    BY <2>3, <2>4, <2>5, <2>6
<1>6. CASE Fire(d, w)
  <2>. DEFINE q == Put(r, w, NoBucket)
  <2>1. b \in Bucket
    BY <1>1, <1>6 DEF Fire, Consistent, OutboxInv, BucketsOK
  <2>2. relay' = [relay EXCEPT ![d] = q] \/ CreateRun(d, q, w, b.on, b.depth)
    BY <1>6 DEF Fire
  <2>. HIDE DEF b, old, r
  <2>3. q \in Transaction /\ Alike(q, r) /\ q.made = r.made
    BY <1>2, HeldSet
  <2>. HIDE DEF q
  <2>4. Alike(q, old) /\ q.made = old.made
    BY <1>2, <2>3 DEF Alike
  <2>5. b.on \in Batches /\ b.depth \in Nat
    BY <2>1 DEF Bucket
  <2>6. CASE relay' = [relay EXCEPT ![d] = q]
    BY <2>3, <2>4, <2>6 DEF old, Makes
  <2>7. CASE CreateRun(d, q, w, b.on, b.depth)
    BY <1>4, <2>3, <2>4, <2>5, <2>7 DEF old
  <2>. QED
    BY <2>2, <2>6, <2>7
<1>. QED
  BY <1>5, <1>6

\* The run the walk makes of its current event, and the bucket it fills.
LEMMA OfferStep ==
  ASSUME OutboxInv, NEW d \in Dispatchers, NEW w \in Workflows, Offer(d, w)
  PROVE  OutboxInv' /\ UNCHANGED <<events, runs, buckets>>
<1>1. UNCHANGED <<events, runs, buckets, watermark, on>>
  <2>1. UNCHANGED <<tables, switches>>
    BY DEF Offer
  <2>. QED
    BY <2>1 DEF tables, switches
<1>. DEFINE old == relay[d]
            e == old.cur
            r == [old EXCEPT !.todo = @ \ {w}]
<1>2. /\ old \in Transaction /\ Consistent(old) /\ Accounted(old)
      /\ \A o \in Dispatchers : o # d => Apart(old, relay[o])
  BY Unit
<1>3. old.at = "walk" /\ w \in old.todo
  BY DEF Offer
<1>4. e \in old.marked \ old.passed /\ Pending(e) /\ e \in Nat
  BY <1>2, <1>3 DEF Consistent, Transaction
<1>5. events[e].depth \in Nat
  <2>. HIDE DEF e
  <2>1. events[e] \in Event
    BY <1>4 DEF Pending, OutboxInv, EventsOK
  <2>. QED
    BY <2>1 DEF Event
<1>6. r \in Transaction /\ Alike(r, old) /\ r.todo = old.todo \ {w}
      /\ r.made = old.made /\ r.held = old.held
  <2>1. old.todo \ {w} \in SUBSET Workflows
    BY <1>2 DEF Transaction
  <2>. QED
    BY <1>2, <2>1, TodoSet DEF Transaction
<1>7. \/ relay' = [relay EXCEPT ![d] = r]
      \/ /\ w \in Coalesced /\ BucketFree(d, w)
         /\ relay' = [relay EXCEPT ![d] = Put(r, w, Buffered(Seen(r, w), e))]
      \/ w \notin Coalesced /\ CreateRun(d, r, w, {e}, events[e].depth)
  BY DEF Offer
<1>. HIDE DEF old, r, e
<1>8. CASE relay' = [relay EXCEPT ![d] = r]
  <2>1. Consistent(r) /\ Accounted(r) /\ \A o \in Dispatchers : o # d => Apart(r, relay[o])
    BY <1>2, <1>3, <1>6 DEF Consistent, Accounted, OfEvent, OfBucket, Apart, Alike
  <2>. QED
    BY <1>1, <1>6, <1>8, <2>1, RelayMoves
<1>9. CASE w \notin Coalesced /\ CreateRun(d, r, w, {e}, events[e].depth)
  <2>1. {e} \in Batches
    BY <1>4 DEF Batches
  <2>2. PICK q \in Transaction :
           /\ relay' = [relay EXCEPT ![d] = q]
           /\ Alike(q, r) /\ q.todo = r.todo /\ q.held = r.held
           /\ q.made \subseteq r.made \cup {NewRun(w, {e}, events[e].depth)}
    BY <1>5, <1>6, <1>9, <2>1, CreateRunGives
  <2>3. Consistent(q) /\ \A o \in Dispatchers : o # d => Apart(q, relay[o])
    BY <1>2, <1>3, <1>6, <2>2 DEF Consistent, Apart, Alike
  <2>4. Accounted(q)
    <3>1. SUFFICES ASSUME NEW x \in q.made PROVE OfEvent(q, x) \/ OfBucket(q, x)
      BY DEF Accounted
    <3>2. CASE x \in old.made
      <4>1. OfEvent(old, x) \/ OfBucket(old, x)
        BY <1>2, <3>2 DEF Accounted
      <4>2. q.marked = old.marked /\ q.passed = old.passed /\ q.held = old.held
        BY <1>6, <2>2 DEF Alike
      <4>. QED
        BY <4>1, <4>2 DEF OfEvent, OfBucket
    <3>3. CASE x = NewRun(w, {e}, events[e].depth)
      <4>1. x.wf = w
        BY <3>3 DEF NewRun
      <4>2. e \in q.marked \ q.passed
        BY <1>4, <1>6, <2>2 DEF Alike
      <4>. QED
        BY <1>9, <3>3, <4>1, <4>2 DEF OfEvent
    <3>. QED
      BY <1>6, <2>2, <3>2, <3>3
  <2>. QED
    BY <1>1, <2>2, <2>3, <2>4, RelayMoves
<1>10. CASE /\ w \in Coalesced /\ BucketFree(d, w)
            /\ relay' = [relay EXCEPT ![d] = Put(r, w, Buffered(Seen(r, w), e))]
  <2>. DEFINE b == Seen(r, w)
              c == Buffered(b, e)
              q == Put(r, w, c)
  <2>1. b \in Bucket \cup {NoBucket}
    BY <1>6 DEF Seen, Transaction, Rows, OutboxInv, BucketsOK
  <2>2. b # NoBucket => \A i \in b.on :
           i \in r.marked \ r.passed \/ (buckets[w] # NoBucket /\ i \in buckets[w].on)
    BY <1>2, <1>6 DEF Seen, Consistent, Alike
  <2>3. c \in Bucket /\ c.on = (IF b = NoBucket THEN {} ELSE b.on) \cup {e}
    <3>1. CASE b = NoBucket
      BY <1>4, <1>5, <3>1 DEF Buffered, Bucket, Batches
    <3>2. CASE b # NoBucket
      <4>1. b \in Bucket
        BY <2>1, <3>2
      <4>. HIDE DEF b
      <4>2. b.on \cup {e} \in Batches
        BY <4>1, <1>4 DEF Bucket, Batches
      <4>3. (IF events[e].depth > b.depth THEN events[e].depth ELSE b.depth) \in Nat
        BY <4>1, <1>5 DEF Bucket
      <4>4. c = [b EXCEPT !.on = b.on \cup {e},
                          !.depth = IF events[e].depth > b.depth THEN events[e].depth ELSE b.depth]
        BY <4>1, <3>2 DEF Buffered, Bucket
      <4>. HIDE DEF c
      <4>. QED
        BY <3>2, <4>1, <4>2, <4>3, <4>4 DEF Bucket
    <3>. QED
      BY <3>1, <3>2
  <2>4. c # NoBucket
    BY <2>3, BucketIsSome
  <2>. HIDE DEF b, c
  <2>5. /\ q \in Transaction /\ Alike(q, r) /\ q.todo = r.todo /\ q.made = r.made
        /\ DOMAIN q.held = DOMAIN r.held \cup {w}
        /\ \A v \in DOMAIN q.held : q.held[v] = IF v = w THEN c ELSE r.held[v]
    BY <1>6, <2>3, HeldSet
  <2>6. relay' = [relay EXCEPT ![d] = q]
    BY <1>10 DEF b, c
  <2>. HIDE DEF q
  <2>7. Consistent(q)
    <3>1. \A v \in DOMAIN q.held :
            /\ v \in Coalesced /\ q.held[v] # NoBucket
            /\ \A i \in q.held[v].on :
                 i \in q.marked \ q.passed \/ (buckets[v] # NoBucket /\ i \in buckets[v].on)
      <4>1. SUFFICES ASSUME NEW v \in DOMAIN q.held
                     PROVE  /\ v \in Coalesced /\ q.held[v] # NoBucket
                            /\ \A i \in q.held[v].on : i \in q.marked \ q.passed
                                 \/ (buckets[v] # NoBucket /\ i \in buckets[v].on)
        OBVIOUS
      <4>2. CASE v = w
        BY <1>4, <1>6, <1>10, <2>2, <2>3, <2>4, <2>5, <4>2 DEF Alike
      <4>3. CASE v # w
        BY <1>2, <1>3, <1>6, <2>5, <4>3 DEF Alike, Consistent
      <4>. QED
        BY <4>2, <4>3
    <3>. QED
      BY <1>2, <1>3, <1>6, <2>5, <3>1 DEF Consistent, Alike
  <2>8. Accounted(q)
    <3>1. SUFFICES ASSUME NEW x \in q.made PROVE OfEvent(q, x) \/ OfBucket(q, x)
      BY DEF Accounted
    <3>2. OfEvent(old, x)
      BY <1>2, <1>3, <1>6, <2>5 DEF Accounted, OfBucket, Consistent
    <3>. QED
      BY <1>6, <2>5, <3>2 DEF OfEvent, Alike
  <2>9. \A o \in Dispatchers : o # d => Apart(q, relay[o])
    BY <1>2, <1>6, <1>10, <2>5 DEF Apart, Alike, BucketFree
  <2>. QED
    BY <1>1, <2>5, <2>6, <2>7, <2>8, <2>9, RelayMoves
<1>. QED
  BY <1>1, <1>7, <1>8, <1>9, <1>10

LEMMA ClaimDueStep ==
  ASSUME OutboxInv, NEW d \in Dispatchers, ClaimDue(d)
  PROVE  OutboxInv' /\ UNCHANGED <<events, runs, buckets>>
<1>1. UNCHANGED <<events, runs, buckets, watermark, on>>
  BY DEF ClaimDue, tables, switches
<1>. DEFINE due == {w \in Workflows : buckets[w] # NoBucket /\ buckets[w].due /\ BucketFree(d, w)}
            H == [w \in due |-> buckets[w]]
            r == [Idle EXCEPT !.at = "fire", !.todo = due, !.held = H]
<1>2. relay' = [relay EXCEPT ![d] = r]
  BY DEF ClaimDue
<1>3. /\ due \in SUBSET Workflows
      /\ \A w \in due : /\ w \in Coalesced /\ buckets[w] # NoBucket /\ buckets[w] \in Bucket
                        /\ BucketFree(d, w)
  BY DEF OutboxInv, Handed, BucketsOK
<1>4. H \in Rows /\ DOMAIN H = due /\ \A w \in due : H[w] = buckets[w]
  <2>. HIDE DEF due
  <2>1. H \in [due -> Bucket \cup {NoBucket}]
    BY <1>3
  <2>. QED
    BY <1>3, <2>1 DEF Rows
<1>. HIDE DEF due, H
<1>5. /\ r \in Transaction
      /\ r.at = "fire" /\ r.left = {} /\ r.marked = {} /\ r.passed = {} /\ r.made = {}
      /\ r.todo = due /\ r.held = H
  BY <1>3, <1>4 DEF Idle, Transaction
<1>. HIDE DEF r
<1>6. Consistent(r) /\ Accounted(r)
  BY <1>3, <1>4, <1>5 DEF Consistent, Accounted
<1>7. \A o \in Dispatchers : o # d => Apart(r, relay[o])
  BY <1>3, <1>4, <1>5 DEF Apart, BucketFree
<1>. QED
  BY <1>1, <1>2, <1>5, <1>6, <1>7, RelayMoves

\* The run of a due bucket, which is to be deleted.
LEMMA FireStep ==
  ASSUME OutboxInv, NEW d \in Dispatchers, NEW w \in Workflows, Fire(d, w)
  PROVE  OutboxInv' /\ UNCHANGED <<events, runs, buckets>>
<1>1. UNCHANGED <<events, runs, buckets, watermark, on>>
  <2>1. UNCHANGED <<tables, switches>>
    BY DEF Fire
  <2>. QED
    BY <2>1 DEF tables, switches
<1>. DEFINE old == relay[d]
            b == old.held[w]
            t == [old EXCEPT !.todo = @ \ {w}]
            r == Put(t, w, NoBucket)
<1>2. /\ old \in Transaction /\ Consistent(old) /\ Accounted(old)
      /\ \A o \in Dispatchers : o # d => Apart(old, relay[o])
  BY Unit
<1>3. old.at = "fire" /\ w \in old.todo
  BY DEF Fire
<1>4. w \in DOMAIN old.held /\ buckets[w] # NoBucket /\ b = buckets[w] /\ b \in Bucket
  BY <1>2, <1>3 DEF Consistent, OutboxInv, BucketsOK
<1>5. t \in Transaction /\ Alike(t, old) /\ t.todo = old.todo \ {w}
      /\ t.made = old.made /\ t.held = old.held
  <2>1. old.todo \ {w} \in SUBSET Workflows
    BY <1>2 DEF Transaction
  <2>. QED
    BY <1>2, <2>1, TodoSet DEF Transaction
<1>6. \/ relay' = [relay EXCEPT ![d] = r]
      \/ CreateRun(d, r, w, b.on, b.depth)
  BY DEF Fire
<1>. HIDE DEF old, b, t
<1>7. /\ r \in Transaction /\ Alike(r, old) /\ r.todo = old.todo \ {w} /\ r.made = old.made
      /\ DOMAIN r.held = DOMAIN old.held
      /\ \A v \in DOMAIN r.held : r.held[v] = IF v = w THEN NoBucket ELSE old.held[v]
  <2>1. /\ r \in Transaction /\ Alike(r, t) /\ r.todo = t.todo /\ r.made = t.made
        /\ DOMAIN r.held = DOMAIN t.held \cup {w}
        /\ \A v \in DOMAIN r.held : r.held[v] = IF v = w THEN NoBucket ELSE t.held[v]
    BY <1>5, HeldSet
  <2>. QED
    BY <1>4, <1>5, <2>1 DEF Alike
<1>. HIDE DEF r
<1>8. PICK q \in Transaction :
           /\ relay' = [relay EXCEPT ![d] = q]
           /\ Alike(q, r) /\ q.todo = r.todo /\ q.held = r.held
           /\ q.made \subseteq r.made \cup {NewRun(w, b.on, b.depth)}
  <2>1. b.on \in Batches /\ b.depth \in Nat
    BY <1>4 DEF Bucket
  <2>2. CASE relay' = [relay EXCEPT ![d] = r]
    BY <1>7, <2>2 DEF Alike
  <2>3. CASE CreateRun(d, r, w, b.on, b.depth)
    BY <1>7, <2>1, <2>3, CreateRunGives
  <2>. QED
    BY <1>6, <2>2, <2>3
<1>9. Consistent(q)
  <2>1. /\ q.at = "fire" /\ q.marked = old.marked /\ q.left = old.left /\ q.passed = old.passed
        /\ q.todo = old.todo \ {w} /\ DOMAIN q.held = DOMAIN old.held
        /\ \A v \in DOMAIN q.held : q.held[v] = IF v = w THEN NoBucket ELSE old.held[v]
    BY <1>3, <1>7, <1>8 DEF Alike
  <2>. QED
    BY <1>2, <1>3, <2>1 DEF Consistent
<1>10. Accounted(q)
  <2>1. SUFFICES ASSUME NEW x \in q.made PROVE OfEvent(q, x) \/ OfBucket(q, x)
    BY DEF Accounted
  <2>2. CASE x \in old.made
    <3>1. OfEvent(old, x) \/ OfBucket(old, x)
      BY <1>2, <2>2 DEF Accounted
    <3>2. /\ q.marked = old.marked /\ q.passed = old.passed
          /\ DOMAIN q.held = DOMAIN old.held
          /\ \A v \in DOMAIN q.held : old.held[v] = NoBucket => q.held[v] = NoBucket
      BY <1>7, <1>8 DEF Alike
    <3>3. CASE OfEvent(old, x)
      BY ONLY <3>2, <3>3 DEF OfEvent
    <3>4. CASE OfBucket(old, x)
      BY ONLY <3>2, <3>4 DEF OfBucket
    <3>. QED
      BY ONLY <3>1, <3>3, <3>4
  <2>3. CASE x = NewRun(w, b.on, b.depth)
    <3>1. x.wf = w
      BY <2>3 DEF NewRun
    <3>. QED
      BY <1>4, <1>7, <1>8, <2>3, <3>1 DEF OfBucket
  <2>. QED
    BY <1>7, <1>8, <2>2, <2>3
<1>11. \A o \in Dispatchers : o # d => Apart(q, relay[o])
  BY <1>2, <1>7, <1>8 DEF Apart, Alike
<1>. QED
  BY <1>1, <1>8, <1>9, <1>10, <1>11, RelayMoves

-----------------------------------------------------------------------------
(* The commit. *)

\* What the tables hold afterwards.
LEMMA CommitWrites ==
  ASSUME OutboxInv, NEW d \in Dispatchers, Commit(d)
  PROVE  /\ EventsOK' /\ DOMAIN events' = DOMAIN events
         /\ \A e \in DOMAIN events :
              /\ events'[e].depth = events[e].depth
              /\ e \notin relay[d].marked => events'[e] = events[e]
              /\ e \in relay[d].marked =>
                   events'[e].at = IF e \in relay[d].passed THEN "skipped" ELSE "sent"
         /\ \A w \in Workflows : buckets'[w] = Seen(relay[d], w)
         /\ runs' = runs \cup relay[d].made /\ relay' = [relay EXCEPT ![d] = Idle]
         /\ UNCHANGED <<watermark, on>>
<1>1. \A e \in DOMAIN events : events[e] \in Event
  BY DEF OutboxInv, EventsOK
<1>2. /\ DOMAIN events' = DOMAIN events
      /\ events' = [e \in DOMAIN events |-> events'[e]]
      /\ \A e \in DOMAIN events : events'[e] =
           IF e \notin relay[d].marked THEN events[e]
           ELSE [events[e] EXCEPT !.at = IF e \in relay[d].passed THEN "skipped" ELSE "sent"]
  BY DEF Commit
<1>3. \A z \in Event, st \in Statuses :
        LET y == [z EXCEPT !.at = st]
        IN y \in Event /\ y.gen = z.gen /\ y.depth = z.depth /\ y.at = st
  BY ONLY DEF Event
<1>4. \A e \in DOMAIN events :
        LET st == IF e \in relay[d].passed THEN "skipped" ELSE "sent" IN st \in Statuses
  BY DEF Statuses
<1>5. \A e \in DOMAIN events :
        /\ events'[e] \in Event /\ events'[e].gen = events[e].gen
        /\ events'[e].depth = events[e].depth
        /\ e \notin relay[d].marked => events'[e] = events[e]
        /\ e \in relay[d].marked =>
             events'[e].at = IF e \in relay[d].passed THEN "skipped" ELSE "sent"
  <2>1. SUFFICES ASSUME NEW e \in DOMAIN events
                 PROVE  /\ events'[e] \in Event /\ events'[e].gen = events[e].gen
                        /\ events'[e].depth = events[e].depth
                        /\ e \notin relay[d].marked => events'[e] = events[e]
                        /\ e \in relay[d].marked => events'[e].at =
                             IF e \in relay[d].passed THEN "skipped" ELSE "sent"
    OBVIOUS
  <2>2. CASE e \notin relay[d].marked
    BY <1>1, <1>2, <2>2
  <2>3. CASE e \in relay[d].marked
    <3>. DEFINE st == IF e \in relay[d].passed THEN "skipped" ELSE "sent"
    <3>1. st \in Statuses /\ events'[e] = [events[e] EXCEPT !.at = st] /\ events[e] \in Event
      BY <1>1, <1>2, <1>4, <2>3
    <3>. HIDE DEF st
    <3>2. events'[e] \in Event /\ events'[e].gen = events[e].gen
          /\ events'[e].depth = events[e].depth /\ events'[e].at = st
      BY ONLY <3>1, <1>3
    <3>. QED
      BY <2>3, <3>2 DEF st
  <2>. QED
    BY <2>2, <2>3
<1>6. EventsOK'
  BY <1>2, <1>5, Rewritten
<1>. QED
  BY <1>2, <1>5, <1>6 DEF Commit, switches

\* What a committed run or bucket of the transaction is about.
LEMMA MadeOf ==
  ASSUME OutboxInv, NEW d \in Dispatchers, NEW x \in relay[d].made
  PROVE  \/ /\ x.wf \notin Coalesced
            /\ \E e \in relay[d].marked \ relay[d].passed :
                 Pending(e) /\ x = NewRun(x.wf, {e}, events[e].depth) /\ x.on = {e}
         \/ /\ x.wf \in Workflows /\ x.wf \in Coalesced /\ buckets[x.wf] # NoBucket
            /\ x.on = buckets[x.wf].on
            /\ Seen(relay[d], x.wf) = NoBucket
            /\ x = NewRun(x.wf, buckets[x.wf].on, buckets[x.wf].depth)
<1>1. relay[d] \in Transaction /\ Consistent(relay[d]) /\ Accounted(relay[d])
  BY Unit
<1>2. CASE OfEvent(relay[d], x)
  <2>1. PICK e \in relay[d].marked \ relay[d].passed : x = NewRun(x.wf, {e}, events[e].depth)
    BY <1>2 DEF OfEvent
  <2>2. x.on = {e}
    BY <2>1 DEF NewRun
  <2>. QED
    BY <1>1, <1>2, <2>1, <2>2 DEF OfEvent, Consistent
<1>3. CASE OfBucket(relay[d], x)
  <2>1. x.on = buckets[x.wf].on
    BY <1>3 DEF OfBucket, NewRun
  <2>2. x.wf \in Workflows
    BY <1>1 DEF Transaction, SomeRun
  <2>. QED
    BY <1>1, <1>3, <2>1, <2>2 DEF OfBucket, Consistent, Seen
<1>. QED
  BY <1>1, <1>2, <1>3 DEF Accounted

LEMMA BucketOf ==
  ASSUME OutboxInv, NEW d \in Dispatchers, NEW w \in Workflows, Seen(relay[d], w) # NoBucket
  PROVE  /\ w \in Coalesced
         /\ \A e \in Seen(relay[d], w).on :
              \/ e \in relay[d].marked \ relay[d].passed /\ Pending(e)
              \/ buckets[w] # NoBucket /\ e \in buckets[w].on
<1>1. Consistent(relay[d])
  BY Unit
<1>2. CASE w \in DOMAIN relay[d].held
  BY <1>1, <1>2 DEF Consistent, Seen
<1>3. CASE w \notin DOMAIN relay[d].held
  BY <1>3 DEF Seen, OutboxInv, Handed
<1>. QED
  BY <1>2, <1>3

LEMMA CommitStep ==
  ASSUME OutboxInv, NEW d \in Dispatchers, Commit(d)
  PROVE  OutboxInv'
<1>. DEFINE r == relay[d]
<1>1. /\ EventsOK' /\ DOMAIN events' = DOMAIN events
      /\ \A e \in DOMAIN events :
              /\ events'[e].depth = events[e].depth
              /\ e \notin r.marked => events'[e] = events[e]
              /\ e \in r.marked => events'[e].at = IF e \in r.passed THEN "skipped" ELSE "sent"
      /\ \A w \in Workflows : buckets'[w] = Seen(r, w)
      /\ runs' = runs \cup r.made /\ relay' = [relay EXCEPT ![d] = Idle]
      /\ UNCHANGED <<watermark, on>>
  BY CommitWrites
<1>2. /\ r \in Transaction /\ Consistent(r)
      /\ \A o \in Dispatchers : o # d => Apart(r, relay[o])
  BY Unit
<1>3. \A e : Sent(e) => Sent(e)' /\ e \notin r.marked
  BY <1>1, <1>2 DEF Sent, Pending, Consistent
<1>4. \A e : Pending(e) /\ e \in r.marked \ r.passed => Sent(e)'
  BY <1>1 DEF Sent, Pending
<1>5. \A x \in runs : x \in SomeRun /\ \A e \in x.on : Sent(e)
  BY DEF OutboxInv, RunsOK, Handed
<1>6. \A w \in Workflows : buckets[w] # NoBucket => \A e \in buckets[w].on : Sent(e)
  BY DEF OutboxInv, Handed
<1>7. RunsOK' /\ BucketsOK' /\ SwitchesOK' /\ RelayOK'
  <2>1. r.made \subseteq SomeRun
    BY <1>2 DEF Transaction
  <2>2. \A w \in Workflows : Seen(r, w) \in Bucket \cup {NoBucket}
    <3>1. PICK S \in SUBSET Workflows : r.held \in [S -> Bucket \cup {NoBucket}]
      BY <1>2 DEF Transaction, Rows
    <3>. QED
      BY <3>1 DEF Seen, OutboxInv, BucketsOK
  <2>3. buckets' = [w \in Workflows |-> Seen(r, w)]
    BY DEF Commit
  <2>. HIDE DEF r
  <2>4. BucketsOK'
    BY <2>2, <2>3 DEF BucketsOK
  <2>5. Idle \in Transaction
    BY IdleRecord
  <2>. QED
    BY <1>1, <2>1, <2>4, <2>5 DEF OutboxInv, RunsOK, SwitchesOK, RelayOK
<1>8. \A x \in r.made : \A e \in x.on : Sent(e)'
  <2>1. SUFFICES ASSUME NEW x \in r.made, NEW i \in x.on PROVE Sent(i)'
    OBVIOUS
  <2>2. CASE x.wf \in Coalesced
    <3>1. x.wf \in Workflows /\ buckets[x.wf] # NoBucket /\ x.on = buckets[x.wf].on
      BY <2>2, MadeOf
    <3>. QED
      BY <1>3, <1>6, <2>1, <3>1
  <2>3. CASE x.wf \notin Coalesced
    <3>1. PICK e \in r.marked \ r.passed : Pending(e) /\ x.on = {e}
      BY <2>3, MadeOf
    <3>. QED
      BY <1>4, <2>1, <3>1
  <2>. QED
    BY <2>2, <2>3
<1>9. \A w \in Workflows : buckets'[w] # NoBucket =>
        w \in Coalesced /\ \A e \in buckets'[w].on : Sent(e)'
  BY <1>1, <1>3, <1>4, <1>6, BucketOf
<1>10. Handed'
  BY <1>1, <1>3, <1>5, <1>8, <1>9 DEF Handed
<1>11. \A x \in runs, y \in r.made : ~(x.wf = y.wf /\ x.on \cap y.on # {})
  <2>1. SUFFICES ASSUME NEW x \in runs, NEW y \in r.made, x.wf = y.wf
                 PROVE  x.on \cap y.on = {}
    OBVIOUS
  <2>2. \A e \in x.on : e \notin r.marked
    BY <1>3, <1>5
  <2>3. buckets[x.wf] # NoBucket => x.on \cap buckets[x.wf].on = {}
    BY DEF OutboxInv, OncePerWorkflow
  <2>4. CASE y.wf \in Coalesced
    <3>1. buckets[y.wf] # NoBucket /\ y.on = buckets[y.wf].on
      BY <2>4, MadeOf
    <3>. QED
      BY <2>1, <2>3, <3>1
  <2>5. CASE y.wf \notin Coalesced
    <3>1. PICK e \in r.marked \ r.passed : y.on = {e}
      BY <2>5, MadeOf
    <3>. QED
      BY <2>2, <3>1
  <2>. QED
    BY <2>4, <2>5
<1>12. \A x, y \in r.made : x.wf = y.wf /\ x.on \cap y.on # {} => x = y
  <2>1. SUFFICES ASSUME NEW x \in r.made, NEW y \in r.made, x.wf = y.wf, x.on \cap y.on # {}
                 PROVE  x = y
    OBVIOUS
  <2>2. CASE x.wf \in Coalesced
    BY <2>1, <2>2, MadeOf
  <2>3. CASE x.wf \notin Coalesced
    <3>1. PICK e : x = NewRun(x.wf, {e}, events[e].depth) /\ x.on = {e}
      BY <2>3, MadeOf
    <3>2. PICK f : y = NewRun(y.wf, {f}, events[f].depth) /\ y.on = {f}
      BY <2>1, <2>3, MadeOf
    <3>3. e = f
      BY <2>1, <3>1, <3>2
    <3>. QED
      BY <2>1, <3>1, <3>2, <3>3
  <2>. QED
    BY <2>2, <2>3
<1>13. \A x \in runs : buckets'[x.wf] # NoBucket => x.on \cap buckets'[x.wf].on = {}
  <2>1. SUFFICES ASSUME NEW x \in runs, buckets'[x.wf] # NoBucket
                 PROVE  x.on \cap buckets'[x.wf].on = {}
    OBVIOUS
  <2>2. x.wf \in Workflows
    BY <1>5 DEF SomeRun
  <2>3. \A e \in x.on : e \notin r.marked
    BY <1>3, <1>5
  <2>4. buckets[x.wf] # NoBucket => x.on \cap buckets[x.wf].on = {}
    BY DEF OutboxInv, OncePerWorkflow
  <2>. QED
    BY <1>1, <2>1, <2>2, <2>3, <2>4, BucketOf
<1>14. \A x \in r.made : buckets'[x.wf] # NoBucket => x.on \cap buckets'[x.wf].on = {}
  <2>1. SUFFICES ASSUME NEW x \in r.made, buckets'[x.wf] # NoBucket PROVE FALSE
    OBVIOUS
  <2>2. x.wf \in Workflows
    BY <1>2 DEF Transaction, SomeRun
  <2>3. Seen(r, x.wf) # NoBucket /\ x.wf \in Coalesced
    BY <1>1, <2>1, <2>2, BucketOf
  <2>. QED
    BY <2>3, MadeOf
<1>15. OncePerWorkflow'
  <2>1. \A x, y \in runs : x.wf = y.wf /\ x.on \cap y.on # {} => x = y
    BY DEF OutboxInv, OncePerWorkflow
  <2>2. \A x, y \in runs' : x.wf = y.wf /\ x.on \cap y.on # {} => x = y
    BY <1>1, <1>11, <1>12, <2>1
  <2>3. \A x \in runs' : buckets'[x.wf] # NoBucket => x.on \cap buckets'[x.wf].on = {}
    BY <1>1, <1>13, <1>14
  <2>. QED
    BY <2>2, <2>3 DEF OncePerWorkflow
<1>16. \A o \in Dispatchers : relay'[o] = IF o = d THEN Idle ELSE relay[o]
  BY <1>1 DEF OutboxInv, RelayOK
<1>17. /\ Idle.at = "idle" /\ Idle.marked = {} /\ Idle.left = {} /\ Idle.passed = {}
       /\ Idle.made = {} /\ Idle.todo = {} /\ DOMAIN Idle.held = {}
  BY DEF Idle
<1>18. \A o \in Dispatchers : Consistent(relay[o])' /\ Accounted(relay[o])'
  <2>1. SUFFICES ASSUME NEW o \in Dispatchers
                 PROVE  Consistent(relay[o])' /\ Accounted(relay[o])'
    OBVIOUS
  <2>2. CASE o = d
    <3>1. relay'[o] = Idle
      BY <1>16, <2>2
    <3>. QED
      BY <1>17, <3>1 DEF Consistent, Accounted
  <2>3. CASE o # d
    <3>. DEFINE q == relay[o]
    <3>1. q' = q /\ Consistent(q) /\ Accounted(q) /\ q \in Transaction /\ Apart(r, q)
      BY <1>2, <1>16, <2>3, Unit
    <3>2. \A e \in q.marked \cup q.left : Pending(e)' /\ events'[e].depth = events[e].depth
      <4>1. SUFFICES ASSUME NEW e \in q.marked \cup q.left
                     PROVE  Pending(e)' /\ events'[e].depth = events[e].depth
        OBVIOUS
      <4>2. Pending(e) /\ e \notin r.marked
        BY <3>1 DEF Consistent, Apart
      <4>. QED
        BY <1>1, <4>2 DEF Pending
    <3>3. \A w \in DOMAIN q.held : buckets'[w] = buckets[w]
      <4>1. \A w \in DOMAIN q.held : w \in Workflows
        BY <3>1 DEF Transaction, Rows
      <4>. QED
        BY <1>1, <3>1, <4>1 DEF Apart, Seen
    <3>. HIDE DEF q, r
    <3>4. Consistent(q)'
      BY <3>1, <3>2, <3>3 DEF Consistent
    <3>5. Accounted(q)'
      <4>1. SUFFICES ASSUME NEW x \in q.made PROVE OfEvent(q, x)' \/ OfBucket(q, x)'
        BY <3>1 DEF Accounted
      <4>2. CASE OfEvent(q, x)
        <5>1. PICK e \in q.marked \ q.passed : x = NewRun(x.wf, {e}, events[e].depth)
          BY <4>2 DEF OfEvent
        <5>2. events'[e].depth = events[e].depth /\ x.wf \notin Coalesced
          BY <3>2, <4>2 DEF OfEvent
        <5>. QED
          BY <3>1, <5>1, <5>2 DEF OfEvent, NewRun
      <4>3. CASE OfBucket(q, x)
        BY <3>1, <3>3, <4>3 DEF OfBucket, NewRun
      <4>. QED
        BY <3>1, <4>2, <4>3 DEF Accounted
    <3>. QED
      BY <3>4, <3>5 DEF q
  <2>. QED
    BY <2>2, <2>3
<1>19. Locks'
  <2>1. \A o, p \in Dispatchers : o # p => Apart(relay'[o], relay'[p])
    BY <1>16, <1>17 DEF Apart, OutboxInv, Locks
  <2>. QED
    BY <2>1 DEF Locks, Apart
<1>. QED
  BY <1>1, <1>7, <1>10, <1>15, <1>18, <1>19 DEF OutboxInv, Transactions

-----------------------------------------------------------------------------
(* The invariant holds. *)

LEMMA InvStep ==
  ASSUME OutboxInv, [OutboxNext]_outboxVars
  PROVE  OutboxInv'
<1>1. CASE Emit
  BY <1>1, EmitStep
<1>2. CASE \E e \in DOMAIN events : EndMutation(e)
  BY <1>2, EndMutationStep
<1>3. ASSUME NEW d \in Dispatchers, RelayStep(d) PROVE OutboxInv'
  BY <1>3, ReadSwitchesStep, ClaimStep, TakeStep, ClaimDueStep, CommitStep, OfferStep, FireStep
     DEF RelayStep
<1>4. ASSUME NEW d \in Dispatchers, Abort(d) PROVE OutboxInv'
  BY <1>4, AbortStep
<1>5. ASSUME NEW w \in Workflows, WindowCloses(w) PROVE OutboxInv'
  BY <1>5, WindowClosesStep
<1>6. CASE Aside
  BY <1>6, AsideStep
<1>7. ASSUME NEW x \in runs, EndRun(x) \/ Age(x) PROVE OutboxInv'
  BY <1>7, RunStep
<1>8. ASSUME NEW x \in runs, Reply(x) PROVE OutboxInv'
  BY <1>8, ReplyStep
<1>9. CASE SwitchOff
  BY <1>9, SwitchOffStep
<1>10. CASE UNCHANGED outboxVars
  <2>1. UNCHANGED <<events, runs, buckets, relay, watermark, on>>
    BY <1>10 DEF outboxVars
  <2>2. EventsOK' /\ Keeps /\ SwitchesOK'
    BY <2>1 DEF OutboxInv, EventsOK, Keeps, SwitchesOK
  <2>. QED
    BY <2>1, <2>2, RunsStay, BucketsStay, OuterStep
<1>. QED
  BY <1>1, <1>2, <1>3, <1>4, <1>5, <1>6, <1>7, <1>8, <1>9, <1>10 DEF OutboxNext, Aside

THEOREM OutboxInvariant == OutboxSpec => []OutboxInv
<1>1. QED
  BY InvInit, InvStep, PTL DEF OutboxSpec

\* No event is in two runs of one workflow, nor in a run and an open bucket of
\* it, whichever dispatchers relay it.
THEOREM FiresOnce == OutboxSpec => []OncePerWorkflow
<1>1. OutboxInv => OncePerWorkflow
  BY DEF OutboxInv
<1>. QED
  BY <1>1, OutboxInvariant, PTL

\* The mark of an event and the runs and buckets it is in are one transaction:
\* what a run or a bucket holds has committed and is marked dispatched.
THEOREM MarkedWithRuns == OutboxSpec => []HandedMeansMarked
<1>1. OutboxInv => HandedMeansMarked
  BY DEF OutboxInv, Handed, HandedMeansMarked, Sent
<1>. QED
  BY <1>1, OutboxInvariant, PTL

-----------------------------------------------------------------------------
(* The refinement. *)

HandedTo(e, w) == \E x \in runs : x.wf = w /\ e \in x.on
Unchanged(e) == \A w \in Workflows : Fate(e, w)' = Fate(e, w)
Meets(e) ==
  \/ \A w \in Workflows : Fate(e, w) = "absent" /\ Fate(e, w)' = "waiting"
  \/ \A w \in Workflows :
       \/ Fate(e, w) = "waiting" /\ Fate(e, w)' \in {"handed", "passed"}
       \/ Fate(e, w)' = Fate(e, w)

LEMMA MeetsNext ==
  ASSUME \A e \in EventIds : Meets(e)
  PROVE  Delivery!DeliveryNext
<1>. DEFINE f == [p \in EventIds \X Workflows |-> Fate(p[1], p[2])]
<1>1. /\ \A e \in EventIds, w \in Workflows : f[e, w] = Fate(e, w)
      /\ \A e \in EventIds, w \in Workflows : f'[e, w] = Fate(e, w)'
  <2>1. SUFFICES ASSUME NEW e \in EventIds, NEW w \in Workflows
                 PROVE  f[e, w] = Fate(e, w) /\ f'[e, w] = Fate(e, w)'
    OBVIOUS
  <2>2. <<e, w>> \in EventIds \X Workflows /\ <<e, w>>[1] = e /\ <<e, w>>[2] = w
    OBVIOUS
  <2>3. f[e, w] = Fate(e, w)
    BY <2>2
  <2>4. f'[e, w] = Fate(e, w)'
    BY <2>2
  <2>. QED
    BY <2>3, <2>4
<1>2. f' \in [EventIds \X Workflows -> Delivery!Fates]
  BY DEF Fate, Delivery!Fates
<1>. QED
  BY <1>1, <1>2 DEF Delivery!DeliveryNext, Delivery!Arrive, Delivery!Settle, Meets

\* A step that leaves an event's mark, its runs and its place in a bucket alone.
LEMMA FateStays ==
  ASSUME NEW e, e \in DOMAIN events <=> e \in DOMAIN events',
         e \in DOMAIN events => events'[e].at = events[e].at,
         \A w \in Workflows : HandedTo(e, w)' <=> HandedTo(e, w),
         \A w \in Workflows : /\ buckets'[w] = NoBucket <=> buckets[w] = NoBucket
                              /\ buckets'[w].on = buckets[w].on
  PROVE  Unchanged(e)
BY DEF Unchanged, Fate, Committed, HandedTo

LEMMA SameTables ==
  ASSUME UNCHANGED <<events, runs, buckets>>
  PROVE  \A e \in EventIds : Meets(e)
BY DEF Meets, Fate, Committed

LEMMA SameRuns ==
  ASSUME UNCHANGED runs
  PROVE  \A e, w : HandedTo(e, w)' <=> HandedTo(e, w)
BY DEF HandedTo

LEMMA MovedRuns ==
  ASSUME NEW x \in runs, NEW z, z.wf = x.wf, z.on = x.on, runs' = (runs \ {x}) \cup {z}
  PROVE  \A e, w : HandedTo(e, w)' <=> HandedTo(e, w)
BY DEF HandedTo

\* An event that has not committed is in no run.
LEMMA NotHanded ==
  ASSUME OutboxInv, NEW e, ~Sent(e)
  PROVE  \A w \in Workflows : ~HandedTo(e, w)
BY DEF OutboxInv, Handed, HandedTo

\* An event that is appended arrives for every workflow, if its transaction is
\* over; the others keep their fate.
LEMMA NewArrives ==
  ASSUME OutboxInv, NEW z \in Event, z.at \in {"open", "pending"}, Len(events) < MaxEvents,
         z.gen <= Len(events), events' = Append(events, z), UNCHANGED buckets,
         \A e, w : HandedTo(e, w)' <=> HandedTo(e, w)
  PROVE  \A e \in EventIds : Meets(e)
<1>1. /\ DOMAIN events' = DOMAIN events \cup {Len(events) + 1}
      /\ Len(events) + 1 \notin DOMAIN events
      /\ \A e \in DOMAIN events : events'[e] = events[e]
      /\ events'[Len(events) + 1] = z
  BY Appended
<1>2. SUFFICES ASSUME NEW e \in EventIds PROVE Meets(e)
  OBVIOUS
<1>3. CASE e # Len(events) + 1
  <2>1. Unchanged(e)
    BY <1>1, <1>3, FateStays
  <2>. QED
    BY <2>1 DEF Unchanged, Meets
<1>4. CASE e = Len(events) + 1
  <2>1. \A w \in Workflows : Fate(e, w) = "absent"
    BY <1>1, <1>4 DEF Fate, Committed
  <2>2. \A w \in Workflows : ~HandedTo(e, w)'
    BY <1>1, <1>4, NotHanded DEF Sent
  <2>3. e \in DOMAIN events' /\ events'[e].at = z.at
    BY <1>1, <1>4
  <2>4. \A w \in Workflows : Fate(e, w)' = IF z.at = "open" THEN "absent" ELSE "waiting"
    BY <2>2, <2>3 DEF Fate, Committed, HandedTo
  <2>. QED
    BY <2>1, <2>4 DEF Meets
<1>. QED
  BY <1>3, <1>4

LEMMA CommitDelivers ==
  ASSUME OutboxInv, NEW d \in Dispatchers, Commit(d)
  PROVE  \A e \in EventIds : Meets(e)
<1>. DEFINE r == relay[d]
<1>1. /\ DOMAIN events' = DOMAIN events
      /\ \A e \in DOMAIN events :
              /\ e \notin r.marked => events'[e] = events[e]
              /\ e \in r.marked => events'[e].at = IF e \in r.passed THEN "skipped" ELSE "sent"
      /\ \A w \in Workflows : buckets'[w] = Seen(r, w)
      /\ runs' = runs \cup r.made
  BY CommitWrites
<1>2. \A e \in r.marked : Pending(e)
  BY Unit DEF Consistent
<1>3. SUFFICES ASSUME NEW e \in EventIds, NEW w \in Workflows
               PROVE  \/ Fate(e, w) = "waiting" /\ Fate(e, w)' \in {"handed", "passed"}
                      \/ Fate(e, w)' = Fate(e, w)
  BY DEF Meets
<1>4. Committed(e)' <=> Committed(e)
  BY <1>1, <1>2 DEF Committed, Pending
<1>5. CASE ~Committed(e)
  BY <1>4, <1>5 DEF Fate
<1>6. CASE Committed(e) /\ HandedTo(e, w)
  <2>1. HandedTo(e, w)'
    BY <1>1, <1>6 DEF HandedTo
  <2>. QED
    BY <1>4, <1>6, <2>1 DEF Fate, HandedTo
<1>7. CASE Committed(e) /\ ~HandedTo(e, w) /\ Fate(e, w) = "waiting"
  BY <1>4, <1>7 DEF Fate
<1>8. CASE Committed(e) /\ ~HandedTo(e, w) /\ Fate(e, w) # "waiting"
  <2>1. ~Pending(e) /\ ~(buckets[w] # NoBucket /\ e \in buckets[w].on)
    BY <1>8 DEF Fate, Pending, HandedTo
  <2>2. e \notin r.marked
    BY <1>2, <2>1
  <2>3. ~HandedTo(e, w)'
    <3>1. SUFFICES ASSUME NEW x \in r.made, x.wf = w, e \in x.on PROVE FALSE
      BY <1>1, <1>8 DEF HandedTo
    <3>2. CASE x.wf \in Coalesced
      BY <2>1, <3>1, <3>2, MadeOf
    <3>3. CASE x.wf \notin Coalesced
      <4>1. PICK i \in r.marked \ r.passed : x.on = {i}
        BY <3>3, MadeOf
      <4>. QED
        BY <2>2, <3>1, <4>1
    <3>. QED
      BY <3>2, <3>3
  <2>4. ~(buckets'[w] # NoBucket /\ e \in buckets'[w].on)
    BY <1>1, <2>1, <2>2, BucketOf
  <2>5. ~Pending(e)'
    BY <1>1, <2>1, <2>2 DEF Pending
  <2>6. Fate(e, w)' = "passed" /\ Fate(e, w) = "passed"
    BY <1>4, <1>8, <2>1, <2>3, <2>4, <2>5 DEF Fate, HandedTo, Pending, Committed
  <2>. QED
    BY <2>6
<1>. QED
  BY <1>5, <1>6, <1>7, <1>8

LEMMA DeliveryStep ==
  ASSUME OutboxInv, OutboxNext
  PROVE  \A e \in EventIds : Meets(e)
<1>1. CASE Emit
  <2>1. PICK k \in Kinds : events' = Append(events, NewEvent(k, "open", 0, {}, 0))
    BY <1>1 DEF Emit
  <2>2. /\ NewEvent(k, "open", 0, {}, 0) \in Event /\ NewEvent(k, "open", 0, {}, 0).gen = 0
        /\ NewEvent(k, "open", 0, {}, 0).at = "open"
    BY OutboxConstants DEF NewEvent, Event, Statuses, Res, OutboxInv, SwitchesOK
  <2>3. Len(events) \in Nat /\ Len(events) < MaxEvents /\ UNCHANGED <<runs, buckets>>
    BY <1>1 DEF Emit, OutboxInv, EventsOK
  <2>. QED
    BY <2>1, <2>2, <2>3, SameRuns, NewArrives
<1>2. ASSUME NEW i \in DOMAIN events, EndMutation(i) PROVE \A e \in EventIds : Meets(e)
  <2>1. SUFFICES ASSUME NEW e \in EventIds PROVE Meets(e)
    OBVIOUS
  <2>2. PICK st \in {"pending", "gone"} : events' = [events EXCEPT ![i].at = st]
    BY <1>2 DEF EndMutation
  <2>3. events[i] \in Event /\ events[i].at = "open" /\ UNCHANGED <<runs, buckets>>
    BY <1>2 DEF OutboxInv, EventsOK, EndMutation
  <2>4. DOMAIN events' = DOMAIN events /\ events'[i].at = st
        /\ \A j \in DOMAIN events : j # i => events'[j] = events[j]
    BY <2>2, <2>3 DEF Event
  <2>5. CASE e # i
    <3>1. Unchanged(e)
      BY <2>3, <2>4, <2>5, SameRuns, FateStays
    <3>. QED
      BY <3>1 DEF Unchanged, Meets
  <2>6. CASE e = i
    <3>1. \A w \in Workflows : Fate(e, w) = "absent"
      BY <2>3, <2>6 DEF Fate, Committed
    <3>2. \A w \in Workflows : ~HandedTo(e, w)'
      BY <2>3, <2>6, NotHanded, SameRuns DEF Sent
    <3>3. \A w \in Workflows : Fate(e, w)' = IF st = "gone" THEN "absent" ELSE "waiting"
      BY <2>4, <2>6, <3>2 DEF Fate, Committed, HandedTo
    <3>. QED
      BY <3>1, <3>3 DEF Meets
  <2>. QED
    BY <2>5, <2>6
<1>3. ASSUME NEW d \in Dispatchers, RelayStep(d) \/ Abort(d)
      PROVE  \A e \in EventIds : Meets(e)
  <2>1. CASE Commit(d)
    BY <2>1, CommitDelivers
  <2>2. CASE ~Commit(d)
    BY <1>3, <2>2, ReadSwitchesStep, ClaimStep, TakeStep, ClaimDueStep, OfferStep, FireStep,
       AbortStep, SameTables DEF RelayStep
  <2>. QED
    BY <2>1, <2>2
<1>4. ASSUME NEW w \in Workflows, WindowCloses(w) PROVE \A e \in EventIds : Meets(e)
  <2>1. buckets[w] \in Bucket /\ buckets' = [buckets EXCEPT ![w].due = TRUE]
        /\ UNCHANGED <<events, runs>>
    BY <1>4 DEF WindowCloses, OutboxInv, BucketsOK
  <2>2. [buckets[w] EXCEPT !.due = TRUE] \in Bucket
        /\ [buckets[w] EXCEPT !.due = TRUE].on = buckets[w].on
    BY <2>1 DEF Bucket
  <2>3. \A v \in Workflows : /\ buckets'[v] = NoBucket <=> buckets[v] = NoBucket
                             /\ buckets'[v].on = buckets[v].on
    BY <2>1, <2>2, BucketIsSome DEF OutboxInv, BucketsOK
  <2>4. \A e \in EventIds : Unchanged(e)
    BY <2>1, <2>3, SameRuns, FateStays
  <2>. QED
    BY <2>4 DEF Unchanged, Meets
<1>5. CASE Aside
  BY <1>5, AsideStep, SameTables
<1>6. ASSUME NEW x \in runs, EndRun(x) \/ Age(x) PROVE \A e \in EventIds : Meets(e)
  <2>1. x \in SomeRun /\ UNCHANGED <<events, buckets>>
    BY <1>6 DEF EndRun, Age, OutboxInv, RunsOK
  <2>2. PICK z \in SomeRun : z.wf = x.wf /\ z.on = x.on /\ runs' = (runs \ {x}) \cup {z}
    BY <1>6, <2>1, RunIsRecord DEF EndRun, Age
  <2>3. \A e \in EventIds : Unchanged(e)
    BY <2>1, <2>2, MovedRuns, FateStays
  <2>. QED
    BY <2>3 DEF Unchanged, Meets
<1>7. ASSUME NEW x \in runs, Reply(x) PROVE \A e \in EventIds : Meets(e)
  <2>1. PICK z \in Event : z.at = "pending" /\ z.gen <= Len(events) /\ events' = Append(events, z)
    BY <1>7, ReplyStep
  <2>2. x \in SomeRun /\ Len(events) < MaxEvents /\ UNCHANGED buckets
    BY <1>7 DEF Reply, OutboxInv, RunsOK
  <2>3. PICK y \in SomeRun : y.wf = x.wf /\ y.on = x.on /\ runs' = (runs \ {x}) \cup {y}
    BY <1>7, <2>2, RunIsRecord DEF Reply
  <2>. QED
    BY <2>1, <2>2, <2>3, MovedRuns, NewArrives
<1>8. CASE SwitchOff
  <2>1. /\ DOMAIN events' = DOMAIN events /\ UNCHANGED <<runs, buckets>>
        /\ \A i \in DOMAIN events : events'[i] = [events[i] EXCEPT !.sawOff = TRUE]
    BY <1>8 DEF SwitchOff
  <2>2. \A i \in DOMAIN events : events'[i].at = events[i].at
    <3>1. \A i \in DOMAIN events : events[i] \in Event
      BY DEF OutboxInv, EventsOK
    <3>2. \A z \in Event : [z EXCEPT !.sawOff = TRUE].at = z.at
      BY ONLY DEF Event
    <3>. QED
      BY <2>1, <3>1, <3>2
  <2>3. \A e \in EventIds : Unchanged(e)
    BY <2>1, <2>2, SameRuns, FateStays
  <2>. QED
    BY <2>3 DEF Unchanged, Meets
<1>. QED
  BY <1>1, <1>2, <1>3, <1>4, <1>5, <1>6, <1>7, <1>8 DEF OutboxNext, Aside

LEMMA DeliveryStarts ==
  ASSUME OutboxInit
  PROVE  Delivery!DeliveryInit
BY DEF OutboxInit, Delivery!DeliveryInit, Fate, Committed

\* The dispatchers implement the promise of the outbox: each event meets each
\* workflow once, and what became of the pair is final.
THEOREM ImplementsDelivery == OutboxSpec => DeliversOnce
<1>1. ASSUME OutboxInv, [OutboxNext]_outboxVars
      PROVE  [Delivery!DeliveryNext]_[p \in EventIds \X Workflows |-> Fate(p[1], p[2])]
  <2>1. CASE OutboxNext
    BY <1>1, <2>1, DeliveryStep, MeetsNext
  <2>2. CASE UNCHANGED outboxVars
    <3>1. UNCHANGED <<events, runs, buckets>>
      BY <2>2 DEF outboxVars
    <3>. QED
      BY <3>1, SameTables, MeetsNext
  <2>. QED
    BY <1>1, <2>1, <2>2
<1>. QED
  BY <1>1, DeliveryStarts, OutboxInvariant, PTL DEF OutboxSpec, DeliversOnce, Delivery!DeliverySpec

-----------------------------------------------------------------------------
(* What the fast-forward skips.  The watermark is one more than the number  *)
(* of events there were when it was stamped, and a dispatcher compares with *)
(* one it read earlier: so what it passes was there at the last stamp.      *)

WatermarkInv ==
  /\ watermark <= Len(events) + 1
  /\ \A d \in Dispatchers :
       relay[d].watermark <= watermark /\ \A e \in relay[d].passed : e < watermark
  /\ \A e \in DOMAIN events : events[e].at = "skipped" => e < watermark

\* What dispatchers hold between their transactions' ends is below the mark.
LEMMA RelayBelowMark ==
  ASSUME OutboxInv, WatermarkInv, NEW d \in Dispatchers, RelayStep(d) \/ Abort(d)
  PROVE  /\ watermark' = watermark
         /\ \A o \in Dispatchers :
              relay'[o].watermark <= watermark /\ \A e \in relay'[o].passed : e < watermark
<1>. DEFINE Below(q) == q.watermark <= watermark /\ \A e \in q.passed : e < watermark
<1>1. watermark \in Nat /\ relay[d] \in Transaction /\ Below(relay[d])
  BY Unit DEF OutboxInv, SwitchesOK, WatermarkInv
<1>2. relay \in [Dispatchers -> Transaction] /\ \A o \in Dispatchers : Below(relay[o])
  BY DEF OutboxInv, RelayOK, WatermarkInv
<1>3. \A q : relay' = [relay EXCEPT ![d] = q] /\ Below(q)
               => \A o \in Dispatchers : Below(relay'[o])
  BY <1>2
<1>4. Below(Idle)
  BY <1>1 DEF Idle
<1>5. CASE ReadSwitches(d)
  <2>. DEFINE q == [Idle EXCEPT !.at = "read", !.watermark = watermark]
  <2>1. q.watermark = watermark /\ q.passed = {}
    BY DEF Idle
  <2>2. relay' = [relay EXCEPT ![d] = q] /\ watermark' = watermark
    BY <1>5 DEF ReadSwitches, switches
  <2>3. Below(q)
    BY <1>1, <2>1
  <2>. HIDE DEF q, Below
  <2>. QED
    BY <1>3, <2>2, <2>3 DEF Below
<1>6. CASE Claim(d)
  <2>. DEFINE batch == Oldest(Undispatched)
              old == {e \in batch : e < relay[d].watermark}
              q == [relay[d] EXCEPT !.at = "walk", !.left = batch \ old,
                                    !.marked = old, !.passed = old]
  <2>1. (relay' = [relay EXCEPT ![d] = Idle] \/ relay' = [relay EXCEPT ![d] = q])
        /\ watermark' = watermark
    BY <1>6 DEF Claim, switches
  <2>2. batch \subseteq Nat
    BY DEF Oldest, Undispatched, OutboxInv, EventsOK
  <2>3. old \subseteq Nat /\ \A e \in old : e < relay[d].watermark
    BY <2>2
  <2>4. q.watermark = relay[d].watermark /\ q.passed = old
    <3>. HIDE DEF batch, old
    <3>. QED
      BY <1>1 DEF Transaction
  <2>5. relay[d].watermark \in Nat /\ relay[d].watermark <= watermark
    BY <1>1 DEF Transaction
  <2>6. Below(q)
    <3>1. \A e \in old : e < watermark
      <4>. HIDE DEF batch, old
      <4>. QED
        BY <1>1, <2>3, <2>5
    <3>. HIDE DEF batch, old, q
    <3>. QED
      BY <2>4, <2>5, <3>1
  <2>. HIDE DEF q, Below
  <2>. QED
    BY <1>3, <1>4, <2>1, <2>6 DEF Below
<1>7. CASE Take(d)
  <2>. DEFINE e == Min(relay[d].left)
              S == {w \in events[e].to : enabled[w]} \ relay[d].off
              q == [relay[d] EXCEPT !.cur = e, !.left = @ \ {e}, !.marked = @ \cup {e}, !.todo = S]
  <2>1. relay' = [relay EXCEPT ![d] = q] /\ watermark' = watermark
    BY <1>1, <1>2, <1>7 DEF Take, Transaction, switches
  <2>2. q.watermark = relay[d].watermark /\ q.passed = relay[d].passed
    <3>. HIDE DEF e, S
    <3>. QED
      BY <1>1 DEF Transaction
  <2>. HIDE DEF q
  <2>3. Below(q)
    BY <1>1, <2>2
  <2>. HIDE DEF Below
  <2>. QED
    BY <1>3, <2>1, <2>3 DEF Below
<1>8. ASSUME NEW w \in Workflows, Offer(d, w) \/ Fire(d, w)
      PROVE  watermark' = watermark /\ \A o \in Dispatchers : Below(relay'[o])
  <2>1. \E q : relay' = [relay EXCEPT ![d] = q]
                 /\ q.watermark = relay[d].watermark /\ q.passed = relay[d].passed
    BY <1>8, OffersMake DEF Alike
  <2>2. watermark' = watermark
    BY <1>8 DEF Offer, Fire, switches
  <2>3. \A q : q.watermark = relay[d].watermark /\ q.passed = relay[d].passed => Below(q)
    BY <1>1
  <2>. HIDE DEF Below
  <2>. QED
    BY <1>3, <2>1, <2>2, <2>3
<1>9. CASE ClaimDue(d)
  <2>. DEFINE due == {w \in Workflows : buckets[w] # NoBucket /\ buckets[w].due /\ BucketFree(d, w)}
              H == [w \in due |-> buckets[w]]
              q == [Idle EXCEPT !.at = "fire", !.todo = due, !.held = H]
  <2>1. relay' = [relay EXCEPT ![d] = q] /\ watermark' = watermark
    BY <1>9 DEF ClaimDue, switches
  <2>2. q.watermark = 0 /\ q.passed = {}
    <3>. HIDE DEF due, H
    <3>. QED
      BY DEF Idle
  <2>. HIDE DEF q
  <2>3. Below(q)
    BY <1>1, <2>2
  <2>. HIDE DEF Below
  <2>. QED
    BY <1>3, <2>1, <2>3 DEF Below
<1>10. CASE Commit(d) \/ Abort(d)
  <2>1. relay' = [relay EXCEPT ![d] = Idle] /\ watermark' = watermark
    BY <1>10 DEF Commit, Abort, switches
  <2>. HIDE DEF Below
  <2>. QED
    BY <1>3, <1>4, <2>1 DEF Below
<1>. QED
  BY <1>5, <1>6, <1>7, <1>8, <1>9, <1>10 DEF RelayStep

Stamping == \E a \in Admins : admin[a] = "stamp"

\* The ways a step concerns the events and the switch.
LEMMA EventSteps ==
  ASSUME OutboxInv, [OutboxNext]_outboxVars
  PROVE  \/ /\ UNCHANGED <<relay, watermark, on, admin>>
            /\ \E z : /\ events' = Append(events, z)
                      /\ z.at \in {"open", "pending"}
                      /\ z.sawOff = ~on /\ z.amid = (on /\ Stamping)
         \/ /\ UNCHANGED <<relay, watermark, on, admin>>
            /\ \E e \in DOMAIN events, st \in {"pending", "gone"} :
                 events' = [events EXCEPT ![e].at = st]
         \/ SwitchOff
         \/ \E d \in Dispatchers : RelayStep(d) \/ Abort(d)
         \/ \E a \in Admins : Stamp(a)
         \/ /\ UNCHANGED <<events, relay, watermark>>
            /\ UNCHANGED <<on, admin>> \/ \E a \in Admins : CheckFlag(a) \/ SetFlag(a)
<1>. USE DEF switches
<1>1. CASE Emit
  <2>1. PICK k \in Kinds : events' = Append(events, NewEvent(k, "open", 0, {}, 0))
    BY <1>1 DEF Emit
  <2>2. LET z == NewEvent(k, "open", 0, {}, 0)
        IN z.at = "open" /\ z.sawOff = ~on /\ z.amid = (on /\ Stamping)
    BY DEF NewEvent, Stamping
  <2>. QED
    BY <1>1, <2>1, <2>2 DEF Emit
<1>2. CASE \E x \in runs : Reply(x)
  <2>1. PICK k, n, c, g : events' = Append(events, NewEvent(k, "pending", n, c, g))
    BY <1>2 DEF Reply
  <2>2. LET z == NewEvent(k, "pending", n, c, g)
        IN z.at = "pending" /\ z.sawOff = ~on /\ z.amid = (on /\ Stamping)
    BY DEF NewEvent, Stamping
  <2>. QED
    BY <1>2, <2>1, <2>2 DEF Reply
<1>3. CASE \E e \in DOMAIN events : EndMutation(e)
  BY <1>3 DEF EndMutation
<1>4. CASE \E x \in runs : EndRun(x) \/ Age(x)
  BY <1>4 DEF EndRun, Age
<1>5. CASE \E w \in Workflows : WindowCloses(w) \/ TripsExpire(w) \/ SetEnabled(w)
  BY <1>5 DEF WindowCloses, TripsExpire, SetEnabled, tables
<1>6. CASE SetPaused \/ \E a \in Admins : CheckFlag(a) \/ SetFlag(a)
  BY <1>6 DEF SetPaused, CheckFlag, SetFlag, tables
<1>7. CASE UNCHANGED outboxVars
  BY <1>7 DEF outboxVars
<1>. QED
  BY <1>1, <1>2, <1>3, <1>4, <1>5, <1>6, <1>7 DEF OutboxNext

\* What a commit and an abort write to the events.
LEMMA RelayWrites ==
  ASSUME OutboxInv, NEW d \in Dispatchers, RelayStep(d) \/ Abort(d)
  PROVE  /\ UNCHANGED <<on, admin, watermark>>
         /\ \/ events' = events
            \/ /\ DOMAIN events' = DOMAIN events
               /\ \A e \in DOMAIN events :
                    /\ events'[e].sawOff = events[e].sawOff
                    /\ events'[e].amid = events[e].amid
                    /\ events'[e].at = "skipped" => events[e].at = "skipped" \/ e \in relay[d].passed
<1>. USE DEF switches
<1>1. CASE Commit(d)
  <2>1. \A e \in DOMAIN events : events[e] \in Event
    BY DEF OutboxInv, EventsOK
  <2>2. /\ DOMAIN events' = DOMAIN events
        /\ \A e \in DOMAIN events : events'[e] =
             IF e \notin relay[d].marked THEN events[e]
             ELSE [events[e] EXCEPT !.at = IF e \in relay[d].passed THEN "skipped" ELSE "sent"]
    BY <1>1 DEF Commit
  <2>3. \A z \in Event, st \in Statuses :
          LET y == [z EXCEPT !.at = st]
          IN y.sawOff = z.sawOff /\ y.amid = z.amid /\ y.at = st
    BY ONLY DEF Event
  <2>4. \A e \in DOMAIN events :
          /\ events'[e].sawOff = events[e].sawOff /\ events'[e].amid = events[e].amid
          /\ events'[e].at = "skipped" => events[e].at = "skipped" \/ e \in relay[d].passed
    <3>1. SUFFICES ASSUME NEW e \in DOMAIN events
                   PROVE  /\ events'[e].sawOff = events[e].sawOff
                          /\ events'[e].amid = events[e].amid
                          /\ events'[e].at = "skipped" =>
                               events[e].at = "skipped" \/ e \in relay[d].passed
      OBVIOUS
    <3>. DEFINE st == IF e \in relay[d].passed THEN "skipped" ELSE "sent"
    <3>2. st \in Statuses /\ (st = "skipped" => e \in relay[d].passed)
      BY DEF Statuses
    <3>. HIDE DEF st
    <3>3. CASE e \in relay[d].marked
      <4>1. events'[e] = [events[e] EXCEPT !.at = st] /\ events[e] \in Event
        BY <2>1, <2>2, <3>3 DEF st
      <4>2. /\ events'[e].sawOff = events[e].sawOff /\ events'[e].amid = events[e].amid
            /\ events'[e].at = st
        BY ONLY <2>3, <3>2, <4>1
      <4>. QED
        BY <3>2, <4>2
    <3>4. CASE e \notin relay[d].marked
      BY <2>2, <3>4
    <3>. QED
      BY <3>3, <3>4
  <2>. QED
    BY <1>1, <2>2, <2>4 DEF Commit
<1>2. CASE ~Commit(d)
  BY <1>2 DEF RelayStep, ReadSwitches, Claim, Take, ClaimDue, Offer, Fire, Abort, tables
<1>. QED
  BY <1>1, <1>2

LEMMA WatermarkStep ==
  ASSUME OutboxInv, WatermarkInv, [OutboxNext]_outboxVars
  PROVE  WatermarkInv'
<1>1. /\ Len(events) \in Nat /\ DOMAIN events = 1 .. Len(events) /\ watermark \in Nat
      /\ \A e \in DOMAIN events : events[e] \in Event
      /\ events \in Seq(Event)
  BY DEF OutboxInv, EventsOK, SwitchesOK
<1>2. CASE UNCHANGED <<relay, watermark>>
           /\ \E z : events' = Append(events, z) /\ z.at \in {"open", "pending"}
  <2>1. PICK z : events' = Append(events, z) /\ z.at \in {"open", "pending"}
    BY <1>2
  <2>2. /\ Len(events') = Len(events) + 1 /\ DOMAIN events' = 1 .. Len(events) + 1
        /\ \A e \in DOMAIN events : events'[e] = events[e]
        /\ events'[Len(events) + 1] = z
    BY <1>1, <2>1
  <2>3. \A e \in DOMAIN events' : e \in DOMAIN events \/ e = Len(events) + 1
    BY <1>1, <2>2
  <2>. QED
    BY <1>1, <1>2, <2>1, <2>2, <2>3 DEF WatermarkInv
<1>3. CASE UNCHANGED <<relay, watermark>>
           /\ \E i \in DOMAIN events, st \in {"pending", "gone"} : events' = [events EXCEPT ![i].at = st]
  <2>1. PICK i \in DOMAIN events, st \in {"pending", "gone"} : events' = [events EXCEPT ![i].at = st]
    BY <1>3
  <2>2. DOMAIN events' = DOMAIN events /\ Len(events') = Len(events)
        /\ \A e \in DOMAIN events : events'[e].at = "skipped" => events[e].at = "skipped"
    BY <1>1, <2>1 DEF Event
  <2>. QED
    BY <1>3, <2>2 DEF WatermarkInv
<1>4. CASE SwitchOff
  <2>1. UNCHANGED <<relay, watermark>> /\ DOMAIN events' = DOMAIN events
        /\ events' = [e \in DOMAIN events |-> [events[e] EXCEPT !.sawOff = TRUE]]
    BY <1>4 DEF SwitchOff
  <2>2. \A z \in Event : [z EXCEPT !.sawOff = TRUE].at = z.at
    BY ONLY DEF Event
  <2>3. \A e \in DOMAIN events : events'[e].at = events[e].at
    BY <1>1, <2>1, <2>2
  <2>4. Len(events') = Len(events)
    BY <1>1, <2>1
  <2>. QED
    BY <2>1, <2>3, <2>4 DEF WatermarkInv
<1>5. ASSUME NEW d \in Dispatchers, RelayStep(d) \/ Abort(d) PROVE WatermarkInv'
  <2>1. /\ watermark' = watermark
        /\ \A o \in Dispatchers :
             relay'[o].watermark <= watermark /\ \A e \in relay'[o].passed : e < watermark
    BY <1>5, RelayBelowMark
  <2>2. \/ events' = events
        \/ /\ DOMAIN events' = DOMAIN events
           /\ \A e \in DOMAIN events :
                events'[e].at = "skipped" => events[e].at = "skipped" \/ e \in relay[d].passed
    BY <1>5, RelayWrites
  <2>3. Len(events') = Len(events)
    <3>1. events' \in Seq(Event)
      BY InvStep DEF OutboxInv, EventsOK
    <3>. QED
      BY <1>1, <2>2, <3>1
  <2>. QED
    BY <2>1, <2>2, <2>3 DEF WatermarkInv
<1>6. ASSUME NEW a \in Admins, Stamp(a) PROVE WatermarkInv'
  <2>1. watermark' = Len(events) + 1 /\ UNCHANGED <<events, relay>>
    BY <1>6 DEF Stamp, tables
  <2>2. \A d \in Dispatchers : relay[d].watermark \in Nat /\ relay[d].passed \in SUBSET Nat
    BY Unit DEF Transaction
  <2>. QED
    BY <1>1, <2>1, <2>2 DEF WatermarkInv
<1>7. CASE UNCHANGED <<events, relay, watermark>>
  BY <1>7 DEF WatermarkInv
<1>. QED
  BY <1>2, <1>3, <1>4, <1>5, <1>6, <1>7, EventSteps

LEMMA WatermarkInvariant == OutboxSpec => []WatermarkInv
<1>1. OutboxInit => WatermarkInv
  <2>1. ASSUME OutboxInit PROVE WatermarkInv
    <3>1. \A d \in Dispatchers : relay[d].watermark = 0 /\ relay[d].passed = {}
      BY <2>1 DEF OutboxInit, Idle
    <3>2. events = <<>> /\ watermark = 0
      BY <2>1 DEF OutboxInit
    <3>. QED
      BY <3>1, <3>2 DEF WatermarkInv
  <2>. QED
    BY <2>1
<1>. QED
  BY <1>1, WatermarkStep, OutboxInvariant, PTL DEF OutboxSpec

\* Events are fast-forwarded only if they are older than the last stamp.
THEOREM SkippedAreOld ==
  OutboxSpec => [](\A e \in DOMAIN events : events[e].at = "skipped" => e < watermark)
<1>1. WatermarkInv => \A e \in DOMAIN events : events[e].at = "skipped" => e < watermark
  BY DEF WatermarkInv
<1>. QED
  BY <1>1, WatermarkInvariant, PTL

\* While the engine is off every event has seen it off.  An administrator that
\* is to stamp found it off, so an event made since then, with the engine on,
\* was made amid the stamping: all the events there are will bear the stamp.
OffInv ==
  /\ admin \in [Admins -> {"idle", "stamp", "set"}]
  /\ \A e \in DOMAIN events :
       /\ ~on => events[e].sawOff
       /\ Stamping \/ e < watermark => events[e].sawOff \/ events[e].amid

LEMMA OffStep ==
  ASSUME OutboxInv, WatermarkInv, OffInv, [OutboxNext]_outboxVars
  PROVE  OffInv'
<1>1. /\ Len(events) \in Nat /\ DOMAIN events = 1 .. Len(events) /\ watermark \in Nat
      /\ \A e \in DOMAIN events : events[e] \in Event
      /\ events \in Seq(Event) /\ on \in BOOLEAN
  BY DEF OutboxInv, EventsOK, SwitchesOK
<1>2. CASE /\ UNCHANGED <<watermark, on, admin>>
           /\ \E z : /\ events' = Append(events, z)
                     /\ z.sawOff = ~on /\ z.amid = (on /\ Stamping)
  <2>1. PICK z : events' = Append(events, z) /\ z.sawOff = ~on /\ z.amid = (on /\ Stamping)
    BY <1>2
  <2>2. /\ DOMAIN events' = 1 .. Len(events) + 1
        /\ \A e \in DOMAIN events : events'[e] = events[e]
        /\ events'[Len(events) + 1] = z
    BY <1>1, <2>1
  <2>3. ~ (Len(events) + 1 < watermark)
    BY <1>1 DEF WatermarkInv
  <2>4. Stamping' = Stamping /\ on' = on /\ watermark' = watermark
    BY <1>2 DEF Stamping
  <2>5. ASSUME NEW e \in DOMAIN events'
        PROVE  /\ ~on => events'[e].sawOff
               /\ Stamping \/ e < watermark => events'[e].sawOff \/ events'[e].amid
    <3>1. CASE e \in DOMAIN events
      BY <2>2, <3>1 DEF OffInv
    <3>2. CASE e = Len(events) + 1
      BY <2>1, <2>2, <2>3, <3>2
    <3>. QED
      BY <1>1, <2>2, <3>1, <3>2
  <2>. QED
    BY <1>2, <2>4, <2>5 DEF OffInv
<1>3. CASE UNCHANGED <<watermark, on, admin>>
           /\ \E i \in DOMAIN events, st \in {"pending", "gone"} : events' = [events EXCEPT ![i].at = st]
  <2>1. PICK i \in DOMAIN events, st \in {"pending", "gone"} : events' = [events EXCEPT ![i].at = st]
    BY <1>3
  <2>2. \A z \in Event : LET y == [z EXCEPT !.at = st] IN y.sawOff = z.sawOff /\ y.amid = z.amid
    BY ONLY DEF Event
  <2>3. DOMAIN events' = DOMAIN events
        /\ \A e \in DOMAIN events :
             events'[e].sawOff = events[e].sawOff /\ events'[e].amid = events[e].amid
    BY <1>1, <2>1, <2>2
  <2>. QED
    BY <1>3, <2>3 DEF OffInv, Stamping
<1>4. CASE SwitchOff
  <2>1. UNCHANGED <<watermark, admin>> /\ DOMAIN events' = DOMAIN events /\ on' = FALSE
        /\ \A e \in DOMAIN events : events'[e] = [events[e] EXCEPT !.sawOff = TRUE]
    BY <1>4 DEF SwitchOff
  <2>2. \A z \in Event : [z EXCEPT !.sawOff = TRUE].sawOff = TRUE
    BY ONLY DEF Event
  <2>. QED
    BY <1>1, <2>1, <2>2 DEF OffInv
<1>5. ASSUME NEW d \in Dispatchers, RelayStep(d) \/ Abort(d) PROVE OffInv'
  <2>1. UNCHANGED <<on, admin, watermark>> /\ DOMAIN events' = DOMAIN events
        /\ \A e \in DOMAIN events :
             events'[e].sawOff = events[e].sawOff /\ events'[e].amid = events[e].amid
    BY <1>5, RelayWrites
  <2>. QED
    BY <2>1 DEF OffInv, Stamping
<1>6. ASSUME NEW a \in Admins, Stamp(a) PROVE OffInv'
  <2>1. UNCHANGED <<events, on>> /\ admin' = [admin EXCEPT ![a] = "set"] /\ admin[a] = "stamp"
    BY <1>6 DEF Stamp, tables
  <2>2. Stamping
    BY <2>1 DEF Stamping
  <2>. QED
    BY <2>1, <2>2 DEF OffInv
<1>7. ASSUME NEW a \in Admins, CheckFlag(a) PROVE OffInv'
  <2>1. UNCHANGED <<events, on, watermark>>
        /\ admin' = [admin EXCEPT ![a] = IF on THEN "set" ELSE "stamp"]
    BY <1>7 DEF CheckFlag, tables
  <2>2. admin' \in [Admins -> {"idle", "stamp", "set"}]
    BY <2>1 DEF OffInv
  <2>3. on => (Stamping' => Stamping)
    BY <2>1 DEF Stamping, OffInv
  <2>. QED
    BY <2>1, <2>2, <2>3 DEF OffInv
<1>8. ASSUME NEW a \in Admins, SetFlag(a) PROVE OffInv'
  <2>1. UNCHANGED <<events, watermark>> /\ on' = TRUE
        /\ admin' = [admin EXCEPT ![a] = "idle"]
    BY <1>8 DEF SetFlag, tables
  <2>2. admin' \in [Admins -> {"idle", "stamp", "set"}]
    BY <2>1 DEF OffInv
  <2>3. Stamping' => Stamping
    BY <2>1 DEF Stamping, OffInv
  <2>. QED
    BY <2>1, <2>2, <2>3 DEF OffInv
<1>9. CASE UNCHANGED <<events, watermark, on, admin>>
  BY <1>9 DEF OffInv, Stamping
<1>. QED
  BY <1>2, <1>3, <1>4, <1>5, <1>6, <1>7, <1>8, <1>9, EventSteps

\* An event is fast-forwarded past the workflows only if the engine was off at
\* some point of its life, or the event was made with the engine on while an
\* administrator that had found it off had yet to stamp: for any number of
\* administrators saving the flag at the same time (config_admin.rs).
THEOREM SkippedWhileOff == OutboxSpec => []OnlyUnsettledSkipped
<1>1. OutboxInit => OffInv
  BY DEF OutboxInit, OffInv
<1>2. OutboxInv /\ WatermarkInv /\ OffInv /\ [OutboxNext]_outboxVars => OffInv'
  BY OffStep
<1>3. WatermarkInv /\ OffInv => OnlyUnsettledSkipped
  BY DEF WatermarkInv, OffInv, OnlyUnsettledSkipped
<1>. QED
  BY <1>1, <1>2, <1>3, OutboxInvariant, WatermarkInvariant, PTL DEF OutboxSpec

-----------------------------------------------------------------------------
(* The rate cap.  A transaction sees what committed and its own runs, so it *)
(* alone stays below the cap; what the others hold open is at most a cap    *)
(* for each of them, and committing moves runs without making any.          *)

\* The union of finitely many sets of at most c members each.
LEMMA UnionBound ==
  ASSUME NEW D, IsFiniteSet(D), NEW c \in Nat, NEW M,
         \A d \in D : IsFiniteSet(M[d]) /\ Cardinality(M[d]) <= c
  PROVE  /\ IsFiniteSet(UNION {M[d] : d \in D})
         /\ Cardinality(UNION {M[d] : d \in D}) <= c * Cardinality(D)
<1>. DEFINE All(E) == UNION {M[d] : d \in E}
            Good(E) == IsFiniteSet(All(E)) /\ Cardinality(All(E)) <= c * Cardinality(E)
            Bad == {E \in SUBSET D : ~Good(E)}
            R == StrictSubsetOrdering(D)
<1>1. SUFFICES ASSUME Bad # {} PROVE FALSE
  <2>1. D \in SUBSET D
    OBVIOUS
  <2>. QED
    BY <2>1
<1>2. IsWellFoundedOn(R, SUBSET D)
  BY FS_StrictSubsetOrderingWellFounded, FS_FiniteSubsetsOfFinite
<1>3. PICK E \in Bad : \A F \in Bad : ~(<<F, E>> \in R)
  <2>. HIDE DEF R, Good
  <2>1. Bad \subseteq SUBSET D
    OBVIOUS
  <2>. HIDE DEF Bad
  <2>. QED
    BY <1>1, <1>2, <2>1, WFMin
<1>4. E \subseteq D /\ IsFiniteSet(E) /\ Cardinality(E) \in Nat
  BY <1>3, FS_Subset, FS_CardinalityType
<1>5. E # {}
  <2>1. All({}) = {} /\ IsFiniteSet({}) /\ Cardinality({}) = 0
    BY FS_EmptySet
  <2>2. Good({})
    BY <2>1
  <2>. QED
    BY <1>3, <2>2
<1>6. PICK d \in E : TRUE
  BY <1>5
<1>. DEFINE F == E \ {d}
<1>7. IsFiniteSet(F) /\ Cardinality(F) = Cardinality(E) - 1 /\ Cardinality(F) \in Nat
  BY <1>4, <1>6, FS_RemoveElement, FS_CardinalityType
<1>8. <<F, E>> \in R
  BY <1>4, <1>6 DEF StrictSubsetOrdering
<1>9. Good(F)
  <2>1. F \in SUBSET D
    BY <1>4
  <2>. HIDE DEF Good, R
  <2>. QED
    BY <1>3, <1>8, <2>1
<1>10. All(E) = All(F) \cup M[d]
  BY <1>6
<1>11. IsFiniteSet(M[d]) /\ Cardinality(M[d]) <= c /\ Cardinality(M[d]) \in Nat
  BY <1>4, <1>6, FS_CardinalityType
<1>12. IsFiniteSet(All(F)) /\ Cardinality(All(F)) <= c * Cardinality(F) /\ Cardinality(All(F)) \in Nat
  BY <1>9, FS_CardinalityType
<1>. HIDE DEF All, F
<1>13. IsFiniteSet(All(E)) /\ Cardinality(All(E)) <= Cardinality(All(F)) + Cardinality(M[d])
  <2>1. IsFiniteSet(All(F) \cap M[d]) /\ Cardinality(All(F) \cap M[d]) \in Nat
    BY <1>12, FS_Intersection, FS_CardinalityType
  <2>2. IsFiniteSet(All(F) \cup M[d]) /\ Cardinality(All(F) \cup M[d]) =
          Cardinality(All(F)) + Cardinality(M[d]) - Cardinality(All(F) \cap M[d])
    BY <1>11, <1>12, FS_Union
  <2>. QED
    BY <1>10, <1>11, <1>12, <2>1, <2>2
<1>14. c * Cardinality(F) + c = c * Cardinality(E)
  BY <1>4, <1>7
<1>15. c * Cardinality(F) \in Nat /\ c * Cardinality(E) \in Nat /\ Cardinality(All(E)) \in Nat
  BY <1>4, <1>7, <1>13, FS_CardinalityType
<1>16. Cardinality(All(E)) <= c * Cardinality(E)
  BY <1>11, <1>12, <1>13, <1>14, <1>15
<1>17. Good(E)
  BY <1>13, <1>16
<1>. QED
  BY <1>3, <1>17

\* One member more, and one for another.
LEMMA OneMore ==
  ASSUME NEW S, IsFiniteSet(S), NEW x, NEW T, T \subseteq S \cup {x}
  PROVE  IsFiniteSet(T) /\ Cardinality(T) \in Nat /\ Cardinality(T) <= Cardinality(S) + 1
<1>1. IsFiniteSet(S \cup {x}) /\ Cardinality(S \cup {x}) <= Cardinality(S) + 1
      /\ Cardinality(S) \in Nat /\ Cardinality(S \cup {x}) \in Nat
  BY FS_AddElement, FS_CardinalityType
<1>2. IsFiniteSet(T) /\ Cardinality(T) <= Cardinality(S \cup {x})
  BY <1>1, FS_Subset
<1>. QED
  BY <1>1, <1>2, FS_CardinalityType

LEMMA OneForAnother ==
  ASSUME NEW S, IsFiniteSet(S), NEW x \in S, NEW z, NEW T, T \subseteq (S \ {x}) \cup {z}
  PROVE  IsFiniteSet(T) /\ Cardinality(T) <= Cardinality(S)
<1>1. IsFiniteSet(S \ {x}) /\ Cardinality(S \ {x}) = Cardinality(S) - 1 /\ Cardinality(S) \in Nat
  BY FS_RemoveElement, FS_CardinalityType
<1>2. IsFiniteSet(T) /\ Cardinality(T) \in Nat /\ Cardinality(T) <= Cardinality(S \ {x}) + 1
  BY <1>1, OneMore
<1>. QED
  BY <1>1, <1>2

\* The runs of w the cap counts, those still uncommitted, and all of them.
InWindow(S, w) == {x \in S : x.wf = w /\ x.fresh}
Up == {d \in Dispatchers : relay[d].at # "down"}
Uncommitted(w) == UNION {InWindow(relay[d].made, w) : d \in Up}
Counted(w) == InWindow(runs, w) \cup Uncommitted(w)

CapInv ==
  /\ IsFiniteSet(Up) /\ IsFiniteSet(runs)
  /\ \A d \in Dispatchers : IsFiniteSet(relay[d].made)
  /\ \A w \in Workflows : Cap[w] > 0 =>
       /\ \A d \in Dispatchers : Cardinality(InWindow(relay[d].made, w)) <= Cap[w]
       /\ Cardinality(Counted(w)) <= Cap[w] * Cardinality(Up)

LEMMA CountedFinite ==
  ASSUME CapInv, NEW w
  PROVE  /\ IsFiniteSet(InWindow(runs, w)) /\ IsFiniteSet(Uncommitted(w)) /\ IsFiniteSet(Counted(w))
         /\ \A d \in Dispatchers : IsFiniteSet(InWindow(relay[d].made, w))
<1>1. \A d \in Dispatchers : IsFiniteSet(InWindow(relay[d].made, w))
  BY FS_Subset DEF CapInv, InWindow
<1>2. IsFiniteSet(InWindow(runs, w))
  BY FS_Subset DEF CapInv, InWindow
<1>3. IsFiniteSet(Uncommitted(w))
  <2>. DEFINE M == [d \in Up |-> InWindow(relay[d].made, w)]
              Blocks == {InWindow(relay[d].made, w) : d \in Up}
  <2>1. M \in Surjection(Up, Blocks)
    BY DEF Surjection
  <2>2. IsFiniteSet(Blocks)
    <3>. HIDE DEF M, Blocks
    <3>. QED
      BY <2>1, FS_Surjection DEF CapInv
  <2>3. \A S \in Blocks : IsFiniteSet(S)
    BY <1>1 DEF Up
  <2>. HIDE DEF Blocks
  <2>. QED
    BY <2>2, <2>3, FS_UNION DEF Uncommitted, Blocks
<1>4. IsFiniteSet(Counted(w))
  BY <1>2, <1>3, FS_Union DEF Counted
<1>. QED
  BY <1>1, <1>2, <1>3, <1>4

\* No run is committed and held open at the same time.
LEMMA MadeIsNew ==
  ASSUME OutboxInv, NEW d \in Dispatchers, NEW y \in relay[d].made, NEW x \in runs
  PROVE  x # y
<1>1. SUFFICES ASSUME x = y PROVE FALSE
  OBVIOUS
<1>2. x \in SomeRun /\ x.on # {} /\ \A e \in x.on : Sent(e)
  BY DEF OutboxInv, RunsOK, SomeRun, Batches, Handed
<1>3. CASE y.wf \notin Coalesced
  <2>1. PICK e : Pending(e) /\ y.on = {e}
    BY <1>3, MadeOf
  <2>. QED
    BY <1>1, <1>2, <2>1 DEF Sent, Pending
<1>4. CASE y.wf \in Coalesced
  <2>1. buckets[y.wf] # NoBucket /\ y.on = buckets[y.wf].on
    BY <1>4, MadeOf
  <2>2. x.on \cap buckets[x.wf].on = {}
    BY <1>1, <2>1 DEF OutboxInv, OncePerWorkflow
  <2>. QED
    BY <1>1, <1>2, <2>1, <2>2
<1>. QED
  BY <1>3, <1>4

\* Steps that move runs from a transaction to the table, or drop some.
LEMMA CapStays ==
  ASSUME CapInv, Up' = Up, IsFiniteSet(runs'),
         \A d \in Dispatchers : relay'[d].made \subseteq relay[d].made,
         \A w \in Workflows : InWindow(runs', w) \subseteq Counted(w)
  PROVE  CapInv'
<1>1. \A d \in Dispatchers : IsFiniteSet(relay'[d].made)
  BY FS_Subset DEF CapInv
<1>2. ASSUME NEW w \in Workflows, Cap[w] > 0
      PROVE  /\ \A d \in Dispatchers : Cardinality(InWindow(relay'[d].made, w)) <= Cap[w]
             /\ Cardinality(Counted(w)') <= Cap[w] * Cardinality(Up)
  <2>1. Cap[w] \in Nat /\ Cardinality(Up) \in Nat
    BY OutboxConstants, FS_CardinalityType DEF CapInv
  <2>2. \A d \in Dispatchers : InWindow(relay'[d].made, w) \subseteq InWindow(relay[d].made, w)
    BY DEF InWindow
  <2>3. \A d \in Dispatchers : Cardinality(InWindow(relay'[d].made, w)) <= Cap[w]
    <3>1. SUFFICES ASSUME NEW d \in Dispatchers
                   PROVE  Cardinality(InWindow(relay'[d].made, w)) <= Cap[w]
      OBVIOUS
    <3>2. IsFiniteSet(InWindow(relay[d].made, w))
      BY CountedFinite
    <3>3. /\ IsFiniteSet(InWindow(relay'[d].made, w))
          /\ Cardinality(InWindow(relay'[d].made, w)) <= Cardinality(InWindow(relay[d].made, w))
      BY <2>2, <3>2, FS_Subset
    <3>4. Cardinality(InWindow(relay[d].made, w)) <= Cap[w]
      BY <1>2 DEF CapInv
    <3>5. /\ Cardinality(InWindow(relay'[d].made, w)) \in Nat
          /\ Cardinality(InWindow(relay[d].made, w)) \in Nat
      BY <3>2, <3>3, FS_CardinalityType
    <3>. QED
      BY <2>1, <3>3, <3>4, <3>5
  <2>4. Counted(w)' \subseteq Counted(w)
    <3>1. \A d \in Up : InWindow(relay'[d].made, w) \subseteq Uncommitted(w)
      BY <2>2 DEF Uncommitted, Up
    <3>2. Uncommitted(w)' \subseteq Uncommitted(w)
      BY <3>1 DEF Uncommitted, InWindow
    <3>3. InWindow(runs, w)' \subseteq Counted(w)
      BY DEF InWindow
    <3>. QED
      BY <3>2, <3>3 DEF Counted
  <2>5. Cardinality(Counted(w)') <= Cardinality(Counted(w)) /\ Cardinality(Counted(w)') \in Nat
        /\ Cardinality(Counted(w)) \in Nat
    BY <2>4, CountedFinite, FS_Subset, FS_CardinalityType
  <2>6. Cardinality(Counted(w)) <= Cap[w] * Cardinality(Up)
    BY <1>2 DEF CapInv
  <2>. QED
    BY <2>1, <2>3, <2>5, <2>6
<1>. QED
  BY <1>1, <1>2 DEF CapInv, InWindow

\* A transaction makes one more run, below the cap as it sees it.
LEMMA CapMakes ==
  ASSUME OutboxInv, CapInv, NEW d \in Dispatchers, NEW w \in Workflows, NEW x, x.wf = w,
         ~OverRate(relay[d], w), d \in Up, Up' = Up, UNCHANGED runs,
         relay'[d].made = relay[d].made \cup {x},
         \A o \in Dispatchers \ {d} : relay'[o].made = relay[o].made
  PROVE  CapInv'
<1>1. \A o \in Dispatchers : IsFiniteSet(relay'[o].made)
  <2>1. IsFiniteSet(relay[d].made \cup {x})
    BY FS_AddElement DEF CapInv
  <2>. QED
    BY <2>1 DEF CapInv
<1>2. ASSUME NEW v \in Workflows, Cap[v] > 0
      PROVE  /\ \A o \in Dispatchers : Cardinality(InWindow(relay'[o].made, v)) <= Cap[v]
             /\ Cardinality(Counted(v)') <= Cap[v] * Cardinality(Up)
  <2>1. Cap[v] \in Nat /\ Cardinality(Up) \in Nat
    BY OutboxConstants, FS_CardinalityType DEF CapInv
  <2>2. CASE v # w
    <3>1. \A o \in Dispatchers : InWindow(relay'[o].made, v) = InWindow(relay[o].made, v)
      BY <2>2 DEF InWindow
    <3>2. Counted(v)' = Counted(v)
      <4>1. Uncommitted(v)' = Uncommitted(v)
        BY <3>1 DEF Uncommitted, Up, InWindow
      <4>. QED
        BY <4>1 DEF Counted, InWindow
    <3>. QED
      BY <1>2, <3>1, <3>2 DEF CapInv
  <2>3. CASE v = w
    <3>. DEFINE seen == InWindow(runs \cup relay[d].made, w)
                mine == InWindow(runs \cup relay'[d].made, w)
                M == [o \in Up \ {d} |-> InWindow(relay[o].made, w)]
                others == UNION {M[o] : o \in Up \ {d}}
    <3>1. IsFiniteSet(seen) /\ Cardinality(seen) \in Nat /\ Cardinality(seen) < Cap[w]
      <4>1. IsFiniteSet(runs \cup relay[d].made)
        BY FS_Union DEF CapInv
      <4>2. IsFiniteSet(seen)
        BY <4>1, FS_Subset DEF InWindow
      <4>3. Cardinality(seen) = Recent(relay[d], w)
        BY DEF Recent, InWindow
      <4>. QED
        BY <1>2, <2>1, <2>3, <4>2, <4>3, FS_CardinalityType DEF OverRate
    <3>2. mine \subseteq seen \cup {x}
      BY DEF InWindow
    <3>3. IsFiniteSet(mine) /\ Cardinality(mine) \in Nat /\ Cardinality(mine) <= Cap[w]
      <4>. HIDE DEF seen, mine
      <4>1. IsFiniteSet(mine) /\ Cardinality(mine) \in Nat /\ Cardinality(mine) <= Cardinality(seen) + 1
        BY <3>1, <3>2, OneMore
      <4>. QED
        BY <2>1, <2>3, <3>1, <4>1
    <3>4. \A o \in Dispatchers : Cardinality(InWindow(relay'[o].made, w)) <= Cap[w]
      <4>1. InWindow(relay'[d].made, w) \subseteq mine
        BY DEF InWindow
      <4>2. Cardinality(InWindow(relay'[d].made, w)) <= Cap[w]
        <5>. HIDE DEF mine
        <5>1. IsFiniteSet(InWindow(relay'[d].made, w))
              /\ Cardinality(InWindow(relay'[d].made, w)) <= Cardinality(mine)
          BY <3>3, <4>1, FS_Subset
        <5>2. Cardinality(InWindow(relay'[d].made, w)) \in Nat
          BY <5>1, FS_CardinalityType
        <5>. QED
          BY <2>1, <2>3, <3>3, <5>1, <5>2
      <4>3. \A o \in Dispatchers \ {d} : Cardinality(InWindow(relay'[o].made, w)) <= Cap[w]
        BY <1>2, <2>3 DEF CapInv
      <4>. QED
        BY <4>2, <4>3
    <3>5. IsFiniteSet(Up \ {d}) /\ Cardinality(Up \ {d}) = Cardinality(Up) - 1
          /\ Cardinality(Up \ {d}) \in Nat
      BY FS_RemoveElement, FS_CardinalityType DEF CapInv
    <3>6. \A o \in Up \ {d} : IsFiniteSet(M[o]) /\ Cardinality(M[o]) <= Cap[w]
      BY <1>2, <2>3, CountedFinite DEF CapInv, Up
    <3>7. IsFiniteSet(others) /\ Cardinality(others) <= Cap[w] * Cardinality(Up \ {d})
      <4>. HIDE DEF M
      <4>. QED
        BY <2>1, <2>3, <3>5, <3>6, UnionBound
    <3>8. Counted(w)' \subseteq mine \cup others
      <4>1. InWindow(runs, w)' \subseteq mine
        BY DEF InWindow
      <4>2. Uncommitted(w)' \subseteq mine \cup others
        <5>1. SUFFICES ASSUME NEW o \in Up, NEW y \in InWindow(relay'[o].made, w)
                       PROVE  y \in mine \cup others
          BY DEF Uncommitted, InWindow
        <5>2. CASE o = d
          BY <5>1, <5>2 DEF InWindow
        <5>3. CASE o # d
          <6>1. y \in M[o] /\ o \in Up \ {d}
            BY <5>1, <5>3 DEF Up
          <6>. HIDE DEF M
          <6>. QED
            BY <6>1
        <5>. QED
          BY <5>2, <5>3
      <4>. HIDE DEF mine, others
      <4>. QED
        BY <4>1, <4>2 DEF Counted
    <3>. HIDE DEF mine, others, seen
    <3>9. Cardinality(others) \in Nat /\ IsFiniteSet(mine \cup others)
          /\ Cardinality(mine \cup others) \in Nat
          /\ Cardinality(mine \cup others) <= Cardinality(mine) + Cardinality(others)
      <4>1. IsFiniteSet(mine \cap others)
        BY <3>3, FS_Intersection
      <4>2. Cardinality(mine \cap others) \in Nat
        BY <4>1, FS_CardinalityType
      <4>3. Cardinality(others) \in Nat
        BY <3>7, FS_CardinalityType
      <4>4. IsFiniteSet(mine \cup others) /\ Cardinality(mine \cup others)
              = Cardinality(mine) + Cardinality(others) - Cardinality(mine \cap others)
        BY <3>3, <3>7, FS_Union
      <4>. QED
        BY <3>3, <4>2, <4>3, <4>4, FS_CardinalityType
    <3>10. Cap[w] + Cap[w] * Cardinality(Up \ {d}) = Cap[w] * Cardinality(Up)
      BY <2>1, <2>3, <3>5
    <3>11. Cardinality(Counted(w)') <= Cardinality(mine \cup others)
           /\ Cardinality(Counted(w)') \in Nat
      <4>1. IsFiniteSet(Counted(w)') /\ Cardinality(Counted(w)') <= Cardinality(mine \cup others)
        BY <3>8, <3>9, FS_Subset
      <4>. QED
        BY <4>1, FS_CardinalityType
    <3>12. Cap[w] * Cardinality(Up \ {d}) \in Nat /\ Cap[w] * Cardinality(Up) \in Nat
      BY <2>1, <2>3, <3>5
    <3>13. Cardinality(Counted(w)') <= Cap[w] * Cardinality(Up)
      BY <2>1, <2>3, <3>3, <3>7, <3>9, <3>10, <3>11, <3>12
    <3>. QED
      BY <2>3, <3>4, <3>13
  <2>. QED
    BY <2>2, <2>3
<1>. QED
  BY <1>1, <1>2 DEF CapInv, InWindow

\* A run of the table ends, or leaves the window.
LEMMA CapEnds ==
  ASSUME OutboxInv, CapInv, UNCHANGED relay, NEW x \in runs, NEW z,
         z.wf = x.wf, z.fresh => x.fresh, runs' = (runs \ {x}) \cup {z}
  PROVE  CapInv'
<1>1. IsFiniteSet(runs')
  BY FS_RemoveElement, FS_AddElement DEF CapInv
<1>2. Up' = Up
  BY DEF Up
<1>3. ASSUME NEW w \in Workflows, Cap[w] > 0
      PROVE  Cardinality(Counted(w)') <= Cap[w] * Cardinality(Up)
  <2>1. Cap[w] \in Nat /\ Cardinality(Up) \in Nat
    BY OutboxConstants, FS_CardinalityType DEF CapInv
  <2>2. IsFiniteSet(Counted(w)) /\ Cardinality(Counted(w)) \in Nat
        /\ Cardinality(Counted(w)) <= Cap[w] * Cardinality(Up)
    BY <1>3, CountedFinite, FS_CardinalityType DEF CapInv
  <2>3. Uncommitted(w)' = Uncommitted(w)
    BY <1>2 DEF Uncommitted, InWindow
  <2>4. CASE x.wf = w /\ x.fresh
    <3>1. x \notin Uncommitted(w)
      BY MadeIsNew DEF Uncommitted, InWindow, Up
    <3>2. x \in Counted(w)
      BY <2>4 DEF Counted, InWindow
    <3>3. Counted(w)' \subseteq (Counted(w) \ {x}) \cup {z}
      BY <2>3, <3>1 DEF Counted, InWindow
    <3>4. IsFiniteSet(Counted(w)') /\ Cardinality(Counted(w)') <= Cardinality(Counted(w))
      BY <2>2, <3>2, <3>3, OneForAnother
    <3>5. Cardinality(Counted(w)') \in Nat
      BY <3>4, FS_CardinalityType
    <3>. QED
      BY <2>1, <2>2, <3>4, <3>5
  <2>5. CASE ~(x.wf = w /\ x.fresh)
    <3>1. Counted(w)' \subseteq Counted(w)
      BY <2>3, <2>5 DEF Counted, InWindow
    <3>2. IsFiniteSet(Counted(w)') /\ Cardinality(Counted(w)') <= Cardinality(Counted(w))
      BY <2>2, <3>1, FS_Subset
    <3>3. Cardinality(Counted(w)') \in Nat
      BY <3>2, FS_CardinalityType
    <3>. QED
      BY <2>1, <2>2, <3>2, <3>3
  <2>. QED
    BY <2>4, <2>5
<1>. QED
  BY <1>1, <1>2, <1>3 DEF CapInv, InWindow

LEMMA CapStep ==
  ASSUME OutboxInv, CapInv, [OutboxNext]_outboxVars
  PROVE  CapInv'
<1>. DEFINE Still == Up' = Up /\ \A d \in Dispatchers : relay'[d].made \subseteq relay[d].made
<1>1. \A w \in Workflows : InWindow(runs, w) \subseteq Counted(w)
  BY DEF Counted
<1>2. CASE UNCHANGED <<runs, relay>>
  <2>1. Up' = Up
    BY <1>2 DEF Up
  <2>. QED
    BY <1>1, <1>2, <2>1, CapStays DEF CapInv
<1>3. ASSUME NEW x \in runs, EndRun(x) \/ Reply(x) \/ Age(x) PROVE CapInv'
  <2>1. x \in SomeRun
    BY DEF OutboxInv, RunsOK
  <2>2. /\ [x EXCEPT !.at = "done"].wf = x.wf /\ [x EXCEPT !.at = "done"].fresh = x.fresh
        /\ [x EXCEPT !.fresh = FALSE].wf = x.wf /\ [x EXCEPT !.fresh = FALSE].fresh = FALSE
    BY <2>1 DEF SomeRun
  <2>3. UNCHANGED relay
    BY <1>3 DEF EndRun, Reply, Age
  <2>4. CASE EndRun(x) \/ Reply(x)
    <3>1. runs' = (runs \ {x}) \cup {[x EXCEPT !.at = "done"]}
      BY <2>4 DEF EndRun, Reply
    <3>. QED
      BY <2>2, <2>3, <3>1, CapEnds
  <2>5. CASE Age(x)
    <3>1. runs' = (runs \ {x}) \cup {[x EXCEPT !.fresh = FALSE]}
      BY <2>5 DEF Age
    <3>. QED
      BY <2>2, <2>3, <3>1, CapEnds
  <2>. QED
    BY <1>3, <2>4, <2>5
<1>4. ASSUME NEW d \in Dispatchers, NEW q \in Transaction,
             relay' = [relay EXCEPT ![d] = q], q.at # "down", relay[d].at # "down"
      PROVE  /\ Up' = Up /\ d \in Up /\ relay'[d] = q
             /\ \A o \in Dispatchers \ {d} : relay'[o] = relay[o]
  <2>1. relay'[d] = q /\ \A o \in Dispatchers \ {d} : relay'[o] = relay[o]
    BY <1>4 DEF OutboxInv, RelayOK
  <2>. QED
    BY <1>4, <2>1 DEF Up
<1>5. ASSUME NEW d \in Dispatchers, NEW q \in Transaction,
             relay' = [relay EXCEPT ![d] = q], q.at # "down", relay[d].at # "down",
             q.made \subseteq relay[d].made, UNCHANGED runs
      PROVE  CapInv'
  <2>1. Up' = Up /\ \A o \in Dispatchers : relay'[o].made \subseteq relay[o].made
    BY <1>4, <1>5
  <2>. QED
    BY <1>1, <1>5, <2>1, CapStays DEF CapInv
<1>6. watermark \in Nat
  BY DEF OutboxInv, SwitchesOK
<1>7. ASSUME NEW d \in Dispatchers, ReadSwitches(d) \/ Abort(d) PROVE CapInv'
  <2>1. relay[d].at # "down" /\ UNCHANGED runs
    BY <1>7 DEF ReadSwitches, Idling, Abort, tables
  <2>2. relay' = [relay EXCEPT ![d] = Idle]
        \/ relay' = [relay EXCEPT ![d] = [Idle EXCEPT !.at = "read", !.watermark = watermark]]
    BY <1>7 DEF ReadSwitches, Abort
  <2>3. \A r \in {Idle, [Idle EXCEPT !.at = "read", !.watermark = watermark]} :
          r \in Transaction /\ r.at # "down" /\ r.made = {}
    BY <1>6, IdleRecord
  <2>. QED
    BY <1>5, <2>1, <2>2, <2>3
<1>8. ASSUME NEW d \in Dispatchers, Claim(d) \/ Take(d) PROVE CapInv'
  <2>1. relay[d].at # "down" /\ UNCHANGED runs /\ relay[d] \in Transaction
    BY <1>8, Unit DEF Claim, Take, tables
  <2>2. Idle \in Transaction /\ Idle.at = "idle" /\ Idle.made = {}
    BY <1>6, IdleRecord DEF Idle
  <2>3. \E q : relay' = [relay EXCEPT ![d] = q] /\ (q.at = "idle" \/ q.at = "walk")
                 /\ q.made \subseteq relay[d].made
    <3>1. CASE Claim(d)
      <4>. DEFINE batch == Oldest(Undispatched)
                  old == {e \in batch : e < relay[d].watermark}
                  q == [relay[d] EXCEPT !.at = "walk", !.left = batch \ old,
                                        !.marked = old, !.passed = old]
      <4>1. relay' = [relay EXCEPT ![d] = Idle] \/ relay' = [relay EXCEPT ![d] = q]
        BY <3>1 DEF Claim
      <4>2. q.at = "walk" /\ q.made = relay[d].made
        <5>. HIDE DEF batch, old
        <5>. QED
          BY <2>1 DEF Transaction
      <4>. HIDE DEF q
      <4>. QED
        BY <2>2, <4>1, <4>2
    <3>2. CASE Take(d)
      <4>. DEFINE e == Min(relay[d].left)
                  S == {w \in events[e].to : enabled[w]} \ relay[d].off
                  q == [relay[d] EXCEPT !.cur = e, !.left = @ \ {e}, !.marked = @ \cup {e},
                                        !.todo = S]
      <4>1. relay' = [relay EXCEPT ![d] = q]
        BY <2>1, <3>2 DEF Take, Transaction, OutboxInv, RelayOK
      <4>2. q.at = relay[d].at /\ q.made = relay[d].made /\ relay[d].at = "walk"
        <5>. HIDE DEF e, S
        <5>. QED
          BY <2>1, <3>2 DEF Transaction, Take
      <4>. HIDE DEF q
      <4>. QED
        BY <4>1, <4>2
    <3>. QED
      BY <1>8, <3>1, <3>2
  <2>4. PICK q : relay' = [relay EXCEPT ![d] = q] /\ (q.at = "idle" \/ q.at = "walk")
                   /\ q.made \subseteq relay[d].made
    BY <2>3
  <2>5. q \in Transaction
    <3>1. OutboxInv'
      BY <1>8, ClaimStep, TakeStep
    <3>2. relay'[d] = q
      BY <2>4 DEF OutboxInv, RelayOK
    <3>. QED
      BY <3>1, <3>2 DEF OutboxInv, RelayOK
  <2>. QED
    BY <1>5, <2>1, <2>4, <2>5
<1>9. ASSUME NEW d \in Dispatchers, NEW w \in Workflows, Offer(d, w) \/ Fire(d, w) PROVE CapInv'
  <2>1. relay[d].at # "down" /\ UNCHANGED runs
    <3>1. UNCHANGED tables
      BY <1>9 DEF Offer, Fire
    <3>. QED
      BY <1>9, <3>1 DEF Offer, Fire, tables
  <2>2. PICK q \in Transaction :
          relay' = [relay EXCEPT ![d] = q] /\ Alike(q, relay[d]) /\ Makes(q, relay[d], w)
    BY <1>9, OffersMake
  <2>3. q.at # "down"
    BY <2>1, <2>2 DEF Alike
  <2>4. CASE q.made = relay[d].made
    BY <1>5, <2>1, <2>2, <2>3, <2>4
  <2>5. CASE ~OverRate(relay[d], w) /\ \E x \in SomeRun : x.wf = w /\ q.made = relay[d].made \cup {x}
    <3>1. PICK x \in SomeRun : x.wf = w /\ q.made = relay[d].made \cup {x}
      BY <2>5
    <3>2. /\ Up' = Up /\ d \in Up /\ relay'[d] = q
          /\ \A o \in Dispatchers \ {d} : relay'[o] = relay[o]
      BY <1>4, <2>1, <2>2, <2>3
    <3>. QED
      BY <2>1, <2>5, <3>1, <3>2, CapMakes
  <2>. QED
    BY <2>2, <2>4, <2>5 DEF Makes
<1>10. ASSUME NEW d \in Dispatchers, ClaimDue(d) PROVE CapInv'
  <2>1. relay[d].at # "down" /\ UNCHANGED runs
    BY <1>10 DEF ClaimDue, tables
  <2>. DEFINE due == {w \in Workflows : buckets[w] # NoBucket /\ buckets[w].due /\ BucketFree(d, w)}
              H == [w \in due |-> buckets[w]]
              q == [Idle EXCEPT !.at = "fire", !.todo = due, !.held = H]
  <2>2. relay' = [relay EXCEPT ![d] = q]
    BY <1>10 DEF ClaimDue
  <2>3. q.at = "fire" /\ q.made = {}
    <3>. HIDE DEF due, H
    <3>. QED
      BY DEF Idle
  <2>. HIDE DEF q
  <2>4. q \in Transaction
    <3>1. OutboxInv'
      BY <1>10, ClaimDueStep
    <3>2. relay'[d] = q
      BY <2>2 DEF OutboxInv, RelayOK
    <3>. QED
      BY <3>1, <3>2 DEF OutboxInv, RelayOK
  <2>. QED
    BY <1>5, <2>1, <2>2, <2>3, <2>4
<1>11. ASSUME NEW d \in Dispatchers, Commit(d) PROVE CapInv'
  <2>1. relay[d].at # "down" /\ runs' = runs \cup relay[d].made
        /\ relay' = [relay EXCEPT ![d] = Idle]
    BY <1>11 DEF Commit
  <2>2. Idle \in Transaction /\ Idle.at = "idle" /\ Idle.made = {}
    BY <1>6, IdleRecord DEF Idle
  <2>3. /\ Up' = Up /\ d \in Up /\ relay'[d] = Idle
        /\ \A o \in Dispatchers \ {d} : relay'[o] = relay[o]
    BY <1>4, <2>1, <2>2
  <2>4. IsFiniteSet(runs')
    BY <2>1, FS_Union DEF CapInv
  <2>5. \A o \in Dispatchers : relay'[o].made \subseteq relay[o].made
    BY <2>2, <2>3
  <2>6. \A w \in Workflows : InWindow(runs', w) \subseteq Counted(w)
    BY <2>1, <2>3 DEF Counted, Uncommitted, InWindow
  <2>. QED
    BY <2>3, <2>4, <2>5, <2>6, CapStays
<1>12. CASE \/ Emit \/ SwitchOff \/ SetPaused
            \/ \E e \in DOMAIN events : EndMutation(e)
            \/ \E w \in Workflows : WindowCloses(w) \/ TripsExpire(w) \/ SetEnabled(w)
            \/ \E a \in Admins : CheckFlag(a) \/ Stamp(a) \/ SetFlag(a)
            \/ UNCHANGED outboxVars
  BY <1>2, <1>12 DEF Emit, SwitchOff, SetPaused, EndMutation, WindowCloses, TripsExpire,
         SetEnabled, CheckFlag, Stamp, SetFlag, outboxVars, tables
<1>. QED
  BY <1>3, <1>7, <1>8, <1>9, <1>10, <1>11, <1>12 DEF OutboxNext, RelayStep

\* Dispatchers do not see each other's uncommitted runs, so the rate cap is
\* exceeded, but never by more than a cap for each that runs.
THEOREM OverrunIsBounded == OutboxSpec => []CapOverrun
<1>1. OutboxInit => CapInv
  <2>1. SUFFICES ASSUME OutboxInit PROVE CapInv
    OBVIOUS
  <2>2. PICK up \in Deployments :
          relay = [d \in Dispatchers |-> IF d \in up THEN Idle ELSE [Idle EXCEPT !.at = "down"]]
    BY <2>1 DEF OutboxInit
  <2>3. \A d \in Dispatchers : relay[d].made = {} /\ (relay[d].at # "down" <=> d \in up)
    BY <2>2 DEF Idle
  <2>4. Up = up /\ IsFiniteSet(Up)
    <3>1. up \subseteq Dispatchers /\ IsFiniteSet(up)
      BY OutboxConstants
    <3>2. Up = up
      BY <2>3, <3>1 DEF Up
    <3>. QED
      BY <3>1, <3>2
  <2>5. runs = {} /\ IsFiniteSet({}) /\ Cardinality({}) = 0
    BY <2>1, FS_EmptySet DEF OutboxInit
  <2>6. \A w \in Workflows : Counted(w) = {} /\ \A d \in Dispatchers : InWindow(relay[d].made, w) = {}
    BY <2>3, <2>5 DEF Counted, Uncommitted, InWindow, Up
  <2>7. \A w \in Workflows : 0 <= Cap[w] /\ 0 <= Cap[w] * Cardinality(Up)
    <3>1. Cardinality(Up) \in Nat /\ \A w \in Workflows : Cap[w] \in Nat
      BY <2>4, FS_CardinalityType, OutboxConstants
    <3>. QED
      BY <3>1
  <2>8. \A w \in Workflows :
          /\ \A d \in Dispatchers : Cardinality(InWindow(relay[d].made, w)) <= Cap[w]
          /\ Cardinality(Counted(w)) <= Cap[w] * Cardinality(Up)
    BY <2>5, <2>6, <2>7
  <2>9. IsFiniteSet(runs) /\ \A d \in Dispatchers : IsFiniteSet(relay[d].made)
    BY <2>3, <2>5
  <2>. QED
    BY <2>4, <2>8, <2>9 DEF CapInv
<1>2. CapInv => CapOverrun
  <2>1. SUFFICES ASSUME CapInv, NEW w \in Workflows, Cap[w] > 0
                 PROVE  Cardinality(InWindow(runs, w)) <= Cap[w] * Cardinality(Up)
    BY DEF CapOverrun, InWindow, Up
  <2>2. InWindow(runs, w) \subseteq Counted(w)
    BY DEF Counted
  <2>3. /\ IsFiniteSet(InWindow(runs, w))
        /\ Cardinality(InWindow(runs, w)) <= Cardinality(Counted(w))
        /\ Cardinality(InWindow(runs, w)) \in Nat /\ Cardinality(Counted(w)) \in Nat
    BY <2>1, <2>2, CountedFinite, FS_Subset, FS_CardinalityType
  <2>4. Cardinality(Counted(w)) <= Cap[w] * Cardinality(Up)
    BY <2>1 DEF CapInv
  <2>5. Cap[w] * Cardinality(Up) \in Nat
    <3>1. Cap[w] \in Nat /\ Cardinality(Up) \in Nat
      BY <2>1, OutboxConstants, FS_CardinalityType DEF CapInv
    <3>. QED
      BY <3>1
  <2>. QED
    BY <2>3, <2>4, <2>5
<1>. QED
  BY <1>1, <1>2, CapStep, OutboxInvariant, PTL DEF OutboxSpec

-----------------------------------------------------------------------------
(* Types, and the depth that is recorded: nothing in a run or a bucket is  *)
(* as deep as the limit, so nothing that comes of it is deeper.            *)

Shallow(b) ==
  /\ b.depth < MaxDepth
  /\ \A e \in b.on : e \in DOMAIN events /\ events[e].depth < MaxDepth

ShallowUnit(r) ==
  /\ \A x \in r.made : Shallow(x)
  /\ \A w \in DOMAIN r.held : r.held[w] # NoBucket => Shallow(r.held[w])

DepthInv ==
  /\ \A e \in DOMAIN events : events[e].depth <= MaxDepth
  /\ \A x \in runs : Shallow(x)
  /\ \A w \in Workflows : buckets[w] # NoBucket => Shallow(buckets[w])
  /\ \A d \in Dispatchers : ShallowUnit(relay[d])

\* Old events keep their depth, and new ones are not too deep.
LEMMA DepthStays ==
  ASSUME DepthInv, DOMAIN events \subseteq DOMAIN events',
         \A e \in DOMAIN events : events'[e].depth = events[e].depth,
         \A e \in DOMAIN events' \ DOMAIN events : events'[e].depth <= MaxDepth,
         \A x \in runs' : Shallow(x),
         \A w \in Workflows : buckets'[w] # NoBucket => Shallow(buckets'[w]),
         \A d \in Dispatchers : ShallowUnit(relay'[d])
  PROVE  DepthInv'
<1>1. ASSUME NEW b, Shallow(b)
      PROVE  b.depth < MaxDepth /\ \A e \in b.on : e \in DOMAIN events' /\ events'[e].depth < MaxDepth
  BY <1>1 DEF Shallow
<1>2. \A e \in DOMAIN events' : events'[e].depth <= MaxDepth
  BY DEF DepthInv
<1>3. \A x \in runs' : Shallow(x)'
  BY <1>1 DEF Shallow
<1>4. \A w \in Workflows : buckets'[w] # NoBucket => Shallow(buckets[w])'
  BY <1>1 DEF Shallow
<1>5. ASSUME NEW d \in Dispatchers PROVE ShallowUnit(relay[d])'
  BY <1>1 DEF ShallowUnit, Shallow
<1>. QED
  BY <1>2, <1>3, <1>4, <1>5 DEF DepthInv

\* A step of one dispatcher that touches no table.
LEMMA DepthMoves ==
  ASSUME OutboxInv, DepthInv, NEW d \in Dispatchers, NEW q, relay' = [relay EXCEPT ![d] = q],
         ShallowUnit(q), UNCHANGED <<events, runs, buckets>>
  PROVE  DepthInv'
<1>1. \A o \in Dispatchers : relay'[o] = IF o = d THEN q ELSE relay[o]
  BY DEF OutboxInv, RelayOK
<1>2. \A o \in Dispatchers : ShallowUnit(relay'[o])
  BY <1>1 DEF DepthInv
<1>. QED
  BY <1>2, DepthStays DEF DepthInv

\* A run of a batch that is shallow is.
LEMMA DepthCreates ==
  ASSUME OutboxInv, DepthInv, NEW d \in Dispatchers, NEW r \in Transaction, NEW w \in Workflows,
         NEW batch \in Batches, NEW depth \in Nat, CreateRun(d, r, w, batch, depth),
         ShallowUnit(r), depth < MaxDepth,
         \A e \in batch : e \in DOMAIN events /\ events[e].depth < MaxDepth,
         UNCHANGED <<events, runs, buckets>>
  PROVE  DepthInv'
<1>1. PICK q \in Transaction :
         /\ relay' = [relay EXCEPT ![d] = q] /\ q.held = r.held
         /\ q.made = r.made \/ q.made = r.made \cup {NewRun(w, batch, depth)}
  BY CreateRunGives
<1>2. Shallow(NewRun(w, batch, depth))
  BY DEF Shallow, NewRun
<1>3. ShallowUnit(q)
  BY <1>1, <1>2 DEF ShallowUnit
<1>. QED
  BY <1>1, <1>3, DepthMoves

LEMMA DepthOffers ==
  ASSUME OutboxInv, DepthInv, NEW d \in Dispatchers, NEW w \in Workflows, Offer(d, w)
  PROVE  DepthInv'
<1>. DEFINE old == relay[d]
            e == old.cur
            r == [old EXCEPT !.todo = @ \ {w}]
<1>1. old \in Transaction /\ Consistent(old) /\ ShallowUnit(old)
  BY Unit DEF DepthInv
<1>2. UNCHANGED <<events, runs, buckets>>
  BY DEF Offer, tables
<1>3. r \in Transaction /\ r.made = old.made /\ r.held = old.held /\ ShallowUnit(r)
  <2>1. old.todo \ {w} \in SUBSET Workflows
    BY <1>1 DEF Transaction
  <2>2. r \in Transaction /\ r.made = old.made /\ r.held = old.held
    BY <1>1, <2>1, TodoSet DEF Transaction
  <2>. QED
    BY <1>1, <2>2 DEF ShallowUnit
<1>4. e \in DOMAIN events /\ e \in Nat
  BY <1>1 DEF Offer, Consistent, Transaction, Pending
<1>5. events[e].depth \in Nat /\ {e} \in Batches
  <2>. HIDE DEF e
  <2>1. events[e] \in Event
    BY <1>4 DEF OutboxInv, EventsOK
  <2>. QED
    BY <1>4, <2>1 DEF Event, Batches
<1>6. \/ relay' = [relay EXCEPT ![d] = r]
      \/ /\ Fires(w, e)
         /\ \/ relay' = [relay EXCEPT ![d] = Put(r, w, Buffered(Seen(r, w), e))]
            \/ CreateRun(d, r, w, {e}, events[e].depth)
  BY DEF Offer
<1>7. Fires(w, e) => events[e].depth < MaxDepth
  BY DEF Fires
<1>. HIDE DEF r, old, e
<1>8. CASE relay' = [relay EXCEPT ![d] = r]
  BY <1>2, <1>3, <1>8, DepthMoves
<1>9. CASE Fires(w, e) /\ CreateRun(d, r, w, {e}, events[e].depth)
  BY <1>2, <1>3, <1>4, <1>5, <1>7, <1>9, DepthCreates
<1>10. CASE Fires(w, e) /\ relay' = [relay EXCEPT ![d] = Put(r, w, Buffered(Seen(r, w), e))]
  <2>. DEFINE b == Seen(r, w)
              q == Put(r, w, Buffered(b, e))
  <2>1. b \in Bucket \cup {NoBucket} /\ (b # NoBucket => Shallow(b))
    BY <1>3 DEF Seen, Transaction, Rows, OutboxInv, BucketsOK, DepthInv, ShallowUnit
  <2>. HIDE DEF b
  <2>2. Buffered(b, e) \in Bucket
    BY <1>4, <1>5, <2>1, BufferedIsBucket
  <2>3. Shallow(Buffered(b, e))
    <3>1. CASE b = NoBucket
      BY <1>4, <1>7, <1>10, <3>1 DEF Buffered, Shallow
    <3>2. CASE b # NoBucket
      <4>1. /\ Buffered(b, e).on = b.on \cup {e}
            /\ Buffered(b, e).depth = IF events[e].depth > b.depth THEN events[e].depth ELSE b.depth
        BY <2>1, <3>2 DEF Buffered, Bucket
      <4>. QED
        BY <1>4, <1>7, <1>10, <2>1, <3>2, <4>1 DEF Shallow
    <3>. QED
      BY <3>1, <3>2
  <2>4. /\ q.made = r.made /\ DOMAIN q.held = DOMAIN r.held \cup {w}
        /\ \A v \in DOMAIN q.held : q.held[v] = IF v = w THEN Buffered(b, e) ELSE r.held[v]
    BY <1>3, <2>2, HeldSet
  <2>. HIDE DEF q
  <2>5. ShallowUnit(q)
    BY <1>3, <2>3, <2>4 DEF ShallowUnit
  <2>. QED
    BY <1>2, <1>10, <2>5, DepthMoves DEF q, b
<1>. QED
  BY <1>6, <1>8, <1>9, <1>10

LEMMA DepthFires ==
  ASSUME OutboxInv, DepthInv, NEW d \in Dispatchers, NEW w \in Workflows, Fire(d, w)
  PROVE  DepthInv'
<1>. DEFINE old == relay[d]
            b == old.held[w]
            r == [old EXCEPT !.todo = @ \ {w}]
            q == Put(r, w, NoBucket)
<1>1. old \in Transaction /\ Consistent(old) /\ ShallowUnit(old)
  BY Unit DEF DepthInv
<1>2. UNCHANGED <<events, runs, buckets>>
  BY DEF Fire, tables
<1>3. r \in Transaction /\ r.made = old.made /\ r.held = old.held
  <2>1. old.todo \ {w} \in SUBSET Workflows
    BY <1>1 DEF Transaction
  <2>. QED
    BY <1>1, <2>1, TodoSet DEF Transaction
<1>4. b \in Bucket /\ Shallow(b)
  BY <1>1 DEF Fire, Consistent, OutboxInv, BucketsOK, DepthInv
<1>5. relay' = [relay EXCEPT ![d] = q] \/ CreateRun(d, q, w, b.on, b.depth)
  BY DEF Fire
<1>. HIDE DEF b, old, r
<1>6. /\ q \in Transaction /\ q.made = r.made /\ DOMAIN q.held = DOMAIN r.held \cup {w}
      /\ \A v \in DOMAIN q.held : q.held[v] = IF v = w THEN NoBucket ELSE r.held[v]
  BY <1>3, HeldSet
<1>. HIDE DEF q
<1>7. ShallowUnit(q)
  BY <1>1, <1>3, <1>6 DEF ShallowUnit
<1>8. CASE relay' = [relay EXCEPT ![d] = q]
  BY <1>2, <1>7, <1>8, DepthMoves
<1>9. CASE CreateRun(d, q, w, b.on, b.depth)
  <2>1. b.on \in Batches /\ b.depth \in Nat
    BY <1>4 DEF Bucket
  <2>. QED
    BY <1>2, <1>4, <1>6, <1>7, <1>9, <2>1, DepthCreates DEF Shallow
<1>. QED
  BY <1>5, <1>8, <1>9


\* The steps of a dispatcher that make nothing.
LEMMA DepthTakes ==
  ASSUME OutboxInv, DepthInv, NEW d \in Dispatchers,
         ReadSwitches(d) \/ Abort(d) \/ Claim(d) \/ Take(d) \/ ClaimDue(d)
  PROVE  DepthInv'
<1>1. UNCHANGED <<events, runs, buckets>>
  BY DEF ReadSwitches, Abort, Claim, Take, ClaimDue, tables
<1>2. relay[d] \in Transaction /\ ShallowUnit(relay[d])
  BY Unit DEF DepthInv
<1>3. watermark \in Nat
  BY DEF OutboxInv, SwitchesOK
<1>4. \A r \in {Idle, [Idle EXCEPT !.at = "read", !.watermark = watermark]} : ShallowUnit(r)
  BY <1>3, IdleRecord DEF ShallowUnit
<1>5. CASE ReadSwitches(d) \/ Abort(d)
  <2>1. \E r \in {Idle, [Idle EXCEPT !.at = "read", !.watermark = watermark]} :
          relay' = [relay EXCEPT ![d] = r]
    BY <1>5 DEF ReadSwitches, Abort
  <2>. QED
    BY <1>1, <1>4, <2>1, DepthMoves
<1>6. CASE Claim(d)
  <2>. DEFINE batch == Oldest(Undispatched)
              old == {e \in batch : e < relay[d].watermark}
              q == [relay[d] EXCEPT !.at = "walk", !.left = batch \ old,
                                    !.marked = old, !.passed = old]
  <2>1. relay' = [relay EXCEPT ![d] = Idle] \/ relay' = [relay EXCEPT ![d] = q]
    BY <1>6 DEF Claim
  <2>2. q.made = relay[d].made /\ q.held = relay[d].held
    <3>. HIDE DEF batch, old
    <3>. QED
      BY <1>2 DEF Transaction
  <2>. HIDE DEF q
  <2>3. ShallowUnit(q)
    BY <1>2, <2>2 DEF ShallowUnit
  <2>. QED
    BY <1>1, <1>4, <2>1, <2>3, DepthMoves
<1>7. CASE Take(d)
  <2>. DEFINE e == Min(relay[d].left)
              S == {w \in events[e].to : enabled[w]} \ relay[d].off
              q == [relay[d] EXCEPT !.cur = e, !.left = @ \ {e}, !.marked = @ \cup {e}, !.todo = S]
  <2>1. relay' = [relay EXCEPT ![d] = q]
    BY <1>2, <1>7 DEF Take, Transaction, OutboxInv, RelayOK
  <2>2. q.made = relay[d].made /\ q.held = relay[d].held
    <3>. HIDE DEF e, S
    <3>. QED
      BY <1>2 DEF Transaction
  <2>. HIDE DEF q
  <2>3. ShallowUnit(q)
    BY <1>2, <2>2 DEF ShallowUnit
  <2>. QED
    BY <1>1, <2>1, <2>3, DepthMoves
<1>8. CASE ClaimDue(d)
  <2>. DEFINE due == {w \in Workflows : buckets[w] # NoBucket /\ buckets[w].due /\ BucketFree(d, w)}
              H == [w \in due |-> buckets[w]]
              q == [Idle EXCEPT !.at = "fire", !.todo = due, !.held = H]
  <2>1. relay' = [relay EXCEPT ![d] = q]
    BY <1>8 DEF ClaimDue
  <2>2. q.made = {} /\ q.held = H
    <3>. HIDE DEF due, H
    <3>. QED
      BY DEF Idle
  <2>. HIDE DEF q
  <2>3. ShallowUnit(q)
    BY <2>2 DEF ShallowUnit, DepthInv
  <2>. QED
    BY <1>1, <2>1, <2>3, DepthMoves
<1>. QED
  BY <1>5, <1>6, <1>7, <1>8

LEMMA DepthCommits ==
  ASSUME OutboxInv, DepthInv, NEW d \in Dispatchers, Commit(d)
  PROVE  DepthInv'
<1>1. /\ DOMAIN events' = DOMAIN events
      /\ \A e \in DOMAIN events : events'[e].depth = events[e].depth
      /\ \A w \in Workflows : buckets'[w] = Seen(relay[d], w)
      /\ runs' = runs \cup relay[d].made /\ relay' = [relay EXCEPT ![d] = Idle]
  BY CommitWrites
<1>2. ShallowUnit(relay[d])
  BY DEF DepthInv
<1>3. \A x \in runs' : Shallow(x)
  BY <1>1, <1>2 DEF DepthInv, ShallowUnit
<1>4. \A w \in Workflows : buckets'[w] # NoBucket => Shallow(buckets'[w])
  BY <1>1, <1>2 DEF DepthInv, ShallowUnit, Seen
<1>5. ShallowUnit(Idle)
  BY DEF ShallowUnit, Idle
<1>6. \A o \in Dispatchers : relay'[o] = IF o = d THEN Idle ELSE relay[o]
  BY <1>1 DEF OutboxInv, RelayOK
<1>7. \A o \in Dispatchers : ShallowUnit(relay'[o])
  BY <1>5, <1>6 DEF DepthInv
<1>. QED
  BY <1>1, <1>3, <1>4, <1>7, DepthStays

\* The child of a run is one hop deeper than an event the run was allowed for.
LEMMA DepthReplies ==
  ASSUME OutboxInv, DepthInv, NEW x \in runs, EndRun(x) \/ Reply(x) \/ Age(x)
  PROVE  DepthInv'
<1>1. x \in SomeRun /\ Shallow(x) /\ x.on \in SUBSET Nat /\ x.on # {}
  BY DEF OutboxInv, RunsOK, DepthInv, SomeRun, Batches
<1>2. events \in Seq(Event) /\ MaxDepth \in Nat
  BY OutboxConstants DEF OutboxInv, EventsOK
<1>. DEFINE y == [x EXCEPT !.at = "done"]
            z == [x EXCEPT !.fresh = FALSE]
<1>3. y.on = x.on /\ y.depth = x.depth /\ z.on = x.on /\ z.depth = x.depth
  BY <1>1 DEF SomeRun
<1>4. runs' = (runs \ {x}) \cup {y} \/ runs' = (runs \ {x}) \cup {z}
  BY DEF EndRun, Reply, Age
<1>. HIDE DEF y, z
<1>5. \A v \in runs' : Shallow(v)
  BY <1>1, <1>3, <1>4 DEF Shallow, DepthInv
<1>6. UNCHANGED <<buckets, relay>>
  BY DEF EndRun, Reply, Age
<1>7. CASE EndRun(x) \/ Age(x)
  <2>1. UNCHANGED events
    BY <1>7 DEF EndRun, Age
  <2>. QED
    BY <1>5, <1>6, <2>1, DepthStays DEF DepthInv
<1>8. CASE Reply(x)
  <2>. DEFINE p == events[Min(x.on)]
  <2>1. PICK v : v.depth = p.depth + 1 /\ events' = Append(events, v)
    <3>1. \A k, st, depth, chain, gen : NewEvent(k, st, depth, chain, gen).depth = depth
      BY DEF NewEvent
    <3>2. \E k, chain, gen : events' = Append(events, NewEvent(k, "pending", p.depth + 1, chain, gen))
      BY <1>8 DEF Reply
    <3>. HIDE DEF p
    <3>. QED
      BY <3>1, <3>2
  <2>2. Min(x.on) \in x.on
    BY <1>1, Least
  <2>3. p.depth < MaxDepth /\ p.depth \in Nat
    <3>1. Min(x.on) \in DOMAIN events /\ p.depth < MaxDepth
      BY <1>1, <2>2 DEF Shallow
    <3>2. p \in Event
      BY <1>2, <3>1
    <3>. QED
      BY <3>1, <3>2 DEF Event
  <2>. HIDE DEF p
  <2>4. v.depth <= MaxDepth
    BY <1>2, <2>1, <2>3
  <2>5. /\ DOMAIN events' = 1 .. Len(events) + 1 /\ DOMAIN events = 1 .. Len(events)
        /\ Len(events) \in Nat
        /\ \A e \in DOMAIN events : events'[e] = events[e]
        /\ events'[Len(events) + 1] = v
    BY <1>2, <2>1
  <2>6. \A e \in DOMAIN events' \ DOMAIN events : events'[e].depth <= MaxDepth
    BY <2>4, <2>5
  <2>. QED
    BY <1>5, <1>6, <2>5, <2>6, DepthStays DEF DepthInv
<1>. QED
  BY <1>7, <1>8

LEMMA DepthStep ==
  ASSUME OutboxInv, DepthInv, [OutboxNext]_outboxVars
  PROVE  DepthInv'
<1>1. events \in Seq(Event) /\ MaxDepth \in Nat /\ \A e \in DOMAIN events : events[e] \in Event
  BY OutboxConstants DEF OutboxInv, EventsOK
<1>2. CASE Emit
  <2>1. PICK v : v.depth = 0 /\ events' = Append(events, v)
    <3>1. \A k, st, depth, chain, gen : NewEvent(k, st, depth, chain, gen).depth = depth
      BY DEF NewEvent
    <3>. QED
      BY <1>2, <3>1 DEF Emit
  <2>2. /\ DOMAIN events' = 1 .. Len(events) + 1 /\ DOMAIN events = 1 .. Len(events)
        /\ Len(events) \in Nat
        /\ \A e \in DOMAIN events : events'[e] = events[e]
        /\ events'[Len(events) + 1] = v
    BY <1>1, <2>1
  <2>3. \A e \in DOMAIN events' \ DOMAIN events : events'[e].depth <= MaxDepth
    BY <1>1, <2>1, <2>2
  <2>4. UNCHANGED <<runs, buckets, relay>>
    BY <1>2 DEF Emit
  <2>. QED
    BY <2>2, <2>3, <2>4, DepthStays DEF DepthInv
<1>3. ASSUME NEW i \in DOMAIN events, EndMutation(i) PROVE DepthInv'
  <2>1. PICK st \in {"pending", "gone"} : events' = [events EXCEPT ![i].at = st]
    BY <1>3 DEF EndMutation
  <2>2. \A z \in Event : [z EXCEPT !.at = st].depth = z.depth
    BY DEF Event
  <2>3. /\ DOMAIN events' = DOMAIN events
        /\ \A e \in DOMAIN events : events'[e].depth = events[e].depth
    BY <1>1, <2>1, <2>2
  <2>4. UNCHANGED <<runs, buckets, relay>>
    BY <1>3 DEF EndMutation
  <2>. QED
    BY <2>3, <2>4, DepthStays DEF DepthInv
<1>4. CASE SwitchOff
  <2>1. \A z \in Event : [z EXCEPT !.sawOff = TRUE].depth = z.depth
    BY DEF Event
  <2>2. /\ DOMAIN events' = DOMAIN events
        /\ \A e \in DOMAIN events : events'[e].depth = events[e].depth
    BY <1>1, <1>4, <2>1 DEF SwitchOff
  <2>3. UNCHANGED <<runs, buckets, relay>>
    BY <1>4 DEF SwitchOff
  <2>. QED
    BY <2>2, <2>3, DepthStays DEF DepthInv
<1>5. ASSUME NEW w \in Workflows, WindowCloses(w) PROVE DepthInv'
  <2>1. /\ UNCHANGED <<events, runs, relay>>
        /\ buckets[w] # NoBucket /\ buckets' = [buckets EXCEPT ![w].due = TRUE]
    BY <1>5 DEF WindowCloses
  <2>2. buckets \in [Workflows -> Bucket \cup {NoBucket}] /\ buckets[w] \in Bucket
    BY <2>1 DEF OutboxInv, BucketsOK
  <2>3. \A b \in Bucket : [b EXCEPT !.due = TRUE].on = b.on /\ [b EXCEPT !.due = TRUE].depth = b.depth
    BY DEF Bucket
  <2>4. \A v \in Workflows : buckets'[v] # NoBucket =>
          /\ buckets[v] # NoBucket
          /\ buckets'[v].on = buckets[v].on /\ buckets'[v].depth = buckets[v].depth
    BY <2>1, <2>2, <2>3
  <2>5. \A v \in Workflows : buckets'[v] # NoBucket => Shallow(buckets'[v])
    BY <2>4 DEF DepthInv, Shallow
  <2>. QED
    BY <2>1, <2>5, DepthStays DEF DepthInv
<1>6. CASE \/ SetPaused
           \/ \E w \in Workflows : TripsExpire(w) \/ SetEnabled(w)
           \/ \E a \in Admins : CheckFlag(a) \/ Stamp(a) \/ SetFlag(a)
           \/ UNCHANGED outboxVars
  <2>1. UNCHANGED <<events, runs, buckets, relay>>
    BY <1>6 DEF SetPaused, TripsExpire, SetEnabled, CheckFlag, Stamp, SetFlag, outboxVars, tables
  <2>. QED
    BY <2>1, DepthStays DEF DepthInv
<1>. QED
  BY <1>2, <1>3, <1>4, <1>5, <1>6, DepthOffers, DepthFires, DepthTakes, DepthCommits,
     DepthReplies DEF OutboxNext, RelayStep

\* What is not in the other invariants.
SwitchTypes ==
  /\ enabled \in [Workflows -> BOOLEAN]
  /\ trips \in [Workflows -> 0 .. Trips]
  /\ admin \in [Admins -> {"idle", "stamp", "set"}]

LEMMA SwitchTypesStep ==
  ASSUME OutboxInv, SwitchTypes, [OutboxNext]_outboxVars
  PROVE  SwitchTypes'
<1>1. CASE UNCHANGED <<enabled, trips, admin>>
  BY <1>1 DEF SwitchTypes
<1>2. ASSUME NEW w \in Workflows, UNCHANGED <<enabled, admin>>,
             \/ TripsLeft(w) /\ trips' = [trips EXCEPT ![w] = @ + 1]
             \/ trips' = [trips EXCEPT ![w] = 0]
      PROVE  SwitchTypes'
  BY <1>2, OutboxConstants DEF SwitchTypes, TripsLeft
<1>3. ASSUME NEW d \in Dispatchers, NEW w \in Workflows, Offer(d, w) \/ Fire(d, w)
      PROVE  SwitchTypes'
  <2>1. UNCHANGED <<enabled, admin>>
    BY <1>3 DEF Offer, Fire, tables, switches
  <2>2. UNCHANGED trips \/ (TripsLeft(w) /\ trips' = [trips EXCEPT ![w] = @ + 1])
    BY <1>3 DEF Offer, Fire, CreateRun
  <2>. QED
    BY <1>1, <1>2, <2>1, <2>2
<1>4. ASSUME NEW d \in Dispatchers, Commit(d) PROVE SwitchTypes'
  <2>1. enabled' = [w \in Workflows |-> enabled[w] /\ w \notin relay[d].off]
        /\ UNCHANGED <<trips, admin>>
    BY <1>4 DEF Commit, switches
  <2>. QED
    BY <2>1 DEF SwitchTypes
<1>5. ASSUME NEW d \in Dispatchers,
             ReadSwitches(d) \/ Claim(d) \/ Take(d) \/ ClaimDue(d) \/ Abort(d)
      PROVE  SwitchTypes'
  <2>1. UNCHANGED <<enabled, trips, admin>>
    BY <1>5 DEF ReadSwitches, Claim, Take, ClaimDue, Abort, tables, switches
  <2>. QED
    BY <1>1, <2>1
<1>6. ASSUME NEW w \in Workflows, WindowCloses(w) \/ TripsExpire(w) PROVE SwitchTypes'
  <2>1. UNCHANGED <<enabled, admin>> /\ (UNCHANGED trips \/ trips' = [trips EXCEPT ![w] = 0])
    BY <1>6 DEF WindowCloses, TripsExpire, tables, switches
  <2>. QED
    BY <1>1, <1>2, <2>1
<1>7. ASSUME NEW w \in Workflows, SetEnabled(w) PROVE SwitchTypes'
  <2>1. enabled' = [enabled EXCEPT ![w] = ~@] /\ UNCHANGED <<trips, admin>>
    BY <1>7 DEF SetEnabled, switches
  <2>2. enabled' \in [Workflows -> BOOLEAN]
    BY <2>1, Zenon DEF SwitchTypes
  <2>. QED
    BY <2>1, <2>2 DEF SwitchTypes
<1>8. ASSUME NEW a \in Admins, CheckFlag(a) \/ Stamp(a) \/ SetFlag(a) PROVE SwitchTypes'
  <2>1. /\ UNCHANGED <<enabled, trips>>
        /\ \E st \in {"idle", "stamp", "set"} : admin' = [admin EXCEPT ![a] = st]
    BY <1>8 DEF CheckFlag, Stamp, SetFlag, tables
  <2>. QED
    BY <2>1 DEF SwitchTypes
<1>9. CASE \/ Emit \/ SwitchOff \/ SetPaused \/ UNCHANGED outboxVars
           \/ \E e \in DOMAIN events : EndMutation(e)
           \/ \E x \in runs : EndRun(x) \/ Reply(x) \/ Age(x)
  <2>1. UNCHANGED <<enabled, trips, admin>>
    BY <1>9 DEF Emit, SwitchOff, SetPaused, outboxVars, EndMutation, EndRun, Reply, Age,
           tables, switches
  <2>. QED
    BY <1>1, <2>1
<1>. QED
  BY <1>3, <1>4, <1>5, <1>6, <1>7, <1>8, <1>9 DEF OutboxNext, RelayStep

\* Every variable keeps its type; in particular no event is recorded deeper than
\* max_depth, and every run and bucket is of events below it.
THEOREM OutboxTypeCorrect == OutboxSpec => []OutboxTypeOK
<1>1. OutboxInit => DepthInv /\ SwitchTypes
  <2>1. SUFFICES ASSUME OutboxInit PROVE DepthInv /\ SwitchTypes
    OBVIOUS
  <2>2. \A d \in Dispatchers : relay[d].made = {} /\ DOMAIN relay[d].held = {}
    BY <2>1 DEF OutboxInit, Idle
  <2>3. DOMAIN events = {} /\ runs = {} /\ \A w \in Workflows : buckets[w] = NoBucket
    BY <2>1 DEF OutboxInit
  <2>4. DepthInv
    BY <2>2, <2>3 DEF DepthInv, ShallowUnit
  <2>5. SwitchTypes
    BY <2>1, OutboxConstants DEF OutboxInit, SwitchTypes
  <2>. QED
    BY <2>4, <2>5
<1>2. OutboxInv /\ WatermarkInv /\ DepthInv /\ SwitchTypes => OutboxTypeOK
  <2>1. SUFFICES ASSUME OutboxInv, WatermarkInv, DepthInv, SwitchTypes PROVE OutboxTypeOK
    OBVIOUS
  <2>2. /\ events \in Seq(Event) /\ Len(events) \in Nat /\ Len(events) <= MaxEvents
        /\ MaxDepth \in Nat /\ MaxEvents \in Nat
    BY <2>1, OutboxConstants DEF OutboxInv, EventsOK
  <2>3. \A e \in DOMAIN events : events[e] \in Event /\ e \in EventIds
    BY <2>2 DEF EventIds
  <2>4. \A e \in DOMAIN events :
          /\ events[e].at \in {"open", "gone", "pending", "sent", "skipped"}
          /\ events[e].to \subseteq Workflows /\ events[e].depth \in 0 .. MaxDepth
    BY <2>1, <2>2, <2>3 DEF Event, Statuses, DepthInv
  <2>5. runs \subseteq Run
    <3>1. SUFFICES ASSUME NEW x \in runs PROVE x \in Run
      OBVIOUS
    <3>2. x \in SomeRun /\ Shallow(x)
      BY <2>1 DEF OutboxInv, RunsOK, DepthInv
    <3>3. x.on \in SUBSET EventIds
      BY <2>3, <3>2 DEF Shallow
    <3>4. x.depth \in 0 .. MaxDepth
      BY <2>2, <3>2 DEF Shallow, SomeRun
    <3>. QED
      BY <3>2, <3>3, <3>4 DEF SomeRun, Run
  <2>6. \A w \in Workflows : buckets[w] # NoBucket =>
          buckets[w].on \in (SUBSET EventIds) \ {{}} /\ buckets[w].depth < MaxDepth
    <3>1. SUFFICES ASSUME NEW w \in Workflows, buckets[w] # NoBucket
                   PROVE  buckets[w].on \in (SUBSET EventIds) \ {{}} /\ buckets[w].depth < MaxDepth
      OBVIOUS
    <3>2. buckets[w] \in Bucket /\ Shallow(buckets[w])
      BY <2>1, <3>1 DEF OutboxInv, BucketsOK, DepthInv
    <3>3. buckets[w].depth < MaxDepth /\ \A e \in buckets[w].on : e \in EventIds
      BY <2>3, <3>2 DEF Shallow
    <3>4. buckets[w].on # {}
      BY <3>2 DEF Bucket, Batches
    <3>. QED
      BY <3>3, <3>4
  <2>7. watermark \in 0 .. MaxEvents + 1
    BY <2>1, <2>2 DEF OutboxInv, SwitchesOK, WatermarkInv
  <2>8. \A d \in Dispatchers : relay[d].at \in {"down", "idle", "read", "walk", "fire"}
    BY <2>1 DEF OutboxInv, RelayOK, Transaction
  <2>. QED
    BY <2>1, <2>2, <2>4, <2>5, <2>6, <2>7, <2>8 DEF OutboxTypeOK, SwitchTypes
<1>. QED
  BY <1>1, <1>2, DepthStep, SwitchTypesStep, WatermarkInvariant, OutboxInvariant, PTL DEF OutboxSpec

=============================================================================
