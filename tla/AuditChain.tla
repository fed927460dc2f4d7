----------------------------- MODULE AuditChain -----------------------------
(***************************************************************************)
(* The audit log: backend/src/audit/mod.rs, audit/verify.rs and the        *)
(* retention sweep of scheduler/mod.rs.                                    *)
(*                                                                         *)
(* Each row carries the hash of the row before it.  Appenders take one     *)
(* advisory lock for the rest of their transaction, read the last hash,    *)
(* draw a sequence number and insert.  Most of them append synchronously,  *)
(* in their own transaction or in the one that does what is recorded; hot  *)
(* paths only enqueue, and one writer task appends what it drains in       *)
(* batches, or one by one when a batch fails.  A row is kept in the month  *)
(* its event says it occurred in, and retention drops whole months: those  *)
(* with a partition of their own, as the months of the first migration     *)
(* have; a row of any other month is in the default one, which stays.      *)
(*                                                                         *)
(* A hash is the sequence number of its row: no two rows share one.        *)
(***************************************************************************)
EXTENDS Naturals, Sequences, FiniteSets

CONSTANTS
  Appenders,     \* transactions that append synchronously
  Snapshotters,  \* those of them that run REPEATABLE READ (chat/regenerate.rs)
  QueueCap,      \* the capacity of the writer's channel, 1024 in the code
  BatchCap,      \* what the writer drains at once, 64 in the code
  Keep,          \* months kept by retention, audit.retention_months
  MaxMonths,     \* bound: months the clock goes through
  MaxEvents,     \* bound: events
  MaxDrops,      \* bound: months dropped
  MaxMishaps     \* bound: failed transactions, lost replies and crashes

VARIABLES
  rows,          \* the committed rows
  dropped,       \* the rows whose month was dropped
  lastSeq,       \* the sequence audit_events_seq
  clock,         \* the current month
  events,        \* events made so far
  queue,         \* the writer's channel
  drained,       \* what the writer has drained and not finished
  writer,        \* idle, batch, or single after a batch that failed
  stage,         \* appender -> idle, made, begun, or open with its row inserted
  made,          \* appender -> the event it appends
  view,          \* appender -> the last row its snapshot shows
  open,          \* the rows of the transaction that has the lock, not committed
  locker,        \* who has the advisory lock
  doubtful,      \* events whose transaction committed and was reported failed
  drops, mishaps

auditVars == <<rows, dropped, lastSeq, clock, events, queue, drained, writer, stage, made, view,
               open, locker, doubtful, drops, mishaps>>

Nobody == "nobody"
Writer == "writer"
ASSUME AuditBounds ==
  /\ {QueueCap, BatchCap, Keep, MaxMonths, MaxEvents, MaxDrops, MaxMishaps} \subseteq Nat
  /\ Snapshotters \subseteq Appenders /\ BatchCap > 0 /\ MaxMonths > 0
  /\ {Nobody, Writer} \cap Appenders = {}

NoEvent == [id |-> 0, month |-> 0]
Months == 1 .. MaxMonths

\* SELECT hash FROM audit_events ORDER BY seq DESC LIMIT 1; 0 when there is none.
LastOf(R) == {s \in {0} \cup {r.seq : r \in R} : \A r \in R : r.seq <= s}

\* The rows that appending the events of a sequence inserts, each linked to the
\* one before and the first to what the transaction sees as the last row.
Chained(es, seen, a) ==
  {[seq |-> lastSeq + i, prev |-> IF i = 1 THEN seen ELSE lastSeq + i - 1,
    event |-> es[i].id, month |-> es[i].month, by |-> a] : i \in DOMAIN es}

Mishap == mishaps < MaxMishaps /\ mishaps' = mishaps + 1

-----------------------------------------------------------------------------
AuditInit ==
  /\ rows = {} /\ dropped = {} /\ lastSeq = 0
  /\ clock = 1 /\ events = 0
  /\ queue = <<>> /\ drained = <<>> /\ writer = "idle"
  /\ stage = [a \in Appenders |-> "idle"]
  /\ made = [a \in Appenders |-> NoEvent]
  /\ view = [a \in Appenders |-> 0]
  /\ open = {} /\ locker = Nobody
  /\ doubtful = {}
  /\ drops = 0 /\ mishaps = 0

\* AuditEvent::action: an event is stamped with the time it is made.
NewEvent == [id |-> events + 1, month |-> clock]

Make(a) ==
  /\ stage[a] = "idle" /\ events < MaxEvents
  /\ events' = events + 1
  /\ made' = [made EXCEPT ![a] = NewEvent]
  /\ stage' = [stage EXCEPT ![a] = "made"]
  /\ UNCHANGED <<rows, dropped, lastSeq, clock, queue, drained, writer, view, open, locker,
                 doubtful, drops, mishaps>>

\* enqueue(): a full channel drops the event.
Enqueue ==
  /\ events < MaxEvents
  /\ events' = events + 1
  /\ queue' = IF Len(queue) < QueueCap THEN Append(queue, NewEvent) ELSE queue
  /\ UNCHANGED <<rows, dropped, lastSeq, clock, drained, writer, stage, made, view, open, locker,
                 doubtful, drops, mishaps>>

\* regenerate(): the first statement of a REPEATABLE READ transaction fixes what
\* all of its later statements see, long before it appends.
Begin(a) ==
  /\ a \in Snapshotters /\ stage[a] = "made"
  /\ \E last \in LastOf(rows) : view' = [view EXCEPT ![a] = last]
  /\ stage' = [stage EXCEPT ![a] = "begun"]
  /\ UNCHANGED <<rows, dropped, lastSeq, clock, events, queue, drained, writer, made, open, locker,
                 doubtful, drops, mishaps>>

\* Mutant: the row is linked to the number before its own, which a rollback may
\* have left unused.
AppendRowAfterSeq(a) ==
  /\ stage[a] = IF a \in Snapshotters THEN "begun" ELSE "made"
  /\ locker = Nobody
  /\ locker' = a
  /\ open' = Chained(<<made[a]>>, lastSeq, a)
  /\ lastSeq' = lastSeq + 1
  /\ stage' = [stage EXCEPT ![a] = "open"]
  /\ UNCHANGED <<rows, dropped, clock, events, queue, drained, writer, made, view,
                 doubtful, drops, mishaps>>

\* append_chain_with(): the lock, the last hash, the sequence number and the
\* insert.  At READ COMMITTED the hash is read as of now.
AppendRow(a) ==
  /\ stage[a] = IF a \in Snapshotters THEN "begun" ELSE "made"
  /\ locker = Nobody
  /\ locker' = a
  /\ \E last \in IF a \in Snapshotters THEN {view[a]} ELSE LastOf(rows) :
       open' = Chained(<<made[a]>>, last, a)
  /\ lastSeq' = lastSeq + 1
  /\ stage' = [stage EXCEPT ![a] = "open"]
  /\ UNCHANGED <<rows, dropped, clock, events, queue, drained, writer, made, view,
                 doubtful, drops, mishaps>>

\* The transaction is over and its lock is freed.
Closes(a) ==
  /\ locker' = Nobody /\ open' = {}
  /\ stage' = [stage EXCEPT ![a] = "idle"]
  /\ made' = [made EXCEPT ![a] = NoEvent]
  /\ view' = [view EXCEPT ![a] = 0]
  /\ UNCHANGED <<dropped, lastSeq, clock, events, queue, drained, writer, drops>>

CommitRow(a) ==
  /\ stage[a] = "open"
  /\ rows' = rows \cup open
  /\ Closes(a)
  /\ UNCHANGED <<doubtful, mishaps>>

\* What the transaction records fails, or its commit does: the sequence number
\* it drew stays unused.
RollbackRow(a) ==
  /\ stage[a] = "open"
  /\ Mishap
  /\ Closes(a)
  /\ UNCHANGED <<rows, doubtful>>

\* --- The writer task -------------------------------------------------------

Drain ==
  /\ writer = "idle" /\ queue # <<>>
  /\ LET n == IF Len(queue) < BatchCap THEN Len(queue) ELSE BatchCap IN
       /\ drained' = SubSeq(queue, 1, n)
       /\ queue' = SubSeq(queue, n + 1, Len(queue))
  /\ writer' = "batch"
  /\ UNCHANGED <<rows, dropped, lastSeq, clock, events, stage, made, view, open, locker,
                 doubtful, drops, mishaps>>

\* What the writer appends in one transaction.
Due == IF writer = "batch" THEN drained ELSE <<Head(drained)>>

WriterAppends ==
  /\ writer \in {"batch", "single"} /\ drained # <<>>
  /\ locker = Nobody
  /\ locker' = Writer
  /\ \E last \in LastOf(rows) : open' = Chained(Due, last, Writer)
  /\ lastSeq' = lastSeq + Len(Due)
  /\ UNCHANGED <<rows, dropped, clock, events, queue, drained, writer, stage, made, view,
                 doubtful, drops, mishaps>>

\* The transaction of the writer is over: of a batch that failed every event is
\* appended again by itself, anything else is done with.
Finished(ok) ==
  /\ locker' = Nobody /\ open' = {}
  /\ IF writer = "batch" /\ ~ok
       THEN writer' = "single" /\ UNCHANGED drained
       ELSE LET rest == IF writer = "batch" THEN <<>> ELSE Tail(drained) IN
              /\ drained' = rest
              /\ writer' = IF rest = <<>> THEN "idle" ELSE "single"
  /\ UNCHANGED <<dropped, lastSeq, clock, events, queue, stage, made, view, drops>>

WriterCommits ==
  /\ locker = Writer
  /\ rows' = rows \cup open
  /\ Finished(TRUE)
  /\ UNCHANGED <<doubtful, mishaps>>

\* Mutant: the batch is not one transaction, its first row stays.
WriterFailsHalf ==
  /\ locker = Writer
  /\ Mishap
  /\ rows' = rows \cup {r \in open : r.seq + Len(Due) = lastSeq + 1}
  /\ Finished(FALSE)
  /\ UNCHANGED doubtful

\* An event the database refuses, or a commit that fails.
WriterFails ==
  /\ locker = Writer
  /\ Mishap
  /\ Finished(FALSE)
  /\ UNCHANGED <<rows, doubtful>>

\* The commit takes place and its reply is lost.
WriterUnsure ==
  /\ locker = Writer
  /\ Mishap
  /\ rows' = rows \cup open
  /\ doubtful' = doubtful \cup {r.event : r \in open}
  /\ Finished(FALSE)

\* --- The process, the clock and retention ----------------------------------

\* The process dies: what was queued, drained or not committed is lost.
ServerDies ==
  /\ Mishap
  /\ queue' = <<>> /\ drained' = <<>> /\ writer' = "idle"
  /\ stage' = [a \in Appenders |-> "idle"]
  /\ made' = [a \in Appenders |-> NoEvent]
  /\ view' = [a \in Appenders |-> 0]
  /\ open' = {} /\ locker' = Nobody
  /\ UNCHANGED <<rows, dropped, lastSeq, clock, events, doubtful, drops>>

NextMonth ==
  /\ clock < MaxMonths
  /\ clock' = clock + 1
  /\ UNCHANGED <<rows, dropped, lastSeq, events, queue, drained, writer, stage, made, view, open,
                 locker, doubtful, drops, mishaps>>

\* run_audit_retention(): a month that ended before the window is dropped, in
\* whatever order the catalogue lists them, and the sweep goes on to record it.
\* The drop waits for the transactions that have read the table.
DropMonth(a, m) ==
  /\ stage[a] = "idle" /\ a \notin Snapshotters
  /\ drops < MaxDrops /\ events < MaxEvents
  /\ m + Keep <= clock
  /\ locker = Nobody
  /\ \E r \in rows : r.month = m
  /\ rows' = {r \in rows : r.month # m}
  /\ dropped' = dropped \cup {r \in rows : r.month = m}
  /\ drops' = drops + 1
  /\ events' = events + 1
  /\ made' = [made EXCEPT ![a] = NewEvent]
  /\ stage' = [stage EXCEPT ![a] = "made"]
  /\ UNCHANGED <<lastSeq, clock, queue, drained, writer, view, open, locker, doubtful, mishaps>>

-----------------------------------------------------------------------------
AuditNext ==
  \/ \E a \in Appenders :
       \/ Make(a) \/ Begin(a) \/ AppendRow(a) \/ CommitRow(a) \/ RollbackRow(a)
       \/ \E m \in Months : DropMonth(a, m)
  \/ Enqueue \/ Drain \/ WriterAppends \/ WriterCommits \/ WriterFails \/ WriterUnsure
  \/ ServerDies \/ NextMonth

AuditSpec == AuditInit /\ [][AuditNext]_auditVars

-----------------------------------------------------------------------------
EventRecs == [id : 1 .. MaxEvents, month : Months]
RowRecs == [seq : Nat \ {0}, prev : Nat, event : 1 .. MaxEvents, month : Months,
            by : Appenders \cup {Writer}]

\* What is where: an open transaction has the lock, and no two rows share a
\* sequence number.
AuditTypeOK ==
  /\ rows \subseteq RowRecs /\ dropped \subseteq RowRecs /\ open \subseteq RowRecs
  /\ lastSeq \in Nat /\ clock \in Months /\ events \in 0 .. MaxEvents
  /\ queue \in Seq(EventRecs) /\ Len(queue) <= QueueCap
  /\ drained \in Seq(EventRecs) /\ writer \in {"idle", "batch", "single"}
  /\ stage \in [Appenders -> {"idle", "made", "begun", "open"}]
  /\ made \in [Appenders -> EventRecs \cup {NoEvent}]
  /\ \A a \in Appenders : stage[a] # "idle" => made[a] # NoEvent
  /\ view \in [Appenders -> Nat]
  /\ locker \in Appenders \cup {Writer, Nobody}
  /\ doubtful \subseteq 1 .. MaxEvents
  /\ drops \in 0 .. MaxDrops /\ mishaps \in 0 .. MaxMishaps

Written == rows \cup dropped

Before(r, R) == {q \in R : q.seq < r.seq}

\* verify_chain(): the rows, in sequence order, whose prev_hash is not the hash
\* of the row before.  The first one anchors the chain.
Breaks == {r \in rows : Before(r, rows) # {} /\ r.prev \notin LastOf(Before(r, rows))}

\* "Serialise all appenders so prev_hash/seq are read consistently": every row
\* ever written is linked to the one written before it (append_chain_with).
ChainLinks == \A r \in Written : r.prev \in LastOf(Before(r, Written))

\* What verification ever reports is the work of retention or of an appender
\* with a snapshot, never of the appenders that share the lock, of the writer's
\* batches and retries, of rollbacks or of crashes.
BreaksExplained ==
  \A r \in Breaks : r.by \in Snapshotters \/ \E q \in dropped : q.seq = r.prev

\* "Only oldest (prefix) partitions are dropped, so the chain stays verifiable"
\* (run_audit_retention).
StaysVerifiable == Breaks = {}

\* An event is in the log at most once, a failed batch that is appended again
\* event by event included, unless the reply to a commit was lost (spawn_writer).
WrittenOnce ==
  \A r, s \in Written : r.event = s.event /\ r # s => r.event \in doubtful

\* Rows become visible in the order of their sequence numbers, so verification
\* never finds a row where it has already looked (append_chain_with).
AppendsAtEnd ==
  [][\A r \in rows' \ rows, q \in rows \cup dropped : q.seq < r.seq]_auditVars
=============================================================================
