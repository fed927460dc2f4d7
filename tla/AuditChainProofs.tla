-------------------------- MODULE AuditChainProofs --------------------------
(***************************************************************************)
(* For any appenders, queue and batch sizes and bounds: rows appear at the *)
(* end of the log, no event is written twice unless the reply to a commit  *)
(* was lost, and a break of the chain is the work of retention or of an    *)
(* appender with a snapshot.                                               *)
(*                                                                         *)
(* The argument is in three parts.  Locking: rows that are not committed   *)
(* belong to the holder of the advisory lock and are numbered above all    *)
(* others.  Linking: no row stands between a row and the one its prev      *)
(* names, and that one was written.  Custody: each event is in one place,  *)
(* the channel, the writer's batch, an appender or the log.                *)
(***************************************************************************)
EXTENDS AuditChain, TLAPS

LEMMA Bounds ==
  /\ QueueCap \in Nat /\ BatchCap \in Nat /\ MaxMonths \in Nat /\ MaxEvents \in Nat
  /\ MaxDrops \in Nat /\ MaxMishaps \in Nat
  /\ BatchCap > 0 /\ MaxMonths > 0
  /\ Snapshotters \subseteq Appenders
  /\ Nobody \notin Appenders /\ Writer \notin Appenders /\ Nobody # Writer
BY AuditBounds DEF Nobody, Writer

USE Bounds

-----------------------------------------------------------------------------
(* The invariant. *)

\* Rows not committed are the lock holder's.
Locking ==
  /\ locker = Nobody => open = {}
  /\ \A a \in Appenders : stage[a] = "open" <=> locker = a
  /\ \A r \in open : r.by = locker
  /\ writer = "idle" <=> drained = <<>>
  /\ locker = Writer => drained # <<>>

\* What is not committed is numbered above what is.
Numbering ==
  /\ \A r \in Written \cup open : r.seq <= lastSeq
  /\ \A r \in open, q \in Written : q.seq < r.seq

\* Nothing committed or about to be stands between a row and the one it names.
Adjacent(r) == \A q \in rows \cup open : q.seq < r.seq => q.seq <= r.prev
Named(r) == r.prev = 0 \/ \E q \in Written \cup open : q.seq = r.prev /\ q.seq < r.seq
Linking == \A r \in rows \cup open : r.by \notin Snapshotters => Adjacent(r) /\ Named(r)

\* The places an event can be in.
Once(es) == \A i, j \in DOMAIN es : es[i].id = es[j].id => i = j
Held == {a \in Appenders : stage[a] # "idle"}

Custody ==
  /\ \A i \in DOMAIN queue : queue[i].id <= events
  /\ \A i \in DOMAIN drained : drained[i].id <= events
  /\ \A a \in Held : made[a].id <= events
  /\ \A r \in Written : r.event <= events
  /\ Once(queue) /\ Once(drained)
  /\ \A i \in DOMAIN queue, j \in DOMAIN drained : queue[i].id # drained[j].id
  /\ \A i \in DOMAIN queue, a \in Held : queue[i].id # made[a].id
  /\ \A i \in DOMAIN drained, a \in Held : drained[i].id # made[a].id
  /\ \A a, b \in Held : made[a].id = made[b].id => a = b
  /\ \A i \in DOMAIN queue, r \in Written : queue[i].id # r.event
  /\ \A a \in Held, r \in Written : made[a].id # r.event
  /\ \A i \in DOMAIN drained, r \in Written : drained[i].id = r.event => r.event \in doubtful

\* What is about to be committed is what its transaction holds, once.
Contents ==
  /\ \A a \in Appenders : locker = a => \A r \in open : r.event = made[a].id
  /\ locker = Writer => \A r \in open : \E i \in DOMAIN Due : r.event = Due[i].id
  /\ \A r, s \in open : r.event = s.event => r = s

AuditInv ==
  /\ AuditTypeOK /\ Locking /\ Numbering /\ Linking /\ Custody /\ Contents /\ WrittenOnce

-----------------------------------------------------------------------------
(* The operators. *)

LEMMA LastRow ==
  ASSUME AuditTypeOK, NEW last \in LastOf(rows)
  PROVE  /\ last \in Nat
         /\ \A r \in rows : r.seq <= last
         /\ last = 0 \/ \E r \in rows : r.seq = last
BY DEF LastOf, AuditTypeOK, RowRecs

\* A row that is appended, by its place in the batch.
LinkedRow(es, seen, a, i) ==
  [seq |-> lastSeq + i, prev |-> IF i = 1 THEN seen ELSE lastSeq + i - 1,
   event |-> es[i].id, month |-> es[i].month, by |-> a]

LEMMA ChainedRows ==
  ASSUME AuditTypeOK, NEW es \in Seq(EventRecs), NEW seen \in Nat,
         NEW a \in Appenders \cup {Writer}
  PROVE  /\ \A r \in Chained(es, seen, a) :
              /\ r \in RowRecs /\ r.by = a
              /\ lastSeq < r.seq /\ r.seq <= lastSeq + Len(es)
              /\ \E i \in 1 .. Len(es) : r = LinkedRow(es, seen, a, i)
         /\ \A i \in 1 .. Len(es) : LinkedRow(es, seen, a, i) \in Chained(es, seen, a)
<1>1. DOMAIN es = 1 .. Len(es) /\ Len(es) \in Nat
  OBVIOUS
<1>2. ASSUME NEW i \in 1 .. Len(es)
      PROVE  /\ LinkedRow(es, seen, a, i) \in RowRecs
             /\ LinkedRow(es, seen, a, i).by = a
             /\ lastSeq < LinkedRow(es, seen, a, i).seq
             /\ LinkedRow(es, seen, a, i).seq <= lastSeq + Len(es)
  <2>1. es[i] \in EventRecs
    BY <1>1
  <2>. QED
    BY <2>1, <1>1 DEF LinkedRow, RowRecs, EventRecs, AuditTypeOK, Months
<1>3. Chained(es, seen, a) = {LinkedRow(es, seen, a, i) : i \in 1 .. Len(es)}
  BY <1>1 DEF Chained, LinkedRow
<1>. QED
  BY <1>2, <1>3

LEMMA DueEvents ==
  ASSUME AuditTypeOK, Locking, drained # <<>>
  PROVE  /\ Due \in Seq(EventRecs) /\ Len(Due) > 0
         /\ \A i \in DOMAIN Due : i \in DOMAIN drained /\ Due[i] = drained[i]
         /\ writer # "batch" => Due = <<drained[1]>>
<1>1. drained \in Seq(EventRecs) /\ Len(drained) > 0 /\ 1 \in DOMAIN drained
  BY DEF AuditTypeOK
<1>2. CASE writer = "batch"
  BY <1>1, <1>2 DEF Due
<1>3. CASE writer # "batch"
  <2>1. Due = <<drained[1]>> /\ drained[1] \in EventRecs
    BY <1>1, <1>3 DEF Due
  <2>. QED
    BY <1>1, <1>3, <2>1
<1>. QED
  BY <1>2, <1>3

LEMMA NewEventType ==
  ASSUME AuditTypeOK, events < MaxEvents
  PROVE  NewEvent \in EventRecs /\ NewEvent # NoEvent /\ NewEvent.id = events + 1
BY DEF NewEvent, EventRecs, AuditTypeOK, NoEvent
-----------------------------------------------------------------------------
(* Types. *)

LEMMA FinishedBatch ==
  ASSUME AuditTypeOK, Locking, locker = Writer, NEW ok \in BOOLEAN, Finished(ok)
  PROVE  /\ drained' \in Seq(EventRecs) /\ writer' \in {"idle", "batch", "single"}
         /\ drained' = drained \/ drained' = <<>> \/ drained' = Tail(drained)
<1>1. drained \in Seq(EventRecs) /\ drained # <<>> /\ writer \in {"idle", "batch", "single"}
  BY DEF AuditTypeOK, Locking
<1>2. Tail(drained) \in Seq(EventRecs) /\ <<>> \in Seq(EventRecs)
  BY <1>1
<1>. QED
  BY <1>1, <1>2 DEF Finished

LEMMA FinishedType ==
  ASSUME AuditTypeOK, Locking, locker = Writer, NEW ok \in BOOLEAN, Finished(ok),
         rows' = rows \/ rows' = rows \cup open,
         mishaps' \in 0 .. MaxMishaps, doubtful' \subseteq 1 .. MaxEvents
  PROVE  AuditTypeOK'
BY FinishedBatch DEF Finished, AuditTypeOK

LEMMA TypeStep ==
  ASSUME AuditTypeOK, Locking, AuditNext
  PROVE  AuditTypeOK'
<1>. USE DEF AuditTypeOK
<1>1. ASSUME NEW a \in Appenders, Make(a) PROVE AuditTypeOK'
  BY <1>1, NewEventType DEF Make
<1>2. ASSUME NEW a \in Appenders, Begin(a) PROVE AuditTypeOK'
  BY <1>2, LastRow DEF Begin
<1>3. ASSUME NEW a \in Appenders, AppendRow(a) PROVE AuditTypeOK'
  <2>1. PICK last \in Nat : open' = Chained(<<made[a]>>, last, a)
    BY <1>3, LastRow DEF AppendRow
  <2>2. <<made[a]>> \in Seq(EventRecs)
    BY <1>3 DEF AppendRow
  <2>3. open' \subseteq RowRecs
    BY <2>1, <2>2, ChainedRows
  <2>. QED
    BY <1>3, <2>3 DEF AppendRow
<1>4. ASSUME NEW a \in Appenders, CommitRow(a) PROVE AuditTypeOK'
  BY <1>4 DEF CommitRow, Closes
<1>5. ASSUME NEW a \in Appenders, RollbackRow(a) PROVE AuditTypeOK'
  BY <1>5 DEF RollbackRow, Closes, Mishap
<1>6. ASSUME NEW a \in Appenders, NEW m \in Months, DropMonth(a, m) PROVE AuditTypeOK'
  BY <1>6, NewEventType DEF DropMonth
<1>7. CASE Enqueue
  BY <1>7, NewEventType DEF Enqueue
<1>8. CASE Drain
  <2>. DEFINE n == IF Len(queue) < BatchCap THEN Len(queue) ELSE BatchCap
  <2>1. n \in 0 .. Len(queue)
    OBVIOUS
  <2>2. SubSeq(queue, 1, n) \in Seq(EventRecs)
    BY <2>1
  <2>3. SubSeq(queue, n + 1, Len(queue)) \in Seq(EventRecs)
        /\ Len(SubSeq(queue, n + 1, Len(queue))) <= QueueCap
    BY <2>1
  <2>. QED
    BY <1>8, <2>2, <2>3 DEF Drain
<1>9. CASE WriterAppends
  <2>1. PICK last \in Nat : open' = Chained(Due, last, Writer)
    BY <1>9, LastRow DEF WriterAppends
  <2>2. Due \in Seq(EventRecs)
    BY <1>9, DueEvents DEF WriterAppends
  <2>3. open' \subseteq RowRecs
    BY <2>1, <2>2, ChainedRows
  <2>. QED
    BY <1>9, <2>2, <2>3 DEF WriterAppends
<1>11. CASE WriterCommits
  <2>1. locker = Writer /\ Finished(TRUE) /\ rows' = rows \cup open
    BY <1>11 DEF WriterCommits
  <2>2. doubtful' \subseteq 1 .. MaxEvents /\ mishaps' \in 0 .. MaxMishaps
    BY <1>11 DEF WriterCommits
  <2>. QED
    BY <2>1, <2>2, FinishedType
<1>12. CASE WriterFails
  <2>1. locker = Writer /\ Finished(FALSE) /\ rows' = rows
    BY <1>12 DEF WriterFails
  <2>2. doubtful' \subseteq 1 .. MaxEvents /\ mishaps' \in 0 .. MaxMishaps
    BY <1>12 DEF WriterFails, Mishap
  <2>. QED
    BY <2>1, <2>2, FinishedType
<1>13. CASE WriterUnsure
  <2>1. locker = Writer /\ Finished(FALSE) /\ rows' = rows \cup open
    BY <1>13 DEF WriterUnsure
  <2>2. \A r \in open : r.event \in 1 .. MaxEvents
    BY DEF RowRecs
  <2>3. doubtful' \subseteq 1 .. MaxEvents
    BY <1>13, <2>2, Zenon DEF WriterUnsure
  <2>4. mishaps' \in 0 .. MaxMishaps
    BY <1>13 DEF WriterUnsure, Mishap
  <2>. QED
    BY <2>1, <2>3, <2>4, FinishedType
<1>14. CASE ServerDies
  BY <1>14 DEF ServerDies, Mishap
<1>15. CASE NextMonth
  BY <1>15 DEF NextMonth, Months
<1>. QED
  BY <1>1, <1>2, <1>3, <1>4, <1>5, <1>6, <1>7, <1>8, <1>9, <1>11, <1>12, <1>13, <1>14, <1>15
     DEF AuditNext

-----------------------------------------------------------------------------
(* The lock and the numbers. *)

LEMMA LockingStep ==
  ASSUME AuditTypeOK, Locking, AuditNext
  PROVE  Locking'
<1>. USE DEF AuditTypeOK, Locking
<1>1. ASSUME NEW a \in Appenders, Make(a) PROVE Locking'
  BY <1>1 DEF Make
<1>2. ASSUME NEW a \in Appenders, Begin(a) PROVE Locking'
  BY <1>2 DEF Begin
<1>3. ASSUME NEW a \in Appenders, AppendRow(a) PROVE Locking'
  <2>1. PICK last \in Nat : open' = Chained(<<made[a]>>, last, a)
    BY <1>3, LastRow DEF AppendRow
  <2>2. \A r \in open' : r.by = a
    BY <2>1 DEF Chained
  <2>. QED
    BY <1>3, <2>2 DEF AppendRow
<1>4. ASSUME NEW a \in Appenders, CommitRow(a) \/ RollbackRow(a) PROVE Locking'
  <2>1. stage[a] = "open" /\ Closes(a)
    BY <1>4 DEF CommitRow, RollbackRow
  <2>. QED
    BY <2>1 DEF Closes
<1>5. ASSUME NEW a \in Appenders, NEW m \in Months, DropMonth(a, m) PROVE Locking'
  BY <1>5 DEF DropMonth
<1>6. CASE Enqueue
  BY <1>6 DEF Enqueue
<1>7. CASE Drain
  <2>. DEFINE n == IF Len(queue) < BatchCap THEN Len(queue) ELSE BatchCap
  <2>1. n \in 1 .. Len(queue)
    BY <1>7 DEF Drain
  <2>2. SubSeq(queue, 1, n) # <<>>
    BY <2>1
  <2>. QED
    BY <1>7, <2>2 DEF Drain
<1>8. CASE WriterAppends
  <2>1. PICK last \in Nat : open' = Chained(Due, last, Writer)
    BY <1>8, LastRow DEF WriterAppends
  <2>2. \A r \in open' : r.by = Writer
    BY <2>1 DEF Chained
  <2>. QED
    BY <1>8, <2>2 DEF WriterAppends
<1>9. CASE WriterCommits \/ WriterFails \/ WriterUnsure
  <2>1. PICK ok \in BOOLEAN : locker = Writer /\ Finished(ok)
    BY <1>9 DEF WriterCommits, WriterFails, WriterUnsure
  <2>. QED
    BY <2>1 DEF Finished
<1>10. CASE ServerDies
  BY <1>10 DEF ServerDies
<1>11. CASE NextMonth
  BY <1>11 DEF NextMonth
<1>. QED
  BY <1>1, <1>2, <1>3, <1>4, <1>5, <1>6, <1>7, <1>8, <1>9, <1>10, <1>11 DEF AuditNext

\* Rows are appended by one lock holder, linked to the last committed row and
\* numbered from the sequence, or committed, rolled back, dropped, or let be.
Appends(a) ==
  \E es \in Seq(EventRecs), seen \in Nat :
    /\ locker = Nobody /\ locker' = a
    /\ open' = Chained(es, seen, a) /\ lastSeq' = lastSeq + Len(es)
    /\ a \in Snapshotters \/ seen \in LastOf(rows)
    /\ UNCHANGED <<rows, dropped>>

Ends ==
  /\ open' = {} /\ rows' \in {rows, rows \cup open}
  /\ UNCHANGED <<lastSeq, dropped>>

Drops ==
  /\ locker = Nobody
  /\ rows' \subseteq rows /\ rows' \cup dropped' = rows \cup dropped
  /\ UNCHANGED <<lastSeq, open>>

LEMMA LogSteps ==
  ASSUME AuditTypeOK, Locking, AuditNext
  PROVE  \/ \E a \in Appenders \cup {Writer} : Appends(a)
         \/ Ends \/ Drops
         \/ UNCHANGED <<rows, dropped, lastSeq, open>>
<1>1. ASSUME NEW a \in Appenders, AppendRow(a) PROVE Appends(a)
  <2>1. <<made[a]>> \in Seq(EventRecs) /\ Len(<<made[a]>>) = 1
    BY <1>1 DEF AppendRow, AuditTypeOK
  <2>2. PICK last \in Nat : /\ open' = Chained(<<made[a]>>, last, a)
                            /\ a \in Snapshotters \/ last \in LastOf(rows)
    BY <1>1, LastRow DEF AppendRow, AuditTypeOK
  <2>. QED
    BY <1>1, <2>1, <2>2 DEF AppendRow, Appends
<1>2. CASE WriterAppends
  <2>1. Due \in Seq(EventRecs)
    BY <1>2, DueEvents DEF WriterAppends
  <2>2. PICK last \in Nat : open' = Chained(Due, last, Writer) /\ last \in LastOf(rows)
    BY <1>2, LastRow DEF WriterAppends
  <2>3. Appends(Writer)
    BY <1>2, <2>1, <2>2 DEF WriterAppends, Appends
  <2>. QED
    BY <2>3
<1>3. ASSUME NEW a \in Appenders, CommitRow(a) \/ RollbackRow(a) PROVE Ends
  BY <1>3 DEF CommitRow, RollbackRow, Closes, Ends
<1>4. CASE WriterCommits \/ WriterFails \/ WriterUnsure \/ ServerDies
  BY <1>4 DEF WriterCommits, WriterFails, WriterUnsure, ServerDies, Finished, Ends
<1>5. ASSUME NEW a \in Appenders, NEW m \in Months, DropMonth(a, m) PROVE Drops
  BY <1>5 DEF DropMonth, Drops
<1>6. ASSUME NEW a \in Appenders, Make(a) \/ Begin(a)
      PROVE  UNCHANGED <<rows, dropped, lastSeq, open>>
  BY <1>6 DEF Make, Begin
<1>7. CASE Enqueue \/ Drain \/ NextMonth
  BY <1>7 DEF Enqueue, Drain, NextMonth
<1>. QED
  BY <1>1, <1>2, <1>3, <1>4, <1>5, <1>6, <1>7 DEF AuditNext

LEMMA NumberingStep ==
  ASSUME AuditTypeOK, Locking, Numbering, AuditNext
  PROVE  Numbering'
<1>. USE DEF Numbering, Written
<1>1. ASSUME NEW a \in Appenders \cup {Writer}, Appends(a) PROVE Numbering'
  <2>1. PICK es \in Seq(EventRecs), seen \in Nat :
          open' = Chained(es, seen, a) /\ lastSeq' = lastSeq + Len(es)
    BY <1>1 DEF Appends
  <2>2. \A r \in open' : lastSeq < r.seq /\ r.seq <= lastSeq' /\ r.seq \in Nat
    BY <2>1, ChainedRows DEF RowRecs
  <2>3. \A q \in rows \cup dropped : q.seq \in Nat
    BY DEF AuditTypeOK, RowRecs
  <2>. QED
    BY <1>1, <2>1, <2>2, <2>3 DEF Appends, AuditTypeOK
<1>2. CASE Ends
  BY <1>2 DEF Ends
<1>3. CASE Drops
  BY <1>3 DEF Drops
<1>. QED
  BY <1>1, <1>2, <1>3, LogSteps

LEMMA LinkingStep ==
  ASSUME AuditTypeOK, Locking, Numbering, Linking, AuditNext
  PROVE  Linking'
<1>. USE DEF Linking, Adjacent, Named, Written
<1>0. /\ \A q \in rows \cup dropped \cup open : q.seq \in Nat /\ q.prev \in Nat
      /\ lastSeq \in Nat
  BY DEF AuditTypeOK, RowRecs
<1>1. ASSUME NEW a \in Appenders \cup {Writer}, Appends(a) PROVE Linking'
  <2>1. PICK es \in Seq(EventRecs), seen \in Nat :
          /\ open' = Chained(es, seen, a)
          /\ a \in Snapshotters \/ seen \in LastOf(rows)
    BY <1>1 DEF Appends
  <2>2. rows' = rows /\ dropped' = dropped /\ open = {}
    BY <1>1 DEF Appends, Locking
  <2>3. \A q \in rows \cup dropped : q.seq <= lastSeq
    BY DEF Numbering
  <2>6. \A q \in open' : q.seq \in Nat /\ q.prev \in Nat /\ lastSeq < q.seq
    BY <2>1, ChainedRows DEF RowRecs
  <2>4. ASSUME NEW r \in rows, r.by \notin Snapshotters PROVE Adjacent(r)' /\ Named(r)'
    <3>1. \A q \in open' : r.seq < q.seq
      BY <2>3, <2>6, <1>0
    <3>2. Adjacent(r) /\ Named(r) /\ r.seq \in Nat
      BY <2>4, <1>0 DEF Linking
    <3>. QED
      BY <2>2, <2>6, <3>1, <3>2
  <2>5. ASSUME NEW r \in open', r.by \notin Snapshotters PROVE Adjacent(r)' /\ Named(r)'
    <3>1. r.by = a
      BY <2>1, <2>5, ChainedRows
    <3>2. seen \in LastOf(rows)
      BY <2>1, <2>5, <3>1
    <3>3. PICK i \in 1 .. Len(es) : r = LinkedRow(es, seen, a, i)
      BY <2>1, <2>5, ChainedRows
    <3>4. r.seq = lastSeq + i /\ r.prev = IF i = 1 THEN seen ELSE lastSeq + i - 1
      BY <3>3 DEF LinkedRow
    <3>5. CASE i = 1
      <4>1. \A q \in rows : q.seq <= seen
        BY <3>2, LastRow
      <4>2. seen = 0 \/ \E q \in rows : q.seq = seen
        BY <3>2, LastRow
      <4>3. r.prev = seen /\ r.seq = lastSeq + 1
        BY <3>4, <3>5
      <4>4. Adjacent(r)'
        BY <4>1, <4>3, <2>2, <2>6, <1>0
      <4>5. Named(r)'
        BY <4>2, <4>3, <2>2, <2>3, <1>0
      <4>. QED
        BY <4>4, <4>5
    <3>6. CASE i # 1
      <4>. DEFINE q0 == LinkedRow(es, seen, a, i - 1)
      <4>1. i - 1 \in 1 .. Len(es) /\ i - 1 \in Nat
        BY <3>6
      <4>2. q0 \in open' /\ q0.seq = lastSeq + (i - 1)
        BY <4>1, <2>1, ChainedRows DEF LinkedRow
      <4>3. Named(r)'
        BY <4>2, <3>4, <3>6, <1>0
      <4>4. ASSUME NEW q \in open', q.seq < r.seq PROVE q.seq <= r.prev
        <5>1. r.prev = lastSeq + i - 1 /\ r.seq = lastSeq + i /\ i \in Nat
          BY <3>4, <3>6
        <5>. QED
          BY <4>4, <5>1, <2>6, <1>0
      <4>5. \A q \in rows : q.seq <= r.prev
        BY <2>3, <3>4, <3>6, <1>0
      <4>. QED
        BY <4>3, <4>4, <4>5, <2>2
    <3>. QED
      BY <3>5, <3>6
  <2>. QED
    BY <2>2, <2>4, <2>5
<1>2. CASE Ends
  BY <1>0, <1>2 DEF Ends, Numbering
<1>3. CASE Drops
  BY <1>0, <1>3 DEF Drops
<1>. QED
  BY <1>1, <1>2, <1>3, LogSteps
-----------------------------------------------------------------------------
(* The events. *)

LEMMA ContentsStep ==
  ASSUME AuditTypeOK, Locking, Custody, Contents, AuditNext
  PROVE  Contents'
<1>. USE DEF Contents
<1>1. ASSUME NEW a \in Appenders, AppendRow(a) PROVE Contents'
  <2>. DEFINE es == <<made[a]>>
  <2>1. PICK last \in Nat : open' = Chained(es, last, a)
    BY <1>1, LastRow DEF AppendRow, AuditTypeOK
  <2>2. es \in Seq(EventRecs) /\ Len(es) = 1 /\ es[1] = made[a]
    BY <1>1 DEF AppendRow, AuditTypeOK
  <2>. HIDE DEF es
  <2>3. \A r \in open' : r = LinkedRow(es, last, a, 1)
    <3>1. a \in Appenders \cup {Writer} /\ es \in Seq(EventRecs)
      BY <2>2
    <3>2. \A r \in Chained(es, last, a) : \E i \in 1 .. Len(es) : r = LinkedRow(es, last, a, i)
      BY <3>1, ChainedRows
    <3>. QED
      BY <2>1, <2>2, <3>2
  <2>4. \A r \in open' : r.event = made[a].id
    BY <2>2, <2>3 DEF LinkedRow
  <2>5. locker' = a /\ made' = made
    BY <1>1 DEF AppendRow
  <2>. QED
    BY <2>3, <2>4, <2>5
<1>2. CASE WriterAppends
  <2>1. PICK last \in Nat : open' = Chained(Due, last, Writer)
    BY <1>2, LastRow DEF WriterAppends
  <2>2. Due \in Seq(EventRecs) /\ \A i \in DOMAIN Due : i \in DOMAIN drained /\ Due[i] = drained[i]
    BY <1>2, DueEvents DEF WriterAppends
  <2>3. \A r \in open' : \E i \in DOMAIN Due : r = LinkedRow(Due, last, Writer, i)
    BY <2>1, <2>2, ChainedRows
  <2>4. \A i \in DOMAIN Due : LinkedRow(Due, last, Writer, i).event = Due[i].id
    BY DEF LinkedRow
  <2>5. locker' = Writer /\ Due' = Due
    BY <1>2 DEF WriterAppends, Due
  <2>6. \A i, j \in DOMAIN Due : Due[i].id = Due[j].id => i = j
    BY <2>2 DEF Custody, Once
  <2>7. \A r \in open' : \E i \in DOMAIN Due : r.event = Due[i].id
    BY <2>3, <2>4
  <2>8. \A r, s \in open' : r.event = s.event => r = s
    BY <2>3, <2>4, <2>6
  <2>. QED
    BY <2>5, <2>7, <2>8
<1>3. CASE open' = {}
  BY <1>3
<1>4. ASSUME NEW a \in Appenders, NEW m \in Months, Make(a) \/ Begin(a) \/ DropMonth(a, m)
      PROVE  Contents'
  <2>1. stage[a] # "open" /\ (\A b \in Appenders \ {a} : made'[b] = made[b])
        /\ UNCHANGED <<open, locker, drained, writer>>
    BY <1>4 DEF Make, Begin, DropMonth, AuditTypeOK
  <2>2. locker # a /\ Due' = Due
    BY <2>1 DEF Locking, Due
  <2>. QED
    BY <2>1, <2>2
<1>5. CASE Drain
  <2>1. locker # Writer /\ UNCHANGED <<open, locker, made>>
    BY <1>5 DEF Drain, Locking
  <2>. QED
    BY <2>1
<1>6. CASE Enqueue \/ NextMonth
  BY <1>6 DEF Enqueue, NextMonth, Due
<1>. QED
  BY <1>1, <1>2, <1>3, <1>4, <1>5, <1>6
     DEF AuditNext, CommitRow, RollbackRow, Closes, WriterCommits, WriterFails, WriterUnsure,
         Finished, ServerDies, Months, Make, Begin

LEMMA OnceStep ==
  ASSUME AuditTypeOK, Locking, Custody, Contents, WrittenOnce, AuditNext
  PROVE  WrittenOnce'
<1>. USE DEF WrittenOnce, Written
<1>1. CASE Written' \subseteq Written /\ doubtful \subseteq doubtful'
  BY <1>1
<1>2. ASSUME NEW a \in Appenders, CommitRow(a) PROVE WrittenOnce'
  <2>1. rows' \cup dropped' = rows \cup dropped \cup open /\ doubtful' = doubtful /\ stage[a] = "open"
    BY <1>2 DEF CommitRow, Closes
  <2>2. a \in Held /\ \A r \in open : r.event = made[a].id
    BY <2>1 DEF Held, Contents, Locking
  <2>3. \A r \in rows \cup dropped, s \in open : r.event # s.event
    BY <2>2 DEF Custody
  <2>. QED
    BY <2>1, <2>3 DEF Contents
<1>3. CASE WriterCommits \/ WriterUnsure
  <2>1. /\ rows' \cup dropped' = rows \cup dropped \cup open
        /\ doubtful \subseteq doubtful' /\ locker = Writer /\ drained # <<>>
    BY <1>3 DEF WriterCommits, WriterUnsure, Finished, Locking
  <2>2. \A s \in open : \E i \in DOMAIN drained : s.event = drained[i].id
    BY <2>1, DueEvents DEF Contents
  <2>3. \A r \in rows \cup dropped, s \in open : r.event = s.event => r.event \in doubtful
    BY <2>2 DEF Custody
  <2>. QED
    BY <2>1, <2>3 DEF Contents
<1>. QED
  BY <1>1, <1>2, <1>3
     DEF AuditNext, Make, Begin, AppendRow, RollbackRow, Closes, DropMonth, Enqueue, Drain,
         WriterAppends, WriterFails, Finished, ServerDies, NextMonth

LEMMA CustodyStep ==
  ASSUME AuditTypeOK, Locking, Custody, Contents, AuditNext
  PROVE  Custody'
<1>. USE DEF Custody, Once, Held, Written
<1>0. /\ queue \in Seq(EventRecs) /\ drained \in Seq(EventRecs) /\ events \in Nat
      /\ \A i \in DOMAIN queue : queue[i].id \in Nat
      /\ \A i \in DOMAIN drained : drained[i].id \in Nat
      /\ \A a \in Held : made[a].id \in Nat
      /\ \A r \in rows \cup dropped \cup open : r.event \in Nat
      /\ stage \in [Appenders -> {"idle", "made", "begun", "open"}] /\ DOMAIN made = Appenders
  <2>1. \A e \in EventRecs : e.id \in Nat
    BY DEF EventRecs
  <2>2. \A r \in RowRecs : r.event \in Nat
    BY DEF RowRecs
  <2>3. \A i \in DOMAIN queue : queue[i] \in EventRecs
    BY DEF AuditTypeOK
  <2>4. \A i \in DOMAIN drained : drained[i] \in EventRecs
    BY DEF AuditTypeOK
  <2>5. \A a \in Held : made[a] \in EventRecs
    BY DEF AuditTypeOK
  <2>. QED
    BY <2>1, <2>2, <2>3, <2>4, <2>5 DEF AuditTypeOK
<1>1. ASSUME NEW a \in Appenders, stage[a] = "idle", events < MaxEvents,
             made' = [made EXCEPT ![a] = NewEvent], stage' = [stage EXCEPT ![a] = "made"],
             events' = events + 1, rows' \cup dropped' = rows \cup dropped,
             UNCHANGED <<queue, drained, doubtful>>
      PROVE  Custody'
  <2>1. made'[a].id = events + 1 /\ \A b \in Appenders \ {a} : made'[b] = made[b]
    BY <1>0, <1>1, NewEventType
  <2>2. \A b \in Held' : b = a \/ b \in Held
    BY <1>0, <1>1
  <2>. QED
    BY <1>0, <1>1, <2>1, <2>2
<1>2. CASE Enqueue
  <2>1. NewEvent \in EventRecs /\ NewEvent.id = events + 1
    BY <1>2, NewEventType DEF Enqueue
  <2>2. UNCHANGED <<rows, dropped, drained, stage, made, doubtful>> /\ events' = events + 1
    BY <1>2 DEF Enqueue
  <2>3. CASE queue' = queue
    BY <1>0, <2>2, <2>3
  <2>4. CASE queue' = Append(queue, NewEvent)
    <3>1. \A i \in DOMAIN queue' : \/ queue'[i].id = events + 1 /\ i = Len(queue) + 1
                                   \/ i \in DOMAIN queue /\ queue'[i] = queue[i]
      <4>1. DOMAIN queue' = 1 .. Len(queue) + 1 /\ DOMAIN queue = 1 .. Len(queue) /\ Len(queue) \in Nat
        BY <1>0, <2>1, <2>4
      <4>2. queue'[Len(queue) + 1] = NewEvent /\ \A i \in 1 .. Len(queue) : queue'[i] = queue[i]
        BY <1>0, <2>1, <2>4
      <4>. QED
        BY <4>1, <4>2, <2>1
    <3>2. UNCHANGED <<made, Held>>
      BY <2>2
    <3>3. Once(queue)'
      BY <1>0, <3>1
    <3>4. /\ \A i \in DOMAIN queue', j \in DOMAIN drained : queue'[i].id # drained[j].id
          /\ \A i \in DOMAIN queue', b \in Held : queue'[i].id # made[b].id
          /\ \A i \in DOMAIN queue', r \in rows \cup dropped : queue'[i].id # r.event
          /\ \A i \in DOMAIN queue' : queue'[i].id <= events + 1
      <4>1. \A i \in DOMAIN queue' :
              \/ queue'[i].id = events + 1
              \/ queue'[i].id <= events /\ \E k \in DOMAIN queue : queue'[i] = queue[k]
        BY <3>1
      <4>2. \A i \in DOMAIN queue', j \in DOMAIN drained : queue'[i].id # drained[j].id
        BY <1>0, <4>1
      <4>3. \A i \in DOMAIN queue', b \in Held : queue'[i].id # made[b].id
        BY <1>0, <4>1
      <4>4. \A i \in DOMAIN queue', r \in rows \cup dropped : queue'[i].id # r.event
        BY <1>0, <4>1
      <4>5. \A i \in DOMAIN queue' : queue'[i].id <= events + 1
        BY <1>0, <4>1
      <4>. QED
        BY <4>2, <4>3, <4>4, <4>5
    <3>5. \A k \in Nat : k <= events => k <= events + 1
      BY <1>0
    <3>. QED
      BY <1>0, <2>2, <3>2, <3>3, <3>4, <3>5
  <2>. QED
    BY <1>2, <2>3, <2>4 DEF Enqueue
<1>3. ASSUME NEW a \in Appenders, CommitRow(a) PROVE Custody'
  <2>1. stage[a] = "open" /\ \A r \in open : r.event = made[a].id
    BY <1>3 DEF CommitRow, Contents, Locking
  <2>2. /\ rows' \cup dropped' = rows \cup dropped \cup open
        /\ UNCHANGED <<queue, drained, events, doubtful>>
    BY <1>3 DEF CommitRow, Closes
  <2>3. \A b \in Held' : b # a /\ b \in Held /\ made'[b] = made[b]
    BY <1>0, <1>3 DEF CommitRow, Closes
  <2>. QED
    BY <1>0, <2>1, <2>2, <2>3
<1>4. ASSUME NEW a \in Appenders, RollbackRow(a) PROVE Custody'
  <2>1. UNCHANGED <<rows, dropped, queue, drained, events, doubtful>>
    BY <1>4 DEF RollbackRow, Closes
  <2>2. \A b \in Held' : b # a /\ b \in Held /\ made'[b] = made[b]
    BY <1>0, <1>4 DEF RollbackRow, Closes
  <2>. QED
    BY <2>1, <2>2
<1>5. CASE Drain
  <2>. DEFINE n == IF Len(queue) < BatchCap THEN Len(queue) ELSE BatchCap
  <2>1. n \in 1 .. Len(queue) /\ drained' = SubSeq(queue, 1, n)
        /\ queue' = SubSeq(queue, n + 1, Len(queue))
        /\ UNCHANGED <<rows, dropped, events, stage, made, doubtful>>
    BY <1>0, <1>5 DEF Drain
  <2>. HIDE DEF n
  <2>2. \A i \in DOMAIN drained' : i \in DOMAIN queue /\ i <= n /\ drained'[i] = queue[i]
    BY <1>0, <2>1
  <2>3. \A i \in DOMAIN queue' : i + n \in DOMAIN queue /\ i \in Nat \ {0} /\ queue'[i] = queue[i + n]
    BY <1>0, <2>1
  <2>4. UNCHANGED <<made, Held>>
    BY <2>1
  <2>5. Once(queue)' /\ Once(drained)'
    <3>1. \A i, j \in DOMAIN queue' : queue'[i].id = queue'[j].id => i + n = j + n
      BY <2>3
    <3>2. n \in Nat /\ \A i \in DOMAIN queue' : i \in Nat
      BY <1>0, <2>1, <2>3
    <3>3. \A i, j \in DOMAIN queue' : queue'[i].id = queue'[j].id => i = j
      BY <3>1, <3>2
    <3>4. \A i, j \in DOMAIN drained' : drained'[i].id = drained'[j].id => i = j
      BY <2>2
    <3>. QED
      BY <3>3, <3>4
  <2>6. \A i \in DOMAIN queue', j \in DOMAIN drained' : queue'[i].id # drained'[j].id
    <3>. SUFFICES ASSUME NEW i \in DOMAIN queue', NEW j \in DOMAIN drained'
                  PROVE  queue'[i].id # drained'[j].id
      OBVIOUS
    <3>1. i + n # j
      BY <2>1, <2>2, <2>3
    <3>. QED
      BY <1>0, <2>2, <2>3, <3>1
  <2>7. /\ \A i \in DOMAIN queue' : queue'[i].id <= events
        /\ \A i \in DOMAIN drained' : drained'[i].id <= events
        /\ \A i \in DOMAIN queue', a \in Held : queue'[i].id # made[a].id
        /\ \A i \in DOMAIN drained', a \in Held : drained'[i].id # made[a].id
        /\ \A i \in DOMAIN queue', r \in rows \cup dropped : queue'[i].id # r.event
        /\ \A i \in DOMAIN drained', r \in rows \cup dropped : drained'[i].id # r.event
    BY <2>2, <2>3
  <2>. QED
    BY <2>1, <2>4, <2>5, <2>6, <2>7
<1>6. ASSUME NEW ok \in BOOLEAN, locker = Writer, Finished(ok)
      PROVE  /\ drained' = drained \/ \A i \in DOMAIN drained' :
                  writer # "batch" /\ i + 1 \in DOMAIN drained /\ i \in Nat \ {0}
                  /\ drained'[i] = drained[i + 1]
             /\ UNCHANGED <<queue, events, stage, made, dropped>>
             /\ drained' = drained => ~ok /\ writer = "batch"
  <2>1. drained # <<>> /\ Len(drained) \in Nat \ {0} /\ writer \in {"batch", "single"}
    BY <1>0, <1>6 DEF Locking, AuditTypeOK
  <2>2. Tail(drained) # drained /\ \A i \in DOMAIN Tail(drained) :
          i + 1 \in DOMAIN drained /\ i \in Nat \ {0} /\ Tail(drained)[i] = drained[i + 1]
    BY <1>0, <2>1
  <2>. QED
    BY <1>6, <2>1, <2>2 DEF Finished
<1>7. ASSUME NEW ok \in BOOLEAN, locker = Writer, Finished(ok),
             \/ rows' = rows /\ doubtful' = doubtful
             \/ /\ rows' = rows \cup open /\ doubtful \subseteq doubtful'
                /\ ok \/ \A r \in open : r.event \in doubtful'
      PROVE  Custody'
  <2>1. UNCHANGED <<queue, events, made, Held, dropped>>
    BY <1>6, <1>7
  <2>2. \A r \in open : \E i \in DOMAIN Due : r.event = Due[i].id
    BY <1>7 DEF Contents
  <2>3. \A r \in open : \E i \in DOMAIN drained :
          r.event = drained[i].id /\ (writer = "batch" \/ i = 1)
    <3>1. drained # <<>>
      BY <1>7 DEF Locking
    <3>2. writer # "batch" => \A i \in DOMAIN Due : i = 1
      BY <3>1, DueEvents
    <3>. QED
      BY <2>2, <3>1, <3>2, DueEvents
  <2>4. \A i \in DOMAIN drained' : \E k \in DOMAIN drained : drained'[i] = drained[k]
    BY <1>6, <1>7
  <2>5. \A i, j \in DOMAIN drained' : drained'[i].id = drained'[j].id => i = j
    BY <1>0, <1>6, <1>7
  <2>6. \A i \in DOMAIN drained', r \in open :
          drained'[i].id = r.event => ~ok /\ writer = "batch"
    <3>1. CASE drained' = drained
      BY <1>6, <1>7, <3>1
    <3>2. CASE drained' # drained
      <4>1. \A i \in DOMAIN drained' : writer # "batch" /\ i + 1 \in DOMAIN drained
                                   /\ i + 1 # 1 /\ drained'[i] = drained[i + 1]
        BY <1>6, <1>7, <3>2
      <4>2. \A r \in open : writer # "batch" => r.event = drained[1].id /\ 1 \in DOMAIN drained
        BY <2>3
      <4>. QED
        BY <4>1, <4>2
    <3>. QED
      BY <3>1, <3>2
  <2>7. \A r \in rows' \cup dropped' : r \in rows \cup dropped \/ (r \in open /\ rows' # rows)
    BY <1>7, <2>1
  <2>8. /\ \A r \in open : r.event <= events
        /\ \A i \in DOMAIN queue, r \in open : queue[i].id # r.event
        /\ \A a \in Held, r \in open : made[a].id # r.event
    BY <2>3
  <2>9. \A i \in DOMAIN drained', r \in rows' \cup dropped' :
          drained'[i].id = r.event => r.event \in doubtful'
    BY <1>7, <2>4, <2>6, <2>7
  <2>. QED
    BY <1>7, <2>1, <2>4, <2>5, <2>7, <2>8, <2>9
<1>8. CASE WriterCommits \/ WriterFails \/ WriterUnsure
  <2>1. CASE WriterCommits
    BY <1>7, <2>1 DEF WriterCommits
  <2>2. CASE WriterFails
    BY <1>7, <2>2 DEF WriterFails
  <2>3. CASE WriterUnsure
    BY <1>7, <2>3 DEF WriterUnsure
  <2>. QED
    BY <1>8, <2>1, <2>2, <2>3
<1>9. CASE ServerDies
  BY <1>0, <1>9 DEF ServerDies
<1>10. ASSUME NEW a \in Appenders, Begin(a) \/ AppendRow(a) PROVE Custody'
  <2>1. UNCHANGED <<rows, dropped, queue, drained, events, doubtful, made>>
    BY <1>10 DEF Begin, AppendRow
  <2>2. \A b \in Held' : b \in Held
    BY <1>0, <1>10 DEF Begin, AppendRow
  <2>. QED
    BY <2>1, <2>2
<1>11. CASE WriterAppends \/ NextMonth
  BY <1>11 DEF WriterAppends, NextMonth
<1>. QED
  BY <1>1, <1>2, <1>3, <1>4, <1>5, <1>8, <1>9, <1>10, <1>11
     DEF AuditNext, Make, DropMonth
-----------------------------------------------------------------------------
(* The theorems. *)

LEMMA AuditInvariant == AuditSpec => []AuditInv
<1>1. AuditInit => AuditInv
  BY DEF AuditInit, AuditInv, AuditTypeOK, Locking, Numbering, Linking, Custody, Contents,
         WrittenOnce, Written, Once, Held, Months, NoEvent
<1>2. AuditInv /\ [AuditNext]_auditVars => AuditInv'
  <2>1. ASSUME AuditInv, AuditNext PROVE AuditInv'
    BY <2>1, TypeStep, LockingStep, NumberingStep, LinkingStep, CustodyStep, ContentsStep,
       OnceStep DEF AuditInv
  <2>2. ASSUME AuditInv, UNCHANGED auditVars PROVE AuditInv'
    <3>. USE <2>2 DEF AuditInv, auditVars
    <3>1. AuditTypeOK'
      BY DEF AuditTypeOK
    <3>2. Locking' /\ Numbering' /\ WrittenOnce'
      BY DEF Locking, Numbering, WrittenOnce, Written
    <3>3. Linking'
      BY DEF Linking, Adjacent, Named, Written
    <3>4. Contents'
      BY DEF Contents, Due
    <3>5. Custody'
      BY DEF Custody, Once, Held, Written
    <3>. QED
      BY <3>1, <3>2, <3>3, <3>4, <3>5
  <2>. QED
    BY <2>1, <2>2
<1>. QED
  BY <1>1, <1>2, PTL DEF AuditSpec

\* Every variable of the log keeps its type (audit/mod.rs), the writer's batches
\* and the rows of open transactions included.
THEOREM AuditTypeCorrect == AuditSpec => []AuditTypeOK
BY AuditInvariant, PTL DEF AuditInv

\* No event is in the log twice unless a commit whose reply was lost is retried
\* (spawn_writer), for any capacity of the channel and any batch.
THEOREM NeverTwice == AuditSpec => []WrittenOnce
BY AuditInvariant, PTL DEF AuditInv

\* Verification reports nothing but what retention dropped or an appender with a
\* snapshot linked to a row it saw too early (append_chain_with, verify_chain).
THEOREM ExplainedBreaks == AuditSpec => []BreaksExplained
<1>1. AuditInv => BreaksExplained
  <2>. SUFFICES ASSUME AuditInv, NEW r \in Breaks, r.by \notin Snapshotters
                PROVE  \E q \in dropped : q.seq = r.prev
    BY DEF BreaksExplained
  <2>. DEFINE B == Before(r, rows)
  <2>1. r \in rows /\ B # {} /\ r.prev \notin LastOf(B)
    BY DEF Breaks
  <2>2. \A q \in rows \cup open \cup dropped : q.seq \in Nat \ {0} /\ q.prev \in Nat
    BY DEF AuditInv, AuditTypeOK, RowRecs
  <2>3. (\A q \in B : q.seq <= r.prev) /\ Named(r)
    BY <2>1 DEF AuditInv, Linking, Adjacent, Before
  <2>4. r.prev # 0
    BY <2>1, <2>2, <2>3 DEF Before
  <2>5. PICK q \in Written \cup open : q.seq = r.prev /\ q.seq < r.seq
    BY <2>3, <2>4 DEF Named
  <2>6. q \notin open
    BY <2>1, <2>2, <2>5 DEF AuditInv, Numbering, Written
  <2>7. q \notin rows
    BY <2>1, <2>3, <2>5 DEF Before, LastOf
  <2>. QED
    BY <2>5, <2>6, <2>7 DEF Written
<1>. QED
  BY <1>1, AuditInvariant, PTL

\* Rows become visible in the order of their numbers (append_chain_with): what
\* verification has walked past stays as it was.
THEOREM AtTheEnd == AuditSpec => AppendsAtEnd
<1>1. AuditInv /\ [AuditNext]_auditVars
        => [\A r \in rows' \ rows, q \in rows \cup dropped : q.seq < r.seq]_auditVars
  <2>. SUFFICES ASSUME AuditInv, AuditNext
                PROVE  \A r \in rows' \ rows, q \in rows \cup dropped : q.seq < r.seq
    OBVIOUS
  <2>1. rows' \ rows \subseteq open
    BY LogSteps DEF AuditInv, Appends, Ends, Drops
  <2>. QED
    BY <2>1 DEF AuditInv, Numbering, Written
<1>. QED
  BY <1>1, AuditInvariant, PTL DEF AuditSpec, AppendsAtEnd
=============================================================================
