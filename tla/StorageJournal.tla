--------------------------- MODULE StorageJournal ---------------------------
(***************************************************************************)
(* Replacing a document in the index: ml/app/storage_writes.py and its     *)
(* callers in ingest.py, qdrant_store.py and main.py.                      *)
(*                                                                         *)
(* A document lives in several Qdrant collections that no transaction      *)
(* spans.  Every storage operation of every replica runs under one file    *)
(* lock, and before its own work it restores each journal it finds.  A     *)
(* replacement saves the old parts in a journal, rewrites the parts one by *)
(* one, and removes the journal; when a write fails or the request is      *)
(* cancelled it puts the old parts back under the same lock.  A replica    *)
(* may die at any step: the operating system frees its lock, and the       *)
(* journal is what the next operation, or the next start, finds.           *)
(*                                                                         *)
(* A search is two storage operations with ranking and model calls between *)
(* them: it reads the passages, lets go of the lock, and comes back for    *)
(* the parents they name.                                                  *)
(***************************************************************************)
EXTENDS Naturals, Sequences

CONSTANTS
  Docs,          \* documents
  Workers,       \* requests at work, in whichever replica
  MaxWrites,     \* bound: replacements
  MaxRemovals,   \* bound: removals
  MaxReads,      \* bound: searches
  MaxTroubles    \* bound: crashes, failures, cancellations and busy refusals

VARIABLES
  points,        \* document -> part -> version, Gone or Torn: what Qdrant holds
  journals,      \* the journal files: the document and its old parts
  asked,         \* worker -> the request it waits to run
  hold,          \* the holder of the lock and where it is, or Free
  writes, removals, reads, troubles

storeVars == <<points, journals, asked, hold, writes, removals, reads, troubles>>

ASSUME StorageBounds == {MaxWrites, MaxRemovals, MaxReads, MaxTroubles} \subseteq Nat

Gone  == 0
Torn  == MaxWrites + 1      \* some points of the part and not others
Parts == {"active", "desired", "parents", "notes"}
PartNames == <<"active", "desired", "parents", "notes">>

Versions == 1 .. MaxWrites
Whole(v) == [p \in Parts |-> IF p = "notes" THEN Gone ELSE v]
Empty    == [p \in Parts |-> Gone]

NoRequest == [op |-> "none"]
Free      == [owner |-> "nobody"]

\* The ingest writes: delete_doc on the active and on the desired collection
\* (each drops the parents and the notes as well), then the new parents, then
\* the passages of the two collections.
WritesOf(v) ==
  << <<"active", Gone>>, <<"parents", Gone>>, <<"notes", Gone>>, <<"desired", Gone>>,
     <<"parents", v>>, <<"active", v>>, <<"desired", v>> >>

\* delete_doc on the serving collection alone.
Removals == << <<"active", Gone>>, <<"parents", Gone>>, <<"notes", Gone>> >>

\* _restore: each part is emptied, then given its old points.
Restores(old) ==
  [i \in 1 .. 8 |-> LET p == PartNames[(i + 1) \div 2] IN <<p, IF i % 2 = 1 THEN Gone ELSE old[p]>>]

Trouble  == troubles < MaxTroubles /\ troubles' = troubles + 1
NoTrouble == UNCHANGED troubles

Put(d, w) == points' = [points EXCEPT ![d][w[1]] = w[2]]

Unlock == hold' = Free

-----------------------------------------------------------------------------
StoreInit ==
  /\ points = [d \in Docs |-> Empty]
  /\ journals = {}
  /\ asked = [w \in Workers |-> NoRequest]
  /\ hold = Free
  /\ writes = 0 /\ removals = 0 /\ reads = 0 /\ troubles = 0

\* --- A request reaches a worker -------------------------------------------

AskWrite(w, d) ==
  /\ asked[w] = NoRequest /\ writes < MaxWrites
  /\ writes' = writes + 1
  /\ asked' = [asked EXCEPT ![w] = [op |-> "write", doc |-> d, version |-> writes + 1]]
  /\ UNCHANGED <<points, journals, hold, removals, reads, troubles>>

AskRemove(w, d) ==
  /\ asked[w] = NoRequest /\ removals < MaxRemovals
  /\ removals' = removals + 1
  /\ asked' = [asked EXCEPT ![w] = [op |-> "remove", doc |-> d]]
  /\ UNCHANGED <<points, journals, hold, writes, reads, troubles>>

AskSearch(w, d) ==
  /\ asked[w] = NoRequest /\ reads < MaxReads
  /\ reads' = reads + 1
  /\ asked' = [asked EXCEPT ![w] = [op |-> "search", doc |-> d]]
  /\ UNCHANGED <<points, journals, hold, writes, removals, troubles>>

\* --- The fence -------------------------------------------------------------

Holds(w) == hold # Free /\ hold.owner = w

\* fenced(): the lock is taken when nobody has it; recovery comes first.
Acquire(w) ==
  /\ asked[w].op \notin {"none", "down"}
  /\ hold = Free
  /\ hold' = [owner |-> w, phase |-> "recover", step |-> 1]
  /\ UNCHANGED <<points, journals, asked, writes, removals, reads, troubles>>

\* fenced(): five seconds behind another holder are too long.
StoreBusy(w) ==
  /\ asked[w].op \in {"write", "remove", "search", "parents"}
  /\ hold # Free /\ hold.owner # w
  /\ Trouble
  /\ asked' = [asked EXCEPT ![w] = NoRequest]
  /\ UNCHANGED <<points, journals, hold, writes, removals, reads>>

\* _recover_locked(): every journal is put back, a write at a time; its file
\* goes when its last part is back.
RecoverPart(w) ==
  /\ Holds(w) /\ hold.phase = "recover" /\ hold.step <= 8
  /\ \E j \in journals :
       /\ Put(j.doc, Restores(j.old)[hold.step])
       /\ hold' = [hold EXCEPT !.step = @ + 1]
  /\ NoTrouble
  /\ UNCHANGED <<journals, asked, writes, removals, reads>>

RecoverDone(w) ==
  /\ Holds(w) /\ hold.phase = "recover" /\ hold.step = 9
  /\ \E j \in journals : journals' = journals \ {j}
  /\ hold' = [hold EXCEPT !.step = 1]
  /\ NoTrouble
  /\ UNCHANGED <<points, asked, writes, removals, reads>>

\* Mutant: a read does not wait for recovery.
CleanForWrites(w) == journals = {} \/ asked[w].op \in {"search", "parents"}

\* _recover_locked() has found nothing, or nothing more.
Recovered(w) == journals = {}

\* Nothing is left to recover: a start-up is over, a removal or a read begins,
\* a replacement saves the old parts first.
Enter(w) ==
  /\ Holds(w) /\ hold.phase = "recover" /\ hold.step = 1
  /\ Recovered(w)
  /\ IF asked[w].op = "start"
       THEN /\ Unlock
            /\ asked' = [asked EXCEPT ![w] = NoRequest]
            /\ UNCHANGED journals
       ELSE /\ hold' = [hold EXCEPT !.phase = "body"]
            /\ journals' = IF asked[w].op = "write"
                             THEN journals \cup {[doc |-> asked[w].doc, old |-> points[asked[w].doc]]}
                             ELSE journals
            /\ UNCHANGED asked
  /\ UNCHANGED <<points, writes, removals, reads, troubles>>

\* --- The body --------------------------------------------------------------

InBody(w, op) == Holds(w) /\ hold.phase = "body" /\ asked[w].op = op

WritePart(w) ==
  /\ InBody(w, "write") /\ hold.step <= 7
  /\ Put(asked[w].doc, WritesOf(asked[w].version)[hold.step])
  /\ hold' = [hold EXCEPT !.step = @ + 1]
  /\ UNCHANGED <<journals, asked, writes, removals, reads, troubles>>

\* The replacement is done when its journal is removed.
CommitWrite(w) ==
  /\ InBody(w, "write") /\ hold.step = 8
  /\ journals' = {}
  /\ Unlock
  /\ asked' = [asked EXCEPT ![w] = NoRequest]
  /\ UNCHANGED <<points, writes, removals, reads, troubles>>

RemovePart(w) ==
  /\ InBody(w, "remove") /\ hold.step <= 3
  /\ Put(asked[w].doc, Removals[hold.step])
  /\ hold' = [hold EXCEPT !.step = @ + 1]
  /\ UNCHANGED <<journals, asked, writes, removals, reads, troubles>>

Removed(w) ==
  /\ InBody(w, "remove") /\ hold.step = 4
  /\ Unlock
  /\ asked' = [asked EXCEPT ![w] = NoRequest]
  /\ UNCHANGED <<points, journals, writes, removals, reads, troubles>>

\* hybrid_search: a search that finds nothing is over; otherwise it goes on to
\* rank the passages, without the lock.
ReadPassages(w) ==
  /\ InBody(w, "search")
  /\ LET d == asked[w].doc  v == points[d]["active"] IN
       asked' = [asked EXCEPT ![w] =
         IF v = Gone THEN NoRequest ELSE [op |-> "parents", doc |-> d, of |-> v]]
  /\ Unlock
  /\ UNCHANGED <<points, journals, writes, removals, reads, troubles>>

\* Every replacement gives its parents fresh ids: what is found by the ids of
\* one version is of that version, or nothing.
FoundBy(v, stored) == IF stored \in {v, Torn} THEN stored ELSE Gone

\* retrieve_parents: an operation of its own, under a lock of its own.
ReadParents(w) ==
  /\ InBody(w, "parents")
  /\ LET q == asked[w] IN
       asked' = [asked EXCEPT ![w] =
         [op |-> "answer", doc |-> q.doc, of |-> q.of,
          found |-> FoundBy(q.of, points[q.doc]["parents"])]]
  /\ UNCHANGED <<points, journals, hold, writes, removals, reads, troubles>>

\* The operation returns; a passage without its parent stands for itself.
SearchDone(w) ==
  /\ InBody(w, "answer")
  /\ Unlock
  /\ asked' = [asked EXCEPT ![w] = NoRequest]
  /\ UNCHANGED <<points, journals, writes, removals, reads, troubles>>

\* --- What goes wrong -------------------------------------------------------

\* The write an exception interrupts may have done nothing, some or all of its
\* work.
Interrupted(d, w) ==
  \/ UNCHANGED points
  \/ Put(d, w)
  \/ w[2] # Gone /\ Put(d, <<w[1], Torn>>)

\* Mutant: the error leaves the context manager without compensation.
WriteFailsAsIs(w) ==
  /\ InBody(w, "write")
  /\ Trouble
  /\ journals' = {}
  /\ Unlock
  /\ asked' = [asked EXCEPT ![w] = NoRequest]
  /\ UNCHANGED <<points, writes, removals, reads>>

\* replacement(): a failed write or a cancelled request turns to compensation
\* under the same lock.
WriteFails(w) ==
  /\ InBody(w, "write")
  /\ Trouble
  /\ IF hold.step <= 7
       THEN Interrupted(asked[w].doc, WritesOf(asked[w].version)[hold.step])
       ELSE UNCHANGED points
  /\ hold' = [hold EXCEPT !.phase = "compensate", !.step = 1]
  /\ UNCHANGED <<journals, asked, writes, removals, reads>>

Compensate(w) ==
  /\ Holds(w) /\ hold.phase = "compensate" /\ hold.step <= 8
  /\ \E j \in journals : Put(j.doc, Restores(j.old)[hold.step])
  /\ hold' = [hold EXCEPT !.step = @ + 1]
  /\ UNCHANGED <<journals, asked, writes, removals, reads, troubles>>

Compensated(w) ==
  /\ Holds(w) /\ hold.phase = "compensate" /\ hold.step = 9
  /\ journals' = {}
  /\ Unlock
  /\ asked' = [asked EXCEPT ![w] = NoRequest]
  /\ UNCHANGED <<points, writes, removals, reads, troubles>>

\* A restoring write fails, in compensation or in recovery: the journal stays,
\* the request is refused.  A refused start-up takes the replica down again.
RestoreFails(w) ==
  /\ Holds(w) /\ hold.phase \in {"recover", "compensate"} /\ hold.step <= 8
  /\ journals # {}
  /\ Trouble
  /\ \E j \in journals : Interrupted(j.doc, Restores(j.old)[hold.step])
  /\ Unlock
  /\ asked' = [asked EXCEPT ![w] = IF asked[w].op = "start" THEN [op |-> "down"] ELSE NoRequest]
  /\ UNCHANGED <<journals, writes, removals, reads>>

\* A removal or a read is interrupted: the caller sees the error, nothing is
\* undone.
BodyFails(w) ==
  /\ Holds(w) /\ hold.phase = "body" /\ asked[w].op \in {"remove", "search", "parents"}
  /\ Trouble
  /\ IF asked[w].op = "remove" /\ hold.step <= 3
       THEN Interrupted(asked[w].doc, Removals[hold.step])
       ELSE UNCHANGED points
  /\ Unlock
  /\ asked' = [asked EXCEPT ![w] = NoRequest]
  /\ UNCHANGED <<journals, writes, removals, reads>>

\* The next write to Qdrant of the lock's holder, which may be under way.
NextWrite(w) ==
  CASE hold.phase = "body" /\ asked[w].op = "write" /\ hold.step <= 7 ->
         {<<asked[w].doc, WritesOf(asked[w].version)[hold.step]>>}
    [] hold.phase = "body" /\ asked[w].op = "remove" /\ hold.step <= 3 ->
         {<<asked[w].doc, Removals[hold.step]>>}
    [] hold.phase \in {"recover", "compensate"} /\ hold.step <= 8 ->
         {<<j.doc, Restores(j.old)[hold.step]>> : j \in journals}
    [] OTHER -> {}

\* The replica dies and its lock is freed, whatever it was doing.
ReplicaDies(w) ==
  /\ asked[w].op \notin {"none", "down"}
  /\ Trouble
  /\ IF Holds(w)
       THEN /\ \/ UNCHANGED points
               \/ \E n \in NextWrite(w) : Interrupted(n[1], n[2])
            /\ Unlock
       ELSE UNCHANGED <<points, hold>>
  /\ asked' = [asked EXCEPT ![w] = [op |-> "down"]]
  /\ UNCHANGED <<journals, writes, removals, reads>>

\* Mutant: a replica serves at once.
RestartServes(w) ==
  /\ asked[w].op = "down"
  /\ asked' = [asked EXCEPT ![w] = NoRequest]
  /\ UNCHANGED <<points, journals, hold, writes, removals, reads, troubles>>

\* main.py lifespan: a replica recovers before it serves.
Restart(w) ==
  /\ asked[w].op = "down"
  /\ asked' = [asked EXCEPT ![w] = [op |-> "start"]]
  /\ UNCHANGED <<points, journals, hold, writes, removals, reads, troubles>>

-----------------------------------------------------------------------------
Serve(w) ==
  \/ RecoverPart(w) \/ RecoverDone(w) \/ Enter(w)
  \/ WritePart(w) \/ CommitWrite(w) \/ RemovePart(w) \/ Removed(w)
  \/ ReadPassages(w) \/ ReadParents(w) \/ SearchDone(w)
  \/ Compensate(w) \/ Compensated(w)

Ask(w) == \E d \in Docs : AskWrite(w, d) \/ AskRemove(w, d) \/ AskSearch(w, d)

StoreFault(w) == StoreBusy(w) \/ WriteFails(w) \/ RestoreFails(w) \/ BodyFails(w) \/ ReplicaDies(w)

StoreNext == \E w \in Workers : Ask(w) \/ Acquire(w) \/ Serve(w) \/ StoreFault(w) \/ Restart(w)

StoreSpec == StoreInit /\ [][StoreNext]_storeVars

\* Fairness.  The holder's calls to Qdrant return; a waiting request tries the
\* lock every 25 ms and gets it sooner or later; a dead replica is started
\* again by whatever supervises it.
StoreFairness ==
  /\ WF_storeVars(\E w \in Workers : Serve(w))
  /\ \A w \in Workers : SF_storeVars(Acquire(w)) /\ WF_storeVars(Restart(w))

StoreFairSpec == StoreSpec /\ StoreFairness

-----------------------------------------------------------------------------
Requests ==
  {NoRequest} \cup [op : {"start", "down"}]
    \cup [op : {"remove", "search"}, doc : Docs]
    \cup [op : {"write"}, doc : Docs, version : Versions]
    \cup [op : {"parents"}, doc : Docs, of : Versions \cup {Torn}]
    \cup [op : {"answer"}, doc : Docs, of : Versions \cup {Torn},
          found : Versions \cup {Gone, Torn}]

Stored == [Parts -> Versions \cup {Gone}]

\* Between operations and inside every body but a write's, what Qdrant holds is
\* whole points of whole versions; torn parts exist only under a journal.
StoreTypeOK ==
  /\ points \in [Docs -> [Parts -> Versions \cup {Gone, Torn}]]
  /\ journals \subseteq [doc : Docs, old : Stored]
  /\ asked \in [Workers -> Requests]
  /\ hold = Free \/ hold \in [owner : Workers, phase : {"recover", "body", "compensate"}, step : 1 .. 9]
  /\ writes \in 0 .. MaxWrites /\ removals \in 0 .. MaxRemovals
  /\ reads \in 0 .. MaxReads /\ troubles \in 0 .. MaxTroubles

\* There is never a second journal: a replacement that would write one runs
\* only after the first is restored, so the cap of 128 pending journals of
\* _recover_locked is never near.
OneJournal == \A i, j \in journals : i = j

\* A search is never given half a document.  Its passages are of one version,
\* whole; the parents it comes back for are theirs or are gone; and as long as
\* the document still serves those passages their parents are there, whatever
\* replacements began, failed, died and were undone between its two reads
\* (storage_writes.py guarded, _recover_locked).
ReadsWhole ==
  \A w \in Workers :
    LET q == asked[w] IN
      /\ q.op \in {"parents", "answer"} => q.of # Torn
      /\ q.op = "answer" =>
           /\ q.found \in {q.of, Gone}
           /\ points[q.doc]["active"] = q.of => q.found = q.of

\* What readers are served: the old parts while a journal is there, the stored
\* ones otherwise.
Served == [d \in Docs |->
  IF \E j \in journals : j.doc = d THEN (CHOOSE j \in journals : j.doc = d).old ELSE points[d]]

Store == INSTANCE DocumentStore WITH content <- Served

\* A replacement takes effect in one step, the removal of its journal, and no
\* crash, failure or cancellation is seen by the readers of the index.
ReplacesAtOnce == Store!DocSpec

\* A replica that died over a document does not leave it unreadable: some
\* start-up restores it.
JournalSettles ==
  (journals # {} /\ \E w \in Workers : asked[w].op = "down") ~> journals = {}
=============================================================================
