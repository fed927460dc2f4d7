----------------------------- MODULE FlowsProofs -----------------------------
(***************************************************************************)
(* For any schedulers, sockets, scopes, requests and bounds, part by part.  *)
(*                                                                         *)
(* Automations.  No occurrence is stepped over, a missed one is made up    *)
(* once, and no more runs in folders go on at a time than schedulers,      *)
(* wherever the owner moves the automation.  The argument counts: a run in *)
(* a folder is admitted only when none goes on, and from then on counts as *)
(* one of its scheduler's; a scheduler past its enqueueing has             *)
(* covered the occurrence it is about to step over; and what a socket has  *)
(* claimed is still counted among the occurrences nobody has made up.      *)
(*                                                                         *)
(* Workflow firings.  A firing posts at most once, a routed one delivers   *)
(* exactly when its run and its job succeed, and the queue tells the truth *)
(* about it.  A queued run has one claimant, ever.  Until it has published *)
(* nothing is posted, and a routed task is buried only when the run or the *)
(* job has failed, after which the publication's fence stays closed.       *)
(*                                                                         *)
(* Provider cooldowns.  One probe at a time, recovery only by a request    *)
(* admitted after the last failure, and no two transactions that wait for  *)
(* each other.  A row is locked exactly by the claim or the note that has  *)
(* visited it, each visits its rows in ascending order, and the request    *)
(* admitted as the probe of a row keeps its token until it is over.        *)
(***************************************************************************)
EXTENDS WorkflowRun, Automations, HealthScopes, WellFoundedInduction,
        FiniteSetTheorems, TLAPS

-----------------------------------------------------------------------------
(* Automations: the invariant. *)

Places == {"down", "idle", "due", "fired", "start", "admitted", "turn"}
Rows == [at : Places, upto : Nat, tries : 0 .. TaskRetries - 1, folder : Folders \cup {NoFolder}]
Catches == [at : {"idle", "claiming", "claimed"}] \cup [at : {"looking"}, of : Machines]

\* What a scheduler may be doing: a run admitted to a folder, a turn in a folder,
\* a turn on the server.
Entering == {r \in Rows : r.at = "admitted" /\ r.folder # NoFolder}
Inside == {r \in Rows : r.at = "turn" /\ r.folder # NoFolder}
OnServer == {r \in Rows : r.at = "turn" /\ r.folder = NoFolder}
Turns == {r \in Rows : r.at = "turn"}

Busy(rows) == {s \in Schedulers : sched[s] \in rows}
Up == {s \in Schedulers : sched[s].at # "down"}
Claimed == {k \in Sockets : socket[k].at = "claimed"}

AutoShape ==
  /\ sched \in [Schedulers -> Rows]
  /\ covered \in Nat /\ unmade \in Nat
  /\ IsFiniteSet(Up) /\ IsFiniteSet(Claimed)

\* A scheduler past its enqueueing has covered what it is about to step over.
Enqueued == \A s \in Schedulers : sched[s].at = "fired" => sched[s].upto <= covered

\* Whoever was admitted to a folder counts as if it ran already, and every turn has
\* its record, in a folder or on the server.
AdmittedCount ==
  /\ inFolder.running + inFolder.parked + Cardinality(Busy(Entering)) <= Cardinality(Up)
  /\ Cardinality(Busy(Inside)) <= inFolder.running
  /\ inFolder.running + Cardinality(Busy(OnServer)) <= history["running"]

AutoInv ==
  AutoShape /\ AutoTypeOK /\ Enqueued /\ NoOccurrenceLost /\ MadeUpOnce /\ AdmittedCount

LEMMA AutoConstants ==
  /\ TaskRetries \in Nat \ {0} /\ MaxOccurrences \in Nat /\ MaxMoves \in Nat
  /\ \A up \in UpSchedulers : up \in SUBSET Schedulers /\ IsFiniteSet(up)
BY AutomationConstants

-----------------------------------------------------------------------------
(* Counting. *)

One(fact) == IF fact THEN 1 ELSE 0

LEMMA OneMore ==
  ASSUME NEW D, NEW f \in [D -> Nat], NEW n
  PROVE  [f EXCEPT ![n] = @ + 1] \in [D -> Nat]
<1>1. CASE n \in D
  <2>1. f[n] + 1 \in Nat
    BY <1>1
  <2>. QED
    BY <2>1
<1>2. CASE n \notin D
  <2>1. [f EXCEPT ![n] = @ + 1] = f
    BY <1>2
  <2>. QED
    BY <2>1
<1>. QED
  BY <1>1, <1>2

LEMMA CountChange ==
  ASSUME NEW A, NEW B, NEW x, IsFiniteSet(A), A \ {x} = B \ {x}
  PROVE  /\ IsFiniteSet(B) /\ Cardinality(A) \in Nat /\ Cardinality(B) \in Nat
         /\ x \in A => Cardinality(A) > 0
         /\ Cardinality(B) = Cardinality(A) + One(x \in B) - One(x \in A)
<1>0. IsFiniteSet(A \ {x}) /\ Cardinality(A \ {x}) \in Nat /\ Cardinality(A) \in Nat
  BY FS_Difference, FS_CardinalityType, FS_RemoveElement
<1>1. ASSUME NEW C, C \ {x} = A \ {x}
      PROVE  IsFiniteSet(C) /\ Cardinality(C) = Cardinality(A \ {x}) + One(x \in C)
  <2>1. CASE x \in C
    <3>1. C = (A \ {x}) \cup {x} /\ x \notin A \ {x}
      BY <1>1, <2>1
    <3>2. IsFiniteSet((A \ {x}) \cup {x})
          /\ Cardinality((A \ {x}) \cup {x}) = Cardinality(A \ {x}) + 1
      BY <1>0, <3>1, FS_AddElement
    <3>. QED
      BY <2>1, <3>1, <3>2 DEF One
  <2>2. CASE x \notin C
    <3>1. C = A \ {x}
      BY <1>1, <2>2
    <3>. QED
      BY <1>0, <2>2, <3>1 DEF One
  <2>. QED
    BY <2>1, <2>2
<1>2. Cardinality(A) = Cardinality(A \ {x}) + One(x \in A)
  BY <1>1
<1>3. IsFiniteSet(B) /\ Cardinality(B) = Cardinality(A \ {x}) + One(x \in B)
  BY <1>1
<1>. QED
  BY <1>0, <1>2, <1>3 DEF One

\* What one scheduler's move does to the counts.
LEMMA SchedulerCounts ==
  ASSUME AutoShape, NEW s \in Schedulers, NEW to \in Rows, sched[s].at # "down", to.at # "down",
         sched' = [sched EXCEPT ![s] = to]
  PROVE  /\ sched' \in [Schedulers -> Rows]
         /\ Up' = Up /\ IsFiniteSet(Up) /\ Cardinality(Up) \in Nat
         /\ \A rows \in {Entering, Inside, OnServer, Turns} :
              /\ Cardinality(Busy(rows)) \in Nat /\ Cardinality(Busy(rows)') \in Nat
              /\ sched[s] \in rows => Cardinality(Busy(rows)) > 0
              /\ Cardinality(Busy(rows)') =
                   Cardinality(Busy(rows)) + One(to \in rows) - One(sched[s] \in rows)
              /\ Cardinality(Busy(rows)') <= Cardinality(Up)
<1>1. sched' \in [Schedulers -> Rows]
  BY DEF AutoShape
<1>2. Up' = Up /\ IsFiniteSet(Up) /\ Cardinality(Up) \in Nat
  BY FS_CardinalityType DEF Up, AutoShape
<1>3. ASSUME NEW rows \in {Entering, Inside, OnServer, Turns}
      PROVE  /\ Cardinality(Busy(rows)) \in Nat /\ Cardinality(Busy(rows)') \in Nat
             /\ sched[s] \in rows => Cardinality(Busy(rows)) > 0
             /\ Cardinality(Busy(rows)') =
                  Cardinality(Busy(rows)) + One(to \in rows) - One(sched[s] \in rows)
             /\ Cardinality(Busy(rows)') <= Cardinality(Up)
  <2>0. \A r \in rows : r.at # "down"
    BY <1>3 DEF Entering, Inside, OnServer, Turns
  <2>. DEFINE A == {r \in Schedulers : sched[r] \in rows}
              B == {r \in Schedulers : sched'[r] \in rows}
  <2>1. A \subseteq Up /\ B \subseteq Up
    BY <1>2, <2>0 DEF Up
  <2>2. IsFiniteSet(A) /\ Cardinality(B) <= Cardinality(Up)
    BY <1>2, <2>1, FS_Subset
  <2>3. A \ {s} = B \ {s} /\ (s \in A <=> sched[s] \in rows) /\ (s \in B <=> to \in rows)
    BY DEF AutoShape
  <2>. HIDE DEF A, B
  <2>4. /\ Cardinality(A) \in Nat /\ Cardinality(B) \in Nat
        /\ s \in A => Cardinality(A) > 0
        /\ Cardinality(B) = Cardinality(A) + One(s \in B) - One(s \in A)
    BY <2>2, <2>3, CountChange
  <2>5. Busy(rows) = A /\ Busy(rows)' = B
    BY DEF A, B, Busy, Entering, Inside, OnServer, Turns
  <2>. QED
    BY <2>2, <2>3, <2>4, <2>5 DEF One
<1>. QED
  BY <1>1, <1>2, <1>3

-----------------------------------------------------------------------------
(* Steps. *)

\* A scheduler goes on to `to'.
GoesOn(s, to) == sched[s].at # "down" /\ to.at # "down" /\ sched' = [sched EXCEPT ![s] = to]

Working(s) ==
  \/ Scan(s) \/ Miss(s) \/ Admit(s) \/ BeginRun(s) \/ FinishTurn(s) \/ Perish(s)
  \/ \E n \in DOMAIN tasks : TakeTask(s, n)

\* The rest leaves the schedulers where they are.
Elsewhere ==
  \/ Tick \/ Answer \/ ExpireApprovals \/ Update \/ RunNow
  \/ \E m \in Machines : Disconnect(m)
  \/ \E f \in Folders : Withdraw(f)
  \/ \E k \in Sockets : CatchUp(k) \/ \E m \in Machines : Connect(k, m)

LEMMA AutoSteps == AutoNext => Elsewhere \/ \E s \in Schedulers : Working(s)
BY DEF AutoNext, Elsewhere, Working, Scan, Serve

\* Where a scheduler goes,
Goes(s, to) ==
  /\ GoesOn(s, to) /\ to.upto <= now
  /\ UNCHANGED <<now, folder, revoked, socket, reachable, autoStatus>>
  /\ tasks' \in [0 .. TaskRetries - 1 -> Nat]

\* what that does to the runs that go on and to the records,
Runs(s, to) ==
  /\ history' \in [Kinds -> Nat] /\ inFolder' \in [running : Nat, parked : Nat]
  /\ history'["running"] + One(sched[s] \in Turns) >= history["running"] + One(to \in Turns)
  /\ inFolder'.running + One(sched[s] \in Inside) >= inFolder.running + One(to \in Inside)
  /\ history'["running"] + inFolder.running + One(sched[s] \in OnServer)
       >= history["running"] + inFolder'.running + One(to \in OnServer)
  /\ history'["asked"] + history'["answered"] + inFolder.parked
       >= history["asked"] + history["answered"] + inFolder'.parked
  /\ \/ inFolder'.running + inFolder'.parked + One(to \in Entering)
          <= inFolder.running + inFolder.parked + One(sched[s] \in Entering)
     \/ inFolder'.running + inFolder'.parked = 0
  /\ \/ unmade' = unmade /\ history'["missed"] = history["missed"]
     \/ unmade' = unmade + 1 /\ history'["missed"] = history["missed"] + 1

\* and to the calendar.
Dates(s, to) ==
  /\ \/ covered' = covered /\ to.at # "fired"
     \/ sched[s].at = "due" /\ to.upto = sched[s].upto /\ covered' = Later(to.upto)
  /\ \/ next' = next
     \/ sched[s].at = "fired" /\ next' = sched[s].upto + 1

LEMMA RecordCounts ==
  ASSUME AutoShape, AutoTypeOK
  PROVE  /\ history["running"] \in Nat /\ history["asked"] \in Nat /\ history["answered"] \in Nat
         /\ history["orphaned"] \in Nat /\ history["missed"] \in Nat
         /\ history \in [Kinds -> Nat]
         /\ inFolder \in [running : Nat, parked : Nat]
         /\ inFolder.running \in Nat /\ inFolder.parked \in Nat
         /\ inFolder.running <= history["running"]
         /\ inFolder.parked <= history["asked"] + history["answered"]
         /\ unmade \in Nat /\ covered \in Nat /\ now \in Nat
BY AutoConstants DEF AutoShape, AutoTypeOK, Kinds

LEMMA NothingGoesOn ==
  ASSUME AutoShape, AutoTypeOK, ~(Going > 0)
  PROVE  inFolder.running + inFolder.parked = 0
<1>. DEFINE a == history["running"]
            b == history["asked"]
            c == history["answered"]
            i == inFolder.running
            p == inFolder.parked
<1>1. a \in Nat /\ b \in Nat /\ c \in Nat /\ i \in Nat /\ p \in Nat /\ i <= a /\ p <= b + c
  BY RecordCounts
<1>2. ~(a + b + c > 0)
  BY DEF Going
<1>. HIDE DEF a, b, c, i, p
<1>3. i + p = 0
  BY <1>1, <1>2
<1>. QED
  BY <1>3 DEF i, p

\* What a scheduler is counted as.
LEMMA CountedAs ==
  ASSUME NEW r \in Rows
  PROVE  /\ One(r \in Turns) = One(r.at = "turn")
         /\ One(r \in Inside) = One(r.at = "turn" /\ r.folder # NoFolder)
         /\ One(r \in OnServer) = One(r.at = "turn" /\ r.folder = NoFolder)
         /\ One(r \in Entering) = One(r.at = "admitted" /\ r.folder # NoFolder)
BY DEF One, Turns, Inside, OnServer, Entering

LEMMA RunsKept ==
  ASSUME AutoShape, AutoTypeOK, NEW s \in Schedulers, NEW to \in Rows, UNCHANGED inFolder,
         to.at # "turn", to.at # "admitted",
         history' \in [Kinds -> Nat], history'["running"] = history["running"],
         history'["asked"] = history["asked"], history'["answered"] = history["answered"],
         \/ unmade' = unmade /\ history'["missed"] = history["missed"]
         \/ unmade' = unmade + 1 /\ history'["missed"] = history["missed"] + 1
  PROVE  Runs(s, to)
<1>1. One(to \in Turns) = 0 /\ One(to \in Inside) = 0 /\ One(to \in OnServer) = 0 /\ One(to \in Entering) = 0
  BY CountedAs DEF One
<1>2. One(sched[s] \in Turns) \in Nat /\ One(sched[s] \in Inside) \in Nat
      /\ One(sched[s] \in OnServer) \in Nat /\ One(sched[s] \in Entering) \in Nat
  BY DEF One
<1>. QED
  BY <1>1, <1>2, RecordCounts DEF Runs

LEMMA RunsUntouched ==
  ASSUME AutoShape, AutoTypeOK, NEW s \in Schedulers, NEW to \in Rows, UNCHANGED <<history, inFolder, unmade>>,
         to.at # "turn", to.at # "admitted"
  PROVE  Runs(s, to)
BY RecordCounts, RunsKept

LEMMA SchedulerProgress ==
  ASSUME AutoInv, NEW s \in Schedulers, Working(s)
  PROVE  \E to \in Rows : Goes(s, to) /\ Runs(s, to) /\ Dates(s, to)
<1>. USE AutoConstants DEF AutoInv, site, calendar, records, ghosts, GoesOn
<1>0. /\ sched[s] \in Rows
      /\ sched[s].upto <= now /\ now \in Nat
      /\ tasks \in [0 .. TaskRetries - 1 -> Nat] /\ TaskRetries - 1 \in Nat
      /\ folder \in Folders \cup {NoFolder}
      /\ AutoShape /\ AutoTypeOK
  BY DEF AutoShape, AutoTypeOK
<1>10. Resting \in Rows /\ Resting.at = "idle" /\ Resting.upto = 0
  BY <1>0 DEF Places, Resting, Rows
<1>1. CASE ScanRead(s)
  <2>. DEFINE to == [sched[s] EXCEPT !.at = "due", !.upto = now]
  <2>1. to \in Rows /\ to.at = "due" /\ to.upto = now
    BY <1>0 DEF Places, Rows
  <2>5. sched' = [sched EXCEPT ![s] = to] /\ sched[s].at = "idle"
    BY <1>1 DEF ScanRead
  <2>2. Goes(s, to)
    <3>1. tasks' = tasks /\ UNCHANGED <<now, folder, revoked, socket, reachable, autoStatus>>
      BY <1>1 DEF ScanRead
    <3>. QED
      BY <1>0, <2>1, <2>5, <3>1 DEF Goes
  <2>3. Runs(s, to)
    BY <1>0, <1>1, <2>1, RunsUntouched DEF ScanRead
  <2>4. Dates(s, to)
    BY <1>1, <2>1 DEF ScanRead, Dates
  <2>. QED
    BY <2>1, <2>2, <2>3, <2>4
<1>2. CASE ScanEnqueue(s)
  <2>. DEFINE to == [sched[s] EXCEPT !.at = "fired"]
  <2>1. to \in Rows /\ to.at = "fired" /\ to.upto = sched[s].upto
    BY <1>0 DEF Places, Rows
  <2>2. Goes(s, to)
    BY <1>0, <1>2, <2>1 DEF ScanEnqueue, Goes, Queue
  <2>3. Runs(s, to)
    BY <1>0, <1>2, <2>1, RunsUntouched DEF ScanEnqueue
  <2>4. Dates(s, to)
    BY <1>2, <2>1 DEF ScanEnqueue, Dates
  <2>. QED
    BY <2>1, <2>2, <2>3, <2>4
<1>3. CASE ScanAdvance(s)
  <2>2. Goes(s, Resting)
    BY <1>0, <1>3, <1>10 DEF ScanAdvance, Goes
  <2>3. Runs(s, Resting)
    BY <1>0, <1>3, <1>10, RunsUntouched DEF ScanAdvance
  <2>4. Dates(s, Resting)
    BY <1>3, <1>10 DEF ScanAdvance, Dates
  <2>. QED
    BY <1>10, <2>2, <2>3, <2>4
<1>4. ASSUME NEW n \in DOMAIN tasks, TakeTask(s, n)
      PROVE  \E to \in Rows : Goes(s, to) /\ Runs(s, to) /\ Dates(s, to)
  <2>. DEFINE to == [sched[s] EXCEPT !.at = "start", !.tries = n, !.folder = folder]
  <2>1. to \in Rows /\ to.at = "start" /\ to.upto = sched[s].upto
    BY <1>0, <1>4 DEF Places, Rows
  <2>2. tasks' \in [0 .. TaskRetries - 1 -> Nat]
    BY <1>0, <1>4 DEF TakeTask
  <2>6. sched' = [sched EXCEPT ![s] = to] /\ sched[s].at = "idle"
    BY <1>4 DEF TakeTask
  <2>3. Goes(s, to)
    BY <1>0, <1>4, <2>1, <2>2, <2>6 DEF TakeTask, Goes
  <2>4. Runs(s, to)
    BY <1>0, <1>4, <2>1, RunsUntouched DEF TakeTask
  <2>5. Dates(s, to)
    BY <1>4, <2>1 DEF TakeTask, Dates
  <2>. QED
    BY <2>1, <2>3, <2>4, <2>5
<1>5. CASE Miss(s)
  <2>2. Goes(s, Resting)
    BY <1>0, <1>5, <1>10 DEF Miss, Goes
  <2>3. \/ history' = history /\ unmade' = unmade
        \/ history' = [history EXCEPT !["missed"] = @ + 1] /\ unmade' = unmade + 1
    BY <1>5 DEF Miss, Put
  <2>4. /\ history' \in [Kinds -> Nat] /\ history'["running"] = history["running"]
        /\ history'["asked"] = history["asked"] /\ history'["answered"] = history["answered"]
        /\ \/ unmade' = unmade /\ history'["missed"] = history["missed"]
           \/ unmade' = unmade + 1 /\ history'["missed"] = history["missed"] + 1
    <3>1. history \in [Kinds -> Nat]
      BY <1>0, RecordCounts
    <3>. QED
      BY <2>3, <3>1 DEF Kinds
  <2>5. inFolder' = inFolder /\ covered' = covered /\ next' = next
    BY <1>5 DEF Miss
  <2>6. Runs(s, Resting)
    BY <1>0, <1>10, <2>4, <2>5, RunsKept
  <2>7. Dates(s, Resting)
    BY <1>10, <2>5 DEF Dates
  <2>. QED
    BY <1>10, <2>2, <2>6, <2>7
<1>6. CASE Admit(s)
  <2>. DEFINE to == [sched[s] EXCEPT !.at = "admitted"]
  <2>1. to \in Rows /\ to.at = "admitted" /\ to.upto = sched[s].upto /\ to.folder = sched[s].folder
    BY <1>0 DEF Places, Rows
  <2>2. Goes(s, to)
    BY <1>0, <1>6, <2>1 DEF Admit, Goes
  <2>3. ASSUME sched[s].folder # NoFolder
        PROVE  inFolder.running + inFolder.parked = 0
    <3>1. \A reason \in {"withdrawn", "offline", "overlap"} : ~MissedBecause(sched[s].folder, reason)
      BY <1>6 DEF Admit, Reasons
    <3>2. Target(sched[s].folder) \in {"withdrawn", "device"}
      BY <2>3 DEF Target
    <3>3. ~(Going > 0)
      BY <3>1, <3>2 DEF MissedBecause
    <3>. QED
      BY <1>0, <3>3, NothingGoesOn
  <2>4. UNCHANGED <<history, inFolder, unmade, next, covered>> /\ sched[s].at = "start"
    BY <1>6 DEF Admit
  <2>5. Runs(s, to)
    <3>1. /\ One(sched[s] \in Turns) = 0 /\ One(to \in Turns) = 0
          /\ One(sched[s] \in Inside) = 0 /\ One(to \in Inside) = 0
          /\ One(sched[s] \in OnServer) = 0 /\ One(to \in OnServer) = 0
          /\ One(sched[s] \in Entering) = 0
          /\ sched[s].folder = NoFolder => One(to \in Entering) = 0
      BY <1>0, <2>1, <2>4, CountedAs DEF One
    <3>2. One(to \in Entering) \in Nat
      BY DEF One
    <3>3. /\ history["running"] \in Nat /\ history["asked"] \in Nat /\ history["answered"] \in Nat
          /\ inFolder.running \in Nat /\ inFolder.parked \in Nat
          /\ history \in [Kinds -> Nat] /\ inFolder \in [running : Nat, parked : Nat]
      BY <1>0, RecordCounts
    <3>4. \/ inFolder'.running + inFolder'.parked + One(to \in Entering)
                <= inFolder.running + inFolder.parked + One(sched[s] \in Entering)
          \/ inFolder'.running + inFolder'.parked = 0
      <4>1. CASE sched[s].folder = NoFolder
        BY <2>4, <3>1, <3>3, <4>1
      <4>2. CASE sched[s].folder # NoFolder
        BY <2>3, <2>4, <4>2
      <4>. QED
        BY <4>1, <4>2
    <3>. HIDE DEF to
    <3>. QED
      BY <2>4, <3>1, <3>3, <3>4 DEF Runs
  <2>6. Dates(s, to)
    BY <2>1, <2>4 DEF Dates
  <2>. QED
    BY <2>1, <2>2, <2>5, <2>6
<1>7. CASE BeginRun(s)
  <2>. DEFINE to == [sched[s] EXCEPT !.at = "turn"]
  <2>1. to \in Rows /\ to.at = "turn" /\ to.upto = sched[s].upto /\ to.folder = sched[s].folder
    BY <1>0 DEF Places, Rows
  <2>2. Goes(s, to)
    BY <1>0, <1>7, <2>1 DEF BeginRun, Goes
  <2>3. /\ history' = [history EXCEPT !["running"] = @ + 1]
        /\ sched[s].at = "admitted" /\ UNCHANGED <<unmade, next, covered>>
        /\ \/ sched[s].folder = NoFolder /\ inFolder' = inFolder
           \/ sched[s].folder # NoFolder /\ inFolder' = [inFolder EXCEPT !.running = @ + 1]
    BY <1>7 DEF BeginRun, Put
  <2>9. /\ history \in [Kinds -> Nat] /\ inFolder \in [running : Nat, parked : Nat]
        /\ history["running"] \in Nat /\ history["asked"] \in Nat /\ history["answered"] \in Nat
        /\ inFolder.running \in Nat /\ inFolder.parked \in Nat
    BY <1>0, RecordCounts
  <2>4. /\ history' \in [Kinds -> Nat] /\ history'["running"] = history["running"] + 1
        /\ history'["missed"] = history["missed"]
        /\ history'["asked"] = history["asked"] /\ history'["answered"] = history["answered"]
    BY <2>3, <2>9 DEF Kinds
  <2>5. /\ One(sched[s] \in Turns) = 0 /\ One(to \in Turns) = 1
        /\ One(sched[s] \in Inside) = 0 /\ One(sched[s] \in OnServer) = 0 /\ One(to \in Entering) = 0
    BY <1>0, <2>1, <2>3, CountedAs DEF One
  <2>6. CASE sched[s].folder = NoFolder
    <3>1. One(to \in Inside) = 0 /\ One(to \in OnServer) = 1 /\ One(sched[s] \in Entering) = 0
      BY <1>0, <2>1, <2>3, <2>6, CountedAs DEF One
    <3>2. inFolder' = inFolder
      BY <2>3, <2>6
    <3>. HIDE DEF to
    <3>3. Runs(s, to)
      BY <2>3, <2>4, <2>5, <2>9, <3>1, <3>2 DEF Runs
    <3>. QED
      BY <2>1, <2>2, <2>3, <3>3 DEF Dates
  <2>7. CASE sched[s].folder # NoFolder
    <3>1. One(to \in Inside) = 1 /\ One(to \in OnServer) = 0 /\ One(sched[s] \in Entering) = 1
      BY <1>0, <2>1, <2>3, <2>7, CountedAs DEF One
    <3>2. inFolder' \in [running : Nat, parked : Nat] /\ inFolder'.running = inFolder.running + 1
          /\ inFolder'.parked = inFolder.parked
      BY <2>3, <2>7, <2>9
    <3>. HIDE DEF to
    <3>3. Runs(s, to)
      BY <2>3, <2>4, <2>5, <2>9, <3>1, <3>2 DEF Runs
    <3>. QED
      BY <2>1, <2>2, <2>3, <3>3 DEF Dates
  <2>. QED
    BY <2>6, <2>7
<1>8. CASE FinishTurn(s)
  <2>0. sched[s].at = "turn" /\ sched' = [sched EXCEPT ![s] = Resting]
        /\ UNCHANGED <<unmade, next, covered>>
    BY <1>8 DEF FinishTurn
  <2>1. /\ history \in [Kinds -> Nat] /\ inFolder \in [running : Nat, parked : Nat]
        /\ history["running"] \in Nat /\ history["asked"] \in Nat /\ history["answered"] \in Nat
        /\ inFolder.running \in Nat /\ inFolder.parked \in Nat
    BY <1>0, RecordCounts
  <2>2. /\ history["running"] > 0
        /\ sched[s].folder # NoFolder => inFolder.running > 0
    <3>1. /\ sched[s].folder # NoFolder => sched[s] \in Inside
          /\ sched[s].folder = NoFolder => sched[s] \in OnServer
      BY <1>0, <2>0 DEF Inside, OnServer
    <3>2. /\ sched[s] \in Inside => Cardinality(Busy(Inside)) > 0
          /\ sched[s] \in OnServer => Cardinality(Busy(OnServer)) > 0
          /\ Cardinality(Busy(Inside)) \in Nat /\ Cardinality(Busy(OnServer)) \in Nat
      BY <1>0, <1>10, <2>0, SchedulerCounts
    <3>. QED
      BY <2>1, <3>1, <3>2 DEF AdmittedCount
  <2>3. /\ history' \in [Kinds -> Nat]
        /\ history'["running"] = history["running"] - 1 /\ history'["missed"] = history["missed"]
        /\ history'["answered"] = history["answered"]
        /\ \/ /\ history'["asked"] = history["asked"] + 1
              /\ \/ sched[s].folder = NoFolder /\ inFolder' = inFolder
                 \/ /\ sched[s].folder # NoFolder
                    /\ inFolder' = [running |-> inFolder.running - 1, parked |-> inFolder.parked + 1]
           \/ /\ history'["asked"] = history["asked"]
              /\ \/ sched[s].folder = NoFolder /\ inFolder' = inFolder
                 \/ /\ sched[s].folder # NoFolder
                    /\ inFolder' = [inFolder EXCEPT !.running = @ - 1]
    <3>1. CASE /\ history' = [history EXCEPT !["running"] = @ - 1, !["asked"] = @ + 1]
               /\ IF sched[s].folder = NoFolder THEN UNCHANGED inFolder
                  ELSE inFolder' = [running |-> inFolder.running - 1, parked |-> inFolder.parked + 1]
      BY <2>1, <2>2, <3>1 DEF Kinds
    <3>2. CASE /\ history' = [history EXCEPT !["running"] = @ - 1]
               /\ IF sched[s].folder = NoFolder THEN UNCHANGED inFolder
                  ELSE inFolder' = [inFolder EXCEPT !.running = @ - 1]
      BY <2>1, <2>2, <3>2 DEF Kinds
    <3>. QED
      BY <1>8, <3>1, <3>2 DEF FinishTurn, Turn
  <2>4. tasks' = tasks \/ (sched[s].tries + 1 < TaskRetries /\ tasks' = Queue(sched[s].tries + 1))
    BY <1>8 DEF FinishTurn
  <2>5. tasks' \in [0 .. TaskRetries - 1 -> Nat]
    <3>1. tasks \in [0 .. TaskRetries - 1 -> Nat]
      BY <1>0
    <3>2. ASSUME NEW n PROVE Queue(n) \in [0 .. TaskRetries - 1 -> Nat]
      BY <3>1, OneMore DEF Queue
    <3>. QED
      BY <2>4, <3>1, <3>2
  <2>6. Goes(s, Resting)
    <3>1. UNCHANGED <<now, folder, revoked, socket, reachable, autoStatus>> /\ now \in Nat
      BY <1>0, <1>8, RecordCounts DEF FinishTurn
    <3>2. GoesOn(s, Resting)
      BY <1>10, <2>0 DEF GoesOn
    <3>. QED
      BY <1>10, <2>5, <3>1, <3>2 DEF Goes
  <2>7. /\ One(sched[s] \in Turns) = 1 /\ One(Resting \in Turns) = 0
        /\ One(Resting \in Inside) = 0 /\ One(Resting \in OnServer) = 0
        /\ One(sched[s] \in Entering) = 0 /\ One(Resting \in Entering) = 0
    BY <1>0, <1>10, <2>0, CountedAs DEF One
  <2>8. CASE sched[s].folder = NoFolder
    <3>1. One(sched[s] \in Inside) = 0 /\ One(sched[s] \in OnServer) = 1
      BY <1>0, <2>0, <2>8, CountedAs DEF One
    <3>2. inFolder' = inFolder /\ history'["asked"] \in {history["asked"], history["asked"] + 1}
      BY <2>3, <2>8
    <3>3. Runs(s, Resting)
      BY <2>0, <2>1, <2>2, <2>3, <2>7, <3>1, <3>2 DEF Runs
    <3>. QED
      BY <1>10, <2>0, <2>6, <3>3 DEF Dates
  <2>9. CASE sched[s].folder # NoFolder
    <3>1. One(sched[s] \in Inside) = 1 /\ One(sched[s] \in OnServer) = 0
      BY <1>0, <2>0, <2>9, CountedAs DEF One
    <3>2. /\ inFolder' \in [running : Nat, parked : Nat] /\ inFolder'.running = inFolder.running - 1
          /\ \/ history'["asked"] = history["asked"] + 1 /\ inFolder'.parked = inFolder.parked + 1
             \/ history'["asked"] = history["asked"] /\ inFolder'.parked = inFolder.parked
      BY <2>1, <2>2, <2>3, <2>9
    <3>3. Runs(s, Resting)
      BY <2>0, <2>1, <2>2, <2>3, <2>7, <3>1, <3>2 DEF Runs
    <3>. QED
      BY <1>10, <2>0, <2>6, <3>3 DEF Dates
  <2>. QED
    BY <2>8, <2>9
<1>9. CASE Perish(s)
  <2>2. Goes(s, Resting)
    BY <1>0, <1>9, <1>10 DEF Perish, Goes
  <2>3. Runs(s, Resting)
    BY <1>0, <1>9, <1>10, RunsUntouched DEF Perish
  <2>4. Dates(s, Resting)
    BY <1>9, <1>10 DEF Perish, Dates
  <2>. QED
    BY <1>10, <2>2, <2>3, <2>4
<1>. QED
  BY <1>1, <1>2, <1>3, <1>4, <1>5, <1>6, <1>7, <1>8, <1>9 DEF Working, Scan

\* The rest moves no scheduler, starts no run and steps over nothing not covered.
Aside ==
  /\ sched' = sched
  /\ folder' \in Folders \cup {NoFolder} /\ revoked' \in SUBSET Folders
  /\ autoStatus' \in {"active", "paused"} /\ reachable' \in SUBSET Machines
  /\ now <= now' /\ now' \in 0 .. MaxOccurrences
  /\ tasks' \in [0 .. TaskRetries - 1 -> Nat]
  /\ history' \in [Kinds -> Nat] /\ history'["running"] = history["running"]
  /\ inFolder' \in [running : Nat, parked : Nat]
  /\ inFolder'.running = inFolder.running /\ inFolder'.parked <= inFolder.parked
  /\ inFolder'.parked <= history'["asked"] + history'["answered"]
  /\ \/ next' = next /\ covered' = covered
     \/ next' = now + 1 /\ covered' = Later(now)
  /\ socket' \in [Sockets -> Catches]
  /\ IsFiniteSet(Claimed') /\ unmade' \in Nat
  /\ history'["missed"] + Cardinality(Claimed') <= unmade'

LEMMA RecordsAside ==
  ASSUME AutoShape, AutoTypeOK, Answer \/ ExpireApprovals
  PROVE  /\ history' \in [Kinds -> Nat] /\ history'["running"] = history["running"]
         /\ history'["missed"] = history["missed"]
         /\ inFolder' \in [running : Nat, parked : Nat]
         /\ inFolder'.running = inFolder.running /\ inFolder'.parked <= inFolder.parked
         /\ inFolder'.parked <= history'["asked"] + history'["answered"]
<1>1. /\ history \in [Kinds -> Nat]
      /\ history["running"] \in Nat /\ history["asked"] \in Nat /\ history["answered"] \in Nat
      /\ history["orphaned"] \in Nat
      /\ inFolder \in [running : Nat, parked : Nat] /\ inFolder.parked \in Nat
      /\ inFolder.parked <= history["asked"] + history["answered"]
  BY RecordCounts
<1>2. CASE Answer
  <2>1. \/ /\ history["asked"] > 0
           /\ history' = [history EXCEPT !["asked"] = @ - 1, !["answered"] = @ + 1]
        \/ /\ history["orphaned"] > 0
           /\ history' = [history EXCEPT !["orphaned"] = @ - 1]
    BY <1>2 DEF Answer, Turn
  <2>2. /\ history' \in [Kinds -> Nat] /\ history'["running"] = history["running"]
        /\ history'["missed"] = history["missed"]
        /\ history'["asked"] + history'["answered"] = history["asked"] + history["answered"]
    BY <1>1, <2>1 DEF Kinds
  <2>3. inFolder' = inFolder
    BY <1>2 DEF Answer
  <2>. QED
    BY <1>1, <2>2, <2>3
<1>3. CASE ExpireApprovals
  <2>1. /\ history["asked"] + history["orphaned"] > 0
        /\ history' = [history EXCEPT !["asked"] = 0, !["answered"] = 0,
                                       !["orphaned"] = @ + history["asked"] - 1]
        /\ inFolder' = [inFolder EXCEPT !.parked = 0]
    BY <1>3 DEF ExpireApprovals
  <2>2. history["orphaned"] + history["asked"] - 1 \in Nat
    BY <1>1, <2>1
  <2>3. /\ history' \in [Kinds -> Nat] /\ history'["running"] = history["running"]
        /\ history'["missed"] = history["missed"]
        /\ history'["asked"] = 0 /\ history'["answered"] = 0
    BY <1>1, <2>1, <2>2 DEF Kinds
  <2>. QED
    BY <1>1, <2>1, <2>3
<1>. QED
  BY <1>2, <1>3

\* What a socket claims is one record less, and what it makes up for one owed less.
LEMMA SocketsAside ==
  ASSUME AutoShape, AutoTypeOK, MadeUpOnce, NEW k \in Sockets,
         Look(k) \/ ClaimMissed(k) \/ MakeUp(k) \/ \E m \in Machines : Connect(k, m)
  PROVE  /\ socket' \in [Sockets -> Catches]
         /\ IsFiniteSet(Claimed') /\ unmade' \in Nat
         /\ history' \in [Kinds -> Nat] /\ history'["running"] = history["running"]
         /\ history'["asked"] = history["asked"] /\ history'["answered"] = history["answered"]
         /\ history'["missed"] + Cardinality(Claimed') <= unmade'
<1>1. /\ history \in [Kinds -> Nat] /\ history["missed"] \in Nat /\ unmade \in Nat
      /\ IsFiniteSet(Claimed) /\ history["missed"] + Cardinality(Claimed) <= unmade
      /\ socket \in [Sockets -> Catches]
  BY RecordCounts DEF AutoShape, AutoTypeOK, MadeUpOnce, Claimed, Catches
<1>2. ASSUME NEW to \in Catches, socket' = [socket EXCEPT ![k] = to]
      PROVE  /\ socket' \in [Sockets -> Catches]
             /\ IsFiniteSet(Claimed') /\ Cardinality(Claimed) \in Nat /\ Cardinality(Claimed') \in Nat
             /\ socket[k].at = "claimed" => Cardinality(Claimed) > 0
             /\ Cardinality(Claimed') =
                  Cardinality(Claimed) + One(to.at = "claimed") - One(socket[k].at = "claimed")
  <2>1. /\ Claimed \ {k} = Claimed' \ {k}
        /\ k \in Claimed <=> socket[k].at = "claimed"
        /\ k \in Claimed' <=> to.at = "claimed"
    BY <1>1, <1>2 DEF Claimed
  <2>2. /\ IsFiniteSet(Claimed') /\ Cardinality(Claimed) \in Nat /\ Cardinality(Claimed') \in Nat
        /\ k \in Claimed => Cardinality(Claimed) > 0
        /\ Cardinality(Claimed') = Cardinality(Claimed) + One(k \in Claimed') - One(k \in Claimed)
    BY <1>1, <2>1, CountChange
  <2>. QED
    BY <1>1, <1>2, <2>1, <2>2 DEF One
<1>3. CASE Look(k) \/ \E m \in Machines : Connect(k, m)
  <2>1. PICK to \in Catches : socket' = [socket EXCEPT ![k] = to] /\ to.at # "claimed"
    BY <1>3 DEF Look, Connect, Asleep, Catches
  <2>2. UNCHANGED <<history, unmade>> /\ socket[k].at # "claimed"
    BY <1>3 DEF Look, Connect, records, ghosts
  <2>3. One(to.at = "claimed") = 0 /\ One(socket[k].at = "claimed") = 0
    BY <2>1, <2>2 DEF One
  <2>4. /\ socket' \in [Sockets -> Catches]
        /\ IsFiniteSet(Claimed') /\ Cardinality(Claimed) \in Nat
        /\ Cardinality(Claimed') = Cardinality(Claimed) + One(to.at = "claimed") - One(socket[k].at = "claimed")
    BY <1>2, <2>1
  <2>. QED
    BY <1>1, <2>2, <2>3, <2>4
<1>4. CASE ClaimMissed(k)
  <2>0. Asleep \in Catches /\ Asleep.at = "idle" /\ [at |-> "claimed"] \in Catches
    BY DEF Asleep, Catches
  <2>1. CASE /\ history["missed"] > 0 /\ history' = [history EXCEPT !["missed"] = @ - 1]
             /\ socket' = [socket EXCEPT ![k] = [at |-> "claimed"]]
    <3>1. /\ history' \in [Kinds -> Nat] /\ history'["missed"] = history["missed"] - 1
          /\ history'["running"] = history["running"]
          /\ history'["asked"] = history["asked"] /\ history'["answered"] = history["answered"]
      BY <1>1, <2>1 DEF Kinds
    <3>3. unmade' = unmade /\ socket[k].at # "claimed"
      BY <1>4 DEF ClaimMissed, ghosts
    <3>4. One([at |-> "claimed"].at = "claimed") = 1 /\ One(socket[k].at = "claimed") = 0
      BY <3>3 DEF One
    <3>5. /\ socket' \in [Sockets -> Catches]
          /\ IsFiniteSet(Claimed') /\ Cardinality(Claimed) \in Nat
          /\ Cardinality(Claimed') = Cardinality(Claimed) + One([at |-> "claimed"].at = "claimed")
                                     - One(socket[k].at = "claimed")
      BY <1>2, <2>0, <2>1
    <3>. QED
      BY <1>1, <2>1, <3>1, <3>3, <3>4, <3>5
  <2>2. CASE history' = history /\ socket' = [socket EXCEPT ![k] = Asleep]
    <3>1. unmade' = unmade /\ socket[k].at # "claimed"
      BY <1>4, <2>2 DEF ClaimMissed, ghosts
    <3>2. One(Asleep.at = "claimed") = 0 /\ One(socket[k].at = "claimed") = 0
      BY <2>0, <3>1 DEF One
    <3>3. /\ socket' \in [Sockets -> Catches]
          /\ IsFiniteSet(Claimed') /\ Cardinality(Claimed) \in Nat
          /\ Cardinality(Claimed') = Cardinality(Claimed) + One(Asleep.at = "claimed")
                                     - One(socket[k].at = "claimed")
      BY <1>2, <2>0, <2>2
    <3>. QED
      BY <1>1, <2>2, <3>1, <3>2, <3>3
  <2>. QED
    BY <1>4, <2>1, <2>2 DEF ClaimMissed
<1>5. CASE MakeUp(k)
  <2>0. Asleep \in Catches /\ Asleep.at = "idle"
    BY DEF Asleep, Catches
  <2>1. /\ socket[k].at = "claimed" /\ socket' = [socket EXCEPT ![k] = Asleep]
        /\ unmade' = unmade - 1 /\ history' = history
    BY <1>5 DEF MakeUp, records
  <2>2. One(Asleep.at = "claimed") = 0 /\ One(socket[k].at = "claimed") = 1
    BY <2>0, <2>1 DEF One
  <2>3. /\ socket' \in [Sockets -> Catches]
        /\ IsFiniteSet(Claimed') /\ Cardinality(Claimed) \in Nat /\ Cardinality(Claimed') \in Nat
        /\ Cardinality(Claimed') = Cardinality(Claimed) + One(Asleep.at = "claimed")
                                   - One(socket[k].at = "claimed")
    BY <1>2, <2>0, <2>1
  <2>. QED
    BY <1>1, <2>1, <2>2, <2>3
<1>. QED
  BY <1>3, <1>4, <1>5

LEMMA ElsewhereAside ==
  ASSUME AutoInv, Elsewhere
  PROVE  Aside
<1>. USE AutoConstants DEF AutoInv
<1>0. /\ folder \in Folders \cup {NoFolder} /\ revoked \in SUBSET Folders
      /\ autoStatus \in {"active", "paused"} /\ reachable \in SUBSET Machines
      /\ now \in 0 .. MaxOccurrences /\ now \in Nat
      /\ tasks \in [0 .. TaskRetries - 1 -> Nat] /\ TaskRetries - 1 \in Nat
      /\ history \in [Kinds -> Nat]
      /\ inFolder \in [running : Nat, parked : Nat] /\ inFolder.parked \in Nat
      /\ inFolder.parked <= history["asked"] + history["answered"]
      /\ socket \in [Sockets -> Catches]
      /\ IsFiniteSet(Claimed) /\ unmade \in Nat
      /\ history["missed"] + Cardinality(Claimed) <= unmade
  <2>1. /\ history \in [Kinds -> Nat] /\ unmade \in Nat /\ now \in Nat
        /\ inFolder \in [running : Nat, parked : Nat] /\ inFolder.parked \in Nat
        /\ inFolder.parked <= history["asked"] + history["answered"]
    BY RecordCounts
  <2>2. history["missed"] + Cardinality(Claimed) <= unmade
    BY DEF MadeUpOnce, Claimed
  <2>3. socket \in [Sockets -> Catches] /\ IsFiniteSet(Claimed)
    BY DEF AutoShape, AutoTypeOK, Catches
  <2>4. /\ folder \in Folders \cup {NoFolder} /\ revoked \in SUBSET Folders
        /\ autoStatus \in {"active", "paused"} /\ reachable \in SUBSET Machines
        /\ now \in 0 .. MaxOccurrences
        /\ tasks \in [0 .. TaskRetries - 1 -> Nat]
    BY DEF AutoTypeOK
  <2>. QED
    BY <2>1, <2>2, <2>3, <2>4
<1>1. ASSUME UNCHANGED <<history, inFolder, socket, unmade>>
      PROVE  /\ history' \in [Kinds -> Nat] /\ history'["running"] = history["running"]
             /\ inFolder' \in [running : Nat, parked : Nat]
             /\ inFolder'.running = inFolder.running /\ inFolder'.parked <= inFolder.parked
             /\ inFolder'.parked <= history'["asked"] + history'["answered"]
             /\ socket' \in [Sockets -> Catches]
             /\ IsFiniteSet(Claimed') /\ unmade' \in Nat
             /\ history'["missed"] + Cardinality(Claimed') <= unmade'
  <2>1. Claimed' = Claimed
    BY <1>1 DEF Claimed
  <2>. QED
    BY <1>0, <1>1, <2>1
<1>2. CASE Tick
  BY <1>0, <1>1, <1>2 DEF Tick, site, records, ghosts, Aside
<1>3. CASE Answer \/ ExpireApprovals
  <2>1. /\ history' \in [Kinds -> Nat] /\ history'["running"] = history["running"]
        /\ history'["missed"] = history["missed"]
        /\ inFolder' \in [running : Nat, parked : Nat]
        /\ inFolder'.running = inFolder.running /\ inFolder'.parked <= inFolder.parked
        /\ inFolder'.parked <= history'["asked"] + history'["answered"]
    BY <1>3, RecordsAside
  <2>2. UNCHANGED <<folder, revoked, autoStatus, now, next, tasks, reachable, sched, socket, covered, unmade>>
    BY <1>3 DEF Answer, ExpireApprovals, site, calendar, ghosts
  <2>3. Claimed' = Claimed
    BY <2>2 DEF Claimed
  <2>. QED
    BY <1>0, <2>1, <2>2, <2>3 DEF Aside
<1>4. ASSUME NEW m \in Machines, Disconnect(m) PROVE Aside
  <2>1. UNCHANGED <<folder, revoked, autoStatus, now, next, tasks, history, inFolder, sched, socket, covered, unmade>>
        /\ reachable' \in SUBSET Machines
    BY <1>0, <1>4 DEF Disconnect, calendar, records, ghosts
  <2>. QED
    BY <1>0, <1>1, <2>1 DEF Aside
<1>5. CASE Update
  BY <1>0, <1>1, <1>5 DEF Update, records, Aside
<1>6. CASE RunNow
  <2>1. UNCHANGED <<folder, revoked, reachable, autoStatus, now, next, history, inFolder, sched, socket, covered, unmade>>
        /\ tasks' = [tasks EXCEPT ![0] = @ + 1]
    BY <1>6 DEF RunNow, Queue, site, calendar, records, ghosts
  <2>2. tasks' \in [0 .. TaskRetries - 1 -> Nat]
    BY <1>0, <2>1
  <2>. QED
    BY <1>0, <1>1, <2>1, <2>2 DEF Aside
<1>7. ASSUME NEW f \in Folders, Withdraw(f) PROVE Aside
  <2>1. UNCHANGED <<folder, reachable, autoStatus, now, next, tasks, history, inFolder, sched, socket, covered, unmade>>
        /\ revoked' \in SUBSET Folders
    BY <1>0, <1>7 DEF Withdraw, calendar, records, ghosts
  <2>. QED
    BY <1>0, <1>1, <2>1 DEF Aside
<1>8. ASSUME NEW k \in Sockets, CatchUp(k) \/ \E m \in Machines : Connect(k, m) PROVE Aside
  <2>1. UNCHANGED <<folder, revoked, autoStatus, now, next, sched, covered, inFolder>>
        /\ reachable' \in SUBSET Machines
    BY <1>0, <1>8 DEF Connect, CatchUp, Look, ClaimMissed, MakeUp, site, calendar, records, ghosts
  <2>2. tasks' = tasks \/ tasks' = [tasks EXCEPT ![0] = @ + 1]
    BY <1>8 DEF Connect, CatchUp, Look, ClaimMissed, MakeUp, Queue
  <2>3. tasks' \in [0 .. TaskRetries - 1 -> Nat]
    BY <1>0, <2>2
  <2>4. Look(k) \/ ClaimMissed(k) \/ MakeUp(k) \/ \E m \in Machines : Connect(k, m)
    BY <1>8 DEF CatchUp
  <2>5. /\ socket' \in [Sockets -> Catches]
        /\ IsFiniteSet(Claimed') /\ unmade' \in Nat
        /\ history' \in [Kinds -> Nat] /\ history'["running"] = history["running"]
        /\ history'["asked"] = history["asked"] /\ history'["answered"] = history["answered"]
        /\ history'["missed"] + Cardinality(Claimed') <= unmade'
    BY <2>4, SocketsAside
  <2>. QED
    BY <1>0, <2>1, <2>3, <2>5 DEF Aside
<1>. QED
  BY <1>2, <1>3, <1>4, <1>5, <1>6, <1>7, <1>8 DEF Elsewhere

LEMMA AsideKeeps ==
  ASSUME AutoInv, Aside
  PROVE  AutoInv'
<1>0. /\ sched \in [Schedulers -> Rows]
      /\ DOMAIN tasks = 0 .. TaskRetries - 1 /\ covered \in Nat
      /\ next \in 1 .. MaxOccurrences + 1 /\ now \in 0 .. MaxOccurrences /\ MaxOccurrences \in Nat
      /\ \A s \in Schedulers : /\ sched[s].upto \in 0 .. now /\ sched[s].tries \in 0 .. TaskRetries - 1
                               /\ sched[s].folder \in Folders \cup {NoFolder}
      /\ next - 1 <= covered
      /\ \A s \in Schedulers : sched[s].at = "fired" => sched[s].upto <= covered
      /\ inFolder.running <= history["running"]
  BY AutoConstants DEF AutoInv, AutoShape, AutoTypeOK, NoOccurrenceLost, Enqueued
<1>1. Up' = Up /\ Busy(Entering)' = Busy(Entering) /\ Busy(Inside)' = Busy(Inside)
      /\ Busy(OnServer)' = Busy(OnServer)
  BY DEF Aside, Up, Busy, Entering, Inside, OnServer
<1>2. covered' \in Nat /\ covered <= covered' /\ next' - 1 <= covered'
      /\ next' \in 1 .. MaxOccurrences + 1
  BY <1>0 DEF Aside, Later
<1>3. AutoShape'
  <2>1. sched' \in [Schedulers -> Rows] /\ Up' = Up /\ IsFiniteSet(Up) /\ IsFiniteSet(Claimed') /\ unmade' \in Nat
    BY <1>0, <1>1 DEF Aside, AutoInv, AutoShape
  <2>. QED
    BY <1>2, <2>1 DEF AutoShape, Rows
<1>4. Cardinality({s \in Schedulers : sched'[s].at = "turn"}) <= history'["running"]
  BY DEF Aside, AutoInv, AutoTypeOK
<1>5. \A s \in Schedulers :
        /\ sched'[s].at \in {"down", "idle", "due", "fired", "start", "admitted", "turn"}
        /\ sched'[s].upto \in 0 .. now' /\ sched'[s].tries \in 0 .. TaskRetries - 1
        /\ sched'[s].folder \in Folders \cup {NoFolder}
  BY <1>0 DEF Aside, Rows, Places
<1>6. AutoTypeOK'
  <2>1. /\ folder' \in Folders \cup {NoFolder} /\ revoked' \in SUBSET Folders
        /\ autoStatus' \in {"active", "paused"} /\ reachable' \in SUBSET Machines
        /\ now' \in 0 .. MaxOccurrences /\ DOMAIN tasks' = 0 .. TaskRetries - 1
        /\ tasks' \in [0 .. TaskRetries - 1 -> Nat] /\ history' \in [Kinds -> Nat]
        /\ inFolder' \in [running : Nat, parked : Nat]
        /\ inFolder'.running <= history'["running"]
        /\ inFolder'.parked <= history'["asked"] + history'["answered"]
        /\ socket' \in [Sockets -> Catches]
    BY <1>0 DEF Aside
  <2>. QED
    BY <1>2, <1>4, <1>5, <2>1 DEF AutoTypeOK, Catches
<1>7. Enqueued'
  BY <1>0, <1>2 DEF Aside, Enqueued
<1>8. NoOccurrenceLost'
  BY <1>2 DEF NoOccurrenceLost
<1>9. MadeUpOnce'
  BY DEF Aside, MadeUpOnce, Claimed
<1>10. AdmittedCount'
  <2>1. /\ inFolder'.running = inFolder.running /\ inFolder'.parked <= inFolder.parked
        /\ inFolder'.running \in Nat /\ inFolder'.parked \in Nat /\ inFolder.parked \in Nat
        /\ history'["running"] = history["running"]
    BY RecordCounts DEF Aside, AutoInv
  <2>2. Cardinality(Busy(Entering)) \in Nat /\ Cardinality(Up) \in Nat
    <3>1. \A r \in Entering : r.at # "down"
      BY DEF Entering
    <3>2. Busy(Entering) \subseteq Up /\ IsFiniteSet(Up)
      BY <3>1 DEF Busy, Up, AutoInv, AutoShape
    <3>. QED
      BY <3>2, FS_Subset, FS_CardinalityType
  <2>3. /\ inFolder.running + inFolder.parked + Cardinality(Busy(Entering)) <= Cardinality(Up)
        /\ Cardinality(Busy(Inside)) <= inFolder.running
        /\ inFolder.running + Cardinality(Busy(OnServer)) <= history["running"]
    BY DEF AutoInv, AdmittedCount
  <2>4. inFolder'.running + inFolder'.parked + Cardinality(Busy(Entering)) <= Cardinality(Up)
    BY <2>1, <2>2, <2>3
  <2>5. /\ inFolder'.running + inFolder'.parked + Cardinality(Busy(Entering)') <= Cardinality(Up')
        /\ Cardinality(Busy(Inside)') <= inFolder'.running
        /\ inFolder'.running + Cardinality(Busy(OnServer)') <= history'["running"]
    BY <1>1, <2>1, <2>3, <2>4
  <2>. QED
    BY <2>5 DEF AdmittedCount
<1>. QED
  BY <1>3, <1>6, <1>7, <1>8, <1>9, <1>10 DEF AutoInv

LEMMA WorkKeeps ==
  ASSUME AutoInv, NEW s \in Schedulers, Working(s)
  PROVE  AutoInv'
<1>. PICK to \in Rows : Goes(s, to) /\ Runs(s, to) /\ Dates(s, to)
  BY SchedulerProgress
<1>0. /\ sched \in [Schedulers -> Rows]
      /\ DOMAIN tasks = 0 .. TaskRetries - 1 /\ covered \in Nat /\ unmade \in Nat
      /\ next \in 1 .. MaxOccurrences + 1 /\ now \in 0 .. MaxOccurrences /\ MaxOccurrences \in Nat
      /\ \A r \in Schedulers : /\ sched[r].upto \in 0 .. now /\ sched[r].tries \in 0 .. TaskRetries - 1
                               /\ sched[r].folder \in Folders \cup {NoFolder}
      /\ next - 1 <= covered
      /\ \A r \in Schedulers : sched[r].at = "fired" => sched[r].upto <= covered
      /\ AutoShape /\ AutoTypeOK
  BY AutoConstants DEF AutoInv, AutoShape, AutoTypeOK, NoOccurrenceLost, Enqueued
<1>1. /\ to.at \in Places /\ to.upto \in Nat /\ to.upto <= now /\ to.tries \in 0 .. TaskRetries - 1
      /\ to.folder \in Folders \cup {NoFolder}
      /\ sched' = [sched EXCEPT ![s] = to] /\ sched[s].at # "down" /\ to.at # "down"
  BY DEF Rows, Goes, GoesOn
<1>2. /\ sched' \in [Schedulers -> Rows]
      /\ Up' = Up /\ IsFiniteSet(Up) /\ Cardinality(Up) \in Nat
      /\ \A rows \in {Entering, Inside, OnServer, Turns} :
           /\ Cardinality(Busy(rows)) \in Nat /\ Cardinality(Busy(rows)') \in Nat
           /\ sched[s] \in rows => Cardinality(Busy(rows)) > 0
           /\ Cardinality(Busy(rows)') =
                Cardinality(Busy(rows)) + One(to \in rows) - One(sched[s] \in rows)
           /\ Cardinality(Busy(rows)') <= Cardinality(Up)
  BY <1>0, <1>1, SchedulerCounts
<1>3. Claimed' = Claimed
  BY DEF Goes, Claimed
<1>4. covered' \in Nat /\ covered <= covered' /\ next' - 1 <= covered'
      /\ next' \in 1 .. MaxOccurrences + 1 /\ (to.at = "fired" => to.upto <= covered')
  BY <1>0, <1>1 DEF Dates, Later
<1>5. unmade' \in Nat
  BY <1>0 DEF Runs
<1>6. AutoShape'
  BY <1>0, <1>2, <1>3, <1>4, <1>5 DEF AutoShape, Rows
<1>7. /\ history["running"] \in Nat /\ history["missed"] \in Nat
      /\ history["asked"] \in Nat /\ history["answered"] \in Nat
      /\ inFolder.running \in Nat /\ inFolder.parked \in Nat
      /\ inFolder.parked <= history["asked"] + history["answered"]
      /\ history'["running"] \in Nat /\ history'["missed"] \in Nat
      /\ history'["asked"] \in Nat /\ history'["answered"] \in Nat
      /\ inFolder'.running \in Nat /\ inFolder'.parked \in Nat
  BY <1>0, RecordCounts DEF Runs, Kinds
<1>8. Cardinality({r \in Schedulers : sched'[r].at = "turn"}) <= history'["running"]
  <2>1. Busy(Turns) = {r \in Schedulers : sched[r].at = "turn"}
        /\ Busy(Turns)' = {r \in Schedulers : sched'[r].at = "turn"}
    BY <1>0, <1>2 DEF Busy, Turns, Rows
  <2>2. Cardinality(Busy(Turns)) <= history["running"]
    BY <1>0, <2>1 DEF AutoTypeOK
  <2>3. /\ Cardinality(Busy(Turns)) \in Nat /\ Cardinality(Busy(Turns)') \in Nat
        /\ Cardinality(Busy(Turns)') = Cardinality(Busy(Turns)) + One(to \in Turns) - One(sched[s] \in Turns)
    BY <1>2
  <2>4. One(to \in Turns) \in Nat /\ One(sched[s] \in Turns) \in Nat
    BY DEF One
  <2>5. history'["running"] + One(sched[s] \in Turns) >= history["running"] + One(to \in Turns)
    BY DEF Runs
  <2>6. Cardinality(Busy(Turns)') <= history'["running"]
    BY <1>7, <2>2, <2>3, <2>4, <2>5
  <2>. QED
    BY <2>1, <2>6
<1>9. \A r \in Schedulers :
        /\ sched'[r].at \in {"down", "idle", "due", "fired", "start", "admitted", "turn"}
        /\ sched'[r].upto \in 0 .. now' /\ sched'[r].tries \in 0 .. TaskRetries - 1
        /\ sched'[r].folder \in Folders \cup {NoFolder}
  <2>1. now' = now
    BY DEF Goes
  <2>. QED
    BY <1>0, <1>1, <2>1 DEF Rows, Places
<1>10. AdmittedCount'
  <2>. DEFINE E == Cardinality(Busy(Entering))
              I == Cardinality(Busy(Inside))
              O == Cardinality(Busy(OnServer))
  <2>1. /\ E \in Nat /\ E' \in Nat /\ E' = E + One(to \in Entering) - One(sched[s] \in Entering)
        /\ I \in Nat /\ I' \in Nat /\ I' = I + One(to \in Inside) - One(sched[s] \in Inside)
        /\ O \in Nat /\ O' \in Nat /\ O' = O + One(to \in OnServer) - One(sched[s] \in OnServer)
        /\ E' <= Cardinality(Up) /\ Cardinality(Up) \in Nat
    BY <1>2
  <2>2. /\ One(to \in Entering) \in Nat /\ One(sched[s] \in Entering) \in Nat
        /\ One(to \in Inside) \in Nat /\ One(sched[s] \in Inside) \in Nat
        /\ One(to \in OnServer) \in Nat /\ One(sched[s] \in OnServer) \in Nat
    BY DEF One
  <2>3. /\ inFolder.running + inFolder.parked + E <= Cardinality(Up)
        /\ I <= inFolder.running /\ inFolder.running + O <= history["running"]
    BY DEF AutoInv, AdmittedCount
  <2>4. /\ inFolder'.running + One(sched[s] \in Inside) >= inFolder.running + One(to \in Inside)
        /\ history'["running"] + inFolder.running + One(sched[s] \in OnServer)
             >= history["running"] + inFolder'.running + One(to \in OnServer)
        /\ \/ inFolder'.running + inFolder'.parked + One(to \in Entering)
                <= inFolder.running + inFolder.parked + One(sched[s] \in Entering)
           \/ inFolder'.running + inFolder'.parked = 0
    BY DEF Runs
  <2>. HIDE DEF E, I, O
  <2>5. inFolder'.running + inFolder'.parked + E' <= Cardinality(Up)
    BY <1>7, <2>1, <2>2, <2>3, <2>4
  <2>6. I' <= inFolder'.running
    BY <1>7, <2>1, <2>2, <2>3, <2>4
  <2>7. inFolder'.running + O' <= history'["running"]
    BY <1>7, <2>1, <2>2, <2>3, <2>4
  <2>. QED
    BY <1>2, <2>5, <2>6, <2>7 DEF AdmittedCount, E, I, O
<1>11. AutoTypeOK'
  <2>1. /\ UNCHANGED <<folder, revoked, autoStatus, reachable, now, socket>>
        /\ tasks' \in [0 .. TaskRetries - 1 -> Nat] /\ history' \in [Kinds -> Nat]
        /\ inFolder' \in [running : Nat, parked : Nat] /\ DOMAIN tasks' = 0 .. TaskRetries - 1
    BY DEF Goes, Runs
  <2>2. inFolder'.parked <= history'["asked"] + history'["answered"]
    BY <1>7 DEF Runs
  <2>3. inFolder'.running <= history'["running"]
    <3>1. Cardinality(Busy(OnServer)') \in Nat
      BY <1>2
    <3>2. inFolder'.running + Cardinality(Busy(OnServer)') <= history'["running"]
      BY <1>10 DEF AdmittedCount
    <3>. QED
      BY <1>7, <3>1, <3>2
  <2>4. /\ folder' \in Folders \cup {NoFolder} /\ revoked' \in SUBSET Folders
        /\ autoStatus' \in {"active", "paused"} /\ reachable' \in SUBSET Machines
        /\ socket' \in [Sockets -> Catches] /\ now' \in 0 .. MaxOccurrences
    BY <1>0, <2>1 DEF AutoTypeOK, Catches
  <2>. QED
    BY <1>4, <1>8, <1>9, <2>1, <2>2, <2>3, <2>4 DEF AutoTypeOK, Catches
<1>12. Enqueued'
  BY <1>0, <1>1, <1>4 DEF Enqueued
<1>13. NoOccurrenceLost'
  BY <1>4 DEF NoOccurrenceLost
<1>14. MadeUpOnce'
  <2>1. history["missed"] + Cardinality(Claimed) <= unmade /\ Cardinality(Claimed) \in Nat
    BY <1>0, FS_CardinalityType DEF AutoInv, MadeUpOnce, Claimed, AutoShape
  <2>2. \/ unmade' = unmade /\ history'["missed"] = history["missed"]
        \/ unmade' = unmade + 1 /\ history'["missed"] = history["missed"] + 1
    BY DEF Runs
  <2>3. unmade \in Nat
    BY <1>0
  <2>4. Cardinality(Claimed') <= Cardinality(Claimed) /\ Cardinality(Claimed') \in Nat
    BY <1>3, <2>1
  <2>5. history'["missed"] + Cardinality(Claimed') <= unmade'
    BY <1>7, <2>1, <2>2, <2>3, <2>4
  <2>. QED
    BY <2>5 DEF MadeUpOnce, Claimed
<1>. QED
  BY <1>6, <1>10, <1>11, <1>12, <1>13, <1>14 DEF AutoInv

LEMMA AutoInitial == AutoInit => AutoInv
<1>. SUFFICES ASSUME AutoInit PROVE AutoInv
  OBVIOUS
<1>. USE AutoConstants
<1>1. PICK up \in UpSchedulers :
        sched = [s \in Schedulers |-> IF s \in up THEN Resting ELSE [Resting EXCEPT !.at = "down"]]
  BY DEF AutoInit
<1>2. \A s \in Schedulers :
        /\ sched[s] \in Rows
        /\ sched[s].at = IF s \in up THEN "idle" ELSE "down"
        /\ sched[s].upto = 0 /\ sched[s].tries = 0 /\ sched[s].folder = NoFolder
  BY <1>1 DEF Resting, Places, Rows
<1>3. /\ Up = up /\ Busy(Entering) = {} /\ Busy(Inside) = {} /\ Busy(OnServer) = {}
      /\ {s \in Schedulers : sched[s].at = "turn"} = {} /\ Claimed = {}
  BY <1>2 DEF Up, Busy, Entering, Inside, OnServer, Claimed, AutoInit, Asleep
<1>4. /\ IsFiniteSet(up) /\ Cardinality(up) \in Nat
      /\ IsFiniteSet({}) /\ Cardinality({}) = 0
  BY FS_CardinalityType, FS_EmptySet
<1>5. AutoShape
  BY <1>1, <1>2, <1>3, <1>4 DEF AutoInit, AutoShape
<1>6. /\ history \in [Kinds -> Nat] /\ history["running"] = 0 /\ history["missed"] = 0
      /\ history["asked"] = 0 /\ history["answered"] = 0
      /\ inFolder \in [running : Nat, parked : Nat] /\ inFolder.running = 0 /\ inFolder.parked = 0
  BY DEF AutoInit, Kinds
<1>7. AutoTypeOK
  <2>1. Cardinality({s \in Schedulers : sched[s].at = "turn"}) = 0
    BY <1>3, <1>4
  <2>2. /\ folder \in Folders \cup {NoFolder} /\ revoked \in SUBSET Folders
        /\ autoStatus \in {"active", "paused"} /\ reachable \in SUBSET Machines
        /\ now = 0 /\ now \in 0 .. MaxOccurrences /\ next \in 1 .. MaxOccurrences + 1
        /\ tasks \in [0 .. TaskRetries - 1 -> Nat] /\ DOMAIN tasks = 0 .. TaskRetries - 1
        /\ socket \in [Sockets -> Catches]
    BY DEF AutoInit, Asleep, Catches
  <2>3. \A s \in Schedulers :
          /\ sched[s].at \in {"down", "idle", "due", "fired", "start", "admitted", "turn"}
          /\ sched[s].upto \in 0 .. now /\ sched[s].tries \in DOMAIN tasks
          /\ sched[s].folder \in Folders \cup {NoFolder}
    BY <1>2, <2>2
  <2>. QED
    BY <1>6, <2>1, <2>2, <2>3 DEF AutoTypeOK, Catches
<1>8. Enqueued /\ NoOccurrenceLost
  BY <1>2 DEF AutoInit, Enqueued, NoOccurrenceLost
<1>9. MadeUpOnce /\ AdmittedCount
  <2>1. unmade = 0 /\ Cardinality(Claimed) = 0 /\ Cardinality(Busy(Entering)) = 0
        /\ Cardinality(Busy(Inside)) = 0 /\ Cardinality(Busy(OnServer)) = 0
        /\ Cardinality(Up) \in Nat
    BY <1>3, <1>4 DEF AutoInit
  <2>. QED
    BY <1>6, <2>1 DEF MadeUpOnce, AdmittedCount, Claimed
<1>. QED
  BY <1>5, <1>7, <1>8, <1>9 DEF AutoInv

LEMMA AutoInvariant == AutoSpec => []AutoInv
<1>1. AutoInv /\ [AutoNext]_autoVars => AutoInv'
  <2>1. CASE UNCHANGED autoVars
    BY <2>1 DEF autoVars, AutoInv, AutoShape, AutoTypeOK, Enqueued, NoOccurrenceLost,
                MadeUpOnce, AdmittedCount, Up, Busy, Entering, Inside, OnServer, Rows, Claimed
  <2>2. ASSUME AutoInv, AutoNext PROVE AutoInv'
    BY <2>2, AutoSteps, ElsewhereAside, AsideKeeps, WorkKeeps
  <2>. QED
    BY <2>1, <2>2
<1>. QED
  BY <1>1, AutoInitial, PTL DEF AutoSpec

\* The state of an automation keeps its shape, each turn that runs has its record, and
\* what goes on in folders is among what goes on.
THEOREM AutoTypeCorrect == AutoSpec => []AutoTypeOK
<1>1. AutoInv => AutoTypeOK
  BY DEF AutoInv
<1>. QED
  BY <1>1, AutoInvariant, PTL

\* next_run_at never steps over an occurrence for which no task was enqueued.
THEOREM NothingSteppedOver == AutoSpec => []NoOccurrenceLost
<1>1. AutoInv => NoOccurrenceLost
  BY DEF AutoInv
<1>. QED
  BY <1>1, AutoInvariant, PTL

\* A missed record is made up for once at most.
THEOREM CaughtUpOnce == AutoSpec => []MadeUpOnce
<1>1. AutoInv => MadeUpOnce
  BY DEF AutoInv
<1>. QED
  BY <1>1, AutoInvariant, PTL

\* However the owner moves the automation between folders, machines and the server, no
\* more of its runs in folders are on record as going on than there are schedulers
\* (scheduler/mod.rs run_automation, http/automations.rs update_automation).
THEOREM BoundedOverlap == AutoSpec => []OverlapBounded
<1>1. AutoInv => OverlapBounded
  <2>. SUFFICES ASSUME AutoInv PROVE inFolder.running + inFolder.parked <= Cardinality(Up)
    BY DEF OverlapBounded, Up
  <2>1. \A r \in Entering : r.at # "down"
    BY DEF Entering
  <2>2. Busy(Entering) \subseteq Up /\ IsFiniteSet(Up)
    BY <2>1 DEF AutoInv, AutoShape, Busy, Up
  <2>3. Cardinality(Busy(Entering)) \in Nat /\ Cardinality(Up) \in Nat
    BY <2>2, FS_Subset, FS_CardinalityType
  <2>4. inFolder.running \in Nat /\ inFolder.parked \in Nat
    BY RecordCounts DEF AutoInv
  <2>. QED
    BY <2>3, <2>4 DEF AutoInv, AdmittedCount
<1>. QED
  BY <1>1, AutoInvariant, PTL

-----------------------------------------------------------------------------
(* Workflow firings. *)

LEMMA RunParameters ==
  Nobody \notin Pollers /\ MaxRetries \in Nat /\ MaxRetries > 0
  /\ MaxRunCrashes \in Nat /\ MaxSwitches \in Nat
BY RunConstants

USE RunParameters

-----------------------------------------------------------------------------
(* The invariant. *)

RoutedWork == {"planning", "planned", "driving", "publishing", "delivering", "abandon"}
DirectWork == {"acting", "posted", "done", "failing"}
Work == RoutedWork \cup DirectWork

\* The two kinds of firing do not share a stage.
FiringKinds ==
  \A s \in Pollers :
    /\ worker[s] \in RoutedWork \cup {"sync"} => routed
    /\ worker[s] \in DirectWork \cup {"start", "ok", "error"} => ~routed

\* Whoever works on the run has claimed it, alone, and has not published it.
Claimant ==
  /\ \A s, t \in Pollers : worker[s] \in Work /\ worker[t] \in Work => s = t
  /\ \A s \in Pollers : worker[s] \in Work => run # "queued"
  /\ \A s \in Pollers : worker[s] \in RoutedWork \cup {"acting"} => posted = 0
  /\ run = "queued" => posted = 0

\* The job row follows the claimant's plan.
Jobs ==
  /\ \A s \in Pollers : worker[s] \in {"planning", "planned"} => job.at = "none"
  /\ run = "queued" \/ ~routed => job.at = "none"

\* The task of an unrouted firing is in one hand at a time.
Hands ==
  /\ ~routed => /\ \A s, t \in Pollers : worker[s] # "idle" /\ worker[t] # "idle" => s = t
                /\ \A s \in Pollers : worker[s] # "idle" => taskRow.at = "running"
  /\ TaskOpen => taskRow.tries < MaxRetries

\* A task is buried when nothing can be published any more.
Buried ==
  routed /\ taskRow.at = "dead_letter" => run \in {"failed", "skipped"} \/ job.at \in {"failed", "interrupted"}

RunInv ==
  /\ RunTypeOK /\ FiringKinds /\ Claimant /\ Jobs /\ Hands /\ Buried
  /\ DeliveredIsSucceeded /\ QueueTellsTruth /\ PostsOnce

-----------------------------------------------------------------------------
(* Every action keeps it. *)

\* Each step of a scheduler moves that scheduler alone.
Moves(s) == worker' = [worker EXCEPT ![s] = worker'[s]]

Direct(s) == CheckEngine(s) \/ Outdated(s) \/ ClaimRun(s) \/ Act(s) \/ FinishRun(s) \/ ReportTask(s)
Prepare(s) == ClaimTask(s) \/ ClaimRouted(s) \/ Plan(s) \/ InsertJob(s) \/ Drive(s) \/ Fence(s)
Conclude(s) == PostMessage(s) \/ Timeout(s) \/ Abandon(s) \/ Sync(s) \/ Die(s)
Around == Recovery \/ TaskAges \/ RunAges \/ LeaseLapses \/ SwitchActive

LEMMA RunSteps == RunNext <=> Around \/ \E s \in Pollers : Direct(s) \/ Prepare(s) \/ Conclude(s)
BY DEF RunNext, Around, Direct, Prepare, Conclude, Handler

TaskRec == [at : {"queued", "running", "succeeded", "dead_letter"},
            tries : 0 .. MaxRetries, old : BOOLEAN]
JobRec == [at : {"none", "running", "succeeded", "failed", "interrupted"},
           owner : Pollers \cup {Nobody}, lease : BOOLEAN, locked : BOOLEAN]
WorkPlaces == {"idle", "claimed", "start", "acting", "posted", "done", "failing", "ok", "error",
           "planning", "planned", "driving", "publishing", "delivering", "abandon", "sync"}

LEMMA RunTypes ==
  RunTypeOK <=>
    /\ routed \in BOOLEAN /\ active \in BOOLEAN /\ runOld \in BOOLEAN
    /\ run \in Ended \cup {"queued", "running"}
    /\ taskRow \in TaskRec /\ job \in JobRec /\ worker \in [Pollers -> WorkPlaces] /\ posted \in Nat
    /\ runCrashes \in 0 .. MaxRunCrashes /\ runSwitches \in 0 .. MaxSwitches
BY DEF RunTypeOK, TaskRec, JobRec, WorkPlaces

\* What a step can make of a task or a job.
LEMMA TaskChanges ==
  ASSUME NEW t \in TaskRec
  PROVE  /\ [t EXCEPT !.at = "queued"] \in TaskRec /\ [t EXCEPT !.at = "succeeded"] \in TaskRec
         /\ [t EXCEPT !.at = "dead_letter"] \in TaskRec /\ [t EXCEPT !.old = TRUE] \in TaskRec
         /\ [t EXCEPT !.at = "running", !.old = FALSE] \in TaskRec
         /\ \A n \in 0 .. MaxRetries :
              /\ [t EXCEPT !.tries = n, !.at = "queued"] \in TaskRec
              /\ [t EXCEPT !.tries = n, !.at = "dead_letter"] \in TaskRec
BY DEF TaskRec

LEMMA JobChanges ==
  ASSUME NEW j \in JobRec, NEW p \in {"running", "succeeded", "failed", "interrupted"},
         NEW b \in BOOLEAN
  PROVE  /\ [j EXCEPT !.locked = b] \in JobRec /\ [j EXCEPT !.lease = FALSE] \in JobRec
         /\ [j EXCEPT !.at = p, !.owner = Nobody] \in JobRec
         /\ [j EXCEPT !.at = p, !.owner = Nobody, !.lease = FALSE] \in JobRec
         /\ [j EXCEPT !.at = p, !.owner = Nobody, !.lease = FALSE, !.locked = FALSE] \in JobRec
         /\ \A s \in Pollers : [at |-> "running", owner |-> s, lease |-> TRUE, locked |-> FALSE] \in JobRec
         /\ j.locked \in BOOLEAN
BY DEF JobRec

LEMMA RunTypeStep ==
  ASSUME RunInv, RunNext
  PROVE  RunTypeOK'
<1>. USE DEF Go, runBounds
<1>0. /\ RunTypeOK /\ FiringKinds /\ Hands /\ taskRow \in TaskRec /\ job \in JobRec
      /\ worker \in [Pollers -> WorkPlaces]
  BY RunTypes DEF RunInv
<1>1. taskRow' \in TaskRec
  <2>1. ASSUME NEW s \in Pollers, ReportTask(s) PROVE taskRow' \in TaskRec
    <3>1. ~routed /\ taskRow.at = "running"
      BY <1>0, <2>1 DEF ReportTask, FiringKinds, Hands
    <3>2. taskRow.tries + 1 \in 0 .. MaxRetries
      BY <1>0, <3>1 DEF Hands, TaskOpen, TaskRec
    <3>3. \/ taskRow' = [taskRow EXCEPT !.at = "succeeded"]
          \/ taskRow' = [taskRow EXCEPT !.tries = taskRow.tries + 1, !.at = "queued"]
          \/ taskRow' = [taskRow EXCEPT !.tries = taskRow.tries + 1, !.at = "dead_letter"]
      BY <2>1 DEF ReportTask
    <3>4. /\ [taskRow EXCEPT !.at = "succeeded"] \in TaskRec
          /\ [taskRow EXCEPT !.tries = taskRow.tries + 1, !.at = "queued"] \in TaskRec
          /\ [taskRow EXCEPT !.tries = taskRow.tries + 1, !.at = "dead_letter"] \in TaskRec
      BY ONLY <1>0, <3>2, TaskChanges
    <3>. QED
      BY ONLY <3>3, <3>4
  <2>2. ASSUME NEW s \in Pollers, ClaimTask(s) PROVE taskRow' \in TaskRec
    BY <1>0, <2>2, TaskChanges DEF ClaimTask
  <2>3. ASSUME NEW s \in Pollers, Sync(s) PROVE taskRow' \in TaskRec
    <3>1. taskRow' = taskRow \/ taskRow' = [taskRow EXCEPT !.at = "succeeded"] \/ taskRow' = [taskRow EXCEPT !.at = "dead_letter"]
      BY <2>3 DEF Sync
    <3>. QED
      BY <1>0, <3>1, TaskChanges
  <2>4. CASE Around
    <3>1. \/ taskRow' = taskRow \/ taskRow' = [taskRow EXCEPT !.at = "dead_letter"]
          \/ taskRow' = [taskRow EXCEPT !.at = "succeeded"]
          \/ taskRow' = [taskRow EXCEPT !.at = "queued"] \/ taskRow' = [taskRow EXCEPT !.old = TRUE]
      BY <2>4 DEF Around, Recovery, Interrupt, SettleTask, Requeue, FailStoppedRun, BuryTask,
         TaskAges, RunAges, LeaseLapses, SwitchActive
    <3>2. [taskRow EXCEPT !.old = TRUE] \in TaskRec
      BY <1>0 DEF TaskRec
    <3>. QED
      BY <1>0, <3>1, <3>2, TaskChanges
  <2>. QED
    BY <1>0, <2>1, <2>2, <2>3, <2>4, RunSteps DEF Direct, Prepare, Conclude, CheckEngine, Outdated,
       ClaimRun, Act, FinishRun, ClaimRouted, Plan, InsertJob, Drive, Fence, PostMessage, Timeout,
       Abandon, Die
<1>2. job' \in JobRec
  <2>1. ASSUME NEW s \in Pollers, Fence(s) \/ InsertJob(s) PROVE job' \in JobRec
    <3>1. \/ job' = job \/ job' = [job EXCEPT !.locked = TRUE]
          \/ job' = [at |-> "running", owner |-> s, lease |-> TRUE, locked |-> FALSE]
      BY <2>1 DEF Fence, InsertJob
    <3>2. [job EXCEPT !.locked = TRUE] \in JobRec
      BY <1>0 DEF JobRec
    <3>. QED
      BY <1>0, <3>1, <3>2, JobChanges
  <2>2. ASSUME NEW s \in Pollers, PostMessage(s) PROVE job' \in JobRec
    <3>1. \/ job' = [job EXCEPT !.at = "succeeded", !.owner = Nobody, !.lease = FALSE, !.locked = FALSE]
          \/ job' = [job EXCEPT !.locked = FALSE]
      BY <2>2 DEF PostMessage
    <3>. QED
      BY <1>0, <3>1, JobChanges
  <2>3. ASSUME NEW s \in Pollers, Timeout(s) \/ Die(s) PROVE job' \in JobRec
    <3>1. job' = [job EXCEPT !.locked = @ /\ worker[s] # "delivering"]
      BY <2>3 DEF Timeout, Die
    <3>2. (job.locked /\ worker[s] # "delivering") \in BOOLEAN
      OBVIOUS
    <3>. QED
      BY <1>0, <3>1, <3>2, JobChanges
  <2>4. ASSUME NEW s \in Pollers, Abandon(s) PROVE job' \in JobRec
    <3>1. job' = job \/ job' = [job EXCEPT !.at = "failed", !.owner = Nobody, !.lease = FALSE]
      BY <2>4 DEF Abandon
    <3>. QED
      BY <1>0, <3>1, JobChanges
  <2>5. CASE Around
    <3>1. \/ job' = job \/ job' = [job EXCEPT !.at = "interrupted", !.owner = Nobody]
          \/ job' = [job EXCEPT !.lease = FALSE]
      BY <2>5 DEF Around, Recovery, Interrupt, SettleTask, Requeue, FailStoppedRun, BuryTask,
         TaskAges, RunAges, LeaseLapses, SwitchActive
    <3>. QED
      BY <1>0, <3>1, JobChanges
  <2>. QED
    BY <1>0, <2>1, <2>2, <2>3, <2>4, <2>5, RunSteps DEF Direct, Prepare, Conclude, CheckEngine, Outdated,
       ClaimRun, Act, FinishRun, ReportTask, ClaimTask, ClaimRouted, Plan, Drive, Sync
<1>3. worker' \in [Pollers -> WorkPlaces]
  <2>1. ASSUME NEW s \in Pollers, Direct(s) PROVE worker' \in [Pollers -> WorkPlaces]
    BY <1>0, <2>1 DEF Direct, CheckEngine, Outdated, ClaimRun, Act, FinishRun, ReportTask, WorkPlaces
  <2>2. ASSUME NEW s \in Pollers, Prepare(s) PROVE worker' \in [Pollers -> WorkPlaces]
    BY <1>0, <2>2 DEF Prepare, ClaimTask, ClaimRouted, Plan, InsertJob, Drive, Fence, Advance, WorkPlaces
  <2>3. ASSUME NEW s \in Pollers, Conclude(s) PROVE worker' \in [Pollers -> WorkPlaces]
    BY <1>0, <2>3 DEF Conclude, PostMessage, Timeout, Abandon, Sync, Die, WorkPlaces
  <2>. QED
    BY <1>0, <2>1, <2>2, <2>3, RunSteps DEF Around, Recovery, Interrupt, SettleTask, Requeue,
       FailStoppedRun, BuryTask, TaskAges, RunAges, LeaseLapses, SwitchActive
<1>. DEFINE Verdicts == run \in Ended \cup {"queued", "running"} /\ posted \in Nat
            Marks == /\ routed \in BOOLEAN /\ active \in BOOLEAN /\ runOld \in BOOLEAN
                     /\ runCrashes \in 0 .. MaxRunCrashes /\ runSwitches \in 0 .. MaxSwitches
<1>4. Verdicts'
  <2>0. run \in Ended \cup {"queued", "running"} /\ posted \in Nat
    BY <1>0 DEF RunTypeOK
  <2>. USE DEF Ended
  <2>1. ASSUME NEW s \in Pollers, Direct(s) PROVE Verdicts'
    BY <2>0, <2>1 DEF Direct, CheckEngine, Outdated, ClaimRun, Act, FinishRun, ReportTask
  <2>2. ASSUME NEW s \in Pollers, Prepare(s) PROVE Verdicts'
    BY <2>0, <2>2 DEF Prepare, ClaimTask, ClaimRouted, Plan, InsertJob, Drive, Fence
  <2>3. ASSUME NEW s \in Pollers, Conclude(s) PROVE Verdicts'
    BY <2>0, <2>3 DEF Conclude, PostMessage, Timeout, Abandon, Sync, Die
  <2>4. CASE Around
    BY <2>0, <2>4 DEF Around, Recovery, Interrupt, SettleTask, Requeue, FailStoppedRun, BuryTask,
       TaskAges, RunAges, LeaseLapses, SwitchActive
  <2>. QED
    BY <2>1, <2>2, <2>3, <2>4, RunSteps
<1>5. Marks'
  <2>0. /\ routed \in BOOLEAN /\ active \in BOOLEAN /\ runOld \in BOOLEAN
        /\ runCrashes \in 0 .. MaxRunCrashes /\ runSwitches \in 0 .. MaxSwitches
    BY <1>0 DEF RunTypeOK
  <2>1. ASSUME NEW s \in Pollers, Direct(s) PROVE Marks'
    <3>1. CASE Outdated(s)
      <4>1. runSwitches' \in 0 .. MaxSwitches
        BY <2>0, <3>1 DEF Outdated
      <4>. QED
        BY <2>0, <3>1, <4>1 DEF Outdated
    <3>2. CASE ~Outdated(s)
      BY <2>0, <2>1, <3>2 DEF Direct, CheckEngine, ClaimRun, Act, FinishRun, ReportTask
    <3>. QED
      BY <3>1, <3>2
  <2>2. ASSUME NEW s \in Pollers, Prepare(s) PROVE Marks'
    BY <2>0, <2>2 DEF Prepare, ClaimTask, ClaimRouted, Plan, InsertJob, Drive, Fence
  <2>3. ASSUME NEW s \in Pollers, Conclude(s) PROVE Marks'
    BY <2>0, <2>3 DEF Conclude, PostMessage, Timeout, Abandon, Sync, Die
  <2>4. CASE Around
    <3>1. CASE Recovery \/ TaskAges \/ LeaseLapses
      BY <2>0, <3>1 DEF Recovery, Interrupt, SettleTask, Requeue, FailStoppedRun, BuryTask,
         TaskAges, LeaseLapses
    <3>2. CASE RunAges
      BY <2>0, <3>2 DEF RunAges
    <3>3. CASE SwitchActive
      <4>1. runSwitches' \in 0 .. MaxSwitches
        BY <2>0, <3>3 DEF SwitchActive
      <4>2. active' \in BOOLEAN
        BY <3>3 DEF SwitchActive
      <4>. QED
        BY <2>0, <3>3, <4>1, <4>2 DEF SwitchActive
    <3>. QED
      BY <2>4, <3>1, <3>2, <3>3 DEF Around
  <2>. QED
    BY <2>1, <2>2, <2>3, <2>4, RunSteps
<1>. QED
  BY <1>1, <1>2, <1>3, <1>4, <1>5 DEF RunTypeOK, TaskRec, JobRec, WorkPlaces

LEMMA FiringKindsStep ==
  ASSUME RunInv, RunNext
  PROVE  FiringKinds'
<1>. USE DEF FiringKinds, Go, runBounds, RoutedWork, DirectWork
<1>0. FiringKinds /\ worker \in [Pollers -> {"idle", "claimed", "start", "acting", "posted",
                      "done", "failing", "ok", "error", "planning", "planned",
                      "driving", "publishing", "delivering", "abandon", "sync"}]
  BY DEF RunInv, RunTypeOK
<1>1. ASSUME NEW s \in Pollers, Direct(s) PROVE FiringKinds'
  BY <1>0, <1>1 DEF Direct, CheckEngine, Outdated, ClaimRun, Act, FinishRun, ReportTask
<1>3. ASSUME NEW s \in Pollers, Prepare(s) PROVE FiringKinds'
  BY <1>0, <1>3 DEF Prepare, ClaimTask, ClaimRouted, Plan, InsertJob, Drive, Fence, Advance
<1>4. ASSUME NEW s \in Pollers, Conclude(s) PROVE FiringKinds'
  BY <1>0, <1>4 DEF Conclude, PostMessage, Timeout, Abandon, Sync, Die
<1>5. CASE Around
  BY <1>0, <1>5 DEF Around, Recovery, Interrupt, SettleTask, Requeue, FailStoppedRun, BuryTask,
     TaskAges, RunAges, LeaseLapses, SwitchActive
<1>. QED
  BY <1>1, <1>3, <1>4, <1>5, RunSteps

LEMMA ClaimantStep ==
  ASSUME RunInv, RunNext
  PROVE  Claimant' /\ PostsOnce'
<1>. USE DEF Claimant, PostsOnce, Go, runBounds, Work, RoutedWork, DirectWork
<1>0. Claimant /\ PostsOnce /\ RunTypeOK /\ FiringKinds
  BY DEF RunInv
<1>a. worker \in [Pollers -> {"idle", "claimed", "start", "acting", "posted",
                      "done", "failing", "ok", "error", "planning", "planned",
                      "driving", "publishing", "delivering", "abandon", "sync"}] /\ posted \in Nat
  BY <1>0 DEF RunTypeOK
<1>1. ASSUME NEW s \in Pollers, Direct(s) PROVE Claimant' /\ PostsOnce'
  <2>1. CASE CheckEngine(s)
    BY <1>0, <1>a, <2>1 DEF CheckEngine
  <2>2. CASE Outdated(s)
    BY <1>0, <1>a, <2>2 DEF Outdated
  <2>3. CASE ClaimRun(s)
    BY <1>0, <1>a, <2>3 DEF ClaimRun
  <2>4. CASE Act(s)
    BY <1>0, <1>a, <2>4 DEF Act, FiringKinds
  <2>5. CASE FinishRun(s) \/ ReportTask(s)
    BY <1>0, <1>a, <2>5 DEF FinishRun, ReportTask
  <2>. QED
    BY <1>1, <2>1, <2>2, <2>3, <2>4, <2>5 DEF Direct
<1>3. ASSUME NEW s \in Pollers, Prepare(s) PROVE Claimant' /\ PostsOnce'
  <2>1. CASE ClaimTask(s)
    BY <1>0, <1>a, <2>1 DEF ClaimTask
  <2>2. CASE ClaimRouted(s)
    BY <1>0, <1>a, <2>2 DEF ClaimRouted
  <2>3. CASE Plan(s) \/ InsertJob(s) \/ Drive(s) \/ Fence(s)
    BY <1>0, <1>a, <2>3 DEF Plan, InsertJob, Drive, Fence, Advance
  <2>. QED
    BY <1>3, <2>1, <2>2, <2>3 DEF Prepare
<1>4. ASSUME NEW s \in Pollers, Conclude(s) PROVE Claimant' /\ PostsOnce'
  <2>1. CASE PostMessage(s)
    BY <1>0, <1>a, <2>1 DEF PostMessage
  <2>2. CASE Timeout(s) \/ Abandon(s)
    BY <1>0, <1>a, <2>2 DEF Timeout, Abandon
  <2>3. CASE Sync(s) \/ Die(s)
    BY <1>0, <1>a, <2>3 DEF Sync, Die
  <2>. QED
    BY <1>4, <2>1, <2>2, <2>3 DEF Conclude
<1>5. CASE Around
  BY <1>0, <1>5 DEF Around, Recovery, Interrupt, SettleTask, Requeue, FailStoppedRun, BuryTask,
     TaskAges, RunAges, LeaseLapses, SwitchActive
<1>. QED
  BY <1>1, <1>3, <1>4, <1>5, RunSteps

LEMMA HandsStep ==
  ASSUME RunInv, RunNext
  PROVE  Hands'
<1>. USE DEF Hands, Go, runBounds, TaskOpen
<1>0. Hands /\ RunTypeOK /\ FiringKinds /\ Jobs
  BY DEF RunInv
<1>a. /\ worker \in [Pollers -> {"idle", "claimed", "start", "acting", "posted",
                      "done", "failing", "ok", "error", "planning", "planned",
                      "driving", "publishing", "delivering", "abandon", "sync"}]
      /\ taskRow \in [at : {"queued", "running", "succeeded", "dead_letter"},
                   tries : 0 .. MaxRetries, old : BOOLEAN]
  BY <1>0 DEF RunTypeOK
<1>1. ASSUME NEW s \in Pollers, Direct(s) /\ ~ReportTask(s) PROVE Hands'
  BY <1>0, <1>a, <1>1 DEF Direct, CheckEngine, Outdated, ClaimRun, Act, FinishRun
<1>2. ASSUME NEW s \in Pollers, ReportTask(s) PROVE Hands'
  <2>1. ~routed /\ routed' = routed /\ worker[s] # "idle"
    BY <1>0, <1>2 DEF ReportTask, FiringKinds
  <2>2. \A t \in Pollers : worker'[t] = "idle"
    BY <1>0, <1>a, <1>2, <2>1 DEF ReportTask
  <2>3. taskRow'.at \in {"queued", "running"} => taskRow'.tries < MaxRetries
    BY <1>a, <1>2 DEF ReportTask
  <2>. QED
    BY <2>1, <2>2, <2>3
<1>3. ASSUME NEW s \in Pollers, Prepare(s) PROVE Hands'
  <2>1. CASE ClaimTask(s)
    <3>1. taskRow'.at = "running" /\ taskRow'.tries = taskRow.tries /\ taskRow.at = "queued" /\ routed' = routed
      BY <1>a, <2>1 DEF ClaimTask
    <3>2. ~routed => \A t \in Pollers \ {s} : worker'[t] = "idle"
      BY <1>0, <1>a, <2>1 DEF ClaimTask
    <3>. QED
      BY <1>0, <3>1, <3>2
  <2>2. CASE ClaimRouted(s) \/ Plan(s) \/ InsertJob(s) \/ Drive(s) \/ Fence(s)
    <3>1. UNCHANGED <<taskRow, routed>> /\ \A t \in Pollers \ {s} : worker'[t] = worker[t]
      BY <1>a, <2>2 DEF ClaimRouted, Plan, InsertJob, Drive, Fence, Advance
    <3>2. worker[s] # "idle"
      BY <2>2 DEF ClaimRouted, Plan, InsertJob, Drive, Fence, Advance
    <3>. QED
      BY <1>0, <3>1, <3>2
  <2>. QED
    BY <1>3, <2>1, <2>2 DEF Prepare
<1>4. ASSUME NEW s \in Pollers, Conclude(s) PROVE Hands'
  BY <1>0, <1>a, <1>4 DEF Conclude, PostMessage, Timeout, Abandon, Sync, Die, FiringKinds, RoutedWork
<1>5. CASE Around
  BY <1>0, <1>a, <1>5 DEF Around, Recovery, Interrupt, SettleTask, Requeue, FailStoppedRun, BuryTask,
     TaskAges, RunAges, LeaseLapses, SwitchActive, Jobs
<1>. QED
  BY <1>1, <1>2, <1>3, <1>4, <1>5, RunSteps

LEMMA JobsStep ==
  ASSUME RunInv, RunNext
  PROVE  Jobs'
<1>. USE DEF Jobs, Go, runBounds, RoutedWork, DirectWork, Work
<1>0. Jobs /\ RunTypeOK /\ FiringKinds /\ Claimant
  BY DEF RunInv
<1>a. /\ worker \in [Pollers -> {"idle", "claimed", "start", "acting", "posted",
                      "done", "failing", "ok", "error", "planning", "planned",
                      "driving", "publishing", "delivering", "abandon", "sync"}]
      /\ job \in [at : {"none", "running", "succeeded", "failed", "interrupted"},
                  owner : Pollers \cup {Nobody}, lease : BOOLEAN, locked : BOOLEAN]
  BY <1>0 DEF RunTypeOK
<1>1. ASSUME NEW s \in Pollers, Direct(s) PROVE Jobs'
  BY <1>0, <1>a, <1>1 DEF Direct, CheckEngine, Outdated, ClaimRun, Act, FinishRun, ReportTask, FiringKinds
<1>2. ASSUME NEW s \in Pollers, InsertJob(s) PROVE Jobs'
  BY <1>0, <1>a, <1>2 DEF InsertJob, FiringKinds, Claimant
<1>3. ASSUME NEW s \in Pollers, Prepare(s) /\ ~InsertJob(s) PROVE Jobs'
  BY <1>0, <1>a, <1>3 DEF Prepare, ClaimTask, ClaimRouted, Plan, Drive, Fence, Advance
<1>4. ASSUME NEW s \in Pollers, Conclude(s) PROVE Jobs'
  BY <1>0, <1>a, <1>4 DEF Conclude, PostMessage, Timeout, Abandon, Sync, Die, FiringKinds, Claimant,
     LeaseHolds, Allowed
<1>5. CASE Around
  BY <1>0, <1>a, <1>5 DEF Around, Recovery, Interrupt, SettleTask, Requeue, FailStoppedRun, BuryTask,
     TaskAges, RunAges, LeaseLapses, SwitchActive
<1>. QED
  BY <1>1, <1>2, <1>3, <1>4, <1>5, RunSteps

\* What is posted, the run's verdict, the job's and the task's.
LEMMA VerdictStep ==
  ASSUME RunInv, RunNext
  PROVE  Buried' /\ DeliveredIsSucceeded' /\ QueueTellsTruth'
<1>. DEFINE Verdict == Buried /\ DeliveredIsSucceeded /\ QueueTellsTruth
<1>. USE DEF Buried, DeliveredIsSucceeded, QueueTellsTruth, Go, runBounds, Ended
<1>0. Verdict /\ RunTypeOK /\ FiringKinds /\ Claimant /\ Jobs
  BY DEF RunInv
<1>a. /\ taskRow \in [at : {"queued", "running", "succeeded", "dead_letter"},
                   tries : 0 .. MaxRetries, old : BOOLEAN]
      /\ job \in [at : {"none", "running", "succeeded", "failed", "interrupted"},
                  owner : Pollers \cup {Nobody}, lease : BOOLEAN, locked : BOOLEAN]
      /\ posted \in Nat
  BY <1>0 DEF RunTypeOK
<1>1. ASSUME NEW s \in Pollers, Direct(s) PROVE Verdict'
  <2>1. ~routed /\ routed' = routed
    BY <1>0, <1>1 DEF Direct, CheckEngine, Outdated, ClaimRun, Act, FinishRun, ReportTask, FiringKinds, DirectWork
  <2>. QED
    BY <2>1
<1>2. ASSUME NEW s \in Pollers, Prepare(s) PROVE Verdict'
  <2>1. CASE ClaimTask(s)
    BY <1>0, <1>a, <2>1 DEF ClaimTask
  <2>2. CASE ClaimRouted(s)
    BY <1>0, <1>a, <2>2 DEF ClaimRouted, Jobs, Claimant
  <2>3. CASE Plan(s) \/ Drive(s)
    BY <1>0, <2>3 DEF Plan, Drive
  <2>4. CASE InsertJob(s)
    <3>1. job.at = "none" /\ UNCHANGED <<routed, run, taskRow, posted>> /\ job'.at = "running"
      BY <1>0, <2>4 DEF InsertJob, Jobs
    <3>. QED
      BY <1>0, <3>1
  <2>5. CASE Fence(s)
    <3>1. UNCHANGED <<routed, run, taskRow, posted>> /\ job'.at = job.at
      BY <1>a, <2>5 DEF Fence
    <3>. QED
      BY <1>0, <3>1
  <2>. QED
    BY <1>2, <2>1, <2>2, <2>3, <2>4, <2>5 DEF Prepare
<1>3. ASSUME NEW s \in Pollers, Conclude(s) PROVE Verdict'
  <2>1. CASE PostMessage(s)
    <3>1. posted = 0
      BY <1>0, <2>1 DEF PostMessage, Claimant, RoutedWork
    <3>2. CASE LeaseHolds(s)
      <4>1. /\ job.at = "running" /\ run = "running" /\ posted' = 1 /\ run' = "succeeded"
            /\ job'.at = "succeeded" /\ UNCHANGED <<routed, taskRow>>
        <5>1. job.at = "running" /\ run = "running"
          BY <3>2 DEF LeaseHolds, Allowed
        <5>2. /\ posted' = posted + 1 /\ run' = "succeeded" /\ UNCHANGED <<routed, taskRow>>
              /\ job' = [job EXCEPT !.at = "succeeded", !.owner = Nobody,
                                    !.lease = FALSE, !.locked = FALSE]
          BY <2>1, <3>2, <5>1 DEF PostMessage
        <5>. QED
          BY <1>a, <3>1, <5>1, <5>2
      <4>2. routed => taskRow.at # "dead_letter"
        BY <1>0, <4>1
      <4>. QED
        BY <1>0, <4>1, <4>2
    <3>3. CASE ~LeaseHolds(s)
      <4>1. UNCHANGED <<routed, run, taskRow, posted>> /\ job'.at = job.at
        BY <1>a, <2>1, <3>3 DEF PostMessage
      <4>. QED
        BY <1>0, <4>1
    <3>. QED
      BY <3>2, <3>3
  <2>2. CASE Abandon(s)
    BY <1>0, <1>a, <2>2 DEF Abandon, Claimant, RoutedWork
  <2>3. CASE Timeout(s) \/ Die(s)
    <3>1. UNCHANGED <<routed, run, taskRow, posted>> /\ job'.at = job.at
      BY <1>a, <2>3 DEF Timeout, Die
    <3>. QED
      BY <1>0, <3>1
  <2>4. CASE Sync(s)
    BY <1>0, <1>a, <2>4 DEF Sync, RunTypeOK
  <2>. QED
    BY <1>3, <2>1, <2>2, <2>3, <2>4 DEF Conclude
<1>4. CASE Around
  <2>1. CASE Interrupt
    BY <1>0, <1>a, <2>1 DEF Interrupt
  <2>2. CASE SettleTask
    BY <1>0, <1>a, <2>2 DEF SettleTask
  <2>3. CASE Requeue \/ BuryTask \/ TaskAges
    BY <1>0, <1>a, <2>3 DEF Requeue, BuryTask, TaskAges
  <2>4. CASE FailStoppedRun
    BY <1>0, <1>a, <2>4 DEF FailStoppedRun
  <2>5. CASE RunAges \/ LeaseLapses \/ SwitchActive
    <3>1. UNCHANGED <<routed, run, taskRow, posted>> /\ job'.at = job.at
      BY <1>a, <2>5 DEF RunAges, LeaseLapses, SwitchActive
    <3>. QED
      BY <1>0, <3>1
  <2>. QED
    BY <1>4, <2>1, <2>2, <2>3, <2>4, <2>5 DEF Around, Recovery
<1>. QED
  BY <1>1, <1>2, <1>3, <1>4, RunSteps

-----------------------------------------------------------------------------
(* The theorems. *)

LEMMA RunInitial == RunInit => RunInv
<1>. SUFFICES ASSUME RunInit PROVE RunInv
  OBVIOUS
<1>1. RunTypeOK
  <2>1. taskRow \in TaskRec
    BY DEF RunInit, TaskRec
  <2>2. job \in JobRec
    BY DEF RunInit, JobRec, NoJob
  <2>3. worker \in [Pollers -> WorkPlaces]
    BY DEF RunInit, WorkPlaces
  <2>4. /\ routed \in BOOLEAN /\ active \in BOOLEAN /\ runOld \in BOOLEAN
        /\ run \in Ended \cup {"queued", "running"} /\ posted \in Nat
    BY DEF RunInit
  <2>5. runCrashes \in 0 .. MaxRunCrashes /\ runSwitches \in 0 .. MaxSwitches
    BY DEF RunInit
  <2>. QED
    BY ONLY <2>1, <2>2, <2>3, <2>4, <2>5, RunTypes
<1>2. /\ run = "queued" /\ posted = 0 /\ job.at = "none" /\ taskRow.at = "queued" /\ taskRow.tries = 0
      /\ \A s \in Pollers : worker[s] = "idle"
  BY DEF RunInit, NoJob
<1>3. FiringKinds /\ Claimant
  BY <1>2 DEF FiringKinds, Claimant, Work, RoutedWork, DirectWork
<1>4. Jobs /\ Hands /\ Buried
  BY <1>2 DEF Jobs, Hands, Buried, TaskOpen
<1>5. DeliveredIsSucceeded /\ QueueTellsTruth /\ PostsOnce
  BY <1>2 DEF DeliveredIsSucceeded, QueueTellsTruth, PostsOnce
<1>. QED
  BY <1>1, <1>3, <1>4, <1>5 DEF RunInv

LEMMA RunInductive == RunInv /\ [RunNext]_runVars => RunInv'
<1>. SUFFICES ASSUME RunInv, [RunNext]_runVars PROVE RunInv'
  OBVIOUS
<1>1. CASE RunNext
  BY <1>1, RunTypeStep, FiringKindsStep, ClaimantStep, HandsStep, JobsStep, VerdictStep DEF RunInv
<1>2. CASE UNCHANGED runVars
  BY <1>2 DEF RunInv, RunTypeOK, FiringKinds, Claimant, Jobs, Hands, Buried, DeliveredIsSucceeded,
     QueueTellsTruth, PostsOnce, TaskOpen, runVars, runBounds
<1>. QED
  BY <1>1, <1>2

LEMMA RunInvariant == RunSpec => []RunInv
BY RunInitial, RunInductive, PTL DEF RunSpec

\* Every variable keeps its type; in particular no task is retried more often
\* than it may be.
THEOREM RunTypeCorrect == RunSpec => []RunTypeOK
<1>1. RunInv => RunTypeOK
  BY DEF RunInv
<1>. QED
  BY <1>1, RunInvariant, PTL

\* However often a task is delivered, recovered, retried or timed out, and
\* whichever schedulers die: a firing posts at most one message.
THEOREM AtMostOneMessage == RunSpec => []PostsOnce
<1>1. RunInv => PostsOnce
  BY DEF RunInv
<1>. QED
  BY <1>1, RunInvariant, PTL

\* A routed firing has posted exactly when its run, and its job, succeeded
\* (routing.rs execute: link, job and run in one transaction).
THEOREM DeliveryIsSuccess == RunSpec => []DeliveredIsSucceeded
<1>1. RunInv => DeliveredIsSucceeded
  BY DEF RunInv
<1>. QED
  BY <1>1, RunInvariant, PTL

\* The task queue never says of a routed firing what its run does not (routing.rs
\* sync_task, recover).
THEOREM TruthfulQueue == RunSpec => []QueueTellsTruth
<1>1. RunInv => QueueTellsTruth
  BY DEF RunInv
<1>. QED
  BY <1>1, RunInvariant, PTL

\* The verdict on a routed firing is final: no handler and no recovery overwrites
\* it (each of their updates of the run asks for one that is queued or running).
THEOREM FinalVerdict == RunSpec => RoutedVerdictIsFinal
<1>1. ASSUME RunInv, [RunNext]_runVars, routed, run \in Ended
      PROVE  run' = run
  <2>0. /\ FiringKinds /\ DeliveredIsSucceeded
        /\ run \notin {"queued", "running"}
    BY <1>1 DEF RunInv, Ended
  <2>1. ASSUME NEW s \in Pollers, Direct(s) PROVE run' = run
    <3>1. worker[s] \notin DirectWork \cup {"start", "ok", "error"}
      BY <1>1, <2>0 DEF FiringKinds
    <3>. QED
      BY <1>1, <2>1, <3>1 DEF Direct, CheckEngine, Outdated, ClaimRun, Act, FinishRun, ReportTask, Go, DirectWork
  <2>2. ASSUME NEW s \in Pollers, Prepare(s) PROVE run' = run
    BY <2>0, <2>2 DEF Prepare, ClaimTask, ClaimRouted, Plan, InsertJob, Drive, Fence
  <2>3. ASSUME NEW s \in Pollers, Conclude(s) PROVE run' = run
    BY <2>0, <2>3 DEF Conclude, PostMessage, Timeout, Abandon, Sync, Die
  <2>4. CASE Around
    BY <2>0, <2>4 DEF Around, Recovery, Interrupt, SettleTask, Requeue, FailStoppedRun, BuryTask,
       TaskAges, RunAges, LeaseLapses, SwitchActive
  <2>5. CASE UNCHANGED runVars
    BY <2>5 DEF runVars, runBounds
  <2>. QED
    BY <1>1, <2>1, <2>2, <2>3, <2>4, <2>5, RunSteps
<1>2. RunInv /\ [RunNext]_runVars => [routed /\ run \in Ended => run' = run]_runVars
  BY <1>1
<1>. QED
  BY <1>2, RunInvariant, PTL DEF RunSpec, RoutedVerdictIsFinal

HIDE RunParameters

-----------------------------------------------------------------------------
(* Provider cooldowns. *)

LEMMA HealthParameters ==
  /\ Scopes \subseteq Nat /\ \A B \in Blames : B \subseteq Scopes
  /\ Batches \subseteq Requests /\ NoRequestYet \notin Requests
BY HealthConstants

USE HealthParameters

-----------------------------------------------------------------------------
(* The least scope of a set. *)

LEMMA LeastExists ==
  ASSUME NEW T \in SUBSET Nat, T # {}
  PROVE  \E x \in T : \A y \in T : x <= y
<1>. DEFINE R == OpToRel(<, Nat)
<1>1. \A a, b \in Nat : a < b => <<a, b>> \in R
  BY DEF OpToRel
<1>2. IsWellFoundedOn(R, Nat)
  BY NatLessThanWellFounded
<1>. HIDE DEF R
<1>3. PICK x \in T : \A y \in T : ~ (<<y, x>> \in R)
  BY <1>2, WFMin
<1>4. ASSUME NEW y \in T PROVE x <= y
  <2>1. x \in Nat /\ y \in Nat /\ ~ (<<y, x>> \in R)
    BY <1>3
  <2>. QED
    BY <1>1, <2>1
<1>. QED
  BY <1>4

LEMMA Least ==
  ASSUME NEW T \in SUBSET Scopes, T # {}
  PROVE  Min(T) \in T /\ \A y \in T : Min(T) <= y
<1>1. T \in SUBSET Nat
  OBVIOUS
<1>2. \E x \in T : \A y \in T : x <= y
  BY <1>1, LeastExists
<1>. QED
  BY <1>2 DEF Min

-----------------------------------------------------------------------------
(* The invariant. *)

InTransaction(r) == at[r] \in {"claiming", "noting"}

\* The locks are those of the rows visited, which come before those to visit.
Locks ==
  /\ \A s \in Scopes, r \in Requests : lockOf[s] = r <=> InTransaction(r) /\ s \in mine[r]
  /\ \A r \in Requests : at[r] = "new" => mine[r] = {}
Sorted == \A r \in Requests : InTransaction(r) => \A k \in mine[r], j \in todo[r] : k < j

\* A claim that will commit has open rows only.
Openings ==
  \A r \in Requests : at[r] = "claiming" =>
    \A s \in mine[r] : row[s].there /\ ~row[s].cooling /\ ~row[s].window

\* The probe of a row was admitted since the last failure, and has its token and
\* its window while it is with the provider.
Tokens ==
  /\ \A s \in Scopes, r \in Requests : row[s].token = r => r \in after[s]
  /\ \A s \in Scopes, r \in Requests :
       row[s].there /\ r \in after[s] /\ at[r] \in {"ready", "sent"}
         => row[s].token = r /\ row[s].window
  /\ \A s \in Scopes, r \in Requests : r \in after[s] => at[r] \notin {"new", "claiming"}
  /\ \A p \in freeing : at[p[2]] = "over"

HealthInv == HealthTypeOK /\ Locks /\ Sorted /\ Openings /\ Tokens

-----------------------------------------------------------------------------
(* Every action keeps it. *)

RowRec == [cooling : BOOLEAN, token : Requests \cup {NoRequestYet},
           window : BOOLEAN, there : BOOLEAN]

LEMMA HealthTypeStep ==
  ASSUME HealthTypeOK, HealthNext
  PROVE  HealthTypeOK'
<1>. USE DEF HealthTypeOK, Goto, Visits, FreeLocks
<1>1. ASSUME NEW r \in Requests,
             \/ OpenClaim(r) \/ SendRequest(r) \/ DropUnsent(r) \/ EndUnknown(r) \/ Succeeds(r)
             \/ Cleared(r) \/ Fails(r)
      PROVE  HealthTypeOK'
  BY <1>1 DEF OpenClaim, SendRequest, DropUnsent, EndUnknown, Succeeds, Cleared, Fails
<1>2. ASSUME NEW r \in Requests, ClaimScope(r) PROVE HealthTypeOK'
  <2>1. todo[r] \in SUBSET Scopes /\ todo[r] # {}
    BY <1>2 DEF ClaimScope
  <2>2. Min(todo[r]) \in Scopes
    BY <2>1, Least
  <2>. QED
    BY <1>2, <2>2 DEF ClaimScope
<1>3. ASSUME NEW r \in Requests, NoteScope(r) PROVE HealthTypeOK'
  <2>1. todo[r] \in SUBSET Scopes /\ todo[r] # {}
    BY <1>3 DEF NoteScope
  <2>2. Min(todo[r]) \in Scopes
    BY <2>1, Least
  <2>. QED
    BY <1>3, <2>2 DEF NoteScope
<1>4. ASSUME NEW r \in Requests, ClaimCommit(r) PROVE HealthTypeOK'
  <2>1. row' \in [Scopes -> RowRec]
    <3>1. row \in [Scopes -> RowRec]
      BY DEF RowRec
    <3>2. \A x \in RowRec : [x EXCEPT !.token = r, !.window = TRUE] \in RowRec
      BY ONLY r \in Requests DEF RowRec
    <3>3. row' = [s \in Scopes |->
            IF s \in mine[r] THEN [row[s] EXCEPT !.token = r, !.window = TRUE] ELSE row[s]]
      BY <1>4 DEF ClaimCommit
    <3>. QED
      BY ONLY <3>1, <3>2, <3>3
  <2>. QED
    BY <1>4, <2>1 DEF ClaimCommit, RowRec
<1>5. ASSUME NEW r \in Requests, NoteCommit(r) PROVE HealthTypeOK'
  <2>1. row' \in [Scopes -> RowRec]
    <3>1. row \in [Scopes -> RowRec] /\ Failed \in RowRec
      BY DEF RowRec, Failed
    <3>2. row' = [s \in Scopes |-> IF s \in mine[r] THEN Failed ELSE row[s]]
      BY <1>5 DEF NoteCommit
    <3>. QED
      BY ONLY <3>1, <3>2
  <2>. QED
    BY <1>5, <2>1 DEF NoteCommit, RowRec
<1>6. ASSUME NEW r \in Requests, ClearScope(r) PROVE HealthTypeOK'
  BY <1>6 DEF ClearScope, NoRow
<1>7. ASSUME NEW r \in Requests, NEW s \in Scopes, GiveBack(s, r) \/ LoseGiveBack(s, r)
      PROVE  HealthTypeOK'
  <2>1. row' \in [Scopes -> RowRec]
    BY <1>7 DEF GiveBack, LoseGiveBack, RowRec
  <2>2. freeing' \subseteq Scopes \X Requests
    BY <1>7 DEF GiveBack, LoseGiveBack
  <2>3. UNCHANGED <<lockOf, at, todo, mine, after>>
    BY <1>7 DEF GiveBack, LoseGiveBack
  <2>4. [Scopes -> RowRec] = [Scopes -> [cooling : BOOLEAN, token : Requests \cup {NoRequestYet},
                                         window : BOOLEAN, there : BOOLEAN]]
    BY DEF RowRec
  <2>5. freeing' \in SUBSET (Scopes \X Requests)
    BY <2>2
  <2>. HIDE DEF RowRec
  <2>. QED
    BY <2>1, <2>3, <2>4, <2>5
<1>8. ASSUME NEW s \in Scopes, CoolingEnds(s) \/ WindowEnds(s) PROVE HealthTypeOK'
  <2>1. row' \in [Scopes -> [cooling : BOOLEAN, token : Requests \cup {NoRequestYet},
                            window : BOOLEAN, there : BOOLEAN]]
    <3>1. row \in [Scopes -> RowRec]
      BY DEF RowRec
    <3>2. ASSUME NEW x \in RowRec
          PROVE  [x EXCEPT !.cooling = FALSE] \in RowRec /\ [x EXCEPT !.window = FALSE] \in RowRec
      BY ONLY DEF RowRec
    <3>3. \/ row' = [row EXCEPT ![s] = [row[s] EXCEPT !.cooling = FALSE]]
          \/ row' = [row EXCEPT ![s] = [row[s] EXCEPT !.window = FALSE]]
      BY <1>8 DEF CoolingEnds, WindowEnds
    <3>4. row' \in [Scopes -> RowRec]
      <4>1. \A x \in RowRec : [row EXCEPT ![s] = x] \in [Scopes -> RowRec]
        BY ONLY <3>1, s \in Scopes
      <4>2. /\ row[s] \in RowRec
            /\ [row[s] EXCEPT !.cooling = FALSE] \in RowRec
            /\ [row[s] EXCEPT !.window = FALSE] \in RowRec
        BY ONLY <3>1, <3>2, s \in Scopes
      <4>. QED
        BY ONLY <3>3, <4>1, <4>2
    <3>. QED
      BY <3>4 DEF RowRec
  <2>2. UNCHANGED <<lockOf, at, todo, mine, freeing, after>>
    BY <1>8 DEF CoolingEnds, WindowEnds
  <2>. QED
    BY <2>1, <2>2
<1>. QED
  BY <1>1, <1>2, <1>3, <1>4, <1>5, <1>6, <1>7, <1>8 DEF HealthNext

\* What the steps leave alone.
Waits(r) == OpenClaim(r) \/ SendRequest(r) \/ DropUnsent(r) \/ EndUnknown(r) \/ Succeeds(r) \/ Cleared(r)
Lapses == \E s \in Scopes :
            \/ CoolingEnds(s) \/ WindowEnds(s)
            \/ \E r \in Requests : GiveBack(s, r) \/ LoseGiveBack(s, r)

LEMMA LocksStep ==
  ASSUME HealthInv, HealthNext
  PROVE  Locks' /\ Sorted'
<1>. USE DEF Locks, Sorted, InTransaction, Goto, Visits
<1>0. HealthTypeOK /\ Locks /\ Sorted
  BY DEF HealthInv
<1>1. ASSUME NEW r \in Requests, Waits(r) PROVE Locks' /\ Sorted'
  <2>1. CASE OpenClaim(r)
    BY <1>0, <2>1 DEF HealthTypeOK, OpenClaim
  <2>2. CASE ~OpenClaim(r)
    <3>1. /\ UNCHANGED <<lockOf, mine>> /\ ~InTransaction(r)
          /\ at'[r] \in {"sent", "over", "clearing"}
          /\ \A q \in Requests \ {r} : at'[q] = at[q] /\ todo'[q] = todo[q]
      BY <1>0, <1>1, <2>2 DEF HealthTypeOK, Waits, SendRequest, DropUnsent, EndUnknown, Succeeds, Cleared
    <3>. QED
      BY <1>0, <3>1
  <2>. QED
    BY <2>1, <2>2
<1>2. ASSUME NEW r \in Requests, ClaimScope(r) \/ NoteScope(r) PROVE Locks' /\ Sorted'
  <2>. DEFINE k == Min(todo[r])
  <2>1. todo[r] \in SUBSET Scopes /\ todo[r] # {} /\ InTransaction(r)
    BY <1>0, <1>2 DEF ClaimScope, NoteScope, HealthTypeOK
  <2>2. k \in todo[r] /\ k \in Scopes /\ \A j \in todo[r] \ {k} : k < j
    <3>1. k \in todo[r] /\ \A j \in todo[r] : k <= j
      BY <2>1, Least
    <3>2. k \in Scopes /\ \A j \in todo[r] : j \in Nat /\ k \in Nat
      BY <2>1, <3>1
    <3>3. ASSUME NEW j \in todo[r] \ {k} PROVE k < j
      <4>1. k <= j /\ k # j /\ k \in Nat /\ j \in Nat
        BY <3>1, <3>2
      <4>. QED
        BY <4>1
    <3>. QED
      BY <3>1, <3>2, <3>3
  <2>. HIDE DEF k
  <2>3. CASE /\ todo' = [todo EXCEPT ![r] = todo[r] \ {k}]
             /\ UNCHANGED <<lockOf, at, mine>>
    BY <1>0, <2>2, <2>3 DEF HealthTypeOK
  <2>4. CASE /\ todo' = [todo EXCEPT ![r] = todo[r] \ {k}] /\ Unlocked(k, r)
             /\ lockOf' = [lockOf EXCEPT ![k] = r]
             /\ mine' = [mine EXCEPT ![r] = @ \cup {k}]
             /\ UNCHANGED at
    BY <1>0, <2>1, <2>2, <2>4 DEF HealthTypeOK, Unlocked
  <2>5. CASE /\ FreeLocks(r) /\ mine' = [mine EXCEPT ![r] = {}]
             /\ at' = [at EXCEPT ![r] = "over"] /\ todo' = [todo EXCEPT ![r] = {}]
    BY <1>0, <2>5 DEF HealthTypeOK, FreeLocks
  <2>6. \/ /\ todo' = [todo EXCEPT ![r] = todo[r] \ {k}]
           /\ UNCHANGED <<lockOf, at, mine>>
        \/ /\ todo' = [todo EXCEPT ![r] = todo[r] \ {k}] /\ Unlocked(k, r)
           /\ lockOf' = [lockOf EXCEPT ![k] = r]
           /\ mine' = [mine EXCEPT ![r] = @ \cup {k}]
           /\ UNCHANGED at
        \/ /\ FreeLocks(r) /\ mine' = [mine EXCEPT ![r] = {}]
           /\ at' = [at EXCEPT ![r] = "over"] /\ todo' = [todo EXCEPT ![r] = {}]
    BY <1>2 DEF ClaimScope, NoteScope, k
  <2>. QED
    BY <2>3, <2>4, <2>5, <2>6
<1>3. ASSUME NEW r \in Requests, ClaimCommit(r) \/ NoteCommit(r) PROVE Locks' /\ Sorted'
  <2>1. /\ InTransaction(r) /\ FreeLocks(r) /\ UNCHANGED <<todo, mine>>
        /\ at' = [at EXCEPT ![r] = "ready"] \/ at' = [at EXCEPT ![r] = "over"]
    BY <1>3 DEF ClaimCommit, NoteCommit
  <2>. QED
    BY <1>0, <2>1 DEF HealthTypeOK, FreeLocks
<1>4. ASSUME NEW r \in Requests, Fails(r) PROVE Locks' /\ Sorted'
  BY <1>0, <1>4 DEF HealthTypeOK, Fails
<1>5. ASSUME NEW r \in Requests, ClearScope(r) PROVE Locks' /\ Sorted'
  BY <1>0, <1>5 DEF HealthTypeOK, ClearScope
<1>6. CASE Lapses
  BY <1>0, <1>6 DEF Lapses, CoolingEnds, WindowEnds, GiveBack, LoseGiveBack
<1>. QED
  BY <1>1, <1>2, <1>3, <1>4, <1>5, <1>6 DEF HealthNext, Waits, Lapses

LEMMA OpeningsStep ==
  ASSUME HealthInv, HealthNext
  PROVE  Openings'
<1>. USE DEF Openings, Goto, Visits
<1>0. HealthTypeOK /\ Locks /\ Openings
  BY DEF HealthInv
<1>1. ASSUME NEW r \in Requests, Waits(r) \/ Fails(r) \/ NoteScope(r) PROVE Openings'
  <2>1. row' = row /\ \A q \in Requests \ {r} : at'[q] = at[q] /\ mine'[q] = mine[q]
    BY <1>0, <1>1 DEF HealthTypeOK, Waits, OpenClaim, SendRequest, DropUnsent, EndUnknown,
       Succeeds, Cleared, Fails, NoteScope
  <2>2. at'[r] = "claiming" => mine'[r] = {}
    BY <1>0, <1>1 DEF HealthTypeOK, Locks, Waits, OpenClaim, SendRequest, DropUnsent, EndUnknown,
       Succeeds, Cleared, Fails, NoteScope
  <2>. QED
    BY <1>0, <2>1, <2>2
<1>2. ASSUME NEW r \in Requests, ClaimScope(r) PROVE Openings'
  <2>. DEFINE k == Min(todo[r])
  <2>1. row' = row /\ \A q \in Requests \ {r} : at'[q] = at[q] /\ mine'[q] = mine[q]
    BY <1>0, <1>2 DEF HealthTypeOK, ClaimScope
  <2>2. at[r] = "claiming"
    BY <1>2 DEF ClaimScope
  <2>3. \/ mine'[r] = mine[r] \/ mine'[r] = {}
        \/ mine'[r] = mine[r] \cup {k} /\ row[k].there /\ ~row[k].cooling /\ ~row[k].window
    BY <1>0, <1>2 DEF HealthTypeOK, ClaimScope, Closed
  <2>. HIDE DEF k
  <2>4. \A s \in mine'[r] : row[s].there /\ ~row[s].cooling /\ ~row[s].window
    BY <1>0, <2>2, <2>3
  <2>. QED
    BY <1>0, <2>1, <2>4
<1>3. ASSUME NEW r \in Requests, ClaimCommit(r) \/ NoteCommit(r) PROVE Openings'
  <2>1. \A q \in Requests : at'[q] = "claiming" => q # r /\ at[q] = "claiming" /\ mine' = mine
    BY <1>0, <1>3 DEF HealthTypeOK, ClaimCommit, NoteCommit
  <2>2. \A q \in Requests, s \in Scopes :
          q # r /\ at[q] = "claiming" /\ s \in mine[q] => s \notin mine[r]
    BY <1>0, <1>3 DEF Locks, InTransaction, ClaimCommit, NoteCommit
  <2>3. \A s \in Scopes : s \notin mine[r] => row'[s] = row[s]
    BY <1>3 DEF ClaimCommit, NoteCommit
  <2>. QED
    BY <1>0, <2>1, <2>2, <2>3 DEF HealthTypeOK
<1>4. ASSUME NEW r \in Requests, NEW s \in Scopes, lockOf[s] = NoRequestYet,
             UNCHANGED <<at, mine>>, \A k \in Scopes \ {s} : row'[k] = row[k]
      PROVE  Openings'
  <2>1. ASSUME NEW q \in Requests, at[q] = "claiming", s \in mine[q] PROVE FALSE
    <3>1. lockOf[s] = q
      BY ONLY <1>0, <2>1, s \in Scopes DEF Locks, InTransaction
    <3>. QED
      BY <1>4, <3>1
  <2>. QED
    BY <1>0, <1>4, <2>1 DEF HealthTypeOK
<1>5. ASSUME NEW r \in Requests, ClearScope(r) PROVE Openings'
  <2>1. PICK k \in todo[r] : /\ lockOf[k] = NoRequestYet
                             /\ row' = row \/ row' = [row EXCEPT ![k] = NoRow]
    BY <1>5 DEF ClearScope
  <2>2. k \in Scopes /\ UNCHANGED <<at, mine>>
    BY <1>0, <1>5 DEF HealthTypeOK, ClearScope
  <2>3. \A j \in Scopes \ {k} : row'[j] = row[j]
    BY <1>0, <2>1, <2>2 DEF HealthTypeOK
  <2>. QED
    BY <1>4, <2>1, <2>2, <2>3
<1>6. ASSUME NEW r \in Requests, NEW s \in Scopes, GiveBack(s, r) \/ LoseGiveBack(s, r)
      PROVE  Openings'
  <2>1. UNCHANGED <<at, mine>> /\ \A j \in Scopes \ {s} : row'[j] = row[j]
    BY <1>0, <1>6 DEF HealthTypeOK, GiveBack, LoseGiveBack
  <2>2. row' = row \/ lockOf[s] = NoRequestYet
    BY <1>6 DEF GiveBack, LoseGiveBack
  <2>3. CASE row' = row
    BY <1>0, <2>1, <2>3
  <2>. QED
    BY <1>4, <2>1, <2>2, <2>3
<1>7. ASSUME NEW s \in Scopes, CoolingEnds(s) \/ WindowEnds(s) PROVE Openings'
  BY <1>0, <1>7 DEF HealthTypeOK, CoolingEnds, WindowEnds
<1>. QED
  BY <1>1, <1>2, <1>3, <1>5, <1>6, <1>7 DEF HealthNext, Waits

LEMMA TokensStep ==
  ASSUME HealthInv, HealthNext
  PROVE  Tokens'
<1>. USE DEF Tokens, Goto, Visits
<1>0. HealthTypeOK /\ Locks /\ Openings /\ Tokens
  BY DEF HealthInv
<1>1. ASSUME NEW r \in Requests, Waits(r) \/ Fails(r) \/ NoteScope(r) PROVE Tokens'
  BY <1>0, <1>1 DEF HealthTypeOK, Waits, OpenClaim, SendRequest, DropUnsent, EndUnknown,
     Succeeds, Cleared, Fails, NoteScope
<1>2. ASSUME NEW r \in Requests, ClaimScope(r) PROVE Tokens'
  BY <1>0, <1>2 DEF HealthTypeOK, ClaimScope
<1>3. ASSUME NEW r \in Requests, ClaimCommit(r) PROVE Tokens'
  <2>1. /\ \A s \in Scopes : s \in mine[r] =>
             /\ row'[s].token = r /\ row'[s].window /\ row'[s].there = row[s].there
             /\ after'[s] = after[s] \cup {r}
        /\ \A s \in Scopes : s \notin mine[r] => row'[s] = row[s] /\ after'[s] = after[s]
        /\ freeing' = freeing /\ at[r] = "claiming" /\ at'[r] = "ready"
        /\ \A q \in Requests \ {r} : at'[q] = at[q]
    <3>1. ASSUME NEW s \in Scopes, s \in mine[r]
          PROVE  /\ row'[s].token = r /\ row'[s].window /\ row'[s].there = row[s].there
                 /\ after'[s] = after[s] \cup {r}
      <4>1. row'[s] = [row[s] EXCEPT !.token = r, !.window = TRUE]
        BY <1>3, <3>1 DEF ClaimCommit
      <4>2. row[s] \in RowRec
        BY <1>0 DEF HealthTypeOK, RowRec
      <4>3. row'[s].token = r /\ row'[s].window /\ row'[s].there = row[s].there
        BY <4>1, <4>2 DEF RowRec
      <4>. QED
        BY <1>3, <3>1, <4>3 DEF ClaimCommit
    <3>2. \A s \in Scopes : s \notin mine[r] => row'[s] = row[s] /\ after'[s] = after[s]
      BY <1>3 DEF ClaimCommit
    <3>3. /\ freeing' = freeing /\ at[r] = "claiming" /\ at'[r] = "ready"
          /\ \A q \in Requests \ {r} : at'[q] = at[q]
      BY <1>0, <1>3 DEF HealthTypeOK, ClaimCommit
    <3>. QED
      BY <3>1, <3>2, <3>3
  <2>2. \A s \in Scopes, q \in Requests :
          s \in mine[r] /\ q \in after[s] => at[q] \notin {"ready", "sent"}
    BY <1>0, <2>1 DEF Openings
  <2>3. \A s \in Scopes : r \notin after[s]
    BY <1>0, <2>1
  <2>. QED
    BY <1>0, <2>1, <2>2, <2>3 DEF HealthTypeOK
<1>4. ASSUME NEW r \in Requests, NoteCommit(r) PROVE Tokens'
  <2>1. /\ \A s \in Scopes : s \in mine[r] => row'[s].token = NoRequestYet /\ after'[s] = {}
        /\ \A s \in Scopes : s \notin mine[r] => row'[s] = row[s] /\ after'[s] = after[s]
        /\ freeing' = freeing /\ at'[r] = "over"
        /\ \A q \in Requests \ {r} : at'[q] = at[q]
    BY <1>0, <1>4 DEF HealthTypeOK, NoteCommit, Failed
  <2>. QED
    BY <1>0, <2>1 DEF HealthTypeOK
<1>5. ASSUME NEW r \in Requests, ClearScope(r) PROVE Tokens'
  <2>1. UNCHANGED <<at, after, freeing>>
    BY <1>5 DEF ClearScope
  <2>2. \A s \in Scopes : row'[s] = row[s] \/ row'[s] = NoRow
    BY <1>0, <1>5 DEF HealthTypeOK, ClearScope
  <2>3. NoRow.token = NoRequestYet /\ ~NoRow.cooling /\ ~NoRow.window /\ ~NoRow.there
    BY DEF NoRow
  <2>. QED
    BY <1>0, <2>1, <2>2, <2>3
<1>6. ASSUME NEW r \in Requests, NEW s \in Scopes, GiveBack(s, r) PROVE Tokens'
  <2>1. UNCHANGED <<at, after>> /\ freeing' \subseteq freeing /\ <<s, r>> \in freeing
    BY <1>6 DEF GiveBack
  <2>2. at[r] = "over"
    BY <1>0, <2>1
  <2>3. CASE row' = row
    BY <1>0, <2>1, <2>3
  <2>4. CASE row[s].there /\ row[s].token = r
             /\ row' = [row EXCEPT ![s].token = NoRequestYet, ![s].window = FALSE]
    <3>1. /\ row'[s].token = NoRequestYet
          /\ \A k \in Scopes \ {s} : row'[k] = row[k]
      BY <1>0, <2>4 DEF HealthTypeOK
    <3>2. \A q \in Requests : q \in after[s] => at[q] \notin {"ready", "sent"}
      BY <1>0, <2>2, <2>4
    <3>. QED
      BY <1>0, <2>1, <3>1, <3>2
  <2>. QED
    BY <1>6, <2>3, <2>4 DEF GiveBack
<1>7. ASSUME NEW r \in Requests, NEW s \in Scopes, LoseGiveBack(s, r) PROVE Tokens'
  BY <1>0, <1>7 DEF LoseGiveBack
<1>8. ASSUME NEW s \in Scopes, CoolingEnds(s) \/ WindowEnds(s) PROVE Tokens'
  <2>1. /\ UNCHANGED <<at, after, freeing>>
        /\ \A k \in Scopes \ {s} : row'[k] = row[k]
        /\ row'[s].token = row[s].token /\ row'[s].there = row[s].there
        /\ row'[s].window # row[s].window => at[row[s].token] \notin {"ready", "sent"}
    BY <1>0, <1>8 DEF HealthTypeOK, CoolingEnds, WindowEnds
  <2>. QED
    BY <1>0, <2>1
<1>. QED
  BY <1>1, <1>2, <1>3, <1>4, <1>5, <1>6, <1>7, <1>8 DEF HealthNext, Waits

-----------------------------------------------------------------------------
(* The theorems. *)

LEMMA HealthInitial == HealthInit => HealthInv
BY DEF HealthInit, HealthInv, HealthTypeOK, Locks, Sorted, Openings, Tokens, InTransaction, NoRow

LEMMA HealthInductive == HealthInv /\ [HealthNext]_healthVars => HealthInv'
<1>. SUFFICES ASSUME HealthInv, [HealthNext]_healthVars PROVE HealthInv'
  OBVIOUS
<1>1. CASE HealthNext
  BY <1>1, HealthTypeStep, LocksStep, OpeningsStep, TokensStep DEF HealthInv
<1>2. CASE UNCHANGED healthVars
  BY <1>2 DEF HealthInv, HealthTypeOK, Locks, Sorted, Openings, Tokens, InTransaction, healthVars
<1>. QED
  BY <1>1, <1>2

LEMMA HealthInvariant == HealthSpec => []HealthInv
BY HealthInitial, HealthInductive, PTL DEF HealthSpec

\* Every variable keeps its type.
THEOREM HealthTypeCorrect == HealthSpec => []HealthTypeOK
<1>1. HealthInv => HealthTypeOK
  BY DEF HealthInv
<1>. QED
  BY <1>1, HealthInvariant, PTL

\* However many workers and deployments share a scope: since its last failure at
\* most one request admitted as its probe is with the provider at a time
\* (health_scopes.rs claim).
THEOREM ProbesOneAtATime == HealthSpec => []OneProbe
<1>1. HealthInv => OneProbe
  BY DEF HealthInv, HealthTypeOK, Tokens, OneProbe
<1>. QED
  BY <1>1, HealthInvariant, PTL

\* The success of a request that was sent before the last failure of a scope
\* never makes the scope healthy (health_scopes.rs Probe::success).
THEOREM ProofBeforeRecovery == HealthSpec => RecoversOnProof
<1>. DEFINE Proven == \A s \in Scopes : row[s].there /\ ~row'[s].there
                        => \E r \in after[s] : at[r] = "clearing"
<1>1. HealthInv /\ [HealthNext]_healthVars => [Proven]_healthVars
  <2>. SUFFICES ASSUME HealthInv, HealthNext PROVE Proven
    OBVIOUS
  <2>. SUFFICES ASSUME NEW s \in Scopes, row[s].there, ~row'[s].there
                PROVE  \E r \in after[s] : at[r] = "clearing"
    OBVIOUS
  <2>0. HealthTypeOK /\ Tokens
    BY DEF HealthInv
  <2>1. PICK r \in Requests : ClearScope(r)
    <3>1. CASE row' = row
      BY <3>1
    <3>2. ASSUME NEW r \in Requests, ClaimCommit(r) \/ NoteCommit(r) PROVE FALSE
      <4>1. row[s] \in RowRec
        BY <2>0 DEF HealthTypeOK, RowRec
      <4>2. \/ row'[s] = row[s] \/ row'[s] = Failed
            \/ row'[s] = [row[s] EXCEPT !.token = r, !.window = TRUE]
        BY <3>2 DEF ClaimCommit, NoteCommit
      <4>3. row'[s].there
        <5>1. CASE row'[s] = [row[s] EXCEPT !.token = r, !.window = TRUE]
          BY <4>1, <5>1 DEF RowRec
        <5>. QED
          BY <4>2, <5>1 DEF Failed
      <4>. QED
        BY <4>3
    <3>3. ASSUME NEW r \in Requests, NEW k \in Scopes, GiveBack(k, r) PROVE FALSE
      <4>1. row'[s].there = row[s].there
        BY <2>0, <3>3 DEF HealthTypeOK, GiveBack
      <4>. QED
        BY <4>1
    <3>4. ASSUME NEW k \in Scopes, CoolingEnds(k) \/ WindowEnds(k) PROVE FALSE
      <4>1. row'[s].there = row[s].there
        BY <2>0, <3>4 DEF HealthTypeOK, CoolingEnds, WindowEnds
      <4>. QED
        BY <4>1
    <3>. QED
      BY <3>1, <3>2, <3>3, <3>4 DEF HealthNext, OpenClaim, ClaimScope, SendRequest, DropUnsent,
         EndUnknown, Succeeds, Cleared, Fails, NoteScope, LoseGiveBack
  <2>2. at[r] = "clearing" /\ row[s].token = r
    BY <2>0, <2>1 DEF HealthTypeOK, ClearScope
  <2>. QED
    BY <2>0, <2>2 DEF Tokens
<1>. QED
  BY <1>1, HealthInvariant, PTL DEF HealthSpec, RecoversOnProof

\* However the scopes of the requests overlap: no two of their transactions wait
\* for each other's rows (the order of keys in note and in claim).
THEOREM LocksNeverCross == HealthSpec => []NoCrossedLocks
<1>1. HealthInv => NoCrossedLocks
  <2>. SUFFICES ASSUME HealthInv, NEW q \in Requests, NEW r \in Requests,
                       NEW k \in Awaits(q), NEW j \in Awaits(r), lockOf[k] = r, lockOf[j] = q
                PROVE  FALSE
    BY DEF NoCrossedLocks
  <2>1. /\ k \in todo[q] /\ InTransaction(q) /\ j \in todo[r] /\ InTransaction(r)
        /\ k \in Scopes /\ j \in Scopes
    BY DEF Awaits, InTransaction, HealthInv, HealthTypeOK
  <2>2. k \in mine[r] /\ j \in mine[q]
    BY <2>1 DEF HealthInv, Locks
  <2>3. k < j /\ j < k
    BY <2>1, <2>2 DEF HealthInv, Sorted
  <2>4. k \in Nat /\ j \in Nat
    BY <2>1, HealthConstants
  <2>. QED
    BY <2>3, <2>4
<1>. QED
  BY <1>1, HealthInvariant, PTL
=============================================================================
