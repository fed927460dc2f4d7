-------------------------- MODULE RoutedJobProofs --------------------------
(***************************************************************************)
(* For any number of schedulers, any limits and any clock: a routed job    *)
(* charges every provider call before it leaves, starts no round twice,    *)
(* commits no result twice, sends at most one late request, keeps the task *)
(* of an open job open, and implements JobContract.                        *)
(*                                                                         *)
(* The argument is that a claim number is a key nobody can forge.  Claims  *)
(* are numbered, so two schedulers never hold the same number, and a job   *)
(* that stopped is never claimed again.  Hence at most one scheduler is    *)
(* inside a claim (Rights), and the row's ledger changes only under it:    *)
(* Accounts relates its private ledger to the row, step by step of a       *)
(* request.                                                                *)
(***************************************************************************)
EXTENDS RoutedJob, TLAPS

\* A scheduler that still carries a claim number it may use in Finish.
Busy == Working \cup {"committed", "failing"}

\* Claim numbers are unique, and the row holds one exactly while it runs.
Ownership ==
  /\ owner <= claims[1] + claims[2]
  /\ status = "running" <=> owner # 0
  /\ \A s \in Schedulers : own[s] <= claims[1] + claims[2]
  /\ \A s \in Schedulers : pc[s] \in Busy => own[s] # 0
  /\ \A s, u \in Schedulers : own[s] = own[u] /\ own[s] # 0 => s = u

\* One scheduler at most works, and it owns the job unless the job stopped.
Rights ==
  /\ \A s \in Schedulers : pc[s] \in Working => Owns(s) \/ status \in Stopped
  /\ \A s, u \in Schedulers : pc[s] \in Working /\ pc[u] \in Working => s = u
  /\ \A s \in Schedulers : pc[s] \in Busy /\ Owns(s) => taken[s] = task

\* The job's status tells how often each task has claimed it.
Rounds ==
  /\ \A t \in Tasks : claims[t] <= 1
  /\ status = "queued" => claims[task] = 0
  /\ status \in {"running", "awaiting_input", "succeeded"} => claims[task] = 1
  /\ task = 1 => claims[2] = 0
  /\ task = 2 => claims[1] = 1
  /\ status = "awaiting_input" => task = 1

\* The ledger of the scheduler inside the claim against the row's.
Accounts ==
  /\ sent <= usage /\ usage <= MaxCalls
  /\ \A s \in Schedulers :
       /\ pc[s] = "working" => ledger[s] = usage
       /\ pc[s] = "reserved" => ledger[s] = usage + grant[s] /\ ledger[s] <= MaxCalls
       /\ pc[s] \in {"charged", "sent"} => ledger[s] = usage /\ sent + grant[s] <= usage
       /\ pc[s] = "settled" => sent <= ledger[s] /\ ledger[s] <= usage

\* A result that was written has moved the job past the point of writing it.
Outcomes ==
  /\ \A e \in Results : written[e] <= 1
  /\ written["published"] # 0 => status = "succeeded" /\ launch = "research"
  /\ written["asked"] # 0 => task = 2 \/ status \notin {"queued", "running"}

\* After a late request the right to work is gone for good.
Lateness ==
  /\ late <= 1
  /\ late = 1 =>
       /\ status \in Stopped \/ (status = "running" /\ ~InTime)
       /\ \A s \in Schedulers : pc[s] \notin {"working", "reserved", "charged"}
       /\ \A s \in Schedulers : pc[s] = "committed" => ~Owns(s)

JobInv ==
  /\ TypeOK /\ Ownership /\ Rights /\ Rounds /\ Accounts /\ Outcomes /\ Lateness
  /\ OpenJobHasOpenTask

-----------------------------------------------------------------------------
USE NumberAssumption

LEMMA TypeStep ==
  ASSUME TypeOK, Accounts, [Next]_vars
  PROVE  TypeOK'
<1>. USE DEF TypeOK, Launches, Status, Tasks, Results, QueueStatus, WorkPC, Working,
    vars, jobVars, queueVars, workVars, envVars, histVars
<1>1. ASSUME NEW s \in Schedulers, NEW t \in Tasks, Deliver(s, t) PROVE TypeOK'
  BY <1>1 DEF Deliver, Moves
<1>2. ASSUME NEW s \in Schedulers, Claim(s) PROVE TypeOK'
  BY <1>2 DEF Claim, Moves
<1>3. ASSUME NEW s \in Schedulers, Decline(s) PROVE TypeOK'
  BY <1>3 DEF Decline, Moves
<1>4. ASSUME NEW s \in Schedulers, SyncTask(s) PROVE TypeOK'
  BY <1>4 DEF SyncTask, Moves, AtRest, Verdict
<1>5. ASSUME NEW s \in Schedulers, NEW n \in 1 .. MaxGrant, Reserve(s, n) PROVE TypeOK'
  BY <1>5 DEF Reserve, Moves
<1>6. ASSUME NEW s \in Schedulers, Charge(s) PROVE TypeOK'
  BY <1>6 DEF Charge, Moves, Fenced
<1>7. ASSUME NEW s \in Schedulers, NEW k \in 0 .. MaxGrant, Send(s, k) PROVE TypeOK'
  BY <1>7 DEF Send, Moves
<1>8. ASSUME NEW s \in Schedulers, Report(s) PROVE TypeOK'
  BY <1>8 DEF Report, Moves, Accounts
<1>9. ASSUME NEW s \in Schedulers, ReportLost(s) PROVE TypeOK'
  BY <1>9 DEF ReportLost, Moves
<1>10. ASSUME NEW s \in Schedulers, Settle(s) PROVE TypeOK'
  BY <1>10 DEF Settle, Moves, Fenced
<1>11. ASSUME NEW s \in Schedulers, GiveUp(s) PROVE TypeOK'
  BY <1>11 DEF GiveUp
<1>12. ASSUME NEW s \in Schedulers, Renew(s) PROVE TypeOK'
  BY <1>12 DEF Renew, Fenced
<1>13. ASSUME NEW s \in Schedulers, Verify(s) PROVE TypeOK'
  BY <1>13 DEF Verify, Moves, Fenced, Written
<1>14. ASSUME NEW s \in Schedulers, Repair(s) PROVE TypeOK'
  BY <1>14 DEF Repair, Moves, Fenced, Written
<1>15. ASSUME NEW s \in Schedulers, RepairNothing(s) PROVE TypeOK'
  BY <1>15 DEF RepairNothing, Moves
<1>16. ASSUME NEW s \in Schedulers, Pause(s) PROVE TypeOK'
  BY <1>16 DEF Pause, Moves, Fenced, Release, Written
<1>17. ASSUME NEW s \in Schedulers, Publish(s) PROVE TypeOK'
  BY <1>17 DEF Publish, Moves, Fenced, Release, Written
<1>18. ASSUME NEW s \in Schedulers, Finish(s) PROVE TypeOK'
  BY <1>18 DEF Finish, Moves, Release
<1>19. ASSUME NEW s \in Schedulers, RecoverJob(s) PROVE TypeOK'
  BY <1>19 DEF RecoverJob, Release, DropTask, Expired
<1>20. ASSUME NEW s \in Schedulers, RecoverTask(s) PROVE TypeOK'
  BY <1>20 DEF RecoverTask, AtRest, Verdict, Expired
<1>21. ASSUME NEW s \in Schedulers, Crash(s) PROVE TypeOK'
  BY <1>21 DEF Crash
<1>22. CASE CancelJob BY <1>22 DEF CancelJob, Release, DropTask
<1>23. CASE EnqueueRepair BY <1>23 DEF EnqueueRepair, NextTask
<1>24. CASE Answer BY <1>24 DEF Answer, NextTask
<1>25. CASE Tick BY <1>25 DEF Tick
<1>26. CASE Switch BY <1>26 DEF Switch
<1>27. CASE UNCHANGED vars BY <1>27
<1>. QED
  BY <1>1, <1>2, <1>3, <1>4, <1>5, <1>6, <1>7, <1>8, <1>9, <1>10, <1>11,
     <1>12, <1>13, <1>14, <1>15, <1>16, <1>17, <1>18, <1>19, <1>20, <1>21,
     <1>22, <1>23, <1>24, <1>25, <1>26, <1>27 DEF Next, Step, Poll

LEMMA OwnershipStep ==
  ASSUME TypeOK, Ownership, [Next]_vars
  PROVE  Ownership'
<1>. USE DEF TypeOK, Ownership, Busy, Tasks, Working, WorkPC, Owns, vars, jobVars,
    queueVars, workVars, envVars, histVars
<1>1. ASSUME NEW s \in Schedulers, NEW t \in Tasks, Deliver(s, t) PROVE Ownership'
  BY <1>1 DEF Deliver, Moves
<1>2. ASSUME NEW s \in Schedulers, Claim(s) PROVE Ownership'
  BY <1>2 DEF Claim, Moves
<1>3. ASSUME NEW s \in Schedulers, Decline(s) PROVE Ownership'
  BY <1>3 DEF Decline, Moves
<1>4. ASSUME NEW s \in Schedulers, SyncTask(s) PROVE Ownership'
  BY <1>4 DEF SyncTask, Moves, AtRest, Verdict
<1>5. ASSUME NEW s \in Schedulers, NEW n \in 1 .. MaxGrant, Reserve(s, n) PROVE Ownership'
  BY <1>5 DEF Reserve, Moves
<1>6. ASSUME NEW s \in Schedulers, Charge(s) PROVE Ownership'
  BY <1>6 DEF Charge, Moves, Fenced
<1>7. ASSUME NEW s \in Schedulers, NEW k \in 0 .. MaxGrant, Send(s, k) PROVE Ownership'
  BY <1>7 DEF Send, Moves
<1>8. ASSUME NEW s \in Schedulers, Report(s) PROVE Ownership'
  BY <1>8 DEF Report, Moves
<1>9. ASSUME NEW s \in Schedulers, ReportLost(s) PROVE Ownership'
  BY <1>9 DEF ReportLost, Moves
<1>10. ASSUME NEW s \in Schedulers, Settle(s) PROVE Ownership'
  BY <1>10 DEF Settle, Moves, Fenced
<1>11. ASSUME NEW s \in Schedulers, GiveUp(s) PROVE Ownership'
  BY <1>11 DEF GiveUp
<1>12. ASSUME NEW s \in Schedulers, Renew(s) PROVE Ownership'
  BY <1>12 DEF Renew, Fenced
<1>13. ASSUME NEW s \in Schedulers, Verify(s) PROVE Ownership'
  BY <1>13 DEF Verify, Moves, Fenced, Written
<1>14. ASSUME NEW s \in Schedulers, Repair(s) PROVE Ownership'
  BY <1>14 DEF Repair, Moves, Fenced, Written
<1>15. ASSUME NEW s \in Schedulers, RepairNothing(s) PROVE Ownership'
  BY <1>15 DEF RepairNothing, Moves
<1>16. ASSUME NEW s \in Schedulers, Pause(s) PROVE Ownership'
  BY <1>16 DEF Pause, Moves, Fenced, Release, Written
<1>17. ASSUME NEW s \in Schedulers, Publish(s) PROVE Ownership'
  BY <1>17 DEF Publish, Moves, Fenced, Release, Written
<1>18. ASSUME NEW s \in Schedulers, Finish(s) PROVE Ownership'
  BY <1>18 DEF Finish, Moves, Release
<1>19. ASSUME NEW s \in Schedulers, RecoverJob(s) PROVE Ownership'
  BY <1>19 DEF RecoverJob, Release, DropTask, Expired
<1>20. ASSUME NEW s \in Schedulers, RecoverTask(s) PROVE Ownership'
  BY <1>20 DEF RecoverTask, AtRest, Verdict, Expired
<1>21. ASSUME NEW s \in Schedulers, Crash(s) PROVE Ownership'
  BY <1>21 DEF Crash
<1>22. CASE CancelJob BY <1>22 DEF CancelJob, Release, DropTask
<1>23. CASE EnqueueRepair BY <1>23 DEF EnqueueRepair, NextTask
<1>24. CASE Answer BY <1>24 DEF Answer, NextTask
<1>25. CASE Tick BY <1>25 DEF Tick
<1>26. CASE Switch BY <1>26 DEF Switch
<1>27. CASE UNCHANGED vars BY <1>27
<1>. QED
  BY <1>1, <1>2, <1>3, <1>4, <1>5, <1>6, <1>7, <1>8, <1>9, <1>10, <1>11,
     <1>12, <1>13, <1>14, <1>15, <1>16, <1>17, <1>18, <1>19, <1>20, <1>21,
     <1>22, <1>23, <1>24, <1>25, <1>26, <1>27 DEF Next, Step, Poll

LEMMA RightsStep ==
  ASSUME TypeOK, Ownership, Rights, [Next]_vars
  PROVE  Rights'
<1>. USE DEF TypeOK, Ownership, Rights, Busy, Tasks, Working, WorkPC, Owns, Stopped,
    vars, jobVars, queueVars, workVars, envVars, histVars
<1>1. ASSUME NEW s \in Schedulers, NEW t \in Tasks, Deliver(s, t) PROVE Rights'
  BY <1>1 DEF Deliver, Moves
<1>2. ASSUME NEW s \in Schedulers, Claim(s) PROVE Rights'
  BY <1>2 DEF Claim, Moves
<1>3. ASSUME NEW s \in Schedulers, Decline(s) PROVE Rights'
  BY <1>3 DEF Decline, Moves
<1>4. ASSUME NEW s \in Schedulers, SyncTask(s) PROVE Rights'
  BY <1>4 DEF SyncTask, Moves, AtRest, Verdict
<1>5. ASSUME NEW s \in Schedulers, NEW n \in 1 .. MaxGrant, Reserve(s, n) PROVE Rights'
  BY <1>5 DEF Reserve, Moves
<1>6. ASSUME NEW s \in Schedulers, Charge(s) PROVE Rights'
  BY <1>6 DEF Charge, Moves, Fenced
<1>7. ASSUME NEW s \in Schedulers, NEW k \in 0 .. MaxGrant, Send(s, k) PROVE Rights'
  BY <1>7 DEF Send, Moves
<1>8. ASSUME NEW s \in Schedulers, Report(s) PROVE Rights'
  BY <1>8 DEF Report, Moves
<1>9. ASSUME NEW s \in Schedulers, ReportLost(s) PROVE Rights'
  BY <1>9 DEF ReportLost, Moves
<1>10. ASSUME NEW s \in Schedulers, Settle(s) PROVE Rights'
  BY <1>10 DEF Settle, Moves, Fenced
<1>11. ASSUME NEW s \in Schedulers, GiveUp(s) PROVE Rights'
  BY <1>11 DEF GiveUp
<1>12. ASSUME NEW s \in Schedulers, Renew(s) PROVE Rights'
  BY <1>12 DEF Renew, Fenced
<1>13. ASSUME NEW s \in Schedulers, Verify(s) PROVE Rights'
  BY <1>13 DEF Verify, Moves, Fenced, Written
<1>14. ASSUME NEW s \in Schedulers, Repair(s) PROVE Rights'
  BY <1>14 DEF Repair, Moves, Fenced, Written
<1>15. ASSUME NEW s \in Schedulers, RepairNothing(s) PROVE Rights'
  BY <1>15 DEF RepairNothing, Moves
<1>16. ASSUME NEW s \in Schedulers, Pause(s) PROVE Rights'
  BY <1>16 DEF Pause, Moves, Fenced, Release, Written
<1>17. ASSUME NEW s \in Schedulers, Publish(s) PROVE Rights'
  BY <1>17 DEF Publish, Moves, Fenced, Release, Written
<1>18. ASSUME NEW s \in Schedulers, Finish(s) PROVE Rights'
  BY <1>18 DEF Finish, Moves, Release
<1>19. ASSUME NEW s \in Schedulers, RecoverJob(s) PROVE Rights'
  BY <1>19 DEF RecoverJob, Release, DropTask, Expired
<1>20. ASSUME NEW s \in Schedulers, RecoverTask(s) PROVE Rights'
  BY <1>20 DEF RecoverTask, AtRest, Verdict, Expired
<1>21. ASSUME NEW s \in Schedulers, Crash(s) PROVE Rights'
  BY <1>21 DEF Crash
<1>22. CASE CancelJob BY <1>22 DEF CancelJob, Release, DropTask
<1>23. CASE EnqueueRepair BY <1>23 DEF EnqueueRepair, NextTask
<1>24. CASE Answer BY <1>24 DEF Answer, NextTask
<1>25. CASE Tick BY <1>25 DEF Tick
<1>26. CASE Switch BY <1>26 DEF Switch
<1>27. CASE UNCHANGED vars BY <1>27
<1>. QED
  BY <1>1, <1>2, <1>3, <1>4, <1>5, <1>6, <1>7, <1>8, <1>9, <1>10, <1>11,
     <1>12, <1>13, <1>14, <1>15, <1>16, <1>17, <1>18, <1>19, <1>20, <1>21,
     <1>22, <1>23, <1>24, <1>25, <1>26, <1>27 DEF Next, Step, Poll

LEMMA RoundsStep ==
  ASSUME TypeOK, Ownership, Rights, Rounds, [Next]_vars
  PROVE  Rounds'
<1>. USE DEF TypeOK, Rounds, Tasks, Working, WorkPC, Owns, Status, vars, jobVars,
    queueVars, workVars, envVars, histVars
<1>1. ASSUME NEW s \in Schedulers, NEW t \in Tasks, Deliver(s, t) PROVE Rounds'
  BY <1>1 DEF Deliver, Moves
<1>2. ASSUME NEW s \in Schedulers, Claim(s) PROVE Rounds'
  BY <1>2 DEF Claim, Moves
<1>3. ASSUME NEW s \in Schedulers, Decline(s) PROVE Rounds'
  BY <1>3 DEF Decline, Moves
<1>4. ASSUME NEW s \in Schedulers, SyncTask(s) PROVE Rounds'
  BY <1>4 DEF SyncTask, Moves, AtRest, Verdict
<1>5. ASSUME NEW s \in Schedulers, NEW n \in 1 .. MaxGrant, Reserve(s, n) PROVE Rounds'
  BY <1>5 DEF Reserve, Moves
<1>6. ASSUME NEW s \in Schedulers, Charge(s) PROVE Rounds'
  BY <1>6 DEF Charge, Moves, Fenced
<1>7. ASSUME NEW s \in Schedulers, NEW k \in 0 .. MaxGrant, Send(s, k) PROVE Rounds'
  BY <1>7 DEF Send, Moves
<1>8. ASSUME NEW s \in Schedulers, Report(s) PROVE Rounds'
  BY <1>8 DEF Report, Moves
<1>9. ASSUME NEW s \in Schedulers, ReportLost(s) PROVE Rounds'
  BY <1>9 DEF ReportLost, Moves
<1>10. ASSUME NEW s \in Schedulers, Settle(s) PROVE Rounds'
  BY <1>10 DEF Settle, Moves, Fenced
<1>11. ASSUME NEW s \in Schedulers, GiveUp(s) PROVE Rounds'
  BY <1>11 DEF GiveUp
<1>12. ASSUME NEW s \in Schedulers, Renew(s) PROVE Rounds'
  BY <1>12 DEF Renew, Fenced
<1>13. ASSUME NEW s \in Schedulers, Verify(s) PROVE Rounds'
  BY <1>13 DEF Verify, Moves, Fenced, Written
<1>14. ASSUME NEW s \in Schedulers, Repair(s) PROVE Rounds'
  BY <1>14 DEF Repair, Moves, Fenced, Written
<1>15. ASSUME NEW s \in Schedulers, RepairNothing(s) PROVE Rounds'
  BY <1>15 DEF RepairNothing, Moves
<1>16. ASSUME NEW s \in Schedulers, Pause(s) PROVE Rounds'
  BY <1>16 DEF Pause, Moves, Fenced, Release, Written, Rights, Busy
<1>17. ASSUME NEW s \in Schedulers, Publish(s) PROVE Rounds'
  BY <1>17 DEF Publish, Moves, Fenced, Release, Written
<1>18. ASSUME NEW s \in Schedulers, Finish(s) PROVE Rounds'
  BY <1>18 DEF Finish, Moves, Release
<1>19. ASSUME NEW s \in Schedulers, RecoverJob(s) PROVE Rounds'
  BY <1>19 DEF RecoverJob, Release, DropTask, Expired
<1>20. ASSUME NEW s \in Schedulers, RecoverTask(s) PROVE Rounds'
  BY <1>20 DEF RecoverTask, AtRest, Verdict, Expired
<1>21. ASSUME NEW s \in Schedulers, Crash(s) PROVE Rounds'
  BY <1>21 DEF Crash
<1>22. CASE CancelJob BY <1>22 DEF CancelJob, Release, DropTask
<1>23. CASE EnqueueRepair BY <1>23 DEF EnqueueRepair, NextTask
<1>24. CASE Answer BY <1>24 DEF Answer, NextTask
<1>25. CASE Tick BY <1>25 DEF Tick
<1>26. CASE Switch BY <1>26 DEF Switch
<1>27. CASE UNCHANGED vars BY <1>27
<1>. QED
  BY <1>1, <1>2, <1>3, <1>4, <1>5, <1>6, <1>7, <1>8, <1>9, <1>10, <1>11,
     <1>12, <1>13, <1>14, <1>15, <1>16, <1>17, <1>18, <1>19, <1>20, <1>21,
     <1>22, <1>23, <1>24, <1>25, <1>26, <1>27 DEF Next, Step, Poll

LEMMA AccountsStep ==
  ASSUME TypeOK, Rights, Accounts, [Next]_vars
  PROVE  Accounts'
<1>. USE DEF TypeOK, Rights, Accounts, Working, WorkPC, Owns, Stopped, vars, jobVars,
    queueVars, workVars, envVars, histVars
<1>1. ASSUME NEW s \in Schedulers, NEW t \in Tasks, Deliver(s, t) PROVE Accounts'
  BY <1>1 DEF Deliver, Moves
<1>2. ASSUME NEW s \in Schedulers, Claim(s) PROVE Accounts'
  BY <1>2 DEF Claim, Moves
<1>3. ASSUME NEW s \in Schedulers, Decline(s) PROVE Accounts'
  BY <1>3 DEF Decline, Moves
<1>4. ASSUME NEW s \in Schedulers, SyncTask(s) PROVE Accounts'
  BY <1>4 DEF SyncTask, Moves, AtRest, Verdict
<1>5. ASSUME NEW s \in Schedulers, NEW n \in 1 .. MaxGrant, Reserve(s, n) PROVE Accounts'
  BY <1>5 DEF Reserve, Moves
<1>6. ASSUME NEW s \in Schedulers, Charge(s) PROVE Accounts'
  BY <1>6 DEF Charge, Moves, Fenced
<1>7. ASSUME NEW s \in Schedulers, NEW k \in 0 .. MaxGrant, Send(s, k) PROVE Accounts'
  BY <1>7 DEF Send, Moves
<1>8. ASSUME NEW s \in Schedulers, Report(s) PROVE Accounts'
  BY <1>8 DEF Report, Moves
<1>9. ASSUME NEW s \in Schedulers, ReportLost(s) PROVE Accounts'
  BY <1>9 DEF ReportLost, Moves
<1>10. ASSUME NEW s \in Schedulers, Settle(s) PROVE Accounts'
  BY <1>10 DEF Settle, Moves, Fenced
<1>11. ASSUME NEW s \in Schedulers, GiveUp(s) PROVE Accounts'
  BY <1>11 DEF GiveUp
<1>12. ASSUME NEW s \in Schedulers, Renew(s) PROVE Accounts'
  BY <1>12 DEF Renew, Fenced
<1>13. ASSUME NEW s \in Schedulers, Verify(s) PROVE Accounts'
  BY <1>13 DEF Verify, Moves, Fenced, Written
<1>14. ASSUME NEW s \in Schedulers, Repair(s) PROVE Accounts'
  BY <1>14 DEF Repair, Moves, Fenced, Written
<1>15. ASSUME NEW s \in Schedulers, RepairNothing(s) PROVE Accounts'
  BY <1>15 DEF RepairNothing, Moves
<1>16. ASSUME NEW s \in Schedulers, Pause(s) PROVE Accounts'
  BY <1>16 DEF Pause, Moves, Fenced, Release, Written
<1>17. ASSUME NEW s \in Schedulers, Publish(s) PROVE Accounts'
  BY <1>17 DEF Publish, Moves, Fenced, Release, Written
<1>18. ASSUME NEW s \in Schedulers, Finish(s) PROVE Accounts'
  BY <1>18 DEF Finish, Moves, Release
<1>19. ASSUME NEW s \in Schedulers, RecoverJob(s) PROVE Accounts'
  BY <1>19 DEF RecoverJob, Release, DropTask, Expired
<1>20. ASSUME NEW s \in Schedulers, RecoverTask(s) PROVE Accounts'
  BY <1>20 DEF RecoverTask, AtRest, Verdict, Expired
<1>21. ASSUME NEW s \in Schedulers, Crash(s) PROVE Accounts'
  BY <1>21 DEF Crash
<1>22. CASE CancelJob BY <1>22 DEF CancelJob, Release, DropTask
<1>23. CASE EnqueueRepair BY <1>23 DEF EnqueueRepair, NextTask
<1>24. CASE Answer BY <1>24 DEF Answer, NextTask
<1>25. CASE Tick BY <1>25 DEF Tick
<1>26. CASE Switch BY <1>26 DEF Switch
<1>27. CASE UNCHANGED vars BY <1>27
<1>. QED
  BY <1>1, <1>2, <1>3, <1>4, <1>5, <1>6, <1>7, <1>8, <1>9, <1>10, <1>11,
     <1>12, <1>13, <1>14, <1>15, <1>16, <1>17, <1>18, <1>19, <1>20, <1>21,
     <1>22, <1>23, <1>24, <1>25, <1>26, <1>27 DEF Next, Step, Poll

LEMMA OutcomesStep ==
  ASSUME TypeOK, Rights, Rounds, Outcomes, [Next]_vars
  PROVE  Outcomes'
<1>. USE DEF TypeOK, Rights, Outcomes, Results, Tasks, Working, WorkPC, Owns, Busy,
    vars, jobVars, queueVars, workVars, envVars, histVars
<1>1. ASSUME NEW s \in Schedulers, NEW t \in Tasks, Deliver(s, t) PROVE Outcomes'
  BY <1>1 DEF Deliver, Moves
<1>2. ASSUME NEW s \in Schedulers, Claim(s) PROVE Outcomes'
  BY <1>2 DEF Claim, Moves
<1>3. ASSUME NEW s \in Schedulers, Decline(s) PROVE Outcomes'
  BY <1>3 DEF Decline, Moves
<1>4. ASSUME NEW s \in Schedulers, SyncTask(s) PROVE Outcomes'
  BY <1>4 DEF SyncTask, Moves, AtRest, Verdict
<1>5. ASSUME NEW s \in Schedulers, NEW n \in 1 .. MaxGrant, Reserve(s, n) PROVE Outcomes'
  BY <1>5 DEF Reserve, Moves
<1>6. ASSUME NEW s \in Schedulers, Charge(s) PROVE Outcomes'
  BY <1>6 DEF Charge, Moves, Fenced
<1>7. ASSUME NEW s \in Schedulers, NEW k \in 0 .. MaxGrant, Send(s, k) PROVE Outcomes'
  BY <1>7 DEF Send, Moves
<1>8. ASSUME NEW s \in Schedulers, Report(s) PROVE Outcomes'
  BY <1>8 DEF Report, Moves
<1>9. ASSUME NEW s \in Schedulers, ReportLost(s) PROVE Outcomes'
  BY <1>9 DEF ReportLost, Moves
<1>10. ASSUME NEW s \in Schedulers, Settle(s) PROVE Outcomes'
  BY <1>10 DEF Settle, Moves, Fenced
<1>11. ASSUME NEW s \in Schedulers, GiveUp(s) PROVE Outcomes'
  BY <1>11 DEF GiveUp
<1>12. ASSUME NEW s \in Schedulers, Renew(s) PROVE Outcomes'
  BY <1>12 DEF Renew, Fenced
<1>13. ASSUME NEW s \in Schedulers, Verify(s) PROVE Outcomes'
  BY <1>13 DEF Verify, Moves, Fenced, Written
<1>14. ASSUME NEW s \in Schedulers, Repair(s) PROVE Outcomes'
  BY <1>14 DEF Repair, Moves, Fenced, Written
<1>15. ASSUME NEW s \in Schedulers, RepairNothing(s) PROVE Outcomes'
  BY <1>15 DEF RepairNothing, Moves
<1>16. ASSUME NEW s \in Schedulers, Pause(s) PROVE Outcomes'
  BY <1>16 DEF Pause, Moves, Fenced, Release, Written
<1>17. ASSUME NEW s \in Schedulers, Publish(s) PROVE Outcomes'
  BY <1>17 DEF Publish, Moves, Fenced, Release, Written
<1>18. ASSUME NEW s \in Schedulers, Finish(s) PROVE Outcomes'
  BY <1>18 DEF Finish, Moves, Release
<1>19. ASSUME NEW s \in Schedulers, RecoverJob(s) PROVE Outcomes'
  BY <1>19 DEF RecoverJob, Release, DropTask, Expired
<1>20. ASSUME NEW s \in Schedulers, RecoverTask(s) PROVE Outcomes'
  BY <1>20 DEF RecoverTask, AtRest, Verdict, Expired
<1>21. ASSUME NEW s \in Schedulers, Crash(s) PROVE Outcomes'
  BY <1>21 DEF Crash
<1>22. CASE CancelJob
  BY <1>22 DEF CancelJob, Release, DropTask, Live
<1>23. CASE EnqueueRepair BY <1>23 DEF EnqueueRepair, NextTask
<1>24. CASE Answer BY <1>24 DEF Answer, NextTask
<1>25. CASE Tick BY <1>25 DEF Tick
<1>26. CASE Switch BY <1>26 DEF Switch
<1>27. CASE UNCHANGED vars BY <1>27
<1>. QED
  BY <1>1, <1>2, <1>3, <1>4, <1>5, <1>6, <1>7, <1>8, <1>9, <1>10, <1>11,
     <1>12, <1>13, <1>14, <1>15, <1>16, <1>17, <1>18, <1>19, <1>20, <1>21,
     <1>22, <1>23, <1>24, <1>25, <1>26, <1>27 DEF Next, Step, Poll

LEMMA LatenessStep ==
  ASSUME TypeOK, Ownership, Rights, Lateness, [Next]_vars
  PROVE  Lateness'
<1>. USE DEF TypeOK, Rights, Lateness, Working, WorkPC, Owns, InTime, Stopped, vars,
    jobVars, queueVars, workVars, envVars, histVars
<1>1. ASSUME NEW s \in Schedulers, NEW t \in Tasks, Deliver(s, t) PROVE Lateness'
  BY <1>1 DEF Deliver, Moves
<1>2. ASSUME NEW s \in Schedulers, Claim(s) PROVE Lateness'
  BY <1>2 DEF Claim, Moves
<1>3. ASSUME NEW s \in Schedulers, Decline(s) PROVE Lateness'
  BY <1>3 DEF Decline, Moves
<1>4. ASSUME NEW s \in Schedulers, SyncTask(s) PROVE Lateness'
  BY <1>4 DEF SyncTask, Moves, AtRest, Verdict
<1>5. ASSUME NEW s \in Schedulers, NEW n \in 1 .. MaxGrant, Reserve(s, n) PROVE Lateness'
  BY <1>5 DEF Reserve, Moves
<1>6. ASSUME NEW s \in Schedulers, Charge(s) PROVE Lateness'
  BY <1>6 DEF Charge, Moves, Fenced
<1>7. ASSUME NEW s \in Schedulers, NEW k \in 0 .. MaxGrant, Send(s, k) PROVE Lateness'
  <2>1. CASE Owns(s) /\ InTime
    BY <1>7, <2>1 DEF Send, Moves
  <2>2. CASE ~(Owns(s) /\ InTime)
    <3>1. late' = 1
      BY <1>7, <2>2 DEF Send, Moves
    <3>2. status' \in Stopped \/ (status' = "running" /\ ~InTime')
      BY <1>7, <2>2 DEF Send, Moves
    <3>3. \A u \in Schedulers : pc'[u] \notin {"working", "reserved", "charged"}
      BY <1>7 DEF Send, Moves
    <3>4. \A u \in Schedulers : pc'[u] = "committed" => ~Owns(u)'
      BY <1>7 DEF Send, Moves, Ownership, Busy
    <3>. QED BY <3>1, <3>2, <3>3, <3>4
  <2>. QED BY <2>1, <2>2
<1>8. ASSUME NEW s \in Schedulers, Report(s) PROVE Lateness'
  BY <1>8 DEF Report, Moves
<1>9. ASSUME NEW s \in Schedulers, ReportLost(s) PROVE Lateness'
  BY <1>9 DEF ReportLost, Moves
<1>10. ASSUME NEW s \in Schedulers, Settle(s) PROVE Lateness'
  BY <1>10 DEF Settle, Moves, Fenced
<1>11. ASSUME NEW s \in Schedulers, GiveUp(s) PROVE Lateness'
  BY <1>11 DEF GiveUp
<1>12. ASSUME NEW s \in Schedulers, Renew(s) PROVE Lateness'
  BY <1>12 DEF Renew, Fenced
<1>13. ASSUME NEW s \in Schedulers, Verify(s) PROVE Lateness'
  BY <1>13 DEF Verify, Moves, Fenced, Written
<1>14. ASSUME NEW s \in Schedulers, Repair(s) PROVE Lateness'
  BY <1>14 DEF Repair, Moves, Fenced, Written
<1>15. ASSUME NEW s \in Schedulers, RepairNothing(s) PROVE Lateness'
  BY <1>15 DEF RepairNothing, Moves
<1>16. ASSUME NEW s \in Schedulers, Pause(s) PROVE Lateness'
  BY <1>16 DEF Pause, Moves, Fenced, Release, Written
<1>17. ASSUME NEW s \in Schedulers, Publish(s) PROVE Lateness'
  BY <1>17 DEF Publish, Moves, Fenced, Release, Written
<1>18. ASSUME NEW s \in Schedulers, Finish(s) PROVE Lateness'
  BY <1>18 DEF Finish, Moves, Release
<1>19. ASSUME NEW s \in Schedulers, RecoverJob(s) PROVE Lateness'
  BY <1>19 DEF RecoverJob, Release, DropTask, Expired
<1>20. ASSUME NEW s \in Schedulers, RecoverTask(s) PROVE Lateness'
  BY <1>20 DEF RecoverTask, AtRest, Verdict, Expired
<1>21. ASSUME NEW s \in Schedulers, Crash(s) PROVE Lateness'
  BY <1>21 DEF Crash
<1>22. CASE CancelJob BY <1>22 DEF CancelJob, Release, DropTask
<1>23. CASE EnqueueRepair BY <1>23 DEF EnqueueRepair, NextTask
<1>24. CASE Answer BY <1>24 DEF Answer, NextTask
<1>25. CASE Tick BY <1>25 DEF Tick
<1>26. CASE Switch BY <1>26 DEF Switch
<1>27. CASE UNCHANGED vars BY <1>27
<1>. QED
  BY <1>1, <1>2, <1>3, <1>4, <1>5, <1>6, <1>7, <1>8, <1>9, <1>10, <1>11,
     <1>12, <1>13, <1>14, <1>15, <1>16, <1>17, <1>18, <1>19, <1>20, <1>21,
     <1>22, <1>23, <1>24, <1>25, <1>26, <1>27 DEF Next, Step, Poll

LEMMA OpenTaskStep ==
  ASSUME TypeOK, OpenJobHasOpenTask, [Next]_vars
  PROVE  OpenJobHasOpenTask'
<1>. USE DEF TypeOK, OpenJobHasOpenTask, Tasks, QueueStatus, vars, jobVars,
    queueVars, workVars, envVars, histVars
<1>1. ASSUME NEW s \in Schedulers, NEW t \in Tasks, Deliver(s, t) PROVE OpenJobHasOpenTask'
  BY <1>1 DEF Deliver, Moves
<1>2. ASSUME NEW s \in Schedulers, Claim(s) PROVE OpenJobHasOpenTask'
  BY <1>2 DEF Claim, Moves
<1>3. ASSUME NEW s \in Schedulers, Decline(s) PROVE OpenJobHasOpenTask'
  BY <1>3 DEF Decline, Moves
<1>4. ASSUME NEW s \in Schedulers, SyncTask(s) PROVE OpenJobHasOpenTask'
  BY <1>4 DEF SyncTask, Moves, AtRest, Verdict
<1>5. ASSUME NEW s \in Schedulers, NEW n \in 1 .. MaxGrant, Reserve(s, n) PROVE OpenJobHasOpenTask'
  BY <1>5 DEF Reserve, Moves
<1>6. ASSUME NEW s \in Schedulers, Charge(s) PROVE OpenJobHasOpenTask'
  BY <1>6 DEF Charge, Moves, Fenced
<1>7. ASSUME NEW s \in Schedulers, NEW k \in 0 .. MaxGrant, Send(s, k) PROVE OpenJobHasOpenTask'
  BY <1>7 DEF Send, Moves
<1>8. ASSUME NEW s \in Schedulers, Report(s) PROVE OpenJobHasOpenTask'
  BY <1>8 DEF Report, Moves
<1>9. ASSUME NEW s \in Schedulers, ReportLost(s) PROVE OpenJobHasOpenTask'
  BY <1>9 DEF ReportLost, Moves
<1>10. ASSUME NEW s \in Schedulers, Settle(s) PROVE OpenJobHasOpenTask'
  BY <1>10 DEF Settle, Moves, Fenced
<1>11. ASSUME NEW s \in Schedulers, GiveUp(s) PROVE OpenJobHasOpenTask'
  BY <1>11 DEF GiveUp
<1>12. ASSUME NEW s \in Schedulers, Renew(s) PROVE OpenJobHasOpenTask'
  BY <1>12 DEF Renew, Fenced
<1>13. ASSUME NEW s \in Schedulers, Verify(s) PROVE OpenJobHasOpenTask'
  BY <1>13 DEF Verify, Moves, Fenced, Written
<1>14. ASSUME NEW s \in Schedulers, Repair(s) PROVE OpenJobHasOpenTask'
  BY <1>14 DEF Repair, Moves, Fenced, Written
<1>15. ASSUME NEW s \in Schedulers, RepairNothing(s) PROVE OpenJobHasOpenTask'
  BY <1>15 DEF RepairNothing, Moves
<1>16. ASSUME NEW s \in Schedulers, Pause(s) PROVE OpenJobHasOpenTask'
  BY <1>16 DEF Pause, Moves, Fenced, Release, Written
<1>17. ASSUME NEW s \in Schedulers, Publish(s) PROVE OpenJobHasOpenTask'
  BY <1>17 DEF Publish, Moves, Fenced, Release, Written
<1>18. ASSUME NEW s \in Schedulers, Finish(s) PROVE OpenJobHasOpenTask'
  BY <1>18 DEF Finish, Moves, Release
<1>19. ASSUME NEW s \in Schedulers, RecoverJob(s) PROVE OpenJobHasOpenTask'
  BY <1>19 DEF RecoverJob, Release, DropTask, Expired
<1>20. ASSUME NEW s \in Schedulers, RecoverTask(s) PROVE OpenJobHasOpenTask'
  BY <1>20 DEF RecoverTask, AtRest, Verdict, Expired
<1>21. ASSUME NEW s \in Schedulers, Crash(s) PROVE OpenJobHasOpenTask'
  BY <1>21 DEF Crash
<1>22. CASE CancelJob BY <1>22 DEF CancelJob, Release, DropTask
<1>23. CASE EnqueueRepair BY <1>23 DEF EnqueueRepair, NextTask
<1>24. CASE Answer BY <1>24 DEF Answer, NextTask
<1>25. CASE Tick BY <1>25 DEF Tick
<1>26. CASE Switch BY <1>26 DEF Switch
<1>27. CASE UNCHANGED vars BY <1>27
<1>. QED
  BY <1>1, <1>2, <1>3, <1>4, <1>5, <1>6, <1>7, <1>8, <1>9, <1>10, <1>11,
     <1>12, <1>13, <1>14, <1>15, <1>16, <1>17, <1>18, <1>19, <1>20, <1>21,
     <1>22, <1>23, <1>24, <1>25, <1>26, <1>27 DEF Next, Step, Poll

-----------------------------------------------------------------------------
LEMMA JobInvInit == Init => JobInv
<1>. SUFFICES ASSUME Init PROVE JobInv
  OBVIOUS
<1>. USE DEF Init, Tasks, Results
<1>1. TypeOK
  BY DEF TypeOK, Status, QueueStatus, WorkPC, Working
<1>2. Ownership /\ Rights
  BY DEF Ownership, Rights, Busy, Working
<1>3. Rounds /\ Accounts
  BY <1>1 DEF Rounds, Accounts, TypeOK
<1>4. Outcomes /\ Lateness /\ OpenJobHasOpenTask
  BY DEF Outcomes, Lateness, OpenJobHasOpenTask
<1>. QED BY <1>1, <1>2, <1>3, <1>4 DEF JobInv

LEMMA JobInvStep == JobInv /\ [Next]_vars => JobInv'
BY TypeStep, OwnershipStep, RightsStep, RoundsStep, AccountsStep, OutcomesStep,
   LatenessStep, OpenTaskStep DEF JobInv

\* The strengthened invariant holds in every reachable state of the job.
THEOREM JobInvariant == Spec => []JobInv
BY JobInvInit, JobInvStep, PTL DEF Spec

\* Every reachable state is well typed; in particular no ledger underflows.
THEOREM JobTypeCorrect == Spec => []TypeOK
<1>1. JobInv => TypeOK BY DEF JobInv
<1>. QED BY <1>1, JobInvariant, PTL

\* Calls are charged to the row before they leave, within the launch's cap,
\* over both rounds, all claims, crashes and lost reports.
THEOREM ChargedBeforeSent == Spec => []SpendIsCharged
<1>1. JobInv => SpendIsCharged BY DEF JobInv, Accounts, SpendIsCharged
<1>. QED BY <1>1, JobInvariant, PTL

\* A started phase is never replayed.
THEOREM NeverReplayed == Spec => []StartedOnce
<1>1. JobInv => StartedOnce BY DEF JobInv, Rounds, StartedOnce
<1>. QED BY <1>1, JobInvariant, PTL

\* No result is committed twice.
THEOREM NeverCommittedTwice == Spec => []CommittedOnce
<1>1. JobInv => CommittedOnce BY DEF JobInv, Outcomes, CommittedOnce
<1>. QED BY <1>1, JobInvariant, PTL

\* A worker that lost its rights sends at most the request it had charged.
THEOREM OneLateRequest == Spec => []AtMostOneLateRequest
<1>1. JobInv => AtMostOneLateRequest BY DEF JobInv, Lateness, AtMostOneLateRequest
<1>. QED BY <1>1, JobInvariant, PTL

\* The queue never closes the task of a job that still waits or runs.
THEOREM OpenTask == Spec => []OpenJobHasOpenTask
<1>1. JobInv => OpenJobHasOpenTask BY DEF JobInv
<1>. QED BY <1>1, JobInvariant, PTL

-----------------------------------------------------------------------------
\* Bookkeeping that the contract does not see.
LEMMA Unseen ==
  ASSUME UNCHANGED <<status, task, claims, sent, written>>
  PROVE  UNCHANGED Contract!contractVars
BY DEF StateOf, Contract!contractVars

LEMMA ContractInit == Init => Contract!Init
BY DEF Init, Contract!Init, StateOf, Contract!Rounds, Tasks

LEMMA ContractStep ==
  ASSUME JobInv, [Next]_vars
  PROVE  [Contract!Next]_Contract!contractVars
<1>. USE DEF vars, jobVars, queueVars, workVars, envVars, histVars, JobInv
<1>1. ASSUME NEW s \in Schedulers, NEW t \in Tasks, Deliver(s, t) PROVE UNCHANGED Contract!contractVars
  BY <1>1, Unseen DEF Deliver, Moves
<1>2. ASSUME NEW s \in Schedulers, Decline(s) PROVE UNCHANGED Contract!contractVars
  BY <1>2, Unseen DEF Decline, Moves
<1>3. ASSUME NEW s \in Schedulers, SyncTask(s) PROVE UNCHANGED Contract!contractVars
  BY <1>3, Unseen DEF SyncTask, Moves, AtRest, Verdict
<1>4. ASSUME NEW s \in Schedulers, NEW n \in 1 .. MaxGrant, Reserve(s, n) PROVE UNCHANGED Contract!contractVars
  BY <1>4, Unseen DEF Reserve, Moves
<1>5. ASSUME NEW s \in Schedulers, Charge(s) PROVE UNCHANGED Contract!contractVars
  BY <1>5, Unseen DEF Charge, Moves, Fenced
<1>6. ASSUME NEW s \in Schedulers, Report(s) PROVE UNCHANGED Contract!contractVars
  BY <1>6, Unseen DEF Report, Moves
<1>7. ASSUME NEW s \in Schedulers, ReportLost(s) PROVE UNCHANGED Contract!contractVars
  BY <1>7, Unseen DEF ReportLost, Moves
<1>8. ASSUME NEW s \in Schedulers, Settle(s) PROVE UNCHANGED Contract!contractVars
  BY <1>8, Unseen DEF Settle, Moves, Fenced
<1>9. ASSUME NEW s \in Schedulers, GiveUp(s) PROVE UNCHANGED Contract!contractVars
  BY <1>9, Unseen DEF GiveUp
<1>10. ASSUME NEW s \in Schedulers, Renew(s) PROVE UNCHANGED Contract!contractVars
  BY <1>10, Unseen DEF Renew, Fenced
<1>11. ASSUME NEW s \in Schedulers, RepairNothing(s) PROVE UNCHANGED Contract!contractVars
  BY <1>11, Unseen DEF RepairNothing, Moves
<1>12. ASSUME NEW s \in Schedulers, RecoverTask(s) PROVE UNCHANGED Contract!contractVars
  BY <1>12, Unseen DEF RecoverTask, AtRest, Verdict, Expired
<1>13. ASSUME NEW s \in Schedulers, Crash(s) PROVE UNCHANGED Contract!contractVars
  BY <1>13, Unseen DEF Crash
<1>14. ASSUME NEW s \in Schedulers, Claim(s) PROVE Contract!Begin
  <2>1. claims[task] = 0 /\ status = "queued"
    BY <1>14 DEF Claim, Rounds
  <2>2. claims' = [claims EXCEPT ![task] = 1]
    BY <1>14, <2>1 DEF Claim
  <2>3. StateOf = "waiting" /\ StateOf' = "active"
    BY <1>14, <2>1 DEF Claim, StateOf
  <2>4. UNCHANGED <<task, sent, written>>
    BY <1>14 DEF Claim
  <2>. QED BY <2>1, <2>2, <2>3, <2>4 DEF Contract!Begin
<1>15. ASSUME NEW s \in Schedulers, NEW k \in 0 .. MaxGrant, Send(s, k) PROVE Contract!Spend
  BY <1>15 DEF Send, Moves, TypeOK, Ownership, Busy, Working, Rounds, Accounts,
      Tasks, StateOf, Contract!Spend
<1>16. ASSUME NEW s \in Schedulers, Verify(s) PROVE Contract!Commit("verified")
  BY <1>16 DEF Verify, Moves, Fenced, Owns, Written, TypeOK, Results, StateOf,
      Contract!Commit
<1>17. ASSUME NEW s \in Schedulers, Repair(s) PROVE Contract!Commit("repaired")
  BY <1>17 DEF Repair, Moves, Fenced, Owns, Written, TypeOK, Results, StateOf,
      Contract!Commit
<1>18. ASSUME NEW s \in Schedulers, Pause(s) PROVE Contract!Commit("asked")
  <2>1. status = "running" /\ task = 1
    BY <1>18 DEF Pause, Moves, Fenced, Owns, Rights, Busy, Working
  <2>2. written["asked"] = 0
    BY <2>1 DEF Outcomes
  <2>3. written' = [written EXCEPT !["asked"] = 1]
    BY <1>18, <2>2 DEF Pause, Written
  <2>4. StateOf = "active" /\ StateOf' = "paused"
    BY <1>18, <2>1 DEF Pause, StateOf
  <2>5. UNCHANGED <<task, claims, sent>>
    BY <1>18 DEF Pause
  <2>. QED BY <2>2, <2>3, <2>4, <2>5 DEF Contract!Commit
<1>19. ASSUME NEW s \in Schedulers, Publish(s) PROVE Contract!Commit("published")
  <2>1. status = "running"
    BY <1>19 DEF Publish, Fenced, Owns
  <2>2. written["published"] = 0
    BY <2>1 DEF Outcomes
  <2>3. written' = [written EXCEPT !["published"] = 1]
    BY <1>19, <2>2 DEF Publish, Written
  <2>4. StateOf = "active" /\ StateOf' = "succeeded"
    BY <1>19, <2>1 DEF Publish, StateOf
  <2>5. UNCHANGED <<task, claims, sent>>
    BY <1>19 DEF Publish
  <2>. QED BY <2>2, <2>3, <2>4, <2>5 DEF Contract!Commit
<1>20. ASSUME NEW s \in Schedulers, Finish(s)
      PROVE Contract!Complete \/ Contract!Stop \/ UNCHANGED Contract!contractVars
  <2>1. CASE Owns(s) /\ pc[s] = "committed"
    BY <1>20, <2>1 DEF Finish, Moves, Owns, Release, StateOf, Contract!Complete
  <2>2. CASE Owns(s) /\ pc[s] # "committed"
    BY <1>20, <2>2 DEF Finish, Moves, Owns, Release, StateOf, Contract!Stop
  <2>3. CASE ~Owns(s)
    BY <1>20, <2>3, Unseen DEF Finish, Moves
  <2>. QED BY <2>1, <2>2, <2>3
<1>21. ASSUME NEW s \in Schedulers, RecoverJob(s) PROVE Contract!Stop
  BY <1>21 DEF RecoverJob, Expired, Release, StateOf, Contract!Stop
<1>22. CASE CancelJob
  BY <1>22 DEF CancelJob, Live, Release, StateOf, Contract!Stop, Contract!Next
<1>23. CASE EnqueueRepair
  BY <1>23 DEF EnqueueRepair, NextTask, StateOf, Contract!Continue, Contract!Next
<1>24. CASE Answer
  BY <1>24 DEF Answer, NextTask, Rounds, StateOf, Contract!Continue, Contract!Next
<1>25. CASE Tick \/ Switch \/ UNCHANGED vars
  BY <1>25, Unseen DEF Tick, Switch
<1>. QED
  BY <1>1, <1>2, <1>3, <1>4, <1>5, <1>6, <1>7, <1>8, <1>9, <1>10, <1>11,
     <1>12, <1>13, <1>14, <1>15, <1>16, <1>17, <1>18, <1>19, <1>20, <1>21,
     <1>22, <1>23, <1>24, <1>25
     DEF Next, Step, Poll, Contract!Next, Results

\* The durable job implements the contract its user reads: every step is one of
\* the contract's or invisible to it.
THEOREM ImplementsContract == Spec => KeepsContract
<1>. USE DEF KeepsContract, Contract!Spec
<1>1. QED
  BY ContractInit, ContractStep, JobInvariant, PTL DEF Spec
=============================================================================
