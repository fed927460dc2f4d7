--------------------------- MODULE AgentRunProofs ---------------------------
(***************************************************************************)
(* For any set of calls, requests and bounds: the run's variables keep     *)
(* their types, one approval never buys two side effects, and a run with a *)
(* single tool call performs it once and never after a refusal.            *)
(*                                                                         *)
(* The argument follows an approval as if it were a single coin.  The coin *)
(* is with its HTTP request until it is handed over, then either in the    *)
(* oneshot of the live turn or in one queued task; performing the effect   *)
(* spends it.  CoinInv says that wherever the coin still is, nothing has   *)
(* been performed with it, and that it is nowhere else.  GateInv says that *)
(* only one coin is out for the call of the row, and none once that call   *)
(* is refused or performed.                                                *)
(***************************************************************************)
EXTENDS AgentRun, TLAPS

\* Wherever the coin still is, it is unspent, and it is in one place only.
WithRequest == \A r \in Approvals :
  approve[r] # "done" => ran[r] = 0 /\ task[r] = "none" /\ delivery # r
WithTurn == \A r \in Approvals :
  delivery = r => ran[r] = 0 /\ task[r] = "none"
WithTask == \A r \in Approvals :
  task[r] \in {"queued", "starting"} => ran[r] = 0
\* The turn only calls on the authority it received.
TurnHasCoin == turn = "calling" => delivery \in Approvals

CoinInv ==
  /\ WithRequest
  /\ WithTurn
  /\ WithTask
  /\ TurnHasCoin
  /\ AtMostOneEffectPerApproval

USE CallAssumption, RequestAssumption, NoApprovalAssumption, BoundAssumption

LEMMA ResolveType ==
  ASSUME TypeOK, NEW v \in Approvals \cup {"no"}, Resolve(v)
  PROVE  waiter' \in BOOLEAN /\ delivery' \in Approvals \cup {NoApproval, "no"}
BY DEF TypeOK, Resolve

LEMMA TurnType ==
  ASSUME TypeOK, TurnStep \/ EndTurn \/ LeaveRun \/ \E c \in Calls : RequestApproval(c),
         TurnHasCoin
  PROVE  TypeOK'
<1>. USE DEF TypeOK, rowVars, turnVars, httpVars, taskVars, envVars, histVars
<1>1. ASSUME NEW c \in Calls, RequestApproval(c) PROVE TypeOK'
  BY <1>1 DEF RequestApproval, Resumed, Status, TurnPC
<1>2. CASE Register BY <1>2 DEF Register, TurnPC
<1>3. CASE ReceiveYes BY <1>3 DEF ReceiveYes, TurnPC
<1>4. CASE ReceiveNo BY <1>4 DEF ReceiveNo, Resumed, TurnPC
<1>5. CASE Timeout BY <1>5 DEF Timeout, TurnPC
<1>6. CASE Forget BY <1>6 DEF Forget, TurnPC
<1>7. CASE TimeoutDecide
  BY <1>7 DEF TimeoutDecide, Undecided, Refused, Resumed, Status, TurnPC
<1>8. CASE TimeoutFinish BY <1>8 DEF TimeoutFinish, Status, TurnPC
<1>9. CASE TurnRelease BY <1>9 DEF TurnRelease, Resumed, TurnPC
<1>10. CASE CallApproved
  BY <1>10 DEF CallApproved, Performed, TurnPC, TurnHasCoin
<1>11. CASE MarkRunning BY <1>11 DEF MarkRunning, Status, TurnPC
<1>12. CASE ExecuteArtefact BY <1>12 DEF ExecuteArtefact, TurnPC
<1>13. CASE ArtefactFinish BY <1>13 DEF ArtefactFinish, Status, TurnPC
<1>14. CASE EndTurn BY <1>14 DEF EndTurn, Status, TurnPC
<1>15. CASE LeaveRun BY <1>15 DEF LeaveRun, TurnPC
<1>. QED
  BY <1>1, <1>2, <1>3, <1>4, <1>5, <1>6, <1>7, <1>8, <1>9, <1>10, <1>11,
     <1>12, <1>13, <1>14, <1>15 DEF TurnStep

LEMMA HandlerType ==
  ASSUME TypeOK,
         \/ \E r \in Approvals, c \in Calls : ApproveClaim(r, c)
         \/ \E d \in Declines : DeclineClaim(d)
         \/ \E k \in Cancels : CancelToken(k)
         \/ HandlerStep \/ SweepExpired
  PROVE  TypeOK'
<1>. USE DEF TypeOK, rowVars, turnVars, httpVars, taskVars, envVars, histVars
<1>1. ASSUME NEW r \in Approvals, NEW c \in Calls, ApproveClaim(r, c) PROVE TypeOK'
  BY <1>1 DEF ApproveClaim, Undecided, Status
<1>2. ASSUME NEW r \in Approvals, ApproveResolve(r) PROVE TypeOK'
  BY <1>2, ResolveType DEF ApproveResolve
<1>3. ASSUME NEW r \in Approvals, ApproveEnqueue(r) PROVE TypeOK'
  BY <1>3 DEF ApproveEnqueue, TaskState
<1>4. ASSUME NEW d \in Declines, DeclineClaim(d) PROVE TypeOK'
  BY <1>4 DEF DeclineClaim, Refused, Undecided, Status
<1>5. ASSUME NEW d \in Declines, DeclineResolve(d) PROVE TypeOK'
  BY <1>5, ResolveType DEF DeclineResolve
<1>6. ASSUME NEW d \in Declines, DeclineFinish(d) PROVE TypeOK'
  BY <1>6 DEF DeclineFinish, Status
<1>7. ASSUME NEW d \in Declines, DeclineRelease(d) PROVE TypeOK'
  BY <1>7 DEF DeclineRelease
<1>8. ASSUME NEW k \in Cancels, CancelToken(k) PROVE TypeOK'
  BY <1>8 DEF CancelToken
<1>9. ASSUME NEW k \in Cancels, CancelFlip(k) PROVE TypeOK'
  BY <1>9 DEF CancelFlip, Status
<1>10. ASSUME NEW k \in Cancels, CancelResolve(k) PROVE TypeOK'
  BY <1>10, ResolveType DEF CancelResolve
<1>11. CASE SweepExpired
  BY <1>11 DEF SweepExpired, Refused, Undecided, Status
<1>. QED
  BY <1>1, <1>2, <1>3, <1>4, <1>5, <1>6, <1>7, <1>8, <1>9, <1>10, <1>11
     DEF HandlerStep

LEMMA ResumeType ==
  ASSUME TypeOK, NEW r \in Approvals, ResumeStep(r)
  PROVE  TypeOK'
<1>. USE DEF TypeOK, rowVars, turnVars, httpVars, taskVars, envVars, histVars,
             TaskState
<1>1. CASE ResumeRead(r) BY <1>1 DEF ResumeRead
<1>2. CASE ResumePerform(r) BY <1>2 DEF ResumePerform, Performed
<1>3. CASE ResumeRefuse(r) BY <1>3 DEF ResumeRefuse
<1>4. CASE ResumeDefer(r) BY <1>4 DEF ResumeDefer
<1>5. CASE ResumeError(r) BY <1>5 DEF ResumeError
<1>6. CASE ResumeFinish(r) BY <1>6 DEF ResumeFinish, Status
<1>7. CASE ResumeRelease(r) BY <1>7 DEF ResumeRelease
<1>8. CASE ResumePark(r) BY <1>8 DEF ResumePark, Status
<1>. QED
  BY <1>1, <1>2, <1>3, <1>4, <1>5, <1>6, <1>7, <1>8 DEF ResumeStep

LEMMA EnvironmentType ==
  ASSUME TypeOK, TokenExpires \/ DeviceFlips \/ Crash
  PROVE  TypeOK'
<1>. USE DEF TypeOK, rowVars, turnVars, httpVars, taskVars, envVars, histVars
<1>1. CASE TokenExpires BY <1>1 DEF TokenExpires
<1>2. CASE DeviceFlips BY <1>2 DEF DeviceFlips
<1>3. CASE Crash
  <2>1. approve' \in [Approvals -> {"ready", "won", "conflict", "enqueueing", "done"}]
    BY <1>3 DEF Crash
  <2>2. decline' \in [Declines -> {"ready", "won", "finishing", "releasing", "done"}]
    BY <1>3 DEF Crash
  <2>3. cancel' \in [Cancels -> {"ready", "flipping", "killed", "missed",
                                "killed_done", "missed_done"}]
    BY <1>3 DEF Crash
  <2>4. task' \in [Approvals -> TaskState]
    BY <1>3 DEF Crash, TaskState
  <2>5. /\ status' \in Status /\ pending' \in Calls \cup {NoCall}
        /\ token' \in BOOLEAN /\ gated' \in Calls \cup {NoCall}
        /\ asked' \subseteq Calls /\ online' \in BOOLEAN
        /\ refused' \subseteq Calls \cup {NoCall}
    BY <1>3 DEF Crash
  <2>6. /\ shown' \in [Approvals -> Calls \cup {NoCall}]
        /\ tries' \in [Approvals -> Nat] /\ ran' \in [Approvals -> Nat]
        /\ did' \in [Approvals -> Calls \cup {NoCall}]
    BY <1>3 DEF Crash
  <2>7. turn' \in TurnPC /\ waiter' \in BOOLEAN /\ cards' \subseteq Calls
    BY <1>3 DEF Crash, TurnPC
  <2>8. delivery' \in Approvals \cup {NoApproval, "no"}
    BY <1>3 DEF Crash
  <2>9. crashes' \in Nat
    <3>1. crashes \in Nat /\ crashes' = crashes + 1
      BY <1>3 DEF Crash
    <3>. QED BY ONLY <3>1
  <2>. QED BY ONLY <2>1, <2>2, <2>3, <2>4, <2>5, <2>6, <2>7, <2>8, <2>9 DEF TypeOK
<1>. QED BY <1>1, <1>2, <1>3

-----------------------------------------------------------------------------
LEMMA InitInv == Init => TypeOK /\ CoinInv
<1>. SUFFICES ASSUME Init PROVE TypeOK /\ CoinInv
  OBVIOUS
<1>1. TypeOK
  <2>1. /\ status \in Status /\ turn \in TurnPC /\ token \in BOOLEAN
        /\ pending \in Calls \cup {NoCall} /\ gated \in Calls \cup {NoCall}
        /\ asked \subseteq Calls /\ waiter \in BOOLEAN /\ cards \subseteq Calls
        /\ delivery \in Approvals \cup {NoApproval, "no"}
        /\ online \in BOOLEAN /\ crashes \in Nat
        /\ refused \subseteq Calls \cup {NoCall}
    BY DEF Init, Status, TurnPC
  <2>2. approve \in [Approvals -> {"ready", "won", "conflict", "enqueueing", "done"}]
    BY DEF Init
  <2>3. decline \in [Declines -> {"ready", "won", "finishing", "releasing", "done"}]
    BY DEF Init
  <2>4. cancel \in [Cancels -> {"ready", "flipping", "killed", "missed",
                               "killed_done", "missed_done"}]
    BY DEF Init
  <2>5. task \in [Approvals -> TaskState] /\ tries \in [Approvals -> Nat]
    BY DEF Init, TaskState
  <2>6. /\ shown \in [Approvals -> Calls \cup {NoCall}]
        /\ ran \in [Approvals -> Nat]
        /\ did \in [Approvals -> Calls \cup {NoCall}]
    BY DEF Init
  <2>. QED BY ONLY <2>1, <2>2, <2>3, <2>4, <2>5, <2>6 DEF TypeOK
<1>2. CoinInv
  BY DEF Init, CoinInv, WithRequest, WithTurn, WithTask, TurnHasCoin,
         AtMostOneEffectPerApproval
<1>. QED BY <1>1, <1>2

\* Which steps move no coin at all.
LEMMA CoinUntouched ==
  ASSUME TypeOK, CoinInv,
         UNCHANGED <<approve, task, ran>>,
         delivery' \in {delivery, NoApproval, "no"},
         turn' = "calling" => delivery' \in Approvals
  PROVE  CoinInv'
BY DEF TypeOK, CoinInv, WithRequest, WithTurn, WithTask, TurnHasCoin,
       AtMostOneEffectPerApproval

LEMMA TurnCoin ==
  ASSUME TypeOK, CoinInv,
         TurnStep \/ EndTurn \/ LeaveRun \/ \E c \in Calls : RequestApproval(c)
  PROVE  CoinInv'
<1>. USE DEF rowVars, turnVars, httpVars, taskVars, envVars, histVars
<1>1. ASSUME NEW c \in Calls, RequestApproval(c) PROVE CoinInv'
  BY <1>1, CoinUntouched DEF RequestApproval, Resumed
<1>2. CASE Register BY <1>2, CoinUntouched DEF Register
<1>3. CASE ReceiveYes BY <1>3, CoinUntouched DEF ReceiveYes
<1>4. CASE ReceiveNo BY <1>4, CoinUntouched DEF ReceiveNo, Resumed
<1>5. CASE Timeout BY <1>5, CoinUntouched DEF Timeout
<1>6. CASE Forget BY <1>6, CoinUntouched DEF Forget
<1>7. CASE TimeoutDecide
  BY <1>7, CoinUntouched DEF TimeoutDecide, Refused, Resumed
<1>8. CASE TimeoutFinish BY <1>8, CoinUntouched DEF TimeoutFinish
<1>9. CASE TurnRelease BY <1>9, CoinUntouched DEF TurnRelease, Resumed
<1>10. CASE CallApproved
  <2>1. delivery \in Approvals /\ ran[delivery] = 0 /\ task[delivery] = "none"
        /\ approve[delivery] = "done"
    BY <1>10 DEF CallApproved, CoinInv, TurnHasCoin, WithTurn, WithRequest
  <2>2. CASE Performed(delivery, gated)
    BY <1>10, <2>1, <2>2
       DEF CallApproved, Performed, TypeOK, CoinInv, WithRequest, WithTurn,
           WithTask, TurnHasCoin, AtMostOneEffectPerApproval
  <2>3. CASE UNCHANGED histVars
    BY <1>10, <2>3, CoinUntouched DEF CallApproved
  <2>. QED BY <1>10, <2>2, <2>3 DEF CallApproved
<1>11. CASE MarkRunning BY <1>11, CoinUntouched DEF MarkRunning
<1>12. CASE ExecuteArtefact BY <1>12, CoinUntouched DEF ExecuteArtefact
<1>13. CASE ArtefactFinish BY <1>13, CoinUntouched DEF ArtefactFinish
<1>14. CASE EndTurn BY <1>14, CoinUntouched DEF EndTurn
<1>15. CASE LeaveRun BY <1>15, CoinUntouched DEF LeaveRun
<1>. QED
  BY <1>1, <1>2, <1>3, <1>4, <1>5, <1>6, <1>7, <1>8, <1>9, <1>10, <1>11,
     <1>12, <1>13, <1>14, <1>15 DEF TurnStep

LEMMA HandlerCoin ==
  ASSUME TypeOK, CoinInv,
         \/ \E r \in Approvals, c \in Calls : ApproveClaim(r, c)
         \/ \E d \in Declines : DeclineClaim(d)
         \/ \E k \in Cancels : CancelToken(k)
         \/ HandlerStep \/ SweepExpired
  PROVE  CoinInv'
<1>. USE DEF rowVars, turnVars, httpVars, taskVars, envVars, histVars
<1>1. ASSUME NEW r \in Approvals, NEW c \in Calls, ApproveClaim(r, c) PROVE CoinInv'
  BY <1>1 DEF ApproveClaim, TypeOK, CoinInv, WithRequest, WithTurn, WithTask,
              TurnHasCoin, AtMostOneEffectPerApproval
<1>2. ASSUME NEW r \in Approvals, ApproveResolve(r) PROVE CoinInv'
  BY <1>2 DEF ApproveResolve, Resolve, TypeOK, CoinInv, WithRequest, WithTurn,
              WithTask, TurnHasCoin, AtMostOneEffectPerApproval
<1>3. ASSUME NEW r \in Approvals, ApproveEnqueue(r) PROVE CoinInv'
  BY <1>3 DEF ApproveEnqueue, TypeOK, CoinInv, WithRequest, WithTurn, WithTask,
              TurnHasCoin, AtMostOneEffectPerApproval
<1>4. ASSUME NEW d \in Declines, DeclineClaim(d) PROVE CoinInv'
  BY <1>4, CoinUntouched DEF DeclineClaim, Refused, CoinInv, TurnHasCoin
<1>5. ASSUME NEW d \in Declines, DeclineResolve(d) PROVE CoinInv'
  BY <1>5, CoinUntouched DEF DeclineResolve, Resolve, CoinInv, TurnHasCoin
<1>6. ASSUME NEW d \in Declines, DeclineFinish(d) PROVE CoinInv'
  BY <1>6, CoinUntouched DEF DeclineFinish, CoinInv, TurnHasCoin
<1>7. ASSUME NEW d \in Declines, DeclineRelease(d) PROVE CoinInv'
  BY <1>7, CoinUntouched DEF DeclineRelease, CoinInv, TurnHasCoin
<1>8. ASSUME NEW k \in Cancels, CancelToken(k) PROVE CoinInv'
  BY <1>8, CoinUntouched DEF CancelToken, CoinInv, TurnHasCoin
<1>9. ASSUME NEW k \in Cancels, CancelFlip(k) PROVE CoinInv'
  BY <1>9, CoinUntouched DEF CancelFlip, CoinInv, TurnHasCoin
<1>10. ASSUME NEW k \in Cancels, CancelResolve(k) PROVE CoinInv'
  BY <1>10, CoinUntouched DEF CancelResolve, Resolve, CoinInv, TurnHasCoin
<1>11. CASE SweepExpired
  BY <1>11, CoinUntouched DEF SweepExpired, Refused, CoinInv, TurnHasCoin
<1>. QED
  BY <1>1, <1>2, <1>3, <1>4, <1>5, <1>6, <1>7, <1>8, <1>9, <1>10, <1>11
     DEF HandlerStep

LEMMA ResumeCoin ==
  ASSUME TypeOK, CoinInv, NEW r \in Approvals, ResumeStep(r)
  PROVE  CoinInv'
<1>. USE DEF rowVars, turnVars, httpVars, taskVars, envVars, histVars, TypeOK,
             CoinInv, WithRequest, WithTurn, WithTask, TurnHasCoin,
             AtMostOneEffectPerApproval
<1>1. CASE ResumeRead(r) BY <1>1 DEF ResumeRead
<1>2. CASE ResumePerform(r) BY <1>2 DEF ResumePerform, Performed
<1>3. CASE ResumeRefuse(r) BY <1>3 DEF ResumeRefuse
<1>4. CASE ResumeDefer(r) BY <1>4 DEF ResumeDefer
<1>5. CASE ResumeError(r) BY <1>5 DEF ResumeError
<1>6. CASE ResumeFinish(r) BY <1>6 DEF ResumeFinish
<1>7. CASE ResumeRelease(r) BY <1>7 DEF ResumeRelease
<1>8. CASE ResumePark(r) BY <1>8 DEF ResumePark
<1>. QED
  BY <1>1, <1>2, <1>3, <1>4, <1>5, <1>6, <1>7, <1>8 DEF ResumeStep

LEMMA EnvironmentCoin ==
  ASSUME TypeOK, CoinInv, TokenExpires \/ DeviceFlips \/ Crash
  PROVE  CoinInv'
<1>. USE DEF rowVars, turnVars, httpVars, taskVars, envVars, histVars
<1>1. CASE TokenExpires
  BY <1>1, CoinUntouched DEF TokenExpires, CoinInv, TurnHasCoin
<1>2. CASE DeviceFlips
  BY <1>2, CoinUntouched DEF DeviceFlips, CoinInv, TurnHasCoin
<1>3. CASE Crash
  BY <1>3 DEF Crash, Active, TypeOK, CoinInv, WithRequest, WithTurn, WithTask,
              TurnHasCoin, AtMostOneEffectPerApproval
<1>. QED BY <1>1, <1>2, <1>3

\* Types and the coin are preserved together: the type of the history needs to
\* know whose authority the turn is calling on.
LEMMA Inductive == TypeOK /\ CoinInv /\ [Next]_vars => TypeOK' /\ CoinInv'
<1>. SUFFICES ASSUME TypeOK, CoinInv, [Next]_vars PROVE TypeOK' /\ CoinInv'
  OBVIOUS
<1>1. CASE TurnStep \/ EndTurn \/ LeaveRun \/ \E c \in Calls : RequestApproval(c)
  BY <1>1, TurnType, TurnCoin DEF CoinInv
<1>2. CASE \/ \E r \in Approvals, c \in Calls : ApproveClaim(r, c)
           \/ \E d \in Declines : DeclineClaim(d)
           \/ \E k \in Cancels : CancelToken(k)
           \/ HandlerStep \/ SweepExpired
  BY <1>2, HandlerType, HandlerCoin
<1>3. CASE \E r \in Approvals : ResumeStep(r)
  BY <1>3, ResumeType, ResumeCoin
<1>4. CASE TokenExpires \/ DeviceFlips \/ Crash
  BY <1>4, EnvironmentType, EnvironmentCoin
<1>5. CASE UNCHANGED vars
  BY <1>5 DEF vars, rowVars, turnVars, httpVars, taskVars, envVars, histVars,
     TypeOK, CoinInv, WithRequest, WithTurn, WithTask, TurnHasCoin,
     AtMostOneEffectPerApproval
<1>. QED BY <1>1, <1>2, <1>3, <1>4, <1>5 DEF Next

\* Every variable of the run, the row, the turn, the handlers and the task,
\* stays in the range the code gives it.
THEOREM TypeCorrect == Spec => []TypeOK
BY InitInv, Inductive, PTL DEF Spec

\* One approval never buys two side effects, however the turn, the handlers,
\* the resume task, its retries and restarts interleave.
THEOREM OneEffectPerApproval == Spec => []AtMostOneEffectPerApproval
<1>1. CoinInv => AtMostOneEffectPerApproval
  BY DEF CoinInv
<1>. QED BY <1>1, InitInv, Inductive, PTL DEF Spec

-----------------------------------------------------------------------------
(* A run that gates a single tool call, and any drafts after it.  The row  *)
(* of that call has one decision at a time: while somebody holds a yes for *)
(* it the row does not await another, and once the call is refused or      *)
(* performed nobody holds one and the row never awaits one again.  What an *)
(* old yes finds in the row of a draft it cannot perform.                  *)

\* An approval that may still lead to something.
Held(r) ==
  \/ approve[r] \in {"won", "enqueueing"}
  \/ delivery = r
  \/ task[r] \in {"queued", "starting", "deferring"}

Idle == ~Undecided /\ \A r \in Approvals : ~Held(r)

\* The call of the row was refused, or performed.
Disposed == pending \in refused \/ \E r \in Approvals : did[r] = pending

OneHolder == pending \notin Artefact =>
  /\ \A r, s \in Approvals : Held(r) /\ Held(s) => r = s
  /\ Undecided => \A r \in Approvals : ~Held(r)
  /\ Disposed => Idle

\* The row holds what the turn asked for last, and after a draft nothing is
\* asked for or called.
Asking ==
  /\ gated = pending
  /\ pending \in asked \cup {NoCall}
  /\ pending = NoCall => asked = {} /\ Idle
  /\ refused \subseteq asked
  /\ \A r \in Approvals : did[r] \in (asked \cup {NoCall}) \ Artefact
  /\ pending \in Artefact => turn \notin {"thinking", "calling", "marking"}

GateInv == OneHolder /\ Asking /\ ExecutesOnce /\ RefusedNeverRuns

SingleTool == \A c, e \in Calls \ Artefact : c = e

\* A step that decides nothing and hands a yes on, or loses it.
LEMMA GateQuiet ==
  ASSUME TypeOK, GateInv, UNCHANGED <<pending, gated, asked, did, refused>>,
         Undecided' => Undecided,
         \A r \in Approvals : Held(r)' => Held(r),
         pending \in Artefact => turn' \notin {"thinking", "calling", "marking"}
  PROVE  GateInv'
<1>1. Idle => Idle'
  BY DEF Idle
<1>2. Disposed' <=> Disposed
  BY DEF Disposed
<1>3. OneHolder'
  BY <1>1, <1>2 DEF GateInv, OneHolder
<1>4. Asking'
  BY <1>1 DEF GateInv, Asking
<1>5. ExecutesOnce' /\ RefusedNeverRuns'
  BY DEF GateInv, ExecutesOnce, RefusedNeverRuns
<1>. QED BY <1>3, <1>4, <1>5 DEF GateInv

\* A step that refuses the call of the row.
LEMMA GateRefuse ==
  ASSUME TypeOK, GateInv, Undecided, ~Undecided', Refused,
         UNCHANGED <<pending, gated, asked>>,
         \A r \in Approvals : Held(r)' => Held(r),
         pending \in Artefact => turn' \notin {"thinking", "calling", "marking"}
  PROVE  GateInv'
<1>1. pending \in asked
  BY DEF GateInv, Asking, Idle
<1>2. pending \notin Artefact => Idle'
  BY DEF GateInv, OneHolder, Idle
<1>3. OneHolder'
  BY <1>2 DEF OneHolder, Idle
<1>4. Asking'
  BY <1>1 DEF GateInv, Asking, Refused, Idle
<1>5. \A r \in Approvals : did[r] # pending
  BY DEF GateInv, OneHolder, Asking, Disposed, Idle
<1>6. RefusedNeverRuns' /\ ExecutesOnce'
  BY <1>5 DEF GateInv, RefusedNeverRuns, ExecutesOnce, Refused
<1>. QED BY <1>3, <1>4, <1>6 DEF GateInv

\* A step that performs the call of the row, and uses its yes up.
LEMMA GatePerform ==
  ASSUME TypeOK, GateInv, NEW r \in Approvals, Held(r), pending \notin Artefact,
         Performed(r, pending), UNCHANGED <<status, pending, gated, asked>>,
         \A s \in Approvals : Held(s)' => Held(s) /\ s # r
  PROVE  GateInv'
<1>1. Idle' /\ ~Disposed /\ pending # NoCall
  BY DEF GateInv, OneHolder, Asking, Idle, Undecided
<1>2. OneHolder'
  BY <1>1 DEF OneHolder, Idle
<1>3. Asking'
  BY <1>1 DEF GateInv, Asking, Performed, TypeOK
<1>4. ExecutesOnce'
  BY <1>1 DEF GateInv, ExecutesOnce, Performed, TypeOK, Disposed
<1>5. RefusedNeverRuns'
  BY <1>1 DEF GateInv, RefusedNeverRuns, Performed, TypeOK, Disposed
<1>. QED BY <1>2, <1>3, <1>4, <1>5 DEF GateInv

LEMMA GateAsks ==
  ASSUME SingleTool, TypeOK, GateInv, NEW c \in Calls, RequestApproval(c)
  PROVE  GateInv'
<1>. USE DEF rowVars, turnVars, httpVars, taskVars, envVars, histVars
<1>1. /\ turn = "thinking" /\ c \notin asked
      /\ pending' = c /\ gated' = c /\ asked' = asked \cup {c}
      /\ turn' \in {"done", "thinking", "gating"}
      /\ c \in Artefact => turn' \in {"done", "gating"}
      /\ UNCHANGED <<approve, delivery, task, did, refused>>
  BY DEF RequestApproval, Resumed
<1>2. pending \notin Artefact
  BY <1>1 DEF GateInv, Asking
<1>3. ASSUME c \notin Artefact
      PROVE  asked = {} /\ Idle
  <2>1. pending = NoCall
    BY <1>1, <1>2, <1>3 DEF GateInv, Asking, SingleTool, TypeOK
  <2>. QED BY <2>1 DEF GateInv, Asking
<1>4. ASSUME c \notin Artefact
      PROVE  (\A r \in Approvals : ~Held(r)') /\ ~Disposed'
  <2>1. \A r \in Approvals : ~Held(r)'
    BY <1>1, <1>3, <1>4 DEF Idle, Held
  <2>2. ~Disposed'
    BY <1>1, <1>3, <1>4, CallAssumption DEF Disposed, GateInv, Asking
  <2>. QED BY <2>1, <2>2
<1>5. OneHolder'
  BY <1>1, <1>4 DEF OneHolder
<1>6. Asking'
  BY <1>1, CallAssumption DEF GateInv, Asking
<1>7. ExecutesOnce' /\ RefusedNeverRuns'
  BY <1>1 DEF GateInv, ExecutesOnce, RefusedNeverRuns
<1>. QED BY <1>5, <1>6, <1>7 DEF GateInv

LEMMA TurnGate ==
  ASSUME TypeOK, CoinInv, GateInv, TurnStep \/ EndTurn \/ LeaveRun
  PROVE  GateInv'
<1>. USE DEF rowVars, turnVars, httpVars, taskVars, envVars, histVars
<1>0. gated = pending /\ (pending \in Artefact => turn \notin {"thinking", "calling", "marking"})
  BY DEF GateInv, Asking
<1>2. CASE Register BY <1>2, GateQuiet DEF Register, Held, Undecided
<1>3. CASE ReceiveYes BY <1>0, <1>3, GateQuiet DEF ReceiveYes, Held, Undecided
<1>4. CASE ReceiveNo BY <1>0, <1>4, GateQuiet DEF ReceiveNo, Resumed, Held, Undecided
<1>5. CASE Timeout BY <1>5, GateQuiet DEF Timeout, Held, Undecided
<1>6. CASE Forget BY <1>6, GateQuiet DEF Forget, Held, Undecided
<1>7. CASE TimeoutDecide
  <2>1. CASE Undecided
    BY <1>7, <2>1, GateRefuse DEF TimeoutDecide, Undecided, Held
  <2>2. CASE ~Undecided
    BY <1>0, <1>7, <2>2, GateQuiet DEF TimeoutDecide, Undecided, Held, Resumed
  <2>. QED BY <2>1, <2>2
<1>8. CASE TimeoutFinish BY <1>8, GateQuiet DEF TimeoutFinish, Held, Undecided
<1>9. CASE TurnRelease
  BY <1>0, <1>9, GateQuiet DEF TurnRelease, Resumed, Held, Undecided
<1>10. CASE CallApproved
  <2>1. /\ delivery \in Approvals /\ pending \notin Artefact
        /\ approve[delivery] = "done" /\ task[delivery] = "none"
    BY <1>0, <1>10 DEF CallApproved, CoinInv, TurnHasCoin, WithTurn, WithRequest
  <2>2. CASE Performed(delivery, gated)
    BY <1>0, <1>10, <2>1, <2>2, GatePerform DEF CallApproved, Held
  <2>3. CASE UNCHANGED histVars
    BY <1>10, <2>1, <2>3, GateQuiet DEF CallApproved, Held, Undecided
  <2>. QED BY <1>10, <2>2, <2>3 DEF CallApproved
<1>11. CASE MarkRunning BY <1>0, <1>11, GateQuiet DEF MarkRunning, Held, Undecided
<1>12. CASE ExecuteArtefact BY <1>12, GateQuiet DEF ExecuteArtefact, Held, Undecided
<1>13. CASE ArtefactFinish BY <1>13, GateQuiet DEF ArtefactFinish, Held, Undecided
<1>14. CASE EndTurn BY <1>14, GateQuiet DEF EndTurn, Held, Undecided
<1>15. CASE LeaveRun BY <1>15, GateQuiet DEF LeaveRun, Held, Undecided
<1>. QED
  BY <1>2, <1>3, <1>4, <1>5, <1>6, <1>7, <1>8, <1>9, <1>10, <1>11,
     <1>12, <1>13, <1>14, <1>15 DEF TurnStep

LEMMA HandlerGate ==
  ASSUME TypeOK, CoinInv, GateInv,
         \/ \E r \in Approvals, c \in Calls : ApproveClaim(r, c)
         \/ \E d \in Declines : DeclineClaim(d)
         \/ \E k \in Cancels : CancelToken(k)
         \/ HandlerStep \/ SweepExpired
  PROVE  GateInv'
<1>. USE DEF rowVars, turnVars, httpVars, taskVars, envVars, histVars
<1>0. pending \in Artefact => turn \notin {"thinking", "calling", "marking"}
  BY DEF GateInv, Asking
<1>1. ASSUME NEW r \in Approvals, NEW c \in Calls, ApproveClaim(r, c) PROVE GateInv'
  <2>1. CASE Undecided
    <3>1. /\ ~Undecided' /\ UNCHANGED <<turn, pending, gated, asked, did, refused>>
          /\ \A s \in Approvals : s # r => (Held(s)' <=> Held(s))
      BY <1>1, <2>1 DEF ApproveClaim, Undecided, Held, TypeOK
    <3>2. pending # NoCall /\ (pending \notin Artefact => ~Disposed)
      BY <2>1 DEF GateInv, OneHolder, Asking, Idle
    <3>3. OneHolder'
      BY <2>1, <3>1, <3>2 DEF GateInv, OneHolder, Disposed
    <3>4. Asking'
      BY <3>1, <3>2 DEF GateInv, Asking
    <3>5. ExecutesOnce' /\ RefusedNeverRuns'
      BY <3>1 DEF GateInv, ExecutesOnce, RefusedNeverRuns
    <3>. QED BY <3>3, <3>4, <3>5 DEF GateInv
  <2>2. CASE ~Undecided
    BY <1>0, <1>1, <2>2, GateQuiet DEF ApproveClaim, Undecided, Held, TypeOK
  <2>. QED BY <2>1, <2>2
<1>2. ASSUME NEW r \in Approvals, ApproveResolve(r) PROVE GateInv'
  BY <1>0, <1>2, GateQuiet DEF ApproveResolve, Resolve, Held, Undecided, TypeOK
<1>3. ASSUME NEW r \in Approvals, ApproveEnqueue(r) PROVE GateInv'
  BY <1>0, <1>3, GateQuiet DEF ApproveEnqueue, Held, Undecided, TypeOK
<1>4. ASSUME NEW d \in Declines, DeclineClaim(d) PROVE GateInv'
  BY <1>0, <1>4, GateRefuse DEF DeclineClaim, Held, Undecided
<1>5. ASSUME NEW d \in Declines, DeclineResolve(d) PROVE GateInv'
  BY <1>0, <1>5, GateQuiet DEF DeclineResolve, Resolve, Held, Undecided
<1>6. ASSUME NEW d \in Declines, DeclineFinish(d) PROVE GateInv'
  BY <1>0, <1>6, GateQuiet DEF DeclineFinish, Held, Undecided
<1>7. ASSUME NEW d \in Declines, DeclineRelease(d) PROVE GateInv'
  BY <1>0, <1>7, GateQuiet DEF DeclineRelease, Held, Undecided
<1>8. ASSUME NEW k \in Cancels, CancelToken(k) PROVE GateInv'
  BY <1>0, <1>8, GateQuiet DEF CancelToken, Held, Undecided
<1>9. ASSUME NEW k \in Cancels, CancelFlip(k) PROVE GateInv'
  BY <1>0, <1>9, GateQuiet DEF CancelFlip, Held, Undecided
<1>10. ASSUME NEW k \in Cancels, CancelResolve(k) PROVE GateInv'
  BY <1>0, <1>10, GateQuiet DEF CancelResolve, Resolve, Held, Undecided
<1>11. CASE SweepExpired
  BY <1>0, <1>11, GateRefuse DEF SweepExpired, Held, Undecided
<1>. QED
  BY <1>1, <1>2, <1>3, <1>4, <1>5, <1>6, <1>7, <1>8, <1>9, <1>10, <1>11
     DEF HandlerStep

LEMMA ResumeGate ==
  ASSUME TypeOK, CoinInv, GateInv, NEW r \in Approvals, ResumeStep(r)
  PROVE  GateInv'
<1>. USE DEF rowVars, turnVars, httpVars, taskVars, envVars, histVars
<1>0. pending \in Artefact => turn \notin {"thinking", "calling", "marking"}
  BY DEF GateInv, Asking
<1>9. task[r] # "none" => approve[r] = "done" /\ delivery # r
  BY DEF CoinInv, WithRequest, WithTurn
<1>1. CASE ResumeRead(r)
  BY <1>0, <1>1, GateQuiet DEF ResumeRead, Held, Undecided, TypeOK
<1>2. CASE ResumePerform(r)
  BY <1>2, <1>9, GatePerform DEF ResumePerform, Held, TypeOK
<1>3. CASE ResumeRefuse(r)
  BY <1>0, <1>3, GateQuiet DEF ResumeRefuse, Held, Undecided, TypeOK
<1>4. CASE ResumeDefer(r)
  BY <1>0, <1>4, GateQuiet DEF ResumeDefer, Held, Undecided, TypeOK
<1>5. CASE ResumeError(r)
  BY <1>0, <1>5, GateQuiet DEF ResumeError, Held, Undecided, TypeOK
<1>6. CASE ResumeFinish(r)
  BY <1>0, <1>6, GateQuiet DEF ResumeFinish, Held, Undecided, TypeOK
<1>7. CASE ResumeRelease(r)
  BY <1>0, <1>7, GateQuiet DEF ResumeRelease, Held, Undecided, TypeOK
<1>8. CASE ResumePark(r)
  <2>1. /\ Held(r) /\ UNCHANGED <<turn, pending, gated, asked, did, refused>>
        /\ \A s \in Approvals : Held(s)' => Held(s) /\ s # r
    BY <1>8, <1>9 DEF ResumePark, Held, TypeOK
  <2>2. pending # NoCall /\ (pending \notin Artefact => ~Disposed)
    BY <2>1 DEF GateInv, OneHolder, Asking, Idle
  <2>3. OneHolder'
    BY <2>1, <2>2 DEF GateInv, OneHolder, Disposed
  <2>4. Asking'
    BY <2>1, <2>2 DEF GateInv, Asking
  <2>5. ExecutesOnce' /\ RefusedNeverRuns'
    BY <2>1 DEF GateInv, ExecutesOnce, RefusedNeverRuns
  <2>. QED BY <2>3, <2>4, <2>5 DEF GateInv
<1>. QED
  BY <1>1, <1>2, <1>3, <1>4, <1>5, <1>6, <1>7, <1>8 DEF ResumeStep

LEMMA EnvironmentGate ==
  ASSUME TypeOK, GateInv, TokenExpires \/ DeviceFlips \/ Crash
  PROVE  GateInv'
<1>. USE DEF rowVars, turnVars, httpVars, taskVars, envVars, histVars
<1>0. pending \in Artefact => turn \notin {"thinking", "calling", "marking"}
  BY DEF GateInv, Asking
<1>1. CASE TokenExpires
  BY <1>0, <1>1, GateQuiet DEF TokenExpires, Held, Undecided
<1>2. CASE DeviceFlips
  BY <1>0, <1>2, GateQuiet DEF DeviceFlips, Held, Undecided
<1>3. CASE Crash
  <2>1. \A r \in Approvals : Held(r)' => Held(r)
    BY <1>3 DEF Crash, Held, TypeOK
  <2>. QED BY <1>3, <2>1, GateQuiet DEF Crash, Undecided
<1>. QED BY <1>1, <1>2, <1>3

LEMMA GateInit == Init => GateInv
<1>. SUFFICES ASSUME Init PROVE GateInv
  OBVIOUS
<1>1. Idle
  BY DEF Init, Idle, Held, Undecided
<1>2. Asking
  BY <1>1 DEF Init, Asking
<1>3. OneHolder /\ ExecutesOnce /\ RefusedNeverRuns
  BY <1>1 DEF Init, OneHolder, Idle, ExecutesOnce, RefusedNeverRuns
<1>. QED BY <1>2, <1>3 DEF GateInv

LEMMA GateStep ==
  ASSUME SingleTool
  PROVE  TypeOK /\ CoinInv /\ GateInv /\ [Next]_vars => GateInv'
<1>. SUFFICES ASSUME TypeOK, CoinInv, GateInv, [Next]_vars PROVE GateInv'
  OBVIOUS
<1>1. CASE \E c \in Calls : RequestApproval(c)
  BY <1>1, GateAsks
<1>2. CASE TurnStep \/ EndTurn \/ LeaveRun
  BY <1>2, TurnGate
<1>3. CASE \/ \E r \in Approvals, c \in Calls : ApproveClaim(r, c)
           \/ \E d \in Declines : DeclineClaim(d)
           \/ \E k \in Cancels : CancelToken(k)
           \/ HandlerStep \/ SweepExpired
  BY <1>3, HandlerGate
<1>4. CASE \E r \in Approvals : ResumeStep(r)
  BY <1>4, ResumeGate
<1>5. CASE TokenExpires \/ DeviceFlips \/ Crash
  BY <1>5, EnvironmentGate
<1>6. CASE UNCHANGED vars
  BY <1>6, GateQuiet DEF vars, rowVars, turnVars, httpVars, taskVars, envVars,
     histVars, Held, Undecided, GateInv, Asking
<1>. QED BY <1>1, <1>2, <1>3, <1>4, <1>5, <1>6 DEF Next

\* A run that gates a single tool call performs it at most once, however many
\* approvals it is given: by the turn, by resume tasks that park it again, or
\* after a restart.  With a second tool call this is false.
THEOREM OneToolOnce ==
  ASSUME SingleTool
  PROVE  Spec => []ExecutesOnce
<1>1. GateInv => ExecutesOnce
  BY DEF GateInv
<1>. QED BY <1>1, InitInv, Inductive, GateInit, GateStep, PTL DEF Spec

\* Nor does it perform a call that was declined, timed out or was swept.
THEOREM NothingAfterARefusal ==
  ASSUME SingleTool
  PROVE  Spec => []RefusedNeverRuns
<1>1. GateInv => RefusedNeverRuns
  BY DEF GateInv
<1>. QED BY <1>1, InitInv, Inductive, GateInit, GateStep, PTL DEF Spec

=============================================================================
