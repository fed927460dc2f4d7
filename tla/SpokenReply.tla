---------------------------- MODULE SpokenReply ----------------------------
(***************************************************************************)
(* The spoken replies of a live voice session                              *)
(* (src/backend/src/voice/session.rs): a turn's own task makes the reply,  *)
(* drain_loop cuts it into clauses and watches for silence, tts_loop has   *)
(* them synthesised and hands the clips over, and the speaker may talk     *)
(* over it all, after which the next turn may begin before the last one's  *)
(* tasks have ended.  Clips are handed over whole (AudioDelivery::Clip).   *)
(***************************************************************************)
EXTENDS Naturals, Sequences

CONSTANTS
  MaxReplies,  \* bound on the turns of the session
  MaxClauses   \* bound on the clauses of a reply

ASSUME ReplyAssumption == MaxReplies \in Nat /\ MaxClauses \in Nat

Replies == 1..MaxReplies
Nobody == 0

VARIABLES
  ear,          \* the capture loop: "listening", in start_turn ("starting") or
                \* in barge_in ("barging")
  vstate,       \* "listening", "thinking" or "speaking"
  currentTurn,  \* the reply that is current
  feed,         \* [Replies -> the tap: "none", "open", "closing" (the turn has sent
                \* its last frame and has yet to return), "shut" (drain_loop ended)]
  said,         \* [Replies -> clauses generated]
  speech,       \* [Replies -> the commands for tts_loop]
  tts,          \* [Replies -> tts_loop: "off", "waiting", "synthesising", "ready"
                \* to hand over a clip, "ending"]
  speaking,     \* [Replies -> the gate: may it speak?]
  spoke,        \* [Replies -> has it begun to?]
  \* History.
  stale         \* [Replies -> clips handed over since it was cut, counted from 1;
                \* 0 when it was not]

replyVars == <<ear, vstate, currentTurn, feed, said, speech, tts, speaking, spoke, stale>>

ReplyInit ==
  /\ ear = "listening" /\ vstate = "listening"
  /\ currentTurn = Nobody
  /\ feed = [r \in Replies |-> "none"]
  /\ said = [r \in Replies |-> 0]
  /\ speech = [r \in Replies |-> <<>>]
  /\ tts = [r \in Replies |-> "off"]
  /\ speaking = [r \in Replies |-> FALSE] /\ spoke = [r \in Replies |-> FALSE]
  /\ stale = [r \in Replies |-> 0]

-----------------------------------------------------------------------------
(* The capture loop.                                                       *)

\* Speech has ended in a turn: start_turn makes it current,
StartReply(r) ==
  /\ ear = "listening" /\ currentTurn = Nobody
  /\ ~speaking[r] /\ feed[r] = "none"
  /\ \A q \in 1..(r - 1) : feed[q] # "none"
  /\ currentTurn' = r
  /\ speaking' = [speaking EXCEPT ![r] = TRUE]
  /\ ear' = "starting"
  /\ UNCHANGED <<vstate, feed, said, speech, tts, spoke, stale>>

\* sets the state and spawns its tasks.
SpawnReply(r) ==
  /\ ear = "starting"
  /\ speaking[r] /\ feed[r] = "none"
  /\ vstate' = "thinking"
  /\ feed' = [feed EXCEPT ![r] = "open"]
  /\ tts' = [tts EXCEPT ![r] = "waiting"]
  /\ ear' = "listening"
  /\ UNCHANGED <<currentTurn, said, speech, speaking, spoke, stale>>

\* tts_abort wakes a synthesis that waits for its stream, and reaches nothing else, a
\* stream that is still being opened included.
Wakes(r) ==
  \/ UNCHANGED tts
  \/ tts[r] = "synthesising" /\ tts' = [tts EXCEPT ![r] = "waiting"]

\* Mutant: the two are woken, and the gate stays open.
WakesBoth(r) == Wakes(r) /\ UNCHANGED speaking

\* signal_barge_in; the turn, which may end at any time, is told to.
SignalBargeIn(r) ==
  /\ Wakes(r)
  /\ speaking' = [speaking EXCEPT ![r] = FALSE]

\* Sustained loud speech while the assistant speaks: barge_in,
TalkOverReply ==
  /\ ear = "listening" /\ currentTurn # Nobody /\ vstate = "speaking"
  /\ currentTurn' = Nobody
  /\ SignalBargeIn(currentTurn)
  /\ stale' = [stale EXCEPT ![currentTurn] = 1]
  /\ ear' = "barging"
  /\ UNCHANGED <<vstate, feed, said, speech, spoke>>

\* which sets the state after its audit.
ListenAgain ==
  /\ ear = "barging"
  /\ vstate' = "listening"
  /\ ear' = "listening"
  /\ UNCHANGED <<currentTurn, feed, said, speech, tts, speaking, spoke, stale>>

-----------------------------------------------------------------------------
(* The turn's task and drain_loop.                                         *)

\* A command for tts_loop, or for nobody once it takes no more.
Emit(r, command) ==
  speech' = IF tts[r] \in {"off", "ending"} THEN speech
            ELSE [speech EXCEPT ![r] = Append(@, command)]

Generate(r) ==
  /\ feed[r] = "open" /\ said[r] < MaxClauses
  /\ said' = [said EXCEPT ![r] = @ + 1]
  /\ Emit(r, "clause")
  /\ UNCHANGED <<ear, vstate, currentTurn, feed, tts, speaking, spoke, stale>>

\* The last frame: the reply is complete, was interrupted or failed.
Conclude(r) ==
  /\ feed[r] = "open"
  /\ \E command \in {"end", "stop"} : Emit(r, command)
  /\ feed' = [feed EXCEPT ![r] = "closing"]
  /\ UNCHANGED <<ear, vstate, currentTurn, said, tts, speaking, spoke, stale>>

\* run_turn returns, with or without a last frame, and the tap closes.
Return(r) ==
  /\ feed[r] \in {"open", "closing"}
  /\ feed' = [feed EXCEPT ![r] = "shut"]
  /\ UNCHANGED <<ear, vstate, currentTurn, said, speech, tts, speaking, spoke, stale>>

\* Whatever reply is current is woken, gate and all left as they are.
CancelCurrent == IF currentTurn = Nobody THEN UNCHANGED tts ELSE Wakes(currentTurn)

\* Mutant: the turn is cancelled, and the loop waits on for its last frame.
WatchdogWaits(r) ==
  /\ feed[r] \in {"open", "closing"}
  /\ CancelCurrent
  /\ UNCHANGED <<ear, vstate, currentTurn, feed, said, speech, speaking, spoke, stale>>

\* No frame for TURN_WATCHDOG_SECS.
Watchdog(r) ==
  /\ feed[r] \in {"open", "closing"}
  /\ CancelCurrent
  /\ Emit(r, "stop")
  /\ feed' = [feed EXCEPT ![r] = "shut"]
  /\ UNCHANGED <<ear, vstate, currentTurn, said, speaking, spoke, stale>>

-----------------------------------------------------------------------------
(* tts_loop and speak_clause.                                              *)

\* A clause is skipped once the gate is closed; the first one changes the state.
Speak(r) ==
  /\ tts[r] = "waiting" /\ speech[r] # <<>> /\ Head(speech[r]) = "clause"
  /\ speech' = [speech EXCEPT ![r] = Tail(@)]
  /\ IF speaking[r]
     THEN /\ tts' = [tts EXCEPT ![r] = "synthesising"]
          /\ spoke' = [spoke EXCEPT ![r] = TRUE]
          /\ vstate' = IF spoke[r] THEN vstate ELSE "speaking"
     ELSE UNCHANGED <<tts, spoke, vstate>>
  /\ UNCHANGED <<ear, currentTurn, feed, said, speaking, stale>>

\* The clip is whole and the gate is asked again, or there is no clip.
Synthesised(r) ==
  /\ tts[r] = "synthesising"
  /\ \/ speaking[r] /\ tts' = [tts EXCEPT ![r] = "ready"]
     \/ tts' = [tts EXCEPT ![r] = "waiting"]
  /\ UNCHANGED <<ear, vstate, currentTurn, feed, said, speech, speaking, spoke, stale>>

HandOver(r) ==
  /\ tts[r] = "ready"
  /\ tts' = [tts EXCEPT ![r] = "waiting"]
  /\ stale' = [stale EXCEPT ![r] = IF @ = 0 THEN 0 ELSE @ + 1]
  /\ UNCHANGED <<ear, vstate, currentTurn, feed, said, speech, speaking, spoke>>

\* End, Stop or nothing more to come: finish_turn takes whatever turn is current off,
FinishReply(r) ==
  /\ tts[r] = "waiting"
  /\ IF speech[r] = <<>> THEN feed[r] = "shut" ELSE Head(speech[r]) # "clause"
  /\ speech' = [speech EXCEPT ![r] = <<>>]
  /\ tts' = [tts EXCEPT ![r] = "ending"]
  /\ currentTurn' = Nobody
  /\ UNCHANGED <<ear, vstate, feed, said, speaking, spoke, stale>>

\* and sets the state.
ReplyOver(r) ==
  /\ tts[r] = "ending"
  /\ tts' = [tts EXCEPT ![r] = "off"]
  /\ vstate' = "listening"
  /\ UNCHANGED <<ear, currentTurn, feed, said, speech, speaking, spoke, stale>>

-----------------------------------------------------------------------------
ReplyNext ==
  \/ TalkOverReply \/ ListenAgain
  \/ \E r \in Replies :
       \/ StartReply(r) \/ SpawnReply(r)
       \/ Generate(r) \/ Conclude(r) \/ Return(r) \/ Watchdog(r)
       \/ Speak(r) \/ Synthesised(r) \/ HandOver(r) \/ FinishReply(r) \/ ReplyOver(r)

\* The session's own tasks run.  The turn's task and a synthesis may hang.
ReplyFairness == \A r \in Replies :
  /\ WF_replyVars(SpawnReply(r))
  /\ WF_replyVars(Watchdog(r))
  /\ WF_replyVars(Speak(r)) /\ WF_replyVars(FinishReply(r)) /\ WF_replyVars(ReplyOver(r))

ReplySpec == ReplyInit /\ [][ReplyNext]_replyVars /\ ReplyFairness

-----------------------------------------------------------------------------
(* Properties.                                                             *)

ReplyTypeOK ==
  /\ ear \in {"listening", "starting", "barging"}
  /\ vstate \in {"listening", "thinking", "speaking"}
  /\ currentTurn \in Replies \cup {Nobody}
  /\ feed \in [Replies -> {"none", "open", "closing", "shut"}]
  /\ said \in [Replies -> 0..MaxClauses]
  /\ speech \in [Replies -> Seq({"clause", "end", "stop"})]
  /\ tts \in [Replies -> {"off", "waiting", "synthesising", "ready", "ending"}]
  /\ speaking \in [Replies -> BOOLEAN] /\ spoke \in [Replies -> BOOLEAN]
  /\ stale \in [Replies -> Nat]

\* A cut reply falls silent: at most the clip that had passed the gate is handed over
\* once the speaker has talked over it, however many clauses are on their way and
\* wherever the synthesis stands ("letting TTS run on", signal_barge_in).
AtMostOneStaleClip == \A r \in Replies : stale[r] <= 2

\* A stuck turn "must never strand the UI on Thinking" (TURN_WATCHDOG_SECS), whatever
\* becomes of the turn's task and however the tasks of two turns overlap.
ThinkingIsLeft == vstate = "thinking" ~> vstate # "thinking"

\* "Cancel the in-flight reply" (barge_in): the reply somebody may hear is the one an
\* interruption would cancel.
HeardIsCurrent == \A r \in Replies :
  tts[r] \in {"synthesising", "ready"} /\ speaking[r] => currentTurn = r
=============================================================================
