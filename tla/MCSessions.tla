----------------------------- MODULE MCSessions -----------------------------
(***************************************************************************)
(* What hangs on the sockets of a user, side by side: the calls of turns   *)
(* to the user's machines, the searches ahead of a live voice session and  *)
(* its spoken replies.  They share no state that is modelled (the two of   *)
(* the voice session share current_turn, which each has for itself), so a  *)
(* behaviour is one of theirs: part says whose, and the others stand still.*)
(***************************************************************************)
EXTENDS DeviceCalls, SpeculativeSearch, SpokenReply

VARIABLE part

sessionsVars == <<part, deviceVars, searchVars, replyVars>>

SessionsInit ==
  /\ part \in {"machines", "search", "speech"}
  /\ DeviceInit /\ SearchInit /\ ReplyInit

SessionsNext ==
  \/ part = "machines" /\ DeviceNext /\ UNCHANGED <<part, searchVars, replyVars>>
  \/ part = "search" /\ SearchNext /\ UNCHANGED <<part, deviceVars, replyVars>>
  \/ part = "speech" /\ ReplyNext /\ UNCHANGED <<part, deviceVars, searchVars>>

\* DeviceFairness and ReplyFairness, each in its part.
SessionsFairness ==
  /\ \A s \in Sockets :
       /\ WF_deviceVars(part = "machines" /\ Greet(s))
       /\ WF_deviceVars(part = "machines" /\ ReaderEnds(s))
  /\ \A c \in Interactive : WF_deviceVars(part = "machines" /\ SocketClosed(c))
  /\ \A r \in Replies :
       /\ WF_replyVars(part = "speech" /\ SpawnReply(r))
       /\ WF_replyVars(part = "speech" /\ Watchdog(r))
       /\ WF_replyVars(part = "speech" /\ Speak(r))
       /\ WF_replyVars(part = "speech" /\ FinishReply(r))
       /\ WF_replyVars(part = "speech" /\ ReplyOver(r))

SessionsSpec == SessionsInit /\ [][SessionsNext]_sessionsVars /\ SessionsFairness
=============================================================================
