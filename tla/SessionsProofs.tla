--------------------------- MODULE SessionsProofs ---------------------------
(***************************************************************************)
(* What hangs on a user's sockets, for any number of sockets, calls,       *)
(* turns, searches and replies: a verdict on a call to a machine is true,  *)
(* a search is given to no turn but its own, and a reply that was cut      *)
(* falls silent.                                                           *)
(*                                                                         *)
(* The arguments.  A call that was not handed off is in no queue, on no    *)
(* wire and not on the replay list (Unsent).  The searches of an epoch are *)
(* all of utterances that no planned turn came from (Pooling), so closing  *)
(* the epoch with the plan of a turn shuts out whatever is under way.  A   *)
(* reply is cut with its gate closed, after which no clip becomes ready.   *)
(***************************************************************************)
EXTENDS DeviceCalls, SpeculativeSearch, SpokenReply, TLAPS

-----------------------------------------------------------------------------
(* Calls to machines: the invariant. *)

\* Each socket of the hub is somebody's.
Registered == \A s \in hub : owner[s] \in Machines

\* The calls some machine was given or may be.
Underway ==
  {c \in Calls :
     \/ c \in ToSet(buffer) \/ reached[c] # {}
     \/ \E s \in Sockets : c \in ToSet(queue[s]) \cup ToSet(wire[s])}

\* A call that was not handed off is nowhere.
Unsent == \A c \in Calls : call[c] \in {"idle", "thinking", "undelivered"} => c \notin Underway

\* The folder's machine does not refuse a call, and no other one answers it.
Answers ==
  /\ \A a \in ToSet(outbound[Home]) : a.kind = "done"
  /\ \A c \in Calls :
       /\ c \in waiters => call[c] = "waiting"
       /\ call[c] \in {"replied", "answered"} => reply[c] = "done"

DeviceInv == DeviceTypeOK /\ Registered /\ Unsent /\ Answers

LEMMA DeviceNames ==
  /\ Home \in Machines /\ Interactive \subseteq Calls
  /\ NoMachine \notin Machines /\ Hello \notin Calls
  /\ MaxRestarts \in Nat /\ 0 \notin Sockets
BY DeviceAssumption DEF Sockets

-----------------------------------------------------------------------------
(* What is in a sequence. *)

LEMMA EmptyContents == \A F : <<>> \in Seq(F) /\ ToSet(<<>>) = {}
BY DEF ToSet

LEMMA AppendContents ==
  ASSUME NEW F, NEW q \in Seq(F), NEW e \in F
  PROVE  Append(q, e) \in Seq(F) /\ ToSet(Append(q, e)) \subseteq ToSet(q) \cup {e}
BY DEF ToSet

LEMMA HeadContents ==
  ASSUME NEW F, NEW q \in Seq(F), q # <<>>
  PROVE  /\ Head(q) \in F /\ Head(q) \in ToSet(q)
         /\ Tail(q) \in Seq(F) /\ ToSet(Tail(q)) \subseteq ToSet(q)
<1>1. Len(q) > 0
  OBVIOUS
<1>. QED
  BY <1>1 DEF ToSet

LEMMA JoinContents ==
  ASSUME NEW F, NEW q \in Seq(F), NEW p \in Seq(F)
  PROVE  q \o p \in Seq(F) /\ ToSet(q \o p) \subseteq ToSet(q) \cup ToSet(p)
BY DEF ToSet

LEMMA CutContents ==
  ASSUME NEW F, NEW q \in Seq(F), NEW n \in 0 .. Len(q)
  PROVE  /\ SubSeq(q, n + 1, Len(q)) \in Seq(F)
         /\ ToSet(SubSeq(q, n + 1, Len(q))) \subseteq ToSet(q)
BY DEF ToSet

-----------------------------------------------------------------------------
(* Types. *)

Answered == [kind : {"done", "refused"}, call : Calls]

\* What a turn does to the state of its call.
LEMMA CallTypes ==
  ASSUME DeviceTypeOK, NEW c \in Calls,
         \/ Waits(c)
         \/ \E how \in {"answered", "undelivered", "failed"} : Ends(c, how)
  PROVE  /\ call' \in [Calls -> {"idle", "thinking"} \cup Pending \cup Over]
         /\ waiters' \subseteq Calls
         /\ reply' \in [Calls -> {"none", "done", "refused"}]
         /\ stop' \in [Calls -> {"no", "heard", "unheard"}]
<1>1. CASE Waits(c)
  BY <1>1 DEF Waits, DeviceTypeOK, Pending
<1>2. ASSUME NEW how \in {"answered", "undelivered", "failed"}, Ends(c, how)
      PROVE  /\ call' \in [Calls -> {"idle", "thinking"} \cup Pending \cup Over]
             /\ waiters' \subseteq Calls
             /\ reply' \in [Calls -> {"none", "done", "refused"}]
             /\ stop' \in [Calls -> {"no", "heard", "unheard"}]
  BY <1>2 DEF Ends, DeviceTypeOK, Over
<1>. QED
  BY <1>1, <1>2

LEMMA SocketTypes ==
  ASSUME DeviceTypeOK, NEW s \in Sockets,
         Greet(s) \/ Write(s) \/ WriterFails(s) \/ ReaderEnds(s)
  PROVE  DeviceTypeOK'
<1>1. CASE Greet(s)
  <2>1. wire' \in [Sockets -> Seq(Calls \cup {Hello})]
    <3>1. buffer \in Seq(Calls \cup {Hello}) /\ <<Hello>> \in Seq(Calls \cup {Hello})
          /\ <<>> \in Seq(Calls \cup {Hello}) /\ wire[s] \in Seq(Calls \cup {Hello})
      BY EmptyContents DEF DeviceTypeOK
    <3>2. wire[s] \o <<Hello>> \o (IF writer[s] = "resumed" THEN buffer ELSE <<>>)
            \in Seq(Calls \cup {Hello})
      BY <3>1
    <3>. QED
      BY <1>1, <3>2 DEF Greet, DeviceTypeOK
  <2>. QED
    BY <1>1, <2>1 DEF Greet, DeviceTypeOK, turnVars
<1>2. CASE Write(s)
  <2>1. queue[s] \in Seq(Calls) /\ wire[s] \in Seq(Calls \cup {Hello})
    BY DEF DeviceTypeOK
  <2>2. Head(queue[s]) \in Calls /\ Tail(queue[s]) \in Seq(Calls)
    BY <1>2, <2>1, HeadContents DEF Write
  <2>3. Append(wire[s], Head(queue[s])) \in Seq(Calls \cup {Hello})
        /\ Append(buffer, Head(queue[s])) \in Seq(Calls)
    BY <2>1, <2>2, AppendContents DEF DeviceTypeOK
  <2>4. wire' \in [Sockets -> Seq(Calls \cup {Hello})] /\ queue' \in [Sockets -> Seq(Calls)]
        /\ buffer' \in Seq(Calls)
    BY <1>2, <2>2, <2>3 DEF Write, DeviceTypeOK
  <2>5. writer' \in [Sockets -> {"none", "new", "resumed", "up", "gone"}]
    BY <1>2 DEF Write, DeviceTypeOK
  <2>. QED
    BY <1>2, <2>4, <2>5 DEF Write, DeviceTypeOK, turnVars
<1>3. CASE WriterFails(s)
  BY <1>3, EmptyContents DEF WriterFails, DeviceTypeOK, turnVars, clientVars
<1>4. CASE ReaderEnds(s)
  BY <1>4, EmptyContents DEF ReaderEnds, DeviceTypeOK, turnVars, clientVars
<1>. QED
  BY <1>1, <1>2, <1>3, <1>4

LEMMA TurnTypes ==
  ASSUME DeviceTypeOK, NEW c \in Calls,
         \/ \E s \in Sockets : TurnBegins(c, s) \/ Stop(s, c)
         \/ JobBegins(c) \/ HandOffToTurn(c) \/ HandOffToDevice(c)
         \/ Receive(c) \/ SocketClosed(c) \/ WentOffline(c) \/ GiveUp(c)
  PROVE  DeviceTypeOK'
<1>1. ASSUME NEW s \in Sockets, TurnBegins(c, s) PROVE DeviceTypeOK'
  BY <1>1 DEF TurnBegins, DeviceTypeOK, hubVars, clientVars
<1>2. ASSUME NEW s \in Sockets, Stop(s, c) PROVE DeviceTypeOK'
  BY <1>2 DEF Stop, DeviceTypeOK, hubVars, turnVars, clientVars
<1>3. CASE JobBegins(c)
  BY <1>3 DEF JobBegins, DeviceTypeOK, hubVars, clientVars
<1>4. CASE HandOffToTurn(c) \/ HandOffToDevice(c)
  <2>1. \A s \in Sockets : Append(queue[s], c) \in Seq(Calls)
    BY AppendContents DEF DeviceTypeOK
  <2>2. \/ queue' = queue \/ \E s : queue' = [queue EXCEPT ![s] = Append(@, c)]
    BY <1>4 DEF HandOffToTurn, HandOffToDevice
  <2>4. queue' \in [Sockets -> Seq(Calls)]
    <3>1. CASE queue' = queue
      BY <3>1 DEF DeviceTypeOK
    <3>2. ASSUME NEW s, queue' = [queue EXCEPT ![s] = Append(@, c)]
          PROVE  queue' \in [Sockets -> Seq(Calls)]
      <4>1. CASE s \in Sockets
        BY <2>1, <3>2, <4>1 DEF DeviceTypeOK
      <4>2. CASE s \notin Sockets
        BY <3>2, <4>2 DEF DeviceTypeOK
      <4>. QED
        BY <4>1, <4>2
    <3>. QED
      BY <2>2, <3>1, <3>2
  <2>3. Waits(c) \/ Ends(c, "undelivered")
    BY <1>4 DEF HandOffToTurn, HandOffToDevice
  <2>. QED
    BY <1>4, <2>3, <2>4, CallTypes DEF HandOffToTurn, HandOffToDevice, DeviceTypeOK, clientVars
<1>5. CASE Receive(c) \/ SocketClosed(c) \/ WentOffline(c) \/ GiveUp(c)
  <2>1. Ends(c, "answered") \/ Ends(c, "failed")
    BY <1>5 DEF Receive, SocketClosed, WentOffline, GiveUp
  <2>2. UNCHANGED <<hubVars, carrier, clientVars, reached>>
    BY <1>5 DEF Receive, SocketClosed, WentOffline, GiveUp
  <2>. QED
    BY <2>1, <2>2, CallTypes DEF DeviceTypeOK, hubVars, clientVars
<1>. QED
  BY <1>1, <1>2, <1>3, <1>4, <1>5

LEMMA ClientTypes ==
  ASSUME DeviceTypeOK, NEW m \in Machines,
         Connect(m) \/ ConnectFails(m) \/ Read(m) \/ Cut(m) \/ ClientRestarts(m)
  PROVE  DeviceTypeOK'
<1>. USE DeviceNames
<1>1. CASE Connect(m)
  <2>1. PICK s \in Sockets :
          /\ owner' = [owner EXCEPT ![s] = m]
          /\ hub' = hub \cup {s}
          /\ writer' = [writer EXCEPT ![s] = IF token[m] THEN "resumed" ELSE "new"]
          /\ conn' = [conn EXCEPT ![m] = s]
    BY <1>1 DEF Connect
  <2>2. owner' \in [Sockets -> Machines \cup {NoMachine}] /\ hub' \subseteq Sockets
    BY <2>1 DEF DeviceTypeOK
  <2>3. writer' \in [Sockets -> {"none", "new", "resumed", "up", "gone"}]
    BY <2>1 DEF DeviceTypeOK
  <2>4. conn' \in [Machines -> Sockets \cup {0}]
    BY <2>1 DEF DeviceTypeOK
  <2>5. token' \in [Machines -> BOOLEAN]
    BY <1>1 DEF Connect, DeviceTypeOK
  <2>6. UNCHANGED <<queue, buffer, turnVars, wire, doing, outbound, restarts, reached, stop>>
    BY <1>1 DEF Connect
  <2>. QED
    BY <2>2, <2>3, <2>4, <2>5, <2>6 DEF DeviceTypeOK, turnVars
<1>2. CASE ConnectFails(m)
  BY <1>2 DEF ConnectFails, DeviceTypeOK, hubVars, turnVars
<1>3. CASE Read(m)
  <2>. DEFINE frame == Head(wire[conn[m]])
  <2>1. conn[m] \in Sockets /\ wire[conn[m]] \in Seq(Calls \cup {Hello}) /\ wire[conn[m]] # <<>>
    BY <1>3 DEF Read, DeviceTypeOK
  <2>2. frame \in Calls \cup {Hello} /\ Tail(wire[conn[m]]) \in Seq(Calls \cup {Hello})
    BY <2>1, HeadContents
  <2>3. wire' \in [Sockets -> Seq(Calls \cup {Hello})]
    BY <1>3, <2>2 DEF Read, DeviceTypeOK
  <2>4. token' \in [Machines -> BOOLEAN]
    BY <1>3 DEF Read, DeviceTypeOK
  <2>7. doing' \in [Calls -> Nat]
    BY <1>3 DEF Read, DeviceTypeOK
  <2>8. reached' \in [Calls -> SUBSET Sockets]
    BY <1>3, <2>1 DEF Read, DeviceTypeOK
  <2>5. frame \in Calls => Append(outbound[m], Answer("refused", frame)) \in Seq(Answered)
    <3>1. outbound[m] \in Seq(Answered)
      BY DEF DeviceTypeOK, Answered
    <3>2. frame \in Calls => Answer("refused", frame) \in Answered
      BY DEF Answer, Answered
    <3>. QED
      BY <3>1, <3>2, AppendContents
  <2>6. outbound' \in [Machines -> Seq(Answered)]
    BY <1>3, <2>2, <2>5 DEF Read, DeviceTypeOK, Answered
  <2>. QED
    BY <1>3, <2>3, <2>4, <2>6, <2>7, <2>8 DEF Read, DeviceTypeOK, hubVars, turnVars, Answered
<1>4. CASE Cut(m)
  <2>1. conn' \in [Machines -> Sockets \cup {0}] /\ wire' \in [Sockets -> Seq(Calls \cup {Hello})]
    BY <1>4, EmptyContents DEF Cut, Broken, DeviceTypeOK
  <2>2. PICK sent \in 0..Len(outbound[m]) :
          outbound' = [outbound EXCEPT ![m] = SubSeq(@, sent + 1, Len(@))]
    BY <1>4 DEF Cut
  <2>3. SubSeq(outbound[m], sent + 1, Len(outbound[m])) \in Seq(Answered)
    BY CutContents DEF DeviceTypeOK, Answered
  <2>4. outbound' \in [Machines -> Seq(Answered)]
    BY <2>2, <2>3 DEF DeviceTypeOK, Answered
  <2>. QED
    BY <1>4, <2>1, <2>4 DEF Cut, DeviceTypeOK, hubVars, turnVars, Answered
<1>5. CASE ClientRestarts(m)
  <2>1. conn' \in [Machines -> Sockets \cup {0}] /\ wire' \in [Sockets -> Seq(Calls \cup {Hello})]
    BY <1>5, EmptyContents DEF ClientRestarts, Broken, DeviceTypeOK
  <2>2. outbound' \in [Machines -> Seq(Answered)]
    BY <1>5, EmptyContents DEF ClientRestarts, DeviceTypeOK, Answered
  <2>3. restarts' \in 0..MaxRestarts
    BY <1>5 DEF ClientRestarts, DeviceTypeOK
  <2>4. doing' \in [Calls -> Nat]
    BY <1>5 DEF ClientRestarts, DeviceTypeOK
  <2>. QED
    BY <1>5, <2>1, <2>2, <2>3, <2>4 DEF ClientRestarts, DeviceTypeOK, hubVars, turnVars, Answered
<1>. QED
  BY <1>1, <1>2, <1>3, <1>4, <1>5

LEMMA AnswerTypes ==
  ASSUME DeviceTypeOK, Registered,
                       \/ \E s \in Sockets : Handle(s)
                       \/ \E c \in Calls : Finish(c)
                       \/ BufferExpires
  PROVE  DeviceTypeOK'
<1>. USE DeviceNames
<1>1. ASSUME NEW s \in Sockets, Handle(s) PROVE DeviceTypeOK'
  <2>. DEFINE m == owner[s]  answer == Head(outbound[m])
  <2>1. m \in Machines
    BY <1>1 DEF Handle, Registered
  <2>2. answer \in Answered /\ Tail(outbound[m]) \in Seq(Answered)
    BY <1>1, <2>1, HeadContents DEF Handle, DeviceTypeOK, Answered
  <2>3. outbound' \in [Machines -> Seq(Answered)]
    BY <1>1, <2>2 DEF Handle, DeviceTypeOK, Answered
  <2>4. answer.call \in Calls /\ answer.kind \in {"none", "done", "refused"}
    BY <2>2 DEF Answered
  <2>5. call' \in [Calls -> {"idle", "thinking"} \cup Pending \cup Over]
    BY <1>1 DEF Handle, DeviceTypeOK, Pending
  <2>6. waiters' \subseteq Calls /\ reply' \in [Calls -> {"none", "done", "refused"}]
    BY <1>1, <2>4 DEF Handle, DeviceTypeOK
  <2>. QED
    BY <1>1, <2>3, <2>5, <2>6 DEF Handle, DeviceTypeOK, hubVars, Answered
<1>2. ASSUME NEW c \in Calls, Finish(c) PROVE DeviceTypeOK'
  <2>1. Append(outbound[Home], Answer("done", c)) \in Seq(Answered)
    <3>1. outbound[Home] \in Seq(Answered)
      BY DEF DeviceTypeOK, Answered
    <3>2. Answer("done", c) \in Answered
      BY DEF Answer, Answered
    <3>. QED
      BY <3>1, <3>2, AppendContents
  <2>2. outbound' \in [Machines -> Seq(Answered)] /\ doing' \in [Calls -> Nat]
    BY <1>2, <2>1 DEF Finish, DeviceTypeOK, Answered
  <2>. QED
    BY <1>2, <2>2 DEF Finish, DeviceTypeOK, hubVars, turnVars, Answered
<1>3. CASE BufferExpires
  BY <1>3, EmptyContents DEF BufferExpires, DeviceTypeOK, turnVars, clientVars
<1>. QED
  BY <1>1, <1>2, <1>3

LEMMA DeviceTypes ==
  ASSUME DeviceTypeOK, Registered, [DeviceNext]_deviceVars
  PROVE  DeviceTypeOK'
<1>1. CASE UNCHANGED deviceVars
  BY <1>1 DEF deviceVars, hubVars, turnVars, clientVars, DeviceTypeOK
<1>. QED
  BY <1>1, SocketTypes, TurnTypes, ClientTypes, AnswerTypes DEF DeviceNext

-----------------------------------------------------------------------------
(* Where the frames go. *)

Frames == <<queue, buffer, wire, reached>>

\* Sockets and clients pass on what is underway, or lose it.
LEMMA SocketFrames ==
  ASSUME DeviceTypeOK, NEW s \in Sockets,
         Greet(s) \/ Write(s) \/ WriterFails(s) \/ ReaderEnds(s)
  PROVE  Underway' \subseteq Underway
<1>. USE DeviceNames DEF Underway
<1>1. CASE Greet(s)
  <2>1. \/ wire' = wire
        \/ wire' = [wire EXCEPT ![s] = @ \o <<Hello>> \o IF writer[s] = "resumed" THEN buffer ELSE <<>>]
    BY <1>1 DEF Greet
  <2>2. ToSet(wire[s] \o <<Hello>> \o IF writer[s] = "resumed" THEN buffer ELSE <<>>)
          \subseteq ToSet(wire[s]) \cup {Hello} \cup ToSet(buffer)
    <3>1. buffer \in Seq(Calls \cup {Hello}) /\ <<Hello>> \in Seq(Calls \cup {Hello})
          /\ <<>> \in Seq(Calls \cup {Hello}) /\ wire[s] \in Seq(Calls \cup {Hello})
          /\ ToSet(<<Hello>>) = {Hello} /\ ToSet(<<>>) = {}
      BY EmptyContents DEF DeviceTypeOK, ToSet
    <3>2. wire[s] \o <<Hello>> \in Seq(Calls \cup {Hello})
          /\ ToSet(wire[s] \o <<Hello>>) \subseteq ToSet(wire[s]) \cup {Hello}
      BY <3>1, JoinContents
    <3>3. \A p \in {buffer, <<>>} :
            ToSet((wire[s] \o <<Hello>>) \o p) \subseteq ToSet(wire[s] \o <<Hello>>) \cup ToSet(p)
      <4>1. ASSUME NEW q \in Seq(Calls \cup {Hello}), NEW p \in Seq(Calls \cup {Hello})
            PROVE  ToSet(q \o p) \subseteq ToSet(q) \cup ToSet(p)
        BY JoinContents
      <4>. QED
        BY <3>1, <3>2, <4>1
    <3>. QED
      BY <3>1, <3>2, <3>3
  <2>3. \A r \in Sockets : ToSet(wire'[r]) \subseteq ToSet(wire[r]) \cup {Hello} \cup ToSet(buffer)
    BY <2>1, <2>2 DEF DeviceTypeOK
  <2>. QED
    BY <1>1, <2>3 DEF Greet
<1>2. CASE Write(s)
  <2>. DEFINE frame == Head(queue[s])
  <2>1. /\ queue[s] \in Seq(Calls) /\ wire[s] \in Seq(Calls \cup {Hello}) /\ buffer \in Seq(Calls)
        /\ queue[s] # <<>>
    BY <1>2 DEF DeviceTypeOK, Write
  <2>2. /\ frame \in Calls /\ frame \in ToSet(queue[s])
        /\ ToSet(Tail(queue[s])) \subseteq ToSet(queue[s])
    BY <2>1, HeadContents
  <2>3. ToSet(buffer') \subseteq ToSet(buffer) \cup {frame}
    BY <1>2, <2>1, <2>2, AppendContents DEF Write
  <2>4. ToSet(Append(wire[s], frame)) \subseteq ToSet(wire[s]) \cup {frame}
    BY <2>1, <2>2, AppendContents
  <2>5. \A r \in Sockets : ToSet(wire'[r]) \subseteq ToSet(wire[r]) \cup {frame}
    BY <1>2, <2>4 DEF Write, DeviceTypeOK
  <2>6. \A r \in Sockets : ToSet(queue'[r]) \subseteq ToSet(queue[r])
    BY <1>2, <2>2 DEF Write, DeviceTypeOK
  <2>. QED
    <3>1. ASSUME NEW c \in Calls, c \in Underway' PROVE c \in Underway \/ c = frame
      BY <1>2, <2>3, <2>5, <2>6, <3>1 DEF Write
    <3>2. frame \in Underway
      BY <2>2
    <3>. QED
      BY <3>1, <3>2
<1>3. CASE WriterFails(s) \/ ReaderEnds(s)
  <2>1. \A r \in Sockets : queue'[r] = queue[r] \/ queue'[r] = <<>>
    BY <1>3 DEF WriterFails, ReaderEnds, DeviceTypeOK
  <2>. QED
    BY <1>3, <2>1, EmptyContents DEF WriterFails, ReaderEnds, clientVars
<1>. QED
  BY <1>1, <1>2, <1>3

LEMMA ClientFrames ==
  ASSUME DeviceTypeOK, NEW m \in Machines,
         Connect(m) \/ ConnectFails(m) \/ Read(m) \/ Cut(m) \/ ClientRestarts(m)
  PROVE  Underway' \subseteq Underway
<1>. USE DeviceNames DEF Underway
<1>1. CASE Connect(m) \/ ConnectFails(m)
  BY <1>1 DEF Connect, ConnectFails, hubVars
<1>2. CASE Read(m)
  <2>. DEFINE frame == Head(wire[conn[m]])
  <2>1. conn[m] \in Sockets /\ wire[conn[m]] \in Seq(Calls \cup {Hello}) /\ wire[conn[m]] # <<>>
    BY <1>2 DEF Read, DeviceTypeOK
  <2>2. /\ frame \in ToSet(wire[conn[m]])
        /\ ToSet(Tail(wire[conn[m]])) \subseteq ToSet(wire[conn[m]])
    BY <2>1, HeadContents
  <2>3. \A r \in Sockets : ToSet(wire'[r]) \subseteq ToSet(wire[r])
    BY <1>2, <2>2 DEF Read, DeviceTypeOK
  <2>4. \A c \in Calls : reached'[c] # {} => reached[c] # {} \/ c = frame
    BY <1>2 DEF Read, DeviceTypeOK
  <2>. QED
    BY <1>2, <2>1, <2>2, <2>3, <2>4 DEF Read, hubVars
<1>3. CASE Cut(m) \/ ClientRestarts(m)
  <2>1. \A r \in Sockets : wire'[r] = wire[r] \/ wire'[r] = <<>>
    BY <1>3 DEF Cut, ClientRestarts, Broken, DeviceTypeOK
  <2>. QED
    BY <1>3, <2>1, EmptyContents DEF Cut, ClientRestarts, hubVars
<1>. QED
  BY <1>1, <1>2, <1>3

LEMMA TurnFrames ==
  ASSUME DeviceTypeOK, NEW c \in Calls,
         \/ \E s \in Sockets : TurnBegins(c, s) \/ Stop(s, c)
         \/ JobBegins(c) \/ HandOffToTurn(c) \/ HandOffToDevice(c)
         \/ Receive(c) \/ SocketClosed(c) \/ WentOffline(c) \/ GiveUp(c)
  PROVE  Underway' \subseteq Underway \/ (Waits(c) /\ Underway' \subseteq Underway \cup {c})
<1>1. CASE HandOffToTurn(c) \/ HandOffToDevice(c)
  <2>1. /\ UNCHANGED <<buffer, wire, reached>>
        /\ \/ queue' = queue
           \/ Waits(c) /\ \E s : queue' = [queue EXCEPT ![s] = Append(@, c)]
    BY <1>1 DEF HandOffToTurn, HandOffToDevice, clientVars
  <2>2. CASE queue' = queue
    BY <2>1, <2>2 DEF Underway
  <2>3. ASSUME Waits(c), NEW s, queue' = [queue EXCEPT ![s] = Append(@, c)]
        PROVE  Underway' \subseteq Underway \cup {c}
    <3>1. \A r \in Sockets : queue'[r] = queue[r] \/ queue'[r] = Append(queue[r], c)
      BY <2>3 DEF DeviceTypeOK
    <3>2. \A r \in Sockets : ToSet(queue'[r]) \subseteq ToSet(queue[r]) \cup {c}
      <4>1. \A r \in Sockets : queue[r] \in Seq(Calls)
        BY DEF DeviceTypeOK
      <4>2. \A r \in Sockets : ToSet(Append(queue[r], c)) \subseteq ToSet(queue[r]) \cup {c}
        BY <4>1, AppendContents
      <4>. QED
        BY <3>1, <4>2
    <3>. QED
      BY <2>1, <3>2 DEF Underway
  <2>. QED
    BY <2>1, <2>2, <2>3
<1>2. ASSUME UNCHANGED Frames PROVE Underway' \subseteq Underway
  BY <1>2 DEF Frames, Underway
<1>3. ASSUME NEW s \in Sockets, TurnBegins(c, s) \/ Stop(s, c) PROVE UNCHANGED Frames
  BY <1>3 DEF TurnBegins, Stop, hubVars, clientVars, Frames
<1>4. CASE JobBegins(c) \/ Receive(c) \/ SocketClosed(c) \/ WentOffline(c) \/ GiveUp(c)
  BY <1>2, <1>4 DEF JobBegins, Receive, SocketClosed, WentOffline, GiveUp, hubVars, clientVars, Frames
<1>. QED
  BY <1>1, <1>2, <1>3, <1>4

LEMMA AnswerFrames ==
  ASSUME DeviceTypeOK, \/ \E s \in Sockets : Handle(s)
                       \/ \E c \in Calls : Finish(c)
                       \/ BufferExpires
  PROVE  Underway' \subseteq Underway
<1>1. ASSUME NEW s \in Sockets, Handle(s) PROVE UNCHANGED Frames
  BY <1>1 DEF Handle, hubVars, Frames
<1>2. ASSUME NEW c \in Calls, Finish(c) PROVE UNCHANGED Frames
  BY <1>2 DEF Finish, hubVars, Frames
<1>3. CASE BufferExpires
  BY <1>3, EmptyContents DEF BufferExpires, clientVars, Underway
<1>. QED
  BY <1>1, <1>2, <1>3 DEF Underway, Frames

-----------------------------------------------------------------------------
(* The steps of a call. *)

LEMMA RegisteredStep ==
  ASSUME DeviceTypeOK, Registered, DeviceNext
  PROVE  Registered'
<1>1. \/ hub' \subseteq hub /\ owner' = owner
      \/ \E m \in Machines, s \in Sockets : hub' = hub \cup {s} /\ owner' = [owner EXCEPT ![s] = m]
  <2>1. ASSUME NEW m \in Machines, Connect(m)
        PROVE  \E s \in Sockets : hub' = hub \cup {s} /\ owner' = [owner EXCEPT ![s] = m]
    BY <2>1 DEF Connect
  <2>2. ASSUME NEW m \in Machines, ConnectFails(m) \/ Read(m) \/ Cut(m) \/ ClientRestarts(m)
        PROVE  hub' = hub /\ owner' = owner
    BY <2>2 DEF ConnectFails, Read, Cut, ClientRestarts, hubVars
  <2>3. ASSUME NEW s \in Sockets,
               Greet(s) \/ Write(s) \/ WriterFails(s) \/ ReaderEnds(s) \/ Handle(s)
        PROVE  hub' \subseteq hub /\ owner' = owner
    BY <2>3 DEF Greet, Write, WriterFails, ReaderEnds, Handle, hubVars
  <2>4. ASSUME NEW c \in Calls,
               \/ \E s \in Sockets : TurnBegins(c, s) \/ Stop(s, c)
               \/ JobBegins(c) \/ HandOffToTurn(c) \/ HandOffToDevice(c)
               \/ Receive(c) \/ SocketClosed(c) \/ WentOffline(c) \/ GiveUp(c) \/ Finish(c)
        PROVE  hub' = hub /\ owner' = owner
    BY <2>4 DEF TurnBegins, Stop, JobBegins, HandOffToTurn, HandOffToDevice, Receive, SocketClosed,
                WentOffline, GiveUp, Finish, hubVars
  <2>5. CASE BufferExpires
    BY <2>5 DEF BufferExpires
  <2>. QED
    BY <2>1, <2>2, <2>3, <2>4, <2>5 DEF DeviceNext
<1>. QED
  BY <1>1 DEF Registered, DeviceTypeOK

\* What a step does to the calls: nothing, or one of them goes on.
Still == UNCHANGED <<call, waiters, reply>>
SetsOut(c) == c \in Calls /\ call[c] = "idle" /\ call' = [call EXCEPT ![c] = "thinking"]
             /\ UNCHANGED <<waiters, reply>>
HandedOff(c) == call[c] = "thinking" /\ (Waits(c) \/ Ends(c, "undelivered"))
Replied(c) ==
  /\ c \in waiters
  /\ waiters' = waiters \ {c}
  /\ call' = [call EXCEPT ![c] = "replied"]
  /\ reply' = [reply EXCEPT ![c] = "done"]
Ended(c) ==
  \/ call[c] = "replied" /\ Ends(c, "answered")
  \/ call[c] \in Pending /\ Ends(c, "failed")

LEMMA CallSteps ==
  ASSUME DeviceInv, DeviceNext
  PROVE  Still \/ \E c \in Calls : SetsOut(c) \/ HandedOff(c) \/ Replied(c) \/ Ended(c)
<1>1. ASSUME NEW m \in Machines,
             Connect(m) \/ ConnectFails(m) \/ Read(m) \/ Cut(m) \/ ClientRestarts(m)
      PROVE  Still
  BY <1>1 DEF Connect, ConnectFails, Read, Cut, ClientRestarts, turnVars, Still
<1>2. ASSUME NEW s \in Sockets, Greet(s) \/ Write(s) \/ WriterFails(s) \/ ReaderEnds(s)
      PROVE  Still
  BY <1>2 DEF Greet, Write, WriterFails, ReaderEnds, turnVars, Still
<1>3. ASSUME NEW s \in Sockets, Handle(s) PROVE Still \/ \E c \in Calls : Replied(c)
  <2>. DEFINE answer == Head(outbound[owner[s]])
  <2>1. CASE Accepts(answer.call, owner[s])
    <3>1. owner[s] = Home /\ answer.call \in waiters /\ answer.call \in Calls
      BY <2>1 DEF Accepts, DeviceInv, DeviceTypeOK
    <3>2. outbound[Home] \in Seq([kind : {"done", "refused"}, call : Calls]) /\ outbound[Home] # <<>>
      BY <1>3, <3>1, DeviceNames DEF Handle, DeviceInv, DeviceTypeOK
    <3>3. answer.kind = "done"
      BY <3>1, <3>2, HeadContents DEF DeviceInv, Answers
    <3>. QED
      BY <1>3, <2>1, <3>1, <3>3 DEF Handle, Replied
  <2>2. CASE ~Accepts(answer.call, owner[s])
    BY <1>3, <2>2 DEF Handle, Still
  <2>. QED
    BY <2>1, <2>2
<1>4. ASSUME NEW c \in Calls, \E s \in Sockets : TurnBegins(c, s) \/ Stop(s, c)
      PROVE  Still \/ SetsOut(c)
  BY <1>4 DEF TurnBegins, Begins, Stop, turnVars, Still, SetsOut
<1>5. ASSUME NEW c \in Calls, JobBegins(c) \/ Finish(c) PROVE Still \/ SetsOut(c)
  BY <1>5 DEF JobBegins, Begins, Finish, turnVars, Still, SetsOut
<1>6. ASSUME NEW c \in Calls, HandOffToTurn(c) \/ HandOffToDevice(c) PROVE HandedOff(c)
  BY <1>6 DEF HandOffToTurn, HandOffToDevice, HandedOff
<1>7. ASSUME NEW c \in Calls, Receive(c) \/ SocketClosed(c) \/ WentOffline(c) \/ GiveUp(c)
      PROVE  Ended(c)
  BY <1>7 DEF Receive, SocketClosed, WentOffline, GiveUp, Ended
<1>8. CASE BufferExpires
  BY <1>8 DEF BufferExpires, turnVars, Still
<1>. QED
  BY <1>1, <1>2, <1>3, <1>4, <1>5, <1>6, <1>7, <1>8 DEF DeviceNext

LEMMA UnderwayStep ==
  ASSUME DeviceInv, DeviceNext
  PROVE  \/ Underway' \subseteq Underway
         \/ \E c \in Calls : Waits(c) /\ Underway' \subseteq Underway \cup {c}
<1>. USE DEF DeviceInv
<1>1. ASSUME NEW m \in Machines,
             Connect(m) \/ ConnectFails(m) \/ Read(m) \/ Cut(m) \/ ClientRestarts(m)
      PROVE  Underway' \subseteq Underway
  BY <1>1, ClientFrames
<1>2. ASSUME NEW s \in Sockets, Greet(s) \/ Write(s) \/ WriterFails(s) \/ ReaderEnds(s)
      PROVE  Underway' \subseteq Underway
  BY <1>2, SocketFrames
<1>3. ASSUME NEW c \in Calls,
             \/ \E s \in Sockets : TurnBegins(c, s) \/ Stop(s, c)
             \/ JobBegins(c) \/ HandOffToTurn(c) \/ HandOffToDevice(c)
             \/ Receive(c) \/ SocketClosed(c) \/ WentOffline(c) \/ GiveUp(c)
      PROVE  Underway' \subseteq Underway \/ (Waits(c) /\ Underway' \subseteq Underway \cup {c})
  BY <1>3, TurnFrames
<1>4. ASSUME \/ \E s \in Sockets : Handle(s)
             \/ \E c \in Calls : Finish(c)
             \/ BufferExpires
      PROVE  Underway' \subseteq Underway
  BY <1>4, AnswerFrames
<1>. QED
  BY <1>1, <1>2, <1>3, <1>4 DEF DeviceNext

LEMMA UnsentStep ==
  ASSUME DeviceInv, DeviceNext
  PROVE  Unsent'
<1>. USE DEF DeviceInv, DeviceTypeOK
<1>1. ASSUME NEW c \in Calls, call'[c] \in {"idle", "thinking", "undelivered"}
      PROVE  call[c] \in {"idle", "thinking", "undelivered"} /\ ~Waits(c)
  <2>1. ~Waits(c)
    BY <1>1 DEF Waits
  <2>2. CASE Still
    BY <1>1, <2>1, <2>2 DEF Still
  <2>3. ASSUME NEW d \in Calls, SetsOut(d) \/ HandedOff(d) \/ Replied(d) \/ Ended(d)
        PROVE  call[c] \in {"idle", "thinking", "undelivered"}
    BY <1>1, <2>3 DEF SetsOut, HandedOff, Replied, Ended, Waits, Ends
  <2>. QED
    BY <2>1, <2>2, <2>3, CallSteps
<1>. QED
  BY <1>1, UnderwayStep DEF Unsent, Waits

LEMMA AnswersStep ==
  ASSUME DeviceInv, DeviceNext
  PROVE  Answers'
<1>. USE DeviceNames DEF DeviceInv, DeviceTypeOK
<1>1. \A a \in ToSet(outbound'[Home]) : a.kind = "done"
  <2>0. outbound[Home] \in Seq([kind : {"done", "refused"}, call : Calls])
    OBVIOUS
  <2>1. CASE outbound'[Home] = outbound[Home] \/ outbound'[Home] = <<>>
    BY <2>1, EmptyContents DEF Answers
  <2>2. ASSUME NEW m \in Machines, Read(m) PROVE outbound'[Home] = outbound[Home]
    BY <2>2 DEF Read
  <2>3. ASSUME NEW m \in Machines, Connect(m) \/ ConnectFails(m)
        PROVE  outbound'[Home] = outbound[Home]
    BY <2>3 DEF Connect, ConnectFails
  <2>4. ASSUME NEW m \in Machines, Cut(m)
        PROVE  \A a \in ToSet(outbound'[Home]) : a.kind = "done"
    <3>1. CASE m = Home
      BY <2>0, <2>4, <3>1, CutContents DEF Cut, Answers
    <3>2. CASE m # Home
      BY <2>4, <3>2 DEF Cut, Answers
    <3>. QED
      BY <3>1, <3>2
  <2>5. ASSUME NEW m \in Machines, ClientRestarts(m)
        PROVE  outbound'[Home] = outbound[Home] \/ outbound'[Home] = <<>>
    BY <2>5 DEF ClientRestarts
  <2>6. ASSUME NEW s \in Sockets, Greet(s) \/ Write(s) \/ WriterFails(s) \/ ReaderEnds(s)
        PROVE  outbound'[Home] = outbound[Home]
    BY <2>6 DEF Greet, Write, WriterFails, ReaderEnds, clientVars
  <2>7. ASSUME NEW s \in Sockets, Handle(s)
        PROVE  \A a \in ToSet(outbound'[Home]) : a.kind = "done"
    <3>1. CASE owner[s] = Home
      BY <2>0, <2>7, <3>1, HeadContents DEF Handle, Answers
    <3>2. CASE owner[s] # Home
      BY <2>7, <3>2 DEF Handle, Answers
    <3>. QED
      BY <3>1, <3>2
  <2>8. ASSUME NEW c \in Calls,
               \/ \E s \in Sockets : TurnBegins(c, s) \/ Stop(s, c)
               \/ JobBegins(c) \/ HandOffToTurn(c) \/ HandOffToDevice(c)
               \/ Receive(c) \/ SocketClosed(c) \/ WentOffline(c) \/ GiveUp(c)
        PROVE  outbound'[Home] = outbound[Home]
    BY <2>8 DEF TurnBegins, Stop, JobBegins, HandOffToTurn, HandOffToDevice, Receive, SocketClosed,
                WentOffline, GiveUp, clientVars
  <2>9. ASSUME NEW c \in Calls, Finish(c)
        PROVE  \A a \in ToSet(outbound'[Home]) : a.kind = "done"
    <3>1. outbound[Home] \in Seq(Answered) /\ Answer("done", c) \in Answered
      BY <2>0 DEF Answer, Answered
    <3>2. ToSet(Append(outbound[Home], Answer("done", c)))
            \subseteq ToSet(outbound[Home]) \cup {Answer("done", c)}
      BY <3>1, AppendContents
    <3>. QED
      BY <2>9, <3>2 DEF Finish, Answers, Answer
  <2>10. CASE BufferExpires
    BY <2>1, <2>10 DEF BufferExpires, clientVars
  <2>. QED
    BY <2>1, <2>2, <2>3, <2>4, <2>5, <2>6, <2>7, <2>8, <2>9, <2>10 DEF DeviceNext
<1>2. \A c \in Calls :
        /\ c \in waiters' => call'[c] = "waiting"
        /\ call'[c] \in {"replied", "answered"} => reply'[c] = "done"
  <2>1. CASE Still
    BY <2>1 DEF Still, Answers
  <2>2. ASSUME NEW d \in Calls, SetsOut(d)
        PROVE  \A c \in Calls :
                 /\ c \in waiters' => call'[c] = "waiting"
                 /\ call'[c] \in {"replied", "answered"} => reply'[c] = "done"
    BY <2>2 DEF SetsOut, Answers
  <2>3. ASSUME NEW d \in Calls, HandedOff(d)
        PROVE  \A c \in Calls :
                 /\ c \in waiters' => call'[c] = "waiting"
                 /\ call'[c] \in {"replied", "answered"} => reply'[c] = "done"
    BY <2>3 DEF HandedOff, Waits, Ends, Answers
  <2>4. ASSUME NEW d \in Calls, Replied(d)
        PROVE  \A c \in Calls :
                 /\ c \in waiters' => call'[c] = "waiting"
                 /\ call'[c] \in {"replied", "answered"} => reply'[c] = "done"
    BY <2>4 DEF Replied, Answers
  <2>5. ASSUME NEW d \in Calls, Ended(d)
        PROVE  \A c \in Calls :
                 /\ c \in waiters' => call'[c] = "waiting"
                 /\ call'[c] \in {"replied", "answered"} => reply'[c] = "done"
    <3>1. CASE call[d] = "replied" /\ Ends(d, "answered")
      BY <3>1 DEF Ends, Answers
    <3>2. CASE call[d] \in Pending /\ Ends(d, "failed")
      BY <3>2 DEF Ends, Answers
    <3>. QED
      BY <2>5, <3>1, <3>2 DEF Ended
  <2>. QED
    BY <2>1, <2>2, <2>3, <2>4, <2>5, CallSteps
<1>. QED
  BY <1>1, <1>2 DEF Answers

LEMMA DeviceInvariant == DeviceSpec => []DeviceInv
<1>1. DeviceInit => DeviceInv
  <2>. SUFFICES ASSUME DeviceInit PROVE DeviceInv
    OBVIOUS
  <2>. USE DeviceNames, EmptyContents DEF DeviceInit
  <2>1. DeviceTypeOK
    BY DEF DeviceTypeOK
  <2>2. Registered /\ Unsent /\ Answers
    BY DEF Registered, Unsent, Underway, Answers
  <2>. QED
    BY <2>1, <2>2 DEF DeviceInv
<1>2. DeviceInv /\ [DeviceNext]_deviceVars => DeviceInv'
  <2>1. CASE UNCHANGED deviceVars
    BY <2>1 DEF deviceVars, hubVars, turnVars, clientVars, DeviceInv, DeviceTypeOK, Registered,
                Unsent, Underway, Answers
  <2>2. CASE DeviceNext
    BY <2>2, DeviceTypes, RegisteredStep, UnsentStep, AnswersStep DEF DeviceInv
  <2>. QED
    BY <2>1, <2>2
<1>. QED
  BY <1>1, <1>2, PTL DEF DeviceSpec

\* The state of sockets, turns and clients keeps its shape.
THEOREM DeviceTypeCorrect == DeviceSpec => []DeviceTypeOK
<1>1. DeviceInv => DeviceTypeOK
  BY DEF DeviceInv
<1>. QED
  BY <1>1, DeviceInvariant, PTL

\* An answer is the one of the folder's own machine, and a call reported as not sent
\* was given to no machine.
THEOREM TrueVerdicts == DeviceSpec => []VerdictIsTrue
<1>1. DeviceInv => VerdictIsTrue
  BY DEF DeviceInv, Unsent, Underway, Answers, VerdictIsTrue
<1>. QED
  BY <1>1, DeviceInvariant, PTL

-----------------------------------------------------------------------------
(* Searching ahead: the invariant. *)

Exists(s) == s \in Shots /\ shot[s] # "none"
Starts(t) == from[t] # 0 /\ turn[t] = "none"

\* The numbers of the searches and of the utterances only grow.
Times ==
  /\ \A s \in Shots : fired[s] <= epoch /\ asked[s] <= utterance
  /\ \A s \in Shots : Exists(s) =>
       /\ asked[s] # 0
       /\ capture = "starting" => asked[s] < utterance
       /\ capture = "spawned" /\ Newest(s) => asked[s] = utterance
       /\ \A r \in 1..(s - 1) : Exists(r)
  /\ \A t \in Turns : from[t] < utterance
  /\ \A t, r \in Turns : from[t] = from[r] /\ from[t] # 0 => t = r

\* The capture loop is in start_turn for the one turn that has no plan yet.
Starting ==
  /\ \A t \in Turns : turn[t] # "none" => from[t] # 0
  /\ \A t \in Turns : Starts(t) => capture = "starting"
  /\ \A t, r \in Turns : Starts(t) /\ Starts(r) => t = r

\* A search of an utterance that no planned turn was committed from,
Unplanned(s) == Exists(s) /\ \A r \in Turns : from[r] = asked[s] => turn[r] = "none"

\* which is each one of the epoch, the one that is parked and the one in the slot.
Pooling ==
  /\ \A s \in Shots : Exists(s) /\ fired[s] = epoch => Unplanned(s)
  /\ pool # None => Exists(pool) /\ fired[pool] = epoch
  /\ inflight # None => Unplanned(inflight)

Belongs(s, t) ==
  Exists(s) /\ asked[s] < utterance /\ \A r \in Turns : from[r] = asked[s] => r = t

Given ==
  \A t \in Turns :
    /\ turn[t] = "settling" => awaited[t] # None
    /\ awaited[t] # None => turn[t] # "none" /\ Belongs(awaited[t], t)
    /\ prefetched[t] # None => turn[t] # "none" /\ Belongs(prefetched[t], t)

SearchInv == SearchTypeOK /\ Times /\ Starting /\ Pooling /\ Given

-----------------------------------------------------------------------------
(* Steps. *)

ShotStates == {"none", "running", "aborted", "parked", "returned", "failed"}

\* A task that is aborted was one that ran.
LEMMA AbortedShots ==
  ASSUME SearchTypeOK, NEW s
  PROVE  /\ Aborted(s) \in [Shots -> ShotStates]
         /\ \A r \in Shots : Aborted(s)[r] = "none" <=> shot[r] = "none"
BY DEF Aborted, SearchTypeOK, ShotStates

LEMMA Numbers == None \notin Shots /\ None \notin Turns /\ None = 0
  /\ Shots \subseteq Nat /\ Turns \subseteq Nat /\ MaxDetours \in Nat
  /\ MaxShots \in Nat /\ MaxTurns \in Nat
BY SearchAssumption DEF None, Shots, Turns

LEMMA SearchTypes == SearchTypeOK /\ [SearchNext]_searchVars => SearchTypeOK'
<1>. SUFFICES ASSUME SearchTypeOK, [SearchNext]_searchVars PROVE SearchTypeOK'
  OBVIOUS
<1>. USE Numbers
<1>0. \A s : Aborted(s) \in [Shots -> ShotStates]
  BY AbortedShots
<1>1. CASE UNCHANGED searchVars
  BY <1>1 DEF SearchTypeOK, searchVars, sharedVars, planVars
<1>2. CASE Fire
  BY <1>2 DEF Fire, Gathers, SearchTypeOK, sharedVars, planVars
<1>3. CASE SpawnSearch
  BY <1>3 DEF SpawnSearch, SearchTypeOK, sharedVars, planVars
<1>4. CASE Discard
  BY <1>4 DEF Discard, Gathers, SearchTypeOK, sharedVars, planVars
<1>5. CASE Install
  BY <1>5, <1>0 DEF Install, SearchTypeOK, planVars, ShotStates
<1>6. CASE TalkOver
  BY <1>6 DEF TalkOver, TakeCurrent, SearchTypeOK, sharedVars, planVars
<1>7. CASE PressStop
  <2>1. signalled' \subseteq Turns /\ current' = None
    BY <1>7 DEF PressStop, TakeCurrent, SearchTypeOK
  <2>2. detours' \in 0..MaxDetours
    BY <1>7 DEF PressStop, SearchTypeOK
  <2>. QED
    BY <1>7, <2>1, <2>2 DEF PressStop, SearchTypeOK, sharedVars, planVars
<1>8. CASE CaptureClears \/ ReaderClears
  <2>1. shot' \in [Shots -> ShotStates]
    BY <1>8, <1>0 DEF CaptureClears, ReaderClears, Clear
  <2>2. epoch' \in Nat /\ pool' = None /\ inflight' = None
    BY <1>8 DEF CaptureClears, ReaderClears, Clear, Close, SearchTypeOK
  <2>3. UNCHANGED <<current, fired, turn, awaited, prefetched, from, signalled, detours, utterance, asked>>
    BY <1>8 DEF CaptureClears, ReaderClears, Clear, planVars
  <2>4. capture' \in {capture, "listening"} /\ reader' \in {reader, "idle"}
    BY <1>8 DEF CaptureClears, ReaderClears
  <2>. QED
    BY <2>1, <2>2, <2>3, <2>4 DEF SearchTypeOK, ShotStates
<1>9. ASSUME NEW s \in Shots, SearchDone(s) \/ SearchFails(s) PROVE SearchTypeOK'
  BY <1>9 DEF SearchDone, SearchFails, LeavesSlot, SearchTypeOK, sharedVars, planVars
<1>10. ASSUME NEW t \in Turns, StartTurn(t) PROVE SearchTypeOK'
  BY <1>10 DEF StartTurn, Gathers, SearchTypeOK, sharedVars
<1>11. ASSUME NEW t \in Turns, PlanTurn(t) PROVE SearchTypeOK'
  BY <1>11, <1>0 DEF PlanTurn, Close, SearchTypeOK, ShotStates
<1>12. ASSUME NEW t \in Turns, Settle(t) PROVE SearchTypeOK'
  BY <1>12 DEF Settle, SearchTypeOK, sharedVars
<1>13. ASSUME NEW t \in Turns, GiveUpSearch(t) PROVE SearchTypeOK'
  BY <1>13, <1>0 DEF GiveUpSearch, SearchTypeOK, sharedVars, ShotStates
<1>14. ASSUME NEW t \in Turns, FinishTurn(t) PROVE SearchTypeOK'
  BY <1>14 DEF FinishTurn, SearchTypeOK, sharedVars
<1>. QED
  BY <1>1, <1>2, <1>3, <1>4, <1>5, <1>6, <1>7, <1>8, <1>9, <1>10, <1>11, <1>12,
     <1>13, <1>14 DEF SearchNext

\* What a step does to the invariant that is not the making of a search, the start
\* of a turn or its plan.
KeepsShots ==
  /\ \A s \in Shots : shot'[s] = "none" <=> shot[s] = "none"
  /\ fired' = fired /\ asked' = asked

Elsewhere ==
  /\ KeepsShots
  /\ from' = from /\ \A t \in Turns : turn'[t] = "none" <=> turn[t] = "none"
  /\ utterance <= utterance'
  /\ capture' \in {capture, "listening", "firing", "barging"}
  /\ capture = "starting" => capture' = "starting"
  /\ capture' = "spawned" => utterance' = utterance
  /\ \/ epoch' = epoch /\ (pool' = pool \/ (Exists(pool') /\ fired[pool'] = epoch))
     \/ epoch' = epoch + 1 /\ pool' = None
  /\ \/ inflight' = inflight \/ inflight' = None
     \/ capture = "spawned" /\ inflight' \in Shots /\ Newest(inflight')
  /\ \A t \in Turns :
       /\ awaited'[t] = awaited[t]
       /\ prefetched'[t] = prefetched[t] \/ (prefetched'[t] = awaited[t] /\ turn[t] = "settling")
       /\ turn'[t] = "settling" => turn[t] = "settling"

SearchSteps ==
  \/ Elsewhere \/ SpawnSearch
  \/ \E t \in Turns : StartTurn(t) \/ PlanTurn(t)

LEMMA SearchEffects ==
  ASSUME SearchTypeOK, SearchNext
  PROVE  SearchSteps
<1>0. \A s : \A r \in Shots : Aborted(s)[r] = "none" <=> shot[r] = "none"
  BY AbortedShots
<1>. USE Numbers DEF Elsewhere, KeepsShots, SearchSteps, SearchTypeOK
<1>1. CASE Fire
  BY <1>1 DEF Fire, Gathers, sharedVars, planVars
<1>2. CASE Discard
  BY <1>2 DEF Discard, Gathers, sharedVars, planVars
<1>3. CASE Install
  BY <1>3, <1>0 DEF Install, planVars
<1>4. CASE TalkOver
  BY <1>4 DEF TalkOver, sharedVars, planVars
<1>5. CASE PressStop
  BY <1>5 DEF PressStop, sharedVars, planVars
<1>6. CASE CaptureClears \/ ReaderClears
  <2>1. \A r \in Shots : shot'[r] = "none" <=> shot[r] = "none"
    BY <1>6, <1>0 DEF CaptureClears, ReaderClears, Clear
  <2>. QED
    BY <1>6, <2>1 DEF CaptureClears, ReaderClears, Clear, Close, planVars
<1>7. ASSUME NEW s \in Shots, SearchDone(s) PROVE Elsewhere
  BY <1>7 DEF SearchDone, LeavesSlot, Admits, Exists, planVars
<1>8. ASSUME NEW s \in Shots, SearchFails(s) PROVE Elsewhere
  BY <1>8 DEF SearchFails, LeavesSlot, planVars
<1>9. ASSUME NEW t \in Turns, Settle(t) PROVE Elsewhere
  BY <1>9 DEF Settle, sharedVars
<1>10. ASSUME NEW t \in Turns, GiveUpSearch(t) PROVE Elsewhere
  <2>1. \A r \in Shots : shot'[r] = "none" <=> shot[r] = "none"
    BY <1>10, <1>0 DEF GiveUpSearch
  <2>. QED
    BY <1>10, <2>1 DEF GiveUpSearch, sharedVars
<1>11. ASSUME NEW t \in Turns, FinishTurn(t) PROVE Elsewhere
  BY <1>11 DEF FinishTurn, sharedVars
<1>. QED
  BY <1>1, <1>2, <1>3, <1>4, <1>5, <1>6, <1>7, <1>8, <1>9, <1>10, <1>11 DEF SearchNext

LEMMA PlanShots ==
  ASSUME SearchTypeOK, NEW t \in Turns, PlanTurn(t)
  PROVE  \A r \in Shots : shot'[r] = "none" <=> shot[r] = "none"
<1>1. \A s : \A r \in Shots : Aborted(s)[r] = "none" <=> shot[r] = "none"
  BY AbortedShots
<1>. QED
  BY <1>1 DEF PlanTurn

LEMMA TimesStep ==
  ASSUME SearchInv, SearchTypeOK', SearchNext
  PROVE  Times'
<1>. USE Numbers DEF SearchTypeOK
<1>1. CASE SpawnSearch
  <2>1. PICK s \in Shots :
          /\ Fresh(s)
          /\ shot' = [shot EXCEPT ![s] = "running"]
          /\ fired' = [fired EXCEPT ![s] = epoch]
          /\ asked' = [asked EXCEPT ![s] = utterance]
    BY <1>1 DEF SpawnSearch
  <2>2. \A r \in Shots : Exists(r) => r < s
    BY <2>1 DEF SearchInv, Times, Fresh, Exists, Shots
  <2>3. \A r \in Shots : Exists(r)' => r <= s
    BY <2>1, <2>2 DEF Exists
  <2>4. ASSUME NEW r \in Shots, Exists(r)', Newest(r)' PROVE r = s
    BY <2>1, <2>3, <2>4 DEF Exists, Newest, Shots
  <2>5. \A r \in Shots : fired'[r] <= epoch /\ asked'[r] <= utterance
    BY <2>1 DEF SearchInv, Times
  <2>6. \A r \in Shots : Exists(r)' => \A q \in 1..(r - 1) : Exists(q)'
    BY <2>1, <2>2, <2>3 DEF SearchInv, Times, Fresh, Exists, Shots
  <2>. QED
    BY <1>1, <2>1, <2>4, <2>5, <2>6 DEF SpawnSearch, SearchInv, Times, sharedVars, planVars, Exists
<1>2. ASSUME NEW t \in Turns, StartTurn(t) PROVE Times'
  BY <1>2 DEF StartTurn, SearchInv, Times, sharedVars, Exists
<1>3. ASSUME NEW t \in Turns, PlanTurn(t) PROVE Times'
  <2>1. \A r \in Shots : shot'[r] = "none" <=> shot[r] = "none"
    BY <1>3, PlanShots DEF SearchInv
  <2>. QED
    BY <1>3, <2>1 DEF PlanTurn, SearchInv, Times, Close, Exists
<1>4. CASE Elsewhere
  <2>1. \A r \in Shots : Exists(r)' <=> Exists(r)
    BY <1>4 DEF Elsewhere, KeepsShots, Exists
  <2>2. \A r \in Shots : Newest(r)' => Newest(r)
    BY <1>4 DEF Elsewhere, KeepsShots, Newest, Shots
  <2>. QED
    BY <1>4, <2>1, <2>2 DEF Elsewhere, KeepsShots, SearchInv, Times, Exists
<1>. QED
  BY <1>1, <1>2, <1>3, <1>4, SearchEffects DEF SearchInv, SearchSteps

LEMMA StartingStep ==
  ASSUME SearchInv, SearchTypeOK', SearchNext
  PROVE  Starting'
<1>. USE Numbers DEF SearchTypeOK, SearchInv, Starting, Starts
<1>1. CASE SpawnSearch
  BY <1>1 DEF SpawnSearch, planVars
<1>2. ASSUME NEW t \in Turns, StartTurn(t) PROVE Starting'
  BY <1>2 DEF StartTurn, Gathers
<1>3. ASSUME NEW t \in Turns, PlanTurn(t) PROVE Starting'
  BY <1>3 DEF PlanTurn
<1>4. CASE Elsewhere
  BY <1>4 DEF Elsewhere
<1>. QED
  BY <1>1, <1>2, <1>3, <1>4, SearchEffects DEF SearchSteps

LEMMA PoolingStep ==
  ASSUME SearchInv, SearchTypeOK', SearchNext
  PROVE  Pooling'
<1>. USE Numbers DEF SearchTypeOK, SearchInv
<1>1. CASE SpawnSearch
  <2>1. PICK s \in Shots :
          /\ Fresh(s)
          /\ shot' = [shot EXCEPT ![s] = "running"]
          /\ fired' = [fired EXCEPT ![s] = epoch]
          /\ asked' = [asked EXCEPT ![s] = utterance]
    BY <1>1 DEF SpawnSearch
  <2>2. UNCHANGED <<epoch, pool, inflight, turn, from>>
    BY <1>1 DEF SpawnSearch, sharedVars, planVars
  <2>3. Unplanned(s)'
    BY <2>1, <2>2 DEF Unplanned, Exists, Times
  <2>4. \A r \in Shots \ {s} : (Exists(r)' <=> Exists(r)) /\ (Unplanned(r)' <=> Unplanned(r))
    BY <2>1, <2>2 DEF Unplanned, Exists
  <2>5. ~Exists(s) /\ fired'[s] = epoch /\ \A r \in Shots \ {s} : fired'[r] = fired[r]
    BY <2>1 DEF Exists, Fresh
  <2>6. Exists(s)'
    BY <2>1 DEF Exists
  <2>7. pool # None => pool \in Shots \ {s}
    BY <2>5 DEF Pooling
  <2>8. inflight # None => inflight \in Shots \ {s}
    BY <2>5 DEF Pooling, Unplanned
  <2>. QED
    BY <2>2, <2>3, <2>4, <2>5, <2>6, <2>7, <2>8 DEF Pooling
<1>2. ASSUME NEW t \in Turns, StartTurn(t) PROVE Pooling'
  <2>1. \A s \in Shots : Exists(s)' <=> Exists(s)
    BY <1>2 DEF StartTurn, Exists
  <2>2. turn[t] = "none"
    BY <1>2 DEF StartTurn, Starting
  <2>3. \A s \in Shots : Unplanned(s) => Unplanned(s)'
    BY <1>2, <2>1, <2>2 DEF StartTurn, Unplanned
  <2>. QED
    BY <1>2, <2>1, <2>3 DEF StartTurn, Pooling, sharedVars, Unplanned
<1>3. ASSUME NEW t \in Turns, PlanTurn(t) PROVE Pooling'
  <2>1. epoch' = epoch + 1 /\ pool' = None /\ inflight' = None /\ fired' = fired
    BY <1>3 DEF PlanTurn, Close
  <2>. QED
    BY <2>1 DEF Pooling, Times
<1>4. CASE Elsewhere
  <2>1. \A s \in Shots : Exists(s)' <=> Exists(s)
    BY <1>4 DEF Elsewhere, KeepsShots, Exists
  <2>2. \A s \in Shots : Unplanned(s)' <=> Unplanned(s)
    BY <1>4, <2>1 DEF Elsewhere, KeepsShots, Unplanned
  <2>3. fired' = fired
    BY <1>4 DEF Elsewhere, KeepsShots
  <2>4. \A s \in Shots : Exists(s)' /\ fired'[s] = epoch' => Unplanned(s)'
    BY <1>4, <2>1, <2>2, <2>3 DEF Elsewhere, Pooling, Times
  <2>5. pool' # None => Exists(pool)' /\ fired'[pool'] = epoch'
    BY <1>4, <2>1, <2>3 DEF Elsewhere, Pooling, Exists
  <2>6. ASSUME capture = "spawned", NEW s \in Shots, Newest(s) PROVE Unplanned(s)
    BY <2>6 DEF Unplanned, Newest, Exists, Times
  <2>7. inflight' # None => Unplanned(inflight)'
    BY <1>4, <2>2, <2>6 DEF Elsewhere, Pooling
  <2>. QED
    BY <2>4, <2>5, <2>7 DEF Pooling
<1>. QED
  BY <1>1, <1>2, <1>3, <1>4, SearchEffects DEF SearchSteps

LEMMA GivenStep ==
  ASSUME SearchInv, SearchTypeOK', SearchNext
  PROVE  Given'
<1>. USE Numbers DEF SearchTypeOK, SearchInv
<1>1. CASE SpawnSearch
  <2>1. PICK s \in Shots :
          /\ Fresh(s)
          /\ shot' = [shot EXCEPT ![s] = "running"]
          /\ asked' = [asked EXCEPT ![s] = utterance]
    BY <1>1 DEF SpawnSearch
  <2>2. UNCHANGED <<turn, awaited, prefetched, from, utterance>>
    BY <1>1 DEF SpawnSearch, planVars
  <2>3. \A r \in Shots, t \in Turns : Belongs(r, t) => Belongs(r, t)'
    BY <2>1, <2>2 DEF Belongs, Exists, Fresh
  <2>. QED
    BY <2>2, <2>3 DEF Given
<1>2. ASSUME NEW t \in Turns, StartTurn(t) PROVE Given'
  <2>1. \A s \in Shots, r \in Turns : Belongs(s, r) => Belongs(s, r)'
    BY <1>2 DEF StartTurn, Belongs, Exists
  <2>. QED
    BY <1>2, <2>1 DEF StartTurn, Given
<1>3. ASSUME NEW t \in Turns, PlanTurn(t) PROVE Given'
  <2>1. UNCHANGED <<from, asked, utterance>> /\ capture = "starting" /\ Starts(t)
    BY <1>3 DEF PlanTurn, Starts
  <2>2. \A s \in Shots, r \in Turns : Belongs(s, r)' <=> Belongs(s, r)
    BY <1>3, <2>1, PlanShots DEF Belongs, Exists
  <2>3. \A s \in Shots : Unplanned(s) => Belongs(s, t)
    BY <2>1 DEF Unplanned, Belongs, Times, Starting, Starts
  <2>4. (pool # None => Unplanned(pool)) /\ (inflight # None => Unplanned(inflight))
    BY DEF Pooling
  <2>5. \A r \in Turns \ {t} :
          turn'[r] = turn[r] /\ awaited'[r] = awaited[r] /\ prefetched'[r] = prefetched[r]
    BY <1>3 DEF PlanTurn
  <2>6. awaited[t] = None /\ prefetched[t] = None
    BY <2>1 DEF Given, Starts
  <2>7. /\ awaited'[t] # None => awaited'[t] = inflight
        /\ prefetched'[t] # None => prefetched'[t] = pool
        /\ turn'[t] # "none" /\ (turn'[t] = "settling" => awaited'[t] # None)
    BY <1>3, <2>6 DEF PlanTurn
  <2>8. ASSUME NEW r \in Turns, r # t
        PROVE  /\ turn'[r] = "settling" => awaited'[r] # None
               /\ awaited'[r] # None => turn'[r] # "none" /\ Belongs(awaited[r], r)'
               /\ prefetched'[r] # None => turn'[r] # "none" /\ Belongs(prefetched[r], r)'
    <3>1. /\ turn[r] = "settling" => awaited[r] # None
          /\ awaited[r] # None => awaited[r] \in Shots /\ turn[r] # "none" /\ Belongs(awaited[r], r)
          /\ prefetched[r] # None =>
               prefetched[r] \in Shots /\ turn[r] # "none" /\ Belongs(prefetched[r], r)
      BY DEF Given
    <3>. QED
      BY <2>2, <2>5, <2>8, <3>1
  <2>9. awaited'[t] # None => Belongs(awaited[t], t)'
    BY <2>2, <2>3, <2>4, <2>7
  <2>10. prefetched'[t] # None => Belongs(prefetched[t], t)'
    BY <2>2, <2>3, <2>4, <2>7
  <2>. QED
    BY <2>7, <2>8, <2>9, <2>10 DEF Given
<1>4. CASE Elsewhere
  <2>1. \A s \in Shots, t \in Turns : Belongs(s, t) => Belongs(s, t)'
    BY <1>4 DEF Elsewhere, KeepsShots, Belongs, Exists
  <2>2. \A t \in Turns :
          /\ turn'[t] = "none" <=> turn[t] = "none"
          /\ awaited'[t] = awaited[t]
          /\ prefetched'[t] = prefetched[t] \/ (prefetched'[t] = awaited[t] /\ turn[t] = "settling")
          /\ turn'[t] = "settling" => turn[t] = "settling"
    BY <1>4 DEF Elsewhere
  <2>3. ASSUME NEW t \in Turns
        PROVE  /\ turn'[t] = "settling" => awaited'[t] # None
               /\ awaited'[t] # None => turn'[t] # "none" /\ Belongs(awaited[t], t)'
               /\ prefetched'[t] # None => turn'[t] # "none" /\ Belongs(prefetched[t], t)'
    <3>1. awaited[t] # None => awaited[t] \in Shots /\ turn[t] # "none" /\ Belongs(awaited[t], t)
      BY DEF Given
    <3>2. prefetched[t] # None =>
            prefetched[t] \in Shots /\ turn[t] # "none" /\ Belongs(prefetched[t], t)
      BY DEF Given
    <3>3. turn[t] = "settling" => awaited[t] # None
      BY DEF Given
    <3>. QED
      BY <2>1, <2>2, <3>1, <3>2, <3>3
  <2>. QED
    BY <2>3 DEF Given
<1>. QED
  BY <1>1, <1>2, <1>3, <1>4, SearchEffects DEF SearchSteps

LEMMA SearchInitial == SearchInit => SearchInv
<1>. SUFFICES ASSUME SearchInit PROVE SearchInv
  OBVIOUS
<1>. USE Numbers DEF SearchInit
<1>1. SearchTypeOK
  BY DEF SearchTypeOK
<1>2. Times /\ Starting /\ Pooling /\ Given
  BY DEF Times, Starting, Starts, Pooling, Exists, Given
<1>. QED
  BY <1>1, <1>2 DEF SearchInv

LEMMA SearchInvariant == SearchSpec => []SearchInv
<1>1. SearchInv /\ [SearchNext]_searchVars => SearchInv'
  <2>1. CASE UNCHANGED searchVars
    BY <2>1 DEF SearchInv, SearchTypeOK, Times, Starting, Starts, Pooling, Given, Belongs, Unplanned,
                Exists, Newest, searchVars, sharedVars, planVars
  <2>2. CASE SearchNext
    BY <2>2, SearchTypes, TimesStep, StartingStep, PoolingStep, GivenStep DEF SearchInv
  <2>. QED
    BY <2>1, <2>2
<1>. QED
  BY <1>1, SearchInitial, PTL DEF SearchSpec

\* The state of the searches ahead keeps its shape.
THEOREM SearchTypeCorrect == SearchSpec => []SearchTypeOK
<1>1. SearchInv => SearchTypeOK
  BY DEF SearchInv
<1>. QED
  BY <1>1, SearchInvariant, PTL

\* What was searched for a turn is given to no other.
THEOREM SearchedForNoOther == SearchSpec => []NothingCrossesTurns
<1>1. SearchInv => NothingCrossesTurns
  BY DEF SearchInv, SearchTypeOK, Given, Belongs, NothingCrossesTurns
<1>. QED
  BY <1>1, SearchInvariant, PTL

-----------------------------------------------------------------------------
(* Spoken replies. *)

\* The reply in start_turn is the one with an open gate and no tasks yet.
Opens(r) == speaking[r] /\ feed[r] = "none"

Beginning ==
  /\ \A r \in Replies : Opens(r) => ear = "starting"
  /\ \A r, q \in Replies : Opens(r) /\ Opens(q) => r = q
  /\ \A r \in Replies : currentTurn = r /\ feed[r] = "none" => speaking[r]

\* A reply that was cut has its gate closed; one clip may have passed it before.
CutShort ==
  \A r \in Replies :
    /\ stale[r] > 0 => ~speaking[r] /\ feed[r] # "none"
    /\ stale[r] <= 2 /\ (stale[r] = 2 => tts[r] # "ready")

ReplyInv == ReplyTypeOK /\ Beginning /\ CutShort

LEMMA ReplyNumbers == Nobody \notin Replies /\ MaxClauses \in Nat
BY ReplyAssumption DEF Nobody, Replies

LEMMA WokenTask ==
  ASSUME ReplyTypeOK, NEW r \in Replies, Wakes(r)
  PROVE  /\ tts' \in [Replies -> {"off", "waiting", "synthesising", "ready", "ending"}]
         /\ \A q \in Replies : tts'[q] = tts[q] \/ tts'[q] = "waiting"
BY DEF Wakes, ReplyTypeOK

LEMMA EmittedCommands ==
  ASSUME ReplyTypeOK, NEW r \in Replies, NEW command \in {"clause", "end", "stop"},
         Emit(r, command)
  PROVE  speech' \in [Replies -> Seq({"clause", "end", "stop"})]
<1>1. \A s \in Seq({"clause", "end", "stop"}) :
        Append(s, command) \in Seq({"clause", "end", "stop"})
  OBVIOUS
<1>. QED
  BY <1>1 DEF Emit, ReplyTypeOK

LEMMA ReplyTypes == ReplyTypeOK /\ [ReplyNext]_replyVars => ReplyTypeOK'
<1>. SUFFICES ASSUME ReplyTypeOK, [ReplyNext]_replyVars PROVE ReplyTypeOK'
  OBVIOUS
<1>. USE ReplyNumbers DEF ReplyTypeOK
<1>1. CASE UNCHANGED replyVars
  BY <1>1 DEF replyVars
<1>2. CASE TalkOverReply
  <2>1. tts' \in [Replies -> {"off", "waiting", "synthesising", "ready", "ending"}]
    BY <1>2, WokenTask DEF TalkOverReply, SignalBargeIn
  <2>. QED
    BY <1>2, <2>1 DEF TalkOverReply, SignalBargeIn
<1>3. CASE ListenAgain
  BY <1>3 DEF ListenAgain
<1>4. ASSUME NEW r \in Replies, StartReply(r) PROVE ReplyTypeOK'
  BY <1>4 DEF StartReply
<1>5. ASSUME NEW r \in Replies, SpawnReply(r) PROVE ReplyTypeOK'
  BY <1>5 DEF SpawnReply
<1>6. ASSUME NEW r \in Replies, Generate(r) PROVE ReplyTypeOK'
  <2>1. speech' \in [Replies -> Seq({"clause", "end", "stop"})]
    BY <1>6, EmittedCommands DEF Generate
  <2>2. said' \in [Replies -> 0..MaxClauses]
    BY <1>6 DEF Generate
  <2>. QED
    BY <1>6, <2>1, <2>2 DEF Generate
<1>7. ASSUME NEW r \in Replies, Conclude(r) PROVE ReplyTypeOK'
  <2>1. speech' \in [Replies -> Seq({"clause", "end", "stop"})]
    BY <1>7, EmittedCommands DEF Conclude
  <2>. QED
    BY <1>7, <2>1 DEF Conclude
<1>8. ASSUME NEW r \in Replies, Return(r) PROVE ReplyTypeOK'
  BY <1>8 DEF Return
<1>9. ASSUME NEW r \in Replies, Watchdog(r) PROVE ReplyTypeOK'
  <2>1. speech' \in [Replies -> Seq({"clause", "end", "stop"})]
    BY <1>9, EmittedCommands DEF Watchdog
  <2>2. tts' \in [Replies -> {"off", "waiting", "synthesising", "ready", "ending"}]
    BY <1>9, WokenTask DEF Watchdog, CancelCurrent
  <2>. QED
    BY <1>9, <2>1, <2>2 DEF Watchdog
<1>10. ASSUME NEW r \in Replies, Speak(r) PROVE ReplyTypeOK'
  <2>1. speech' \in [Replies -> Seq({"clause", "end", "stop"})]
    BY <1>10 DEF Speak
  <2>. QED
    BY <1>10, <2>1 DEF Speak
<1>11. ASSUME NEW r \in Replies, Synthesised(r) PROVE ReplyTypeOK'
  BY <1>11 DEF Synthesised
<1>12. ASSUME NEW r \in Replies, FinishReply(r) PROVE ReplyTypeOK'
  <2>1. speech' \in [Replies -> Seq({"clause", "end", "stop"})]
    BY <1>12 DEF FinishReply
  <2>. QED
    BY <1>12, <2>1 DEF FinishReply
<1>13. ASSUME NEW r \in Replies, ReplyOver(r) PROVE ReplyTypeOK'
  BY <1>13 DEF ReplyOver
<1>14. ASSUME NEW r \in Replies, HandOver(r) PROVE ReplyTypeOK'
  <2>1. stale' \in [Replies -> Nat]
    BY <1>14 DEF HandOver
  <2>. QED
    BY <1>14, <2>1 DEF HandOver
<1>. QED
  BY <1>1, <1>2, <1>3, <1>4, <1>5, <1>6, <1>7, <1>8, <1>9, <1>10, <1>11, <1>12, <1>13,
     <1>14 DEF ReplyNext

\* The tasks leave the gate alone, and only an open one lets a clip through.
Inside ==
  /\ speaking' = speaking /\ ear' = ear /\ currentTurn' \in {currentTurn, Nobody}
  /\ \A r \in Replies :
       /\ feed'[r] = "none" <=> feed[r] = "none"
       /\ \/ stale'[r] = stale[r]
          \/ tts[r] = "ready" /\ stale[r] > 0 /\ stale'[r] = stale[r] + 1 /\ tts'[r] = "waiting"
       /\ tts'[r] = "ready" => tts[r] = "ready" \/ speaking[r]

LEMMA ReplyEffects ==
  ASSUME ReplyTypeOK, ReplyNext
  PROVE  \/ Inside \/ TalkOverReply \/ ListenAgain
         \/ \E r \in Replies : StartReply(r) \/ SpawnReply(r)
<1>. USE ReplyNumbers DEF ReplyTypeOK, Inside
<1>1. ASSUME NEW r \in Replies, Generate(r) \/ Conclude(r) \/ Return(r) PROVE Inside
  BY <1>1 DEF Generate, Conclude, Return
<1>2. ASSUME NEW r \in Replies, Watchdog(r) PROVE Inside
  <2>1. \A q \in Replies : tts'[q] = tts[q] \/ tts'[q] = "waiting"
    BY <1>2, WokenTask DEF Watchdog, CancelCurrent
  <2>. QED
    BY <1>2, <2>1 DEF Watchdog
<1>3. ASSUME NEW r \in Replies, Speak(r) PROVE Inside
  BY <1>3 DEF Speak
<1>4. ASSUME NEW r \in Replies, Synthesised(r) PROVE Inside
  BY <1>4 DEF Synthesised
<1>5. ASSUME NEW r \in Replies, HandOver(r) PROVE Inside
  BY <1>5 DEF HandOver
<1>6. ASSUME NEW r \in Replies, FinishReply(r) \/ ReplyOver(r) PROVE Inside
  BY <1>6 DEF FinishReply, ReplyOver
<1>. QED
  BY <1>1, <1>2, <1>3, <1>4, <1>5, <1>6 DEF ReplyNext

LEMMA ReplyInvariant == ReplySpec => []ReplyInv
<1>1. ReplyInit => ReplyInv
  BY ReplyNumbers DEF ReplyInit, ReplyInv, ReplyTypeOK, Beginning, Opens, CutShort
<1>2. ReplyInv /\ [ReplyNext]_replyVars => ReplyInv'
  <2>. SUFFICES ASSUME ReplyInv, [ReplyNext]_replyVars PROVE ReplyInv'
    OBVIOUS
  <2>. USE ReplyNumbers DEF ReplyInv
  <2>1. ReplyTypeOK'
    BY ReplyTypes
  <2>2. CASE UNCHANGED replyVars
    BY <2>1, <2>2 DEF replyVars, Beginning, Opens, CutShort
  <2>3. CASE Inside
    <3>1. Beginning'
      BY <2>3 DEF Inside, Beginning, Opens, ReplyTypeOK
    <3>2. CutShort'
      BY <2>3, <2>1 DEF Inside, CutShort, ReplyTypeOK
    <3>. QED
      BY <2>1, <3>1, <3>2
  <2>4. CASE TalkOverReply
    <3>1. /\ feed' = feed /\ currentTurn' = Nobody /\ currentTurn \in Replies
          /\ \A r \in Replies : speaking'[r] => speaking[r]
          /\ ~speaking'[currentTurn] /\ stale'[currentTurn] = 1
          /\ \A r \in Replies \ {currentTurn} : speaking'[r] = speaking[r] /\ stale'[r] = stale[r]
          /\ ear = "listening"
      BY <2>4 DEF TalkOverReply, SignalBargeIn, ReplyTypeOK
    <3>2. \A r \in Replies : tts'[r] = tts[r] \/ tts'[r] = "waiting"
      BY <2>4, WokenTask DEF TalkOverReply, SignalBargeIn, ReplyTypeOK
    <3>3. feed[currentTurn] # "none"
      BY <3>1 DEF Beginning, Opens
    <3>4. Beginning'
      BY <3>1 DEF Beginning, Opens
    <3>5. CutShort'
      <4>1. ASSUME NEW r \in Replies, r # currentTurn
            PROVE  /\ stale'[r] > 0 => ~speaking'[r] /\ feed'[r] # "none"
                   /\ stale'[r] <= 2 /\ (stale'[r] = 2 => tts'[r] # "ready")
        BY <3>1, <3>2, <4>1 DEF CutShort, ReplyTypeOK
      <4>. QED
        BY <3>1, <3>3, <4>1 DEF CutShort
    <3>. QED
      BY <2>1, <3>4, <3>5
  <2>5. CASE ListenAgain
    BY <2>1, <2>5 DEF ListenAgain, Beginning, Opens, CutShort
  <2>6. ASSUME NEW r \in Replies, StartReply(r) PROVE ReplyInv'
    BY <2>1, <2>6 DEF StartReply, Beginning, Opens, CutShort, ReplyTypeOK
  <2>7. ASSUME NEW r \in Replies, SpawnReply(r) PROVE ReplyInv'
    BY <2>1, <2>7 DEF SpawnReply, Beginning, Opens, CutShort, ReplyTypeOK
  <2>. QED
    BY <2>2, <2>3, <2>4, <2>5, <2>6, <2>7, ReplyEffects
<1>. QED
  BY <1>1, <1>2, PTL DEF ReplySpec

\* The state of the spoken replies keeps its shape.
THEOREM ReplyTypeCorrect == ReplySpec => []ReplyTypeOK
<1>1. ReplyInv => ReplyTypeOK
  BY DEF ReplyInv
<1>. QED
  BY <1>1, ReplyInvariant, PTL

\* Once the speaker has talked over a reply, one clip of it at most is handed over.
THEOREM CutFallsSilent == ReplySpec => []AtMostOneStaleClip
<1>1. ReplyInv => AtMostOneStaleClip
  BY DEF ReplyInv, CutShort, AtMostOneStaleClip
<1>. QED
  BY <1>1, ReplyInvariant, PTL
=============================================================================
