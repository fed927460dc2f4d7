---------------------------- MODULE DeviceCalls ----------------------------
(***************************************************************************)
(* Folder work on a paired machine (src/backend/src/tools/desktop.rs): a   *)
(* turn sends a call over a machine's socket and waits for the answer,     *)
(* while sockets drop, come back and resume (ws/mod.rs, ws/hub.rs,         *)
(* ws/session.rs) and the desktop client does the work                     *)
(* (src/desktop/src-tauri/src/{ws,executor}.rs).                           *)
(*                                                                         *)
(* One user with several machines, of which Home keeps the folder.  A      *)
(* socket number is its Uuid::now_v7: a later connection has a greater     *)
(* one.  A turn makes one call and goes on after it.                       *)
(***************************************************************************)
EXTENDS Naturals, Sequences, FiniteSets, FiniteSetsExt, SequencesExt

CONSTANTS
  Machines,     \* the paired machines of the user
  NoMachine,    \* model value: a socket number not given out yet
  Calls,        \* folder calls, named by call_id
  Home,         \* target_device of every call: the folder's machine
  Interactive,  \* calls sent on the socket their turn came in on (TurnSocket);
                \* the others are a scheduled job's (DeviceRoute)
  Hello,        \* model value: the greeting frame, with its resume token
  MaxCalls,     \* bound on the calls made in a behaviour
  MaxSockets,   \* bound on the connections made
  MaxRestarts   \* bound on restarts of the desktop clients

ASSUME DeviceAssumption ==
  /\ Home \in Machines /\ Interactive \subseteq Calls
  /\ NoMachine \notin Machines /\ Hello \notin Calls
  /\ MaxCalls \in Nat /\ MaxSockets \in Nat /\ MaxRestarts \in Nat

Sockets == 1..MaxSockets

VARIABLES
  \* The server: the hub, each socket's writer task and the replay list.
  owner,    \* [Sockets -> machine the socket authenticated as]
  hub,      \* the sockets registered
  queue,    \* [Sockets -> frames handed to the socket's channel]
  writer,   \* [Sockets -> "new" or "resumed" until it is greeted, then the
            \* writer task, which holds the receiving end: "up" or "gone"]
  buffer,   \* pai:replay:{user}: the user's recent frames, oldest first
  \* The turns: DesktopCalls and execute.
  waiters,  \* the calls registered in DesktopCalls
  call,     \* [Calls -> where execute is]
  carrier,  \* [Calls -> the socket of an interactive turn, 0 for a job's]
  reply,    \* [Calls -> the answer in the oneshot, or the one taken from it]
  \* The desktop clients.
  conn,     \* [Machines -> its connection, 0 for none]
  token,    \* [Machines -> has a resume token at hand]
  wire,     \* [Sockets -> frames on their way to the client]
  doing,    \* [Calls -> how many times Home is at work on it]
  outbound, \* [Machines -> frames for the server, queued for whatever
            \* connection there is or sent and not read yet]
  restarts,
  \* History.
  reached,  \* [Calls -> the sockets a client read the call from]
  stop      \* [Calls -> has its turn been told to stop while it waits: "no",
            \* or whether the signal reached it: "heard", "unheard"]

hubVars    == <<owner, hub, queue, writer, buffer>>
turnVars   == <<waiters, call, carrier, reply>>
clientVars == <<conn, token, wire, doing, outbound, restarts>>
deviceVars == <<hubVars, turnVars, clientVars, reached, stop>>

Pending == {"waiting", "replied"}
Over == {"answered", "undelivered", "failed"}

SocketsOf(m) == {s \in hub : owner[s] = m}
Greeted(s) == writer[s] \in {"up", "gone"}

DeviceInit ==
  /\ owner = [s \in Sockets |-> NoMachine]
  /\ hub = {}
  /\ queue = [s \in Sockets |-> <<>>]
  /\ writer = [s \in Sockets |-> "none"]
  /\ buffer = <<>>
  /\ waiters = {}
  /\ call = [c \in Calls |-> "idle"]
  /\ carrier = [c \in Calls |-> 0]
  /\ reply = [c \in Calls |-> "none"]
  /\ conn = [m \in Machines |-> 0]
  /\ token = [m \in Machines |-> FALSE]
  /\ wire = [s \in Sockets |-> <<>>]
  /\ doing = [c \in Calls |-> 0]
  /\ outbound = [m \in Machines |-> <<>>]
  /\ restarts = 0
  /\ reached = [c \in Calls |-> {}]
  /\ stop = [c \in Calls |-> "no"]

-----------------------------------------------------------------------------
(* Sockets: handle_socket, its writer task and the end of its reader loop. *)

\* The client's run loop connects with the token it kept (resume.take()) or a
\* ticket; handle_socket registers the socket before anything else.
Connect(m) ==
  /\ conn[m] = 0
  /\ \E s \in Sockets :
       /\ owner[s] = NoMachine
       /\ \A r \in 1..(s - 1) : owner[r] # NoMachine
       /\ owner' = [owner EXCEPT ![s] = m]
       /\ hub' = hub \cup {s}
       /\ writer' = [writer EXCEPT ![s] = IF token[m] THEN "resumed" ELSE "new"]
       /\ conn' = [conn EXCEPT ![m] = s]
  /\ token' = [token EXCEPT ![m] = FALSE]
  /\ UNCHANGED <<queue, buffer, turnVars, wire, doing, outbound, restarts,
                 reached, stop>>

\* An attempt with a token that fails, or is refused after the window, spends it.
ConnectFails(m) ==
  /\ conn[m] = 0 /\ token[m]
  /\ token' = [token EXCEPT ![m] = FALSE]
  /\ UNCHANGED <<hubVars, turnVars, conn, wire, doing, outbound, restarts,
                 reached, stop>>

\* The hello, on a resume every frame of the replay list, then the writer.  On
\* a socket that is gone already the sends fail silently.
Greet(s) ==
  /\ writer[s] \in {"new", "resumed"}
  /\ writer' = [writer EXCEPT ![s] = "up"]
  /\ wire' = IF conn[owner[s]] # s THEN wire
             ELSE [wire EXCEPT ![s] = @ \o <<Hello>> \o
                     IF writer[s] = "resumed" THEN buffer ELSE <<>>]
  /\ UNCHANGED <<owner, hub, queue, buffer, turnVars, conn, token, doing,
                 outbound, restarts, reached, stop>>

\* The writer task: a call is a replayable frame, so it goes on the list before
\* it is sent.  On a connection that was cut the frame is lost, noticed or not.
Write(s) ==
  /\ writer[s] = "up" /\ queue[s] # <<>>
  /\ queue' = [queue EXCEPT ![s] = Tail(@)]
  /\ buffer' = Append(buffer, Head(queue[s]))
  /\ IF conn[owner[s]] = s
     THEN wire' = [wire EXCEPT ![s] = Append(@, Head(queue[s]))] /\ UNCHANGED writer
     ELSE writer' \in {writer, [writer EXCEPT ![s] = "gone"]} /\ UNCHANGED wire
  /\ UNCHANGED <<owner, hub, turnVars, conn, token, doing, outbound, restarts,
                 reached, stop>>

\* The heartbeat's ping fails, and what was queued goes with the channel.
WriterFails(s) ==
  /\ writer[s] = "up" /\ conn[owner[s]] # s
  /\ writer' = [writer EXCEPT ![s] = "gone"]
  /\ queue' = [queue EXCEPT ![s] = <<>>]
  /\ UNCHANGED <<owner, hub, buffer, turnVars, clientVars, reached, stop>>

\* The reader of a greeted socket finds the connection closed: the socket is
\* deregistered, its writer aborted; the turns it started go on.
ReaderEnds(s) ==
  /\ s \in hub /\ Greeted(s)
  /\ conn[owner[s]] # s
  /\ hub' = hub \ {s}
  /\ writer' = [writer EXCEPT ![s] = "gone"]
  /\ queue' = [queue EXCEPT ![s] = <<>>]
  /\ UNCHANGED <<owner, buffer, turnVars, clientVars, reached, stop>>

\* The list's key expires.
BufferExpires ==
  /\ buffer # <<>>
  /\ buffer' = <<>>
  /\ UNCHANGED <<owner, hub, queue, writer, turnVars, clientVars, reached, stop>>

-----------------------------------------------------------------------------
(* A call: desktop::execute and DesktopCalls.                              *)

\* A turn begins: one that came in on a socket of the folder's machine ...
Begins(c) == call[c] = "idle" /\ Cardinality({d \in Calls : call[d] # "idle"}) < MaxCalls

TurnBegins(c, s) ==
  /\ c \in Interactive /\ Begins(c)
  /\ s \in hub /\ Greeted(s) /\ conn[Home] = s
  /\ call' = [call EXCEPT ![c] = "thinking"]
  /\ carrier' = [carrier EXCEPT ![c] = s]
  /\ UNCHANGED <<hubVars, waiters, reply, clientVars, reached, stop>>

\* ... or a job's, which asks first whether the machine is on line.
JobBegins(c) ==
  /\ c \notin Interactive /\ Begins(c)
  /\ SocketsOf(Home) # {}
  /\ call' = [call EXCEPT ![c] = "thinking"]
  /\ UNCHANGED <<hubVars, waiters, carrier, reply, clientVars, reached, stop>>

Waits(c) ==
  /\ call' = [call EXCEPT ![c] = "waiting"]
  /\ waiters' = waiters \cup {c}
  /\ UNCHANGED <<reply, stop>>

\* execute returns, and the waiter and the receiver go with it.
Ends(c, how) ==
  /\ call' = [call EXCEPT ![c] = how]
  /\ reply' = [reply EXCEPT ![c] = IF how = "answered" THEN @ ELSE "none"]
  /\ waiters' = waiters \ {c}     \* CallGuard
  /\ stop' = [stop EXCEPT ![c] = "no"]

\* The turn's socket may be gone by the time it calls: tx.send fails once the
\* receiving end is dropped.
HandOffToTurn(c) ==
  /\ c \in Interactive /\ call[c] = "thinking"
  /\ IF writer[carrier[c]] # "gone"
     THEN /\ queue' = [queue EXCEPT ![carrier[c]] = Append(@, c)]
          /\ Waits(c)
     ELSE Ends(c, "undelivered") /\ UNCHANGED queue
  /\ UNCHANGED <<owner, hub, writer, buffer, carrier, clientVars, reached>>

\* send_to_device: the machine's newest socket or none; its channel may be full.
HandOffToDevice(c) ==
  /\ c \notin Interactive /\ call[c] = "thinking"
  /\ \/ /\ SocketsOf(Home) # {}
        /\ LET s == Max(SocketsOf(Home)) IN
             /\ writer[s] # "gone"
             /\ queue' = [queue EXCEPT ![s] = Append(@, c)]
        /\ Waits(c)
     \/ Ends(c, "undelivered") /\ UNCHANGED queue
  /\ UNCHANGED <<owner, hub, writer, buffer, carrier, clientVars, reached>>

\* The select! of execute: the answer, ...
Receive(c) ==
  /\ call[c] = "replied"
  /\ Ends(c, "answered")
  /\ UNCHANGED <<hubVars, carrier, clientVars, reached>>

\* Mutant: the presence poll of a job, for an interactive turn too.
SocketClosedIfAway(c) ==
  /\ c \in Interactive /\ call[c] \in Pending
  /\ SocketsOf(Home) = {}
  /\ Ends(c, "failed")
  /\ UNCHANGED <<hubVars, carrier, clientVars, reached>>

\* ... tx.closed() of the turn's own socket, ...
SocketClosed(c) ==
  /\ c \in Interactive /\ call[c] \in Pending
  /\ writer[carrier[c]] = "gone"
  /\ Ends(c, "failed")
  /\ UNCHANGED <<hubVars, carrier, clientVars, reached>>

\* ... the presence poll of a job, ...
WentOffline(c) ==
  /\ c \notin Interactive /\ call[c] \in Pending
  /\ SocketsOf(Home) = {}
  /\ Ends(c, "failed")
  /\ UNCHANGED <<hubVars, carrier, clientVars, reached>>

\* ... or the budget; and the future may be dropped with the step that polls it
\* (the loop's own timeout, a chat.cancel that was heard).
GiveUp(c) ==
  /\ call[c] \in Pending
  /\ Ends(c, "failed")
  /\ UNCHANGED <<hubVars, carrier, clientVars, reached>>

\* Mutant: a waiter is matched by its call alone.
AcceptsAny(c, m) == c \in waiters

\* DesktopCalls::resolve: only the machine the call was sent to is listened to.
Accepts(c, m) == c \in waiters /\ m = Home

\* The reader handles the next answer of the client.
Handle(s) ==
  /\ s \in hub /\ Greeted(s)
  /\ conn[owner[s]] = s /\ outbound[owner[s]] # <<>>
  /\ outbound' = [outbound EXCEPT ![owner[s]] = Tail(@)]
  /\ LET answer == Head(outbound[owner[s]]) IN
       IF Accepts(answer.call, owner[s])
       THEN /\ waiters' = waiters \ {answer.call}
            /\ call' = [call EXCEPT ![answer.call] = "replied"]
            /\ reply' = [reply EXCEPT ![answer.call] = answer.kind]
       ELSE UNCHANGED <<waiters, call, reply>>
  /\ UNCHANGED <<hubVars, carrier, conn, token, wire, doing, restarts, reached, stop>>

\* chat.cancel, from the connection the machine has now: hub.cancel_turn finds
\* the turn among those of that socket or not at all.  The signal is kept: a turn
\* that has it ends at its next step, or drops the call (GiveUp).
Stop(s, c) ==
  /\ s \in hub /\ Greeted(s) /\ conn[owner[s]] = s
  /\ c \in Interactive /\ call[c] \in Pending /\ owner[s] = Home
  /\ stop[c] = "no"
  /\ stop' = [stop EXCEPT ![c] = IF carrier[c] = s THEN "heard" ELSE "unheard"]
  /\ UNCHANGED <<hubVars, turnVars, clientVars, reached>>

-----------------------------------------------------------------------------
(* The desktop client: run, pump and the executor.                         *)

Answer(kind, c) == [kind |-> kind, call |-> c]

\* pump reads a frame: the hello's token is kept; a call is handled beside the
\* socket, and refused by a machine that has no record of the folder.
Read(m) ==
  /\ conn[m] # 0 /\ wire[conn[m]] # <<>>
  /\ wire' = [wire EXCEPT ![conn[m]] = Tail(@)]
  /\ LET frame == Head(wire[conn[m]]) IN
       IF frame = Hello
       THEN token' = [token EXCEPT ![m] = TRUE] /\ UNCHANGED <<doing, outbound, reached>>
       ELSE /\ reached' = [reached EXCEPT ![frame] = @ \cup {conn[m]}]
            /\ IF m = Home
               THEN doing' = [doing EXCEPT ![frame] = @ + 1] /\ UNCHANGED outbound
               ELSE /\ outbound' = [outbound EXCEPT ![m] = Append(@, Answer("refused", frame))]
                    /\ UNCHANGED doing
            /\ UNCHANGED token
  /\ UNCHANGED <<hubVars, turnVars, conn, restarts, stop>>

\* The work ends, by itself or stopped with its connection; the answer is queued
\* for whatever connection there will be.
Finish(c) ==
  /\ doing[c] > 0
  /\ doing' = [doing EXCEPT ![c] = @ - 1]
  /\ outbound' = [outbound EXCEPT ![Home] = Append(@, Answer("done", c))]
  /\ UNCHANGED <<hubVars, turnVars, conn, token, wire, restarts, reached, stop>>

\* What was on its way is lost with the connection.
Broken(m) ==
  /\ conn[m] # 0
  /\ conn' = [conn EXCEPT ![m] = 0]
  /\ wire' = [wire EXCEPT ![conn[m]] = <<>>]

\* The connection breaks: the client goes on, with the token it read on it.
Cut(m) ==
  /\ Broken(m)
  /\ \E sent \in 0..Len(outbound[m]) :
       outbound' = [outbound EXCEPT ![m] = SubSeq(@, sent + 1, Len(@))]
  /\ UNCHANGED <<hubVars, turnVars, token, doing, restarts, reached, stop>>

\* The client is started again.
ClientRestarts(m) ==
  /\ restarts < MaxRestarts
  /\ restarts' = restarts + 1
  /\ Broken(m)
  /\ token' = [token EXCEPT ![m] = FALSE]
  /\ outbound' = [outbound EXCEPT ![m] = <<>>]
  /\ doing' = IF m = Home THEN [c \in Calls |-> 0] ELSE doing
  /\ UNCHANGED <<hubVars, turnVars, reached, stop>>

-----------------------------------------------------------------------------
DeviceNext ==
  \/ \E m \in Machines :
       Connect(m) \/ ConnectFails(m) \/ Read(m) \/ Cut(m) \/ ClientRestarts(m)
  \/ \E s \in Sockets :
       Greet(s) \/ Write(s) \/ WriterFails(s) \/ ReaderEnds(s) \/ Handle(s)
  \/ \E c \in Calls :
       \/ \E s \in Sockets : TurnBegins(c, s) \/ Stop(s, c)
       \/ JobBegins(c) \/ HandOffToTurn(c) \/ HandOffToDevice(c)
       \/ Receive(c) \/ SocketClosed(c) \/ WentOffline(c) \/ GiveUp(c)
       \/ Finish(c)
  \/ BufferExpires

\* The server's own tasks keep running and TCP reports a dead peer.  The budget
\* (GiveUp) is left out, so that what ends a call is not the timer.
DeviceFairness ==
  /\ \A s \in Sockets : WF_deviceVars(Greet(s)) /\ WF_deviceVars(ReaderEnds(s))
  /\ \A c \in Interactive : WF_deviceVars(SocketClosed(c))

DeviceSpec == DeviceInit /\ [][DeviceNext]_deviceVars /\ DeviceFairness

-----------------------------------------------------------------------------
(* Properties.                                                             *)

DeviceTypeOK ==
  /\ owner \in [Sockets -> Machines \cup {NoMachine}]
  /\ hub \subseteq Sockets
  /\ queue \in [Sockets -> Seq(Calls)]
  /\ writer \in [Sockets -> {"none", "new", "resumed", "up", "gone"}]
  /\ buffer \in Seq(Calls)
  /\ waiters \subseteq Calls
  /\ call \in [Calls -> {"idle", "thinking"} \cup Pending \cup Over]
  /\ carrier \in [Calls -> Sockets \cup {0}]
  /\ reply \in [Calls -> {"none", "done", "refused"}]
  /\ conn \in [Machines -> Sockets \cup {0}]
  /\ token \in [Machines -> BOOLEAN]
  /\ wire \in [Sockets -> Seq(Calls \cup {Hello})]
  /\ doing \in [Calls -> Nat]
  /\ outbound \in [Machines -> Seq([kind : {"done", "refused"}, call : Calls])]
  /\ restarts \in 0..MaxRestarts
  /\ reached \in [Calls -> SUBSET Sockets]
  /\ stop \in [Calls -> {"no", "heard", "unheard"}]

\* What execute tells the model is what happened.  An answer is that of the
\* folder's own machine, though others of the user may be sent the call again on
\* a resume and refuse it (resolve); and after "the desktop client is no longer
\* connected, so nothing was done" no machine has been given the call, nor will be.
VerdictIsTrue == \A c \in Calls :
  /\ call[c] = "answered" => reply[c] = "done"
  /\ call[c] = "undelivered" => reached[c] = {}

\* "None of them is waiting forever": a turn whose socket has gone stops waiting,
\* by something else than its budget, also when the machine is back on another
\* socket by then (tx.closed() in execute, the writer's end in handle_socket).
LostMachineEndsCall ==
  \A c \in Interactive :
    (call[c] \in Pending /\ conn[Home] # carrier[c]) ~> call[c] \in Over

\* "A call is delivered to one device's socket" (state.rs).
DeliveredToOneSocket == \A c \in Calls : Cardinality(reached[c]) <= 1

\* "Explicit chat.cancel still cancels" a turn whose socket has gone
\* (handle_socket).
CancelIsHeard == \A c \in Calls : stop[c] # "unheard"

=============================================================================
